----------------------------- MODULE DataLemmas -----------------------------
(***************************************************************************)
(* Facts about numbers and sequences that proofs of several components     *)
(* need.  What would be an induction over a number is an argument about    *)
(* the least number for which a statement fails.                           *)
(***************************************************************************)
EXTENDS Naturals, Sequences, SequencesExt, FiniteSetTheorems, WellFoundedInduction, TLAPS

-----------------------------------------------------------------------------
(* Numbers.                                                                *)

\* Every non-empty set of natural numbers has a least element.
LEMMA Least ==
    ASSUME NEW S, S \subseteq Nat, S # {}
    PROVE  \E x \in S : \A y \in S : x <= y
  <1> DEFINE T == {0 .. x : x \in S}
             F == FiniteSubsetsOf(Nat)
  <1>1. T \subseteq F /\ T # {}
    <2>1. \A x \in S : 0 .. x \in SUBSET Nat /\ IsFiniteSet(0 .. x)
      BY FS_Interval
    <2> QED
      BY <2>1 DEF FiniteSubsetsOf
  <1> HIDE DEF F
  <1>2. PICK t \in T : \A u \in T : << u, t >> \notin StrictSubsetOrdering(Nat)
    <2>1. IsWellFoundedOn(StrictSubsetOrdering(Nat), F)
      BY FS_StrictSubsetOrderingWellFounded DEF F
    <2> QED
      BY <1>1, <2>1, WFMin
  <1>3. PICK x \in S : t = 0 .. x
    OBVIOUS
  <1>4. ASSUME NEW y \in S, y < x PROVE FALSE
    <2>1. 0 .. y \in T /\ 0 .. y \subseteq 0 .. x /\ x \in 0 .. x /\ x \notin 0 .. y
      BY <1>4
    <2>2. 0 .. x \in SUBSET Nat /\ 0 .. y \in SUBSET Nat
      OBVIOUS
    <2> QED
      BY <1>2, <1>3, <2>1, <2>2 DEF StrictSubsetOrdering
  <1> QED
    BY <1>4

-----------------------------------------------------------------------------
(* Sequences.                                                              *)

LEMMA ElementsOfBoth ==
    ASSUME NEW S, NEW s \in Seq(S), NEW t \in Seq(S)
    PROVE  \A x : x \in ToSet(s \o t) <=> x \in ToSet(s) \/ x \in ToSet(t)
<1>1. s \o t \in Seq(S) /\ Len(s \o t) = Len(s) + Len(t)
    OBVIOUS
<1>2. ASSUME NEW x, x \in ToSet(s \o t) PROVE x \in ToSet(s) \/ x \in ToSet(t)
    <2>1. PICK i \in 1 .. Len(s) + Len(t) : x = (s \o t)[i]
        BY <1>1, <1>2 DEF ToSet
    <2>2. CASE i <= Len(s)
        BY <2>1, <2>2 DEF ToSet
    <2>3. CASE i > Len(s)
        <3>1. i - Len(s) \in 1 .. Len(t) /\ x = t[i - Len(s)]
            BY <2>1, <2>3
        <3>. QED  BY <3>1 DEF ToSet
    <2>. QED  BY <2>1, <2>2, <2>3
<1>3. ASSUME NEW x, x \in ToSet(s) PROVE x \in ToSet(s \o t)
    <2>1. PICK i \in 1 .. Len(s) : x = s[i]
        BY <1>3 DEF ToSet
    <2>2. i \in 1 .. Len(s \o t) /\ (s \o t)[i] = x
        BY <1>1, <2>1
    <2>. QED  BY <1>1, <2>2 DEF ToSet
<1>4. ASSUME NEW x, x \in ToSet(t) PROVE x \in ToSet(s \o t)
    <2>1. PICK i \in 1 .. Len(t) : x = t[i]
        BY <1>4 DEF ToSet
    <2>2. i + Len(s) \in 1 .. Len(s \o t) /\ (s \o t)[i + Len(s)] = x
        BY <1>1, <2>1
    <2>. QED  BY <1>1, <2>2 DEF ToSet
<1>. QED  BY <1>2, <1>3, <1>4

-----------------------------------------------------------------------------
(* FlattenSeq.                                                             *)

\* What FlattenSeq puts together of the first i sequences.
Flattening(ss, n, f) ==
    f = [i \in 1 .. n |-> IF i = 1 THEN ss[i] ELSE f[i - 1] \o ss[i]]

\* The recursion has a solution for every number of sequences.
LEMMA FlatteningExists ==
    ASSUME NEW ss, NEW n \in Nat
    PROVE  \E f : Flattening(ss, n, f)
<1>. DEFINE Without == {m \in Nat : ~ \E f : Flattening(ss, m, f)}
<1>. SUFFICES ASSUME Without # {} PROVE FALSE
    OBVIOUS
<1>1. PICK m \in Without : \A k \in Without : m <= k
    BY Least
<1>2. CASE m = 0
    <2>. DEFINE g == [i \in 1 .. 0 |-> 0]
    <2>1. Flattening(ss, m, g)
        BY <1>2 DEF Flattening
    <2>. QED  BY <2>1
<1>3. CASE m # 0
    <2>1. m \in Nat /\ m - 1 \in Nat /\ m - 1 \notin Without
        BY <1>1, <1>3
    <2>2. PICK f : Flattening(ss, m - 1, f)
        BY <2>1
    <2>. DEFINE g == [i \in 1 .. m |-> IF i = 1 THEN ss[i]
                                     ELSE IF i = m THEN f[i - 1] \o ss[i] ELSE f[i]]
    <2>3. \A i \in 1 .. m : g[i] = IF i = 1 THEN ss[i] ELSE g[i - 1] \o ss[i]
        <3>. SUFFICES ASSUME NEW i \in 1 .. m, i # 1
                      PROVE  g[i] = g[i - 1] \o ss[i]
            OBVIOUS
        <3>0. i - 1 \in 1 .. m - 1 /\ i - 1 # m
            BY <2>1
        <3>1. f[i - 1] = g[i - 1]
            <4>1. i - 1 = 1 => f[i - 1] = ss[i - 1]
                BY <2>1, <2>2, <3>0 DEF Flattening
            <4>2. g[i - 1] = IF i - 1 = 1 THEN ss[i - 1] ELSE f[i - 1]
                BY <2>1, <3>0
            <4>. QED  BY <4>1, <4>2
        <3>2. i # m => f[i] = f[i - 1] \o ss[i]
            <4>1. i # m => i \in 1 .. m - 1
                BY <2>1
            <4>. QED  BY <2>2, <4>1 DEF Flattening
        <3>. QED  BY <3>1, <3>2
    <2>4. Flattening(ss, m, g)
        BY <2>3 DEF Flattening
    <2>. QED  BY <2>4
<1>. QED  BY <1>2, <1>3

LEMMA FlattenSeqFolds ==
    ASSUME NEW ss, Len(ss) \in Nat \ {0}
    PROVE  \E f : Flattening(ss, Len(ss), f) /\ FlattenSeq(ss) = f[Len(ss)]
<1>. DEFINE f == CHOOSE g : Flattening(ss, Len(ss), g)
<1>1. Flattening(ss, Len(ss), f)
    BY FlatteningExists
<1>2. FlattenSeq(ss) = f[Len(ss)]
    BY DEF FlattenSeq, Flattening
<1>. QED  BY <1>1, <1>2

\* A sequence of sequences, one after the other: a sequence of their elements
\* and of nothing else.
LEMMA FlattenSeqElements ==
    ASSUME NEW S, NEW ss \in Seq(Seq(S))
    PROVE  /\ FlattenSeq(ss) \in Seq(S)
           /\ \A x : x \in ToSet(FlattenSeq(ss)) <=> \E i \in 1 .. Len(ss) : x \in ToSet(ss[i])
<1>1. CASE Len(ss) = 0
    <2>1. FlattenSeq(ss) = ss /\ ss = << >>
        BY <1>1 DEF FlattenSeq
    <2>. QED  BY <2>1 DEF ToSet
<1>2. CASE Len(ss) # 0
    <2>. DEFINE n == Len(ss)
    <2>1. n \in Nat \ {0}
        BY <1>2
    <2>2. PICK f : Flattening(ss, n, f) /\ FlattenSeq(ss) = f[n]
        BY <2>1, FlattenSeqFolds
    <2>. DEFINE Ok(m) == /\ f[m] \in Seq(S)
                         /\ \A x : x \in ToSet(f[m]) <=> \E i \in 1 .. m : x \in ToSet(ss[i])
                Bad == {m \in 1 .. n : ~Ok(m)}
    <2>3. Bad = {}
        <3>. SUFFICES ASSUME Bad # {} PROVE FALSE
            OBVIOUS
        <3>1. Bad \subseteq Nat
            BY <2>1
        <3>2. PICK m \in Bad : \A k \in Bad : m <= k
            BY <3>1, Least
        <3>3. m \in 1 .. n /\ ss[m] \in Seq(S)
            BY <2>1
        <3>4. CASE m = 1
            <4>1. f[1] = ss[1]
                BY <2>1, <2>2 DEF Flattening
            <4>2. Ok(1)
                BY <3>3, <3>4, <4>1
            <4>. QED  BY <3>2, <3>4, <4>2
        <3>5. CASE m # 1
            <4>1. m - 1 \in 1 .. n /\ m - 1 < m
                BY <2>1, <3>3, <3>5
            <4>2. Ok(m - 1)
                <5>. HIDE DEF Ok
                <5>1. m - 1 \notin Bad
                    BY <3>2, <3>3, <4>1
                <5>. QED  BY <4>1, <5>1
            <4>3. f[m] = f[m - 1] \o ss[m]
                BY <2>2, <3>3, <3>5 DEF Flattening
            <4>4. \A x : x \in ToSet(f[m]) <=> x \in ToSet(f[m - 1]) \/ x \in ToSet(ss[m])
                BY <3>3, <4>2, <4>3, ElementsOfBoth
            <4>5. \A i : i \in 1 .. m <=> i \in 1 .. m - 1 \/ i = m
                BY <3>3
            <4>6. Ok(m)
                BY <3>3, <4>2, <4>3, <4>4, <4>5
            <4>. QED  BY <3>2, <4>6
        <3>. QED  BY <3>4, <3>5
    <2>4. Ok(n)
        <3>. HIDE DEF Ok
        <3>. QED  BY <2>1, <2>3
    <2>. QED  BY <2>2, <2>4
<1>. QED  BY <1>1, <1>2

=============================================================================
