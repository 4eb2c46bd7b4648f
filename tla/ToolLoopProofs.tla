--------------------------- MODULE ToolLoopProofs ---------------------------
(***************************************************************************)
(* Theorems about ToolLoop, for every set of tools and providers and every *)
(* limit.  The invariant is one of the stack: what a frame may be at its   *)
(* place (Good), and what a frame is while another is above it (Waiting).  *)
(* Traced adds who has to write the reply and whose origin it is.          *)
(***************************************************************************)
EXTENDS ToolLoop, SequenceTheorems, TLAPS

\* The requests that the rounds of a conversation's loops account for: the
\* first loop used MaxIterations - budget rounds and one request more.
Spent(f) ==
    (IF f.rewriting THEN (MaxIterations - f.budget) + 1 ELSE 0) + f.rounds

\* The requests of a conversation are one per round, the one under way, the
\* one that ended the first loop and the summary.
WithinBudget(f) ==
    /\ f.asked <= MaxIterations + 2
    /\ ~ f.rewriting /\ f.at \in {"select", "asked", "calls"} => f.budget = MaxIterations
    /\ f.at \in {"start", "select"} => f.asked <= Spent(f)
    /\ f.at \in {"asked", "calls"} => f.asked <= Spent(f) + 1
    /\ f.at = "start" => f.asked = 0 /\ ~ f.rewriting

\* Rounds and messages of any loop.
InRounds(f) ==
    /\ f.rounds <= f.budget
    /\ f.at \in {"asked", "calls"} => f.rounds < f.budget
    /\ f.at = "calls" => f.open = f.left
    /\ f.at \in {"start", "select", "asked", "summary", "single"} => f.open = 0

\* What the frame at place i is.
Good(f, i) ==
    /\ f \in Frame
    /\ f.depth = i - 1 /\ f.depth <= MAX_TOOL_CALL_DEPTH
    /\ f.kind = "conversation" <=> i = 1
    /\ f.kind = "tool" => f.at = "start"
    /\ InRounds(f)
    /\ f.kind = "conversation" => WithinBudget(f)

\* What a frame is while a tool that it called is above it.
Waiting(f) == f.kind # "tool" => f.at = "calls" /\ f.left > 0

StackOK(s) ==
    /\ s \in Seq(Frame) /\ s # << >>
    /\ \A i \in 1 .. Len(s) : Good(s[i], i)
    /\ \A i \in 1 .. Len(s) - 1 : Waiting(s[i])

Reply == [kind : {"none", "reply", "fixed", "error"},
          writer : Keys \cup {None}, first : Keys \cup {None},
          notice : BOOLEAN, seen : BOOLEAN]

RestOK ==
    /\ origin \in Tools \cup {None}
    /\ key \in Keys \cup {None}
    /\ onLimit \in LimitModes
    /\ reply \in Reply

IInv == StackOK(stack) /\ RestOK

-----------------------------------------------------------------------------
(* The stack.                                                              *)

LEMMA ReplaceTop ==
    ASSUME NEW s, StackOK(s), NEW f, Good(f, Len(s))
    PROVE  StackOK([s EXCEPT ![Len(s)] = f])
  <1> DEFINE t == [s EXCEPT ![Len(s)] = f]
  <1>1. /\ s \in Seq(Frame) /\ Len(s) \in Nat \ {0} /\ f \in Frame
    BY DEF StackOK, Good
  <1>2. /\ t \in Seq(Frame) /\ t # << >> /\ Len(t) = Len(s)
        /\ \A i \in 1 .. Len(s) - 1 : t[i] = s[i]
        /\ t[Len(s)] = f
    BY <1>1, ExceptSeq
  <1>3. \A i \in 1 .. Len(t) : Good(t[i], i)
    <2> HIDE DEF t
    <2> QED BY <1>1, <1>2 DEF StackOK
  <1>4. \A i \in 1 .. Len(t) - 1 : Waiting(t[i])
    <2> HIDE DEF t
    <2> QED BY <1>1, <1>2 DEF StackOK
  <1> QED BY <1>2, <1>3, <1>4 DEF StackOK

LEMMA Push ==
    ASSUME NEW s, StackOK(s), Waiting(s[Len(s)]), NEW f, Good(f, Len(s) + 1)
    PROVE  StackOK(Append(s, f))
  <1> DEFINE t == Append(s, f)
  <1>1. /\ s \in Seq(Frame) /\ Len(s) \in Nat \ {0} /\ f \in Frame
    BY DEF StackOK, Good
  <1>2. /\ t \in Seq(Frame) /\ t # << >> /\ Len(t) = Len(s) + 1
        /\ \A i \in 1 .. Len(s) : t[i] = s[i]
        /\ t[Len(s) + 1] = f
    BY <1>1
  <1>3. \A i \in 1 .. Len(t) : Good(t[i], i)
    <2> HIDE DEF t
    <2> QED BY <1>1, <1>2 DEF StackOK
  <1>4. \A i \in 1 .. Len(t) - 1 : Waiting(t[i])
    <2> HIDE DEF t
    <2> QED BY <1>1, <1>2 DEF StackOK
  <1> QED BY <1>2, <1>3, <1>4 DEF StackOK

\* What is left when the top frame goes and the one below it becomes f.
LEMMA PopIs ==
    ASSUME NEW s \in Seq(Frame), Len(s) > 1, NEW f \in Frame
    PROVE  LET t == Append(SubSeq(s, 1, Len(s) - 2), f)
           IN  /\ t \in Seq(Frame) /\ t # << >> /\ Len(t) = Len(s) - 1
               /\ \A i \in 1 .. Len(s) - 2 : t[i] = s[i]
               /\ t[Len(s) - 1] = f
  <1> DEFINE n == Len(s)
             t == Append(SubSeq(s, 1, n - 2), f)
  <1>1. n \in Nat /\ n > 1
    OBVIOUS
  <1> DEFINE u == SubSeq(s, 1, n - 2)
  <1>a. /\ 1 \in Int /\ n - 2 \in Int
        /\ \A i \in 1 .. n - 2 : s[i] \in Frame
    BY <1>1, ElementOfSeq
  <1>b. /\ u \in Seq(Frame)
        /\ Len(u) = IF 1 <= n - 2 THEN n - 2 - 1 + 1 ELSE 0
        /\ \A i \in 1 .. n - 2 - 1 + 1 : u[i] = s[1 + i - 1]
    <2> HIDE DEF n
    <2> QED BY ONLY <1>a, SubSeqProperties
  <1>2. /\ u \in Seq(Frame) /\ Len(u) = n - 2
        /\ \A i \in 1 .. n - 2 : u[i] = s[i]
    <2> HIDE DEF u, n
    <2>1. n - 2 \in Nat /\ n - 2 - 1 + 1 = n - 2
      BY <1>1
    <2>2. Len(u) = n - 2
      BY <1>b, <2>1
    <2>3. ASSUME NEW i \in 1 .. n - 2 PROVE u[i] = s[i]
      <3>1. i \in 1 .. n - 2 - 1 + 1 /\ 1 + i - 1 = i
        BY <2>1
      <3> HIDE <1>1
      <3> QED BY <1>b, <3>1
    <2> QED BY <1>b, <2>2, <2>3
  <1>3. /\ t \in Seq(Frame) /\ t # << >> /\ Len(t) = n - 1
        /\ \A i \in 1 .. n - 2 : t[i] = s[i]
        /\ t[n - 1] = f
    <2> HIDE DEF u
    <2>1. t = Append(u, f)
      BY DEF u
    <2> HIDE DEF t
    <2> QED BY <1>1, <1>2, <2>1, AppendProperties
  <1> QED BY <1>3

LEMMA Pop ==
    ASSUME NEW s, StackOK(s), Len(s) > 1, NEW f, Good(f, Len(s) - 1)
    PROVE  StackOK(Append(SubSeq(s, 1, Len(s) - 2), f))
  <1> DEFINE n == Len(s)
             t == Append(SubSeq(s, 1, n - 2), f)
  <1>1. /\ s \in Seq(Frame) /\ n \in Nat /\ n > 1 /\ f \in Frame
    BY DEF StackOK, Good
  <1>2. /\ t \in Seq(Frame) /\ t # << >> /\ Len(t) = n - 1
        /\ \A i \in 1 .. n - 2 : t[i] = s[i]
        /\ t[n - 1] = f
    BY <1>1, PopIs
  <1>3. \A i \in 1 .. Len(t) : Good(t[i], i)
    <2> HIDE DEF t
    <2> QED BY <1>1, <1>2 DEF StackOK
  <1>4. \A i \in 1 .. Len(t) - 1 : Waiting(t[i])
    <2> HIDE DEF t
    <2> QED BY <1>1, <1>2 DEF StackOK
  <1> QED BY <1>2, <1>3, <1>4 DEF StackOK

-----------------------------------------------------------------------------
(* The frames.                                                             *)

Results == {"ok", "failed", "auth"}

\* The settings of a tool are those of the caller and its own, so they stay
\* within what the keys may be.
LEMMA MergedSettings ==
    ASSUME NEW c \in Settings, NEW d \in Settings
    PROVE  Merged(c, d) \in Settings
  <1> DEFINE m == Merged(c, d)
             names == DOMAIN c \cup DOMAIN d
  <1>1. PICK cn \in SUBSET DOMAIN Legal :
            c \in [cn -> UNION {Legal[k] : k \in DOMAIN Legal}]
    BY DEF Settings
  <1>2. PICK dn \in SUBSET DOMAIN Legal :
            d \in [dn -> UNION {Legal[k] : k \in DOMAIN Legal}]
    BY DEF Settings
  <1>3. names \in SUBSET DOMAIN Legal /\ m \in [names -> UNION {Legal[k] : k \in DOMAIN Legal}]
    BY <1>1, <1>2 DEF Merged
  <1>4. \A k \in DOMAIN m : m[k] \in Legal[k]
    BY DEF Merged, Settings
  <1> QED BY <1>3, <1>4 DEF Settings

LEMMA EmptySettings == [k \in {} |-> None] \in Settings
  <1>1. [k \in {} |-> None] \in [{} -> UNION {Legal[k] : k \in DOMAIN Legal}]
    OBVIOUS
  <1> QED BY <1>1 DEF Settings

LEMMA BlankIsFrame == Blank \in Frame
  BY EmptySettings, LimitsAssumption DEF Blank, Frame, AskedBound

\* What a loop is given for its call keeps open equal to left.
LEMMA GivenGood ==
    ASSUME NEW f, NEW i \in Nat \ {0}, Good(f, i), Waiting(f), NEW r \in Results
    PROVE  Good(Given(f, r), i)
  <1>1. CASE f.kind = "tool"
    BY <1>1 DEF Good, Given, Frame, InRounds, WithinBudget
  <1>2. CASE f.kind # "tool"
    <2> DEFINE a == f.auth \/ r = "auth"
               e == f.seen \/ r = "auth"
               g == [f EXCEPT !.auth = a, !.seen = e]
    <2>1. a \in BOOLEAN /\ e \in BOOLEAN
      OBVIOUS
    <2>2. f.at = "calls" /\ f.left > 0 /\ f.open = f.left
      BY <1>2 DEF Waiting, Good, InRounds
    <2>3. Given(f, r) = IF r = "auth" /\ StopsOnAuth(f)
                        THEN [g EXCEPT !.at = "stopped"]
                        ELSE [g EXCEPT !.left = @ - 1, !.open = @ - 1]
      BY <1>2 DEF Given, Takes, Messages
    <2> HIDE DEF a, e
    <2> DEFINE h == [g EXCEPT !.at = "stopped"]
               j == [g EXCEPT !.left = @ - 1, !.open = @ - 1]
    <2>4. Good(h, i) \/ f.kind = "conversation"
      <3>1. h \in Frame
        BY <2>1 DEF Good, Frame
      <3>2. h.kind = f.kind /\ h.at = "stopped" /\ h.depth = f.depth
            /\ h.rounds = f.rounds /\ h.budget = f.budget
        BY DEF Good, Frame
      <3> HIDE DEF h
      <3> QED BY <1>2, <3>1, <3>2 DEF Good, InRounds
    <2>5. Good(j, i)
      <3>a. f.left - 1 \in 0 .. MaxCalls /\ f.open - 1 \in 0 .. MaxCalls
        BY <2>2, LimitsAssumption DEF Good, Frame
      <3>b. g \in Frame
        BY <2>1 DEF Good, Frame
      <3>c. g.left = f.left /\ g.open = f.open
        BY DEF Good, Frame
      <3>1. j \in Frame
        <4> HIDE DEF g
        <4> DEFINE x == g.left - 1
                   y == g.open - 1
        <4>1. x \in 0 .. MaxCalls /\ y \in 0 .. MaxCalls
          BY <3>a, <3>c
        <4> HIDE DEF x, y
        <4>2. [g EXCEPT !.left = x, !.open = y] \in Frame
          BY <3>b, <4>1 DEF Frame
        <4> QED BY <4>2 DEF x, y, j
      <3>2. /\ j.kind = f.kind /\ j.at = f.at /\ j.depth = f.depth
            /\ j.rounds = f.rounds /\ j.budget = f.budget
            /\ j.asked = f.asked /\ j.rewriting = f.rewriting
            /\ j.open = f.open - 1 /\ j.left = f.left - 1
        BY DEF Good, Frame
      <3> HIDE DEF j
      <3> QED BY <2>2, <3>1, <3>2 DEF Good, InRounds, WithinBudget, Spent
    <2>6. StopsOnAuth(f) => f.kind # "conversation"
      BY DEF StopsOnAuth
    <2> QED BY <2>3, <2>4, <2>5, <2>6
  <1> QED BY <1>1, <1>2

\* The frame of a tool that is called.
LEMMA FrameOfTool ==
    ASSUME NEW k \in {"tool", "expert"}, NEW t \in Tools, NEW d \in Nat,
           NEW o \in Tools \cup {None}, NEW m \in Settings
    PROVE  [Blank EXCEPT !.kind = k, !.tool = t, !.depth = d, !.outer = o,
                         !.settings = m] \in Frame
  <1> DEFINE b == Blank
             g == [b EXCEPT !.kind = k, !.tool = t]
             h == [g EXCEPT !.depth = d, !.outer = o]
             j == [h EXCEPT !.settings = m]
  <1>1. b \in Frame
    BY BlankIsFrame
  <1> HIDE DEF b
  <1>2. g \in Frame
    BY <1>1 DEF Frame
  <1>3. h \in Frame
    <2> HIDE DEF g
    <2> QED BY <1>2 DEF Frame
  <1>4. j \in Frame
    <2> HIDE DEF h
    <2> QED BY <1>3 DEF Frame
  <1>5. j = [b EXCEPT !.kind = k, !.tool = t, !.depth = d, !.outer = o, !.settings = m]
    BY <1>1 DEF Frame
  <1> QED BY <1>4, <1>5 DEF b

LEMMA EnteredGood ==
    ASSUME NEW f, NEW i \in Nat \ {0}, Good(f, i), NEW t \in Tools,
           f.depth < MAX_TOOL_CALL_DEPTH, origin \in Tools \cup {None}
    PROVE  Good(Entered(t, f), i + 1)
  <1>1. f.settings \in Settings /\ f.depth = i - 1
    BY DEF Good, Frame
  <1>2. Merged(f.settings, Config[t]) \in Settings
    BY <1>1, MergedSettings, ToolsAssumption
  <1> HIDE DEF Merged
  <1>3. Entered(t, f) \in Frame
    <2> DEFINE m == Merged(f.settings, Config[t])
               k == IF Kind[t] = "expert" THEN "expert" ELSE "tool"
    <2>1. m \in Settings /\ k \in {"tool", "expert"} /\ f.depth + 1 \in Nat
      BY <1>2 DEF Good, Frame
    <2>2. Entered(t, f) = [Blank EXCEPT !.kind = k, !.tool = t, !.depth = f.depth + 1,
                                        !.outer = origin, !.settings = m]
      BY DEF Entered, Deeper
    <2> DEFINE d == f.depth + 1
    <2> HIDE DEF m, k, d
    <2>3. d \in Nat
      BY <2>1 DEF d
    <2>4. [Blank EXCEPT !.kind = k, !.tool = t, !.depth = d, !.outer = origin,
                        !.settings = m] \in Frame
      BY <2>1, <2>3, FrameOfTool
    <2> QED BY <2>2, <2>4 DEF d
  <1> QED
    BY <1>1, <1>3, LimitsAssumption DEF Entered, Good, Deeper, Blank, InRounds

-----------------------------------------------------------------------------
(* What a frame becomes.                                                   *)

\* Fields of a frame that moves on; the rest does not matter here.
Same(h, f) ==
    /\ h.kind = f.kind /\ h.depth = f.depth /\ h.rewriting = f.rewriting
    /\ h.open = f.open

LEMMA OverGood ==
    ASSUME NEW f, NEW i \in Nat \ {0}, Good(f, i), f.kind = "conversation"
    PROVE  Good([f EXCEPT !.at = "over"], i)
  <1> DEFINE h == [f EXCEPT !.at = "over"]
  <1>1. h \in Frame
    BY DEF Good, Frame
  <1>2. Same(h, f) /\ h.at = "over" /\ h.rounds = f.rounds /\ h.budget = f.budget /\ h.asked = f.asked
    BY DEF Good, Frame, Same
  <1> HIDE DEF h
  <1>3. Good(h, i)
    BY <1>1, <1>2 DEF Good, InRounds, WithinBudget, Same
  <1> QED BY <1>3 DEF h

\* A loop begins: a conversation's with the whole budget, an expert's too.
LEMMA LoopBegins ==
    ASSUME NEW f, NEW i \in Nat \ {0}, Good(f, i), f.kind # "tool", f.at = "start",
           NEW b \in BOOLEAN, NEW k \in Keys \cup {None}
    PROVE  Good([f EXCEPT !.at = "select", !.bad = b, !.fixed = k, !.budget = MaxIterations], i)
  <1> DEFINE h == [f EXCEPT !.at = "select", !.bad = b, !.fixed = k, !.budget = MaxIterations]
  <1>a. MaxIterations \in Nat /\ MaxIterations \in 0 .. MaxIterations
    BY LimitsAssumption
  <1>b. f \in Frame
    BY DEF Good
  <1>1. h \in Frame
    BY <1>a, <1>b DEF Frame
  <1>2. Same(h, f) /\ h.at = "select" /\ h.rounds = f.rounds
        /\ h.budget = MaxIterations /\ h.asked = f.asked
    BY DEF Good, Frame, Same
  <1>3. f.rounds \in 0 .. MaxIterations /\ f.open = 0
    BY DEF Good, Frame, InRounds
  <1>4. f.kind = "conversation" => f.asked = 0 /\ ~ f.rewriting
    BY DEF Good, WithinBudget
  <1> HIDE DEF h
  <1>5. Good(h, i)
    BY <1>1, <1>2, <1>3, <1>4, <1>a DEF Good, InRounds, WithinBudget, Spent, Same
  <1> QED BY <1>5 DEF h

\* A request is made: to is the place it is made from.
LEMMA Requested ==
    ASSUME NEW f, NEW i \in Nat \ {0}, Good(f, i), f.kind # "tool", NEW b \in BOOLEAN,
           NEW k \in Keys \cup {None}, NEW l \in Keys \cup {None}, NEW to,
           \/ to = "single" /\ f.at = "start"
           \/ to = "asked" /\ f.at = "select" /\ f.rounds < f.budget
           \/ to = "summary" /\ f.at = "select"
    PROVE  LET g == [f EXCEPT !.at = to, !.bad = b, !.provider = k, !.first = l]
           IN  Good([g EXCEPT !.asked = IF @ < AskedBound THEN @ + 1 ELSE @], i)
  <1> DEFINE n == IF f.asked < AskedBound THEN f.asked + 1 ELSE f.asked
             h == [f EXCEPT !.at = to, !.bad = b, !.provider = k, !.first = l, !.asked = n]
  <1>a. MaxIterations \in Nat /\ f.rounds \in 0 .. MaxIterations /\ f.budget \in 0 .. MaxIterations
        /\ f.rounds <= f.budget /\ f.open = 0 /\ f.asked \in 0 .. AskedBound
    BY LimitsAssumption DEF Good, Frame, InRounds
  <1>b. n \in 0 .. AskedBound /\ n <= f.asked + 1
    BY <1>a DEF AskedBound
  <1> HIDE DEF n
  <1>1. h \in Frame
    BY <1>b DEF Good, Frame
  <1>2. Same(h, f) /\ h.at = to /\ h.rounds = f.rounds /\ h.budget = f.budget /\ h.asked = n
    BY DEF Good, Frame, Same
  <1> HIDE DEF h
  <1>3. f.kind = "conversation" =>
            /\ f.asked <= Spent(f)
            /\ ~ f.rewriting /\ f.at = "select" => f.budget = MaxIterations
            /\ f.at = "start" => f.asked = 0
    BY DEF Good, WithinBudget
  <1>4. Spent(h) = Spent(f)
    BY <1>2 DEF Spent, Same
  <1>5. f.rewriting \in BOOLEAN
    BY DEF Good, Frame
  <1>6. Spent(f) <= MaxIterations + 1 /\ (to = "asked" => Spent(f) <= MaxIterations) /\ Spent(f) \in Int
    BY <1>a, <1>5 DEF Spent
  <1>7. InRounds(h)
    BY <1>a, <1>2 DEF InRounds, Same
  <1>8. f.kind = "conversation" => WithinBudget(h)
    BY <1>a, <1>b, <1>2, <1>3, <1>4, <1>6 DEF WithinBudget, Same
  <1>9. Good(h, i)
    BY <1>1, <1>2, <1>7, <1>8 DEF Good, Same
  <1>10. h = LET g == [f EXCEPT !.at = to, !.bad = b, !.provider = k, !.first = l]
             IN  [g EXCEPT !.asked = IF @ < AskedBound THEN @ + 1 ELSE @]
    BY DEF h, n, Good, Frame
  <1> QED BY <1>9, <1>10

\* The second loop has what the first one left of the budget.
LEMMA RewritingGood ==
    ASSUME NEW f, NEW i \in Nat \ {0}, Good(f, i), f.kind = "conversation", f.at = "asked",
           ~ f.rewriting, NEW k \in Keys \cup {None}, NEW l \in Keys \cup {None}
    PROVE  Good([f EXCEPT !.at = "select", !.rewriting = TRUE, !.fixed = k, !.first = l,
                          !.budget = RestOfBudget(f), !.rounds = 0,
                          !.kept = f.auth, !.auth = FALSE], i)
  <1> DEFINE n == f.budget - f.rounds
             c == f.auth
             g == [f EXCEPT !.at = "select", !.rewriting = TRUE, !.fixed = k, !.first = l]
             h == [g EXCEPT !.budget = n, !.rounds = 0, !.kept = c, !.auth = FALSE]
  <1>a. /\ MaxIterations \in Nat /\ f.rounds \in 0 .. MaxIterations
        /\ f.budget = MaxIterations /\ f.rounds < f.budget /\ f.open = 0
        /\ f.asked <= f.rounds + 1 /\ c \in BOOLEAN /\ f.asked <= MaxIterations + 2
    BY LimitsAssumption DEF Good, Frame, InRounds, WithinBudget, Spent
  <1>b. n \in 0 .. MaxIterations /\ 0 \in 0 .. MaxIterations
    BY <1>a
  <1>c. g \in Frame
    BY DEF Good, Frame
  <1>d. Same(h, g) /\ h.at = "select" /\ h.rounds = 0 /\ h.budget = n /\ h.asked = f.asked
        /\ h.kind = f.kind /\ h.depth = f.depth /\ h.rewriting = TRUE /\ h.open = f.open
    BY DEF Good, Frame, Same
  <1>e. h \in Frame
    <2>1. c \in BOOLEAN
      BY <1>a
    <2> HIDE DEF n, c, g
    <2> QED BY ONLY <2>1, <1>b, <1>c DEF Frame
  <1>f. n = f.budget - f.rounds
    OBVIOUS
  <1> HIDE DEF h, n
  <1>g. InRounds(h)
    BY <1>a, <1>b, <1>d DEF InRounds
  <1>h. WithinBudget(h)
    BY <1>a, <1>b, <1>d, <1>f DEF WithinBudget, Spent
  <1>i. Good(h, i)
    BY <1>d, <1>e, <1>g, <1>h DEF Good
  <1>j. h = [f EXCEPT !.at = "select", !.rewriting = TRUE, !.fixed = k, !.first = l,
                      !.budget = RestOfBudget(f), !.rounds = 0,
                      !.kept = f.auth, !.auth = FALSE]
    BY DEF h, n, RestOfBudget
  <1> QED BY <1>i, <1>j

LEMMA CallsGood ==
    ASSUME NEW f, NEW i \in Nat \ {0}, Good(f, i), f.at = "asked", NEW n \in 1 .. MaxCalls
    PROVE  Good([f EXCEPT !.at = "calls", !.left = n, !.open = @ + n], i)
  <1> DEFINE h == [f EXCEPT !.at = "calls", !.left = n, !.open = n]
  <1>a. f.open = 0 /\ n \in 0 .. MaxCalls /\ 0 + n = n
    BY LimitsAssumption DEF Good, InRounds
  <1>b. f \in Frame
    BY DEF Good
  <1>c. n \in 0 .. MaxCalls
    BY <1>a
  <1>d. "calls" \in {"start", "select", "asked", "calls", "summary", "single", "stopped", "over"}
    OBVIOUS
  <1>1. h \in Frame
    BY ONLY <1>b, <1>c, <1>d DEF Frame
  <1>2. /\ h.kind = f.kind /\ h.depth = f.depth /\ h.rewriting = f.rewriting
        /\ h.at = "calls" /\ h.left = n /\ h.open = n /\ h.asked = f.asked
        /\ h.rounds = f.rounds /\ h.budget = f.budget
    BY DEF Good, Frame
  <1>3. h = [f EXCEPT !.at = "calls", !.left = n, !.open = @ + n]
    BY <1>a DEF Good, Frame
  <1> HIDE DEF h
  <1>4. Good(h, i)
    BY <1>a, <1>1, <1>2 DEF Good, InRounds, WithinBudget, Spent
  <1> QED BY <1>3, <1>4

LEMMA RoundOverGood ==
    ASSUME NEW f, NEW i \in Nat \ {0}, Good(f, i), f.at = "calls", f.left = 0,
           NEW listed \in BOOLEAN
    PROVE  Good([f EXCEPT !.at = "select", !.bad = @ \/ listed, !.rounds = RoundsAfter(f)], i)
  <1> DEFINE r == f.rounds + 1
             b == f.bad \/ listed
             h == [f EXCEPT !.at = "select", !.bad = b, !.rounds = r]
  <1>a. /\ f.open = 0 /\ f.rounds \in 0 .. MaxIterations /\ f.budget \in 0 .. MaxIterations
        /\ f.rounds < f.budget /\ MaxIterations \in Nat /\ f.kind # "tool"
    BY LimitsAssumption DEF Good, InRounds, Frame
  <1>b. r \in 0 .. MaxIterations /\ r <= f.budget
    BY <1>a
  <1>c. r = f.rounds + 1
    OBVIOUS
  <1>d. h = [f EXCEPT !.at = "select", !.bad = @ \/ listed, !.rounds = RoundsAfter(f)]
    BY DEF RoundsAfter, Good, Frame
  <1>g. b \in BOOLEAN
    OBVIOUS
  <1> HIDE DEF r, b
  <1>e. f \in Frame
    BY DEF Good
  <1>1. h \in Frame
    BY ONLY <1>b, <1>e, <1>g DEF Frame
  <1>2. Same(h, f) /\ h.at = "select" /\ h.rounds = r /\ h.budget = f.budget /\ h.asked = f.asked
    BY DEF Good, Frame, Same
  <1> HIDE DEF h
  <1>3. Good(h, i)
    <2>1. InRounds(h)
      BY <1>a, <1>b, <1>2 DEF InRounds, Same
    <2>2. h.kind = "conversation" => WithinBudget(h)
      BY <1>a, <1>c, <1>2 DEF Good, WithinBudget, Spent, Same, Frame
    <2> QED BY <1>1, <1>2, <1>a, <2>1, <2>2 DEF Good, Same
  <1> QED BY <1>3, <1>d

-----------------------------------------------------------------------------
(* The steps.                                                              *)

LEMMA TopOK ==
    ASSUME IInv
    PROVE  /\ Len(stack) \in Nat \ {0}
           /\ Good(Top, Len(stack)) /\ Top \in Frame
           /\ Top.kind = "conversation" <=> Len(stack) = 1
  <1>1. /\ stack \in Seq(Frame) /\ stack # << >>
        /\ \A i \in 1 .. Len(stack) : Good(stack[i], i)
    BY DEF IInv, StackOK
  <1>2. Len(stack) \in Nat \ {0} /\ Len(stack) \in 1 .. Len(stack)
    BY <1>1
  <1>3. Good(Top, Len(stack))
    BY <1>1, <1>2 DEF Top
  <1> QED BY <1>2, <1>3 DEF Good

\* The top frame moves on.
LEMMA MovesOn ==
    ASSUME IInv, NEW f, Good(f, Len(stack)), Replace(f),
           UNCHANGED << origin, chosen >>, reply' \in Reply
    PROVE  IInv'
  <1>1. StackOK(stack')
    BY ReplaceTop DEF IInv, Replace
  <1>2. RestOK'
    BY DEF IInv, RestOK, chosen
  <1> QED BY <1>1, <1>2 DEF IInv

LEMMA GoesOn ==
    ASSUME IInv, NEW f, Good(f, Len(stack)), Goes(f)
    PROVE  IInv'
  BY MovesOn DEF Goes, clientVars, IInv, RestOK

\* A tool is done.
LEMMA ReturnsKeeps ==
    ASSUME IInv, NEW r \in Results, Returns(r)
    PROVE  IInv'
  <1> DEFINE n == Len(stack)
             f == stack[n - 1]
  <1>1. n > 1 /\ n \in Nat /\ n - 1 \in 1 .. n /\ n - 1 \in 1 .. Len(stack) - 1 /\ n - 1 \in Nat \ {0}
    <2>1. n \in Nat /\ n > 1
      BY TopOK DEF Returns
    <2>2. n = Len(stack)
      OBVIOUS
    <2> HIDE DEF n
    <2> QED BY <2>1, <2>2
  <1>2. Good(f, n - 1) /\ Waiting(f)
    BY <1>1 DEF IInv, StackOK
  <1>3. Good(Given(f, r), n - 1)
    BY <1>1, <1>2, GivenGood
  <1>4. StackOK(stack')
    BY <1>1, <1>3, Pop DEF IInv, Returns
  <1>5. Top.outer \in Tools \cup {None}
    BY TopOK DEF Frame
  <1>6. RestOK'
    BY <1>5 DEF IInv, RestOK, Returns, OriginAfter, chosen
  <1> QED BY <1>4, <1>6 DEF IInv

\* A call is executed for a frame that waits for it.
LEMMA CallsToolKeeps ==
    ASSUME IInv, Waiting(Top), CallsTool(Top)
    PROVE  IInv'
  <1>1. CASE Goes(Given(Top, "failed"))
    <2>1. Good(Given(Top, "failed"), Len(stack))
      BY TopOK, GivenGood DEF Results
    <2> QED BY <1>1, <2>1, GoesOn
  <1>2. ASSUME Top.depth < MAX_TOOL_CALL_DEPTH, NEW t \in Tools,
               stack' = Append(stack, Entered(t, Top)), origin' = t,
               UNCHANGED << call, chosen, reply >>
        PROVE  IInv'
    <2>1. Good(Entered(t, Top), Len(stack) + 1)
      BY <1>2, TopOK, EnteredGood DEF IInv, RestOK
    <2>2. StackOK(stack')
      BY <1>2, <2>1, Push DEF IInv, Top
    <2>3. RestOK'
      BY <1>2 DEF IInv, RestOK, chosen
    <2> QED BY <2>2, <2>3 DEF IInv
  <1> QED BY <1>1, <1>2 DEF CallsTool

\* A conversation ends with a reply, a fixed text or an error.
LEMMA OverKeeps ==
    ASSUME IInv, Top.kind = "conversation", NEW r \in Reply, Over(Top, r)
    PROVE  IInv'
  <1>1. Good([Top EXCEPT !.at = "over"], Len(stack))
    BY TopOK, OverGood
  <1> QED BY <1>1, MovesOn DEF Over, clientVars

LEMMA NoReplyTyped ==
    /\ [NoReply EXCEPT !.kind = "error"] \in Reply
    /\ [NoReply EXCEPT !.kind = "fixed"] \in Reply
  BY DEF NoReply, Reply

LEMMA ReplyTyped ==
    ASSUME NEW f \in Frame, NEW k \in Keys \cup {None}
    PROVE  ReplyOf(f) \in Reply /\ ReplyOf([f EXCEPT !.first = k]) \in Reply
  <1> DEFINE c == f.kept \/ f.auth
  <1>1. c \in BOOLEAN
    OBVIOUS
  <1>2. ReplyOf(f) = [kind |-> "reply", writer |-> f.provider, first |-> f.first,
                      notice |-> c, seen |-> f.seen]
    BY DEF ReplyOf, Notice
  <1>3. ReplyOf([f EXCEPT !.first = k]) =
            [kind |-> "reply", writer |-> f.provider, first |-> k, notice |-> c, seen |-> f.seen]
    BY DEF ReplyOf, Notice, Frame
  <1> HIDE DEF c
  <1>4. f.provider \in Keys \cup {None} /\ f.first \in Keys \cup {None} /\ f.seen \in BOOLEAN
    BY DEF Frame
  <1> QED BY <1>1, <1>2, <1>3, <1>4 DEF Reply

\* Names of providers stay names of providers.
LEMMA NamesTyped ==
    /\ \A k \in Keys \cup {None} : OrDefault(k) \in Keys
    /\ \A k \in Keys \cup {None} : Resolved(k) \subseteq Keys
    /\ \A k \in Keys \cup {None} : FinalReplyOf(k) \in Keys \cup {None}
    /\ \A f \in Frame : FirstOf(f) \in Keys \cup {None}
  <1>1. \A k \in Keys \cup {None} : OrDefault(k) \in Keys
    BY ProvidersAssumption DEF OrDefault
  <1>2. \A k \in Keys \cup {None} : Resolved(k) \subseteq Keys
    BY <1>1 DEF Resolved, Keys
  <1>3. \A k \in Keys \cup {None} : FinalReplyOf(k) \in Keys \cup {None}
    BY FinalReplyAssumption DEF FinalReplyOf, Keys
  <1>4. \A f \in Frame : FirstOf(f) \in Keys \cup {None}
    BY <1>1 DEF FirstOf, Frame
  <1> QED BY <1>1, <1>2, <1>3, <1>4

LEMMA LoopRepliesKeeps ==
    ASSUME IInv, Top.at = "asked", LoopReplies(Top)
    PROVE  IInv'
  <1>t. Top \in Frame /\ Good(Top, Len(stack)) /\ Len(stack) \in Nat \ {0}
    BY TopOK
  <1>k. Top.kind # "tool"
    BY <1>t DEF Good
  <1>n. Top.provider \in Keys \cup {None} /\ FirstOf(Top) \in Keys \cup {None}
        /\ FinalReplyOf(Top.provider) \in Keys \cup {None}
    BY <1>t, NamesTyped DEF Frame
  <1>1. CASE Top.kind = "expert"
    BY <1>1, ReturnsKeeps DEF LoopReplies, LooksForWriter, Results
  <1>2. CASE /\ Top.kind # "expert" /\ LooksForWriter(Top)
             /\ FinalReplyOf(Top.provider) # None
    <2>1. Top.kind = "conversation" /\ ~ Top.rewriting
      BY <1>2 DEF LooksForWriter
    <2> DEFINE g == [Top EXCEPT !.at = "select", !.rewriting = TRUE,
                           !.fixed = FinalReplyOf(Top.provider),
                           !.first = FirstOf(Top),
                           !.budget = RestOfBudget(Top), !.rounds = 0,
                           !.kept = Top.auth, !.auth = FALSE]
    <2>2. Good(g, Len(stack))
      BY <1>t, <1>n, <2>1, RewritingGood
    <2>3. Goes(g)
      BY <1>2 DEF LoopReplies
    <2> HIDE DEF g
    <2> QED BY <2>2, <2>3, GoesOn
  <1>3. CASE Top.kind # "expert" /\ ~ (LooksForWriter(Top) /\ FinalReplyOf(Top.provider) # None)
    <2> DEFINE r == ReplyOf([Top EXCEPT !.first = FirstOf(Top)])
    <2>1. r \in Reply
      BY <1>t, <1>n, ReplyTyped
    <2>2. Over(Top, r)
      BY <1>3 DEF LoopReplies
    <2>3. Top.kind = "conversation"
      BY <1>t, <1>k, <1>3 DEF Frame
    <2> HIDE DEF r
    <2> QED BY <2>1, <2>2, <2>3, OverKeeps
  <1> QED BY <1>1, <1>2, <1>3

LEMMA LoopStopsKeeps ==
    ASSUME IInv, Top.kind # "tool", NEW summary, LoopStops(Top, summary)
    PROVE  IInv'
  <1>1. CASE Top.kind = "expert"
    BY <1>1, ReturnsKeeps DEF LoopStops, Results
  <1>2. CASE Top.kind # "expert"
    <2>1. Top.kind = "conversation"
      BY <1>2, TopOK DEF Frame
    <2>2. ReplyOf(Top) \in Reply
      BY TopOK, ReplyTyped
    <2>3. Over(Top, ReplyOf(Top)) \/ Over(Top, [NoReply EXCEPT !.kind = "fixed"])
      BY <1>2 DEF LoopStops
    <2> QED BY <2>1, <2>2, <2>3, OverKeeps, NoReplyTyped
  <1> QED BY <1>1, <1>2

LEMMA LoopRaisesKeeps ==
    ASSUME IInv, Top.kind # "tool", LoopRaises(Top)
    PROVE  IInv'
  <1>1. CASE Top.kind = "expert"
    BY <1>1, ReturnsKeeps DEF LoopRaises, Results
  <1>2. CASE Top.kind # "expert"
    <2>1. Top.kind = "conversation"
      BY <1>2, TopOK DEF Frame
    <2> QED BY <1>2, <2>1, OverKeeps, NoReplyTyped DEF LoopRaises, Raises
  <1> QED BY <1>1, <1>2

\* A frame makes a request.
LEMMA AsksKeeps ==
    ASSUME IInv, Top.kind # "tool", NEW b \in BOOLEAN,
           NEW k \in Keys \cup {None}, NEW l \in Keys \cup {None}, NEW to, NEW p, NEW api,
           NEW f, f = [Top EXCEPT !.at = to, !.bad = b, !.provider = k, !.first = l],
           \/ to = "single" /\ Top.at = "start"
           \/ to = "asked" /\ Top.at = "select" /\ Top.rounds < Top.budget
           \/ to = "summary" /\ Top.at = "select",
           Asks(f, p, api)
    PROVE  IInv'
  <1> DEFINE g == [Top EXCEPT !.at = to, !.bad = b, !.provider = k, !.first = l]
             h == [g EXCEPT !.asked = IF @ < AskedBound THEN @ + 1 ELSE @]
  <1>1. Good(h, Len(stack))
    BY TopOK, Requested
  <1>2. Replace(h) /\ UNCHANGED << origin, chosen, reply >>
    BY DEF Asks, Replace
  <1>3. reply' \in Reply
    BY <1>2 DEF IInv, RestOK
  <1> HIDE DEF h
  <1> QED BY <1>1, <1>2, <1>3, MovesOn

LEMMA PreparesKeeps == ASSUME IInv, Prepares PROVE IInv'
  <1>1. Top.kind = "conversation" /\ Top.at = "start" /\ Top \in Frame
    BY TopOK DEF Prepares, IsConversation
  <1>2. Top.first \in Keys \cup {None} /\ Top.fixed \in Keys \cup {None}
    BY <1>1 DEF Frame
  <1>3. ASSUME NEW bad \in BOOLEAN,
               Goes([Top EXCEPT !.at = "select", !.bad = bad, !.budget = MaxIterations])
        PROVE  IInv'
    <2> DEFINE k == Top.fixed
               g == [Top EXCEPT !.at = "select", !.bad = bad, !.fixed = k, !.budget = MaxIterations]
    <2>1. Good(g, Len(stack))
      <3> HIDE DEF k
      <3>1. k \in Keys \cup {None}
        BY <1>2 DEF k
      <3> QED BY <1>1, <3>1, TopOK, LoopBegins
    <2>2. g = [Top EXCEPT !.at = "select", !.bad = bad, !.budget = MaxIterations]
      BY <1>1 DEF Frame
    <2> HIDE DEF g
    <2> QED BY <1>3, <2>1, <2>2, GoesOn
  <1>4. ASSUME NEW bad \in BOOLEAN, NEW p \in Resolved(key),
               Asks([Top EXCEPT !.at = "single", !.bad = bad, !.provider = p], p, "chat")
        PROVE  IInv'
    <2>1. p \in Keys \cup {None}
      BY NamesTyped DEF IInv, RestOK
    <2> DEFINE f == [Top EXCEPT !.at = "single", !.bad = bad, !.provider = p]
    <2>2. f = [Top EXCEPT !.at = "single", !.bad = bad, !.provider = p, !.first = Top.first]
      BY <1>1 DEF Frame
    <2>3. Asks(f, p, "chat")
      BY <1>4
    <2> HIDE DEF f
    <2> QED BY <1>1, <1>2, <2>1, <2>2, <2>3, AsksKeeps
  <1> QED BY <1>3, <1>4 DEF Prepares

LEMMA PreparationFailsKeeps == ASSUME IInv, PreparationFails PROVE IInv'
  BY OverKeeps, NoReplyTyped DEF PreparationFails, Raises, IsConversation

LEMMA PlainRepliesKeeps == ASSUME IInv, PlainReplies PROVE IInv'
  <1>1. Over(Top, ReplyOf(Top)) \/ Over(Top, [NoReply EXCEPT !.kind = "error"])
    BY DEF PlainReplies, Raises
  <1>2. ReplyOf(Top) \in Reply
    BY TopOK, ReplyTyped
  <1> QED BY <1>1, <1>2, OverKeeps, NoReplyTyped DEF PlainReplies, IsConversation

LEMMA RequestsKeeps == ASSUME IInv, Requests PROVE IInv'
  <1>1. PICK p \in Selectable(Top) :
            Asks([Top EXCEPT !.at = "asked", !.provider = p], p, "tools")
    BY DEF Requests
  <1>2. Top.at = "select" /\ Top.rounds < Top.budget /\ Top.kind # "tool" /\ Top \in Frame
    BY TopOK DEF Requests, RoundsLeft, Good
  <1>3. /\ Top.first \in Keys \cup {None} /\ Top.bad \in BOOLEAN
        /\ Top.fixed \in Keys \cup {None}
    BY <1>2 DEF Frame
  <1>4. p \in Keys \cup {None}
    BY <1>1, <1>3, NamesTyped DEF Selectable, IInv, RestOK
  <1> DEFINE f == [Top EXCEPT !.at = "asked", !.provider = p]
  <1>5. f = [Top EXCEPT !.at = "asked", !.bad = Top.bad, !.provider = p, !.first = Top.first]
    BY <1>2 DEF Frame
  <1>6. Asks(f, p, "tools")
    BY <1>1
  <1> DEFINE b == Top.bad
             l == Top.first
  <1>7. b \in BOOLEAN /\ l \in Keys \cup {None}
    BY <1>3
  <1>8. f = [Top EXCEPT !.at = "asked", !.bad = b, !.provider = p, !.first = l]
    BY <1>5
  <1> HIDE DEF f, b, l
  <1> QED BY <1>2, <1>4, <1>6, <1>7, <1>8, AsksKeeps

LEMMA SummaryRequestedKeeps == ASSUME IInv, SummaryRequested PROVE IInv'
  <1>1. Top.at = "select" /\ Top.kind # "tool" /\ Top \in Frame
    BY TopOK DEF SummaryRequested, Good
  <1>2. /\ Top.provider \in Keys \cup {None} /\ Top.bad \in BOOLEAN
        /\ FirstOf(Top) \in Keys \cup {None}
    BY <1>1, NamesTyped DEF Frame
  <1>3. PICK p \in Keys \cup {None} :
            Asks([Top EXCEPT !.at = "summary", !.provider = p, !.first = FirstOf(Top)], p, "tools")
    BY <1>2, NamesTyped DEF SummaryRequested
  <1> DEFINE f == [Top EXCEPT !.at = "summary", !.provider = p, !.first = FirstOf(Top)]
  <1>4. f = [Top EXCEPT !.at = "summary", !.bad = Top.bad, !.provider = p, !.first = FirstOf(Top)]
    BY <1>1 DEF Frame
  <1>5. Asks(f, p, "tools")
    BY <1>3
  <1> HIDE DEF f
  <1> QED BY <1>1, <1>2, <1>4, <1>5, AsksKeeps

LEMMA CallsArriveKeeps == ASSUME IInv, CallsArrive PROVE IInv'
  BY TopOK, CallsGood, GoesOn DEF CallsArrive

LEMMA RoundOverKeeps == ASSUME IInv, RoundOver PROVE IInv'
  <1>1. PICK listed \in BOOLEAN :
            Goes([Top EXCEPT !.at = "select", !.bad = @ \/ listed, !.rounds = RoundsAfter(Top)])
    BY DEF RoundOver
  <1>2. Good([Top EXCEPT !.at = "select", !.bad = @ \/ listed, !.rounds = RoundsAfter(Top)],
             Len(stack))
    BY TopOK, RoundOverGood DEF RoundOver
  <1> QED BY <1>1, <1>2, GoesOn

LEMMA ExpertStartsKeeps == ASSUME IInv, ExpertStarts PROVE IInv'
  <1> DEFINE provider == Read(Top, "llm_provider", None)
  <1>1. Top.kind = "expert" /\ Top.at = "start" /\ Top \in Frame
    BY TopOK DEF ExpertStarts
  <1>2. Top.first \in Keys \cup {None} /\ Top.settings \in Settings
    BY <1>1 DEF Frame
  <1>3. provider \in Keys \cup {None}
    BY <1>2 DEF Read, Settings, Legal
  <1> HIDE DEF provider
  <1>4. CASE Returns("failed")
    BY <1>4, ReturnsKeeps DEF Results
  <1>5. ASSUME NEW b \in BOOLEAN,
               Asks([Top EXCEPT !.at = "single", !.bad = b, !.provider = provider],
                    provider, "responses")
        PROVE  IInv'
    <2> DEFINE f == [Top EXCEPT !.at = "single", !.bad = b, !.provider = provider]
    <2>1. f = [Top EXCEPT !.at = "single", !.bad = b, !.provider = provider, !.first = Top.first]
      BY <1>1 DEF Frame
    <2>2. Asks(f, provider, "responses")
      BY <1>5
    <2> HIDE DEF f
    <2> QED BY <1>1, <1>2, <1>3, <2>1, <2>2, AsksKeeps
  <1>6. ASSUME NEW b \in BOOLEAN,
               Goes([Top EXCEPT !.at = "select", !.bad = b, !.fixed = provider,
                                !.budget = MaxIterations])
        PROVE  IInv'
    <2>1. Good([Top EXCEPT !.at = "select", !.bad = b, !.fixed = provider,
                           !.budget = MaxIterations], Len(stack))
      BY <1>1, <1>3, TopOK, LoopBegins
    <2> QED BY <1>6, <2>1, GoesOn
  <1> QED BY <1>4, <1>5, <1>6 DEF ExpertStarts, provider

-----------------------------------------------------------------------------
(* The invariant.                                                          *)

LEMMA IInvInit == Init => IInv
  <1> SUFFICES ASSUME Init PROVE IInv
    OBVIOUS
  <1> DEFINE f == [Blank EXCEPT !.kind = "conversation"]
  <1>1. f \in Frame
    BY BlankIsFrame DEF Frame
  <1>2. Good(f, 1)
    BY <1>1, LimitsAssumption DEF Good, InRounds, WithinBudget, Spent, Blank
  <1>3. stack = << f >>
    BY DEF Init
  <1> HIDE DEF f
  <1>4. StackOK(stack)
    BY <1>1, <1>2, <1>3 DEF StackOK
  <1>5. RestOK
    BY DEF Init, ClientInit, RestOK, Reply, NoReply
  <1> QED BY <1>4, <1>5 DEF IInv

LEMMA IInvNext == IInv /\ [Next]_vars => IInv'
  <1> SUFFICES ASSUME IInv, [Next]_vars PROVE IInv'
    OBVIOUS
  <1>1. CASE Calling
    BY <1>1 DEF Calling, ClientNext, Replied, AttemptFails, SleepOver, chosen,
       IInv, RestOK
  <1>2. CASE Conversing
    BY <1>2, PreparesKeeps, PreparationFailsKeeps, PlainRepliesKeeps DEF Conversing
  <1>3. ASSUME Looping PROVE IInv'
    <2>1. Top.at \in {"select", "asked", "summary"} => Top.kind # "tool"
      BY TopOK DEF Good
    <2>2. CASE Requests \/ SummaryRequested
      BY <2>2, RequestsKeeps, SummaryRequestedKeeps
    <2>3. CASE LimitReached \/ SummaryArrives
      BY <2>1, <2>3, LoopStopsKeeps, LoopRaisesKeeps DEF LimitReached, SummaryArrives
    <2>4. CASE TextArrives
      BY <2>4, LoopRepliesKeeps DEF TextArrives
    <2>5. CASE CallsArrive \/ RoundOver
      BY <2>5, CallsArriveKeeps, RoundOverKeeps
    <2>6. CASE RequestFails
      BY <2>1, <2>6, LoopRaisesKeeps DEF RequestFails
    <2>7. CASE Executes
      BY <2>7, CallsToolKeeps DEF Executes, Waiting
    <2> QED BY <1>3, <2>2, <2>3, <2>4, <2>5, <2>6, <2>7 DEF Looping
  <1>4. ASSUME Executing PROVE IInv'
    <2>1. CASE ToolReturns
      BY <2>1, ReturnsKeeps DEF ToolReturns, Results
    <2>2. CASE CallToolUsed
      BY <2>2, CallsToolKeeps DEF CallToolUsed, Waiting
    <2>3. CASE ExpertStarts
      BY <2>3, ExpertStartsKeeps
    <2>4. CASE SingleReplies \/ StoppedOnAuth
      BY <2>4, ReturnsKeeps DEF SingleReplies, StoppedOnAuth, Results
    <2> QED BY <1>4, <2>1, <2>2, <2>3, <2>4 DEF Executing
  <1>5. CASE UNCHANGED vars
    BY <1>5 DEF vars, clientVars, chosen, IInv, RestOK
  <1> QED BY <1>1, <1>2, <1>3, <1>4, <1>5 DEF Next

LEMMA IInvHolds == Spec => []IInv
  BY IInvInit, IInvNext, PTL DEF Spec

\* The frames, the origin and the reply keep their types in every instance.
THEOREM LoopTypesHold == Spec => []LoopTypeOK
  <1>1. IInv => LoopTypeOK
    BY DEF IInv, StackOK, RestOK, LoopTypeOK, Reply
  <1> QED BY IInvHolds, <1>1, PTL

\* However many calls, failing ones included, come in however many replies, and
\* whichever of them are experts with loops of their own: no request leaves a
\* loop of run_tool_loop with a tool call that has no tool message.
THEOREM CallsAnsweredHolds == Spec => []CallsAnswered
  <1>1. IInv => CallsAnswered
    BY DEF IInv, StackOK, Good, InRounds, CallsAnswered
  <1> QED BY IInvHolds, <1>1, PTL

\* For every max_tool_call_iterations and every chain of final reply providers:
\* run_conversation's two loops and the summary make at most two requests more.
THEOREM BudgetSharedHolds == Spec => []BudgetShared
  <1>1. IInv => BudgetShared
    <2> SUFFICES ASSUME IInv PROVE BudgetShared
      OBVIOUS
    <2>1. Len(stack) \in Nat \ {0}
      BY TopOK
    <2>2. Good(stack[1], 1)
      BY <2>1 DEF IInv, StackOK
    <2> QED BY <2>2 DEF Good, WithinBudget, BudgetShared
  <1> QED BY IInvHolds, <1>1, PTL

\* For every MAX_TOOL_CALL_DEPTH: tools nest no deeper, because the depth that
\* execute_tool_call passes on is the number of tools below.
THEOREM NestingBoundedHolds == Spec => []NestingBounded
  <1>1. IInv => NestingBounded
    <2> SUFFICES ASSUME IInv PROVE NestingBounded
      OBVIOUS
    <2>1. Len(stack) \in Nat /\ Good(Top, Len(stack))
      BY TopOK
    <2>2. Top.depth = Len(stack) - 1 /\ Top.depth <= MAX_TOOL_CALL_DEPTH
      BY <2>1 DEF Good
    <2> QED BY <2>2 DEF NestingBounded
  <1> QED BY IInvHolds, <1>1, PTL

-----------------------------------------------------------------------------
(* Who writes the reply, what it says of authentication, and which tool a  *)
(* frame belongs to.                                                       *)

\* The provider in f is the one that has to write the reply.
Written(f) ==
    LET target == FinalReplyOf(f.first)
    IN  IF target = None THEN OrDefault(f.provider) = f.first
                         ELSE f.provider = target

\* What the conversation's frame knows of its two loops: the second one has the
\* final_reply_provider of the provider the first one ended with.
Writes(f) ==
    /\ f.seen <=> f.kept \/ f.auth
    /\ ~ f.rewriting => ~ f.kept
    /\ ~ f.rewriting /\ f.at \notin {"summary", "over"} => f.first = None
    /\ f.at = "single" => ~ f.rewriting
    /\ f.rewriting =>
         /\ f.first # None /\ FinalReplyOf(f.first) # None
         /\ f.fixed = FinalReplyOf(f.first) /\ f.budget > 0
    /\ f.rewriting /\ (f.rounds > 0 \/ f.at \in {"asked", "calls"}) =>
         f.provider = f.fixed
    /\ f.at = "summary" => Written(f)

\* An expert that knows of a tool in need of authentication is stopped.
Tracks(f) ==
    /\ f.kind = "conversation" => Writes(f)
    /\ f.kind = "expert" /\ f.auth => f.at = "stopped"

\* Each frame goes back to the origin of the one below it.
Linked(s) ==
    /\ \A i \in 1 .. Len(s) : Tracks(s[i])
    /\ \A i \in 1 .. Len(s) - 1 : s[i + 1].outer = s[i].tool

\* What is asked of a reply that run_conversation returns.
Proper(r) ==
    r.kind = "reply" =>
        /\ r.notice = r.seen
        /\ r.first # None => Written([provider |-> r.writer, first |-> r.first])

Traced == Linked(stack) /\ origin = Top.tool /\ Proper(reply)

LEMMA TracedInit == Init => Traced
  <1> SUFFICES ASSUME Init PROVE Traced
    OBVIOUS
  <1> DEFINE f == [Blank EXCEPT !.kind = "conversation"]
  <1>1. stack = << f >> /\ origin = None
    BY DEF Init, ClientInit
  <1>2. /\ f.kind = "conversation" /\ f.tool = None /\ f.at = "start" /\ ~ f.rewriting
        /\ ~ f.kept /\ ~ f.auth /\ ~ f.seen /\ f.first = None
    BY DEF Blank
  <1> HIDE DEF f
  <1>3. Tracks(f)
    BY <1>2 DEF Tracks, Writes
  <1>4. Linked(stack) /\ Top = f
    BY <1>1, <1>3 DEF Linked, Top
  <1> QED
    BY <1>1, <1>2, <1>4 DEF Traced, Proper, Init, NoReply

LEMMA ReplaceLinked ==
    ASSUME NEW s, StackOK(s), Linked(s), NEW f \in Frame, Tracks(f),
           f.tool = s[Len(s)].tool, f.outer = s[Len(s)].outer
    PROVE  LET t == [s EXCEPT ![Len(s)] = f]
           IN  Linked(t) /\ t[Len(t)].tool = f.tool
  <1> DEFINE t == [s EXCEPT ![Len(s)] = f]
  <1>1. s \in Seq(Frame) /\ Len(s) \in Nat \ {0}
    BY DEF StackOK
  <1>2. /\ Len(t) = Len(s) /\ t[Len(s)] = f
        /\ \A i \in 1 .. Len(s) - 1 : t[i] = s[i]
    BY <1>1, ExceptSeq
  <1> HIDE DEF t
  <1>3. \A i \in 1 .. Len(t) : Tracks(t[i])
    BY <1>1, <1>2 DEF Linked
  <1>4. ASSUME NEW i \in 1 .. Len(t) - 1
        PROVE  t[i + 1].outer = t[i].tool
    <2>1. t[i] = s[i] /\ s[i + 1].outer = s[i].tool
      BY <1>1, <1>2 DEF Linked
    <2>2. CASE i = Len(s) - 1
      BY <1>1, <1>2, <2>1, <2>2
    <2>3. CASE i # Len(s) - 1
      <3>1. i + 1 \in 1 .. Len(s) - 1
        BY <1>1, <1>2, <2>3
      <3> QED BY <1>2, <2>1, <3>1
    <2> QED BY <2>2, <2>3
  <1>5. Linked(t) /\ t[Len(t)].tool = f.tool
    BY <1>2, <1>3, <1>4 DEF Linked
  <1> QED BY <1>5 DEF t

LEMMA PushLinked ==
    ASSUME NEW s, StackOK(s), Linked(s), NEW f \in Frame, Tracks(f),
           f.outer = s[Len(s)].tool
    PROVE  LET t == Append(s, f)
           IN  Linked(t) /\ t[Len(t)].tool = f.tool
  <1> DEFINE t == Append(s, f)
  <1>1. s \in Seq(Frame) /\ Len(s) \in Nat \ {0}
    BY DEF StackOK
  <1>2. /\ Len(t) = Len(s) + 1 /\ t[Len(s) + 1] = f
        /\ \A i \in 1 .. Len(s) : t[i] = s[i]
    BY <1>1
  <1> HIDE DEF t
  <1>3. \A i \in 1 .. Len(t) : Tracks(t[i])
    BY <1>1, <1>2 DEF Linked
  <1>4. ASSUME NEW i \in 1 .. Len(t) - 1
        PROVE  t[i + 1].outer = t[i].tool
    <2>1. t[i] = s[i]
      BY <1>1, <1>2
    <2>2. CASE i = Len(s)
      BY <1>2, <2>1, <2>2
    <2>3. CASE i # Len(s)
      <3>1. i + 1 \in 1 .. Len(s) /\ i \in 1 .. Len(s) - 1
        BY <1>1, <1>2, <2>3
      <3> QED BY <1>2, <2>1, <3>1 DEF Linked
    <2> QED BY <2>2, <2>3
  <1>5. Linked(t) /\ t[Len(t)].tool = f.tool
    BY <1>2, <1>3, <1>4 DEF Linked
  <1> QED BY <1>5 DEF t

\* The origin that a tool gives back is the tool of the frame it returns to.
LEMMA PopLinked ==
    ASSUME NEW s, StackOK(s), Linked(s), Len(s) > 1, NEW f \in Frame, Tracks(f),
           f.tool = s[Len(s) - 1].tool, f.outer = s[Len(s) - 1].outer
    PROVE  LET t == Append(SubSeq(s, 1, Len(s) - 2), f)
           IN  Linked(t) /\ t[Len(t)].tool = s[Len(s)].outer
  <1> DEFINE t == Append(SubSeq(s, 1, Len(s) - 2), f)
             n == Len(s)
  <1>1. s \in Seq(Frame) /\ n \in Nat /\ n > 1
    BY DEF StackOK
  <1>2. /\ Len(t) = n - 1 /\ t[n - 1] = f
        /\ \A i \in 1 .. n - 2 : t[i] = s[i]
    BY <1>1, PopIs
  <1>3. /\ \A i \in 1 .. n : Tracks(s[i])
        /\ \A i \in 1 .. n - 1 : s[i + 1].outer = s[i].tool
    BY DEF Linked
  <1>a. f.tool = s[n - 1].tool /\ f.outer = s[n - 1].outer
    OBVIOUS
  <1> HIDE DEF t, n
  <1>4. \A i \in 1 .. Len(t) : Tracks(t[i])
    BY <1>1, <1>2, <1>3
  <1>5. ASSUME NEW i \in 1 .. Len(t) - 1
        PROVE  t[i + 1].outer = t[i].tool
    <2>1. t[i] = s[i] /\ i \in 1 .. n - 1
      BY <1>1, <1>2
    <2>2. CASE i = n - 2
      <3>1. i + 1 = n - 1
        BY <1>1, <2>2
      <3> QED BY <1>2, <1>3, <1>a, <2>1, <3>1
    <2>3. CASE i # n - 2
      <3>1. i + 1 \in 1 .. n - 2
        BY <1>1, <1>2, <2>3
      <3> QED BY <1>2, <1>3, <2>1, <3>1
    <2> QED BY <2>2, <2>3
  <1>6. t[Len(t)].tool = s[n].outer
    <2>1. n - 1 \in 1 .. n - 1 /\ (n - 1) + 1 = n
      BY <1>1
    <2> QED BY <1>2, <1>3, <1>a, <2>1
  <1>7. Linked(t) /\ t[Len(t)].tool = s[n].outer
    BY <1>4, <1>5, <1>6 DEF Linked
  <1> QED BY <1>7 DEF t, n

-----------------------------------------------------------------------------
(* The steps of the stack.                                                 *)

LEMMA TopTracks ==
    ASSUME IInv, Traced
    PROVE  /\ Top \in Frame /\ Tracks(Top) /\ Good(Top, Len(stack))
           /\ Len(stack) \in Nat \ {0}
  <1>1. Len(stack) \in 1 .. Len(stack)
    BY TopOK
  <1>2. Tracks(stack[Len(stack)])
    BY <1>1 DEF Traced, Linked
  <1> QED BY <1>2, TopOK DEF Top

LEMMA ProperKept == Proper(reply) /\ UNCHANGED reply => Proper(reply')
  OBVIOUS

LEMMA TracedMoves ==
    ASSUME IInv, Traced, NEW f \in Frame, Tracks(f), f.tool = Top.tool, f.outer = Top.outer,
           Replace(f), UNCHANGED origin, Proper(reply')
    PROVE  Traced'
  <1>1. stack' = [stack EXCEPT ![Len(stack)] = f]
    BY DEF Replace
  <1>2. Linked(stack') /\ stack'[Len(stack')].tool = f.tool
    BY <1>1, ReplaceLinked DEF IInv, Traced, Top
  <1> QED BY <1>2 DEF Traced, Top

LEMMA TracedGoes ==
    ASSUME IInv, Traced, NEW f \in Frame, Tracks(f), f.tool = Top.tool, f.outer = Top.outer,
           Goes(f)
    PROVE  Traced'
  BY TracedMoves, ProperKept DEF Goes, clientVars, Traced

\* A tool result: an expert stops, a conversation keeps in mind what was needed.
LEMMA GivenTracks ==
    ASSUME NEW f, NEW i \in Nat \ {0}, Good(f, i), Tracks(f), Waiting(f), NEW r \in Results
    PROVE  /\ Given(f, r) \in Frame /\ Tracks(Given(f, r))
           /\ Given(f, r).tool = f.tool /\ Given(f, r).outer = f.outer
  <1>1. f \in Frame /\ Given(f, r) \in Frame
    BY GivenGood DEF Good
  <1>2. CASE f.kind = "tool"
    <2>1. Given(f, r) = [f EXCEPT !.used = TRUE]
      BY <1>2 DEF Given
    <2> QED BY <1>1, <1>2, <2>1 DEF Frame, Tracks
  <1>3. CASE f.kind # "tool"
    <2>1. f.at = "calls"
      BY <1>3 DEF Waiting
    <2> DEFINE h == Given(f, r)
    <2>2. /\ h.kind = f.kind /\ h.tool = f.tool /\ h.outer = f.outer /\ h.kept = f.kept
          /\ h.rewriting = f.rewriting /\ h.first = f.first /\ h.fixed = f.fixed
          /\ h.provider = f.provider /\ h.budget = f.budget /\ h.rounds = f.rounds
          /\ h.auth <=> f.auth \/ r = "auth"
          /\ h.seen <=> f.seen \/ r = "auth"
          /\ h.at = IF r = "auth" /\ StopsOnAuth(f) THEN "stopped" ELSE f.at
      <3> DEFINE a == f.auth \/ r = "auth"
                 e == f.seen \/ r = "auth"
                 g == [f EXCEPT !.auth = a, !.seen = e]
      <3>1. h = IF r = "auth" /\ StopsOnAuth(f)
                THEN [g EXCEPT !.at = "stopped"]
                ELSE [g EXCEPT !.left = @ - 1, !.open = @ - 1]
        BY <1>3 DEF Given, Takes, Messages
      <3>2. /\ g.kind = f.kind /\ g.tool = f.tool /\ g.outer = f.outer /\ g.kept = f.kept
            /\ g.rewriting = f.rewriting /\ g.first = f.first /\ g.fixed = f.fixed
            /\ g.provider = f.provider /\ g.budget = f.budget /\ g.rounds = f.rounds
            /\ g.auth = a /\ g.seen = e /\ g.at = f.at
        BY <1>1 DEF Frame
      <3>3. a \in BOOLEAN /\ e \in BOOLEAN
        OBVIOUS
      <3>4. g \in Frame
        <4> HIDE DEF a, e
        <4> QED BY <1>1, <3>3 DEF Frame
      <3> HIDE DEF g, h
      <3>5. CASE r = "auth" /\ StopsOnAuth(f)
        <4>1. h = [g EXCEPT !.at = "stopped"]
          BY <3>1, <3>5
        <4>2. /\ h.kind = g.kind /\ h.tool = g.tool /\ h.outer = g.outer /\ h.kept = g.kept
              /\ h.rewriting = g.rewriting /\ h.first = g.first /\ h.fixed = g.fixed
              /\ h.provider = g.provider /\ h.budget = g.budget /\ h.rounds = g.rounds
              /\ h.auth = g.auth /\ h.seen = g.seen /\ h.at = "stopped"
          BY <3>4, <4>1 DEF Frame
        <4> QED BY <3>2, <3>5, <4>2
      <3>6. CASE ~ (r = "auth" /\ StopsOnAuth(f))
        <4>1. h = [g EXCEPT !.left = @ - 1, !.open = @ - 1]
          BY <3>1, <3>6
        <4>2. /\ h.kind = g.kind /\ h.tool = g.tool /\ h.outer = g.outer /\ h.kept = g.kept
              /\ h.rewriting = g.rewriting /\ h.first = g.first /\ h.fixed = g.fixed
              /\ h.provider = g.provider /\ h.budget = g.budget /\ h.rounds = g.rounds
              /\ h.auth = g.auth /\ h.seen = g.seen /\ h.at = g.at
          BY <3>4, <4>1 DEF Frame
        <4> QED BY <3>2, <3>6, <4>2
      <3> QED BY <3>5, <3>6
    <2> HIDE DEF h
    <2>3. f.kind = "expert" => Tracks(h)
      BY <2>1, <2>2 DEF Tracks, StopsOnAuth
    <2>4. f.kind = "conversation" => Tracks(h)
      <3> SUFFICES ASSUME f.kind = "conversation" PROVE Writes(h)
        BY <2>2 DEF Tracks
      <3>1. Writes(f) /\ h.at = "calls"
        BY <2>1, <2>2 DEF Tracks, StopsOnAuth
      <3> QED BY <2>1, <2>2, <3>1 DEF Writes
    <2>5. f.kind \in {"conversation", "expert"}
      BY <1>1, <1>3 DEF Frame
    <2> QED BY <1>1, <2>2, <2>3, <2>4, <2>5 DEF h
  <1> QED BY <1>2, <1>3

LEMMA TracedReturns ==
    ASSUME IInv, Traced, NEW r \in Results, Returns(r)
    PROVE  Traced'
  <1> DEFINE n == Len(stack)
             f == stack[n - 1]
             g == Given(f, r)
  <1>1. n > 1 /\ n \in Nat /\ n - 1 \in 1 .. n /\ n - 1 \in 1 .. Len(stack) - 1 /\ n - 1 \in Nat \ {0}
    <2>1. n \in Nat /\ n > 1
      BY TopOK DEF Returns
    <2>2. n = Len(stack)
      OBVIOUS
    <2> HIDE DEF n
    <2> QED BY <2>1, <2>2
  <1>2. Good(f, n - 1) /\ Waiting(f) /\ Tracks(f)
    BY <1>1 DEF IInv, StackOK, Traced, Linked
  <1>3. g \in Frame /\ Tracks(g) /\ g.tool = f.tool /\ g.outer = f.outer
    BY <1>1, <1>2, GivenTracks
  <1>4. stack' = Append(SubSeq(stack, 1, n - 2), g) /\ origin' = Top.outer /\ UNCHANGED reply
    BY DEF Returns, OriginAfter
  <1> HIDE DEF g
  <1>5. Linked(stack') /\ stack'[Len(stack')].tool = stack[Len(stack)].outer
    BY <1>1, <1>3, <1>4, PopLinked DEF IInv, Traced
  <1> QED BY <1>4, <1>5, ProperKept DEF Traced, Top

LEMMA TracedCalls ==
    ASSUME IInv, Traced, Waiting(Top), CallsTool(Top)
    PROVE  Traced'
  <1>t. Len(stack) \in Nat \ {0} /\ Good(Top, Len(stack)) /\ Tracks(Top)
    BY TopTracks
  <1>1. CASE Goes(Given(Top, "failed"))
    <2> DEFINE g == Given(Top, "failed")
    <2>1. g \in Frame /\ Tracks(g) /\ g.tool = Top.tool /\ g.outer = Top.outer
      BY <1>t, GivenTracks DEF Results
    <2> HIDE DEF g
    <2>2. Goes(g)
      BY <1>1 DEF g
    <2> QED BY <2>1, <2>2, TracedGoes
  <1>2. ASSUME Top.depth < MAX_TOOL_CALL_DEPTH, NEW t \in Tools,
               stack' = Append(stack, Entered(t, Top)), origin' = t,
               UNCHANGED << call, chosen, reply >>
        PROVE  Traced'
    <2> DEFINE g == Entered(t, Top)
    <2>1. g \in Frame
      BY <1>2, <1>t, EnteredGood DEF IInv, RestOK, Good
    <2>2. g.tool = t /\ g.outer = origin /\ g.kind # "conversation" /\ ~ g.auth
      BY DEF Entered, Blank
    <2> HIDE DEF g
    <2>3. Tracks(g)
      BY <2>2 DEF Tracks
    <2>4. stack' = Append(stack, g) /\ g.outer = stack[Len(stack)].tool
      BY <1>2, <2>2 DEF g, Traced, Top
    <2>5. Linked(stack') /\ stack'[Len(stack')].tool = g.tool
      BY <2>1, <2>3, <2>4, PushLinked DEF IInv, Traced
    <2> QED BY <1>2, <2>2, <2>5, ProperKept DEF Traced, Top
  <1> QED BY <1>1, <1>2 DEF CallsTool

\* A frame of a conversation that is over.
LEMMA TracedOver ==
    ASSUME IInv, Traced, Top.kind = "conversation", NEW r, Proper(r), Over(Top, r)
    PROVE  Traced'
  <1> DEFINE h == [Top EXCEPT !.at = "over"]
  <1>1. Top \in Frame /\ Tracks(Top)
    BY TopTracks
  <1>2. h \in Frame
    BY <1>1 DEF Frame
  <1>3. /\ h.kind = Top.kind /\ h.tool = Top.tool /\ h.outer = Top.outer /\ h.kept = Top.kept
        /\ h.rewriting = Top.rewriting /\ h.first = Top.first /\ h.fixed = Top.fixed
        /\ h.provider = Top.provider /\ h.budget = Top.budget /\ h.rounds = Top.rounds
        /\ h.auth = Top.auth /\ h.seen = Top.seen /\ h.at = "over"
    BY <1>1 DEF Frame
  <1>4. Replace(h) /\ Proper(reply') /\ UNCHANGED origin
    BY DEF Over, clientVars
  <1> HIDE DEF h
  <1>5. Tracks(h)
    BY <1>1, <1>3 DEF Tracks, Writes
  <1> QED BY <1>2, <1>3, <1>4, <1>5, TracedMoves

LEMMA TracedAsks ==
    ASSUME IInv, Traced, NEW g \in Frame, NEW k, NEW api, Asks(g, k, api), Tracks(g),
           g.tool = Top.tool, g.outer = Top.outer
    PROVE  Traced'
  <1> DEFINE n == IF g.asked < AskedBound THEN g.asked + 1 ELSE g.asked
             h == [g EXCEPT !.asked = n]
  <1>1. n \in 0 .. AskedBound
    BY LimitsAssumption DEF Frame, AskedBound
  <1>2. Replace(h) /\ UNCHANGED << origin, reply >>
    BY DEF Asks
  <1> HIDE DEF n
  <1>3. h \in Frame
    BY <1>1 DEF Frame
  <1>4. /\ h.kind = g.kind /\ h.tool = g.tool /\ h.outer = g.outer /\ h.kept = g.kept
        /\ h.rewriting = g.rewriting /\ h.first = g.first /\ h.fixed = g.fixed
        /\ h.provider = g.provider /\ h.budget = g.budget /\ h.rounds = g.rounds
        /\ h.auth = g.auth /\ h.seen = g.seen /\ h.at = g.at
    BY DEF Frame
  <1> HIDE DEF h
  <1>5. Tracks(h)
    BY <1>4 DEF Tracks, Writes, Written
  <1> QED BY <1>2, <1>3, <1>4, <1>5, TracedMoves, ProperKept DEF Traced

-----------------------------------------------------------------------------
(* The steps of a conversation.                                            *)

\* Asking for the final reply of a provider and of the one None stands for is
\* the same.
LEMMA FinalReplyOfDefault ==
    ASSUME NEW p \in Keys \cup {None}
    PROVE  /\ OrDefault(p) # None
           /\ FinalReplyOf(OrDefault(p)) = FinalReplyOf(p)
  BY NamesAssumption, ProvidersAssumption DEF OrDefault, FinalReplyOf

LEMMA NotProper ==
    /\ Proper([NoReply EXCEPT !.kind = "error"])
    /\ Proper([NoReply EXCEPT !.kind = "fixed"])
  BY DEF NoReply, Proper

LEMMA ReplyProper ==
    ASSUME NEW f \in Frame, NEW l, f.seen <=> f.kept \/ f.auth,
           l # None => Written([provider |-> f.provider, first |-> l])
    PROVE  /\ Proper(ReplyOf([f EXCEPT !.first = l]))
           /\ f.first = l => Proper(ReplyOf(f))
  <1> DEFINE c == f.kept \/ f.auth
             r == [kind |-> "reply", writer |-> f.provider, first |-> l,
                   notice |-> c, seen |-> f.seen]
  <1>1. /\ ReplyOf([f EXCEPT !.first = l]) = r
        /\ f.first = l => ReplyOf(f) = r
    BY DEF ReplyOf, Notice, Frame
  <1>2. c \in BOOLEAN /\ f.seen \in BOOLEAN /\ (f.seen <=> c)
    BY DEF Frame
  <1>3. f.seen = c
    <2> HIDE DEF c
    <2> QED BY <1>2
  <1>4. /\ r.notice = r.seen /\ r.writer = f.provider /\ r.first = l
    BY <1>3
  <1> HIDE DEF r
  <1>5. Proper(r)
    BY <1>4 DEF Proper
  <1> QED BY <1>1, <1>5

LEMMA TracedLoopReplies ==
    ASSUME IInv, Traced, Top.at = "asked", LoopReplies(Top)
    PROVE  Traced'
  <1>t. Top \in Frame /\ Good(Top, Len(stack)) /\ Tracks(Top)
    BY TopTracks
  <1>k. Top.kind \in {"conversation", "expert"}
    BY <1>t DEF Good, Frame
  <1>n. /\ Top.provider \in Keys \cup {None} /\ FirstOf(Top) \in Keys \cup {None}
        /\ FinalReplyOf(Top.provider) \in Keys \cup {None}
    BY <1>t, NamesTyped DEF Frame
  <1>1. CASE Top.kind = "expert"
    BY <1>1, TracedReturns DEF LoopReplies, LooksForWriter, Results
  <1>2. CASE Top.kind = "conversation" /\ ~ Top.rewriting /\ FinalReplyOf(Top.provider) # None
    <2>1. Writes(Top) /\ ~ Top.kept /\ FirstOf(Top) = OrDefault(Top.provider)
      BY <1>2, <1>t DEF Tracks, Writes, FirstOf
    <2>2. Top.budget - Top.rounds \in 0 .. MaxIterations /\ Top.budget - Top.rounds > 0
      <3>1. /\ Top.budget \in 0 .. MaxIterations /\ Top.rounds \in 0 .. MaxIterations
            /\ Top.rounds < Top.budget /\ MaxIterations \in Nat
        BY <1>t, LimitsAssumption DEF Good, InRounds, Frame
      <3> QED BY <3>1
    <2> DEFINE t == FinalReplyOf(Top.provider)
               l == FirstOf(Top)
               b == Top.budget - Top.rounds
               c == Top.auth
               g == [Top EXCEPT !.at = "select", !.rewriting = TRUE, !.fixed = t, !.first = l]
               h == [g EXCEPT !.budget = b, !.rounds = 0, !.kept = c, !.auth = FALSE]
    <2>3. t \in Keys \cup {None} /\ l \in Keys \cup {None} /\ c \in BOOLEAN
      BY <1>n, <1>t DEF Frame
    <2>4. l # None /\ FinalReplyOf(l) = t /\ t # None
      BY <1>2, <1>n, <2>1, FinalReplyOfDefault
    <2>5. b \in 0 .. MaxIterations /\ b > 0 /\ 0 \in 0 .. MaxIterations
      BY <2>2, LimitsAssumption
    <2>6. Goes(h)
      BY <1>2 DEF LoopReplies, LooksForWriter, RestOfBudget
    <2>7. (Top.seen <=> c) /\ c = Top.auth
      BY <2>1 DEF Writes
    <2>c. c = Top.auth
      OBVIOUS
    <2> HIDE DEF t, l, b, c
    <2>8. g \in Frame
      BY <1>t, <2>3 DEF Frame
    <2>9. /\ g.kind = Top.kind /\ g.tool = Top.tool /\ g.outer = Top.outer
          /\ g.rewriting = TRUE /\ g.first = l /\ g.fixed = t
          /\ g.seen = Top.seen /\ g.at = "select"
      BY <1>t DEF Frame
    <2> HIDE DEF g
    <2>10. h \in Frame
      BY ONLY <2>3, <2>5, <2>8 DEF Frame
    <2>11. /\ h.kind = g.kind /\ h.tool = g.tool /\ h.outer = g.outer
           /\ h.rewriting = g.rewriting /\ h.first = g.first /\ h.fixed = g.fixed
           /\ h.seen = g.seen /\ h.at = g.at /\ h.budget = b /\ h.rounds = 0
           /\ h.kept = c /\ h.auth = FALSE
      BY <2>8 DEF Frame
    <2> HIDE DEF h
    <2>12. Tracks(h)
      <3>1. ~ (h.rounds > 0)
        BY <2>11
      <3> QED BY <1>2, <2>4, <2>5, <2>7, <2>9, <2>11, <3>1 DEF Tracks, Writes
    <2> QED BY <2>6, <2>9, <2>10, <2>11, <2>12, TracedGoes
  <1>3. CASE /\ Top.kind = "conversation"
             /\ Top.rewriting \/ FinalReplyOf(Top.provider) = None
    <2> DEFINE l == FirstOf(Top)
               r == ReplyOf([Top EXCEPT !.first = l])
    <2>1. Over(Top, r)
      BY <1>3 DEF LoopReplies, LooksForWriter
    <2>2. Writes(Top)
      BY <1>3, <1>t DEF Tracks
    <2>3. Written([provider |-> Top.provider, first |-> l])
      <3>1. CASE Top.rewriting
        <4>1. l = Top.first /\ FinalReplyOf(l) # None /\ Top.provider = FinalReplyOf(l)
          BY <2>2, <3>1 DEF Writes, FirstOf
        <4> QED BY <4>1 DEF Written
      <3>2. CASE ~ Top.rewriting
        <4>1. l = OrDefault(Top.provider) /\ FinalReplyOf(l) = None
          BY <1>3, <1>n, <3>2, FinalReplyOfDefault DEF FirstOf
        <4> QED BY <4>1 DEF Written
      <3> QED BY <3>1, <3>2
    <2> HIDE DEF l
    <2>4. Proper(r)
      BY <1>t, <2>2, <2>3, ReplyProper DEF Writes
    <2> HIDE DEF r
    <2> QED BY <1>3, <2>1, <2>4, TracedOver
  <1> QED BY <1>k, <1>1, <1>2, <1>3

LEMMA TracedLoopStops ==
    ASSUME IInv, Traced, Top.kind # "tool", NEW summary \in BOOLEAN,
           summary => Top.at = "summary", LoopStops(Top, summary)
    PROVE  Traced'
  <1>t. Top \in Frame /\ Tracks(Top)
    BY TopTracks
  <1>1. CASE Top.kind = "expert"
    BY <1>1, TracedReturns DEF LoopStops, Results
  <1>2. CASE Top.kind = "conversation"
    <2>1. CASE Over(Top, [NoReply EXCEPT !.kind = "fixed"])
      BY <1>2, <2>1, NotProper, TracedOver
    <2>2. CASE summary /\ Over(Top, ReplyOf(Top))
      <3>1. Writes(Top) /\ Written(Top)
        BY <1>2, <1>t, <2>2 DEF Tracks, Writes
      <3>2. Written([provider |-> Top.provider, first |-> Top.first])
        BY <3>1 DEF Written
      <3> DEFINE l == Top.first
      <3>3. l = Top.first /\ Written([provider |-> Top.provider, first |-> l])
        BY <3>2
      <3> HIDE DEF l
      <3>4. Proper(ReplyOf(Top))
        BY <1>t, <3>1, <3>3, ReplyProper DEF Writes
      <3> QED BY <1>2, <2>2, <3>4, TracedOver
    <2> QED BY <1>2, <2>1, <2>2 DEF LoopStops
  <1> QED BY <1>t, <1>1, <1>2 DEF Frame

LEMMA TracedLoopRaises ==
    ASSUME IInv, Traced, Top.kind # "tool", LoopRaises(Top)
    PROVE  Traced'
  <1>1. CASE Top.kind = "expert"
    BY <1>1, TracedReturns DEF LoopRaises, Results
  <1>2. CASE Top.kind # "expert"
    <2>1. Top.kind = "conversation"
      BY <1>2, TopTracks DEF Frame
    <2> QED BY <1>2, <2>1, TracedOver, NotProper DEF LoopRaises, Raises
  <1> QED BY <1>1, <1>2

LEMMA TracedPrepares == ASSUME IInv, Traced, Prepares PROVE Traced'
  <1>1. /\ Top.kind = "conversation" /\ Top.at = "start" /\ Top \in Frame /\ Writes(Top)
        /\ ~ Top.rewriting
    BY TopTracks DEF Prepares, IsConversation, Tracks, Good, WithinBudget
  <1>2. ASSUME NEW bad \in BOOLEAN,
               Goes([Top EXCEPT !.at = "select", !.bad = bad, !.budget = MaxIterations])
        PROVE  Traced'
    <2> DEFINE g == [Top EXCEPT !.at = "select", !.bad = bad, !.budget = MaxIterations]
    <2>1. Goes(g)
      BY <1>2
    <2>m. MaxIterations \in 0 .. MaxIterations
      BY LimitsAssumption
    <2>2. g \in Frame
      BY <1>1, <2>m DEF Frame
    <2>3. /\ g.kind = Top.kind /\ g.tool = Top.tool /\ g.outer = Top.outer /\ g.kept = Top.kept
          /\ g.rewriting = Top.rewriting /\ g.first = Top.first
          /\ g.auth = Top.auth /\ g.seen = Top.seen /\ g.at = "select"
      BY <1>1 DEF Frame
    <2> HIDE DEF g
    <2>4. Tracks(g)
      BY <1>1, <2>3 DEF Tracks, Writes
    <2> QED BY <2>1, <2>2, <2>3, <2>4, TracedGoes
  <1>3. ASSUME NEW bad \in BOOLEAN, NEW p \in Resolved(key),
               Asks([Top EXCEPT !.at = "single", !.bad = bad, !.provider = p], p, "chat")
        PROVE  Traced'
    <2> DEFINE g == [Top EXCEPT !.at = "single", !.bad = bad, !.provider = p]
    <2>1. Asks(g, p, "chat") /\ p \in Keys \cup {None}
      BY <1>3, NamesTyped DEF IInv, RestOK
    <2>2. g \in Frame
      BY <1>1, <2>1 DEF Frame
    <2>3. /\ g.kind = Top.kind /\ g.tool = Top.tool /\ g.outer = Top.outer /\ g.kept = Top.kept
          /\ g.rewriting = Top.rewriting /\ g.first = Top.first
          /\ g.auth = Top.auth /\ g.seen = Top.seen /\ g.at = "single"
      BY <1>1 DEF Frame
    <2> HIDE DEF g
    <2>4. Tracks(g)
      BY <1>1, <2>3 DEF Tracks, Writes
    <2> QED BY <2>1, <2>2, <2>3, <2>4, TracedAsks
  <1> QED BY <1>2, <1>3 DEF Prepares

LEMMA TracedPlainReplies == ASSUME IInv, Traced, PlainReplies PROVE Traced'
  <1>1. CASE Over(Top, [NoReply EXCEPT !.kind = "error"])
    BY <1>1, NotProper, TracedOver DEF PlainReplies, IsConversation
  <1>2. CASE Over(Top, ReplyOf(Top))
    <2>1. Top.kind = "conversation" /\ Top \in Frame /\ Writes(Top) /\ Top.first = None
      BY TopTracks DEF PlainReplies, IsConversation, Tracks, Writes
    <2>2. Proper(ReplyOf(Top))
      BY <2>1, ReplyProper DEF Writes
    <2> QED BY <1>2, <2>1, <2>2, TracedOver
  <1> QED BY <1>1, <1>2 DEF PlainReplies, Raises

LEMMA TracedRequests == ASSUME IInv, Traced, Requests PROVE Traced'
  <1>1. PICK p \in Selectable(Top) :
            Asks([Top EXCEPT !.at = "asked", !.provider = p], p, "tools")
    BY DEF Requests
  <1>2. Top.at = "select" /\ Top \in Frame /\ Tracks(Top) /\ Top.fixed \in Keys \cup {None}
    BY TopTracks DEF Requests, Frame
  <1>3. p \in Keys \cup {None}
    BY <1>1, <1>2, NamesTyped DEF Selectable, IInv, RestOK
  <1>4. Top.kind = "conversation" /\ Top.rewriting => p = Top.fixed
    BY <1>1 DEF Selectable
  <1> DEFINE g == [Top EXCEPT !.at = "asked", !.provider = p]
  <1>5. g \in Frame /\ Asks(g, p, "tools")
    BY <1>1, <1>2, <1>3 DEF Frame
  <1>6. /\ g.kind = Top.kind /\ g.tool = Top.tool /\ g.outer = Top.outer /\ g.kept = Top.kept
        /\ g.rewriting = Top.rewriting /\ g.first = Top.first /\ g.fixed = Top.fixed
        /\ g.budget = Top.budget /\ g.rounds = Top.rounds
        /\ g.auth = Top.auth /\ g.seen = Top.seen /\ g.at = "asked" /\ g.provider = p
    BY <1>2 DEF Frame
  <1> HIDE DEF g
  <1>7. Tracks(g)
    BY <1>2, <1>4, <1>6 DEF Tracks, Writes
  <1> QED BY <1>5, <1>6, <1>7, TracedAsks

\* A second loop with no rounds left made a request with its provider before,
\* for it began with some.
LEMMA TracedSummaryRequested == ASSUME IInv, Traced, SummaryRequested PROVE Traced'
  <1>1. /\ Top.at = "select" /\ Top \in Frame /\ Tracks(Top) /\ Good(Top, Len(stack))
        /\ ~ (Top.rounds < Top.budget)
    BY TopTracks DEF SummaryRequested, RoundsLeft
  <1>2. Top.provider \in Keys \cup {None} /\ FirstOf(Top) \in Keys \cup {None}
        /\ FinalReplyOf(Top.provider) \in Keys \cup {None}
    BY <1>1, NamesTyped DEF Frame
  <1> DEFINE target == IF LooksForWriter(Top) THEN FinalReplyOf(Top.provider) ELSE None
             p == IF target = None THEN Top.provider ELSE target
             l == FirstOf(Top)
             g == [Top EXCEPT !.at = "summary", !.provider = p, !.first = l]
  <1>3. p \in Keys \cup {None} /\ l \in Keys \cup {None}
    BY <1>2
  <1>4. Asks(g, p, "tools")
    BY DEF SummaryRequested
  <1>5. Top.kind = "conversation" => Written([provider |-> p, first |-> l])
    <2> SUFFICES ASSUME Top.kind = "conversation"
                 PROVE  Written([provider |-> p, first |-> l])
      OBVIOUS
    <2>1. CASE Top.rewriting
      <3>1. Top.rounds > 0
        <4>1. /\ Top.rounds \in 0 .. MaxIterations /\ Top.budget \in 0 .. MaxIterations
              /\ Top.budget > 0 /\ MaxIterations \in Nat
          BY <1>1, <2>1, LimitsAssumption DEF Frame, Tracks, Writes
        <4> QED BY <1>1, <4>1
      <3>2. p = Top.provider /\ l = Top.first
        BY <2>1 DEF LooksForWriter, FirstOf
      <3>3. p = FinalReplyOf(l) /\ FinalReplyOf(l) # None
        BY <1>1, <2>1, <3>1, <3>2 DEF Tracks, Writes
      <3> HIDE DEF p, l
      <3> QED BY <3>3 DEF Written
    <2>2. CASE ~ Top.rewriting
      <3>1. target = FinalReplyOf(Top.provider) /\ l = OrDefault(Top.provider)
        BY <2>2 DEF LooksForWriter, FirstOf
      <3>2. FinalReplyOf(l) = target
        BY <1>2, <3>1, FinalReplyOfDefault
      <3>3. target = None => p = Top.provider
        OBVIOUS
      <3>4. target # None => p = target
        OBVIOUS
      <3> HIDE DEF target, p, l
      <3> QED BY <3>1, <3>2, <3>3, <3>4 DEF Written
    <2> QED BY <2>1, <2>2
  <1>6. Top.kind = "conversation" /\ Top.rewriting =>
            l = Top.first /\ p = Top.provider
    BY DEF LooksForWriter, FirstOf
  <1> HIDE DEF p, l, target
  <1>7. g \in Frame
    BY <1>1, <1>3 DEF Frame
  <1>8. /\ g.kind = Top.kind /\ g.tool = Top.tool /\ g.outer = Top.outer /\ g.kept = Top.kept
        /\ g.rewriting = Top.rewriting /\ g.first = l /\ g.fixed = Top.fixed
        /\ g.budget = Top.budget /\ g.rounds = Top.rounds
        /\ g.auth = Top.auth /\ g.seen = Top.seen /\ g.at = "summary" /\ g.provider = p
    BY <1>1 DEF Frame
  <1> HIDE DEF g
  <1>9. Tracks(g)
    <2>1. Top.kind = "expert" => Tracks(g)
      BY <1>1, <1>8 DEF Tracks
    <2>2. Top.kind = "conversation" => Writes(g)
      <3>1. Top.kind = "conversation" => Writes(Top)
        BY <1>1 DEF Tracks
      <3>2. Top.kind = "conversation" => Written(g)
        BY <1>5, <1>8 DEF Written
      <3> QED BY <1>1, <1>6, <1>8, <3>1, <3>2 DEF Writes
    <2> QED BY <1>8, <2>1, <2>2 DEF Tracks
  <1> QED BY <1>4, <1>7, <1>8, <1>9, TracedAsks

LEMMA TracedCallsArrive == ASSUME IInv, Traced, CallsArrive PROVE Traced'
  <1>1. PICK n \in 1 .. MaxCalls : Goes([Top EXCEPT !.at = "calls", !.left = n, !.open = @ + n])
    BY DEF CallsArrive
  <1>2. Top.at = "asked" /\ Top \in Frame /\ Tracks(Top) /\ Good(Top, Len(stack))
        /\ Len(stack) \in Nat \ {0}
    BY TopTracks DEF CallsArrive
  <1> DEFINE g == [Top EXCEPT !.at = "calls", !.left = n, !.open = @ + n]
  <1>3. g \in Frame
    BY <1>2, CallsGood DEF Good
  <1>4. /\ g.kind = Top.kind /\ g.tool = Top.tool /\ g.outer = Top.outer /\ g.kept = Top.kept
        /\ g.rewriting = Top.rewriting /\ g.first = Top.first /\ g.fixed = Top.fixed
        /\ g.budget = Top.budget /\ g.rounds = Top.rounds /\ g.provider = Top.provider
        /\ g.auth = Top.auth /\ g.seen = Top.seen /\ g.at = "calls"
    BY <1>2 DEF Frame
  <1>5. Goes(g)
    BY <1>1
  <1> HIDE DEF g
  <1>6. Tracks(g)
    BY <1>2, <1>4 DEF Tracks, Writes
  <1> QED BY <1>3, <1>4, <1>5, <1>6, TracedGoes

LEMMA TracedRoundOver == ASSUME IInv, Traced, RoundOver PROVE Traced'
  <1>1. Top.at = "calls" /\ Top.left = 0 /\ Top \in Frame /\ Tracks(Top)
        /\ Good(Top, Len(stack)) /\ Len(stack) \in Nat \ {0}
    BY TopTracks DEF RoundOver
  <1>a. PICK listed \in BOOLEAN :
            Goes([Top EXCEPT !.at = "select", !.bad = @ \/ listed, !.rounds = RoundsAfter(Top)])
    BY DEF RoundOver
  <1> DEFINE g == [Top EXCEPT !.at = "select", !.bad = @ \/ listed, !.rounds = RoundsAfter(Top)]
  <1>2. g \in Frame /\ Goes(g)
    BY <1>1, <1>a, RoundOverGood DEF Good
  <1>3. /\ g.kind = Top.kind /\ g.tool = Top.tool /\ g.outer = Top.outer /\ g.kept = Top.kept
        /\ g.rewriting = Top.rewriting /\ g.first = Top.first /\ g.fixed = Top.fixed
        /\ g.budget = Top.budget /\ g.provider = Top.provider
        /\ g.auth = Top.auth /\ g.seen = Top.seen /\ g.at = "select"
    BY <1>1 DEF Frame
  <1> HIDE DEF g
  <1>4. Tracks(g)
    BY <1>1, <1>3 DEF Tracks, Writes
  <1> QED BY <1>2, <1>3, <1>4, TracedGoes

LEMMA TracedExpertStarts == ASSUME IInv, Traced, ExpertStarts PROVE Traced'
  <1> DEFINE provider == Read(Top, "llm_provider", None)
  <1>1. Top.kind = "expert" /\ Top.at = "start" /\ Top \in Frame /\ ~ Top.auth
    BY TopTracks DEF ExpertStarts, Tracks
  <1>2. provider \in Keys \cup {None}
    BY <1>1 DEF Read, Settings, Legal, Frame
  <1> HIDE DEF provider
  <1>3. CASE Returns("failed")
    BY <1>3, TracedReturns DEF Results
  <1>4. ASSUME NEW b \in BOOLEAN,
               Asks([Top EXCEPT !.at = "single", !.bad = b, !.provider = provider],
                    provider, "responses")
        PROVE  Traced'
    <2> DEFINE g == [Top EXCEPT !.at = "single", !.bad = b, !.provider = provider]
    <2>1. g \in Frame /\ Asks(g, provider, "responses")
      BY <1>1, <1>2, <1>4 DEF Frame
    <2>2. g.kind = Top.kind /\ g.tool = Top.tool /\ g.outer = Top.outer /\ g.auth = Top.auth
      BY <1>1 DEF Frame
    <2> HIDE DEF g
    <2>3. Tracks(g)
      BY <1>1, <2>2 DEF Tracks
    <2> QED BY <2>1, <2>2, <2>3, TracedAsks
  <1>5. ASSUME NEW b \in BOOLEAN,
               Goes([Top EXCEPT !.at = "select", !.bad = b, !.fixed = provider,
                                !.budget = MaxIterations])
        PROVE  Traced'
    <2> DEFINE g == [Top EXCEPT !.at = "select", !.bad = b, !.fixed = provider,
                                !.budget = MaxIterations]
    <2>m. MaxIterations \in 0 .. MaxIterations
      BY LimitsAssumption
    <2>1. g \in Frame /\ Goes(g)
      BY <1>1, <1>2, <1>5, <2>m DEF Frame
    <2>2. g.kind = Top.kind /\ g.tool = Top.tool /\ g.outer = Top.outer /\ g.auth = Top.auth
      BY <1>1 DEF Frame
    <2> HIDE DEF g
    <2>3. Tracks(g)
      BY <1>1, <2>2 DEF Tracks
    <2> QED BY <2>1, <2>2, <2>3, TracedGoes
  <1> QED BY <1>3, <1>4, <1>5 DEF ExpertStarts, provider

LEMMA TracedNext == IInv /\ Traced /\ [Next]_vars => Traced'
  <1> SUFFICES ASSUME IInv, Traced, [Next]_vars PROVE Traced'
    OBVIOUS
  <1>1. CASE Calling
    <2>1. UNCHANGED << stack, origin, reply >>
      BY <1>1 DEF Calling, ClientNext, Replied, AttemptFails, SleepOver
    <2> QED BY <2>1 DEF Traced, Top
  <1>2. CASE Conversing
    <2>1. CASE PreparationFails
      BY <2>1, TracedOver, NotProper DEF PreparationFails, Raises, IsConversation
    <2> QED BY <1>2, <2>1, TracedPrepares, TracedPlainReplies DEF Conversing
  <1>3. ASSUME Looping PROVE Traced'
    <2>1. Top.at \in {"select", "asked", "summary"} => Top.kind # "tool"
      BY TopOK DEF Good
    <2>2. CASE Requests \/ SummaryRequested
      BY <2>2, TracedRequests, TracedSummaryRequested
    <2>3. CASE LimitReached \/ SummaryArrives
      BY <2>1, <2>3, TracedLoopStops, TracedLoopRaises DEF LimitReached, SummaryArrives
    <2>4. CASE TextArrives
      BY <2>4, TracedLoopReplies DEF TextArrives
    <2>5. CASE CallsArrive \/ RoundOver
      BY <2>5, TracedCallsArrive, TracedRoundOver
    <2>6. CASE RequestFails
      BY <2>1, <2>6, TracedLoopRaises DEF RequestFails
    <2>7. CASE Executes
      BY <2>7, TracedCalls DEF Executes, Waiting
    <2> QED BY <1>3, <2>2, <2>3, <2>4, <2>5, <2>6, <2>7 DEF Looping
  <1>4. ASSUME Executing PROVE Traced'
    <2>1. CASE ToolReturns
      BY <2>1, TracedReturns DEF ToolReturns, Results
    <2>2. CASE CallToolUsed
      BY <2>2, TracedCalls DEF CallToolUsed, Waiting
    <2>3. CASE ExpertStarts
      BY <2>3, TracedExpertStarts
    <2>4. CASE SingleReplies \/ StoppedOnAuth
      BY <2>4, TracedReturns DEF SingleReplies, StoppedOnAuth, Results
    <2> QED BY <1>4, <2>1, <2>2, <2>3, <2>4 DEF Executing
  <1>5. CASE UNCHANGED vars
    BY <1>5 DEF vars, clientVars, Traced, Top
  <1> QED BY <1>1, <1>2, <1>3, <1>4, <1>5 DEF Next

LEMMA TracedHolds == Spec => []Traced
  <1>1. IInv /\ Traced /\ IInv' /\ [Next]_vars => Traced'
    BY TracedNext
  <1> QED BY TracedInit, IInvHolds, <1>1, PTL DEF Spec

\* For every chain of final reply providers and every way the two loops and the
\* summary end: the reply was written by the one that had to.
THEOREM WrittenByTargetHolds == Spec => []WrittenByTarget
  <1>1. IInv /\ Traced => WrittenByTarget
    <2> SUFFICES ASSUME IInv, Traced, reply.kind = "reply", reply.first # None
                 PROVE  LET target == FinalReplyOf(reply.first)
                        IN  reply.writer \in {p \in Keys \cup {None} :
                               IF target = None THEN OrDefault(p) = reply.first ELSE p = target}
      BY DEF WrittenByTarget
    <2>1. reply.writer \in Keys \cup {None}
      BY DEF IInv, RestOK, Reply
    <2>2. Written([provider |-> reply.writer, first |-> reply.first])
      BY DEF Traced, Proper
    <2> QED BY <2>1, <2>2 DEF Written
  <1> QED BY IInvHolds, TracedHolds, <1>1, PTL

\* Whatever tools of either loop needed it, in whatever round: the reply asks
\* for the authentication, and an expert that knows of it does nothing more.
THEOREM AuthPassedUpHolds == Spec => []AuthPassedUp
  <1>1. IInv /\ Traced => AuthPassedUp
    BY DEF IInv, StackOK, Traced, Linked, Tracks, Proper, AuthPassedUp
  <1> QED BY IInvHolds, TracedHolds, <1>1, PTL

-----------------------------------------------------------------------------
(* The calls of LlmClient as the loops make them, for all settings of the  *)
(* providers.  The invariant counts the attempts and the seconds waited at *)
(* each place of _post_with_retries.                                       *)

\* Call, with no claim that the seconds waited are not negative.
Shape == [at : {"idle", "post", "sleep", "answered", "failed", "refused"},
          provider : Concrete, bad : BOOLEAN, attempt : Nat, waited : Int,
          records : Seq([entry : Tools \cup {None}, provider : Concrete])]

\* Retries that are over leave as many waits behind as there were retries.
WithinRetries(c) ==
    LET n == MaxRetries[c.provider]
        w == MaxWait[c.provider]
    IN  /\ c.attempt <= n + 1 /\ c.waited <= n * w
        /\ c.at = "post" => c.attempt >= 1 /\ c.waited <= (c.attempt - 1) * w
        /\ c.at = "sleep" => c.attempt \in 1 .. n /\ c.waited <= c.attempt * w

Recorded(c) ==
    IF c.at = "answered"
    THEN Len(c.records) = 1 /\ c.records[1].provider = c.provider
    ELSE c.records = << >>

CallOK(c) ==
    /\ c \in Shape
    /\ WithinRetries(c)
    /\ GuardOn /\ c.bad => c.at \in {"failed", "refused"}
    /\ Recorded(c)

LEMMA TimesMonotonic ==
    ASSUME NEW a \in Nat, NEW b \in Nat, NEW m \in Nat, a <= b
    PROVE  a * m <= b * m
  <1>1. b - a \in Nat /\ b = a + (b - a)
    OBVIOUS
  <1>2. b * m = a * m + (b - a) * m /\ (b - a) * m >= 0
    BY <1>1
  <1>3. a * m \in Nat /\ b * m \in Nat /\ (b - a) * m \in Nat
    BY <1>1
  <1> QED BY <1>2, <1>3

LEMMA SettingsTyped ==
    ASSUME NEW p \in Concrete
    PROVE  MaxRetries[p] \in Nat /\ MaxWait[p] \in Nat /\ MaxRetries[p] * MaxWait[p] \in Nat
  <1>1. MaxRetries[p] \in Nat /\ MaxWait[p] \in Nat
    BY RetryAssumption
  <1> QED BY <1>1

\* No single wait is longer than retry_max_wait_seconds.
LEMMA WaitBounded ==
    ASSUME NEW p \in Concrete, NEW e \in Failures, NEW n, NEW w \in RetryWaits(p, e, n)
    PROVE  w \in Int /\ w <= MaxWait[p]
  <1>1. MaxWait[p] \in Nat
    BY SettingsTyped
  <1>2. CASE w \in {e.after} \cap 0 .. MaxWait[p]
    BY <1>1, <1>2
  <1>3. ASSUME NEW base, w \in {Capped(v, p) : v \in base .. (3 * base) \div 2}
        PROVE  w \in Int /\ w <= MaxWait[p]
    <2>1. PICK v \in Int : w = Capped(v, p)
      BY <1>3
    <2> QED BY <1>1, <2>1 DEF Capped
  <1>4. CASE w \in {}
    BY <1>4
  <1> DEFINE base == Backoff[p] * 2 ^ (n - 1)
             jitter == {Capped(v, p) : v \in base .. (3 * base) \div 2}
  <1>5. RetryWaits(p, e, n) \in {{}, {e.after} \cap 0 .. MaxWait[p], jitter}
    BY DEF RetryWaits
  <1> QED BY <1>2, <1>3, <1>4, <1>5

\* A call that is made has the provider its key leads to, and has been checked.
LEMMA MakeCallOK ==
    ASSUME NEW k \in Keys \cup {None}, NEW api, NEW b \in BOOLEAN, MakeCall(k, api, b)
    PROVE  CallOK(call')
  <1> DEFINE p == Sent(k)
             at == CASE api \notin Apis[p] -> "failed"
                     [] api \in Apis[p] /\ ~ Allowed(b) -> "refused"
                     [] OTHER -> "post"
             n == IF api \in Apis[p] /\ Allowed(b) THEN 1 ELSE 0
  <1>1. p \in Concrete
    BY NamesTyped, ProvidersAssumption DEF Sent, OrDefault, Keys
  <1>2. /\ at \in {"failed", "refused", "post"} /\ n \in {0, 1}
        /\ at = "post" <=> n = 1
        /\ GuardOn /\ b => n = 0
    BY DEF Allowed
  <1>3. call' = [at |-> at, provider |-> p, bad |-> b, attempt |-> n, waited |-> 0, records |-> << >>]
    BY DEF MakeCall, NoCall
  <1> HIDE DEF p, at, n
  <1>4. call' \in Shape
    BY <1>1, <1>2, <1>3 DEF Shape
  <1>5. WithinRetries(call')
    BY <1>1, <1>2, <1>3, SettingsTyped DEF WithinRetries
  <1> QED BY <1>1, <1>2, <1>3, <1>4, <1>5 DEF CallOK, Recorded

\* A call that is over has waited no longer than all its retries may.
LEMMA OverRetries ==
    ASSUME CallOK(call), call.at = "post"
    PROVE  call.waited <= MaxRetries[call.provider] * MaxWait[call.provider]
  <1> DEFINE a == call.attempt
             n == MaxRetries[call.provider]
             w == MaxWait[call.provider]
  <1>1. /\ n \in Nat /\ w \in Nat /\ n * w \in Nat /\ a \in Nat /\ a >= 1 /\ a - 1 \in Nat
        /\ a - 1 <= n /\ call.waited \in Int /\ call.waited <= (a - 1) * w
    BY SettingsTyped DEF CallOK, Shape, WithinRetries
  <1> HIDE DEF a, n, w
  <1>2. (a - 1) * w <= n * w
    BY <1>1, TimesMonotonic
  <1>3. (a - 1) * w \in Int
    BY <1>1
  <1>4. call.waited <= n * w
    BY <1>1, <1>2, <1>3
  <1> QED BY <1>4 DEF n, w

LEMMA RepliedOK ==
    ASSUME CallOK(call), origin \in Tools \cup {None}, Replied
    PROVE  CallOK(call')
  <1>1. PICK readable \in BOOLEAN :
          call' = [call EXCEPT
                      !.at = IF readable THEN "answered" ELSE "failed",
                      !.records = IF Records(readable)
                                  THEN Append(@, [entry |-> origin, provider |-> call.provider])
                                  ELSE @]
    BY DEF Replied
  <1>2. call \in Shape /\ call.at = "post" /\ call.records = << >> /\ call.provider \in Concrete
    BY DEF Replied, CallOK, Recorded, Shape
  <1> DEFINE e == [entry |-> origin, provider |-> call.provider]
  <1>3. e \in [entry : Tools \cup {None}, provider : Concrete] /\ e.provider = call.provider
    BY <1>2
  <1> HIDE DEF e
  <1>4. CASE readable
    <2>1. call' = [call EXCEPT !.at = "answered", !.records = << e >>]
      BY <1>1, <1>2, <1>4 DEF Records, e
    <2> DEFINE T == [entry : Tools \cup {None}, provider : Concrete]
               q == << e >>
    <2>a. q \in Seq(T) /\ Len(q) = 1 /\ q[1] = e
      <3> HIDE DEF T
      <3> QED BY <1>3 DEF T
    <2>b. call' = [call EXCEPT !.at = "answered", !.records = q]
      BY <2>1
    <2> HIDE DEF q
    <2>2. call' \in Shape /\ Recorded(call')
      <3>1. call' \in Shape
        BY <1>2, <2>a, <2>b DEF Shape
      <3>2. call'.at = "answered" /\ call'.records = q /\ call'.provider = call.provider
        BY <1>2, <2>b DEF Shape
      <3> QED BY <1>3, <2>a, <3>1, <3>2 DEF Recorded
    <2>3. WithinRetries(call')
      BY <1>2, <2>1, OverRetries DEF CallOK, WithinRetries, Shape
    <2> QED BY <1>2, <2>1, <2>2, <2>3 DEF CallOK, Shape
  <1>5. CASE ~ readable
    <2>1. call' = [call EXCEPT !.at = "failed"]
      BY <1>1, <1>2, <1>5 DEF Records, Shape
    <2>2. call' \in Shape /\ Recorded(call')
      BY <1>2, <2>1 DEF Shape, Recorded
    <2>3. WithinRetries(call')
      BY <1>2, <2>1, OverRetries DEF CallOK, WithinRetries, Shape
    <2> QED BY <1>2, <2>1, <2>2, <2>3 DEF CallOK, Shape
  <1> QED BY <1>4, <1>5

LEMMA AttemptFailsOK ==
    ASSUME CallOK(call), AttemptFails
    PROVE  CallOK(call')
  <1>1. call \in Shape /\ call.at = "post" /\ call.provider \in Concrete
    BY DEF AttemptFails, CallOK, Shape
  <1>2. CASE call' = [call EXCEPT !.at = "failed"]
    <2>1. call' \in Shape /\ Recorded(call')
      BY <1>1, <1>2 DEF CallOK, Shape, Recorded
    <2>2. WithinRetries(call')
      BY <1>1, <1>2, OverRetries DEF CallOK, WithinRetries, Shape
    <2> QED BY <1>1, <1>2, <2>1, <2>2 DEF CallOK, Shape
  <1>3. ASSUME NEW e \in Failures, ~ IsLast(call.provider, call.attempt),
               NEW w \in RetryWaits(call.provider, e, call.attempt),
               call' = [call EXCEPT !.at = "sleep", !.waited = @ + w]
        PROVE  CallOK(call')
    <2> DEFINE a == call.attempt
               n == MaxRetries[call.provider]
               m == MaxWait[call.provider]
               x == call.waited + w
    <2>1. w \in Int /\ w <= m
      BY <1>1, WaitBounded
    <2>2. /\ n \in Nat /\ m \in Nat /\ n * m \in Nat /\ a \in Nat /\ a >= 1 /\ a <= n
          /\ call.waited \in Int /\ call.waited <= (a - 1) * m
      BY <1>1, <1>3, SettingsTyped DEF CallOK, Shape, WithinRetries, IsLast
    <2>3. (a - 1) * m \in Int /\ (a - 1) * m + m = a * m /\ a * m \in Int
      <3> HIDE DEF a, n, m
      <3> QED BY <2>2
    <2>4. a * m <= n * m
      <3> HIDE DEF a, n, m
      <3> QED BY <2>2, TimesMonotonic
    <2>5. x \in Int /\ x <= a * m /\ x <= n * m
      <3>1. call.waited \in Int
        BY <2>2
      <3> DEFINE v == call.waited
      <3>2. v \in Int /\ v <= (a - 1) * m /\ x = v + w
        BY <2>2
      <3> HIDE DEF a, n, m, v, x
      <3> QED BY <2>1, <2>2, <2>3, <2>4, <3>2
    <2>6. call' = [call EXCEPT !.at = "sleep", !.waited = x]
      BY <1>3
    <2> HIDE DEF x
    <2>7. call' \in Shape
      BY <1>1, <2>5, <2>6 DEF Shape
    <2>8. /\ call'.at = "sleep" /\ call'.waited = x /\ call'.attempt = a
          /\ call'.provider = call.provider /\ call'.bad = call.bad
          /\ call'.records = call.records
      BY <1>1, <2>6 DEF Shape
    <2>9. WithinRetries(call')
      BY <2>2, <2>5, <2>8 DEF WithinRetries
    <2> QED BY <1>1, <2>7, <2>8, <2>9 DEF CallOK, Recorded
  <1> QED BY <1>2, <1>3 DEF AttemptFails

LEMMA SleepOverOK ==
    ASSUME CallOK(call), SleepOver
    PROVE  CallOK(call')
  <1> DEFINE a == call.attempt
             n == MaxRetries[call.provider]
             m == MaxWait[call.provider]
             y == a + 1
  <1>1. /\ call \in Shape /\ call.at = "sleep" /\ call.provider \in Concrete
        /\ call' = [call EXCEPT !.at = "post", !.attempt = y]
    BY DEF SleepOver, CallOK, Shape
  <1>2. /\ n \in Nat /\ m \in Nat /\ a \in 1 .. n
        /\ call.waited <= a * m /\ call.waited <= n * m
    BY <1>1, SettingsTyped DEF CallOK, WithinRetries
  <1>3. y \in Nat /\ y >= 1 /\ y <= n + 1 /\ y - 1 = a
    BY <1>2
  <1> HIDE DEF y
  <1>4. call' \in Shape
    BY <1>1, <1>3 DEF Shape
  <1>5. /\ call'.at = "post" /\ call'.waited = call.waited /\ call'.attempt = y
        /\ call'.provider = call.provider /\ call'.bad = call.bad
        /\ call'.records = call.records
    BY <1>1 DEF Shape
  <1>6. WithinRetries(call')
    BY <1>2, <1>3, <1>5 DEF WithinRetries
  <1> QED BY <1>1, <1>4, <1>5, <1>6 DEF CallOK, Recorded

-----------------------------------------------------------------------------
(* The steps of a conversation.                                            *)

CInv == IInv /\ CallOK(call)

\* A step makes a call, moves the one under way or leaves it alone.
LEMMA CallSteps ==
    ASSUME IInv, [Next]_vars
    PROVE  \/ UNCHANGED call
           \/ ClientNext
           \/ \E k \in Keys \cup {None}, api \in ApiKinds, b \in BOOLEAN : MakeCall(k, api, b)
  <1> DEFINE Made == \E k \in Keys \cup {None}, api \in ApiKinds, b \in BOOLEAN : MakeCall(k, api, b)
  <1>t. Top \in Frame /\ Top.bad \in BOOLEAN
    BY TopOK DEF Frame
  <1>a. ASSUME NEW f, f.bad \in BOOLEAN, NEW k \in Keys \cup {None}, NEW api \in ApiKinds,
               Asks(f, k, api)
        PROVE  Made
    BY <1>a DEF Asks
  <1> HIDE DEF Made
  <1>1. CASE Calling
    BY <1>1 DEF Calling
  <1>2. CASE Conversing
    <2>1. CASE PreparationFails \/ PlainReplies
      BY <2>1 DEF PreparationFails, PlainReplies, Raises, Over, clientVars
    <2>2. ASSUME NEW bad \in BOOLEAN, NEW p \in Resolved(key),
                 Asks([Top EXCEPT !.at = "single", !.bad = bad, !.provider = p], p, "chat")
          PROVE  Made
      <3> DEFINE f == [Top EXCEPT !.at = "single", !.bad = bad, !.provider = p]
      <3>1. f.bad \in BOOLEAN /\ "chat" \in ApiKinds
        BY <1>t DEF Frame, ApiKinds
      <3>2. p \in Keys \cup {None}
        BY NamesTyped DEF IInv, RestOK
      <3>3. Asks(f, p, "chat")
        BY <2>2
      <3> HIDE DEF f
      <3> QED BY <1>a, <3>1, <3>2, <3>3
    <2> QED BY <1>2, <2>1, <2>2 DEF Conversing, Prepares, Goes, clientVars, Made
  <1>3. CASE Looping
    <2>1. CASE Requests
      <3>1. PICK p \in Selectable(Top) :
                Asks([Top EXCEPT !.at = "asked", !.provider = p], p, "tools")
        BY <2>1 DEF Requests
      <3> DEFINE f == [Top EXCEPT !.at = "asked", !.provider = p]
      <3>2. f.bad \in BOOLEAN /\ "tools" \in ApiKinds
        BY <1>t DEF Frame, ApiKinds
      <3>3. p \in Keys \cup {None}
        BY <1>t, <3>1, NamesTyped DEF Selectable, IInv, RestOK, Frame
      <3>4. Asks(f, p, "tools")
        BY <3>1
      <3> HIDE DEF f
      <3> QED BY <1>a, <3>2, <3>3, <3>4 DEF Made
    <2>2. CASE SummaryRequested
      <3>1. PICK p \in Keys \cup {None} :
            Asks([Top EXCEPT !.at = "summary", !.provider = p, !.first = FirstOf(Top)], p, "tools")
        <4>1. Top.provider \in Keys \cup {None}
          BY <1>t DEF Frame
        <4> QED BY <2>2, <4>1, NamesTyped DEF SummaryRequested
      <3> DEFINE f == [Top EXCEPT !.at = "summary", !.provider = p, !.first = FirstOf(Top)]
      <3>2. f.bad \in BOOLEAN /\ "tools" \in ApiKinds
        BY <1>t DEF Frame, ApiKinds
      <3>4. Asks(f, p, "tools")
        BY <3>1
      <3> HIDE DEF f
      <3> QED BY <1>a, <3>2, <3>4 DEF Made
    <2>3. CASE LimitReached \/ SummaryArrives \/ RequestFails
      BY <2>3 DEF LimitReached, SummaryArrives, RequestFails, LoopStops, LoopRaises,
         Raises, Over, Returns, clientVars
    <2>4. CASE TextArrives
      BY <2>4 DEF TextArrives, LoopReplies, Over, Returns, Goes, clientVars
    <2>5. CASE CallsArrive \/ RoundOver \/ Executes
      BY <2>5 DEF CallsArrive, RoundOver, Executes, CallsTool, Goes, clientVars
    <2> QED BY <1>3, <2>1, <2>2, <2>3, <2>4, <2>5 DEF Looping
  <1>4. CASE Executing
    <2>1. CASE ToolReturns \/ CallToolUsed \/ SingleReplies \/ StoppedOnAuth
      BY <2>1 DEF ToolReturns, CallToolUsed, SingleReplies, StoppedOnAuth, Returns,
         CallsTool, Goes, clientVars
    <2>2. CASE ExpertStarts
      <3> DEFINE provider == Read(Top, "llm_provider", None)
                 f(b) == [Top EXCEPT !.at = "single", !.bad = b, !.provider = provider]
                 g(b) == [Top EXCEPT !.at = "select", !.bad = b, !.fixed = provider,
                                     !.budget = MaxIterations]
      <3>1. provider \in Keys \cup {None}
        BY <1>t DEF Read, Settings, Legal, Frame
      <3>2. "responses" \in ApiKinds /\ \A b \in BOOLEAN : f(b).bad \in BOOLEAN
        BY <1>t DEF Frame, ApiKinds
      <3> HIDE DEF f, g, provider
      <3>3. PICK b \in BOOLEAN :
                Returns("failed") \/ Asks(f(b), provider, "responses") \/ Goes(g(b))
        BY <2>2 DEF ExpertStarts, f, g, provider
      <3>4. Returns("failed") \/ Goes(g(b)) => UNCHANGED call
        BY DEF Returns, Goes, clientVars
      <3> QED BY <1>a, <3>1, <3>2, <3>3, <3>4 DEF Made
    <2> QED BY <1>4, <2>1, <2>2 DEF Executing
  <1>5. CASE UNCHANGED vars
    BY <1>5 DEF vars, clientVars
  <1> QED BY <1>1, <1>2, <1>3, <1>4, <1>5 DEF Next, Made

LEMMA CInvInit == Init => CInv
  <1> SUFFICES ASSUME Init PROVE CallOK(call)
    BY IInvInit DEF CInv
  <1>1. PICK p \in Concrete : call = NoCall(p)
    BY DEF Init, ClientInit
  <1>2. MaxRetries[p] \in Nat /\ MaxRetries[p] * MaxWait[p] \in Nat
    BY SettingsTyped
  <1> QED BY <1>1, <1>2 DEF NoCall, CallOK, Shape, WithinRetries, Recorded

LEMMA CInvNext == CInv /\ [Next]_vars => CInv'
  <1> SUFFICES ASSUME CInv, [Next]_vars PROVE CallOK(call')
    BY IInvNext DEF CInv
  <1>1. CASE UNCHANGED call
    BY <1>1 DEF CInv
  <1>2. CASE ClientNext
    <2>1. origin \in Tools \cup {None} /\ CallOK(call)
      BY DEF CInv, IInv, RestOK
    <2> QED BY <1>2, <2>1, RepliedOK, AttemptFailsOK, SleepOverOK DEF ClientNext
  <1>3. ASSUME NEW k \in Keys \cup {None}, NEW api \in ApiKinds, NEW b \in BOOLEAN,
               MakeCall(k, api, b)
        PROVE  CallOK(call')
    BY <1>3, MakeCallOK
  <1> QED BY <1>1, <1>2, <1>3, CallSteps DEF CInv

LEMMA CInvHolds == Spec => []CInv
  BY CInvInit, CInvNext, PTL DEF Spec

\* For all max_retries and retry_max_wait_seconds, and whatever Retry-After
\* headers come: attempts and waits of _post_with_retries are bounded.
THEOREM RetriesBoundedHolds == Spec => []RetriesBounded
  <1>1. CInv => RetriesBounded
    BY DEF CInv, CallOK, WithinRetries, RetriesBounded
  <1> QED BY CInvHolds, <1>1, PTL

\* Each call that answered is recorded once, under the provider it was sent
\* to; no other call is recorded.
THEOREM AnswersRecordedHolds == Spec => []AnswersRecorded
  <1>1. CInv => AnswersRecorded
    BY DEF CInv, CallOK, Shape, Recorded, AnswersRecorded
  <1> QED BY CInvHolds, <1>1, PTL

\* Whatever tools are inside each other and however they end: the origin is
\* that of the top frame when its call is answered, and a call is recorded then.
THEOREM RecordedUnderInnermostHolds == Spec => RecordedUnderInnermostTool
  <1> DEFINE Under == \A i \in DOMAIN call'.records \ DOMAIN call.records :
                         call'.records[i].entry = Top.tool
  <1>1. CInv /\ Traced /\ [Next]_vars => [Under]_vars
    <2> SUFFICES ASSUME CInv, Traced, [Next]_vars PROVE Under
      OBVIOUS
    <2>1. CASE UNCHANGED call
      BY <2>1
    <2>2. ASSUME NEW k \in Keys \cup {None}, NEW api \in ApiKinds, NEW b \in BOOLEAN,
                 MakeCall(k, api, b)
          PROVE  Under
      <3>1. call'.records = << >>
        BY <2>2 DEF MakeCall, NoCall
      <3>2. DOMAIN call'.records = {}
        BY <3>1
      <3> QED BY <3>2
    <2>3. CASE AttemptFails \/ SleepOver
      <3>1. call'.records = call.records
        BY <2>3 DEF AttemptFails, SleepOver, CInv, CallOK, Shape
      <3> QED BY <3>1
    <2>4. CASE Replied
      <3>1. PICK readable \in BOOLEAN :
              call' = [call EXCEPT
                        !.at = IF readable THEN "answered" ELSE "failed",
                        !.records = IF Records(readable)
                                    THEN Append(@, [entry |-> origin, provider |-> call.provider])
                                    ELSE @]
        BY <2>4 DEF Replied
      <3>2. call \in Shape /\ call.records = << >> /\ origin = Top.tool
        BY <2>4 DEF Replied, CInv, CallOK, Recorded, Traced
      <3> DEFINE e == [entry |-> origin, provider |-> call.provider]
      <3>3. e.entry = Top.tool
        BY <3>2
      <3> HIDE DEF e
      <3>4. call'.records = IF readable THEN << e >> ELSE << >>
        BY <3>1, <3>2 DEF Shape, Records, e
      <3>5. \A i \in DOMAIN call'.records : call'.records[i] = e
        BY <3>4
      <3> QED BY <3>3, <3>5
    <2> QED BY <2>1, <2>2, <2>3, <2>4, CallSteps DEF CInv, ClientNext
  <1>2. Spec => [][Under]_vars
    BY CInvHolds, TracedHolds, <1>1, PTL DEF Spec
  <1> QED BY <1>2 DEF RecordedUnderInnermostTool

-----------------------------------------------------------------------------
(* Texts on the blocklist.  The request under way is that of the top       *)
(* frame's messages, and nothing moves once there is a reply.              *)

Asking == {"asked", "summary", "single"}

Guarded ==
    /\ Top.at \in Asking => call.bad = Top.bad
    /\ reply.kind # "none" => stack[1].at = "over"
    /\ BlockedEndsInRefusal

\* While something moves there is no reply.
LEMMA NotOver ==
    ASSUME IInv, Guarded, Top.at # "over"
    PROVE  reply.kind = "none"
  <1>1. Len(stack) \in Nat \ {0}
    BY TopOK
  <1>2. CASE Len(stack) = 1
    BY <1>2 DEF Guarded, Top
  <1>3. CASE Len(stack) # 1
    <2>1. Good(stack[1], 1) /\ Waiting(stack[1])
      <3> DEFINE n == Len(stack)
      <3>1. 1 \in 1 .. n /\ 1 \in 1 .. n - 1
        <4>1. n \in Nat \ {0} /\ n # 1
          BY <1>1, <1>3
        <4> HIDE DEF n
        <4> QED BY <4>1
      <3> QED BY <3>1 DEF IInv, StackOK
    <2>2. stack[1].at = "calls"
      BY <2>1 DEF Good, Waiting
    <2> QED BY <2>2 DEF Guarded
  <1> QED BY <1>2, <1>3

LEMMA SilentGuarded ==
    ASSUME IInv, Guarded, Top.at # "over", UNCHANGED reply,
           Top'.at \in Asking => call'.bad = Top'.bad
    PROVE  Guarded'
  <1>1. reply'.kind = "none"
    BY NotOver
  <1> QED BY <1>1 DEF Guarded, BlockedEndsInRefusal

LEMMA ReplacedTop ==
    ASSUME IInv, NEW f \in Frame, Replace(f)
    PROVE  Top' = f /\ (Len(stack) = 1 => stack'[1] = f)
  <1>1. stack \in Seq(Frame) /\ Len(stack) \in Nat \ {0} /\ stack' = [stack EXCEPT ![Len(stack)] = f]
    BY DEF IInv, StackOK, Replace
  <1>2. Len(stack') = Len(stack) /\ stack'[Len(stack)] = f
    BY <1>1, ExceptSeq
  <1>3. stack'[Len(stack')] = f
    BY <1>2
  <1> QED BY <1>2, <1>3 DEF Top

LEMMA GoesGuarded ==
    ASSUME IInv, Guarded, Top.at # "over", NEW f \in Frame, f.at \notin Asking, Goes(f)
    PROVE  Guarded'
  <1>1. Top' = f /\ UNCHANGED reply
    BY ReplacedTop DEF Goes
  <1> QED BY <1>1, SilentGuarded

LEMMA AsksGuarded ==
    ASSUME IInv, Guarded, Top.at # "over", NEW f \in Frame, NEW k, NEW api, Asks(f, k, api)
    PROVE  Guarded'
  <1> DEFINE n == IF f.asked < AskedBound THEN f.asked + 1 ELSE f.asked
             h == [f EXCEPT !.asked = n]
  <1>1. n \in 0 .. AskedBound
    BY LimitsAssumption DEF Frame, AskedBound
  <1>2. Replace(h) /\ UNCHANGED reply /\ MakeCall(k, api, f.bad)
    BY DEF Asks
  <1> HIDE DEF n
  <1>3. h \in Frame /\ h.bad = f.bad
    BY <1>1 DEF Frame
  <1>4. call'.bad = f.bad
    BY <1>2 DEF MakeCall, NoCall
  <1> HIDE DEF h
  <1> QED BY <1>2, <1>3, <1>4, ReplacedTop, SilentGuarded

LEMMA ReturnsGuarded ==
    ASSUME IInv, Guarded, Top.at # "over", NEW r \in Results, Returns(r)
    PROVE  Guarded'
  <1> DEFINE n == Len(stack)
             f == stack[n - 1]
             g == Given(f, r)
  <1>1. n > 1 /\ n - 1 \in 1 .. n - 1 /\ n - 1 \in Nat \ {0} /\ stack \in Seq(Frame)
    <2>1. n \in Nat /\ n > 1 /\ stack \in Seq(Frame)
      BY TopOK DEF Returns, IInv, StackOK
    <2> HIDE DEF n
    <2> QED BY <2>1
  <1>2. Good(f, n - 1) /\ Waiting(f)
    BY <1>1 DEF IInv, StackOK
  <1>3. g \in Frame
    BY <1>1, <1>2, GivenGood DEF Good
  <1>4. g.at \notin Asking
    <2>1. f.kind = "tool" => g.at = "start"
      BY <1>2 DEF Given, Good, Frame
    <2>2. f.kind # "tool" => g.at \in {"calls", "stopped"}
      BY <1>2 DEF Given, Takes, Waiting, Good, Frame
    <2> QED BY <2>1, <2>2 DEF Asking
  <1>5. stack' = Append(SubSeq(stack, 1, n - 2), g) /\ UNCHANGED reply
    BY DEF Returns
  <1> HIDE DEF g
  <1>6. Top' = g
    BY <1>1, <1>3, <1>5, PopIs DEF Top
  <1> QED BY <1>4, <1>5, <1>6, SilentGuarded

LEMMA CallsGuarded ==
    ASSUME IInv, Guarded, Waiting(Top), Top.at # "over", CallsTool(Top)
    PROVE  Guarded'
  <1>1. CASE Goes(Given(Top, "failed"))
    <2> DEFINE g == Given(Top, "failed")
    <2>1. g \in Frame
      BY TopOK, GivenGood DEF Results, Good
    <2>2. g.at \notin Asking
      <3>1. Top.kind = "tool" => g.at = "start"
        BY TopOK DEF Given, Good, Frame
      <3>2. Top.kind # "tool" => g.at \in {"calls", "stopped"}
        BY TopOK DEF Given, Takes, Waiting, Good, Frame
      <3> QED BY <3>1, <3>2 DEF Asking
    <2>3. Goes(g)
      BY <1>1
    <2> HIDE DEF g
    <2> QED BY <2>1, <2>2, <2>3, GoesGuarded
  <1>2. ASSUME NEW t \in Tools, stack' = Append(stack, Entered(t, Top)), UNCHANGED reply
        PROVE  Guarded'
    <2> DEFINE g == Entered(t, Top)
    <2>1. g.at = "start"
      BY DEF Entered, Blank
    <2>2. stack' = Append(stack, g) /\ stack \in Seq(Frame)
      BY <1>2 DEF IInv, StackOK
    <2> HIDE DEF g
    <2>3. Top' = g
      BY <2>2 DEF Top
    <2> QED BY <1>2, <2>1, <2>3, SilentGuarded DEF Asking
  <1> QED BY <1>1, <1>2 DEF CallsTool

\* The end of the conversation: a reply only if no text in it is listed.
LEMMA OverGuarded ==
    ASSUME IInv, Guarded, Top.kind = "conversation", NEW r, Over(Top, r),
           GuardOn /\ Top.bad =>
               \/ r.kind = "error"
               \/ r.kind = "fixed" /\ (onLimit = "message" \/ call.at = "failed")
    PROVE  Guarded'
  <1> DEFINE h == [Top EXCEPT !.at = "over"]
  <1>1. Top \in Frame /\ Len(stack) = 1
    BY TopOK
  <1>2. h \in Frame /\ h.at = "over" /\ h.bad = Top.bad
    BY <1>1 DEF Frame
  <1>3. Replace(h) /\ reply' = r /\ UNCHANGED << call, onLimit >>
    BY DEF Over, clientVars, chosen
  <1> HIDE DEF h
  <1>4. Top' = h /\ stack'[1] = h
    BY <1>1, <1>2, <1>3, ReplacedTop
  <1>5. BlockedEndsInRefusal'
    BY <1>2, <1>3, <1>4 DEF BlockedEndsInRefusal
  <1> QED BY <1>2, <1>3, <1>4, <1>5 DEF Guarded, Asking

\* A call whose text is listed has not been answered.
LEMMA UnansweredIfListed ==
    ASSUME CInv, Guarded, Top.at \in Asking, call.at = "answered"
    PROVE  ~ (GuardOn /\ Top.bad)
  BY DEF CInv, CallOK, Guarded

LEMMA RaisesGuarded ==
    ASSUME IInv, Guarded, Top.kind = "conversation", Raises(Top)
    PROVE  Guarded'
  <1>1. Over(Top, [NoReply EXCEPT !.kind = "error"])
    BY DEF Raises
  <1> DEFINE r == [NoReply EXCEPT !.kind = "error"]
  <1>2. r.kind = "error" /\ Over(Top, r)
    BY <1>1 DEF NoReply
  <1> HIDE DEF r
  <1> QED BY <1>2, OverGuarded

LEMMA LoopRaisesGuarded ==
    ASSUME IInv, Guarded, Top.at \in Asking, Top.kind # "tool", LoopRaises(Top)
    PROVE  Guarded'
  <1>1. CASE Top.kind = "expert"
    BY <1>1, ReturnsGuarded DEF LoopRaises, Results, Asking
  <1>2. CASE Top.kind # "expert"
    <2>1. Top.kind = "conversation"
      BY <1>2, TopOK DEF Frame
    <2> QED BY <1>2, <2>1, RaisesGuarded DEF LoopRaises
  <1> QED BY <1>1, <1>2

LEMMA LoopStopsGuarded ==
    ASSUME IInv, Guarded, Top.kind # "tool", Top.at # "over", NEW summary \in BOOLEAN,
           LoopStops(Top, summary),
           GuardOn /\ Top.bad => ~ summary /\ (onLimit = "message" \/ call.at = "failed")
    PROVE  Guarded'
  <1>1. CASE Top.kind = "expert"
    BY <1>1, ReturnsGuarded DEF LoopStops, Results
  <1>2. CASE Top.kind # "expert"
    <2>1. Top.kind = "conversation"
      BY <1>2, TopOK DEF Frame
    <2>2. CASE summary
      BY <1>2, <2>1, <2>2, OverGuarded DEF LoopStops
    <2>3. CASE ~ summary
      <3> DEFINE r == [NoReply EXCEPT !.kind = "fixed"]
      <3>1. Over(Top, r) /\ r.kind = "fixed"
        BY <1>2, <2>3 DEF LoopStops, NoReply
      <3> HIDE DEF r
      <3> QED BY <2>1, <3>1, OverGuarded
    <2> QED BY <2>2, <2>3
  <1> QED BY <1>1, <1>2

LEMMA LoopRepliesGuarded ==
    ASSUME CInv, Guarded, Top.at = "asked", call.at = "answered", LoopReplies(Top)
    PROVE  Guarded'
  <1>t. Top \in Frame /\ Good(Top, Len(stack)) /\ Len(stack) \in Nat \ {0} /\ IInv
    BY TopOK DEF CInv
  <1>k. Top.kind # "tool"
    BY <1>t DEF Good
  <1>n. FirstOf(Top) \in Keys \cup {None} /\ FinalReplyOf(Top.provider) \in Keys \cup {None}
    BY <1>t, NamesTyped DEF Frame
  <1>1. CASE Top.kind = "expert"
    BY <1>t, <1>1, ReturnsGuarded DEF LoopReplies, LooksForWriter, Results
  <1>2. CASE /\ Top.kind # "expert" /\ LooksForWriter(Top)
             /\ FinalReplyOf(Top.provider) # None
    <2>1. Top.kind = "conversation" /\ ~ Top.rewriting
      BY <1>2 DEF LooksForWriter
    <2> DEFINE g == [Top EXCEPT !.at = "select", !.rewriting = TRUE,
                           !.fixed = FinalReplyOf(Top.provider),
                           !.first = FirstOf(Top),
                           !.budget = RestOfBudget(Top), !.rounds = 0,
                           !.kept = Top.auth, !.auth = FALSE]
    <2>2. g \in Frame
      BY <1>t, <1>n, <2>1, RewritingGood DEF Good
    <2>3. Goes(g)
      BY <1>2 DEF LoopReplies
    <2>4. g.at = "select"
      BY <1>t DEF Frame
    <2> HIDE DEF g
    <2> QED BY <1>t, <2>2, <2>3, <2>4, GoesGuarded DEF Asking
  <1>3. CASE Top.kind # "expert" /\ ~ (LooksForWriter(Top) /\ FinalReplyOf(Top.provider) # None)
    <2>1. Over(Top, ReplyOf([Top EXCEPT !.first = FirstOf(Top)]))
      BY <1>3 DEF LoopReplies
    <2>2. Top.kind = "conversation"
      BY <1>t, <1>k, <1>3 DEF Frame
    <2>3. ~ (GuardOn /\ Top.bad)
      BY UnansweredIfListed DEF Asking
    <2> QED BY <1>t, <2>1, <2>2, <2>3, OverGuarded
  <1> QED BY <1>1, <1>2, <1>3

LEMMA ConversingGuarded == ASSUME CInv, Guarded, Conversing PROVE Guarded'
  <1>i. IInv /\ Top \in Frame
    BY TopOK DEF CInv
  <1>1. CASE PreparationFails
    BY <1>i, <1>1, RaisesGuarded DEF PreparationFails, IsConversation
  <1>2. CASE PlainReplies
    <2>1. CASE call.at = "answered"
      <3>1. ~ (GuardOn /\ Top.bad)
        BY <1>2, <2>1, UnansweredIfListed DEF PlainReplies, Asking
      <3> QED BY <1>i, <1>2, <2>1, <3>1, OverGuarded DEF PlainReplies, IsConversation
    <2>2. CASE call.at # "answered"
      BY <1>i, <1>2, <2>2, RaisesGuarded DEF PlainReplies, IsConversation
    <2> QED BY <2>1, <2>2
  <1>3. CASE Prepares
    <2>1. Top.at = "start"
      BY <1>3 DEF Prepares
    <2>2. ASSUME NEW bad \in BOOLEAN,
                 Goes([Top EXCEPT !.at = "select", !.bad = bad, !.budget = MaxIterations])
          PROVE  Guarded'
      <3> DEFINE g == [Top EXCEPT !.at = "select", !.bad = bad, !.budget = MaxIterations]
      <3>1. MaxIterations \in 0 .. MaxIterations
        BY LimitsAssumption
      <3>2. g \in Frame /\ g.at = "select" /\ Goes(g)
        BY <1>i, <2>2, <3>1 DEF Frame
      <3> HIDE DEF g
      <3> QED BY <1>i, <2>1, <3>2, GoesGuarded DEF Asking
    <2>3. ASSUME NEW bad \in BOOLEAN, NEW p \in Resolved(key),
                 Asks([Top EXCEPT !.at = "single", !.bad = bad, !.provider = p], p, "chat")
          PROVE  Guarded'
      <3> DEFINE g == [Top EXCEPT !.at = "single", !.bad = bad, !.provider = p]
      <3>1. p \in Keys \cup {None}
        BY <1>i, NamesTyped DEF IInv, RestOK
      <3>2. g \in Frame /\ Asks(g, p, "chat")
        BY <1>i, <2>3, <3>1 DEF Frame
      <3> HIDE DEF g
      <3> QED BY <1>i, <2>1, <3>2, AsksGuarded
    <2> QED BY <1>3, <2>2, <2>3 DEF Prepares
  <1> QED BY <1>1, <1>2, <1>3 DEF Conversing

LEMMA LoopingGuarded == ASSUME CInv, Guarded, Looping PROVE Guarded'
  <1>i. /\ IInv /\ Top \in Frame /\ Good(Top, Len(stack)) /\ Len(stack) \in Nat \ {0}
        /\ Top.provider \in Keys \cup {None} /\ Top.fixed \in Keys \cup {None}
    BY TopOK DEF CInv, Frame
  <1>k. Top.at \in {"select", "asked", "summary"} => Top.kind # "tool"
    BY <1>i DEF Good
  <1>1. CASE Requests
    <2>1. PICK p \in Selectable(Top) :
              Asks([Top EXCEPT !.at = "asked", !.provider = p], p, "tools")
      BY <1>1 DEF Requests
    <2>2. p \in Keys \cup {None}
      BY <1>i, <2>1, NamesTyped DEF Selectable, IInv, RestOK
    <2> DEFINE g == [Top EXCEPT !.at = "asked", !.provider = p]
    <2>3. g \in Frame /\ Asks(g, p, "tools") /\ Top.at # "over"
      BY <1>i, <1>1, <2>1, <2>2 DEF Frame, Requests
    <2> HIDE DEF g
    <2> QED BY <1>i, <2>3, AsksGuarded
  <1>2. CASE SummaryRequested
    <2>1. PICK p \in Keys \cup {None} :
              Asks([Top EXCEPT !.at = "summary", !.provider = p, !.first = FirstOf(Top)], p, "tools")
      BY <1>i, <1>2, NamesTyped DEF SummaryRequested
    <2>2. FirstOf(Top) \in Keys \cup {None}
      BY <1>i, NamesTyped
    <2> DEFINE g == [Top EXCEPT !.at = "summary", !.provider = p, !.first = FirstOf(Top)]
    <2>3. g \in Frame /\ Asks(g, p, "tools") /\ Top.at # "over"
      BY <1>i, <1>2, <2>1, <2>2 DEF Frame, SummaryRequested
    <2> HIDE DEF g
    <2> QED BY <1>i, <2>3, AsksGuarded
  <1>3. CASE LimitReached
    BY <1>i, <1>k, <1>3, LoopStopsGuarded DEF LimitReached
  <1>4. CASE SummaryArrives
    <2>1. Top.at = "summary" /\ Heard /\ Top.kind # "tool"
      BY <1>k, <1>4 DEF SummaryArrives
    <2>2. call.at = "answered" => ~ (GuardOn /\ Top.bad)
      BY <2>1, UnansweredIfListed DEF Asking
    <2>3. CASE call.at = "answered" /\ LoopStops(Top, TRUE)
      BY <1>i, <2>1, <2>2, <2>3, LoopStopsGuarded
    <2>4. CASE ~ PassedOn(call.at) /\ LoopStops(Top, FALSE)
      <3>1. GuardOn /\ Top.bad => call.at = "failed"
        BY <2>1, <2>2, <2>4 DEF Heard, PassedOn
      <3> QED BY <1>i, <2>1, <2>4, <3>1, LoopStopsGuarded
    <2>5. CASE LoopRaises(Top)
      BY <1>i, <2>1, <2>5, LoopRaisesGuarded DEF Asking
    <2> QED BY <1>4, <2>3, <2>4, <2>5 DEF SummaryArrives
  <1>5. CASE TextArrives
    BY <1>5, LoopRepliesGuarded DEF TextArrives
  <1>6. CASE CallsArrive
    <2>1. PICK n \in 1 .. MaxCalls : Goes([Top EXCEPT !.at = "calls", !.left = n, !.open = @ + n])
      BY <1>6 DEF CallsArrive
    <2> DEFINE g == [Top EXCEPT !.at = "calls", !.left = n, !.open = @ + n]
    <2>2. g \in Frame /\ g.at = "calls" /\ Goes(g) /\ Top.at # "over"
      <3>1. Top.at = "asked"
        BY <1>6 DEF CallsArrive
      <3>2. g \in Frame
        BY <1>i, <3>1, CallsGood DEF Good
      <3> QED BY <1>i, <2>1, <3>1, <3>2 DEF Frame
    <2> HIDE DEF g
    <2> QED BY <1>i, <2>2, GoesGuarded DEF Asking
  <1>7. CASE RequestFails
    BY <1>i, <1>k, <1>7, LoopRaisesGuarded DEF RequestFails, Asking
  <1>8. CASE Executes
    BY <1>i, <1>8, CallsGuarded DEF Executes, Waiting
  <1>9. CASE RoundOver
    <2>1. PICK listed \in BOOLEAN :
              Goes([Top EXCEPT !.at = "select", !.bad = @ \/ listed, !.rounds = RoundsAfter(Top)])
      BY <1>9 DEF RoundOver
    <2> DEFINE g == [Top EXCEPT !.at = "select", !.bad = @ \/ listed, !.rounds = RoundsAfter(Top)]
    <2>2. g \in Frame
      BY <1>i, <1>9, RoundOverGood DEF Good, RoundOver
    <2>3. g.at = "select" /\ Goes(g) /\ Top.at # "over"
      BY <1>i, <1>9, <2>1 DEF Frame, RoundOver
    <2> HIDE DEF g
    <2> QED BY <1>i, <2>2, <2>3, GoesGuarded DEF Asking
  <1> QED BY <1>1, <1>2, <1>3, <1>4, <1>5, <1>6, <1>7, <1>8, <1>9 DEF Looping

LEMMA ExecutingGuarded == ASSUME CInv, Guarded, Executing PROVE Guarded'
  <1>i. IInv /\ Top \in Frame /\ Good(Top, Len(stack))
    BY TopOK DEF CInv
  <1>1. CASE ToolReturns
    <2>1. Top.at # "over"
      BY <1>i, <1>1 DEF ToolReturns, Good
    <2> QED BY <1>i, <1>1, <2>1, ReturnsGuarded DEF ToolReturns, Results
  <1>2. CASE CallToolUsed
    <2>1. Top.at # "over"
      BY <1>i, <1>2 DEF CallToolUsed, Good
    <2> QED BY <1>i, <1>2, <2>1, CallsGuarded DEF CallToolUsed, Waiting
  <1>3. CASE SingleReplies \/ StoppedOnAuth
    BY <1>i, <1>3, ReturnsGuarded DEF SingleReplies, StoppedOnAuth, Results
  <1>4. CASE ExpertStarts
    <2> DEFINE provider == Read(Top, "llm_provider", None)
    <2>1. Top.at = "start" /\ provider \in Keys \cup {None}
      BY <1>i, <1>4 DEF ExpertStarts, Read, Settings, Legal, Frame
    <2> HIDE DEF provider
    <2>2. CASE Returns("failed")
      BY <1>i, <2>1, <2>2, ReturnsGuarded DEF Results
    <2>3. ASSUME NEW b \in BOOLEAN,
                 Asks([Top EXCEPT !.at = "single", !.bad = b, !.provider = provider],
                      provider, "responses")
          PROVE  Guarded'
      <3> DEFINE g == [Top EXCEPT !.at = "single", !.bad = b, !.provider = provider]
      <3>1. g \in Frame /\ Asks(g, provider, "responses")
        BY <1>i, <2>1, <2>3 DEF Frame
      <3> HIDE DEF g
      <3> QED BY <1>i, <2>1, <3>1, AsksGuarded
    <2>4. ASSUME NEW b \in BOOLEAN,
                 Goes([Top EXCEPT !.at = "select", !.bad = b, !.fixed = provider,
                                  !.budget = MaxIterations])
          PROVE  Guarded'
      <3> DEFINE g == [Top EXCEPT !.at = "select", !.bad = b, !.fixed = provider,
                                  !.budget = MaxIterations]
      <3>1. MaxIterations \in 0 .. MaxIterations
        BY LimitsAssumption
      <3>2. g \in Frame /\ g.at = "select" /\ Goes(g)
        BY <1>i, <2>1, <2>4, <3>1 DEF Frame
      <3> HIDE DEF g
      <3> QED BY <1>i, <2>1, <3>2, GoesGuarded DEF Asking
    <2> QED BY <1>4, <2>2, <2>3, <2>4 DEF ExpertStarts, provider
  <1> QED BY <1>1, <1>2, <1>3, <1>4 DEF Executing

LEMMA CallingGuarded == ASSUME CInv, Guarded, Calling PROVE Guarded'
  <1>1. UNCHANGED << stack, chosen, reply >>
    BY DEF Calling
  <1>2. call'.bad = call.bad /\ call.at \in {"post", "sleep"}
    BY DEF Calling, ClientNext, Replied, AttemptFails, SleepOver, CInv, CallOK, Shape
  <1> QED BY <1>1, <1>2 DEF Guarded, BlockedEndsInRefusal, Top, chosen

\* Whichever round of either loop, of a conversation of any length, brings in a
\* listed text: no model's reply comes of it, and a refused summary is an error.
THEOREM BlockedEndsHolds == Spec => []BlockedEndsInRefusal
  <1>1. Init => Guarded
    BY DEF Init, Guarded, BlockedEndsInRefusal, Asking, Top, NoReply, Blank
  <1>2. CInv /\ Guarded /\ [Next]_vars => Guarded'
    <2> SUFFICES ASSUME CInv, Guarded, [Next]_vars PROVE Guarded'
      OBVIOUS
    <2>1. CASE UNCHANGED vars
      BY <2>1 DEF vars, clientVars, chosen, Guarded, BlockedEndsInRefusal, Top
    <2> QED BY <2>1, CallingGuarded, ConversingGuarded, LoopingGuarded, ExecutingGuarded DEF Next
  <1>3. Guarded => BlockedEndsInRefusal
    BY DEF Guarded
  <1> QED BY CInvHolds, <1>1, <1>2, <1>3, PTL DEF Spec
=============================================================================
