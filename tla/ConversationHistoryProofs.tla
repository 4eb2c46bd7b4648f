---------------------- MODULE ConversationHistoryProofs ----------------------
(***************************************************************************)
(* HistoryWindow and NotesOfPastDays for any number of loads, runs of the  *)
(* summary task, texts, deletions and channels, and any limits.  The       *)
(* invariant adds that the times of the texts grow with their stamps, and  *)
(* why what a load left out lies before every later window: before the     *)
(* first of its days, or before as many newer texts as a window takes      *)
(* (Beyond).                                                               *)
(***************************************************************************)
EXTENDS ConversationHistory, DataLemmas

-----------------------------------------------------------------------------
(* Numbers and days.                                                       *)

\* Min is what its name says on such a set.
LEMMA MinIsLeast ==
    ASSUME NEW S, S \subseteq Nat, S # {}
    PROVE  Min(S) \in S /\ \A y \in S : Min(S) <= y
  BY Least DEF Min

LEMMA MaxOfTwo ==
    ASSUME NEW a \in Int, NEW b \in Int
    PROVE  Max({a, b}) = IF a >= b THEN a ELSE b
  BY DEF Max

LEMMA Days ==
    ASSUME NEW h \in Nat
    PROVE  /\ Day(h) \in Nat
           /\ \A k \in Int : h >= Midnight(k) <=> Day(h) >= k
           /\ \A g \in Nat : g <= h => Day(g) <= Day(h)
  <1>1. HoursPerDay \in Nat \ {0}
    BY HistoryConfigured
  <1>2. h \div HoursPerDay \in Nat
    BY <1>1
  <1>3. ASSUME NEW k \in Int PROVE h >= k * HoursPerDay <=> h \div HoursPerDay >= k
    BY <1>1
  <1>4. ASSUME NEW g \in Nat, g <= h PROVE g \div HoursPerDay <= h \div HoursPerDay
    BY <1>1, <1>4
  <1> QED
    BY <1>2, <1>3, <1>4 DEF Day, Midnight

-----------------------------------------------------------------------------
(* The newest texts of a set.                                              *)

Texts == [stamp : Nat, hour : Nat, channel : DOMAIN channels]
After(d, docs) == {e \in docs : e.stamp > d.stamp}
OneEach(docs) == \A d, e \in docs : d.stamp = e.stamp => d = e

\* What is outside of the newest is older than all of them, and it is there
\* only if they are as many as were asked for.
LEMMA NewestOlder ==
    ASSUME NEW docs, docs \subseteq Texts, IsFiniteSet(docs), OneEach(docs),
           NEW n \in Nat \ {0}, NEW d \in docs \ Newest(n, docs)
    PROVE  /\ \A e \in Newest(n, docs) : e.stamp > d.stamp
           /\ Cardinality(Newest(n, docs)) = n
  <1> DEFINE new == Newest(n, docs)
  <1>1. new = {e \in docs : Cardinality(After(e, docs)) < n}
    BY DEF Newest, After
  <1>2. \A e \in docs : IsFiniteSet(After(e, docs)) /\ Cardinality(After(e, docs)) \in Nat
    BY FS_Subset, FS_CardinalityType DEF After
  <1>3. IsFiniteSet(new) /\ Cardinality(new) \in Nat
    BY <1>1, FS_Subset, FS_CardinalityType
  <1>3a. \A e \in docs : e.stamp \in Nat
    BY DEF Texts
  <1>4. ASSUME NEW e \in docs, NEW f \in docs, e.stamp <= f.stamp
        PROVE  Cardinality(After(f, docs)) <= Cardinality(After(e, docs))
    <2>1. After(f, docs) \subseteq After(e, docs)
      BY <1>3a, <1>4 DEF After
    <2> QED
      BY <1>2, <2>1, FS_Subset
  <1>0. d \in docs \ new
    OBVIOUS
  <1> HIDE DEF new
  <1>5. ASSUME NEW x \in docs \ new, NEW e \in new PROVE e.stamp > x.stamp
    <2>1. e \in docs /\ Cardinality(After(e, docs)) < n /\ ~(Cardinality(After(x, docs)) < n)
      BY <1>1, <1>5
    <2> QED
      BY <2>1, <1>2, <1>3a, <1>4, <1>5
  <1>6. Cardinality(new) >= n
    <2>1. PICK top \in docs \ new :
              \A y \in docs \ new :
                  Cardinality(After(top, docs)) <= Cardinality(After(y, docs))
      <3> DEFINE S == {Cardinality(After(x, docs)) : x \in docs \ new}
      <3>1. S \subseteq Nat /\ S # {}
        BY <1>0, <1>2
      <3>2. PICK s \in S : \A y \in S : s <= y
        BY <3>1, Least
      <3> QED
        BY <3>2
    <2>2. ASSUME NEW y \in docs \ new PROVE y.stamp <= top.stamp
      <3>1. SUFFICES ASSUME y.stamp > top.stamp PROVE FALSE
        BY <1>3a
      <3>2. After(y, docs) \subseteq After(top, docs) /\ y \in After(top, docs) \ After(y, docs)
        BY <3>1, <1>3a DEF After
      <3> QED
        BY <2>1, <3>2, <1>2, FS_Subset
    <2>3. After(top, docs) \subseteq new
      BY <2>1, <2>2, <1>3a DEF After
    <2>4. Cardinality(After(top, docs)) <= Cardinality(new)
      BY <2>3, <1>3, FS_Subset
    <2> QED
      BY <2>1, <2>4, <1>1, <1>2, <1>3
  <1>7. Cardinality(new) <= n
    <2>1. new # {}
      BY <1>6, FS_EmptySet
    <2>2. PICK x \in new : \A y \in new : x.stamp <= y.stamp
      <3> DEFINE S == {y.stamp : y \in new}
      <3>1. S \subseteq Nat /\ S # {}
        BY <1>1, <1>3a, <2>1
      <3>2. PICK s \in S : \A y \in S : s <= y
        BY <3>1, Least
      <3> QED
        BY <3>2
    <2>3. new \subseteq After(x, docs) \cup {x}
      BY <2>2, <1>1, <1>3a DEF After, OneEach
    <2>4. /\ IsFiniteSet(After(x, docs) \cup {x})
          /\ Cardinality(After(x, docs) \cup {x}) <= Cardinality(After(x, docs)) + 1
      <3>1. x \in docs /\ IsFiniteSet(After(x, docs)) /\ Cardinality(After(x, docs)) \in Nat
        BY <1>1, <1>2
      <3>2. /\ IsFiniteSet(After(x, docs) \cup {x})
            /\ Cardinality(After(x, docs) \cup {x}) =
                  IF x \in After(x, docs) THEN Cardinality(After(x, docs))
                  ELSE Cardinality(After(x, docs)) + 1
        BY <3>1, FS_AddElement
      <3> QED
        BY <3>1, <3>2
    <2>5. Cardinality(new) <= Cardinality(After(x, docs) \cup {x})
      BY <2>3, <2>4, FS_Subset
    <2> QED
      BY <2>2, <2>4, <2>5, <1>1, <1>2, <1>3, FS_CardinalityType
  <1> QED
    BY <1>3, <1>5, <1>6, <1>7 DEF new

-----------------------------------------------------------------------------
(* The invariant.                                                          *)

Steps == {"idle", "candidates", "rest", "loaded", "between", "summarize", "upsert", "over"}
Reading ==
    [does : Steps, day : Nat, since : Nat, cutoff : Nat, left : Nat, docs : SUBSET Texts,
     window : SUBSET Texts, known : SUBSET Texts, quiet : BOOLEAN]

HistoryTypes ==
    /\ hour \in Nat /\ texts \in Nat
    /\ conversations \subseteq Texts /\ flying \subseteq Texts /\ IsFiniteSet(conversations)
    /\ leftOut \subseteq conversations
    /\ reads \in [Readers -> Reading]
    /\ notes \in [DOMAIN channels -> [day : Nat, of : SUBSET Texts]]

\* The time of a text is taken before its insert and grows with the stamps;
\* what is deleted does not come back.
InOrder ==
    /\ conversations \cap flying = {}
    /\ \A d \in conversations \cup flying :
          d.stamp <= texts /\ d.hour <= hour
    /\ \A d, e \in conversations \cup flying :
          /\ d.stamp = e.stamp => d = e
          /\ d.stamp < e.stamp => d.hour <= e.hour

\* No window that begins before `since` or later holds d.
Beyond(d, since) ==
    \/ d.hour < since
    \/ /\ max_history_turns > 0
       /\ Cardinality({e \in conversations : e.hour > d.hour}) >= max_history_turns

Since(day) == Max({0, Midnight(day + 1 - history_days)})

LeftOutBeyond == \A d \in leftOut : Beyond(d, Since(Day(hour)))

\* What a reader may be at and hold.
LoadOK(read) ==
    /\ read.does \in {"candidates", "rest", "loaded"} => read.day <= Day(hour)
    /\ read.does \in {"candidates", "rest"} => read.since = Since(read.day)
    /\ read.does = "candidates" => \A d \in read.known : Beyond(d, read.since)
    /\ read.does = "rest" =>
          /\ IsFiniteSet(read.window)
          /\ read.docs = Newest(max_history_turns, read.window) /\ Cuts(read.docs)
          /\ read.cutoff = Cutoff(read.docs, read.since)
          /\ \A d \in read.window : d.hour >= read.since
          /\ \A d \in read.known : d.hour < read.cutoff
          /\ read.quiet => read.window \subseteq conversations
    /\ read.does \in {"idle", "candidates"} => read.window = {}
    /\ read.window \cap flying = {} /\ \A d \in read.window : d.stamp <= texts

\* What a note says of its channel and day; also before it is stored.
NoteOK(i, day, of) ==
    /\ of # {} /\ day < Day(hour)
    /\ \A d \in of : d.channel = i /\ Day(d.hour) = day
    /\ \A d \in conversations \ (of \cup late) :
          d.channel = i /\ Day(d.hour) = day =>
              Cardinality(of) = max_turns /\ \A e \in of : e.stamp > d.stamp

SummaryOK(read) ==
    /\ read.does \in {"between", "summarize", "upsert"} =>
          read.left \in DOMAIN channels /\ read.day < Day(hour)
    /\ read.does \in {"summarize", "upsert"} => NoteOK(read.left, read.day, read.docs)

\* HistoryWindow, of one reader.
WindowOK(read) ==
    read.does = "loaded" =>
        /\ \A d \in read.docs : Day(d.hour) + history_days > read.day
        /\ \A d \in read.window :
               \/ d \in Newest(max_history_turns, read.window)
               \/ \E e \in read.docs : e.hour = d.hour
               => d \in read.docs \/ d \notin conversations
        /\ read.quiet => read.docs \cap read.known = {}

ReadsOK == \A r \in Readers : LoadOK(reads[r]) /\ SummaryOK(reads[r]) /\ WindowOK(reads[r])

NotesOK == \A i \in DOMAIN channels : notes[i] # NoNote => NoteOK(i, notes[i].day, notes[i].of)

HistoryInv == HistoryTypes /\ InOrder /\ LeftOutBeyond /\ ReadsOK /\ NotesOK

LEMMA InvImplies == HistoryInv => HistoryWindow /\ NotesOfPastDays
  <1>1. ReadsOK => HistoryWindow
    BY DEF ReadsOK, WindowOK, HistoryWindow, WholeWindow, HeadMovesForward
  <1>2. NotesOK => NotesOfPastDays
    BY DEF NotesOK, NoteOK, NotesOfPastDays
  <1> QED
    BY <1>1, <1>2 DEF HistoryInv

LEMMA HistoryInitInv == HistoryInit => HistoryInv
  <1> SUFFICES ASSUME HistoryInit PROVE HistoryInv
    OBVIOUS
  <1>1. HistoryTypes
    BY FS_EmptySet DEF HistoryInit, HistoryTypes, Idle, Reading, Steps, NoNote
  <1>2. ReadsOK
    BY DEF HistoryInit, ReadsOK, LoadOK, SummaryOK, WindowOK, Idle
  <1> QED
    BY <1>1, <1>2 DEF HistoryInit, HistoryInv, InOrder, LeftOutBeyond, NotesOK

-----------------------------------------------------------------------------
(* The first hour of a window, and what lies before it.                    *)

LEMMA Sinces ==
    ASSUME NEW a \in Nat
    PROVE  /\ Since(a) \in Nat
           /\ \A b \in Nat : a <= b => Since(a) <= Since(b)
           /\ \A h \in Nat : h >= Since(a) => Day(h) + history_days > a
  <1>1. HoursPerDay \in Nat \ {0} /\ history_days \in Nat \ {0}
    BY HistoryConfigured
  <1>2. ASSUME NEW b \in Nat
        PROVE  /\ Midnight(b + 1 - history_days) \in Int
               /\ Since(b) = IF 0 >= Midnight(b + 1 - history_days) THEN 0
                             ELSE Midnight(b + 1 - history_days)
    <2>1. Midnight(b + 1 - history_days) \in Int
      BY <1>1 DEF Midnight
    <2> QED
      BY <2>1, MaxOfTwo DEF Since
  <1>3. ASSUME NEW b \in Nat, a <= b
        PROVE  Midnight(a + 1 - history_days) <= Midnight(b + 1 - history_days)
    <2>1. \A x, y \in Int : x <= y => x * HoursPerDay <= y * HoursPerDay
      BY <1>1
    <2> QED
      BY <1>1, <1>3, <2>1 DEF Midnight
  <1>4. ASSUME NEW h \in Nat, h >= Since(a) PROVE Day(h) + history_days > a
    <2>1. h >= Midnight(a + 1 - history_days)
      BY <1>2, <1>4
    <2>2. Day(h) >= a + 1 - history_days
      BY <1>1, <2>1, Days
    <2> QED
      BY <1>1, <2>2, Days
  <1> QED
    BY <1>2, <1>3, <1>4

\* When the newest texts of a window are cut: they are as many as asked for,
\* none that is in the window is cut, and what lies before the cut is before
\* the window or older than all of them.
LEMMA Cut ==
    ASSUME NEW docs, docs \subseteq Texts, IsFiniteSet(docs), NEW since \in Nat, Cuts(docs)
    PROVE  /\ Cutoff(docs, since) \in Nat /\ Cutoff(docs, since) >= since
           /\ \A d \in docs : d.hour >= since => d.hour >= Cutoff(docs, since)
           /\ \A h \in Nat : h < Cutoff(docs, since) => h < since \/ \A d \in docs : h < d.hour
           /\ \A h \in Nat : (\A d \in docs : h < d.hour) => h < Cutoff(docs, since)
  <1> DEFINE H == {d.hour : d \in docs}
  <1>1. H \subseteq Nat
    BY DEF Texts
  <1>2. docs # {}
    BY FS_EmptySet, HistoryConfigured DEF Cuts
  <1>3. Min(H) \in H /\ \A h \in H : Min(H) <= h
    BY <1>1, <1>2, MinIsLeast
  <1> HIDE DEF H
  <1>4. Cutoff(docs, since) = IF since >= Min(H) THEN since ELSE Min(H)
    BY <1>1, <1>3, MaxOfTwo DEF Cutoff, H
  <1>5. \A d \in docs : d.hour \in H
    BY DEF H
  <1>6. \E d \in docs : d.hour = Min(H)
    BY <1>3 DEF H
  <1>7. Min(H) \in Nat /\ \A d \in docs : d.hour \in Nat /\ Min(H) <= d.hour
    BY <1>1, <1>3, <1>5
  <1> QED
    BY <1>4, <1>6, <1>7

\* What is older by hours than as many texts of a window as are asked for is
\* older by hours than all of its newest.
LEMMA BeforeNewest ==
    ASSUME NEW docs, docs \subseteq Texts, IsFiniteSet(docs), NEW n \in Nat \ {0},
           \A d, e \in docs : d.stamp < e.stamp => d.hour <= e.hour, OneEach(docs),
           NEW h \in Nat, Cardinality({e \in docs : e.hour > h}) >= n,
           NEW x \in Newest(n, docs)
    PROVE  x.hour > h
  <1> SUFFICES ASSUME x.hour <= h PROVE FALSE
    BY DEF Newest, Texts
  <1>1. x \in docs /\ Cardinality(After(x, docs)) < n
    BY DEF Newest, After
  <1>2. {e \in docs : e.hour > h} \subseteq After(x, docs)
    BY <1>1 DEF After, Texts, OneEach
  <1>3. IsFiniteSet(After(x, docs))
    BY FS_Subset DEF After
  <1> QED
    BY <1>1, <1>2, <1>3, FS_Subset, FS_CardinalityType

-----------------------------------------------------------------------------
(* The world goes on: hours pass, texts are saved, inserted and deleted.   *)

\* What has as many newer texts keeps them when texts are added.
LEMMA StaysBeyond ==
    ASSUME NEW S, NEW T, S \subseteq T, IsFiniteSet(T), NEW h, NEW n \in Nat,
           Cardinality({e \in S : e.hour > h}) >= n
    PROVE  Cardinality({e \in T : e.hour > h}) >= n
  <1>1. {e \in S : e.hour > h} \subseteq {e \in T : e.hour > h}
    OBVIOUS
  <1>2. IsFiniteSet({e \in T : e.hour > h})
    BY FS_Subset
  <1>3. IsFiniteSet({e \in S : e.hour > h})
    BY <1>1, <1>2, FS_Subset
  <1>4. Cardinality({e \in S : e.hour > h}) <= Cardinality({e \in T : e.hour > h})
    BY <1>1, <1>2, FS_Subset
  <1> QED
    BY <1>2, <1>3, <1>4, FS_CardinalityType

LEMMA HourStep ==
    ASSUME HistoryInv, HourPasses
    PROVE  HistoryInv'
  <1>1. HistoryTypes'
    BY DEF HourPasses, HistoryInv, HistoryTypes
  <1>2. InOrder'
    BY DEF HourPasses, HistoryInv, HistoryTypes, InOrder, Texts
  <1>3. Day(hour) \in Nat /\ Day(hour') \in Nat /\ Day(hour) <= Day(hour')
    BY Days DEF HourPasses, HistoryInv, HistoryTypes
  <1>4. Since(Day(hour)) \in Nat /\ Since(Day(hour')) \in Nat
        /\ Since(Day(hour)) <= Since(Day(hour'))
    BY <1>3, Sinces
  <1>5. LeftOutBeyond'
    BY <1>4 DEF HourPasses, HistoryInv, HistoryTypes, LeftOutBeyond, Beyond, Texts
  <1>7. ReadsOK'
    <2> SUFFICES ASSUME NEW s \in Readers
                 PROVE  LoadOK(reads[s])' /\ SummaryOK(reads[s])' /\ WindowOK(reads[s])'
      BY DEF ReadsOK
    <2>1. reads[s].day \in Nat /\ LoadOK(reads[s]) /\ SummaryOK(reads[s]) /\ WindowOK(reads[s])
      BY DEF HistoryInv, HistoryTypes, Reading, ReadsOK
    <2>2. LoadOK(reads[s])'
      BY <1>3, <2>1 DEF HourPasses, LoadOK, Beyond
    <2>3. SummaryOK(reads[s])'
      BY <1>3, <2>1 DEF HourPasses, SummaryOK, NoteOK
    <2>4. WindowOK(reads[s])'
      BY <2>1 DEF HourPasses, WindowOK
    <2> QED
      BY <2>2, <2>3, <2>4
  <1>8. NotesOK'
    BY <1>3 DEF HourPasses, HistoryInv, HistoryTypes, NotesOK, NoteOK
  <1> QED
    BY <1>1, <1>2, <1>5, <1>7, <1>8 DEF HistoryInv

LEMMA SaveStep ==
    ASSUME HistoryInv, save
    PROVE  HistoryInv'
  <1>1. PICK d \in Texts : /\ d.stamp = texts + 1 /\ d.hour = hour
                           /\ flying' = flying \cup {d} /\ texts' = texts + 1
    <2>1. PICK i \in DOMAIN channels :
              flying' = flying \cup {[stamp |-> texts + 1, hour |-> hour, channel |-> i]}
      BY DEF save
    <2> DEFINE new == [stamp |-> texts + 1, hour |-> hour, channel |-> i]
    <2>2. new \in Texts /\ new.stamp = texts + 1 /\ new.hour = hour
      BY DEF HistoryInv, HistoryTypes, Texts
    <2> QED
      BY <2>1, <2>2 DEF save
  <1>2. UNCHANGED << hour, conversations, deletes, reads, notes, leftOut, late >>
    BY DEF save
  <1>3. HistoryTypes'
    BY <1>1, <1>2 DEF HistoryInv, HistoryTypes
  <1>4. InOrder'
    BY <1>1, <1>2 DEF HistoryInv, HistoryTypes, InOrder, Texts
  <1>5. LeftOutBeyond'
    BY <1>2 DEF HistoryInv, LeftOutBeyond, Beyond
  <1>6. ReadsOK'
    <2> SUFFICES ASSUME NEW s \in Readers
                 PROVE  LoadOK(reads[s])' /\ SummaryOK(reads[s])' /\ WindowOK(reads[s])'
      BY DEF ReadsOK
    <2>1. /\ LoadOK(reads[s]) /\ SummaryOK(reads[s]) /\ WindowOK(reads[s])
          /\ reads[s].window \subseteq Texts
      BY DEF HistoryInv, HistoryTypes, Reading, ReadsOK
    <2>2. LoadOK(reads[s])'
      BY <1>1, <1>2, <2>1 DEF HistoryInv, HistoryTypes, LoadOK, Beyond, Texts
    <2>3. SummaryOK(reads[s])' /\ WindowOK(reads[s])'
      BY <1>2, <2>1 DEF SummaryOK, NoteOK, WindowOK
    <2> QED
      BY <2>2, <2>3
  <1>7. NotesOK'
    BY <1>2 DEF HistoryInv, NotesOK, NoteOK
  <1> QED
    BY <1>3, <1>4, <1>5, <1>6, <1>7 DEF HistoryInv

LEMMA InsertStep ==
    ASSUME HistoryInv, NEW d \in flying, Inserted(d)
    PROVE  HistoryInv'
  <1>1. /\ flying' = flying \ {d} /\ conversations' = conversations \cup {d}
        /\ UNCHANGED << hour, texts, deletes, reads, notes, leftOut >>
        /\ late \subseteq late' /\ (Day(d.hour) < Day(hour) => d \in late')
    BY DEF Inserted
  <1>2. HistoryTypes'
    BY <1>1, FS_AddElement DEF HistoryInv, HistoryTypes
  <1>3. InOrder'
    BY <1>1 DEF HistoryInv, HistoryTypes, InOrder
  <1>4. ASSUME NEW h, max_history_turns > 0,
               Cardinality({e \in conversations : e.hour > h}) >= max_history_turns
        PROVE  Cardinality({e \in conversations' : e.hour > h}) >= max_history_turns
    <2>1. conversations \subseteq conversations' /\ IsFiniteSet(conversations')
      BY <1>1, <1>2 DEF HistoryTypes
    <2>2. max_history_turns \in Nat
      BY HistoryConfigured
    <2> QED
      BY <1>4, <2>1, <2>2, StaysBeyond
  <1>5. LeftOutBeyond'
    BY <1>1, <1>4 DEF HistoryInv, LeftOutBeyond, Beyond
  <1>6. Day(d.hour) \in Nat /\ Day(hour) \in Nat /\ Day(d.hour) <= Day(hour)
    BY Days DEF HistoryInv, HistoryTypes, InOrder, Texts
  <1>8. ReadsOK'
    <2> SUFFICES ASSUME NEW s \in Readers
                 PROVE  LoadOK(reads[s])' /\ SummaryOK(reads[s])' /\ WindowOK(reads[s])'
      BY DEF ReadsOK
    <2>1. /\ LoadOK(reads[s]) /\ SummaryOK(reads[s]) /\ WindowOK(reads[s])
          /\ reads[s].window \subseteq Texts /\ reads[s].day \in Nat
      BY DEF HistoryInv, HistoryTypes, Reading, ReadsOK
    <2>2. LoadOK(reads[s])'
      BY <1>1, <1>4, <2>1 DEF LoadOK, Beyond
    <2>3. SummaryOK(reads[s])'
      BY <1>1, <1>6, <2>1 DEF SummaryOK, NoteOK
    <2>4. WindowOK(reads[s])'
      BY <1>1, <2>1 DEF WindowOK, LoadOK
    <2> QED
      BY <2>2, <2>3, <2>4
  <1>9. NotesOK'
    BY <1>1, <1>6 DEF HistoryInv, HistoryTypes, NotesOK, NoteOK
  <1> QED
    BY <1>2, <1>3, <1>5, <1>8, <1>9 DEF HistoryInv

LEMMA DeleteStep ==
    ASSUME HistoryInv, NEW d \in conversations, delete(d)
    PROVE  HistoryInv'
  <1>1. /\ conversations' = conversations \ {d} /\ leftOut' = {}
        /\ reads' = [r \in Readers |-> [reads[r] EXCEPT !.quiet = FALSE, !.known = {}]]
        /\ UNCHANGED << hour, flying, texts, notes, late >>
    BY DEF delete
  <1>2. HistoryTypes'
    <2>1. reads' \in [Readers -> Reading]
      BY <1>1 DEF HistoryInv, HistoryTypes, Reading
    <2>2. IsFiniteSet(conversations')
      BY <1>1, FS_RemoveElement DEF HistoryInv, HistoryTypes
    <2> QED
      BY <1>1, <2>1, <2>2 DEF HistoryInv, HistoryTypes
  <1>3. InOrder' /\ LeftOutBeyond'
    BY <1>1 DEF HistoryInv, InOrder, LeftOutBeyond
  <1>4. ReadsOK'
    <2> SUFFICES ASSUME NEW s \in Readers
                 PROVE  LoadOK(reads[s])' /\ SummaryOK(reads[s])' /\ WindowOK(reads[s])'
      BY DEF ReadsOK
    <2>1. /\ LoadOK(reads[s]) /\ SummaryOK(reads[s]) /\ WindowOK(reads[s])
          /\ reads[s] \in Reading
      BY DEF HistoryInv, HistoryTypes, ReadsOK
    <2>2. reads'[s] = [reads[s] EXCEPT !.quiet = FALSE, !.known = {}]
      BY <1>1
    <2>3. LoadOK(reads[s])'
      BY <1>1, <2>1, <2>2 DEF LoadOK, Reading
    <2>4. SummaryOK(reads[s])'
      BY <1>1, <2>1, <2>2 DEF SummaryOK, NoteOK, Reading
    <2>5. WindowOK(reads[s])'
      BY <1>1, <2>1, <2>2 DEF WindowOK, Reading
    <2> QED
      BY <2>3, <2>4, <2>5
  <1>5. NotesOK'
    BY <1>1 DEF HistoryInv, NotesOK, NoteOK
  <1> QED
    BY <1>2, <1>3, <1>4, <1>5 DEF HistoryInv

-----------------------------------------------------------------------------
(* The steps of a reader.                                                  *)

\* A step that changes one reader, besides what loads left out and the notes.
LEMMA ReaderStep ==
    ASSUME HistoryInv, NEW r \in Readers, NEW read \in Reading,
           reads' = [reads EXCEPT ![r] = read],
           UNCHANGED << hour, conversations, flying, texts, late >>,
           leftOut' \subseteq conversations, LeftOutBeyond',
           notes' \in [DOMAIN channels -> [day : Nat, of : SUBSET Texts]], NotesOK',
           LoadOK(read), SummaryOK(read), WindowOK(read)
    PROVE  HistoryInv'
  <1>1. HistoryTypes'
    BY DEF HistoryInv, HistoryTypes
  <1>2. InOrder'
    BY DEF HistoryInv, InOrder
  <1>3. ReadsOK'
    <2> SUFFICES ASSUME NEW s \in Readers
                 PROVE  LoadOK(reads[s])' /\ SummaryOK(reads[s])' /\ WindowOK(reads[s])'
      BY DEF ReadsOK
    <2>1. reads'[s] = IF s = r THEN read ELSE reads[s]
      BY DEF HistoryInv, HistoryTypes
    <2>2. LoadOK(reads[s]) /\ SummaryOK(reads[s]) /\ WindowOK(reads[s])
      BY DEF HistoryInv, ReadsOK
    <2>3. LoadOK(reads[s])'
      BY <2>1, <2>2 DEF LoadOK, Beyond
    <2>4. SummaryOK(reads[s])'
      BY <2>1, <2>2 DEF SummaryOK, NoteOK
    <2>5. WindowOK(reads[s])'
      BY <2>1, <2>2 DEF WindowOK
    <2> QED
      BY <2>3, <2>4, <2>5
  <1> QED
    BY <1>1, <1>2, <1>3 DEF HistoryInv

\* One that changes nothing besides.
LEMMA ReaderOnlyStep ==
    ASSUME HistoryInv, NEW r \in Readers, NEW read \in Reading,
           reads' = [reads EXCEPT ![r] = read],
           UNCHANGED << hour, conversations, flying, texts, late, leftOut, notes >>,
           LoadOK(read), SummaryOK(read), WindowOK(read)
    PROVE  HistoryInv'
  <1>1. LeftOutBeyond'
    BY DEF HistoryInv, LeftOutBeyond, Beyond
  <1>2. NotesOK'
    BY DEF HistoryInv, NotesOK, NoteOK
  <1> QED
    BY <1>1, <1>2, ReaderStep DEF HistoryInv, HistoryTypes

\* A reader that is done with its call holds nothing.
LEMMA OverOK ==
    LET over == [Idle EXCEPT !.does = "over"]
    IN  over \in Reading /\ LoadOK(over) /\ SummaryOK(over) /\ WindowOK(over)
  BY DEF Idle, Reading, Steps, LoadOK, SummaryOK, WindowOK

LEMMA LoadFailsStep ==
    ASSUME HistoryInv, NEW r \in Readers, LoadFails(r)
    PROVE  HistoryInv'
  BY OverOK, ReaderOnlyStep DEF LoadFails

LEMMA LoadBeginsStep ==
    ASSUME HistoryInv, NEW r \in Readers, LoadBegins(r)
    PROVE  HistoryInv'
  <1> DEFINE read == [reads[r] EXCEPT !.does = "candidates", !.day = Day(hour),
                          !.known = leftOut, !.since = Since(Day(hour)), !.quiet = TRUE]
  <1>1. Day(hour) \in Nat /\ Since(Day(hour)) \in Nat
    BY Days, Sinces DEF HistoryInv, HistoryTypes
  <1>2. reads[r] \in Reading /\ LoadOK(reads[r]) /\ reads[r].does = "idle"
    BY DEF LoadBegins, HistoryInv, HistoryTypes, ReadsOK
  <1>3. read \in Reading
    BY <1>1, <1>2 DEF Reading, Steps, HistoryInv, HistoryTypes
  <1>4. LoadOK(read)
    BY <1>1, <1>2 DEF LoadOK, Reading, HistoryInv, LeftOutBeyond
  <1>5. SummaryOK(read) /\ WindowOK(read)
    BY <1>2 DEF SummaryOK, WindowOK, Reading
  <1>6. reads' = [reads EXCEPT ![r] = read]
    BY DEF LoadBegins, Since
  <1> HIDE DEF read
  <1> QED
    BY <1>3, <1>4, <1>5, <1>6, ReaderOnlyStep DEF LoadBegins

\* What a query finds: texts of the collection, in the order of their stamps.
LEMMA QueryOK ==
    ASSUME HistoryInv, NEW S, S \subseteq conversations
    PROVE  /\ S \subseteq Texts /\ IsFiniteSet(S) /\ OneEach(S)
           /\ \A d, e \in S : d.stamp < e.stamp => d.hour <= e.hour
           /\ \A n \in Nat : Newest(n, S) \subseteq S /\ IsFiniteSet(Newest(n, S))
           /\ S \cap flying = {} /\ \A d \in S : d.stamp <= texts
  <1>1. S \subseteq Texts /\ IsFiniteSet(S)
    BY FS_Subset DEF HistoryInv, HistoryTypes
  <1>2. \A n \in Nat : Newest(n, S) \subseteq S
    BY DEF Newest
  <1>3. \A n \in Nat : IsFiniteSet(Newest(n, S))
    BY <1>1, <1>2, FS_Subset
  <1> QED
    BY <1>1, <1>2, <1>3 DEF HistoryInv, InOrder, OneEach

\* The load that is under way at a reader.
LEMMA LoadHolds ==
    ASSUME HistoryInv, NEW r \in Readers, reads[r].does \in {"candidates", "rest"}
    PROVE  /\ reads[r] \in Reading /\ LoadOK(reads[r])
           /\ reads[r].day \in Nat /\ reads[r].since \in Nat /\ max_history_turns \in Nat
           /\ reads[r].since = Since(reads[r].day) /\ reads[r].since <= Since(Day(hour))
           /\ \A h \in Nat : h >= reads[r].since => Day(h) + history_days > reads[r].day
  <1>1. reads[r] \in Reading /\ LoadOK(reads[r]) /\ max_history_turns \in Nat
    BY HistoryConfigured DEF HistoryInv, HistoryTypes, ReadsOK
  <1>2. /\ reads[r].day \in Nat /\ reads[r].day <= Day(hour)
        /\ reads[r].since = Since(reads[r].day)
    BY <1>1 DEF LoadOK, Reading
  <1>3. Day(hour) \in Nat
    BY Days DEF HistoryInv, HistoryTypes
  <1> QED
    BY <1>1, <1>2, <1>3, Sinces

\* The first query: nothing a load left out before is among the newest.
LEMMA KnownBefore ==
    ASSUME HistoryInv, NEW r \in Readers, reads[r].does = "candidates",
           NEW d \in reads[r].known, d.hour >= reads[r].since,
           NEW e \in Newest(max_history_turns, load_with_time_since(reads[r].since))
    PROVE  d.hour < e.hour
  <1> DEFINE S == load_with_time_since(reads[r].since)
  <1>1. S \subseteq conversations
    BY DEF load_with_time_since
  <1>2. /\ d.hour \in Nat /\ Beyond(d, reads[r].since) /\ reads[r].since \in Nat
        /\ max_history_turns \in Nat
    BY LoadHolds DEF LoadOK, Reading, Texts
  <1>3. /\ max_history_turns \in Nat \ {0}
        /\ Cardinality({f \in conversations : f.hour > d.hour}) >= max_history_turns
    BY <1>2 DEF Beyond
  <1>4. {f \in conversations : f.hour > d.hour} = {f \in S : f.hour > d.hour}
    BY <1>2 DEF load_with_time_since, HistoryInv, HistoryTypes, Texts
  <1>5. Cardinality({f \in S : f.hour > d.hour}) >= max_history_turns
    BY <1>3, <1>4
  <1>6. /\ S \subseteq Texts /\ IsFiniteSet(S) /\ OneEach(S)
        /\ \A f, g \in S : f.stamp < g.stamp => f.hour <= g.hour
    BY <1>1, QueryOK
  <1> HIDE DEF S
  <1>7. e.hour > d.hour
    BY <1>2, <1>3, <1>5, <1>6, BeforeNewest DEF S
  <1>8. e.hour \in Nat
    BY <1>6 DEF Newest, Texts, S
  <1> QED
    BY <1>2, <1>7, <1>8

LEMMA CandidatesStep ==
    ASSUME HistoryInv, NEW r \in Readers, Candidates(r)
    PROVE  HistoryInv'
  <1> DEFINE S == load_with_time_since(reads[r].since)
             new == Newest(max_history_turns, S)
  <1>1. /\ reads[r].does = "candidates"
        /\ UNCHANGED << hour, conversations, flying, texts, notes, late >>
    BY DEF Candidates
  <1>2. /\ reads[r] \in Reading /\ LoadOK(reads[r]) /\ reads[r].window = {}
        /\ reads[r].since \in Nat /\ max_history_turns \in Nat
        /\ reads[r].since <= Since(Day(hour)) /\ Since(Day(hour)) \in Nat
        /\ reads[r].known \subseteq Texts
    BY <1>1, LoadHolds, Days, Sinces DEF LoadOK, Reading, HistoryInv, HistoryTypes
  <1>3. /\ S \subseteq conversations /\ S \subseteq Texts /\ IsFiniteSet(S) /\ OneEach(S)
        /\ new \subseteq S /\ IsFiniteSet(new)
        /\ S \cap flying = {} /\ \A d \in S : d.stamp <= texts
    BY <1>2, QueryOK DEF load_with_time_since
  <1>4. \A d \in conversations : d \in S <=> d.hour >= reads[r].since
    BY DEF load_with_time_since
  <1>5. NotesOK'
    BY <1>1 DEF HistoryInv, NotesOK, NoteOK
  <1>6. \A d \in reads[r].known, e \in new : d.hour >= reads[r].since => d.hour < e.hour
    BY <1>1, KnownBefore
  <1>7. CASE ~Cuts(new) /\ Loaded(r, new)
    <2> DEFINE read == [reads[r] EXCEPT !.does = "loaded", !.docs = new, !.since = 0,
                                        !.cutoff = 0]
    <2>1. read \in Reading
      BY <1>2, <1>3 DEF Reading, Steps
    <2>2. LoadOK(read) /\ SummaryOK(read)
      BY <1>1, <1>2 DEF LoadOK, SummaryOK, Reading
    <2>3. \A d \in new : d.hour \in Nat /\ d.hour >= reads[r].since
      BY <1>3, <1>4 DEF Texts
    <2>4. WindowOK(read)
      <3>1. \A d \in new : Day(d.hour) + history_days > reads[r].day
        BY <1>1, <2>3, LoadHolds
      <3>2. new \cap reads[r].known = {}
        BY <1>6, <2>3
      <3> QED
        BY <1>2, <3>1, <3>2 DEF WindowOK, Reading
    <2>5. reads' = [reads EXCEPT ![r] = read]
      BY <1>7 DEF Loaded
    <2>6. ASSUME NEW d \in conversations \ new PROVE d.hour < reads[r].since
      <3>1. SUFFICES ASSUME d.hour >= reads[r].since PROVE FALSE
        BY <1>2 DEF HistoryInv, HistoryTypes, Texts
      <3>2. d \in S \ new
        BY <1>4, <3>1
      <3>3. max_history_turns \in Nat \ {0}
        BY <1>2, <3>2 DEF Newest
      <3> QED
        BY <1>2, <1>3, <1>7, <3>2, <3>3, NewestOlder DEF Cuts
    <2>7. leftOut' \subseteq leftOut \cup (conversations \ new)
      BY <1>7 DEF Loaded
    <2>8. LeftOutBeyond'
      BY <1>1, <1>2, <2>6, <2>7 DEF LeftOutBeyond, Beyond, HistoryInv, HistoryTypes, Texts
    <2>9. leftOut' \subseteq conversations
      BY <2>7 DEF HistoryInv, HistoryTypes
    <2> HIDE DEF read
    <2> QED
      BY <1>1, <1>5, <2>1, <2>2, <2>4, <2>5, <2>8, <2>9, ReaderStep
         DEF HistoryInv, HistoryTypes
  <1>8. CASE /\ Cuts(new)
             /\ reads' = [reads EXCEPT ![r] =
                    [@ EXCEPT !.does = "rest", !.docs = new, !.window = S,
                              !.cutoff = Cutoff(new, reads[r].since)]]
             /\ UNCHANGED leftOut
    <2> DEFINE read == [reads[r] EXCEPT !.does = "rest", !.docs = new, !.window = S,
                                        !.cutoff = Cutoff(new, reads[r].since)]
    <2>1. /\ Cutoff(new, reads[r].since) \in Nat /\ Cutoff(new, reads[r].since) >= reads[r].since
          /\ \A h \in Nat : (\A d \in new : h < d.hour) => h < Cutoff(new, reads[r].since)
      BY <1>2, <1>3, <1>8, Cut
    <2>2. read \in Reading
      BY <1>2, <1>3, <2>1 DEF Reading, Steps
    <2>3. ASSUME NEW d \in reads[r].known PROVE d.hour < Cutoff(new, reads[r].since)
      BY <1>2, <1>6, <2>1 DEF Texts
    <2>4. LoadOK(read)
      BY <1>1, <1>2, <1>3, <1>4, <1>8, <2>3 DEF LoadOK, Reading
    <2>5. SummaryOK(read) /\ WindowOK(read)
      BY <1>2 DEF SummaryOK, WindowOK, Reading
    <2>6. reads' = [reads EXCEPT ![r] = read]
      BY <1>8
    <2> HIDE DEF read
    <2> QED
      BY <1>1, <1>8, <2>2, <2>4, <2>5, <2>6, ReaderOnlyStep
  <1> QED
    BY <1>7, <1>8 DEF Candidates

LEMMA RestStep ==
    ASSUME HistoryInv, NEW r \in Readers, Rest(r)
    PROVE  HistoryInv'
  <1> DEFINE docs == reads[r].docs
             cut == reads[r].cutoff
             S == load_with_time_since(cut)
             read == [reads[r] EXCEPT !.does = "loaded", !.docs = S, !.since = 0, !.cutoff = 0]
  <1>1. /\ reads[r].does = "rest" /\ Loaded(r, S)
        /\ UNCHANGED << hour, conversations, flying, texts, notes, late >>
    BY DEF Rest
  <1>2. /\ reads[r] \in Reading /\ LoadOK(reads[r]) /\ reads[r].since \in Nat
        /\ reads[r].since <= Since(Day(hour)) /\ Since(Day(hour)) \in Nat
        /\ max_history_turns \in Nat
        /\ \A h \in Nat : h >= reads[r].since => Day(h) + history_days > reads[r].day
    BY <1>1, LoadHolds, Days, Sinces DEF HistoryInv, HistoryTypes
  <1>3. /\ reads[r].window \subseteq Texts /\ IsFiniteSet(reads[r].window)
        /\ docs = Newest(max_history_turns, reads[r].window)
        /\ Cuts(docs) /\ cut = Cutoff(docs, reads[r].since)
        /\ \A d \in reads[r].window : d.hour \in Nat /\ d.hour >= reads[r].since
        /\ \A d \in reads[r].known : d.hour < cut /\ d.hour \in Nat
        /\ reads[r].quiet => reads[r].window \subseteq conversations
        /\ cut \in Nat
    BY <1>1, <1>2 DEF LoadOK, Reading, Texts
  <1>4. docs \subseteq reads[r].window /\ docs \subseteq Texts /\ IsFiniteSet(docs)
    <2>1. docs \subseteq reads[r].window
      BY <1>2, <1>3 DEF Newest
    <2> QED
      BY <1>3, <2>1, FS_Subset
  <1>5. /\ cut >= reads[r].since
        /\ \A d \in docs : d.hour >= reads[r].since => d.hour >= cut
        /\ \A h \in Nat : h < cut => h < reads[r].since \/ \A d \in docs : h < d.hour
    BY <1>2, <1>3, <1>4, Cut
  <1>6. S \subseteq Texts /\ \A d \in conversations : d \in S <=> d.hour >= cut
    BY DEF load_with_time_since, HistoryInv, HistoryTypes
  <1>7. S \subseteq conversations /\ \A d \in conversations : d.hour \in Nat
    BY DEF load_with_time_since, HistoryInv, HistoryTypes, Texts
  <1>8. read \in Reading
    BY <1>2, <1>6 DEF Reading, Steps
  <1>9. LoadOK(read) /\ SummaryOK(read)
    BY <1>1, <1>2 DEF LoadOK, SummaryOK, Reading
  <1>10. WindowOK(read)
    <2>1. \A d \in S : Day(d.hour) + history_days > reads[r].day
      BY <1>2, <1>3, <1>5, <1>6, <1>7
    <2>2. ASSUME NEW d \in reads[r].window,
                 d \in docs \/ \E e \in S : e.hour = d.hour
          PROVE  d \in S \/ d \notin conversations
      BY <1>3, <1>5, <1>6, <1>7, <2>2
    <2>3. S \cap reads[r].known = {}
      BY <1>3, <1>6, <1>7
    <2> QED
      BY <1>2, <1>3, <2>1, <2>2, <2>3 DEF WindowOK, Reading
  <1>11. reads' = [reads EXCEPT ![r] = read]
    BY <1>1 DEF Loaded
  <1>12. NotesOK'
    BY <1>1 DEF HistoryInv, NotesOK, NoteOK
  <1>13. ASSUME NEW d \in conversations \ S, reads[r].quiet
         PROVE  Beyond(d, Since(Day(hour)))
    <2>1. CASE d.hour < reads[r].since
      BY <1>2, <1>7, <2>1 DEF Beyond
    <2>2. CASE \A e \in docs : d.hour < e.hour
      <3> DEFINE T == {e \in conversations : e.hour > d.hour}
      <3>1. docs \subseteq T
        BY <1>3, <1>4, <1>7, <1>13, <2>2
      <3>2. IsFiniteSet(T) /\ Cardinality(T) \in Nat
        BY FS_Subset, FS_CardinalityType DEF HistoryInv, HistoryTypes
      <3>3. Cardinality(docs) <= Cardinality(T) /\ Cardinality(docs) \in Nat
        BY <1>4, <3>1, <3>2, FS_Subset, FS_CardinalityType
      <3> QED
        BY <1>2, <1>3, <3>2, <3>3 DEF Beyond, Cuts
    <2> QED
      BY <1>3, <1>5, <1>6, <1>7, <2>1, <2>2
  <1>14. leftOut' = IF reads[r].quiet THEN leftOut \cup (conversations \ S) ELSE leftOut
    BY <1>1 DEF Loaded
  <1>15. LeftOutBeyond'
    <2>1. \A d \in leftOut' : Beyond(d, Since(Day(hour)))
      BY <1>13, <1>14 DEF HistoryInv, LeftOutBeyond
    <2> QED
      BY <1>1, <2>1 DEF LeftOutBeyond, Beyond
  <1>16. leftOut' \subseteq conversations
    BY <1>14 DEF HistoryInv, HistoryTypes
  <1> HIDE DEF read
  <1> QED
    BY <1>1, <1>8, <1>9, <1>10, <1>11, <1>12, <1>15, <1>16, ReaderStep
       DEF HistoryInv, HistoryTypes

-----------------------------------------------------------------------------
(* The steps of a run of the summary task.                                 *)

LEMMA TaskHolds ==
    ASSUME HistoryInv, NEW r \in Readers, reads[r].does \in {"between", "summarize", "upsert"}
    PROVE  /\ reads[r] \in Reading /\ LoadOK(reads[r]) /\ SummaryOK(reads[r])
           /\ reads[r].left \in DOMAIN channels /\ reads[r].day \in Nat
           /\ reads[r].day < Day(hour)
  BY DEF HistoryInv, HistoryTypes, ReadsOK, SummaryOK, Reading

LEMMA TaskBeginsStep ==
    ASSUME HistoryInv, NEW r \in Readers, TaskBegins(r)
    PROVE  HistoryInv'
  <1> DEFINE to == IF channels = << >> THEN "over" ELSE "between"
             read == [reads[r] EXCEPT !.does = to, !.day = Day(hour) - 1, !.left = 1]
  <1>1. Day(hour) \in Nat /\ Day(hour) > 0
    BY Days DEF TaskBegins, HistoryInv, HistoryTypes
  <1>2. reads[r] \in Reading /\ LoadOK(reads[r]) /\ reads[r].does = "idle"
    BY DEF TaskBegins, HistoryInv, HistoryTypes, ReadsOK
  <1>3. to = "over" \/ (to = "between" /\ 1 \in DOMAIN channels)
    BY HistoryConfigured
  <1> HIDE DEF to
  <1>4. read \in Reading
    <2>1. to \in Steps /\ Day(hour) - 1 \in Nat
      BY <1>1, <1>3 DEF Steps
    <2> QED
      BY <1>2, <2>1 DEF Reading
  <1>5. LoadOK(read) /\ WindowOK(read)
    BY <1>2, <1>3 DEF LoadOK, WindowOK, Reading
  <1>6. SummaryOK(read)
    BY <1>1, <1>2, <1>3 DEF SummaryOK, Reading
  <1>7. reads' = [reads EXCEPT ![r] = read]
    BY DEF TaskBegins, to
  <1> HIDE DEF read
  <1> QED
    BY <1>4, <1>5, <1>6, <1>7, ReaderOnlyStep DEF TaskBegins

\* On to the next channel, or to the end, with the notes as they are then.
LEMMA NextChannelStep ==
    ASSUME HistoryInv, NEW r \in Readers, NextChannel(r),
           reads[r].does \in {"between", "summarize", "upsert"},
           UNCHANGED << hour, conversations, flying, texts, late, leftOut >>,
           notes' \in [DOMAIN channels -> [day : Nat, of : SUBSET Texts]], NotesOK'
    PROVE  HistoryInv'
  <1> DEFINE next == [reads[r] EXCEPT !.does = "between", !.docs = {},
                                        !.left = reads[r].left + 1]
             read == IF reads[r].left = Len(channels) THEN [Idle EXCEPT !.does = "over"] ELSE next
  <1>1. /\ reads[r] \in Reading /\ LoadOK(reads[r]) /\ reads[r].day < Day(hour)
        /\ reads[r].left \in DOMAIN channels
    BY TaskHolds
  <1>2. ASSUME reads[r].left # Len(channels)
        PROVE  next \in Reading /\ LoadOK(next) /\ SummaryOK(next) /\ WindowOK(next)
    <2>1. reads[r].left + 1 \in DOMAIN channels /\ reads[r].left + 1 \in Nat
      BY <1>1, <1>2, HistoryConfigured
    <2>2. next \in Reading
      BY <1>1, <2>1 DEF Reading, Steps
    <2>3. LoadOK(next) /\ SummaryOK(next) /\ WindowOK(next)
      BY <1>1, <2>1 DEF LoadOK, SummaryOK, WindowOK, Reading
    <2> QED
      BY <2>2, <2>3
  <1>3. read \in Reading /\ LoadOK(read) /\ SummaryOK(read) /\ WindowOK(read)
    BY <1>2, OverOK
  <1>4. reads' = [reads EXCEPT ![r] = read]
    BY DEF NextChannel
  <1>5. leftOut' \subseteq conversations /\ LeftOutBeyond'
    BY DEF HistoryInv, HistoryTypes, LeftOutBeyond, Beyond
  <1> HIDE DEF read
  <1> QED
    BY <1>3, <1>4, <1>5, ReaderStep

LEMMA ChannelFailsStep ==
    ASSUME HistoryInv, NEW r \in Readers, ChannelFails(r)
    PROVE  HistoryInv'
  <1>1. NotesOK'
    BY DEF ChannelFails, HistoryInv, NotesOK, NoteOK
  <1> QED
    BY <1>1, NextChannelStep DEF ChannelFails, HistoryInv, HistoryTypes

LEMMA UpsertStep ==
    ASSUME HistoryInv, NEW r \in Readers, upsert(r)
    PROVE  HistoryInv'
  <1> DEFINE note == [day |-> reads[r].day, of |-> reads[r].docs]
  <1>1. /\ reads[r].does = "upsert" /\ NextChannel(r)
        /\ notes' = [notes EXCEPT ![reads[r].left] = note]
        /\ UNCHANGED << hour, conversations, flying, texts, late, leftOut >>
    BY DEF upsert
  <1>2. /\ reads[r] \in Reading /\ reads[r].left \in DOMAIN channels
        /\ NoteOK(reads[r].left, note.day, note.of)
    BY <1>1, TaskHolds DEF SummaryOK
  <1>3. note \in [day : Nat, of : SUBSET Texts]
    BY <1>2 DEF Reading
  <1> HIDE DEF note
  <1>4. notes' \in [DOMAIN channels -> [day : Nat, of : SUBSET Texts]]
    BY <1>1, <1>3 DEF HistoryInv, HistoryTypes
  <1>5. ASSUME NEW i \in DOMAIN channels, notes'[i] # NoNote
        PROVE  NoteOK(i, notes'[i].day, notes'[i].of)
    BY <1>1, <1>2, <1>5 DEF HistoryInv, HistoryTypes, NotesOK
  <1>6. NotesOK'
    BY <1>1, <1>5 DEF NotesOK, NoteOK
  <1> QED
    BY <1>1, <1>4, <1>6, NextChannelStep

\* The texts of a channel and day: those that were not taken are older than
\* the ones that were.
LEMMA QueriesStep ==
    ASSUME HistoryInv, NEW r \in Readers, load_by_channel_between(r)
    PROVE  HistoryInv'
  <1> DEFINE S == OfDay(reads[r].left, reads[r].day)
             new == Newest(max_turns, S)
             read == [reads[r] EXCEPT !.does = "summarize", !.docs = new]
  <1>1. /\ reads[r].does = "between"
        /\ IF new = {} THEN NextChannel(r) ELSE Holds(r, "summarize", new)
        /\ UNCHANGED << hour, conversations, flying, texts, deletes, notes, leftOut, late >>
    BY DEF load_by_channel_between
  <1>2. /\ reads[r] \in Reading /\ LoadOK(reads[r]) /\ reads[r].left \in DOMAIN channels
        /\ reads[r].day \in Nat /\ reads[r].day < Day(hour) /\ max_turns \in Nat \ {0}
    BY <1>1, TaskHolds, HistoryConfigured
  <1>3. NotesOK'
    BY <1>1 DEF HistoryInv, NotesOK, NoteOK
  <1>4. CASE new = {}
    BY <1>1, <1>3, <1>4, NextChannelStep DEF HistoryInv, HistoryTypes
  <1>5. CASE new # {}
    <2>1. S \subseteq conversations
      BY DEF OfDay
    <2>2. S \subseteq Texts /\ IsFiniteSet(S) /\ OneEach(S) /\ new \subseteq S
      BY <1>2, <2>1, QueryOK
    <2>3. \A d \in conversations :
              d \in S <=> d.channel = reads[r].left /\ Day(d.hour) = reads[r].day
      <3> SUFFICES ASSUME NEW d \in conversations
                   PROVE  d \in S <=> d.channel = reads[r].left /\ Day(d.hour) = reads[r].day
        OBVIOUS
      <3>1. d.hour \in Nat /\ Day(d.hour) \in Nat
        BY Days DEF HistoryInv, HistoryTypes, Texts
      <3>2. /\ d.hour >= Midnight(reads[r].day) <=> Day(d.hour) >= reads[r].day
            /\ d.hour >= Midnight(reads[r].day + 1) <=> Day(d.hour) >= reads[r].day + 1
        BY <1>2, <3>1, Days
      <3>3. Midnight(reads[r].day + 1) \in Int
        BY <1>2, HistoryConfigured DEF Midnight
      <3>4. d.hour < Midnight(reads[r].day + 1) <=> Day(d.hour) < reads[r].day + 1
        BY <1>2, <3>1, <3>2, <3>3
      <3> QED
        BY <1>2, <3>1, <3>2, <3>4 DEF OfDay
    <2>4. \A d \in S \ new : Cardinality(new) = max_turns /\ \A e \in new : e.stamp > d.stamp
      BY <1>2, <2>2, NewestOlder
    <2>5. NoteOK(reads[r].left, reads[r].day, new)
      BY <1>2, <1>5, <2>1, <2>2, <2>3, <2>4 DEF NoteOK
    <2> HIDE DEF new
    <2>6. read \in Reading
      BY <1>2, <2>2 DEF Reading, Steps
    <2>7. LoadOK(read) /\ WindowOK(read)
      BY <1>2, <1>1 DEF LoadOK, WindowOK, Reading
    <2>8. SummaryOK(read)
      BY <1>2, <2>5 DEF SummaryOK, Reading
    <2>9. reads' = [reads EXCEPT ![r] = read]
      BY <1>1, <1>5 DEF Holds
    <2> HIDE DEF read
    <2> QED
      BY <1>1, <2>6, <2>7, <2>8, <2>9, ReaderOnlyStep
  <1> QED
    BY <1>4, <1>5

LEMMA RequestsStep ==
    ASSUME HistoryInv, NEW r \in Readers, _request_summary(r)
    PROVE  HistoryInv'
  <1> DEFINE read == [reads[r] EXCEPT !.does = "upsert", !.docs = reads[r].docs]
  <1>1. reads[r].does = "summarize" /\ reads' = [reads EXCEPT ![r] = read]
    BY DEF _request_summary, Holds
  <1>2. reads[r] \in Reading /\ LoadOK(reads[r]) /\ SummaryOK(reads[r])
    BY <1>1, TaskHolds
  <1>3. read \in Reading
    BY <1>2 DEF Reading, Steps
  <1>4. LoadOK(read) /\ SummaryOK(read) /\ WindowOK(read)
    BY <1>1, <1>2 DEF LoadOK, SummaryOK, WindowOK, Reading
  <1> HIDE DEF read
  <1> QED
    BY <1>1, <1>3, <1>4, ReaderOnlyStep DEF _request_summary

-----------------------------------------------------------------------------
LEMMA HistoryNextInv == HistoryInv /\ [HistoryNext]_historyVars => HistoryInv'
  <1> SUFFICES ASSUME HistoryInv, [HistoryNext]_historyVars PROVE HistoryInv'
    OBVIOUS
  <1>1. CASE TextsNext
    BY <1>1, HourStep, SaveStep, InsertStep, DeleteStep DEF TextsNext
  <1>2. CASE LoadsNext
    BY <1>2, LoadBeginsStep, CandidatesStep, RestStep, LoadFailsStep DEF LoadsNext
  <1>3. CASE NotesNext
    BY <1>3, TaskBeginsStep, QueriesStep, RequestsStep, UpsertStep, ChannelFailsStep
       DEF NotesNext
  <1>4. CASE UNCHANGED historyVars
    <2>1. HistoryTypes' /\ InOrder' /\ LeftOutBeyond'
      BY <1>4 DEF historyVars, HistoryInv, HistoryTypes, InOrder, LeftOutBeyond, Beyond
    <2>2. ReadsOK'
      BY <1>4 DEF historyVars, HistoryInv, ReadsOK, LoadOK, SummaryOK, NoteOK, WindowOK, Beyond
    <2>3. NotesOK'
      BY <1>4 DEF historyVars, HistoryInv, NotesOK, NoteOK
    <2> QED
      BY <2>1, <2>2, <2>3 DEF HistoryInv
  <1> QED
    BY <1>1, <1>2, <1>3, <1>4 DEF HistoryNext

LEMMA HistoryInvHolds == HistorySpec => []HistoryInv
  BY HistoryInitInv, HistoryNextInv, PTL DEF HistorySpec

(* HistoryWindow for any number of loads, texts and deletions, any limits  *)
(* of turns and days: the two queries of load_conversation_history never   *)
(* miss a text of the newest turns or a part of an hour, and what a load   *)
(* left out stays out.                                                     *)
THEOREM WindowHolds == HistorySpec => []HistoryWindow
  BY HistoryInvHolds, InvImplies, PTL

(* NotesOfPastDays for any number of runs of the summary task and any      *)
(* channels: a note is of its channel and of a day that is over, and what  *)
(* it leaves out of that day is older or came after midnight.              *)
THEOREM NotesHold == HistorySpec => []NotesOfPastDays
  BY HistoryInvHolds, InvImplies, PTL
=============================================================================
