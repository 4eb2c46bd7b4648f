---------------------------- MODULE ServicesProofs ----------------------------
(***************************************************************************)
(* Theorems about the parts of Services, for every value of the constants: *)
(* the tools of extensions/google_drive and of extensions/files, which     *)
(* Services instantiates as Drive and FilesTools, and the grant of         *)
(* extensions/google_oauth.                                                *)
(***************************************************************************)
EXTENDS Services, ConversationHistoryProofs
-----------------------------------------------------------------------------
(* Real paths.                                                             *)

Paths == Seq(STRING)

\* What realpath makes of the first k names of a path, from the names before.
Resolution(path, n, f) ==
    f = [k \in 0 .. n |->
            IF k = 0 THEN << >>
            ELSE LET p == Append(f[k - 1], path[k])
                 IN IF p \in DOMAIN Links THEN Links[p] ELSE p]

LEMMA ResolutionSteps ==
    ASSUME NEW path, NEW n \in Nat, NEW f, Resolution(path, n, f)
    PROVE  /\ f[0] = << >>
           /\ \A k \in 1 .. n : f[k] = LET p == Append(f[k - 1], path[k])
                                    IN IF p \in DOMAIN Links THEN Links[p] ELSE p
  <1> DEFINE Led(k) == LET p == Append(f[k - 1], path[k])
                         IN IF p \in DOMAIN Links THEN Links[p] ELSE p
  <1>1. f = [k \in 0 .. n |-> IF k = 0 THEN << >> ELSE Led(k)]
    BY DEF Resolution
  <1>2. 0 \in 0 .. n /\ \A k \in 1 .. n : k \in 0 .. n /\ k # 0
    OBVIOUS
  <1> HIDE DEF Led
  <1>3. f[0] = << >> /\ \A k \in 1 .. n : f[k] = Led(k)
    BY <1>1, <1>2
  <1> QED
    BY <1>3 DEF Led

LEMMA ResolutionExists ==
    ASSUME NEW path, NEW n \in Nat
    PROVE  \E f : Resolution(path, n, f)
  <1> DEFINE Without == {m \in Nat : ~ \E f : Resolution(path, m, f)}
  <1> SUFFICES ASSUME Without # {} PROVE FALSE
    OBVIOUS
  <1>1. PICK m \in Without : \A k \in Without : m <= k
    BY Least
  <1>2. CASE m = 0
    <2> DEFINE g == [k \in 0 .. 0 |-> << >>]
    <2>1. Resolution(path, m, g)
      BY <1>2 DEF Resolution
    <2> QED
      BY <2>1
  <1>3. CASE m # 0
    <2>1. m \in Nat /\ m - 1 \in Nat /\ m - 1 \notin Without
      BY <1>1, <1>3
    <2>2. PICK f : Resolution(path, m - 1, f)
      BY <2>1
    <2> DEFINE Next1(h, k) == LET p == Append(h[k - 1], path[k])
                              IN IF p \in DOMAIN Links THEN Links[p] ELSE p
               g == [k \in 0 .. m |-> IF k = m THEN Next1(f, m) ELSE f[k]]
    <2>3. \A k \in 0 .. m : g[k] = IF k = 0 THEN << >> ELSE Next1(g, k)
      <3>1. \A k \in 0 .. m - 1 : g[k] = f[k]
        BY <2>1
      <3>2. ASSUME NEW k \in 0 .. m, k # 0 PROVE g[k] = Next1(g, k)
        <4>1. k - 1 \in 0 .. m - 1
          BY <2>1, <3>2
        <4>2. g[k - 1] = f[k - 1]
          BY <3>1, <4>1
        <4>3. k # m => f[k] = Next1(f, k)
          <5>1. k # m => k \in 1 .. m - 1
            BY <2>1, <3>2
          <5> QED
            BY <2>1, <2>2, <5>1, ResolutionSteps
        <4>4. g[k] = Next1(f, k)
          <5>1. CASE k = m
            BY <5>1
          <5>2. CASE k # m
            BY <4>3, <5>2
          <5> QED
            BY <5>1, <5>2
        <4> QED
          BY <4>2, <4>4
      <3>3. g[0] = << >>
        BY <2>1, <2>2, <3>1, ResolutionSteps
      <3> HIDE DEF g, Next1
      <3> QED
        BY <3>2, <3>3
    <2>4. Resolution(path, m, g)
      BY <2>3 DEF Resolution
    <2> QED
      BY <2>4
  <1> QED
    BY <1>2, <1>3

LEMMA RealpathResolves ==
    ASSUME NEW path \in Paths
    PROVE  \E f : Resolution(path, Len(path), f) /\ FilesTools!realpath(path) = f[Len(path)]
  <1> DEFINE f == CHOOSE g : Resolution(path, Len(path), g)
  <1>1. Len(path) \in Nat
    BY DEF Paths
  <1>2. Resolution(path, Len(path), f)
    BY <1>1, ResolutionExists
  <1>3. FilesTools!realpath(path) = f[Len(path)]
    BY DEF FilesTools!realpath, Resolution
  <1> QED
    BY <1>2, <1>3

\* A real path is a path again.
LEMMA RealpathIsPath ==
    ASSUME NEW path \in Paths
    PROVE  FilesTools!realpath(path) \in Paths
  <1> DEFINE n == Len(path)
  <1>1. n \in Nat /\ \A k \in 1 .. n : path[k] \in STRING
    BY DEF Paths
  <1>2. PICK f : Resolution(path, n, f) /\ FilesTools!realpath(path) = f[n]
    BY RealpathResolves
  <1>3. \A p \in DOMAIN Links : Links[p] \in Paths
    BY ServicesConfigured DEF FilesTools!FilesConfigured, FilesTools!Paths, Paths
  <1> DEFINE Bad == {k \in 0 .. n : f[k] \notin Paths}
  <1>4. Bad = {}
    <2> SUFFICES ASSUME Bad # {} PROVE FALSE
      OBVIOUS
    <2>1. Bad \subseteq Nat
      BY <1>1
    <2>2. PICK k \in Bad : \A j \in Bad : k <= j
      BY <2>1, Least
    <2>3. k # 0
      <3>1. f[0] = << >> /\ << >> \in Paths
        BY <1>1, <1>2, ResolutionSteps DEF Paths
      <3> QED
        BY <2>2, <3>1
    <2>4. k \in 1 .. n /\ k - 1 \in 0 .. n /\ k - 1 \notin Bad
      BY <1>1, <2>2, <2>3
    <2>5. f[k - 1] \in Paths /\ Append(f[k - 1], path[k]) \in Paths
      BY <1>1, <2>4 DEF Paths
    <2>6. f[k] = LET p == Append(f[k - 1], path[k])
                 IN IF p \in DOMAIN Links THEN Links[p] ELSE p
      BY <1>1, <1>2, <2>4, ResolutionSteps
    <2>7. f[k] \in Paths
      BY <1>3, <2>5, <2>6
    <2> QED
      BY <2>2, <2>7
  <1> QED
    BY <1>1, <1>2, <1>4

LEMMA WithinIsPrefix ==
    ASSUME NEW base \in Paths, NEW real \in Paths
    PROVE  FilesTools!is_within(base, real) <=>
               Len(base) <= Len(real) /\ base = SubSeq(real, 1, Len(base))
  BY DEF FilesTools!is_within, FilesTools!IsPrefix, Paths

LEMMA RootsReal ==
    ASSUME NEW r \in Roots
    PROVE  FilesTools!realpath(r.path) \in Paths
  BY RealpathIsPath, ServicesConfigured DEF FilesTools!FilesConfigured, FilesTools!Paths, Paths

\* Every non-empty set of natural numbers up to n has a greatest element.
LEMMA Greatest ==
    ASSUME NEW n \in Nat, NEW S, S \subseteq 0 .. n, S # {}
    PROVE  \E x \in S : \A y \in S : y <= x
  <1> DEFINE T == {n - x : x \in S}
  <1>1. T \subseteq Nat /\ T # {}
    <2>1. \A x \in S : n - x \in Nat
      OBVIOUS
    <2> QED
      BY <2>1
  <1>2. PICK t \in T : \A u \in T : t <= u
    BY <1>1, Least
  <1>3. PICK x \in S : t = n - x
    OBVIOUS
  <1>4. \A y \in S : n - x <= n - y
    BY <1>2, <1>3
  <1> QED
    BY <1>4

\* The directories that hold a path, deepest first, and the prefixes of the path
\* that are directories, longest first, come to the same.
LEMMA AccessIsAllowed ==
    ASSUME NEW real \in Paths
    PROVE  FilesTools!access_for(real) = FilesTools!Allowed(real)
  <1> DEFINE Place(r) == FilesTools!realpath(r.path)
             Holding == {r \in Roots : FilesTools!is_within(Place(r), real)}
             Deepest == {r \in Holding : \A s \in Holding : Len(Place(s)) <= Len(Place(r))}
             At(k) == {r \in Roots : Place(r) = SubSeq(real, 1, k)}
             Met == {k \in 0 .. Len(real) : At(k) # {}}
             Longest == CHOOSE k \in Met : \A j \in Met : j <= k
  <1>1. \A r \in Roots : Place(r) \in Paths /\ Len(Place(r)) \in Nat /\ r.writable \in BOOLEAN
    BY RootsReal, ServicesConfigured DEF FilesTools!FilesConfigured, Paths
  <1>2. Len(real) \in Nat /\ \A k \in 0 .. Len(real) : Len(SubSeq(real, 1, k)) = k
    BY DEF Paths
  <1>3. \A r \in Holding : Len(Place(r)) \in Met /\ r \in At(Len(Place(r)))
    BY <1>1, <1>2, WithinIsPrefix
  <1>4. \A k \in Met : \A r \in At(k) : r \in Holding /\ Len(Place(r)) = k
    BY <1>1, <1>2, WithinIsPrefix
  <1>5. FilesTools!access_for(real) =
            IF Deepest = {} THEN 0 ELSE IF \E r \in Deepest : ~r.writable THEN 1 ELSE 2
    BY DEF FilesTools!access_for, FilesTools!Containing, FilesTools!NONE, FilesTools!READ,
           FilesTools!WRITE
  <1>6. FilesTools!Allowed(real) =
            IF Met = {} THEN 0 ELSE IF \A r \in At(Longest) : r.writable THEN 2 ELSE 1
    BY DEF FilesTools!Allowed, FilesTools!NONE, FilesTools!READ, FilesTools!WRITE
  <1>7. CASE Met = {}
    <2>1. Deepest = {}
      BY <1>3, <1>7
    <2> QED
      BY <1>5, <1>6, <1>7, <2>1
  <1>8. CASE Met # {}
    <2>1. \E k \in Met : \A j \in Met : j <= k
      <3> HIDE DEF At
      <3> QED
        BY <1>2, <1>8, Greatest
    <2>2. Longest \in Met /\ \A j \in Met : j <= Longest
      <3> HIDE DEF Met
      <3> QED
        BY <2>1
    <2>3. At(Longest) # {}
      BY <2>2
    <2>4. \A r \in At(Longest) : r \in Deepest
      <3> HIDE DEF At, Met, Longest, Holding
      <3>1. ASSUME NEW r \in At(Longest) PROVE r \in Deepest
        <4>1. r \in Holding /\ Len(Place(r)) = Longest
          BY <1>4, <2>2, <3>1
        <4>2. \A s \in Holding : Len(Place(s)) <= Longest
          BY <1>3, <2>2
        <4> QED
          BY <4>1, <4>2
      <3> QED
        BY <3>1
    <2>5. \A r \in Deepest : r \in At(Longest)
      <3> HIDE DEF At, Met, Longest, Holding
      <3>1. ASSUME NEW r \in Deepest PROVE r \in At(Longest)
        <4>1. PICK s \in At(Longest) : s \in Holding /\ Len(Place(s)) = Longest
          BY <1>4, <2>2, <2>3
        <4>2. Len(Place(r)) \in Met /\ r \in At(Len(Place(r)))
          BY <1>3
        <4>3. Len(Place(r)) = Longest
          BY <1>2, <2>2, <4>1, <4>2 DEF Met
        <4> QED
          BY <4>2, <4>3
      <3> QED
        BY <3>1
    <2> HIDE DEF At, Met, Longest, Holding, Deepest
    <2>6. Deepest = At(Longest)
      BY <2>4, <2>5
    <2>7. \A r \in Deepest : r.writable \in BOOLEAN
      BY <1>1 DEF Deepest, Holding
    <2> QED
      BY <1>5, <1>6, <1>8, <2>3, <2>6, <2>7
  <1> QED
    BY <1>7, <1>8

-----------------------------------------------------------------------------
(* The files.  Besides FilesKept the invariant says what a tool that has   *)
(* a path to write to was allowed, that what was opened stays there, that  *)
(* what was no text at first is none until an overwrite opens it, and that *)
(* a tool about to append to it has seen it after that.                    *)

FileKinds == [kind : {"text", "binary"}, texts : Seq(ToolCalls)]
Looking == [at : {"done", "refused"}, tool : FilesTools!Tools, shown : SUBSET Paths]
Writing == [at : {"open", "refused", "write", "done", "failed", "emptied"},
            tool : FilesTools!Modes, real : Paths, shown : {{}}]
Fresh == [at : {"idle"}, shown : {{}}]

FilesTypes ==
    /\ dirs \subseteq Paths /\ DOMAIN files \subseteq Paths
    /\ files \in [DOMAIN files -> FileKinds]
    /\ tools \in [ToolCalls -> Fresh \cup Looking \cup Writing]

Writes(c) == tools[c] \in Writing
Past(c) == Writes(c) /\ tools[c].at \in {"write", "done", "emptied"}

ShownInside ==
    \A c \in ToolCalls : \A real \in tools[c].shown : FilesTools!Allowed(real) # 0
WritesInside ==
    \A c \in ToolCalls : Writes(c) => FilesTools!Allowed(tools[c].real) = 2
FilesStay ==
    /\ DOMAIN FirstFiles \subseteq DOMAIN files
    /\ \A c \in ToolCalls : Past(c) => tools[c].real \in DOMAIN files
Binary(p) == p # << >> /\ FilesTools!NoTextAtFirst(p)
StaysBinary ==
    \A p : Binary(p) => files[p].kind = "binary" \/ FilesTools!Replaced(p)
Appends(c) == Writes(c) /\ (tools[c].at = "open" \/ Past(c)) /\ tools[c].tool = "append"
AppendsSeen ==
    \A c \in ToolCalls :
        Appends(c) /\ Binary(tools[c].real) => FilesTools!Replaced(tools[c].real)
BinaryKept == StaysBinary /\ AppendsSeen

FilesInv ==
    /\ FilesTypes /\ ShownInside /\ WritesInside /\ FilesStay /\ BinaryKept
    /\ FilesTools!CreatesOnce

LEMMA WithinAllowed ==
    ASSUME NEW r \in Roots, NEW real \in Paths,
           FilesTools!is_within(FilesTools!realpath(r.path), real)
    PROVE  FilesTools!Allowed(real) # 0
  <1> DEFINE k == Len(FilesTools!realpath(r.path))
  <1>1. k \in 0 .. Len(real) /\ FilesTools!realpath(r.path) = SubSeq(real, 1, k)
    BY RootsReal, WithinIsPrefix DEF Paths
  <1> QED
    BY <1>1 DEF FilesTools!Allowed, FilesTools!NONE, FilesTools!READ, FilesTools!WRITE

LEMMA TargetsAllowed ==
    ASSUME NEW segments \in Paths, NEW t \in FilesTools!Targets(segments)
    PROVE  /\ t.root \in Roots /\ t.real \in Paths
           /\ t.access = FilesTools!Allowed(t.real) /\ FilesTools!Allowed(t.real) # 0
  <1>1. PICK r \in Roots :
            /\ segments # << >>
            /\ t = [root |-> r, real |-> FilesTools!RealOf(r, segments),
                    access |-> FilesTools!access_for(FilesTools!RealOf(r, segments))]
            /\ t.access # 0
    BY DEF FilesTools!Targets, FilesTools!RootOf, FilesTools!NONE
  <1>2. FilesTools!RealOf(r, segments) \in Paths
    <2>1. Tail(segments) \in Paths /\ FilesTools!realpath(r.path) \in Paths
      BY <1>1, RootsReal DEF Paths
    <2>2. FilesTools!realpath(r.path) \o Tail(segments) \in Paths
      BY <2>1 DEF Paths
    <2> QED
      BY <2>2, RealpathIsPath DEF FilesTools!RealOf
  <1>3. FilesTools!access_for(FilesTools!RealOf(r, segments))
            = FilesTools!Allowed(FilesTools!RealOf(r, segments))
    BY <1>2, AccessIsAllowed
  <1> QED
    BY <1>1, <1>2, <1>3

LEMMA LookedAllowed ==
    ASSUME NEW tool, NEW segments \in Paths, NEW t \in FilesTools!Looked(tool, segments)
    PROVE  t.root \in Roots /\ t.real \in Paths /\ FilesTools!Allowed(t.real) # 0
  <1>1. PICK s \in Paths : t \in FilesTools!Targets(s)
    <2>1. \A r \in Roots : << r.label >> \in Paths
      BY ServicesConfigured DEF FilesTools!FilesConfigured, Paths
    <2> QED
      BY <2>1 DEF FilesTools!Looked
  <1> QED
    BY <1>1, TargetsAllowed

\* Whatever a tool shows is below a whitelisted directory, through any links.
LEMMA ShownAllowed ==
    ASSUME FilesTypes, NEW tool, NEW segments \in Paths,
           NEW t \in FilesTools!Looked(tool, segments),
           NEW real \in FilesTools!Shown(tool, segments, t)
    PROVE  real \in Paths /\ FilesTools!Allowed(real) # 0
  <1> DEFINE There == DOMAIN files \cup DOMAIN Links \cup dirs \cup {t.real}
  <1>1. t.root \in Roots /\ t.real \in Paths /\ FilesTools!Allowed(t.real) # 0
    BY LookedAllowed
  <1>2. There \subseteq Paths
    BY <1>1, ServicesConfigured
       DEF FilesTypes, FilesTools!FilesConfigured, FilesTools!Paths, Paths
  <1>3. ASSUME NEW q \in There, q \in FilesTools!Inside(t.root, There),
               real = FilesTools!realpath(q)
        PROVE  real \in Paths /\ FilesTools!Allowed(real) # 0
    <2>1. real \in Paths /\ FilesTools!is_within(FilesTools!realpath(t.root.path), real)
      BY <1>2, <1>3, RealpathIsPath DEF FilesTools!Inside
    <2> QED
      BY <1>1, <2>1, WithinAllowed
  <1>4. \/ real = t.real
        \/ \E q \in There : q \in FilesTools!Inside(t.root, There) /\ real = FilesTools!realpath(q)
    <2>1. FilesTools!Entries(t.real) \subseteq There
      BY DEF FilesTools!Entries
    <2>2. FilesTools!Walked(t.real) \subseteq There
      BY DEF FilesTools!Walked
    <2>3. CASE tool = "read"
      BY <2>3 DEF FilesTools!Shown
    <2>4. CASE tool = "list" /\ segments = << >>
      BY <2>4 DEF FilesTools!Shown
    <2>5. CASE tool = "list" /\ segments # << >> /\ t.real \in dirs
      BY <2>1, <2>5 DEF FilesTools!Shown, FilesTools!Inside
    <2>6. CASE tool = "search"
      BY <2>2, <2>6 DEF FilesTools!Shown, FilesTools!Inside
    <2>7. CASE tool \notin {"read", "list", "search"}
      BY <2>7 DEF FilesTools!Shown
    <2>8. CASE tool = "list" /\ segments # << >> /\ t.real \notin dirs
      BY <2>8 DEF FilesTools!Shown
    <2> QED
      BY <2>3, <2>4, <2>5, <2>6, <2>7, <2>8
  <1> HIDE DEF There
  <1> QED
    BY <1>1, <1>3, <1>4

LEMMA FilesInitInv == FilesTools!FilesInit => FilesInv
  <1> SUFFICES ASSUME FilesTools!FilesInit PROVE FilesInv
    OBVIOUS
  <1>1. /\ dirs = FirstDirs /\ DOMAIN files = DOMAIN FirstFiles
        /\ \A p \in DOMAIN files : files[p] = [kind |-> FirstFiles[p], texts |-> << >>]
        /\ files = [p \in DOMAIN files |-> files[p]]
        /\ tools = [c \in ToolCalls |-> [at |-> "idle", shown |-> {}]]
    BY DEF FilesTools!FilesInit
  <1>2. FilesTypes
    <2>1. \A p \in DOMAIN files : p \in Paths /\ files[p] \in FileKinds
      <3>1. \A p \in DOMAIN FirstFiles : p \in Paths /\ FirstFiles[p] \in {"text", "binary"}
        BY ServicesConfigured DEF FilesTools!FilesConfigured, FilesTools!Paths, Paths
      <3>2. << >> \in Seq(ToolCalls)
        OBVIOUS
      <3>3. ASSUME NEW p \in DOMAIN files PROVE p \in Paths /\ files[p] \in FileKinds
        <4>1. files[p] = [kind |-> FirstFiles[p], texts |-> << >>] /\ p \in DOMAIN FirstFiles
          BY <1>1
        <4> QED
          BY <3>1, <3>2, <4>1 DEF FileKinds
      <3> QED
        BY <3>3
    <2>2. files \in [DOMAIN files -> FileKinds]
      BY <1>1, <2>1
    <2>3. dirs \subseteq Paths
      BY <1>1, ServicesConfigured DEF FilesTools!FilesConfigured, FilesTools!Paths, Paths
    <2>4. tools \in [ToolCalls -> Fresh]
      BY <1>1 DEF Fresh
    <2> QED
      BY <2>1, <2>2, <2>3, <2>4 DEF FilesTypes
  <1>3. \A c \in ToolCalls : tools[c].at = "idle" /\ tools[c].shown = {}
    BY <1>1
  <1>4. \A c \in ToolCalls : ~Writes(c) /\ ~FilesTools!OpenedBy(c)
    BY <1>3 DEF Writes, Writing, FilesTools!OpenedBy
  <1>5. BinaryKept
    <2>1. \A p : Binary(p) => files[p].kind = "binary"
      BY <1>1 DEF Binary, FilesTools!NoTextAtFirst
    <2> QED
      BY <1>4, <2>1 DEF BinaryKept, StaysBinary, AppendsSeen, Appends
  <1> QED
    BY <1>1, <1>2, <1>3, <1>4, <1>5
       DEF FilesInv, ShownInside, WritesInside, FilesStay, Past, FilesTools!CreatesOnce

\* Who has opened a file, in terms of the records.
LEMMA OpenedIsPast ==
    ASSUME FilesTypes, NEW c \in ToolCalls
    PROVE  /\ Writes(c) => FilesTools!Path(c) = tools[c].real /\ tools[c].real \in Paths
           /\ ~Writes(c) => FilesTools!Path(c) = << >>
           /\ FilesTools!OpenedBy(c) <=> Past(c) /\ tools[c].real # << >>
  <1>1. tools[c] \in Fresh \cup Looking \cup Writing
    BY DEF FilesTypes
  <1>2. \A r \in Writing : "real" \in DOMAIN r /\ r.real \in Paths
    BY DEF Writing
  <1>3. \A r \in Fresh \cup Looking : "real" \notin DOMAIN r
    BY DEF Fresh, Looking
  <1> QED
    BY <1>1, <1>2, <1>3 DEF Writes, Past, FilesTools!Path, FilesTools!OpenedBy

LEMMA OpenedIsPastNext ==
    ASSUME FilesTypes', NEW c \in ToolCalls
    PROVE  /\ Writes(c)' => FilesTools!Path(c)' = tools'[c].real /\ tools'[c].real \in Paths
           /\ ~Writes(c)' => FilesTools!Path(c)' = << >>
           /\ FilesTools!OpenedBy(c)' <=> Past(c)' /\ tools'[c].real # << >>
  <1>1. tools'[c] \in Fresh \cup Looking \cup Writing
    BY DEF FilesTypes
  <1>2. \A r \in Writing : "real" \in DOMAIN r /\ r.real \in Paths
    BY DEF Writing
  <1>3. \A r \in Fresh \cup Looking : "real" \notin DOMAIN r
    BY DEF Fresh, Looking
  <1> QED
    BY <1>1, <1>2, <1>3 DEF Writes, Past, FilesTools!Path, FilesTools!OpenedBy

\* A free tool has written nothing.
LEMMA FreeIsFresh ==
    ASSUME FilesTypes, NEW c \in ToolCalls, FilesTools!Free(c)
    PROVE  ~Writes(c) /\ tools[c].shown = {}
  BY DEF FilesTypes, FilesTools!Free, Writes, Fresh, Looking, Writing

\* What was no text at first, in a step: no file is closed again, a kind is
\* changed after an overwrite only, and an append was one or has seen the file
\* after that.
LEMMA BinaryStep ==
    ASSUME BinaryKept,
           \A d \in ToolCalls : FilesTools!OpenedBy(d) =>
               /\ FilesTools!OpenedBy(d)' /\ FilesTools!Path(d)' = FilesTools!Path(d)
               /\ tools'[d].tool = tools[d].tool,
           \A p : Binary(p) /\ files[p].kind = "binary" =>
               files'[p].kind = "binary" \/ FilesTools!Replaced(p)',
           \A d \in ToolCalls : Appends(d)' /\ Binary(tools'[d].real) =>
               \/ Appends(d) /\ tools'[d].real = tools[d].real
               \/ FilesTools!Replaced(tools'[d].real)
    PROVE  BinaryKept'
  <1>1. ASSUME NEW p, FilesTools!Replaced(p) PROVE FilesTools!Replaced(p)'
    BY <1>1 DEF FilesTools!Replaced
  <1>2. StaysBinary'
    <2> SUFFICES ASSUME NEW p, Binary(p)
                 PROVE  files'[p].kind = "binary" \/ FilesTools!Replaced(p)'
      BY DEF StaysBinary, Binary, FilesTools!NoTextAtFirst
    <2> QED
      BY <1>1 DEF BinaryKept, StaysBinary
  <1>3. AppendsSeen'
    <2> SUFFICES ASSUME NEW d \in ToolCalls, Appends(d)', NEW p, p = tools'[d].real, Binary(p)
                 PROVE  FilesTools!Replaced(p)'
      BY DEF AppendsSeen, Binary, FilesTools!NoTextAtFirst, FilesTools!Replaced
    <2>1. FilesTools!Replaced(p)
      BY DEF BinaryKept, AppendsSeen
    <2> QED
      BY <1>1, <2>1
  <1> QED
    BY <1>2, <1>3 DEF BinaryKept

\* A tool that has not opened anything takes a step that opens nothing.
LEMMA NothingOpened ==
    ASSUME FilesInv, UNCHANGED files, NEW c \in ToolCalls, ~Past(c),
           FilesTypes', ~Past(c)',
           \A d \in ToolCalls \ {c} : tools'[d] = tools[d],
           Appends(c)' /\ Binary(tools'[c].real) => FilesTools!Replaced(tools'[c].real)
    PROVE  FilesStay' /\ FilesTools!CreatesOnce' /\ BinaryKept'
  <1> USE DEF FilesInv
  <1>1. FilesStay'
    BY DEF FilesStay, Past, Writes
  <1>2. \A d \in ToolCalls \ {c} :
            /\ FilesTools!OpenedBy(d)' <=> FilesTools!OpenedBy(d)
            /\ FilesTools!Path(d)' = FilesTools!Path(d)
    BY DEF FilesTools!OpenedBy, FilesTools!Path
  <1>3. ~FilesTools!OpenedBy(c) /\ ~FilesTools!OpenedBy(c)'
    <2>1. ~FilesTools!OpenedBy(c)
      BY OpenedIsPast
    <2>2. FilesTools!OpenedBy(c)' <=> Past(c)' /\ tools'[c].real # << >>
      BY OpenedIsPastNext
    <2> QED
      BY <2>1, <2>2
  <1>4. FilesTools!CreatesOnce'
    BY <1>2, <1>3 DEF FilesTools!CreatesOnce
  <1>5. \A d \in ToolCalls : FilesTools!OpenedBy(d) =>
            /\ FilesTools!OpenedBy(d)' /\ FilesTools!Path(d)' = FilesTools!Path(d)
            /\ tools'[d].tool = tools[d].tool
    BY <1>2, <1>3
  <1>6. \A d \in ToolCalls : Appends(d)' /\ Binary(tools'[d].real) =>
            \/ Appends(d) /\ tools'[d].real = tools[d].real
            \/ FilesTools!Replaced(tools'[d].real)
    BY DEF Appends, Writes, Past
  <1>7. BinaryKept'
    BY <1>5, <1>6, BinaryStep
  <1> QED
    BY <1>1, <1>4, <1>7

LEMMA ReadsKeeps ==
    ASSUME FilesInv, NEW c \in ToolCalls, NEW tool \in {"read", "list", "search"},
           NEW segments \in Requested, FilesTools!Reads(c, tool, segments)
    PROVE  FilesInv'
  <1> DEFINE shown == UNION {FilesTools!Shown(tool, segments, t) :
                                t \in FilesTools!Looked(tool, segments)}
             new == [at |-> "done", tool |-> tool, shown |-> shown]
  <1> USE DEF FilesInv
  <1>1. /\ tools' = [tools EXCEPT ![c] = new] /\ UNCHANGED << dirs, files >>
        /\ ~Writes(c)
    BY FreeIsFresh DEF FilesTools!Reads
  <1>2. segments \in Paths
    BY ServicesConfigured DEF FilesTools!FilesConfigured, FilesTools!Paths, Paths
  <1>3. \A real \in shown : real \in Paths /\ FilesTools!Allowed(real) # 0
    BY <1>2, ShownAllowed
  <1>4. new \in Looking /\ new \notin Writing /\ new.shown = shown
    BY <1>3 DEF Looking, Writing, FilesTools!Tools
  <1> HIDE DEF new, shown
  <1>5. tools'[c] = new /\ \A d \in ToolCalls \ {c} : tools'[d] = tools[d]
    BY <1>1 DEF FilesTypes
  <1>6. FilesTypes'
    BY <1>1, <1>4 DEF FilesTypes
  <1>7. ~Past(c) /\ ~Writes(c)' /\ ~Past(c)'
    BY <1>1, <1>4, <1>5 DEF Past, Writes
  <1>8. \A real : FilesTools!Allowed(real)' = FilesTools!Allowed(real)
    BY DEF FilesTools!Allowed
  <1>9. ShownInside'
    BY <1>3, <1>4, <1>5, <1>8 DEF ShownInside
  <1>10. WritesInside' /\ ~Appends(c)'
    BY <1>1, <1>5, <1>7, <1>8 DEF WritesInside, Appends, Writes
  <1> QED
    BY <1>1, <1>5, <1>6, <1>7, <1>9, <1>10, NothingOpened

LEMMA ChecksKeeps ==
    ASSUME FilesInv, NEW c \in ToolCalls, NEW mode \in FilesTools!Modes,
           NEW segments \in Requested, FilesTools!Checks(c, mode, segments)
    PROVE  FilesInv'
  <1> USE DEF FilesInv
  <1>1. UNCHANGED files /\ ~Writes(c) /\ ~Past(c)
    BY FreeIsFresh DEF FilesTools!Checks, Past
  <1>2. segments \in Paths
    BY ServicesConfigured DEF FilesTools!FilesConfigured, FilesTools!Paths, Paths
  <1>3. \A real : FilesTools!Allowed(real)' = FilesTools!Allowed(real)
    BY DEF FilesTools!Allowed
  <1>4. CASE /\ tools' = [tools EXCEPT ![c] = [at |-> "refused", tool |-> mode, shown |-> {}]]
             /\ UNCHANGED dirs
    <2> DEFINE new == [at |-> "refused", tool |-> mode, shown |-> {}]
    <2>1. new \in Looking /\ new \notin Writing /\ new.shown = {}
      BY DEF Looking, Writing, FilesTools!Tools
    <2> HIDE DEF new
    <2>2. tools'[c] = new /\ \A d \in ToolCalls \ {c} : tools'[d] = tools[d]
      BY <1>4 DEF FilesTypes, new
    <2>3. FilesTypes'
      BY <1>1, <1>4, <2>1 DEF FilesTypes, new
    <2>4. ~Writes(c)' /\ ~Past(c)'
      BY <2>1, <2>2 DEF Past, Writes
    <2>5. ShownInside' /\ WritesInside' /\ ~Appends(c)'
      BY <1>1, <1>3, <2>1, <2>2, <2>4 DEF ShownInside, WritesInside, Appends, Writes
    <2> QED
      BY <1>1, <2>2, <2>3, <2>4, <2>5, NothingOpened
  <1>5. ASSUME NEW t \in FilesTools!Targets(segments), FilesTools!Writable(mode, segments, t),
               tools' = [tools EXCEPT ![c] =
                            [at |-> "open", tool |-> mode, real |-> t.real, shown |-> {}]],
               dirs' = dirs \cup FilesTools!Above(t.real)
        PROVE  FilesInv'
    <2> DEFINE new == [at |-> "open", tool |-> mode, real |-> t.real, shown |-> {}]
    <2>1. t.real \in Paths /\ FilesTools!Allowed(t.real) = 2
      BY <1>2, <1>5, TargetsAllowed DEF FilesTools!Writable, FilesTools!WRITE
    <2>2. new \in Writing /\ new.at = "open" /\ new.tool = mode /\ new.real = t.real
          /\ new.shown = {}
      BY <2>1 DEF Writing
    <2> HIDE DEF new
    <2>3. tools'[c] = new /\ \A d \in ToolCalls \ {c} : tools'[d] = tools[d]
      BY <1>5 DEF FilesTypes, new
    <2>4. FilesTypes'
      <3>1. FilesTools!Above(t.real) \subseteq Paths
        BY <2>1 DEF FilesTools!Above, Paths
      <3> QED
        BY <1>1, <1>5, <2>2, <3>1 DEF FilesTypes, new
    <2>5. ~Past(c)'
      BY <2>2, <2>3 DEF Past
    <2>6. ShownInside' /\ WritesInside'
      BY <1>3, <2>1, <2>2, <2>3 DEF ShownInside, WritesInside, Writes
    <2>7. mode = "append" /\ Binary(t.real) => FilesTools!Replaced(t.real)
      <3>1. mode = "append" /\ t.real \in DOMAIN files => files[t.real].kind = "text"
        BY <1>5 DEF FilesTools!Writable, FilesTools!IsText
      <3>2. Binary(t.real) => t.real \in DOMAIN files
        BY DEF FilesStay, Binary, FilesTools!NoTextAtFirst
      <3> QED
        BY <3>1, <3>2 DEF BinaryKept, StaysBinary
    <2>8. Appends(c)' /\ Binary(tools'[c].real) => FilesTools!Replaced(tools'[c].real)
      BY <2>2, <2>3, <2>7 DEF Appends
    <2> QED
      BY <1>1, <2>3, <2>4, <2>5, <2>6, <2>8, NothingOpened
  <1> QED
    BY <1>4, <1>5 DEF FilesTools!Checks

\* The end of a step of a tool that writes: only where it is changes.
LEMMA EndsMoves ==
    ASSUME FilesTypes, NEW c \in ToolCalls, Writes(c),
           NEW at \in {"refused", "write", "done", "failed", "emptied"}, FilesTools!Ends(c, at)
    PROVE  /\ Writes(c)' /\ tools'[c].at = at /\ tools'[c].tool = tools[c].tool
           /\ tools'[c].real = tools[c].real /\ tools'[c].shown = {} /\ tools[c].shown = {}
           /\ tools' \in [ToolCalls -> Fresh \cup Looking \cup Writing]
           /\ \A d \in ToolCalls \ {c} : tools'[d] = tools[d]
  <1> DEFINE new == [tools[c] EXCEPT !.at = at]
  <1>1. new \in Writing /\ new.at = at /\ new.tool = tools[c].tool
        /\ new.real = tools[c].real /\ new.shown = {} /\ tools[c].shown = {}
    BY DEF Writes, Writing
  <1>2. tools' = [tools EXCEPT ![c] = new]
    BY DEF FilesTools!Ends
  <1> HIDE DEF new
  <1> QED
    BY <1>1, <1>2 DEF FilesTypes, Writes

LEMMA InterruptedKeeps ==
    ASSUME FilesInv, NEW c \in ToolCalls, FilesTools!Interrupted(c)
    PROVE  FilesInv'
  <1> USE DEF FilesInv
  <1>1. /\ tools[c].at \in {"open", "write"} /\ UNCHANGED << dirs, files >>
        /\ FilesTools!Ends(c, IF tools[c].at = "open" THEN "failed" ELSE "emptied")
    BY DEF FilesTools!Interrupted
  <1>2. Writes(c)
    BY <1>1 DEF FilesTypes, Writes, Fresh, Looking
  <1>3. /\ Writes(c)' /\ tools'[c].at = IF tools[c].at = "open" THEN "failed" ELSE "emptied"
        /\ tools'[c].tool = tools[c].tool
        /\ tools'[c].real = tools[c].real /\ tools'[c].shown = {} /\ tools[c].shown = {}
        /\ tools' \in [ToolCalls -> Fresh \cup Looking \cup Writing]
        /\ \A d \in ToolCalls \ {c} : tools'[d] = tools[d]
    BY <1>1, <1>2, EndsMoves
  <1>4. FilesTypes'
    BY <1>1, <1>3 DEF FilesTypes
  <1>5. \A d \in ToolCalls :
            /\ Writes(d)' <=> Writes(d)
            /\ Past(d)' <=> Past(d)
            /\ Writes(d) => tools'[d].real = tools[d].real
            /\ tools'[d].shown = tools[d].shown
            /\ tools'[d].at = "done" => tools[d].at = "done"
            /\ Writes(d) => tools'[d].tool = tools[d].tool
    BY <1>1, <1>2, <1>3 DEF Writes, Past
  <1>6. \A real : FilesTools!Allowed(real)' = FilesTools!Allowed(real)
    BY DEF FilesTools!Allowed
  <1>7. ShownInside' /\ WritesInside' /\ FilesStay'
    <2>1. ShownInside'
      BY <1>5, <1>6 DEF ShownInside
    <2>2. WritesInside'
      BY <1>5, <1>6 DEF WritesInside
    <2>3. FilesStay'
      BY <1>1, <1>5 DEF FilesStay, Past
    <2> QED
      BY <2>1, <2>2, <2>3
  <1>8. \A d \in ToolCalls : Appends(d)' => Appends(d) /\ tools'[d].real = tools[d].real
    BY <1>5, <1>1, <1>3 DEF Appends, Past
  <1>9. \A d \in ToolCalls :
            /\ FilesTools!OpenedBy(d)' <=> FilesTools!OpenedBy(d)
            /\ FilesTools!Path(d)' = FilesTools!Path(d)
            /\ FilesTools!OpenedBy(d) => tools'[d].tool = tools[d].tool
    BY <1>4, <1>5, OpenedIsPast, OpenedIsPastNext DEF Past
  <1>10. FilesTools!CreatesOnce'
    BY <1>1, <1>5, <1>9 DEF FilesTools!CreatesOnce
  <1>11. BinaryKept'
    BY <1>1, <1>8, <1>9, BinaryStep
  <1> QED
    BY <1>4, <1>7, <1>10, <1>11

\* What open() brings: nothing new where something was, unless it empties.
LEMMA OpenedSame ==
    ASSUME FilesInv, NEW c \in ToolCalls, Writes(c), tools[c].at = "open",
           NEW file \in FilesTools!Opened(tools[c].tool, tools[c].real)
    PROVE  /\ file \in FileKinds
           /\ tools[c].real \in DOMAIN files => tools[c].tool # "create"
           /\ tools[c].real \in DOMAIN files /\ tools[c].tool # "overwrite"
                  => file = files[tools[c].real]
  <1> DEFINE real == tools[c].real
  <1>1. tools[c].tool \in FilesTools!Modes
    BY DEF Writes, Writing
  <1>2. FilesTools!EmptyFile \in FileKinds
    BY DEF FilesTools!EmptyFile, FileKinds
  <1>3. CASE real \notin DOMAIN files
    BY <1>2, <1>3 DEF FilesTools!Opened
  <1>4. CASE real \in DOMAIN files
    <2>1. CASE tools[c].tool = "create"
      BY <1>4, <2>1 DEF FilesTools!Opened
    <2>2. CASE tools[c].tool = "append"
      BY <1>4, <2>2 DEF FilesTools!Opened, FilesInv, FilesTypes
    <2>3. CASE tools[c].tool = "overwrite"
      BY <1>2, <1>4, <2>3 DEF FilesTools!Opened
    <2> QED
      BY <1>1, <2>1, <2>2, <2>3 DEF FilesTools!Modes
  <1> QED
    BY <1>3, <1>4

LEMMA OpenKeeps ==
    ASSUME FilesInv, NEW c \in ToolCalls, FilesTools!open(c)
    PROVE  FilesInv'
  <1> DEFINE real == tools[c].real
  <1> USE DEF FilesInv
  <1>1. tools[c].at = "open" /\ UNCHANGED dirs
    BY DEF FilesTools!open
  <1>2. Writes(c) /\ ~Past(c)
    BY <1>1 DEF FilesTypes, Writes, Fresh, Looking, Past
  <1>3. \A p : FilesTools!Allowed(p)' = FilesTools!Allowed(p)
    BY DEF FilesTools!Allowed
  <1>4. CASE FilesTools!Ends(c, "refused") /\ UNCHANGED files
    <2>1. /\ Writes(c)' /\ tools'[c].at = "refused"
          /\ tools'[c].real = real /\ tools'[c].shown = {} /\ tools[c].shown = {}
          /\ tools' \in [ToolCalls -> Fresh \cup Looking \cup Writing]
          /\ \A d \in ToolCalls \ {c} : tools'[d] = tools[d]
      BY <1>2, <1>4, EndsMoves
    <2>2. FilesTypes' /\ ~Past(c)'
      BY <1>1, <1>4, <2>1 DEF FilesTypes, Past
    <2>3. ShownInside'
      BY <1>3, <2>1 DEF ShownInside
    <2>4. WritesInside'
      BY <1>2, <1>3, <2>1 DEF WritesInside, Writes
    <2>5. ~Appends(c)'
      BY <2>1, <2>2 DEF Appends
    <2> QED
      BY <1>2, <1>4, <2>1, <2>2, <2>3, <2>4, <2>5, NothingOpened
  <1>5. ASSUME NEW file \in FilesTools!Opened(tools[c].tool, real),
               files' = FilesTools!With(real, file), FilesTools!Ends(c, "write")
        PROVE  FilesInv'
    <2>1. /\ file \in FileKinds
          /\ real \in DOMAIN files => tools[c].tool # "create"
          /\ real \in DOMAIN files /\ tools[c].tool # "overwrite" => file = files[real]
      BY <1>1, <1>2, <1>5, OpenedSame
    <2>2. /\ Writes(c)' /\ tools'[c].at = "write" /\ tools'[c].tool = tools[c].tool
          /\ tools'[c].real = real /\ tools'[c].shown = {} /\ tools[c].shown = {}
          /\ tools' \in [ToolCalls -> Fresh \cup Looking \cup Writing]
          /\ \A d \in ToolCalls \ {c} : tools'[d] = tools[d]
      BY <1>2, <1>5, EndsMoves
    <2>3. /\ DOMAIN files' = DOMAIN files \cup {real} /\ files'[real] = file
          /\ \A p \in DOMAIN files : p # real => files'[p] = files[p]
          /\ files' = [p \in DOMAIN files' |-> files'[p]]
      BY <1>5 DEF FilesTools!With
    <2>4. FilesTypes'
      <3>1. real \in Paths
        BY <1>2 DEF Writes, Writing
      <3>2. \A p \in DOMAIN files' : files'[p] \in FileKinds
        BY <2>1, <2>3 DEF FilesTypes
      <3>3. files' \in [DOMAIN files' -> FileKinds]
        BY <2>3, <3>2
      <3> QED
        BY <1>1, <2>2, <2>3, <3>1, <3>3 DEF FilesTypes
    <2>5. ShownInside'
      BY <1>3, <2>2 DEF ShownInside
    <2>6. WritesInside'
      BY <1>2, <1>3, <2>2 DEF WritesInside, Writes
    <2>7. FilesStay'
      BY <2>2, <2>3 DEF FilesStay, Past, Writes
    <2>10. \A d \in ToolCalls \ {c} :
              /\ FilesTools!OpenedBy(d)' <=> FilesTools!OpenedBy(d)
              /\ FilesTools!Path(d)' = FilesTools!Path(d)
              /\ FilesTools!OpenedBy(d) => FilesTools!Path(d) \in DOMAIN files
      <3>1. \A d \in ToolCalls \ {c} :
                /\ FilesTools!OpenedBy(d)' <=> FilesTools!OpenedBy(d)
                /\ FilesTools!Path(d)' = FilesTools!Path(d)
        BY <2>2 DEF FilesTools!OpenedBy, FilesTools!Path
      <3>2. \A d \in ToolCalls : FilesTools!OpenedBy(d) => FilesTools!Path(d) \in DOMAIN files
        BY OpenedIsPast DEF FilesStay, Past
      <3> QED
        BY <3>1, <3>2
    <2>11. /\ FilesTools!Path(c) = real /\ FilesTools!Path(c)' = real
           /\ ~FilesTools!OpenedBy(c)
           /\ FilesTools!OpenedBy(c)' <=> real # << >>
      BY <1>2, <2>2, <2>4, OpenedIsPast, OpenedIsPastNext DEF Past
    <2>12. FilesTools!CreatesOnce'
      <3> DEFINE Others(e) == {d \in ToolCalls \ {e} : FilesTools!OpenedBy(d)
                                  /\ FilesTools!Path(d) = FilesTools!Path(e)}
                 Once(e) ==
                     /\ FilesTools!Path(e) \notin DOMAIN FirstFiles
                     /\ \A d \in Others(e) : tools[d].tool # "create"
                     /\ tools[e].at = "done" /\ (\A d \in Others(e) : tools[d].tool # "overwrite") =>
                            files[FilesTools!Path(e)].texts # << >>
                                /\ files[FilesTools!Path(e)].texts[1] = e
      <3>1. ASSUME FilesTools!OpenedBy(c)', tools[c].tool = "create" PROVE Once(c)'
        <4>1. real \notin DOMAIN files
          BY <2>1, <3>1
        <4>2. Others(c)' = {}
          BY <2>10, <2>11, <4>1
        <4> QED
          BY <2>2, <2>11, <4>1, <4>2 DEF FilesStay
      <3>2. ASSUME NEW e \in ToolCalls \ {c}, FilesTools!OpenedBy(e)', tools'[e].tool = "create"
            PROVE  Once(e)'
        <4>1. /\ FilesTools!OpenedBy(e) /\ tools'[e] = tools[e]
              /\ FilesTools!Path(e)' = FilesTools!Path(e) /\ FilesTools!Path(e) \in DOMAIN files
              /\ FilesTools!Path(e) # << >>
          BY <2>2, <2>10, <3>2 DEF FilesTools!OpenedBy
        <4>2. Once(e)
          BY <3>2, <4>1 DEF FilesTools!CreatesOnce
        <4>3. Others(e) \subseteq Others(e)' /\ Others(e)' \subseteq Others(e) \cup {c}
          BY <2>10, <2>11, <4>1
        <4>4. FilesTools!Path(e) = real => c \in Others(e)' /\ tools[c].tool # "create"
          BY <2>1, <2>11, <4>1
        <4>5. c \in Others(e)' => FilesTools!Path(e) = real
          BY <2>11, <4>1
        <4>6. \A d \in Others(e) : tools'[d] = tools[d]
          <5>1. \A d \in Others(e) : d \in ToolCalls \ {c}
            BY <2>11
          <5> HIDE DEF Others
          <5> QED
            BY <2>2, <5>1
        <4> HIDE DEF Others
        <4>7. \A d \in Others(e)' : tools'[d].tool # "create"
          BY <2>2, <4>2, <4>3, <4>4, <4>5, <4>6
        <4>8. ASSUME tools'[e].at = "done", \A d \in Others(e)' : tools'[d].tool # "overwrite"
              PROVE  files'[FilesTools!Path(e)] = files[FilesTools!Path(e)]
                         /\ \A d \in Others(e) : tools[d].tool # "overwrite"
          BY <2>1, <2>2, <2>3, <4>1, <4>3, <4>4, <4>6, <4>8
        <4> QED
          BY <4>1, <4>2, <4>7, <4>8
      <3> QED
        BY <2>2, <3>1, <3>2 DEF FilesTools!CreatesOnce
    <2>13. BinaryKept'
      <3>1. \A d \in ToolCalls : FilesTools!OpenedBy(d) =>
                /\ FilesTools!OpenedBy(d)' /\ FilesTools!Path(d)' = FilesTools!Path(d)
                /\ tools'[d].tool = tools[d].tool
        BY <2>2, <2>10, <2>11
      <3>2. ASSUME NEW p, Binary(p), files[p].kind = "binary"
            PROVE  files'[p].kind = "binary" \/ FilesTools!Replaced(p)'
        <4>1. p \in DOMAIN files /\ p # << >>
          BY <3>2 DEF FilesStay, Binary, FilesTools!NoTextAtFirst
        <4>2. CASE p # real
          BY <2>3, <3>2, <4>1, <4>2
        <4>3. CASE p = real /\ tools[c].tool # "overwrite"
          BY <2>1, <2>3, <3>2, <4>1, <4>3
        <4>4. CASE p = real /\ tools[c].tool = "overwrite"
          BY <2>2, <2>11, <4>1, <4>4 DEF FilesTools!Replaced
        <4> QED
          BY <4>2, <4>3, <4>4
      <3>3. \A d \in ToolCalls : Appends(d)' => Appends(d) /\ tools'[d].real = tools[d].real
        BY <1>1, <1>2, <2>2 DEF Appends, Writes, Past
      <3> QED
        BY <3>1, <3>2, <3>3, BinaryStep
    <2> QED
      BY <2>4, <2>5, <2>6, <2>7, <2>12, <2>13
  <1> QED
    BY <1>4, <1>5 DEF FilesTools!open

LEMMA WriteKeeps ==
    ASSUME FilesInv, NEW c \in ToolCalls, FilesTools!write(c)
    PROVE  FilesInv'
  <1> DEFINE real == tools[c].real
  <1> USE DEF FilesInv
  <1>1. /\ tools[c].at = "write" /\ UNCHANGED dirs /\ FilesTools!Ends(c, "done")
    BY DEF FilesTools!write
  <1>2. Writes(c) /\ Past(c) /\ real \in DOMAIN files
    <2>1. Writes(c)
      BY <1>1 DEF FilesTypes, Writes, Fresh, Looking
    <2> QED
      BY <1>1, <2>1 DEF Past, FilesStay
  <1>3. PICK held \in FilesTools!Written(tools[c].tool, c, files[real].texts),
             become \in FilesTools!KindsAfter(tools[c].tool, files[real].kind) :
            files' = [files EXCEPT ![real] = [kind |-> become, texts |-> held]]
    BY DEF FilesTools!write
  <1>4. files[real] \in FileKinds /\ files[real].texts \in Seq(ToolCalls)
        /\ tools[c].tool \in FilesTools!Modes
    BY <1>2 DEF FilesTypes, FileKinds, Writes, Writing
  <1>5. /\ held \in Seq(ToolCalls)
        /\ tools[c].tool = "append" => held = Append(files[real].texts, c)
        /\ tools[c].tool # "append" => held # << >> /\ held[1] = c
    <2>1. CASE tools[c].tool = "append"
      <3>1. held = Append(files[real].texts, c)
        BY <1>3, <2>1 DEF FilesTools!Written
      <3> QED
        BY <1>4, <2>1, <3>1
    <2>2. CASE tools[c].tool # "append"
      <3>1. PICK k \in 1 .. Len(files[real].texts) + 1 :
                held = << c >> \o SubSeq(files[real].texts, k, Len(files[real].texts))
        BY <2>2 DEF FilesTools!Written
      <3> DEFINE rest == SubSeq(files[real].texts, k, Len(files[real].texts))
      <3>2. rest \in Seq(ToolCalls) /\ << c >> \in Seq(ToolCalls)
        BY <1>4
      <3> HIDE DEF rest
      <3>3. << c >> \o rest \in Seq(ToolCalls) /\ Len(<< c >> \o rest) = 1 + Len(rest)
            /\ (<< c >> \o rest)[1] = c
        BY <3>2
      <3>4. Len(rest) \in Nat
        BY <3>2
      <3>5. << c >> \o rest # << >>
        BY <3>3, <3>4
      <3> QED
        BY <2>2, <3>1, <3>3, <3>5 DEF rest
    <2> QED
      BY <2>1, <2>2
  <1>6. /\ Writes(c)' /\ tools'[c].at = "done" /\ tools'[c].tool = tools[c].tool
        /\ tools'[c].real = real /\ tools'[c].shown = {} /\ tools[c].shown = {}
        /\ tools' \in [ToolCalls -> Fresh \cup Looking \cup Writing]
        /\ \A d \in ToolCalls \ {c} : tools'[d] = tools[d]
    BY <1>1, <1>2, EndsMoves
  <1>7. /\ DOMAIN files' = DOMAIN files
        /\ files'[real] \in FileKinds /\ files'[real].kind = become /\ files'[real].texts = held
        /\ \A p \in DOMAIN files : p # real => files'[p] = files[p]
        /\ files' \in [DOMAIN files' -> FileKinds]
    <2> DEFINE new == [kind |-> become, texts |-> held]
    <2>1. new \in FileKinds /\ new.kind = become /\ new.texts = held
      BY <1>5 DEF FileKinds, FilesTools!KindsAfter
    <2>2. files' = [files EXCEPT ![real] = new]
      BY <1>3
    <2> HIDE DEF new
    <2> QED
      BY <1>2, <2>1, <2>2 DEF FilesTypes
  <1>8. \A p : FilesTools!Allowed(p)' = FilesTools!Allowed(p)
    BY DEF FilesTools!Allowed
  <1>9. FilesTypes'
    BY <1>1, <1>6, <1>7 DEF FilesTypes
  <1>10. \A d \in ToolCalls :
            /\ Writes(d)' <=> Writes(d)
            /\ Past(d)' <=> Past(d)
            /\ Writes(d) => tools'[d].real = tools[d].real
            /\ tools'[d].shown = tools[d].shown
            /\ Writes(d) => tools'[d].tool = tools[d].tool
    BY <1>1, <1>2, <1>6 DEF Writes, Past
  <1>11. ShownInside'
    BY <1>8, <1>10 DEF ShownInside
  <1>12. WritesInside'
    BY <1>8, <1>10 DEF WritesInside
  <1>13. FilesStay'
    BY <1>7, <1>10 DEF FilesStay, Past
  <1>16. \A d \in ToolCalls :
            /\ FilesTools!OpenedBy(d)' <=> FilesTools!OpenedBy(d)
            /\ FilesTools!Path(d)' = FilesTools!Path(d)
            /\ FilesTools!OpenedBy(d) =>
                   tools'[d].tool = tools[d].tool /\ FilesTools!Path(d) \in DOMAIN files
    BY <1>9, <1>10, OpenedIsPast, OpenedIsPastNext DEF Past, FilesStay
  <1>17. FilesTools!Path(c) = real /\ (FilesTools!OpenedBy(c) <=> real # << >>)
    BY <1>2, OpenedIsPast
  <1>18. FilesTools!CreatesOnce'
    <2> SUFFICES ASSUME NEW e \in ToolCalls, FilesTools!OpenedBy(e)', tools'[e].tool = "create"
                 PROVE  /\ FilesTools!Path(e)' \notin DOMAIN FirstFiles
                        /\ \A d \in ToolCalls \ {e} :
                              FilesTools!OpenedBy(d)' /\ FilesTools!Path(d)' = FilesTools!Path(e)'
                                  => tools'[d].tool # "create"
                        /\ /\ tools'[e].at = "done"
                           /\ \A d \in ToolCalls \ {e} :
                                 FilesTools!OpenedBy(d)' /\ FilesTools!Path(d)' = FilesTools!Path(e)'
                                     => tools'[d].tool # "overwrite"
                           => files'[FilesTools!Path(e)'].texts # << >>
                                  /\ files'[FilesTools!Path(e)'].texts[1] = e
      BY DEF FilesTools!CreatesOnce
    <2>1. /\ FilesTools!OpenedBy(e) /\ tools[e].tool = "create"
          /\ FilesTools!Path(e)' = FilesTools!Path(e) /\ FilesTools!Path(e) \in DOMAIN files
          /\ FilesTools!Path(e) # << >>
      BY <1>16 DEF FilesTools!OpenedBy
    <2>2. /\ FilesTools!Path(e) \notin DOMAIN FirstFiles
          /\ \A d \in ToolCalls \ {e} :
                FilesTools!OpenedBy(d) /\ FilesTools!Path(d) = FilesTools!Path(e)
                    => tools[d].tool # "create"
          /\ /\ tools[e].at = "done"
             /\ \A d \in ToolCalls \ {e} :
                   FilesTools!OpenedBy(d) /\ FilesTools!Path(d) = FilesTools!Path(e)
                       => tools[d].tool # "overwrite"
             => files[FilesTools!Path(e)].texts # << >> /\ files[FilesTools!Path(e)].texts[1] = e
      BY <2>1 DEF FilesTools!CreatesOnce
    <2>3. ASSUME tools'[e].at = "done",
                 \A d \in ToolCalls \ {e} :
                     FilesTools!OpenedBy(d)' /\ FilesTools!Path(d)' = FilesTools!Path(e)'
                         => tools'[d].tool # "overwrite"
          PROVE  files'[FilesTools!Path(e)].texts # << >>
                     /\ files'[FilesTools!Path(e)].texts[1] = e
      <3>1. CASE e = c
        BY <1>5, <1>7, <1>17, <2>1, <3>1
      <3>2. CASE e # c
        <4>1. tools[e].at = "done"
          BY <1>6, <2>3, <3>2
        <4>2. \A d \in ToolCalls \ {e} :
                FilesTools!OpenedBy(d) /\ FilesTools!Path(d) = FilesTools!Path(e)
                    => tools[d].tool # "overwrite"
          BY <1>16, <2>1, <2>3
        <4>3. files[FilesTools!Path(e)].texts # << >> /\ files[FilesTools!Path(e)].texts[1] = e
          BY <2>2, <4>1, <4>2
        <4>4. CASE FilesTools!Path(e) # real
          BY <1>7, <2>1, <4>3, <4>4
        <4>5. CASE FilesTools!Path(e) = real
          <5>1. tools[c].tool \notin {"create", "overwrite"}
            BY <1>17, <2>1, <2>2, <3>2, <4>2, <4>5
          <5>2. held = Append(files[real].texts, c)
            BY <1>4, <1>5, <5>1 DEF FilesTools!Modes
          <5>3. files[real].texts # << >> /\ files[real].texts[1] = e
            BY <4>3, <4>5
          <5>4. held # << >> /\ held[1] = e
            BY <1>4, <5>2, <5>3
          <5> QED
            BY <1>7, <4>5, <5>4
        <4> QED
          BY <4>4, <4>5
      <3> QED
        BY <3>1, <3>2
    <2>4. \A d \in ToolCalls \ {e} :
              FilesTools!OpenedBy(d)' /\ FilesTools!Path(d)' = FilesTools!Path(e)'
                  => tools'[d].tool # "create"
      BY <1>16, <2>1, <2>2
    <2> QED
      BY <2>1, <2>2, <2>3, <2>4
  <1>19. BinaryKept'
    <2>1. ASSUME NEW p, Binary(p), files[p].kind = "binary"
          PROVE  files'[p].kind = "binary" \/ FilesTools!Replaced(p)'
      <3>1. p \in DOMAIN files /\ p \in DOMAIN FirstFiles /\ p # << >>
        BY <2>1 DEF FilesStay, Binary, FilesTools!NoTextAtFirst
      <3>2. CASE p # real
        BY <1>7, <2>1, <3>1, <3>2
      <3>3. CASE p = real /\ tools[c].tool = "append"
        BY <1>3, <1>7, <2>1, <3>3 DEF FilesTools!KindsAfter
      <3>4. CASE p = real /\ tools[c].tool = "create"
        BY <1>17, <3>1, <3>4 DEF FilesTools!CreatesOnce
      <3>5. CASE p = real /\ tools[c].tool = "overwrite"
        BY <1>6, <1>16, <1>17, <3>1, <3>5 DEF FilesTools!Replaced
      <3> QED
        BY <1>4, <3>2, <3>3, <3>4, <3>5 DEF FilesTools!Modes
    <2>2. \A d \in ToolCalls : FilesTools!OpenedBy(d) =>
              /\ FilesTools!OpenedBy(d)' /\ FilesTools!Path(d)' = FilesTools!Path(d)
              /\ tools'[d].tool = tools[d].tool
      BY <1>16
    <2>3. \A d \in ToolCalls : Appends(d)' => Appends(d) /\ tools'[d].real = tools[d].real
      BY <1>2, <1>6, <1>10 DEF Appends
    <2> QED
      BY <2>1, <2>2, <2>3, BinaryStep
  <1> QED
    BY <1>9, <1>11, <1>12, <1>13, <1>18, <1>19

LEMMA FilesNextInv == FilesInv /\ [FilesTools!FilesNext]_filesVars => FilesInv'
  <1> SUFFICES ASSUME FilesInv, [FilesTools!FilesNext]_filesVars PROVE FilesInv'
    OBVIOUS
  <1>1. CASE UNCHANGED filesVars
    <2>1. UNCHANGED << dirs, files, tools >>
      BY <1>1 DEF filesVars
    <2>2. FilesTypes'
      BY <2>1 DEF FilesInv, FilesTypes
    <2>3. ShownInside' /\ WritesInside'
      <3>1. \A p : FilesTools!Allowed(p)' = FilesTools!Allowed(p)
        BY DEF FilesTools!Allowed
      <3> QED
        BY <2>1, <3>1 DEF FilesInv, ShownInside, WritesInside, Writes
    <2>4. FilesStay' /\ BinaryKept'
      BY <2>1 DEF FilesInv, FilesStay, BinaryKept, StaysBinary, AppendsSeen, Appends, Past,
                  Writes, FilesTools!Replaced, FilesTools!OpenedBy, FilesTools!Path
    <2>5. FilesTools!CreatesOnce'
      BY <2>1 DEF FilesInv, FilesTools!CreatesOnce, FilesTools!OpenedBy, FilesTools!Path
    <2> QED
      BY <2>2, <2>3, <2>4, <2>5 DEF FilesInv
  <1>2. ASSUME NEW c \in ToolCalls, FilesTools!Tool(c) PROVE FilesInv'
    BY <1>2, ReadsKeeps, ChecksKeeps, OpenKeeps, WriteKeeps, InterruptedKeeps DEF FilesTools!Tool
  <1> QED
    BY <1>1, <1>2 DEF FilesTools!FilesNext

LEMMA FilesFollow == FilesInv => FilesTools!FilesKept
  <1> SUFFICES ASSUME FilesInv PROVE FilesTools!FilesKept
    OBVIOUS
  <1> USE DEF FilesInv
  <1>1. FilesTools!InsideWhitelist
    <2>1. \A c \in ToolCalls : FilesTools!OpenedBy(c) => FilesTools!Allowed(FilesTools!Path(c)) = 2
      BY OpenedIsPast DEF WritesInside, Past
    <2> QED
      BY <2>1 DEF FilesTools!InsideWhitelist, ShownInside, FilesTools!NONE, FilesTools!WRITE
  <1>2. FilesTools!BinaryUntouched
    BY OpenedIsPast
       DEF FilesTools!BinaryUntouched, BinaryKept, AppendsSeen, Appends, Past, Binary
  <1> QED
    BY <1>1, <1>2 DEF FilesTools!FilesKept

FilesPartInv == part = "files" => FilesInv

(* extensions/files, its tools in threads: whatever is a link to what and  *)
(* however the calls of the operating system interleave, only what is      *)
(* below a whitelisted directory is shown and only below a writable one    *)
(* opened, of overlapping creates one succeeds and keeps its text, and a   *)
(* file that was no text at first is not appended to unless an overwrite   *)
(* opened it before.                                                       *)
THEOREM FilesSound == Spec => []FilesKept
  <1>1. Init => FilesPartInv
    BY FilesInitInv DEF Init, FilesPartInv
  <1>2. FilesPartInv /\ [Next]_vars => FilesPartInv'
    BY FilesNextInv DEF FilesPartInv, Next, vars
  <1>3. FilesPartInv => FilesKept
    BY FilesFollow DEF FilesPartInv, FilesKept
  <1> QED
    BY <1>1, <1>2, <1>3, PTL DEF Spec
-----------------------------------------------------------------------------
(* Walks up the folders, as a run has seen them.                           *)

OnList == read_only_folders \cup writable_folders
EndsListed(view, n, d) == Drive!EndsIn(view, n, d, OnList)

\* The parents of one more folder become known.
Grows(view, more, folder) ==
    /\ folder \notin DOMAIN view /\ DOMAIN more = DOMAIN view \cup {folder}
    /\ \A x \in DOMAIN view : more[x] = view[x]

LEMMA WalkBegins ==
    ASSUME NEW view, NEW n \in Nodes, NEW d \in Nat, NEW p \in Drive!Chains(view, n, d),
           NEW k \in 0 .. d
    PROVE  [i \in 0 .. k |-> p[i]] \in Drive!Chains(view, n, k)
  BY DEF Drive!Chains

LEMMA WalkGoesOn ==
    ASSUME NEW view, NEW n \in Nodes, NEW d \in Nat, NEW p \in Drive!Chains(view, n, d),
           p[d] \in DOMAIN view, NEW x \in view[p[d]], x \in Nodes
    PROVE  \E q \in Drive!Chains(view, n, d + 1) : q[d + 1] = x
  <1> DEFINE q == [i \in 0 .. d + 1 |-> IF i = d + 1 THEN x ELSE p[i]]
  <1>1. p \in [0 .. d -> Nodes] /\ p[0] = n
        /\ \A k \in 1 .. d : p[k - 1] \in DOMAIN view /\ p[k] \in view[p[k - 1]]
    BY DEF Drive!Chains
  <1>2. q \in [0 .. d + 1 -> Nodes] /\ q[0] = n /\ q[d + 1] = x
    BY <1>1
  <1>3. \A k \in 1 .. d + 1 : q[k - 1] \in DOMAIN view /\ q[k] \in view[q[k - 1]]
    <2> SUFFICES ASSUME NEW k \in 1 .. d + 1
                 PROVE  q[k - 1] \in DOMAIN view /\ q[k] \in view[q[k - 1]]
      OBVIOUS
    <2>1. k - 1 \in 0 .. d /\ q[k - 1] = p[k - 1]
      OBVIOUS
    <2>2. CASE k = d + 1
      BY <1>2, <2>1, <2>2
    <2>3. CASE k # d + 1
      <3>1. k \in 1 .. d /\ q[k] = p[k]
        BY <2>3
      <3> QED
        BY <1>1, <2>1, <3>1
    <2> QED
      BY <2>2, <2>3
  <1>4. q \in Drive!Chains(view, n, d + 1)
    BY <1>2, <1>3 DEF Drive!Chains
  <1> QED
    BY <1>2, <1>4

\* Walks of length d that do not come by the new folder on their way are those
\* there were.
LEMMA SameWalks ==
    ASSUME NEW view, NEW more, NEW folder, Grows(view, more, folder),
           NEW n \in Nodes, NEW d \in Nat,
           \A e \in 0 .. d - 1 : \A p \in Drive!Chains(view, n, e) : p[e] # folder
    PROVE  Drive!Chains(more, n, d) = Drive!Chains(view, n, d)
  <1>1. ASSUME NEW p \in Drive!Chains(view, n, d) PROVE p \in Drive!Chains(more, n, d)
    BY DEF Drive!Chains, Grows
  <1>2. ASSUME NEW p \in Drive!Chains(more, n, d) PROVE p \in Drive!Chains(view, n, d)
    <2> DEFINE Met == {k \in 0 .. d - 1 : p[k] = folder}
    <2>1. p \in [0 .. d -> Nodes] /\ p[0] = n
          /\ \A k \in 1 .. d : p[k - 1] \in DOMAIN more /\ p[k] \in more[p[k - 1]]
      BY DEF Drive!Chains
    <2>2. ASSUME NEW e \in 0 .. d, \A k \in 0 .. e - 1 : p[k] # folder
          PROVE  [i \in 0 .. e |-> p[i]] \in Drive!Chains(view, n, e)
      <3> DEFINE q == [i \in 0 .. e |-> p[i]]
      <3>1. q \in [0 .. e -> Nodes] /\ q[0] = n
        BY <2>1
      <3>2. ASSUME NEW k \in 1 .. e PROVE q[k - 1] \in DOMAIN view /\ q[k] \in view[q[k - 1]]
        <4>1. k \in 1 .. d /\ k - 1 \in 0 .. e - 1 /\ q[k - 1] = p[k - 1] /\ q[k] = p[k]
          OBVIOUS
        <4>2. p[k - 1] \in DOMAIN more /\ p[k] \in more[p[k - 1]] /\ p[k - 1] # folder
          BY <2>1, <2>2, <4>1
        <4> QED
          BY <4>1, <4>2 DEF Grows
      <3> QED
        BY <3>1, <3>2 DEF Drive!Chains
    <2>3. CASE Met = {}
      <3>1. \A k \in 0 .. d - 1 : p[k] # folder
        BY <2>3
      <3>2. [i \in 0 .. d |-> p[i]] = p
        BY <2>1
      <3> QED
        BY <2>2, <3>1, <3>2
    <2>4. CASE Met # {}
      <3>1. Met \subseteq Nat
        OBVIOUS
      <3>2. PICK e \in Met : \A k \in Met : e <= k
        BY <2>4, <3>1, Least
      <3>3. e \in 0 .. d - 1 /\ p[e] = folder /\ \A k \in 0 .. e - 1 : p[k] # folder
        BY <3>2
      <3>4. [i \in 0 .. e |-> p[i]] \in Drive!Chains(view, n, e)
        BY <2>2, <3>3
      <3>5. [i \in 0 .. e |-> p[i]][e] = folder
        BY <3>3
      <3> QED
        BY <3>3, <3>4, <3>5
    <2> QED
      BY <2>3, <2>4
  <1> QED
    BY <1>1, <1>2

-----------------------------------------------------------------------------
(* The nearest folder of the whitelist.                                    *)

LEMMA NearestFound ==
    ASSUME NEW view, NEW n, NEW d \in 0 .. MAX_ANCESTOR_DEPTH - 1, EndsListed(view, n, d),
           \A e \in 0 .. d - 1 : ~EndsListed(view, n, e)
    PROVE  /\ Drive!EndsIn(view, n, d, read_only_folders) => Drive!Nearest(view, n) = 1
           /\ ~Drive!EndsIn(view, n, d, read_only_folders) => Drive!Nearest(view, n) = 2
  <1> DEFINE Near == {e \in 0 .. MAX_ANCESTOR_DEPTH - 1 : EndsListed(view, n, e)}
             first == CHOOSE e \in Near : \A k \in Near : e <= k
  <1>1. MAX_ANCESTOR_DEPTH \in Nat \ {0}
    BY ServicesConfigured DEF Drive!DriveConfigured
  <1>2. d \in Near /\ \A e \in Near : e \in Nat /\ d <= e
    BY <1>1
  <1>3. first \in Near /\ \A k \in Near : first <= k
    <2> HIDE DEF Near
    <2> QED
      BY <1>2
  <1>4. first = d
    BY <1>1, <1>2, <1>3
  <1>5. Drive!Nearest(view, n) =
            IF Near = {} THEN 0
            ELSE IF Drive!EndsIn(view, n, first, read_only_folders) THEN 1 ELSE 2
    BY DEF Drive!Nearest, EndsListed, OnList, Drive!NONE, Drive!READ, Drive!WRITE
  <1> HIDE DEF Near, first
  <1> QED
    BY <1>2, <1>4, <1>5

LEMMA NearestMissing ==
    ASSUME NEW view, NEW n, \A d \in 0 .. MAX_ANCESTOR_DEPTH - 1 : ~EndsListed(view, n, d)
    PROVE  Drive!Nearest(view, n) = 0
  BY DEF Drive!Nearest, EndsListed, OnList, Drive!NONE

\* What a run has seen is enough to know the access to n: all folders on the
\* way are known, as far as the climb goes or until one is listed.
Settled(view, n) ==
    \E d \in 0 .. MAX_ANCESTOR_DEPTH - 1 :
        /\ \A e \in 0 .. d - 1 : \A p \in Drive!Chains(view, n, e) : p[e] \in DOMAIN view
        /\ d = MAX_ANCESTOR_DEPTH - 1 \/ EndsListed(view, n, d)

LEMMA SettledGrows ==
    ASSUME NEW view, NEW more, NEW folder, Grows(view, more, folder),
           NEW n \in Nodes, Settled(view, n)
    PROVE  Settled(more, n) /\ Drive!Nearest(more, n) = Drive!Nearest(view, n)
  <1>1. MAX_ANCESTOR_DEPTH \in Nat \ {0}
    BY ServicesConfigured DEF Drive!DriveConfigured
  <1>2. PICK d \in 0 .. MAX_ANCESTOR_DEPTH - 1 :
            /\ \A e \in 0 .. d - 1 : \A p \in Drive!Chains(view, n, e) : p[e] \in DOMAIN view
            /\ d = MAX_ANCESTOR_DEPTH - 1 \/ EndsListed(view, n, d)
    BY DEF Settled
  <1>3. ASSUME NEW e \in 0 .. d PROVE Drive!Chains(more, n, e) = Drive!Chains(view, n, e)
    <2>1. e \in Nat /\ \A k \in 0 .. e - 1 : k \in 0 .. d - 1
      BY <1>1
    <2>2. \A k \in 0 .. e - 1 : \A p \in Drive!Chains(view, n, k) : p[k] # folder
      BY <1>2, <2>1 DEF Grows
    <2> QED
      BY <2>1, <2>2, SameWalks
  <1>4. ASSUME NEW e \in 0 .. d, NEW folders
        PROVE  Drive!EndsIn(more, n, e, folders) <=> Drive!EndsIn(view, n, e, folders)
    BY <1>3 DEF Drive!EndsIn
  <1>5. \A e \in 0 .. d : EndsListed(more, n, e) <=> EndsListed(view, n, e)
    BY <1>4 DEF EndsListed
  <1>6. Settled(more, n)
    <2>1. \A e \in 0 .. d - 1 : e \in 0 .. d
      BY <1>1
    <2>2. \A e \in 0 .. d - 1 : \A p \in Drive!Chains(more, n, e) : p[e] \in DOMAIN more
      BY <1>2, <1>3, <2>1 DEF Grows
    <2>3. d \in 0 .. d
      BY <1>1
    <2> QED
      BY <1>2, <1>5, <2>2, <2>3 DEF Settled
  <1> DEFINE Near == {e \in 0 .. d : EndsListed(view, n, e)}
  <1>7. CASE Near = {}
    <2>1. d \in 0 .. d
      BY <1>1
    <2>2. d = MAX_ANCESTOR_DEPTH - 1
      BY <1>2, <1>7, <2>1
    <2>3. \A e \in 0 .. MAX_ANCESTOR_DEPTH - 1 : ~EndsListed(view, n, e) /\ ~EndsListed(more, n, e)
      BY <1>5, <1>7, <2>2
    <2> QED
      BY <1>6, <2>3, NearestMissing
  <1>8. CASE Near # {}
    <2>1. Near \subseteq Nat
      BY <1>1
    <2>2. PICK e \in Near : \A k \in Near : e <= k
      BY <1>8, <2>1, Least
    <2>3. e \in 0 .. d /\ e \in 0 .. MAX_ANCESTOR_DEPTH - 1 /\ EndsListed(view, n, e)
          /\ \A k \in 0 .. e - 1 : k \in 0 .. d /\ ~EndsListed(view, n, k)
      <3>1. e \in 0 .. d /\ EndsListed(view, n, e)
        BY <2>2
      <3>2. \A k \in 0 .. e - 1 : k \in 0 .. d /\ ~(e <= k)
        BY <1>1, <3>1
      <3>3. e \in 0 .. MAX_ANCESTOR_DEPTH - 1
        BY <1>1, <3>1
      <3> QED
        BY <2>2, <3>1, <3>2, <3>3
    <2>4. EndsListed(more, n, e) /\ \A k \in 0 .. e - 1 : ~EndsListed(more, n, k)
      BY <1>5, <2>3
    <2>5. Drive!EndsIn(more, n, e, read_only_folders)
              <=> Drive!EndsIn(view, n, e, read_only_folders)
      BY <1>4, <2>3
    <2> QED
      BY <1>6, <2>3, <2>4, <2>5, NearestFound
  <1> QED
    BY <1>7, <1>8

-----------------------------------------------------------------------------
(* AccessResolver.resolve.                                                 *)

\* The climb from n is at this level: shorter walks end in folders that are
\* known, not listed and have all their parents among the seen ones, and the
\* frontier can be reached in as many steps.
Climbing(view, n, frontier, seen, level) ==
    /\ n \in seen /\ seen \subseteq Nodes /\ frontier \subseteq seen
    /\ level \in 0 .. MAX_ANCESTOR_DEPTH - 1
    /\ \A f \in frontier : \E p \in Drive!Chains(view, n, level) : p[level] = f
    /\ \A d \in 0 .. level - 1 : \A p \in Drive!Chains(view, n, d) : p[d] \in seen \ frontier
    /\ \A s \in seen \ frontier : s \in DOMAIN view /\ s \notin OnList /\ view[s] \subseteq seen

LEMMA ClimbBegins ==
    ASSUME NEW view, NEW n \in Nodes
    PROVE  Climbing(view, n, {n}, {n}, 0)
  <1>1. [i \in 0 .. 0 |-> n] \in Drive!Chains(view, n, 0) /\ [i \in 0 .. 0 |-> n][0] = n
    BY DEF Drive!Chains
  <1>2. 0 \in 0 .. MAX_ANCESTOR_DEPTH - 1
    BY ServicesConfigured DEF Drive!DriveConfigured
  <1>3. \E p \in Drive!Chains(view, n, 0) : p[0] = n
    BY <1>1
  <1> QED
    BY <1>2, <1>3 DEF Climbing

LEMMA ClimbKnowsMore ==
    ASSUME NEW view, NEW more, NEW folder, Grows(view, more, folder), NEW n,
           NEW frontier, NEW seen, NEW level, Climbing(view, n, frontier, seen, level),
           folder \in frontier
    PROVE  Climbing(more, n, frontier, seen, level)
  <1>1. n \in Nodes /\ level \in Nat
    BY ServicesConfigured DEF Climbing, Drive!DriveConfigured
  <1>2. ASSUME NEW d \in 0 .. level PROVE Drive!Chains(more, n, d) = Drive!Chains(view, n, d)
    <2>1. d \in Nat /\ \A e \in 0 .. d - 1 : e \in 0 .. level - 1
      BY <1>1
    <2>2. \A e \in 0 .. d - 1 : \A p \in Drive!Chains(view, n, e) : p[e] # folder
      BY <2>1 DEF Climbing
    <2> QED
      BY <1>1, <2>1, <2>2, SameWalks
  <1>3. level \in 0 .. level /\ \A d \in 0 .. level - 1 : d \in 0 .. level
    BY <1>1
  <1>4. \A s \in seen \ frontier : s \in DOMAIN more /\ more[s] = view[s]
    BY DEF Climbing, Grows
  <1> QED
    BY <1>2, <1>3, <1>4 DEF Climbing

\* Walks up to the level end among the seen ones.
LEMMA WalksSeen ==
    ASSUME NEW view, NEW n, NEW frontier, NEW seen, NEW level,
           Climbing(view, n, frontier, seen, level),
           NEW d \in 0 .. level, NEW p \in Drive!Chains(view, n, d)
    PROVE  p[d] \in seen
  <1>1. n \in Nodes /\ level \in Nat
    BY ServicesConfigured DEF Climbing, Drive!DriveConfigured
  <1>2. CASE d = 0
    BY <1>2 DEF Drive!Chains, Climbing
  <1>3. CASE d # 0
    <2>1. d - 1 \in 0 .. level - 1 /\ d - 1 \in 0 .. d /\ d \in 1 .. d /\ d \in Nat
      BY <1>1, <1>3
    <2>2. p[d] \in view[p[d - 1]]
      BY <2>1 DEF Drive!Chains
    <2>3. [i \in 0 .. d - 1 |-> p[i]] \in Drive!Chains(view, n, d - 1)
      BY <1>1, <2>1, WalkBegins
    <2>4. [i \in 0 .. d - 1 |-> p[i]][d - 1] = p[d - 1]
      BY <2>1
    <2>5. p[d - 1] \in seen \ frontier
      BY <2>1, <2>3, <2>4 DEF Climbing
    <2> QED
      BY <2>2, <2>5 DEF Climbing
  <1> QED
    BY <1>2, <1>3

LEMMA NothingBelow ==
    ASSUME NEW view, NEW n, NEW frontier, NEW seen, NEW level,
           Climbing(view, n, frontier, seen, level), NEW d \in 0 .. level - 1
    PROVE  ~EndsListed(view, n, d)
  BY DEF Climbing, EndsListed, Drive!EndsIn

\* A listed folder on the frontier is the nearest one.
LEMMA ClimbHits ==
    ASSUME NEW view, NEW n, NEW frontier, NEW seen, NEW level,
           Climbing(view, n, frontier, seen, level), Drive!Listed(frontier) # {}
    PROVE  Settled(view, n) /\ Drive!Nearest(view, n) = Drive!Hit(frontier)
  <1>1. n \in Nodes /\ level \in 0 .. MAX_ANCESTOR_DEPTH - 1 /\ level \in Nat
    BY ServicesConfigured DEF Climbing, Drive!DriveConfigured
  <1>2. EndsListed(view, n, level)
    BY DEF Climbing, EndsListed, Drive!EndsIn, Drive!Listed, OnList
  <1>3. Settled(view, n)
    BY <1>1, <1>2 DEF Settled, Climbing
  <1>4. Drive!EndsIn(view, n, level, read_only_folders)
            <=> Drive!Listed(frontier) \cap read_only_folders # {}
    <2>1. ASSUME NEW p \in Drive!Chains(view, n, level), p[level] \in read_only_folders
          PROVE  p[level] \in Drive!Listed(frontier) \cap read_only_folders
      <3>1. p[level] \in seen
        BY <1>1, WalksSeen
      <3>2. p[level] \in OnList
        BY <2>1 DEF OnList
      <3> QED
        BY <2>1, <3>1, <3>2 DEF Climbing, Drive!Listed, OnList
    <2>2. ASSUME NEW f \in frontier, f \in read_only_folders
          PROVE  Drive!EndsIn(view, n, level, read_only_folders)
      BY <2>2 DEF Climbing, Drive!EndsIn
    <2> QED
      BY <2>1, <2>2 DEF Drive!EndsIn, Drive!Listed
  <1>5. \A e \in 0 .. level - 1 : ~EndsListed(view, n, e)
    BY NothingBelow
  <1> QED
    BY <1>1, <1>2, <1>3, <1>4, <1>5, NearestFound DEF Drive!Hit, Drive!READ, Drive!WRITE

Above(view, frontier, seen) == (UNION {view[f] : f \in frontier}) \ seen

\* There is none when the climb has no folder left, or no level.
LEMMA ClimbMisses ==
    ASSUME NEW view, NEW n, NEW frontier, NEW seen, NEW level,
           Climbing(view, n, frontier, seen, level), Drive!Listed(frontier) = {},
           frontier \subseteq DOMAIN view,
           Above(view, frontier, seen) = {} \/ level + 1 = MAX_ANCESTOR_DEPTH
    PROVE  Settled(view, n) /\ Drive!Nearest(view, n) = 0
  <1> DEFINE last == MAX_ANCESTOR_DEPTH - 1
  <1>1. n \in Nodes /\ level \in 0 .. last /\ level \in Nat /\ last \in Nat
    BY ServicesConfigured DEF Climbing, Drive!DriveConfigured
  <1>2. \A s \in seen : s \in DOMAIN view /\ s \notin OnList
    BY DEF Climbing, Drive!Listed, OnList
  <1>3. ASSUME NEW d \in 0 .. last, NEW p \in Drive!Chains(view, n, d) PROVE p[d] \in seen
    <2>1. CASE level = last
      BY <1>1, <2>1, WalksSeen
    <2>2. CASE level # last
      <3>1. Above(view, frontier, seen) = {}
        BY <1>1, <2>2
      <3>2. \A s \in seen : view[s] \subseteq seen
        <4>1. \A s \in frontier : view[s] \subseteq seen
          BY <3>1 DEF Above
        <4> QED
          BY <4>1 DEF Climbing
      <3>3. p[0] = n /\ \A k \in 1 .. d : p[k] \in view[p[k - 1]]
        BY DEF Drive!Chains
      <3> DEFINE Out == {k \in 0 .. d : p[k] \notin seen}
      <3>4. Out = {}
        <4> SUFFICES ASSUME Out # {} PROVE FALSE
          OBVIOUS
        <4>1. Out \subseteq Nat
          BY <1>1
        <4>2. PICK k \in Out : \A j \in Out : k <= j
          BY <4>1, Least
        <4>3. k # 0
          BY <3>3, <4>2 DEF Climbing
        <4>4. k \in 1 .. d /\ k - 1 \in 0 .. d /\ ~(k <= k - 1)
          BY <1>1, <4>2, <4>3
        <4>5. p[k - 1] \in seen
          BY <4>2, <4>4
        <4> QED
          BY <3>2, <3>3, <4>2, <4>4, <4>5
      <3>5. d \in 0 .. d
        BY <1>1
      <3> QED
        BY <3>4, <3>5
    <2> QED
      BY <2>1, <2>2
  <1>4. \A d \in 0 .. last : ~EndsListed(view, n, d)
    BY <1>2, <1>3 DEF EndsListed, Drive!EndsIn
  <1>5. Settled(view, n)
    <2>1. last \in 0 .. last /\ \A e \in 0 .. last - 1 : e \in 0 .. last
      BY <1>1
    <2>2. \A e \in 0 .. last - 1 : \A p \in Drive!Chains(view, n, e) : p[e] \in DOMAIN view
      BY <1>2, <1>3, <2>1
    <2> QED
      BY <2>1, <2>2 DEF Settled
  <1> QED
    BY <1>4, <1>5, NearestMissing

LEMMA ClimbGoesUp ==
    ASSUME NEW view, NEW n, NEW frontier, NEW seen, NEW level,
           Climbing(view, n, frontier, seen, level), Drive!Listed(frontier) = {},
           frontier \subseteq DOMAIN view, \A x \in DOMAIN view : view[x] \subseteq Nodes,
           level + 1 # MAX_ANCESTOR_DEPTH
    PROVE  Climbing(view, n, Above(view, frontier, seen), seen \cup Above(view, frontier, seen),
                    level + 1)
  <1> DEFINE above == Above(view, frontier, seen)
  <1>1. n \in Nodes /\ level \in Nat /\ level + 1 \in 0 .. MAX_ANCESTOR_DEPTH - 1
    BY ServicesConfigured DEF Climbing, Drive!DriveConfigured
  <1>2. above \subseteq Nodes /\ above \cap seen = {}
    BY DEF Above
  <1>3. ASSUME NEW x \in above PROVE \E p \in Drive!Chains(view, n, level + 1) : p[level + 1] = x
    <2>1. PICK f \in frontier : x \in view[f]
      BY DEF Above
    <2>2. PICK p \in Drive!Chains(view, n, level) : p[level] = f
      BY DEF Climbing
    <2> QED
      BY <1>1, <1>2, <2>1, <2>2, WalkGoesOn
  <1>4. \A d \in 0 .. (level + 1) - 1 : \A p \in Drive!Chains(view, n, d) :
            p[d] \in (seen \cup above) \ above
    <2>1. \A d \in 0 .. (level + 1) - 1 : d \in 0 .. level
      BY <1>1
    <2>2. \A d \in 0 .. (level + 1) - 1 : \A p \in Drive!Chains(view, n, d) : p[d] \in seen
      BY <2>1, WalksSeen
    <2> QED
      BY <1>2, <2>2
  <1>5. \A s \in (seen \cup above) \ above :
            s \in DOMAIN view /\ s \notin OnList /\ view[s] \subseteq seen \cup above
    <2>1. \A s \in frontier : s \in DOMAIN view /\ s \notin OnList /\ view[s] \subseteq seen \cup above
      BY DEF Above, Drive!Listed, OnList
    <2> QED
      BY <2>1 DEF Climbing
  <1> HIDE DEF above
  <1>6. Climbing(view, n, above, seen \cup above, level + 1)
    BY <1>1, <1>2, <1>3, <1>4, <1>5 DEF Climbing
  <1> QED
    BY <1>6 DEF above

-----------------------------------------------------------------------------
(* The runs.                                                               *)

\* Whatever has been found out is settled by what has been seen.
Judged(r) ==
    /\ {"tool", "view", "todo"} \subseteq DOMAIN r /\ r.todo \subseteq Nodes
    /\ DOMAIN r.view \subseteq Nodes /\ \A n \in DOMAIN r.view : r.view[n] \subseteq Nodes
    /\ DOMAIN r.access \subseteq Nodes
    /\ \A n \in DOMAIN r.access :
          Settled(r.view, n) /\ r.access[n] = Drive!Nearest(r.view, n)

OnTheWay(r) ==
    /\ {"node", "frontier", "seen", "level"} \subseteq DOMAIN r
    /\ Climbing(r.view, r.node, r.frontier, r.seen, r.level)

MaySend(r) ==
    /\ "node" \in DOMAIN r /\ r.node \in DOMAIN r.access
    /\ r.access[r.node] >= IF r.tool \in {"overwrite", "create"} THEN 2 ELSE 1

RunOK(r) ==
    /\ "at" \in DOMAIN r
    /\ r.at = "metadata" =>
           {"tool", "node"} \subseteq DOMAIN r /\ r.node \in Nodes /\ "access" \notin DOMAIN r
    /\ r.at \in {"resolve", "next", "send", "sent"} => "access" \in DOMAIN r
    /\ "access" \in DOMAIN r => Judged(r)
    /\ r.at = "resolve" => OnTheWay(r)
    /\ r.at \in {"send", "sent"} => MaySend(r)

DriveInv ==
    /\ parents \in [Nodes -> SUBSET Nodes]
    /\ runs = [c \in ToolCalls |-> runs[c]]
    /\ \A c \in ToolCalls : RunOK(runs[c])

\* What a run holds stays as good when it only gets to another place.
LEMMA MovesOn ==
    ASSUME NEW r, RunOK(r), NEW at \in {"refused", "failed", "done", "sent"},
           at = "sent" => r.at = "send"
    PROVE  RunOK(Drive!Updated(r, [at |-> at]))
  <1> DEFINE new == Drive!Updated(r, [at |-> at])
  <1>1. /\ DOMAIN new = DOMAIN r /\ new.at = at
        /\ \A x \in DOMAIN r : x # "at" => new[x] = r[x]
    <2>1. DOMAIN [at |-> at] = {"at"} /\ [at |-> at].at = at
      OBVIOUS
    <2> QED
      BY <2>1 DEF RunOK, Drive!Updated
  <1> HIDE DEF new
  <1>2. "tool" \in DOMAIN r => new.tool = r.tool
    BY <1>1
  <1>3. "node" \in DOMAIN r => new.node = r.node
    BY <1>1
  <1>4. "access" \in DOMAIN r => new.access = r.access
    BY <1>1
  <1>5. Judged(r) => new.view = r.view /\ new.todo = r.todo
    BY <1>1 DEF Judged
  <1>6. "access" \in DOMAIN new => Judged(new)
    BY <1>1, <1>2, <1>4, <1>5 DEF RunOK, Judged
  <1>7. new.at \in {"send", "sent"} => "access" \in DOMAIN new /\ MaySend(new)
    BY <1>1, <1>2, <1>3, <1>4 DEF RunOK, MaySend, Judged
  <1> QED
    BY <1>1, <1>6, <1>7 DEF RunOK, new

LEMMA StepKeeps ==
    ASSUME DriveInv, UNCHANGED parents, NEW c \in ToolCalls, NEW new, RunOK(new),
           runs' = [runs EXCEPT ![c] = new]
    PROVE  DriveInv'
  BY DEF DriveInv

LEMMA MovesOnKeeps ==
    ASSUME DriveInv, UNCHANGED parents, NEW c \in ToolCalls,
           NEW at \in {"refused", "failed", "done", "sent"}, at = "sent" => runs[c].at = "send",
           Drive!Steps(c, [at |-> at])
    PROVE  DriveInv'
  <1>1. RunOK(runs[c])
    BY DEF DriveInv
  <1> QED
    BY <1>1, MovesOn, StepKeeps DEF Drive!Steps

LEMMA ToolStartsKeeps ==
    ASSUME DriveInv, NEW c \in ToolCalls, NEW tool \in Drive!Tools, NEW n \in Nodes,
           Drive!ToolStarts(c, tool, n)
    PROVE  DriveInv'
  <1> DEFINE empty == [at |-> IF tool = "search" THEN "done" ELSE "refused", tool |-> tool]
             full == [at |-> "metadata", tool |-> tool, node |-> n]
  <1>1. RunOK(empty) /\ RunOK(full)
    BY DEF RunOK
  <1>2. UNCHANGED parents /\ (\/ runs' = [runs EXCEPT ![c] = empty]
                              \/ runs' = [runs EXCEPT ![c] = full])
    BY DEF Drive!ToolStarts
  <1> QED
    BY <1>1, <1>2, StepKeeps

LEMMA MetadataKeeps ==
    ASSUME DriveInv, NEW c \in ToolCalls, Drive!get_metadata(c)
    PROVE  DriveInv'
  <1> DEFINE r == runs[c]
             n == r.node
             view == [x \in {n} |-> parents[n]]
             found == [view |-> view, access |-> << >>, todo |-> {}]
             begun == Drive!Updated(Drive!Resolving(n), found)
             new == Drive!Updated(r, begun)
  <1>1. UNCHANGED parents
    BY DEF Drive!get_metadata
  <1>2. "at" \in DOMAIN r /\ "tool" \in DOMAIN r /\ n \in Nodes /\ parents[n] \subseteq Nodes
    BY DEF DriveInv, RunOK, Drive!get_metadata
  <1>3. /\ DOMAIN begun = {"at", "node", "frontier", "seen", "level", "view", "access", "todo"}
        /\ begun.at = "resolve" /\ begun.node = n /\ begun.frontier = {n} /\ begun.seen = {n}
        /\ begun.level = 0 /\ begun.view = view /\ begun.access = << >> /\ begun.todo = {}
    BY DEF Drive!Updated, Drive!Resolving
  <1> HIDE DEF begun
  <1>4. /\ DOMAIN new = DOMAIN r \cup DOMAIN begun
        /\ new.at = "resolve" /\ new.node = n /\ new.frontier = {n} /\ new.seen = {n}
        /\ new.level = 0 /\ new.view = view /\ new.access = << >> /\ new.todo = {}
    BY <1>3 DEF Drive!Updated
  <1> HIDE DEF new
  <1>5. Judged(new)
    BY <1>2, <1>3, <1>4 DEF Judged
  <1>6. OnTheWay(new)
    BY <1>2, <1>3, <1>4, ClimbBegins DEF OnTheWay
  <1>7. RunOK(new)
    BY <1>3, <1>4, <1>5, <1>6 DEF RunOK
  <1>8. CASE Drive!Steps(c, begun)
    BY <1>1, <1>7, <1>8, StepKeeps DEF Drive!Steps, new
  <1>9. CASE Drive!Steps(c, [at |-> "refused"])
    BY <1>1, <1>9, MovesOnKeeps
  <1>10. CASE Drive!Steps(c, [at |-> "failed"])
    BY <1>1, <1>10, MovesOnKeeps
  <1> QED
    BY <1>8, <1>9, <1>10 DEF Drive!get_metadata, begun

LEMMA SearchKeeps ==
    ASSUME DriveInv, NEW c \in ToolCalls, Drive!search_files(c)
    PROVE  DriveInv'
  <1> DEFINE r == runs[c]
             page == {n \in Nodes : Drive!Visible(n, "search")}
             found == [at |-> "next", todo |-> page, access |-> << >>,
                       view |-> [n \in page |-> parents[n]]]
             new == Drive!Updated(r, found)
  <1>1. UNCHANGED parents
    BY DEF Drive!search_files
  <1>2. "tool" \in DOMAIN r
    BY DEF DriveInv, RunOK, Drive!search_files
  <1>3. page \subseteq Nodes /\ \A n \in page : parents[n] \subseteq Nodes
    BY DEF DriveInv
  <1> HIDE DEF page
  <1>4. /\ DOMAIN new = DOMAIN r \cup {"at", "todo", "access", "view"}
        /\ new.at = "next" /\ new.todo = page /\ new.access = << >>
        /\ new.view = [n \in page |-> parents[n]]
    BY DEF Drive!Updated
  <1> HIDE DEF new
  <1>5. Judged(new)
    BY <1>2, <1>3, <1>4 DEF Judged
  <1>6. RunOK(new)
    BY <1>4, <1>5 DEF RunOK
  <1>7. CASE Drive!Steps(c, found)
    BY <1>1, <1>6, <1>7, StepKeeps DEF Drive!Steps, new
  <1>8. CASE Drive!Steps(c, [at |-> "failed"])
    BY <1>1, <1>8, MovesOnKeeps
  <1> QED
    BY <1>7, <1>8 DEF Drive!search_files, page

LEMMA NextFoundKeeps ==
    ASSUME DriveInv, NEW c \in ToolCalls, Drive!NextFound(c)
    PROVE  DriveInv'
  <1> DEFINE r == runs[c]
  <1>1. UNCHANGED parents /\ r.at = "next"
    BY DEF Drive!NextFound
  <1>2. RunOK(r) /\ "access" \in DOMAIN r /\ Judged(r)
    BY <1>1 DEF DriveInv, RunOK
  <1>3. ASSUME NEW n \in r.todo,
               Drive!Steps(c, Drive!Updated(Drive!Resolving(n), [todo |-> r.todo \ {n}]))
        PROVE  DriveInv'
    <2> DEFINE begun == Drive!Updated(Drive!Resolving(n), [todo |-> r.todo \ {n}])
               new == Drive!Updated(r, begun)
    <2>1. /\ DOMAIN begun = {"at", "node", "frontier", "seen", "level", "todo"}
          /\ begun.at = "resolve" /\ begun.node = n /\ begun.frontier = {n} /\ begun.seen = {n}
          /\ begun.level = 0 /\ begun.todo = r.todo \ {n}
      BY DEF Drive!Updated, Drive!Resolving
    <2> HIDE DEF begun
    <2>2. /\ DOMAIN new = DOMAIN r \cup DOMAIN begun
          /\ new.at = "resolve" /\ new.node = n /\ new.frontier = {n} /\ new.seen = {n}
          /\ new.level = 0 /\ new.todo = r.todo \ {n}
          /\ new.access = r.access /\ new.view = r.view
      BY <1>2, <2>1 DEF Judged, Drive!Updated
    <2> HIDE DEF new
    <2>3. n \in Nodes
      BY <1>2 DEF Judged
    <2>4. Judged(new)
      BY <1>2, <2>1, <2>2 DEF Judged
    <2>5. OnTheWay(new)
      BY <2>1, <2>2, <2>3, ClimbBegins DEF OnTheWay
    <2>6. RunOK(new)
      BY <1>2, <2>1, <2>2, <2>4, <2>5 DEF RunOK
    <2> QED
      BY <1>1, <1>3, <2>6, StepKeeps DEF Drive!Steps, new, begun
  <1>4. CASE Drive!Steps(c, [at |-> "done"])
    BY <1>1, <1>4, MovesOnKeeps
  <1> QED
    BY <1>3, <1>4 DEF Drive!NextFound

\* More is known: what was settled stays so.
LEMMA JudgedGrows ==
    ASSUME NEW r, Judged(r), NEW new, NEW folder \in Nodes, Grows(r.view, new.view, folder),
           new.view[folder] \subseteq Nodes, {"tool", "view", "todo"} \subseteq DOMAIN new,
           new.todo = r.todo, new.access = r.access
    PROVE  Judged(new)
  <1>1. \A n \in DOMAIN r.access :
            n \in Nodes /\ Settled(r.view, n) /\ r.access[n] = Drive!Nearest(r.view, n)
    BY DEF Judged
  <1>2. \A n \in DOMAIN r.access :
            Settled(new.view, n) /\ Drive!Nearest(new.view, n) = Drive!Nearest(r.view, n)
    BY <1>1, SettledGrows
  <1>3. DOMAIN new.view \subseteq Nodes /\ \A n \in DOMAIN new.view : new.view[n] \subseteq Nodes
    BY DEF Judged, Grows
  <1> QED
    BY <1>1, <1>2, <1>3 DEF Judged

LEMMA ParentsKeeps ==
    ASSUME DriveInv, NEW c \in ToolCalls, Drive!_parents_of(c)
    PROVE  DriveInv'
  <1> DEFINE r == runs[c]
  <1>1. UNCHANGED parents /\ r.at = "resolve"
    BY DEF Drive!_parents_of
  <1>2. RunOK(r) /\ "access" \in DOMAIN r /\ Judged(r) /\ OnTheWay(r)
    BY <1>1 DEF DriveInv, RunOK
  <1>3. r.frontier \subseteq Nodes
    BY <1>2 DEF OnTheWay, Climbing
  <1>4. ASSUME NEW n \in r.frontier \ DOMAIN r.view, NEW answer \in {parents[n], {}},
               Drive!Steps(c, [view |-> Drive!With(r.view, n, answer)])
        PROVE  DriveInv'
    <2> DEFINE view == Drive!With(r.view, n, answer)
               new == Drive!Updated(r, [view |-> view])
    <2>1. n \in Nodes /\ answer \subseteq Nodes
      BY <1>3 DEF DriveInv
    <2>2. Grows(r.view, view, n) /\ view[n] = answer
      BY DEF Grows, Drive!With, Drive!Updated
    <2> HIDE DEF view
    <2>3. DOMAIN new = DOMAIN r /\ new.view = view /\ new.at = "resolve"
          /\ new.todo = r.todo /\ new.access = r.access
      BY <1>1, <1>2 DEF Drive!Updated, RunOK, Judged
    <2>4. new.node = r.node /\ new.frontier = r.frontier /\ new.seen = r.seen
          /\ new.level = r.level
      BY <1>2 DEF Drive!Updated, OnTheWay
    <2> HIDE DEF new
    <2>5. Judged(new)
      BY <1>2, <2>1, <2>2, <2>3, JudgedGrows DEF Judged
    <2>6. OnTheWay(new)
      BY <1>2, <2>2, <2>3, <2>4, ClimbKnowsMore DEF OnTheWay
    <2>7. RunOK(new)
      BY <1>2, <2>3, <2>5, <2>6 DEF RunOK
    <2> QED
      BY <1>1, <1>4, <2>7, StepKeeps DEF Drive!Steps, new, view
  <1>5. CASE Drive!Steps(c, [at |-> "failed"])
    BY <1>1, <1>5, MovesOnKeeps
  <1> QED
    BY <1>4, <1>5 DEF Drive!_parents_of

LEMMA ResolvedKeeps ==
    ASSUME DriveInv, UNCHANGED parents, NEW c \in ToolCalls, runs[c].at = "resolve",
           NEW access \in 0 .. 2, Drive!Resolved(c, access),
           Settled(runs[c].view, runs[c].node),
           Drive!Nearest(runs[c].view, runs[c].node) = access
    PROVE  DriveInv'
  <1> DEFINE r == runs[c]
             tool == r.tool
             enough == IF tool \in {"overwrite", "create"} THEN access = 2 ELSE access # 0
             at == IF tool = "search" THEN "next" ELSE IF enough THEN "send" ELSE "refused"
             found == Drive!With(r.access, r.node, access)
             new == Drive!Updated(r, [access |-> found, at |-> at])
  <1>1. RunOK(r) /\ "access" \in DOMAIN r /\ Judged(r) /\ OnTheWay(r)
    BY DEF DriveInv, RunOK
  <1>2. r.node \in Nodes
    BY <1>1 DEF OnTheWay, Climbing
  <1>3. runs' = [runs EXCEPT ![c] = new]
    BY DEF Drive!Resolved, Drive!Steps, Drive!WRITE, Drive!NONE
  <1>4. /\ DOMAIN found = DOMAIN r.access \cup {r.node} /\ found[r.node] = access
        /\ \A n \in DOMAIN r.access : n # r.node => found[n] = r.access[n]
    BY DEF Drive!With, Drive!Updated
  <1>5. at \in {"next", "send", "refused"} /\ (at = "send" => enough)
    OBVIOUS
  <1> HIDE DEF found, at
  <1>6. DOMAIN new = DOMAIN r /\ new.access = found /\ new.at = at
        /\ new.view = r.view /\ new.todo = r.todo /\ new.tool = r.tool
    BY <1>1 DEF Drive!Updated, RunOK, Judged
  <1>7. new.node = r.node
    BY <1>1 DEF Drive!Updated, OnTheWay
  <1> HIDE DEF new
  <1>8. Judged(new)
    <2>1. \A n \in DOMAIN found :
              n \in Nodes /\ Settled(r.view, n) /\ found[n] = Drive!Nearest(r.view, n)
      BY <1>1, <1>2, <1>4 DEF Judged
    <2> QED
      BY <1>1, <1>6, <2>1 DEF Judged
  <1>9. at = "send" => MaySend(new)
    BY <1>1, <1>4, <1>5, <1>6, <1>7 DEF MaySend, OnTheWay
  <1>10. RunOK(new)
    BY <1>1, <1>5, <1>6, <1>8, <1>9 DEF RunOK
  <1> QED
    BY <1>3, <1>10, StepKeeps

LEMMA ClimbsKeeps ==
    ASSUME DriveInv, NEW c \in ToolCalls, Drive!Climbs(c)
    PROVE  DriveInv'
  <1> DEFINE r == runs[c]
             above == Above(r.view, r.frontier, r.seen)
  <1>1. UNCHANGED parents /\ r.at = "resolve"
    BY DEF Drive!Climbs
  <1>2. RunOK(r) /\ "access" \in DOMAIN r /\ Judged(r) /\ OnTheWay(r)
    BY <1>1 DEF DriveInv, RunOK
  <1>3. Climbing(r.view, r.node, r.frontier, r.seen, r.level)
    BY <1>2 DEF OnTheWay
  <1>4. CASE Drive!Listed(r.frontier) # {} /\ Drive!Resolved(c, Drive!Hit(r.frontier))
    <2>1. Settled(r.view, r.node) /\ Drive!Nearest(r.view, r.node) = Drive!Hit(r.frontier)
      BY <1>3, <1>4, ClimbHits
    <2>2. Drive!Hit(r.frontier) \in 0 .. 2
      BY DEF Drive!Hit, Drive!READ, Drive!WRITE
    <2> QED
      BY <1>1, <1>4, <2>1, <2>2, ResolvedKeeps
  <1>5. CASE /\ Drive!Listed(r.frontier) = {} /\ r.frontier \subseteq DOMAIN r.view
             /\ above = {} \/ r.level + 1 = MAX_ANCESTOR_DEPTH
             /\ Drive!Resolved(c, Drive!NONE)
    <2>1. Settled(r.view, r.node) /\ Drive!Nearest(r.view, r.node) = 0
      BY <1>3, <1>5, ClimbMisses
    <2> QED
      BY <1>1, <1>5, <2>1, ResolvedKeeps DEF Drive!NONE
  <1>6. CASE /\ Drive!Listed(r.frontier) = {} /\ r.frontier \subseteq DOMAIN r.view
             /\ r.level + 1 # MAX_ANCESTOR_DEPTH
             /\ Drive!Steps(c, [frontier |-> above, seen |-> r.seen \cup above,
                                level |-> r.level + 1])
    <2> DEFINE new == Drive!Updated(r, [frontier |-> above, seen |-> r.seen \cup above,
                                        level |-> r.level + 1])
    <2>1. Climbing(r.view, r.node, above, r.seen \cup above, r.level + 1)
      BY <1>2, <1>3, <1>6, ClimbGoesUp DEF Judged
    <2> HIDE DEF above
    <2>2. DOMAIN new = DOMAIN r /\ new.frontier = above /\ new.seen = r.seen \cup above
          /\ new.level = r.level + 1
      BY <1>2 DEF Drive!Updated, OnTheWay
    <2>3. new.at = r.at /\ new.node = r.node /\ new.view = r.view /\ new.todo = r.todo
          /\ new.access = r.access
      BY <1>2 DEF Drive!Updated, OnTheWay, Judged, RunOK
    <2>4. runs' = [runs EXCEPT ![c] = new]
      BY <1>6 DEF Drive!Steps
    <2> HIDE DEF new
    <2>5. Judged(new)
      BY <1>2, <2>2, <2>3 DEF Judged
    <2>6. OnTheWay(new)
      BY <1>2, <2>1, <2>2, <2>3 DEF OnTheWay
    <2>7. RunOK(new)
      BY <1>1, <1>2, <2>2, <2>3, <2>5, <2>6 DEF RunOK
    <2> QED
      BY <1>1, <2>4, <2>7, StepKeeps
  <1> QED
    BY <1>4, <1>5, <1>6 DEF Drive!Climbs, Above

LEMMA SendsKeeps ==
    ASSUME DriveInv, NEW c \in ToolCalls, Drive!Sends(c)
    PROVE  DriveInv'
  BY MovesOnKeeps DEF Drive!Sends

LEMMA LostKeeps ==
    ASSUME DriveInv, Drive!DriveRunsLost
    PROVE  DriveInv'
  <1>1. RunOK([at |-> "lost"])
    BY DEF RunOK
  <1> QED
    BY <1>1 DEF DriveInv, Drive!DriveRunsLost

LEMMA MovedKeeps ==
    ASSUME DriveInv, NEW n \in Nodes, NEW folder \in Nodes, Drive!Moved(n, folder)
    PROVE  DriveInv'
  <1>1. parents' \in [Nodes -> SUBSET Nodes] /\ UNCHANGED runs
    BY DEF DriveInv, Drive!Moved
  <1> QED
    BY <1>1 DEF DriveInv

LEMMA DriveInitInv == Drive!DriveInit => DriveInv
  <1> SUFFICES ASSUME Drive!DriveInit PROVE DriveInv
    OBVIOUS
  <1>1. parents \in [Nodes -> SUBSET Nodes]
    BY ServicesConfigured DEF Drive!DriveInit, Drive!DriveConfigured
  <1>2. RunOK([at |-> "idle"])
    BY DEF RunOK
  <1> QED
    BY <1>1, <1>2 DEF DriveInv, Drive!DriveInit

LEMMA DriveNextInv ==
    DriveInv /\ [Drive!DriveNext \/ Drive!DriveRunsLost]_driveVars => DriveInv'
  <1> SUFFICES ASSUME DriveInv, [Drive!DriveNext \/ Drive!DriveRunsLost]_driveVars
               PROVE  DriveInv'
    OBVIOUS
  <1>1. CASE UNCHANGED driveVars
    BY <1>1 DEF driveVars, DriveInv
  <1>2. ASSUME NEW c \in ToolCalls, Drive!DriveRun(c) PROVE DriveInv'
    BY <1>2, ToolStartsKeeps, MetadataKeeps, SearchKeeps, NextFoundKeeps, ParentsKeeps,
       ClimbsKeeps, SendsKeeps DEF Drive!DriveRun
  <1> QED
    BY <1>1, <1>2, MovedKeeps, LostKeeps DEF Drive!DriveNext

LEMMA DriveFollows == DriveInv => Drive!DriveWhitelist
  <1> SUFFICES ASSUME DriveInv, NEW c \in ToolCalls, "access" \in DOMAIN runs[c]
               PROVE  /\ \A n \in DOMAIN runs[c].access :
                            runs[c].access[n] = Drive!Nearest(runs[c].view, n)
                      /\ runs[c].at = "sent" =>
                            runs[c].access[runs[c].node] >=
                                IF runs[c].tool \in {"overwrite", "create"} THEN 2 ELSE 1
    BY DEF Drive!DriveWhitelist, Drive!READ, Drive!WRITE
  <1>1. RunOK(runs[c])
    BY DEF DriveInv
  <1> QED
    BY <1>1 DEF RunOK, Judged, MaySend

DrivePartInv == part = "google_drive" => DriveInv

(* extensions/google_drive: whatever tree of folders, with cycles and      *)
(* several parents, and whoever moves folders meanwhile, a tool judges a   *)
(* file by the nearest whitelisted folder of the tree it has seen, in      *)
(* searches over cached parents too, writes only below a writable one and  *)
(* reads only below a listed one.                                          *)
THEOREM DriveSound == Spec => []DriveWhitelist
  <1>1. Init => DrivePartInv
    BY DriveInitInv DEF Init, DrivePartInv
  <1>2. DrivePartInv /\ [Next]_vars => DrivePartInv'
    BY DriveNextInv DEF DrivePartInv, Next, vars
  <1>3. DrivePartInv => DriveWhitelist
    BY DriveFollows DEF DrivePartInv, DriveWhitelist
  <1> QED
    BY <1>1, <1>2, <1>3, PTL DEF Spec

-----------------------------------------------------------------------------
(* The grant.  GrantSound for any number of calls, flows, consents and     *)
(* restarts.  The invariant adds what the calls in flight carry - a refresh*)
(* token of an exchanged code, or a code of some consent - and that the    *)
(* states of old flows are smaller than the next one's.                    *)

GrantSteps == {"idle", "asked"} \cup ApiSteps \cup CallbackSteps \cup Ended
Scopes == ConsentScopes \cup FirstScopes
Consented == [state : Nat, scopes : Scopes]
Records == [state : Nat, access : Nat, valid : BOOLEAN, refresh : Nat, scopes : SUBSET Scopes]

GrantTypes ==
    /\ record \in Records /\ started \in Nat /\ consents \in Seq(Consented)
    /\ exchanged \subseteq 1 .. Len(consents)
    /\ does \in [Calls -> GrantSteps] /\ holds \in [Calls -> Nat]

InFlight ==
    \A c \in Calls :
        /\ does[c] \in {"refresh", "store", "save"} => holds[c] \in exchanged
        /\ does[c] \in {"clear", "exchange", "save", "unused", "saved"} =>
               holds[c] \in 1 .. Len(consents)

StatesGrow ==
    /\ record.state <= started
    /\ \A k \in 1 .. Len(consents) : 1 <= consents[k].state /\ consents[k].state <= started

GrantInv == GrantTypes /\ InFlight /\ StatesGrow /\ GrantSound

USE DEF ApiSteps, CallbackSteps, Ended

LEMMA GrantInitInv == GrantInit => GrantInv
  <1> SUFFICES ASSUME GrantInit PROVE GrantInv
    OBVIOUS
  <1>1. CASE /\ record = [state |-> 0, access |-> 0, valid |-> FALSE, refresh |-> 0,
                          scopes |-> {}]
             /\ started = 0 /\ consents = << >> /\ exchanged = {}
    <2>1. GrantTypes
      BY <1>1 DEF GrantInit, GrantTypes, Records, GrantSteps
    <2> QED
      BY <1>1, <2>1 DEF GrantInit, GrantInv, InFlight, StatesGrow, GrantSound,
                        TokensOfOneGrant, RefreshTokenKept, UsedStatesDead
  <1>2. ASSUME NEW scopes \in FirstScopes,
               record = [state |-> 0, access |-> 1, valid |-> FALSE, refresh |-> 1,
                         scopes |-> {scopes}],
               started = 1, exchanged = {1},
               consents = << [state |-> 1, scopes |-> scopes] >>
        PROVE  GrantInv
    <2>1. GrantTypes
      BY <1>2 DEF GrantInit, GrantTypes, Records, GrantSteps, Consented, Scopes
    <2> QED
      BY <1>2, <2>1 DEF GrantInit, GrantInv, InFlight, StatesGrow, GrantSound,
                        TokensOfOneGrant, RefreshTokenKept, UsedStatesDead
  <1> QED
    BY <1>1, <1>2 DEF GrantInit

\* A call goes on without a write: what it comes to carry has to fit where
\* it goes.
LEMMA CallStep ==
    ASSUME GrantInv, NEW c \in Calls, NEW to \in GrantSteps, NEW token \in Nat,
           does' = [does EXCEPT ![c] = to], holds' = [holds EXCEPT ![c] = token],
           to # "saved", to # "exchange",
           to \in {"refresh", "store"} => token \in exchanged,
           to \in {"clear", "unused"} => token \in 1 .. Len(consents),
           to = "save" => does[c] = "exchange" /\ token = holds[c] /\ token \in exchanged',
           to = "unused" => does[c] = "exchange" /\ token = holds[c],
           exchanged' \subseteq 1 .. Len(consents), exchanged \subseteq exchanged',
           UNCHANGED << record, started, consents, revoked >>
    PROVE  GrantInv'
  <1>1. GrantTypes'
    BY DEF GrantInv, GrantTypes
  <1>2. /\ does'[c] = to /\ holds'[c] = token
        /\ \A d \in Calls \ {c} : does'[d] = does[d] /\ holds'[d] = holds[d]
    BY DEF GrantInv, GrantTypes
  <1>3. InFlight'
    BY <1>2 DEF GrantInv, GrantTypes, InFlight
  <1>4. StatesGrow'
    BY DEF GrantInv, StatesGrow
  <1>5. TokensOfOneGrant' /\ RefreshTokenKept'
    BY <1>2 DEF GrantInv, GrantSound, TokensOfOneGrant, RefreshTokenKept
  <1>6. UsedStatesDead'
    BY <1>2 DEF GrantInv, GrantSound, UsedStatesDead
  <1> QED
    BY <1>1, <1>3, <1>4, <1>5, <1>6 DEF GrantInv, GrantSound

\* A pair of tokens of one exchanged code is written.
LEMMA WriteStep ==
    ASSUME GrantInv, NEW c \in Calls, NEW to \in {"sent", "saved"},
           does' = [does EXCEPT ![c] = to], holds[c] \in exchanged,
           to = "saved" => does[c] = "save",
           record' \in Records, record'.state = record.state,
           record'.access = holds[c], record'.refresh = holds[c],
           UNCHANGED << started, google, holds >>
    PROVE  GrantInv'
  <1>1. GrantTypes'
    BY DEF GrantInv, GrantTypes, GrantSteps, google
  <1>2. does'[c] = to /\ \A d \in Calls \ {c} : does'[d] = does[d]
    BY DEF GrantInv, GrantTypes
  <1>3. holds[c] # 0
    BY DEF GrantInv, GrantTypes
  <1>4. InFlight'
    BY <1>2 DEF GrantInv, InFlight, google
  <1>5. StatesGrow'
    BY DEF GrantInv, StatesGrow, google
  <1>6. TokensOfOneGrant' /\ RefreshTokenKept'
    BY <1>3 DEF TokensOfOneGrant, RefreshTokenKept, google
  <1>7. UsedStatesDead'
    BY <1>2 DEF GrantInv, GrantSound, UsedStatesDead, google
  <1> QED
    BY <1>1, <1>4, <1>5, <1>6, <1>7 DEF GrantInv, GrantSound

\* A new flow: its state is greater than any a code was consented under.
LEMMA StartStep ==
    ASSUME GrantInv, NEW c \in Calls, start_google_authentication(c)
    PROVE  GrantInv'
  <1>1. /\ does[c] = "reauth" /\ does' = [does EXCEPT ![c] = "asked"]
        /\ started' = started + 1 /\ record' = [record EXCEPT !.state = started + 1]
        /\ UNCHANGED << consents, exchanged, revoked, holds >>
    BY DEF start_google_authentication, Goes, google
  <1>2. GrantTypes'
    <2>1. started' \in Nat /\ record \in Records
      BY <1>1 DEF GrantInv, GrantTypes
    <2>2. record' \in Records
      BY <1>1, <2>1 DEF Records
    <2> QED
      BY <1>1, <2>1, <2>2 DEF GrantInv, GrantTypes, GrantSteps
  <1>3. does'[c] = "asked" /\ \A d \in Calls \ {c} : does'[d] = does[d]
    BY <1>1 DEF GrantInv, GrantTypes
  <1>4. /\ record'.state = started + 1 /\ record'.access = record.access
        /\ record'.refresh = record.refresh /\ started \in Nat
    BY <1>1 DEF GrantInv, GrantTypes, Records
  <1>5. InFlight'
    BY <1>1, <1>3 DEF GrantInv, InFlight
  <1>6. consents \in Seq(Consented)
    BY DEF GrantInv, GrantTypes
  <1>7. \A k \in 1 .. Len(consents) : consents[k].state \in Nat
    <2>1. \A k \in 1 .. Len(consents) : consents[k] \in Consented
      BY <1>6
    <2> QED
      BY <2>1 DEF Consented
  <1>8. StatesGrow'
    BY <1>1, <1>4, <1>7 DEF GrantInv, StatesGrow
  <1>9. TokensOfOneGrant' /\ RefreshTokenKept'
    BY <1>1, <1>3, <1>4 DEF GrantInv, GrantSound, TokensOfOneGrant, RefreshTokenKept
  <1>10. UsedStatesDead'
    <2> SUFFICES ASSUME NEW d \in Calls,
                        does'[d] \in {"exchange", "save", "unused", "saved"}
                 PROVE  record'.state # consents'[holds'[d]].state
      BY DEF UsedStatesDead
    <2>1. holds[d] \in 1 .. Len(consents)
      BY <1>1, <1>3 DEF GrantInv, InFlight
    <2> QED
      BY <1>1, <1>4, <1>7, <2>1 DEF GrantInv, StatesGrow
  <1> QED
    BY <1>2, <1>5, <1>8, <1>9, <1>10 DEF GrantInv, GrantSound

LEMMA ClearStep ==
    ASSUME GrantInv, NEW c \in Calls, ClearsState(c)
    PROVE  GrantInv'
  <1>1. /\ does[c] = "clear" /\ does' = [does EXCEPT ![c] = "exchange"]
        /\ record' = [record EXCEPT !.state = 0]
        /\ UNCHANGED << started, consents, exchanged, revoked, holds >>
    BY DEF ClearsState, Goes, google
  <1>2. GrantTypes'
    BY <1>1 DEF GrantInv, GrantTypes, GrantSteps, Records
  <1>3. does'[c] = "exchange" /\ \A d \in Calls \ {c} : does'[d] = does[d]
    BY <1>1 DEF GrantInv, GrantTypes
  <1>4. /\ record'.state = 0 /\ record'.access = record.access
        /\ record'.refresh = record.refresh /\ started \in Nat
    BY <1>1 DEF GrantInv, GrantTypes, Records
  <1>5. InFlight'
    BY <1>1, <1>3 DEF GrantInv, InFlight
  <1>6. StatesGrow'
    BY <1>1, <1>4 DEF GrantInv, StatesGrow
  <1>7. TokensOfOneGrant' /\ RefreshTokenKept'
    BY <1>1, <1>3, <1>4 DEF GrantInv, GrantSound, TokensOfOneGrant, RefreshTokenKept
  <1>8. UsedStatesDead'
    BY <1>1, <1>3, <1>4, <1>5, <1>6 DEF UsedStatesDead, InFlight, StatesGrow
  <1> QED
    BY <1>2, <1>5, <1>6, <1>7, <1>8 DEF GrantInv, GrantSound

LEMMA ConsentStep ==
    ASSUME GrantInv, NEW flow \in 1 .. started, NEW scopes \in ConsentScopes,
           Consents(flow, scopes)
    PROVE  GrantInv'
  <1> DEFINE new == [state |-> flow, scopes |-> scopes]
  <1>1. /\ consents' = Append(consents, new)
        /\ UNCHANGED << record, started, exchanged, revoked, does, holds >>
    BY DEF Consents
  <1>2. consents \in Seq(Consented) /\ new \in Consented /\ started \in Nat
    BY DEF GrantInv, GrantTypes, Consented, Scopes
  <1>3. /\ Len(consents) \in Nat /\ Len(consents') = Len(consents) + 1
        /\ \A k \in 1 .. Len(consents) : consents'[k] = consents[k]
        /\ consents'[Len(consents) + 1] = new
        /\ consents' \in Seq(Consented)
    BY <1>1, <1>2
  <1>4. GrantTypes'
    BY <1>1, <1>3 DEF GrantInv, GrantTypes
  <1>5. InFlight'
    BY <1>1, <1>3 DEF GrantInv, InFlight
  <1>6. StatesGrow'
    <2> SUFFICES ASSUME NEW k \in 1 .. Len(consents')
                 PROVE  1 <= consents'[k].state /\ consents'[k].state <= started
      BY <1>1 DEF GrantInv, StatesGrow
    <2>1. CASE k \in 1 .. Len(consents)
      BY <1>3, <2>1 DEF GrantInv, StatesGrow
    <2>2. CASE k = Len(consents) + 1
      BY <1>2, <1>3, <2>2
    <2> QED
      BY <1>3, <2>1, <2>2
  <1>7. TokensOfOneGrant' /\ RefreshTokenKept'
    BY <1>1 DEF GrantInv, GrantSound, TokensOfOneGrant, RefreshTokenKept
  <1>8. UsedStatesDead'
    BY <1>1, <1>3 DEF GrantInv, InFlight, GrantSound, UsedStatesDead
  <1> QED
    BY <1>4, <1>5, <1>6, <1>7, <1>8 DEF GrantInv, GrantSound

\* Time, revocations and the end of the process change no token.
LEMMA OutsideStep ==
    ASSUME GrantInv, does' \in [Calls -> GrantSteps],
           \A d \in Calls : does'[d] \in {does[d], "lost"},
           record' \in Records, record'.state = record.state,
           record'.access = record.access, record'.refresh = record.refresh,
           UNCHANGED << started, consents, exchanged, holds >>
    PROVE  GrantInv'
  <1>1. GrantTypes'
    BY DEF GrantInv, GrantTypes
  <1>2. InFlight' /\ StatesGrow'
    BY DEF GrantInv, InFlight, StatesGrow
  <1>3. TokensOfOneGrant' /\ RefreshTokenKept' /\ UsedStatesDead'
    BY DEF GrantInv, GrantSound, TokensOfOneGrant, RefreshTokenKept, UsedStatesDead
  <1> QED
    BY <1>1, <1>2, <1>3 DEF GrantInv, GrantSound

LEMMA GrantNextInv == GrantInv /\ [GrantNext \/ GrantCallsLost]_grantVars => GrantInv'
  <1> SUFFICES ASSUME GrantInv, [GrantNext \/ GrantCallsLost]_grantVars PROVE GrantInv'
    OBVIOUS
  <1>0. /\ record \in Records /\ does \in [Calls -> GrantSteps]
        /\ holds \in [Calls -> Nat] /\ exchanged \subseteq 1 .. Len(consents)
    BY DEF GrantInv, GrantTypes
  <1>a. \A c \in Calls : holds[c] \in Nat /\ holds = [holds EXCEPT ![c] = holds[c]]
    BY <1>0
  <1>1. ASSUME NEW c \in Calls, ApiCallBegins(c) PROVE GrantInv'
    <2>1. PICK to \in {"reauth", "read"} : does' = [does EXCEPT ![c] = to]
      BY <1>1 DEF ApiCallBegins, Goes
    <2> QED
      BY <1>0, <1>a, <1>1, <2>1, CallStep DEF ApiCallBegins, google, GrantSteps
  <1>2. ASSUME NEW c \in Calls, get_google_access_token(c) PROVE GrantInv'
    <2>1. UNCHANGED << record, started, consents, exchanged, revoked >>
      BY <1>2 DEF get_google_access_token, google
    <2>2. CASE record.valid /\ Goes(c, "sent") /\ Carries(c, record.access)
      BY <1>0, <2>1, <2>2, CallStep DEF Goes, Carries, GrantSteps, Records
    <2>3. CASE Goes(c, "reauth") /\ UNCHANGED holds
      BY <1>0, <1>a, <2>1, <2>3, CallStep DEF Goes, GrantSteps
    <2>4. CASE record.refresh # 0 /\ Goes(c, "refresh") /\ Carries(c, record.refresh)
      <3>1. record.refresh \in exchanged
        BY <2>4 DEF GrantInv, GrantSound, RefreshTokenKept
      <3> QED
        BY <1>0, <2>1, <2>4, <3>1, CallStep DEF Goes, Carries, GrantSteps, Records
    <2> QED
      BY <1>2, <2>2, <2>3, <2>4 DEF get_google_access_token
  <1>3. ASSUME NEW c \in Calls, _refresh_google_access_token(c) PROVE GrantInv'
    <2>1. PICK to \in {"store", "reauth", "failed"} : does' = [does EXCEPT ![c] = to]
      BY <1>3 DEF _refresh_google_access_token, Goes
    <2>2. holds[c] \in exchanged
      BY <1>3 DEF _refresh_google_access_token, GrantInv, InFlight
    <2> QED
      BY <1>0, <1>a, <1>3, <2>1, <2>2, CallStep
         DEF _refresh_google_access_token, google, GrantSteps
  <1>4. ASSUME NEW c \in Calls, StoresToken(c) PROVE GrantInv'
    <2>1. holds[c] \in exchanged
      BY <1>4 DEF StoresToken, GrantInv, InFlight
    <2>2. /\ record' \in Records /\ record'.state = record.state
          /\ record'.access = holds[c] /\ record'.refresh = holds[c]
      BY <1>0, <1>4 DEF StoresToken, Refreshed, Records
    <2> QED
      BY <1>4, <2>1, <2>2, WriteStep DEF StoresToken, Goes
  <1>5. ASSUME NEW c \in Calls, NEW code \in DOMAIN consents, handle_google_callback(c, code)
        PROVE  GrantInv'
    <2>1. PICK to \in {"clear", "refused"} : does' = [does EXCEPT ![c] = to]
      BY <1>5 DEF handle_google_callback, Goes
    <2>2. code \in 1 .. Len(consents) /\ code \in Nat
      BY DEF GrantInv, GrantTypes
    <2> QED
      BY <1>0, <1>5, <2>1, <2>2, CallStep
         DEF handle_google_callback, Carries, google, GrantSteps
  <1>6. ASSUME NEW c \in Calls, Exchanges(c) PROVE GrantInv'
    <2>1. holds[c] \in 1 .. Len(consents)
      BY <1>6 DEF Exchanges, GrantInv, InFlight
    <2>2. CASE exchanged' = exchanged \cup {holds[c]} /\ Goes(c, "save")
      <3>1. exchanged' \subseteq 1 .. Len(consents) /\ exchanged \subseteq exchanged'
        BY <1>0, <2>1, <2>2
      <3>2. /\ does[c] = "exchange" /\ does' = [does EXCEPT ![c] = "save"]
            /\ holds' = [holds EXCEPT ![c] = holds[c]] /\ holds[c] \in exchanged'
            /\ holds[c] \in Nat /\ "save" \in GrantSteps
            /\ UNCHANGED << record, started, consents, revoked >>
        BY <1>a, <1>6, <2>2 DEF Exchanges, Goes, GrantSteps
      <3> QED
        BY <3>1, <3>2, CallStep
    <2>3. CASE UNCHANGED exchanged /\ Goes(c, "unused")
      BY <1>0, <1>a, <1>6, <2>1, <2>3, CallStep DEF Exchanges, Goes, GrantSteps
    <2> QED
      BY <1>6, <2>2, <2>3 DEF Exchanges
  <1>7. ASSUME NEW c \in Calls, SavesTokens(c) PROVE GrantInv'
    <2>1. holds[c] \in exchanged /\ holds[c] \in 1 .. Len(consents)
      BY <1>7 DEF SavesTokens, GrantInv, InFlight
    <2>2. consents[holds[c]] \in Consented
      BY <2>1 DEF GrantInv, GrantTypes
    <2>3. consents[holds[c]].scopes \in Scopes
      BY <2>2 DEF Consented
    <2>4. /\ record' \in Records /\ record'.state = record.state
          /\ record'.access = holds[c] /\ record'.refresh = holds[c]
      BY <1>0, <1>7, <2>3 DEF SavesTokens, Records
    <2> QED
      BY <1>7, <2>1, <2>4, WriteStep DEF SavesTokens, Goes
  <1>8. CASE Expires
    <2>1. /\ record' \in Records /\ record'.state = record.state
          /\ record'.access = record.access /\ record'.refresh = record.refresh
      BY <1>0, <1>8 DEF Expires, Records
    <2> QED
      BY <1>0, <1>8, <2>1, OutsideStep DEF Expires, google
  <1>9. ASSUME NEW grant \in exchanged, Revokes(grant) PROVE GrantInv'
    BY <1>0, <1>9, OutsideStep DEF Revokes
  <1>10. CASE GrantCallsLost
    <2>1. does' \in [Calls -> GrantSteps] /\ \A d \in Calls : does'[d] \in {does[d], "lost"}
      BY <1>0, <1>10 DEF GrantCallsLost, GrantSteps
    <2> QED
      BY <1>0, <1>10, <2>1, OutsideStep DEF GrantCallsLost, google
  <1>11. CASE UNCHANGED grantVars
    BY <1>0, <1>11, OutsideStep DEF grantVars
  <1>12. ASSUME NEW c \in Calls, GrantCall(c) PROVE GrantInv'
    BY <1>1, <1>2, <1>3, <1>4, <1>5, <1>6, <1>7, <1>12, StartStep, ClearStep DEF GrantCall
  <1> QED
    BY <1>8, <1>9, <1>10, <1>11, <1>12, ConsentStep DEF GrantNext

(* extensions/google_oauth: whatever refreshes, flows, callbacks and       *)
(* restarts interleave, the stored pair of tokens is of one grant, a       *)
(* granted record keeps a refresh token, and a used state stays dead.      *)
THEOREM GrantSpecSound == GrantSpec => []GrantSound
  <1>1. GrantInv => GrantSound
    BY DEF GrantInv
  <1> QED
    BY <1>1, GrantInitInv, GrantNextInv, PTL DEF GrantSpec

-----------------------------------------------------------------------------
(* A behaviour of Services is one of its grant and one of its history,     *)
(* whichever part it belongs to.                                           *)
LEMMA ServicesOfParts == Spec => GrantSpec /\ HistorySpec
  <1>1. Init => GrantInit /\ HistoryInit
    BY DEF Init
  <1>2. [Next]_vars => /\ [GrantNext \/ GrantCallsLost]_grantVars
                       /\ [HistoryNext]_historyVars
    BY DEF Next, vars, HistoryNext
  <1> QED
    BY <1>1, <1>2, PTL DEF Spec, GrantSpec, HistorySpec

(* The promises of the four hold of every behaviour of the services: of    *)
(* the loads and the summary task, the grant, the Drive tools and the      *)
(* files tools.                                                            *)
THEOREM ServicesKept ==
    Spec => [](HistoryWindow /\ NotesOfPastDays /\ GrantSound /\ DriveWhitelist /\ FilesKept)
  BY ServicesOfParts, WindowHolds, NotesHold, GrantSpecSound, DriveSound, FilesSound, PTL
=============================================================================
