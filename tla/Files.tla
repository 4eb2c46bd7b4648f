------------------------------- MODULE Files --------------------------------
(***************************************************************************)
(* The files extension: extensions/files (access.py, tool_support.py,      *)
(* tools/).  A path is a sequence of names; a tool runs in a thread, so    *)
(* two tools' calls of the operating system interleave.                    *)
(***************************************************************************)
EXTENDS Integers, Sequences, SequencesExt

CONSTANTS
    Calls,      \* bound: calls of the tools, each used once
    Roots,      \* build_roots: the directories [label, path, writable]
    Links,      \* the symbolic links: a function from paths to paths
    FirstDirs,  \* the directories there are at first, as real paths
    FirstFiles, \* the files there are at first: real paths -> "text" | "binary"
    Requested   \* what the tools are asked for: sequences of names

VARIABLES
    dirs,       \* the directories, as real paths
    files,      \* real path -> [kind, texts]: whether its head can be read as UTF-8 text
                \* and the calls whose text it holds, in order
    tools       \* tools[c]: the tool of call c

filesVars == << dirs, files, tools >>

(* One label names one directory, and no directory is listed as both       *)
(* (FilesConfig._validate_directories).                                    *)
Paths == Seq(STRING)
FilesConfigured ==
    /\ \A r, s \in Roots : (r.label = s.label \/ r.path = s.path) => r = s
    /\ \A r \in Roots : r.label \in STRING /\ r.path \in Paths /\ r.writable \in BOOLEAN
    /\ \A p \in DOMAIN Links : p \in Paths /\ Links[p] \in Paths
    /\ FirstDirs \subseteq Paths /\ Requested \subseteq Paths
    /\ \A p \in DOMAIN FirstFiles : p \in Paths /\ FirstFiles[p] \in {"text", "binary"}

Modes == {"create", "overwrite", "append"}
Tools == Modes \cup {"read", "list", "search"}

NONE == 0
READ == 1
WRITE == 2

-----------------------------------------------------------------------------
(* Resolving a path.                                                       *)

(* os.path.realpath, links replaced one name at a time.                    *)
realpath(path) ==
    LET real[k \in 0 .. Len(path)] ==
            IF k = 0 THEN << >>
            ELSE LET p == Append(real[k - 1], path[k])
                 IN IF p \in DOMAIN Links THEN Links[p] ELSE p
    IN real[Len(path)]

is_within(base, real) == IsPrefix(base, real)

Containing(real) == {r \in Roots : is_within(realpath(r.path), real)}

(* The deepest directory decides, the read-only one if two are as deep.    *)
access_for(real) ==
    LET Depth(r) == Len(realpath(r.path))
        deepest == {r \in Containing(real) : \A s \in Containing(real) : Depth(s) <= Depth(r)}
    IN IF deepest = {} THEN NONE
       ELSE IF \E r \in deepest : ~r.writable THEN READ ELSE WRITE

Malformed(segments) == ".." \in Range(segments) \* split_logical_path

RootOf(segments) == {r \in Roots : segments # << >> /\ r.label = segments[1]}
RealOf(root, segments) == realpath(realpath(root.path) \o Tail(segments))

(* resolve_target raises unless there is a target.                         *)
Targets(segments) ==
    IF Malformed(segments) THEN {}
    ELSE {t \in {[root |-> r, real |-> RealOf(r, segments),
                  access |-> access_for(RealOf(r, segments))] : r \in RootOf(segments)} :
             is_within(realpath(t.root.path), t.real) /\ t.access # NONE}

-----------------------------------------------------------------------------
(* Reading.  Below a directory: its entries, or all of them for a search,  *)
(* which follows no link to a directory.                                   *)

Entries(dir) ==
    {p \in DOMAIN files \cup DOMAIN Links \cup dirs : p # << >> /\ Front(p) = dir}
Walked(dir) ==
    {p \in DOMAIN files \cup DOMAIN Links : is_within(dir, p) /\ p # dir}

(* A list or a search of the empty path takes every root.                  *)
Looked(tool, segments) ==
    IF segments = << >> /\ tool \in {"list", "search"}
    THEN UNION {Targets(<< r.label >>) : r \in Roots} ELSE Targets(segments)

Inside(root, paths) ==
    {p \in paths : is_within(realpath(root.path), realpath(p))}

(* The real paths a tool shows the names or the text of: only text is      *)
(* read, a link that leads out of the root or nowhere is left out, and a   *)
(* list of the empty path names the roots themselves.                      *)
IsText(p) == p \in DOMAIN files /\ files[p].kind = "text"
Shown(tool, segments, target) ==
    CASE tool = "read" -> {p \in {target.real} : IsText(p)}
      [] tool = "list" /\ segments = << >> -> {target.real}
      [] tool = "list" /\ segments # << >> /\ target.real \in dirs ->
             {realpath(p) : p \in Inside(target.root, Entries(target.real))}
                \cap (DOMAIN files \cup dirs)
      [] tool = "search" ->
             {p \in {realpath(q) : q \in Inside(target.root, {target.real} \cup Walked(target.real))} :
                 IsText(p)}
      [] OTHER -> {}

Free(c) == tools[c].at = "idle"
Ends(c, at) == tools' = [tools EXCEPT ![c].at = at]

Reads(c, tool, segments) ==
    /\ Free(c)
    /\ tools' = [tools EXCEPT ![c] =
           [at |-> "done", tool |-> tool,
            shown |-> UNION {Shown(tool, segments, t) : t \in Looked(tool, segments)}]]
    /\ UNCHANGED << dirs, files >>

-----------------------------------------------------------------------------
(* Writing: what is checked, what is opened and what is written are three  *)
(* calls of the operating system at least.                                 *)

Above(real) == {SubSeq(real, 1, k) : k \in 1 .. Len(real) - 1}

(* llm_file_write up to the open, with makedirs: an existing file is no    *)
(* new one, and what is no text is not appended to.                        *)
Writable(mode, segments, target) ==
    /\ Len(segments) >= 2 /\ target.real \notin dirs
    /\ target.access = WRITE
    /\ mode = "create" => target.real \notin DOMAIN files
    /\ mode = "append" /\ target.real \in DOMAIN files => IsText(target.real)
    /\ Above(target.real) \cap DOMAIN files = {}

Checks(c, mode, segments) ==
    /\ Free(c)
    /\ LET targets == {t \in Targets(segments) : Writable(mode, segments, t)} IN
         \/ /\ targets = {}
            /\ tools' = [tools EXCEPT ![c] = [at |-> "refused", tool |-> mode, shown |-> {}]]
            /\ UNCHANGED dirs
         \/ \E t \in targets :
              /\ tools' = [tools EXCEPT ![c] =
                     [at |-> "open", tool |-> mode, real |-> t.real, shown |-> {}]]
              /\ dirs' = dirs \cup Above(t.real)
    /\ UNCHANGED files

(* open(): "x" fails on a file that is there, "w" empties it; {}: fails.   *)
EmptyFile == [kind |-> "text", texts |-> << >>]
(* For the mutant: "w" for all but "append".                               *)
OpensOver(mode, real) ==
    IF mode = "append" /\ real \in DOMAIN files THEN {files[real]} ELSE {EmptyFile}
Opened(mode, real) ==
    IF real \notin DOMAIN files THEN {EmptyFile}
    ELSE CASE mode = "create" -> {} [] mode = "append" -> {files[real]}
           [] mode = "overwrite" -> {EmptyFile}

With(real, file) == [p \in DOMAIN files \cup {real} |-> IF p = real THEN file ELSE files[p]]

open(c) ==
    /\ tools[c].at = "open"
    /\ LET real == tools[c].real
           opened == IF real \in dirs THEN {} ELSE Opened(tools[c].tool, real)
       IN \/ opened = {} /\ Ends(c, "refused") /\ UNCHANGED files
          \/ \E file \in opened : files' = With(real, file) /\ Ends(c, "write")
    /\ UNCHANGED dirs

(* Append mode writes at the end; the others where they opened, at the     *)
(* beginning, over some of what others have written since.                 *)
Written(mode, c, texts) ==
    IF mode = "append" THEN {Append(texts, c)}
    ELSE {<< c >> \o SubSeq(texts, k, Len(texts)) : k \in 1 .. Len(texts) + 1}

(* The content may hold a NUL, and overwriting may cut a character of what *)
(* others wrote; what is no text does not become one by what follows it.   *)
KindsAfter(mode, kind) ==
    IF mode = "append" /\ kind = "binary" THEN {"binary"} ELSE {"text", "binary"}

write(c) ==
    /\ tools[c].at = "write"
    /\ LET file == files[tools[c].real] IN
         \E texts \in Written(tools[c].tool, c, file.texts),
            kind \in KindsAfter(tools[c].tool, file.kind) :
           files' = [files EXCEPT ![tools[c].real] = [kind |-> kind, texts |-> texts]]
    /\ Ends(c, "done")
    /\ UNCHANGED dirs

(* A disk error, or the process ends: the file stays as it is, empty if    *)
(* an overwrite has opened it.                                             *)
Interrupted(c) ==
    /\ tools[c].at \in {"open", "write"}
    /\ Ends(c, IF tools[c].at = "open" THEN "failed" ELSE "emptied")
    /\ UNCHANGED << dirs, files >>

FilesInit ==
    /\ dirs = FirstDirs
    /\ files = [p \in DOMAIN FirstFiles |-> [kind |-> FirstFiles[p], texts |-> << >>]]
    /\ tools = [c \in Calls |-> [at |-> "idle", shown |-> {}]]

Tool(c) ==
    \/ \E tool \in {"read", "list", "search"}, s \in Requested : Reads(c, tool, s)
    \/ \E mode \in Modes, s \in Requested : Checks(c, mode, s)
    \/ open(c) \/ write(c) \/ Interrupted(c)

FilesNext == \E c \in Calls : Tool(c)

FilesSpec == FilesInit /\ [][FilesNext]_filesVars

-----------------------------------------------------------------------------
(* What a directory below a whitelisted one allows, said the other way     *)
(* round: going up from the file, the first whitelisted directory decides. *)
Allowed(real) ==
    LET At(k) == {r \in Roots : realpath(r.path) = SubSeq(real, 1, k)}
        met == {k \in 0 .. Len(real) : At(k) # {}}
    IN IF met = {} THEN NONE
       ELSE IF \A r \in At(CHOOSE k \in met : \A j \in met : j <= k) : r.writable
       THEN WRITE ELSE READ

Path(c) == IF "real" \in DOMAIN tools[c] THEN tools[c].real ELSE << >>
OpenedBy(c) == tools[c].at \in {"write", "done", "emptied"} /\ Path(c) # << >>

(* Nothing outside the whitelist is shown, and only a file whose nearest   *)
(* whitelisted directory is writable is opened, through whatever links.    *)
InsideWhitelist ==
    \A c \in Calls :
        /\ \A real \in tools[c].shown : Allowed(real) # NONE
        /\ OpenedBy(c) => Allowed(Path(c)) = WRITE

(* Of overlapping creates of a file one succeeds, none of a file that was  *)
(* there; its text stays, first, unless an overwrite opens the file; and   *)
(* nothing is appended to a file that was no text before the tools ran,    *)
(* unless an overwrite opened it in between.                               *)
CreatesOnce ==
    \A c \in Calls : OpenedBy(c) /\ tools[c].tool = "create" =>
        LET others == {d \in Calls \ {c} : OpenedBy(d) /\ Path(d) = Path(c)} IN
        /\ Path(c) \notin DOMAIN FirstFiles
        /\ \A d \in others : tools[d].tool # "create"
        /\ tools[c].at = "done" /\ (\A d \in others : tools[d].tool # "overwrite") =>
               files[Path(c)].texts # << >> /\ files[Path(c)].texts[1] = c
NoTextAtFirst(p) == p \in DOMAIN FirstFiles /\ FirstFiles[p] = "binary"
Replaced(p) ==
    \E c \in Calls : OpenedBy(c) /\ Path(c) = p /\ tools[c].tool = "overwrite"
BinaryUntouched ==
    \A c \in Calls :
        OpenedBy(c) /\ tools[c].tool = "append" /\ NoTextAtFirst(Path(c)) => Replaced(Path(c))

FilesKept == InsideWhitelist /\ CreatesOnce /\ BinaryUntouched
=============================================================================
