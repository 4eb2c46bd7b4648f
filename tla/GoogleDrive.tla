---------------------------- MODULE GoogleDrive -----------------------------
(***************************************************************************)
(* What the Drive and Sheets tools may touch: extensions/google_drive      *)
(* (access.py, tool_support.py, tools/).  A tool reads the metadata of its *)
(* file and climbs to the nearest folder of the whitelist, one request per *)
(* folder, while files and folders may be moved.                           *)
(***************************************************************************)
EXTENDS Naturals

CONSTANTS
    Calls,              \* bound: runs of a tool, each used once
    Nodes,              \* files and folders, by id
    MimeOf,             \* [Nodes -> {"text", "folder", "sheet", "other"}]
    Trees,              \* the trees Drive may hold at first: [Nodes -> SUBSET Nodes]
    read_only_folders, writable_folders,
    MAX_ANCESTOR_DEPTH,
    MaxMoves            \* bound: moves by others

VARIABLES
    parents,    \* parents[n]: the folders n lies in
    trashed,    \* the nodes in the bin
    moves,
    runs        \* runs[c]: the run of the tool in call c

driveVars == << parents, trashed, moves, runs >>

Tools == {"get_text", "overwrite", "create", "get_range", "search"}

(* Access, as in access.py.                                                *)
NONE == 0
READ == 1
WRITE == 2

(* GoogleDriveConfig refuses a folder that stands in both lists.           *)
DriveConfigured ==
    /\ read_only_folders \cap writable_folders = {}
    /\ MAX_ANCESTOR_DEPTH \in Nat \ {0} /\ MaxMoves \in Nat
    /\ Trees \subseteq [Nodes -> SUBSET Nodes]

is_empty == read_only_folders \cup writable_folders = {}

(* What a tool works on; everything else is as if it did not exist.        *)
Visible(n, tool) ==
    /\ n \notin trashed
    /\ MimeOf[n] = CASE tool = "create" -> "folder" [] tool = "get_range" -> "sheet"
                     [] OTHER -> "text"

Updated(f, g) == [x \in DOMAIN f \cup DOMAIN g |-> IF x \in DOMAIN g THEN g[x] ELSE f[x]]
With(f, x, y) == Updated(f, [z \in {x} |-> y])
Steps(c, changes) == runs' = [runs EXCEPT ![c] = Updated(runs[c], changes)]

(* Each level: a whitelisted node ends it, the weaker access if several.   *)
Listed(frontier) == frontier \cap (read_only_folders \cup writable_folders)
(* For the mutant: the stronger access.                                    *)
StrongerHit(frontier) == IF Listed(frontier) \cap writable_folders # {} THEN WRITE ELSE READ
Hit(frontier) == IF Listed(frontier) \cap read_only_folders # {} THEN READ ELSE WRITE

(* AccessResolver.resolve begins at the node itself.                       *)
Resolving(n) == [at |-> "resolve", node |-> n, frontier |-> {n}, seen |-> {n}, level |-> 0]

-----------------------------------------------------------------------------
ToolStarts(c, tool, n) ==
    /\ runs[c].at = "idle"
    /\ runs' = [runs EXCEPT ![c] =
           IF is_empty THEN [at |-> IF tool = "search" THEN "done" ELSE "refused", tool |-> tool]
           ELSE [at |-> "metadata", tool |-> tool, node |-> n]]
    /\ UNCHANGED << parents, trashed, moves >>

(* get_metadata, or search_files, which brings the parents of all it       *)
(* finds; its pages stand here for one.                                    *)
get_metadata(c) ==
    /\ runs[c].at = "metadata" /\ runs[c].tool # "search"
    /\ LET n == runs[c].node IN
         \/ /\ Visible(n, runs[c].tool)
            /\ Steps(c, Updated(Resolving(n),
                        [view |-> [x \in {n} |-> parents[n]], access |-> << >>, todo |-> {}]))
         \/ ~Visible(n, runs[c].tool) /\ Steps(c, [at |-> "refused"])
         \/ Steps(c, [at |-> "failed"])
    /\ UNCHANGED << parents, trashed, moves >>

search_files(c) ==
    /\ runs[c].at = "metadata" /\ runs[c].tool = "search"
    /\ LET page == {n \in Nodes : Visible(n, "search")} IN
         \/ Steps(c, [at |-> "next", todo |-> page, access |-> << >>,
                      view |-> [n \in page |-> parents[n]]])
         \/ Steps(c, [at |-> "failed"])
    /\ UNCHANGED << parents, trashed, moves >>

(* One found file after another, until the limit, which is 1 at least.     *)
NextFound(c) ==
    /\ runs[c].at = "next"
    /\ LET found == {n \in DOMAIN runs[c].access : runs[c].access[n] # NONE} IN
         \/ \E n \in runs[c].todo : Steps(c, Updated(Resolving(n), [todo |-> runs[c].todo \ {n}]))
         \/ (runs[c].todo = {} \/ found # {}) /\ Steps(c, [at |-> "done"])
    /\ UNCHANGED << parents, trashed, moves >>

(* What follows once the access to the node is known.                      *)
Resolved(c, access) ==
    LET tool == runs[c].tool
        enough == IF tool \in {"overwrite", "create"} THEN access = WRITE ELSE access # NONE
    IN Steps(c, [access |-> With(runs[c].access, runs[c].node, access),
                 at |-> IF tool = "search" THEN "next" ELSE IF enough THEN "send" ELSE "refused"])

(* _parents_of a folder that this run has not asked for: a folder it       *)
(* cannot see has no parents; any other error ends the tool.               *)
_parents_of(c) ==
    /\ runs[c].at = "resolve" /\ Listed(runs[c].frontier) = {}
    /\ \E n \in runs[c].frontier \ DOMAIN runs[c].view :
         \/ \E answer \in {parents[n], {}} : Steps(c, [view |-> With(runs[c].view, n, answer)])
         \/ Steps(c, [at |-> "failed"])
    /\ UNCHANGED << parents, trashed, moves >>

Climbs(c) ==
    /\ runs[c].at = "resolve"
    /\ LET run == runs[c]
           above == (UNION {run.view[n] : n \in run.frontier}) \ run.seen
       IN \/ Listed(run.frontier) # {} /\ Resolved(c, Hit(run.frontier))
          \/ /\ Listed(run.frontier) = {} /\ run.frontier \subseteq DOMAIN run.view
             /\ IF above = {} \/ run.level + 1 = MAX_ANCESTOR_DEPTH THEN Resolved(c, NONE)
                ELSE Steps(c, [frontier |-> above, seen |-> run.seen \cup above,
                               level |-> run.level + 1])
    /\ UNCHANGED << parents, trashed, moves >>

(* download_text, get_sheet_values, update_text_file, create_text_file.    *)
Sends(c) ==
    /\ runs[c].at = "send"
    /\ Steps(c, [at |-> "sent"]) \/ Steps(c, [at |-> "failed"])
    /\ UNCHANGED << parents, trashed, moves >>

(* The process ends: what was sent is sent, the rest is forgotten.         *)
DriveRunsLost ==
    /\ runs' = [c \in Calls |-> IF runs[c].at \in {"metadata", "next", "resolve", "send"}
                               THEN [at |-> "lost"] ELSE runs[c]]
    /\ UNCHANGED << parents, trashed, moves >>

(* Others move a file or a folder, or throw it away.                       *)
Moved(n, folder) ==
    /\ moves < MaxMoves /\ moves' = moves + 1
    /\ MimeOf[folder] = "folder" /\ n # folder
    /\ \/ parents' = [parents EXCEPT ![n] = {folder}] /\ UNCHANGED trashed
       \/ trashed' = trashed \cup {n} /\ UNCHANGED parents
    /\ UNCHANGED runs

DriveInit ==
    /\ parents \in Trees /\ trashed = {} /\ moves = 0
    /\ runs = [c \in Calls |-> [at |-> "idle"]]

DriveRun(c) ==
    \/ \E tool \in Tools, n \in Nodes : ToolStarts(c, tool, n)
    \/ get_metadata(c) \/ search_files(c) \/ NextFound(c) \/ _parents_of(c) \/ Climbs(c)
    \/ Sends(c)

DriveNext ==
    \/ \E c \in Calls : DriveRun(c)
    \/ \E n, folder \in Nodes : Moved(n, folder)

DriveSpec == DriveInit /\ [][DriveNext \/ DriveRunsLost]_driveVars

-----------------------------------------------------------------------------
(* The access a folder tree gives: that of the nearest whitelisted node,   *)
(* counted in steps to a parent, read-only if one of several is.           *)
Chains(view, n, d) ==
    {p \in [0 .. d -> Nodes] :
        p[0] = n /\ \A k \in 1 .. d : p[k - 1] \in DOMAIN view /\ p[k] \in view[p[k - 1]]}
EndsIn(view, n, d, folders) == \E p \in Chains(view, n, d) : p[d] \in folders
Nearest(view, n) ==
    LET Near == {d \in 0 .. MAX_ANCESTOR_DEPTH - 1 :
                    EndsIn(view, n, d, read_only_folders \cup writable_folders)}
        first == CHOOSE d \in Near : \A e \in Near : d <= e
    IN IF Near = {} THEN NONE
       ELSE IF EndsIn(view, n, first, read_only_folders) THEN READ ELSE WRITE

(* Whatever is moved meanwhile, the tools judge by the nearest whitelisted *)
(* folder of the tree as this run has seen it, over cached parents, cycles *)
(* and several parents; they write only below a writable one and read only *)
(* below a listed one.                                                     *)
DriveWhitelist ==
    \A c \in Calls : "access" \in DOMAIN runs[c] =>
        /\ \A n \in DOMAIN runs[c].access : runs[c].access[n] = Nearest(runs[c].view, n)
        /\ runs[c].at = "sent" =>
              runs[c].access[runs[c].node] >=
                  IF runs[c].tool \in {"overwrite", "create"} THEN WRITE ELSE READ
=============================================================================
