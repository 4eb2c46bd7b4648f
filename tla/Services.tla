------------------------------ MODULE Services ------------------------------
(***************************************************************************)
(* What conversations and tools work with beside the model: the history in *)
(* MongoDB and the extensions google_oauth, google_drive and files, in one *)
(* process.  They share no state (the windows and the notes only read the  *)
(* same texts): a behaviour of several at once is one of each, so a        *)
(* behaviour here belongs to the one that `part` names, and the files and  *)
(* folders are left void in the others.                                    *)
(***************************************************************************)
EXTENDS GoogleGrant, ConversationHistory

CONSTANTS
    ToolCalls,  \* bound: runs of a tool
    Nodes, MimeOf, Trees, read_only_folders, writable_folders, MAX_ANCESTOR_DEPTH, MaxMoves,
    Roots, Links, FirstDirs, FirstFiles, Requested

VARIABLES
    part,
    parents, trashed, moves, runs,
    dirs, files, tools

Drive == INSTANCE GoogleDrive WITH Calls <- ToolCalls
FilesTools == INSTANCE Files WITH Calls <- ToolCalls

driveVars == << parents, trashed, moves, runs >>
filesVars == << dirs, files, tools >>
vars == << part, grantVars, historyVars, driveVars, filesVars >>

ASSUME ServicesConfigured == Drive!DriveConfigured /\ FilesTools!FilesConfigured

Void == << >>

Init ==
    /\ part \in {"window", "notes", "google_oauth", "google_drive", "files"}
    /\ GrantInit /\ HistoryInit
    /\ part # "google_oauth" => exchanged = {}
    /\ IF part = "google_drive" THEN Drive!DriveInit
       ELSE parents = Void /\ trashed = Void /\ moves = Void /\ runs = Void
    /\ IF part = "files" THEN FilesTools!FilesInit ELSE dirs = Void /\ files = Void /\ tools = Void

Next ==
    /\ UNCHANGED part
    /\ \/ /\ part \in {"window", "notes"}
          /\ TextsNext \/ (part = "window" /\ LoadsNext) \/ (part = "notes" /\ NotesNext)
          /\ UNCHANGED << grantVars, driveVars, filesVars >>
       \/ /\ part = "google_oauth"
          /\ GrantNext \/ GrantCallsLost
          /\ UNCHANGED << historyVars, driveVars, filesVars >>
       \/ /\ part = "google_drive"
          /\ Drive!DriveNext \/ Drive!DriveRunsLost
          /\ UNCHANGED << grantVars, historyVars, filesVars >>
       \/ /\ part = "files"
          /\ FilesTools!FilesNext
          /\ UNCHANGED << grantVars, historyVars, driveVars >>

Spec == Init /\ [][Next]_vars

DriveWhitelist == part = "google_drive" => Drive!DriveWhitelist
FilesKept == part = "files" => FilesTools!FilesKept
=============================================================================
