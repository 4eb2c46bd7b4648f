----------------------------- MODULE MCServices -----------------------------
(* Services with three calls of the API, two runs of tools and two readers  *)
(* of the history.                                                          *)
EXTENDS Services, TLC

Interchangeable == Permutations(Calls) \cup Permutations(ToolCalls) \cup Permutations(Readers)

MCchannels == << "kitchen", "study" >>

MCConsents == {{"read"}, {"read", "write"}}

(* Drive: two files, one with two parents, a read-only folder in a         *)
(* writable one, and a cycle.                                              *)
MCMimeOf ==
    [n \in {"root", "w", "r", "f", "t", "s"} |->
        CASE n = "t" -> "text" [] n = "s" -> "sheet" [] OTHER -> "folder"]
MCTrees ==
    LET tree(ofR, ofF, ofT) ==
            [n \in DOMAIN MCMimeOf |->
                CASE n = "root" -> {} [] n = "w" -> {"root"} [] n = "r" -> ofR [] n = "f" -> ofF
                  [] n = "t" -> ofT [] n = "s" -> {"f"}]
    IN {tree({"w"}, {"r"}, {"f"}), tree({"root"}, {"f"}, {"w", "r"})}

(* Files: /data, writable, holds /data/keep, read-only, and links to both  *)
(* sides.                                                                  *)
MCRoots ==
    {[label |-> "data", path |-> << "data" >>, writable |-> TRUE],
     [label |-> "keep", path |-> << "data", "keep" >>, writable |-> FALSE]}
MCLinks ==
    << "data", "in" >> :> << "data", "keep" >> @@ << "data", "out" >> :> << "etc" >>
        @@ << "data", "keep", "up" >> :> << "data", "a" >>
MCDirs == {<< >>, << "data" >>, << "data", "keep" >>, << "etc" >>}
MCFiles ==
    << "data", "b" >> :> "binary" @@ << "data", "keep", "k" >> :> "text"
        @@ << "etc", "x" >> :> "text"
MCRequested ==
    {<< >>, << "data" >>, << "data", "a" >>, << "data", "a", "c" >>, << "data", "b" >>,
     << "data", "in", "k" >>, << "data", "out", "x" >>, << "keep", "up" >>,
     << "data", "..", "etc" >>, << "etc" >>}
=============================================================================
