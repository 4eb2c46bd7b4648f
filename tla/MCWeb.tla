------------------------------- MODULE MCWeb --------------------------------
(* Web with three calls; one password that may be registered and one that  *)
(* is too short, which serves as the wrong one of a login.                 *)
EXTENDS Web, TLC

LongEnough(password) == password # "short"
Interchangeable == Permutations(Calls)
=============================================================================
