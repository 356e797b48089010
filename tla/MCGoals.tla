------------------------------ MODULE MCGoals ------------------------------
(***************************************************************************)
(* One session, two requests about its goal and one user message.        *)
(***************************************************************************)
EXTENDS Goals, TLC

MCSymmetry == Permutations(Requests) \cup Permutations(Users)
=============================================================================
