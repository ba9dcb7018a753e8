--------------------------- MODULE MCSubmissions ---------------------------
(***************************************************************************)
(* Submissions for TLC: the artifacts are interchangeable.                 *)
(***************************************************************************)
EXTENDS Submissions, TLC

AnyFile == Permutations(Files)

=============================================================================
