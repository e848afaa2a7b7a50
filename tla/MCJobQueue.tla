----------------------------- MODULE MCJobQueue -----------------------------
(* Small instances of JobQueue for TLC.                                    *)
EXTENDS JobQueue, TLC

\* Processors run the same code, and so do operators' retries.
RunSymmetry == Permutations(Workers) \cup Permutations(Operators)
=============================================================================
