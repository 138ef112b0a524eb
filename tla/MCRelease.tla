----------------------------- MODULE MCRelease -----------------------------
(* The release of few versions on a short main.                            *)
EXTENDS Release

\* A version with a commit after its bump; and the same with the next version.
OneVersion  == <<1, 1>>
TwoVersions == <<1, 1, 2>>
=============================================================================
