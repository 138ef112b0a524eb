--------------------------- MODULE MCReleaseJobs ---------------------------
(* The release and its jobs, on few versions and a short main.             *)
EXTENDS ReleaseJobs

\* A version with a commit after its bump.
OneVersion == <<1, 1>>
=============================================================================
