------------------------------ MODULE MCCorpus ------------------------------
(***************************************************************************)
(* The three suites; three edits and three stops.                              *)
(***************************************************************************)
EXTENDS Corpus
=============================================================================
