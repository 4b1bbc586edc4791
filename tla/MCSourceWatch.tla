--------------------------- MODULE MCSourceWatch ---------------------------
(***************************************************************************)
(* Small instances of the watches of sources for TLC.                      *)
(***************************************************************************)
EXTENDS SourceWatch

CONSTANTS a, src, \* a run and its source
          main, tag, d1, d2 \* parts of revisions

\* A branch at a commit, and a tag with its digest.
TwoRevisions == {<<main, d1>>, <<tag, d2>>}

OfSrc == [k \in Runs |-> src]
=============================================================================
