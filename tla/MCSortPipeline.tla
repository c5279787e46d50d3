--------------------------- MODULE MCSortPipeline ---------------------------
(* Small instances of SortPipeline for TLC. *)
EXTENDS SortPipeline

CONSTANTS i1, i2

\* One answer with a single address and one that needs sorting.
TwoAnswers == {{i1}, {i1, i2}}
=============================================================================
