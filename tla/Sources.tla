------------------------------- MODULE Sources -------------------------------
(* The CoBos whose streams the graw-writer and the decoder expect:            *)
(* expected_sources of both, the ids of the configuration's [[cobo]] tables.  *)
EXTENDS FiniteSets

CONSTANTS
  Expected,      \* expected_sources
  Stray          \* a source outside of it

ASSUME SourcesAssumption ==
  IsFiniteSet(Expected) /\ Expected # {} /\ Stray \notin Expected
==============================================================================
