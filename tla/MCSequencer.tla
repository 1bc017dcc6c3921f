----------------------------- MODULE MCSequencer -----------------------------
(* Small instances of Sequencer for TLC.                                      *)
EXTENDS Sequencer
==============================================================================
