---------------------------- MODULE ComponentState ----------------------------
(* The state machine every data component (receiver, graw-writer, decoder)    *)
(* shares, and the state each controller command aims at: src/src/command.rs. *)

States == {"Idle", "Configured", "Armed", "Running", "Error"}

Commands == {"Configure", "Arm", "Start", "Stop", "Reset"}

(* ComponentState::can_transition_to: the legal pairs.  There is no self      *)
(* transition, Error is entered from the active states only and left to Idle. *)
LegalTransitions ==
  { <<"Idle", "Configured">>, <<"Configured", "Armed">>, <<"Armed", "Running">>,
    <<"Running", "Configured">>,
    <<"Configured", "Idle">>, <<"Armed", "Idle">>, <<"Running", "Idle">>,
    <<"Error", "Idle">>,
    <<"Configured", "Error">>, <<"Armed", "Error">>, <<"Running", "Error">> }

CanTransition(from, to) == <<from, to>> \in LegalTransitions

(* Command::target_state (GetStatus, which aims at no state, is not a member  *)
(* of Commands).                                                              *)
TargetState(cmd) ==
  CASE cmd = "Configure" -> "Configured"
    [] cmd = "Arm"       -> "Armed"
    [] cmd = "Start"     -> "Running"
    [] cmd = "Stop"      -> "Configured"
    [] cmd = "Reset"     -> "Idle"

(* The check every handler makes before it acts on a command.                 *)
Accepts(state, cmd) == CanTransition(state, TargetState(cmd))
===============================================================================
