----------------------------- MODULE MCController -----------------------------
(* What the controller keeps on disk and how it is configured, for TLC: the    *)
(* run counter, the logbook, the parameter set in force, its rendering, and    *)
(* daq.toml.  They share no state, so a behaviour follows one of them.         *)
EXTENDS RunNumber, Logbook, Params, ParamsStore, Config

CONSTANT Parts    \* the parts to follow

VARIABLE part

controllerVars == <<part, rnVars, lbVars, paramVars, storeVars, cfgVars>>

(* A part that is not followed keeps one first state.                          *)
Init ==
  /\ part \in Parts
  /\ RunNumberInit /\ LogbookInit
  /\ IF part = "params" THEN ParamsInit
     ELSE /\ knob = CHOOSE k \in Knobs : k.scope = 0
          /\ template = [pos \in Positions(knob) |-> Absent]
          /\ paramset = [uniform |-> [json |-> "int", n |-> 9], exceptions |-> << >>]
          /\ loaded = FALSE /\ made = NotMade
  /\ ParamsStoreInit
  /\ part # "store" => dir
  /\ IF part = "config" THEN ConfigInit
     ELSE /\ toml = Usual /\ stage = "written"
          /\ runIds = << >> /\ fields = << >> /\ report = << >> /\ stopped = << >>

Next ==
  \/ part = "counter" /\ RunNumberNext /\ UNCHANGED <<part, lbVars, paramVars, storeVars, cfgVars>>
  \/ part = "logbook" /\ LogbookNext /\ UNCHANGED <<part, rnVars, paramVars, storeVars, cfgVars>>
  \/ part = "params" /\ ParamsNext /\ UNCHANGED <<part, rnVars, lbVars, storeVars, cfgVars>>
  \/ part = "store" /\ ParamsStoreNext /\ UNCHANGED <<part, rnVars, lbVars, paramVars, cfgVars>>
  \/ part = "config" /\ ConfigNext /\ UNCHANGED <<part, rnVars, lbVars, paramVars, storeVars>>

Spec == Init /\ [][Next]_controllerVars

(* What the operator set is what is used: the parameters reach the hardware   *)
(* file as they were saved, and a daq.toml that is accepted is one the        *)
(* components meet on (render, extract, validate).                            *)
SettingsSound == ParamsFaithful /\ ConfigSound
===============================================================================
