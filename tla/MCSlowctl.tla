------------------------------ MODULE MCSlowctl ------------------------------
(* slowctl for TLC; a behaviour follows its threads and main loop, or the     *)
(* InfluxDB writer, or the dialogue with one instrument.                      *)
EXTENDS Slowctl, Influx, Instruments, Arduino

CONSTANT Parts   \* of "threads", "influx", "instrument", "env"

VARIABLE part

slowctlVars == <<part, scVars, ixVars, inVars, envVars>>

(* One device of two nodes whose values cross the limit, one that drifts.     *)
MCValues == [flow |-> {101, 102}, env |-> {100, 102}]
MCSetups == {[devices |-> {"flow"}, opens |-> 1, polls |-> 2],
             [devices |-> {"env"}, opens |-> 1, polls |-> 3],
             [devices |-> {"flow", "env"}, opens |-> 2, polls |-> 1]}

(* A part that is not followed keeps one first state.                         *)
Init ==
  /\ part \in Parts
  /\ ScInit /\ (part # "threads" => opens = 2)
  /\ InfluxInit
  /\ InstrInit /\ (part # "instrument" => instr = "hivolta" /\ on /\ remote)
  /\ EnvInit /\ (part # "env" => says = "env" /\ ~midLine)

Threads(A) == part = "threads" /\ A /\ UNCHANGED <<part, ixVars, inVars, envVars>>
Writer(A) == part = "influx" /\ A /\ UNCHANGED <<part, scVars, inVars, envVars>>
Sensor(A) == part = "env" /\ A /\ UNCHANGED <<part, scVars, ixVars, inVars>>

Next ==
  \/ Threads(ScNext)
  \/ Writer(InfluxNext)
  \/ part = "instrument" /\ InstrNext /\ UNCHANGED <<part, scVars, ixVars, envVars>>
  \/ Sensor(EnvNext)

(* Threads run on: a driver call has a timeout, the waits end, the log socket *)
(* refuses after LOG_SEND_TIMEOUT_MS, a post to InfluxDB ends at its timeout; *)
(* the sketch loops and time passes.                                          *)
Spec ==
  /\ Init /\ [][Next]_slowctlVars
  /\ WF_slowctlVars(Threads(MainTurn)) /\ WF_slowctlVars(Threads(MainStops))
  /\ WF_slowctlVars(Threads(MainJoins))
  /\ \A d \in ScDevices : WF_slowctlVars(Threads(DeviceStep(d)))
  /\ WF_slowctlVars(Writer(WriterStep))
  /\ WF_slowctlVars(Sensor(SketchStep)) /\ WF_slowctlVars(Sensor(Tick))
  /\ WF_slowctlVars(Sensor(DriverStep))

(* A reading is what it says: of the parameter, channel and node it is      *)
(* reported for, and a power command is confirmed by its own reading        *)
(* (hivolta.rs, hmp_driver.rs, bronkhorst.rs, propar.rs, arduino.rs).       *)
ReadingsSound == InstrTypeOK /\ NoMislabelled /\ PowerConfirmed /\ EnvTypeOK

(* slowctl and its writer end when told to, and a sensor that stays silent  *)
(* holds nobody up; one that speaks is heard to its last line (run_slowctl, *)
(* finish, arduino.rs).                                                     *)
SlowctlEnds ==
  /\ SlowctlStops /\ InfluxFinishes /\ IdentEnds /\ SilentPollEnds /\ NewestIsUsed
==============================================================================
