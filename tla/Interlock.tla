------------------------------ MODULE Interlock ------------------------------
(* The interlock between a run and the HV / LV power switches.  The           *)
(* controller (src/src/controller/power.rs, rest.rs) lets a power command     *)
(* through under its run lock and marks it in flight; slowctl                 *)
(* (src/src/slowctl/component.rs) receives it in its REP thread, hands it to  *)
(* the thread that owns the device through a queue of depth one, and gives up *)
(* waiting at a deadline.  The threads share nothing but these messages, and  *)
(* no side knows when the other has given up.                                 *)
EXTENDS Integers, Sequences

CONSTANTS
  Requests,     \* POST /api/slow/power requests, each made once
  MaxStarts,    \* bound: run/start requests taken up
  MaxCrashes,   \* bound: deaths of the controller
  Nobody        \* no request: Option::None

ASSUME InterlockAssumption ==
  /\ Nobody \notin Requests
  /\ MaxStarts \in Nat /\ MaxCrashes \in Nat

Devices == {"hivolta", "hmp2020"}

(* What a validated request asks of which device: {device, on}.               *)
PowerCommand == [device : Devices, on : BOOLEAN]

VARIABLES
  phase,         \* run_state.phase
  inflight,      \* run_state.power_inflight
  req,           \* where each request is, in the controller
  cmd,           \* its power command
  inbox,         \* requests in the REP socket of slowctl
  rep,           \* the request the REP thread waits for
  expired,       \* requests whose deadline has passed
  queue,         \* per device: its command queue (0 or 1 request)
  running,       \* per device: the request its thread executes
  power,         \* per device: on or off
  starts, crashes,
  prompt         \* in this behaviour, slowctl reads a request before the controller
                 \* gives up on it, and a device obeys before its REP deadline

runVars  == <<phase, starts, crashes>>
slowVars == <<inbox, rep, expired, queue, running, power>>
vars == <<runVars, inflight, req, cmd, slowVars, prompt>>

Init ==
  /\ phase = "Idle" /\ inflight = Nobody
  /\ req = [p \in Requests |-> "new"]
  /\ cmd \in [Requests -> PowerCommand]
  /\ inbox = << >> /\ rep = Nobody /\ expired = {}
  /\ queue = [d \in Devices |-> Nobody] /\ running = [d \in Devices |-> Nobody]
  /\ power \in [Devices -> BOOLEAN]
  /\ starts = 0 /\ crashes = 0
  /\ prompt \in BOOLEAN

-----------------------------------------------------------------------------
(* Runs, as far as the run lock sees them                                     *)

(* Mutant: a power command in flight does not keep a run from starting.       *)
RunStart_IgnoresPower ==
  /\ phase = "Idle"
  /\ starts < MaxStarts
  /\ phase' = "Starting" /\ starts' = starts + 1
  /\ UNCHANGED <<crashes, inflight, req, cmd, slowVars>>

(* post_run_start takes the phase.                                            *)
RunStart ==
  /\ phase = "Idle" /\ inflight = Nobody
  /\ starts < MaxStarts
  /\ phase' = "Starting" /\ starts' = starts + 1
  /\ UNCHANGED <<crashes, inflight, req, cmd, slowVars>>

(* The sequence took the chain to Running, or failed and was rolled back,     *)
(* reaching every component.                                                  *)
StartEnds ==
  /\ phase = "Starting"
  /\ phase' \in {"Running", "Idle"}
  /\ UNCHANGED <<starts, crashes, inflight, req, cmd, slowVars>>

(* post_run_stop takes the phase, folds the chain and gives the phase back.   *)
RunStop ==
  /\ \/ phase = "Running" /\ phase' = "Stopping"
     \/ phase = "Stopping" /\ phase' = "Idle"
  /\ UNCHANGED <<starts, crashes, inflight, req, cmd, slowVars>>

(* The controller dies and comes back: phase and mark were only in memory,    *)
(* the chain and slowctl go on.                                               *)
Crash ==
  /\ crashes < MaxCrashes
  /\ crashes' = crashes + 1
  /\ phase' = "Idle" /\ inflight' = Nobody
  /\ req' = [p \in Requests |-> IF req[p] = "new" THEN "new" ELSE "done"]
  /\ UNCHANGED <<starts, cmd, slowVars>>

-----------------------------------------------------------------------------
(* post_slow_power                                                            *)

(* power_rule: HV ON and LV OFF only while the phase is Idle.                 *)
PowerRule(c) ==
  phase = "Idle" \/ c \notin {[device |-> "hivolta", on |-> TRUE],
                              [device |-> "hmp2020", on |-> FALSE]}

(* Mutant: a second command is let through while one is in flight.            *)
PowerSend_NoMark(p) ==
  /\ req[p] = "new"
  /\ PowerRule(cmd[p])
  /\ inflight' = p
  /\ req' = [req EXCEPT ![p] = "sent"]
  /\ inbox' \in {inbox, Append(inbox, p)}
  /\ UNCHANGED <<runVars, cmd, rep, expired, queue, running, power>>

(* Under the run lock: the mark, then the rule; a request that passes is      *)
(* marked and sent after the lock is dropped.  It may never reach slowctl.    *)
PowerSend(p) ==
  /\ req[p] = "new"
  /\ inflight = Nobody /\ PowerRule(cmd[p])
  /\ inflight' = p
  /\ req' = [req EXCEPT ![p] = "sent"]
  /\ inbox' \in {inbox, Append(inbox, p)}
  /\ UNCHANGED <<runVars, cmd, rep, expired, queue, running, power>>

PowerRefuse(p) ==
  /\ req[p] = "new"
  /\ inflight # Nobody \/ ~PowerRule(cmd[p])
  /\ req' = [req EXCEPT ![p] = "done"]
  /\ UNCHANGED <<runVars, inflight, cmd, slowVars>>

(* slowctl has not taken the request on, or has not finished with it.         *)
InSlowctl(p) == (\E i \in DOMAIN inbox : inbox[i] = p) \/ rep = p

(* The controller's SLOW_CMD_TIMEOUT (10 s), an unreachable slowctl, or the   *)
(* death of the blocking task: the mark is taken down all the same.           *)
PowerTimeout(p) ==
  /\ req[p] = "sent"
  /\ prompt => ~InSlowctl(p)
  /\ req' = [req EXCEPT ![p] = "done"]
  /\ inflight' = Nobody
  /\ UNCHANGED <<runVars, cmd, slowVars>>

-----------------------------------------------------------------------------
(* slowctl: the REP thread                                                    *)

(* The REP thread answers p and is free; the controller, if it still waits    *)
(* for p, takes the mark down.                                                *)
Answer(p) ==
  /\ rep' = Nobody
  /\ IF req[p] = "sent"
     THEN req' = [req EXCEPT ![p] = "done"] /\ inflight' = Nobody
     ELSE UNCHANGED <<req, inflight>>

(* handle_power_request: into the device's queue, or "device busy".  The      *)
(* deadline runs from here, not from when the controller sent the request.    *)
RepTakes ==
  /\ rep = Nobody /\ inbox # << >>
  /\ inbox' = Tail(inbox)
  /\ LET p == Head(inbox)
         d == cmd[p].device
     IN  \/ /\ queue[d] = Nobody
            /\ queue' = [queue EXCEPT ![d] = p]
            /\ rep' = p
            /\ UNCHANGED <<req, inflight>>
         \/ /\ queue[d] # Nobody
            /\ Answer(p)
            /\ UNCHANGED queue
  /\ UNCHANGED <<runVars, cmd, expired, running, power>>

(* POWER_REPLY_TIMEOUT (5 s): the request expires and is answered "timeout".  *)
RepTimeout ==
  /\ rep # Nobody
  /\ prompt => \A d \in Devices : running[d] # rep
  /\ expired' = expired \cup {rep}
  /\ Answer(rep)
  /\ UNCHANGED <<runVars, cmd, inbox, queue, running, power>>

(* slowctl: the device thread                                                 *)

(* Between two polls the thread takes the command; past its deadline it is    *)
(* dropped, else set_power begins (it reads the status before it switches).   *)
DeviceTakes(d) ==
  /\ queue[d] # Nobody /\ running[d] = Nobody
  /\ queue' = [queue EXCEPT ![d] = Nobody]
  /\ running' = [running EXCEPT ![d] = IF queue[d] \in expired THEN Nobody ELSE queue[d]]
  /\ UNCHANGED <<runVars, inflight, req, cmd, inbox, rep, expired, power>>

(* deliver_power_reply: the REP thread may have stopped waiting.              *)
Deliver(p) == IF rep = p THEN Answer(p) ELSE UNCHANGED <<rep, req, inflight>>

(* While the link is down: "device not connected", whatever the deadline.     *)
DeviceNotConnected(d) ==
  /\ queue[d] # Nobody /\ running[d] = Nobody
  /\ queue' = [queue EXCEPT ![d] = Nobody]
  /\ Deliver(queue[d])
  /\ UNCHANGED <<runVars, cmd, inbox, expired, running, power>>

(* The device switches, or refuses or fails to; then the outcome goes back.   *)
DeviceSwitches(d) ==
  /\ running[d] # Nobody
  /\ running' = [running EXCEPT ![d] = Nobody]
  /\ power' \in {power, [power EXCEPT ![d] = cmd[running[d]].on]}
  /\ Deliver(running[d])
  /\ UNCHANGED <<runVars, cmd, inbox, expired, queue>>

Step ==
  \/ RunStart \/ StartEnds \/ RunStop \/ Crash
  \/ RepTakes \/ RepTimeout
  \/ \E p \in Requests : PowerSend(p) \/ PowerRefuse(p) \/ PowerTimeout(p)
  \/ \E d \in Devices : DeviceTakes(d) \/ DeviceNotConnected(d) \/ DeviceSwitches(d)

Next == Step /\ UNCHANGED prompt

Spec == Init /\ [][Next]_vars

(* Every wait in this path has a timeout of its own, so these steps go on     *)
(* being taken: the controller's REQ, the REP thread's wait, the thread that  *)
(* reads the REP socket, and the device thread's poll loop.                   *)
PowerStep ==
  /\ \/ RepTakes \/ RepTimeout
     \/ \E p \in Requests : PowerTimeout(p)
     \/ \E d \in Devices : DeviceTakes(d) \/ DeviceSwitches(d)
  /\ UNCHANGED prompt

-----------------------------------------------------------------------------
Holder == Requests \cup {Nobody}

(* Every variable has its type, and a device thread is only ever given the    *)
(* commands of its own device.                                                *)
TypeOK ==
  /\ \A d \in Devices, p \in Requests : queue[d] = p \/ running[d] = p => cmd[p].device = d
  /\ phase \in {"Idle", "Starting", "Running", "Stopping"}
  /\ inflight \in Holder /\ rep \in Holder
  /\ req \in [Requests -> {"new", "sent", "done"}]
  /\ cmd \in [Requests -> PowerCommand]
  /\ inbox \in Seq(Requests)
  /\ expired \in SUBSET Requests
  /\ queue \in [Devices -> Holder] /\ running \in [Devices -> Holder]
  /\ power \in [Devices -> BOOLEAN]
  /\ starts \in 0 .. MaxStarts /\ crashes \in 0 .. MaxCrashes

(* The switches that disturb data taking: HV turned on, LV turned off.        *)
Disturbs == (~power["hivolta"] /\ power'["hivolta"]) \/ (power["hmp2020"] /\ ~power'["hmp2020"])

(* HV is turned on and LV off only while the phase is Idle (SPEC 11: "HV ON    *)
(* only in phase Idle", "LV OFF only in phase Idle").                         *)
HvOnlyWhenIdle == [][Disturbs => phase = "Idle"]_vars

(* The same as long as slowctl keeps its deadlines and the controller has not *)
(* died: with commands queued behind a poll, refused and lost requests, and   *)
(* starts at any moment (power_rule, power_inflight, PowerCommand.deadline).  *)
SwitchOnlyWhenIdle == [][prompt /\ crashes = 0 /\ Disturbs => phase = "Idle"]_vars

(* One power command at a time: at most one request of the controller waits   *)
(* for slowctl, and it is the one that is marked.                             *)
OneInFlight == \A p \in Requests : req[p] = "sent" <=> inflight = p

(* The mark that keeps runs from starting always comes down again.            *)
PowerReturns == \A p \in Requests : inflight = p ~> inflight # p
=============================================================================
