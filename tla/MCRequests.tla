----------------------------- MODULE MCRequests -----------------------------
(* The controller's requests to the hardware for TLC; a behaviour follows the *)
(* ecc-bridge, its byte formats, or the power commands and the runs.          *)
EXTENDS EccBridge, Ice, Interlock

CONSTANT Parts   \* of "bridge", "ice", "power"

VARIABLE part

requestVars == <<part, eccVars, packet, vars>>

NoPacket == [kind |-> "links", value |-> << >>, bytes |-> << >>, damage |-> 0]

(* A part that is not followed keeps one first state.                         *)
RequestsInit ==
  /\ part \in Parts
  /\ IF part = "bridge" THEN EccInit ELSE EccInitAt("recv") /\ device = "Idle"
  /\ IF part = "ice" THEN IceInit ELSE packet = NoPacket
  /\ Init
  /\ part # "power" => /\ \A p \in Requests : cmd[p] = [device |-> "hivolta", on |-> TRUE]
                       /\ \A d \in Devices : power[d]
                       /\ prompt

Bridge(A) == part = "bridge" /\ A /\ UNCHANGED <<part, packet, vars>>
Switch(A) == part = "power" /\ A /\ UNCHANGED <<part, eccVars, packet>>

RequestsNext ==
  \/ Bridge(EccNextStep)
  \/ part = "ice" /\ IceNext /\ UNCHANGED <<part, eccVars, vars>>
  \/ Switch(Next)

RequestsSpec ==
  /\ RequestsInit /\ [][RequestsNext]_requestVars
  /\ WF_requestVars(Bridge(BridgeStep)) /\ WF_requestVars(Bridge(Dispatch))
  /\ WF_requestVars(Switch(PowerStep))

(* Every request comes to an answer: of the bridge, with a state the ECC    *)
(* was in while it was asked, and of the power path, so that runs are not   *)
(* blocked for ever (ecc_bridge.rs, power.rs).                              *)
RequestsAnswered == ReportedStateIsFresh /\ BridgeAnswers /\ PowerReturns
==============================================================================
