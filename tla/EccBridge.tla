------------------------------ MODULE EccBridge ------------------------------
(* The ecc-bridge process: a REP socket for the controller                     *)
(* (src/src/bin/ecc_bridge.rs), the proxy that keeps one Ice connection and    *)
(* makes it anew when it was lost (src/src/ecc/proxy.rs, src/src/ice/client.rs)*)
(* and the ECC it talks to.  The ECC is external; what it does with an action  *)
(* is the transition table of src/src/ecc/core.rs.                             *)
EXTENDS Integers, Sequences, FiniteSets

CONSTANTS
  MaxRequests,     \* bound: JSON requests served
  MaxEccFaults,    \* bound: irregular answers, lost connections, deaths
  MaxRequestId     \* i32::MAX, after which request ids start again at 1

ASSUME EccAssumption ==
  /\ MaxRequests \in Nat /\ MaxEccFaults \in Nat /\ MaxRequestId \in Nat \ {0, 1}

EccStates == {"Off", "Idle", "Described", "Prepared", "Ready", "Running", "Paused"}
EccActions == {"describe", "prepare", "configure", "start", "stop", "breakup", "reset"}

(* next_state: where an action leads, and what becomes of it.                 *)
NextState(from, a) ==
  LET applied(s) == [step |-> "Applied", next |-> s]
      stay(step) == [step |-> step, next |-> from]
  IN  CASE a = "status" -> stay("Applied")
        [] a = "reset" /\ from = "Described" -> applied("Idle")
        [] a = "reset" /\ from = "Prepared" -> applied("Described")
        [] a = "breakup" /\ from \in {"Ready", "Running", "Paused"} -> applied("Prepared")
        [] a = "configure" /\ from = "Prepared" -> applied("Ready")
        [] a = "describe" /\ from \in {"Off", "Idle", "Described"} -> applied("Described")
        [] a = "prepare" /\ from \in {"Described", "Prepared"} -> applied("Prepared")
        [] a = "start" /\ from = "Ready" -> applied("Running")
        [] a = "stop" /\ from \in {"Running", "Paused"} -> applied("Ready")
        [] OTHER -> stay(IF a \in {"reset", "breakup", "configure"} THEN "Ignored" ELSE "Denied")

(* A JSON request by what parse_request looks at.                             *)
JsonRequest ==
  [object : BOOLEAN, action : EccActions \union {"status", "", "other"},
   config_id : {"absent", "text", "empty"}, links : {"absent", "empty", "good", "bad"}]

(* parse_request: an object, a known action, a config_id that is absent or    *)
(* text, links that are absent or all well formed, and some for configure.    *)
ParseRequest(q) ==
  /\ q.object /\ q.action \in EccActions \union {"status"}
  /\ q.config_id # "empty" /\ q.links # "bad"
  /\ q.action = "configure" => q.links = "good"

VARIABLES
  bridge,    \* the process: pc, todo (proxy calls left), connection, request
  link,      \* the connection's two directions, and whether it is up
  orphans,   \* requests of dropped connections the ECC may still dispatch
  device,    \* the ECC's state
  served,    \* per request: what it asked, and its answer
  executed,  \* history: how often the ECC executed the action of a request
  during,    \* history: the states of the ECC since the request in hand came
  eccFaults  \* faults so far

eccVars == <<bridge, link, orphans, device, served, executed, during, eccFaults>>

NoLink == [up |-> FALSE, out |-> << >>, in |-> << >>, last |-> << >>]

EccInitAt(pc) ==
  /\ bridge = [pc |-> pc, todo |-> << >>, connected |-> FALSE, next_id |-> 1, wait |-> 0,
               ok |-> FALSE, state |-> "Unknown"]
  /\ link = NoLink /\ orphans = << >>
  /\ device \in {"Idle", "Ready"}
  /\ served = << >> /\ executed = << >> /\ during = {}
  /\ eccFaults = 0

EccInit == EccInitAt("call")

-----------------------------------------------------------------------------
(* The bridge                                                                 *)

Request == Len(served)

(* rep.recv_bytes and parse_request; a refused request is still answered with *)
(* the state of the ECC.                                                      *)
Recv(q) ==
  /\ bridge.pc = "recv" /\ Request < MaxRequests
  /\ LET good == ParseRequest(q)
         act  == good /\ q.action # "status"
     IN  /\ bridge' = [bridge EXCEPT !.pc = "call", !.ok = good, !.state = "Unknown",
                         !.todo = IF act THEN <<q.action, "getStatus">> ELSE <<"getStatus">>]
         /\ served' = Append(served, [action |-> IF act THEN q.action
                                                 ELSE IF good THEN "status" ELSE "refused",
                                      ok |-> FALSE, state |-> "Unknown", done |-> FALSE])
         /\ executed' = Append(executed, 0)
  /\ during' = {device}
  /\ UNCHANGED <<link, orphans, device, eccFaults>>

(* take_request_id                                                            *)
TakeId(id) == IF id = MaxRequestId THEN 1 ELSE id + 1

(* invoke, up to the wait for the reply.                                      *)
Invoke(b, l, op) ==
  /\ bridge' = [b EXCEPT !.pc = "wait", !.wait = b.next_id, !.next_id = TakeId(b.next_id)]
  /\ link' = IF l.up THEN [l EXCEPT !.out = Append(@, [id |-> b.next_id, op |-> op, n |-> Request])]
             ELSE l

(* The attempt to connect that precedes the first request has no call.        *)
AtStart(b) == b.todo = << >>

(* What a proxy call returned: dispatch decides ok, get_status the state and, *)
(* for a status request, ok as well.                                          *)
Returned(b, good, state) ==
  LET status == served[Request].action = "status"
      last == Len(b.todo) = 1
  IN  IF AtStart(b) THEN [b EXCEPT !.pc = "recv", !.wait = 0]
      ELSE [b EXCEPT !.todo = Tail(@), !.pc = IF last THEN "reply" ELSE "call", !.wait = 0,
                !.ok = IF served[Request].action = "refused" THEN FALSE
                       ELSE IF last /\ ~status THEN @ ELSE good,
                !.state = IF last THEN state ELSE @]

(* The connection is given up; requests underway may still be dispatched.     *)
DropLink ==
  /\ link' = NoLink
  /\ orphans' = orphans \o link.out

(* Mutant: a call whose connection was lost is made once more.                *)
CallFails_Retries(b) ==
  bridge' = [b EXCEPT !.pc = "call", !.connected = FALSE, !.wait = 0]

(* fail: the call returns an error, its connection is gone.                   *)
CallFails(b) == bridge' = [Returned(b, FALSE, "Unknown") EXCEPT !.connected = FALSE]

(* call without a connection: resolve, TCP connect and the wait for           *)
(* ValidateConnection, which a timeout bounds; then ice_ping.                 *)
Connect ==
  /\ bridge.pc = "call" /\ ~bridge.connected
  /\ Invoke([bridge EXCEPT !.next_id = 1], [NoLink EXCEPT !.up = TRUE], "ice_ping")
  /\ UNCHANGED <<orphans, device, served, executed, during, eccFaults>>

ConnectFails ==
  /\ bridge.pc = "call" /\ ~bridge.connected /\ eccFaults < MaxEccFaults
  /\ bridge' = Returned(bridge, FALSE, "Unknown")
  /\ eccFaults' = eccFaults + 1
  /\ UNCHANGED <<link, orphans, device, served, executed, during>>

Call ==
  /\ bridge.pc = "call" /\ bridge.connected
  /\ Invoke(bridge, link, Head(bridge.todo))
  /\ UNCHANGED <<orphans, device, served, executed, during, eccFaults>>

Awaiting == bridge.pc = "wait" /\ link.in # << >>
Pop == [link EXCEPT !.in = Tail(@)]

(* A reply to what was asked.                                                 *)
ReadReply(m) == m.type \in {"Ok", "UserException", "Trailing"} /\ m.id = bridge.wait

(* After ice_ping the connection is kept and the call itself follows.  A      *)
(* getStatus reply with trailing bytes is an error that keeps the connection; *)
(* so is a user exception, but not of ping.                                   *)
TakeReply ==
  /\ Awaiting /\ ReadReply(Head(link.in))
  /\ LET m == Head(link.in) IN
       IF bridge.connected
       THEN /\ bridge' = Returned(bridge, m.type = "Ok", IF m.type = "Ok" THEN m.state ELSE "Unknown")
            /\ link' = Pop /\ UNCHANGED orphans
       ELSE IF m.type # "UserException"
            THEN /\ bridge' = [bridge EXCEPT !.pc = IF AtStart(bridge) THEN "recv" ELSE "call",
                                          !.connected = TRUE, !.wait = 0]
                 /\ link' = Pop /\ UNCHANGED orphans
            ELSE CallFails(bridge) /\ DropLink
  /\ UNCHANGED <<device, served, executed, during, eccFaults>>

(* ValidateConnection while waiting is a heartbeat.                           *)
TakeHeartbeat ==
  /\ Awaiting /\ Head(link.in).type = "ValidateConnection"
  /\ link' = Pop
  /\ UNCHANGED <<bridge, orphans, device, served, executed, during, eccFaults>>

(* Every other message, a reply with another id, CloseConnection, a message   *)
(* that does not parse, a request the server did not dispatch: the call fails *)
(* and the connection is dropped.                                             *)
TakeBroken ==
  /\ Awaiting /\ Head(link.in).type # "ValidateConnection" /\ ~ReadReply(Head(link.in))
  /\ CallFails(bridge) /\ DropLink
  /\ UNCHANGED <<device, served, executed, during, eccFaults>>

(* Mutant: the wait goes on over the end of the connection.                   *)
TakeEof_Waits ==
  /\ bridge.pc = "wait" /\ link.in = << >> /\ ~link.up
  /\ UNCHANGED eccVars

(* read_exact meets the end of the connection, or the write failed.           *)
TakeEof ==
  /\ bridge.pc = "wait" /\ link.in = << >> /\ ~link.up
  /\ CallFails(bridge) /\ DropLink
  /\ UNCHANGED <<device, served, executed, during, eccFaults>>

MakeResponse ==
  [served EXCEPT ![Request].done = TRUE, ![Request].ok = bridge.ok, ![Request].state = bridge.state]

(* make_response and rep.send.                                                *)
Reply ==
  /\ bridge.pc = "reply"
  /\ served' = MakeResponse
  /\ bridge' = [bridge EXCEPT !.pc = "recv"]
  /\ UNCHANGED <<link, orphans, device, executed, during, eccFaults>>

(* SIGTERM between two requests, or a death anywhere; the next process begins *)
(* by connecting and the request in hand stays unanswered.                    *)
BridgeRestarts ==
  /\ eccFaults < MaxEccFaults
  /\ bridge' = [bridge EXCEPT !.pc = "call", !.todo = << >>, !.connected = FALSE, !.next_id = 1,
                              !.wait = 0]
  /\ DropLink
  /\ eccFaults' = eccFaults + 1
  /\ UNCHANGED <<device, served, executed, during>>

-----------------------------------------------------------------------------
(* The ECC                                                                    *)

(* A dispatched request acts on the state machine.                            *)
Execute(r) ==
  LET t == NextState(device, IF r.op \in EccActions THEN r.op ELSE "status")
  IN  /\ device' = t.next
      /\ during' = during \union {t.next}
      /\ executed' = IF r.op \in EccActions /\ t.step # "Denied"
                     THEN [executed EXCEPT ![r.n] = @ + 1] ELSE executed

EccAnswer(r) ==
  LET t == NextState(device, IF r.op \in EccActions THEN r.op ELSE "status")
  IN  [id |-> r.id, type |-> IF t.step = "Denied" THEN "UserException" ELSE "Ok", state |-> device]

(* A reply leaves; the last one is remembered for a duplicate.                *)
Sent(m) == [link EXCEPT !.out = Tail(@), !.in = Append(@, m), !.last = <<m>>]

Dispatch ==
  /\ link.up /\ link.out # << >>
  /\ Execute(Head(link.out))
  /\ link' = Sent(EccAnswer(Head(link.out)))
  /\ UNCHANGED <<bridge, orphans, served, eccFaults>>

(* Requests of a connection that is gone are dispatched late, or never.       *)
DispatchOrphan ==
  /\ orphans # << >>
  /\ \/ Execute(Head(orphans)) \/ UNCHANGED <<device, executed, during>>
  /\ orphans' = Tail(orphans)
  /\ UNCHANGED <<bridge, link, served, eccFaults>>

(* Irregular messages: a heartbeat, CloseConnection, one that does not parse, *)
(* a second copy of the last reply.                                           *)
EccOddity ==
  /\ link.up /\ eccFaults < MaxEccFaults
  /\ \/ \E t \in {"ValidateConnection", "CloseConnection", "Garbage"} :
          link' = [link EXCEPT !.in = Append(@, [id |-> 0, type |-> t, state |-> device])]
     \/ link.last # << >> /\ link' = [link EXCEPT !.in = Append(@, link.last[1])]
  /\ eccFaults' = eccFaults + 1
  /\ UNCHANGED <<bridge, orphans, device, served, executed, during>>

(* A request that is answered without being executed: the servant throws, is  *)
(* not there, or a status has bytes that do not belong to it.                 *)
Misdispatch ==
  /\ link.up /\ link.out # << >> /\ eccFaults < MaxEccFaults
  /\ \E t \in {"UserException", "RequestFailed", "Trailing"} :
       /\ t = "Trailing" => Head(link.out).op = "getStatus"
       /\ link' = Sent([id |-> Head(link.out).id, type |-> t, state |-> device])
  /\ eccFaults' = eccFaults + 1
  /\ UNCHANGED <<bridge, orphans, device, served, executed, during>>

(* The connection is lost, with what is on its way to the ECC dispatched or   *)
(* not.                                                                       *)
ConnectionLost ==
  /\ link.up /\ eccFaults < MaxEccFaults
  /\ link' = [link EXCEPT !.up = FALSE, !.in = << >>]
  /\ eccFaults' = eccFaults + 1
  /\ UNCHANGED <<bridge, orphans, device, served, executed, during>>

EccNextStep ==
  \/ \E q \in JsonRequest : Recv(q)
  \/ Connect \/ ConnectFails \/ Call \/ TakeReply \/ TakeHeartbeat \/ TakeBroken \/ TakeEof \/ Reply
  \/ BridgeRestarts \/ Dispatch \/ DispatchOrphan \/ EccOddity \/ Misdispatch \/ ConnectionLost

EccSpec == EccInit /\ [][EccNextStep]_eccVars

(* What goes on being taken, with the ECC's Dispatch of what reaches it.      *)
(* invoke itself has no timeout: of an ECC that keeps the connection and      *)
(* never answers nothing can be promised.                                     *)
BridgeStep == Connect \/ Call \/ TakeReply \/ TakeHeartbeat \/ TakeBroken \/ TakeEof \/ Reply

-----------------------------------------------------------------------------
(* Type invariant.                                                            *)
EccTypeOK ==
  /\ bridge.pc \in {"recv", "call", "wait", "reply"} /\ bridge.next_id \in 1..MaxRequestId
  /\ bridge.wait \in 0..MaxRequestId /\ Len(bridge.todo) <= 2
  /\ bridge.state \in EccStates \union {"Unknown"} /\ device \in EccStates
  /\ Request \in 0..MaxRequests /\ DOMAIN executed = DOMAIN served

(* An action of the controller reaches the ECC at most once, although the     *)
(* proxy connects again by itself, a lost connection leaves it open whether   *)
(* the action was executed, and the bridge may be restarted: call never makes *)
(* a second attempt.  (A second start or configure would not be harmless.)    *)
AtMostOnce == \A n \in DOMAIN executed : executed[n] <= 1

(* An action answered with ok was executed by the ECC for this very request:  *)
(* no late, repeated or irregular message is taken for its reply.             *)
OkMeansExecuted ==
  \A n \in DOMAIN served :
    served[n].done /\ served[n].ok /\ served[n].action \in EccActions => executed[n] = 1

(* The state in an answer is one the ECC was in since the request came, or    *)
(* Unknown; the controller decides its walk-back by it.                       *)
ReportedStateIsFresh ==
  [][\A n \in DOMAIN served : served'[n].done /\ ~served[n].done
       => served'[n].state \in during \union {"Unknown"}]_eccVars

(* Every request is answered, or the bridge is restarted: lost connections    *)
(* and irregular messages do not leave the REP socket in the wrong half.      *)
BridgeAnswers == bridge.pc # "recv" ~> bridge.pc = "recv"

(* An action asked for is executed at most once, and was executed when the  *)
(* answer is ok, over lost connections, late replies and wrapped request    *)
(* ids (EccProxy::call, IceClient::read_reply).                             *)
ActionsOnce == EccTypeOK /\ AtMostOnce /\ OkMeansExecuted
=============================================================================
