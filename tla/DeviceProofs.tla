----------------------------- MODULE DeviceProofs -----------------------------
(* Proofs about the programs that talk to hardware.                            *)
(* EccBridge: what the controller is told of an action, and how often the ECC  *)
(* executes it, for any number of requests, lost connections, irregular        *)
(* messages and deaths of the bridge.                                          *)
(* Interlock: the mark always names the one request that waits, and, as long   *)
(* as slowctl and its devices are prompt and the controller does not die, no   *)
(* switch that disturbs data taking happens outside phase Idle.                *)
(* Influx: every sample is written, counted as dropped or on its way, and what *)
(* is written is in the database as measured.                                  *)
(* Slowctl: the records of its log are all accounted for, in order, and true.  *)
EXTENDS EccBridge, Interlock, Influx, Slowctl, SequenceFacts, TLAPS

-----------------------------------------------------------------------------
(* The ecc-bridge                                                              *)

Ops == EccActions \cup {"getStatus", "ice_ping"}

IceRequest == [id : 1 .. MaxRequestId, op : Ops, n : Nat]
IceMessage == [id : 0 .. MaxRequestId, state : EccStates,
               type : {"Ok", "UserException", "Trailing", "RequestFailed",
                       "ValidateConnection", "CloseConnection", "Garbage"}]

BridgeType ==
  [pc : {"recv", "call", "wait", "reply"}, todo : Seq(Ops), connected : BOOLEAN,
   next_id : 1 .. MaxRequestId, wait : 0 .. MaxRequestId, ok : BOOLEAN,
   state : EccStates \cup {"Unknown"}]

LinkType ==
  [up : BOOLEAN, out : Seq(IceRequest), in : Seq(IceMessage), last : Seq(IceMessage)]

ServedType ==
  [action : EccActions \cup {"status", "refused"}, ok : BOOLEAN,
   state : EccStates \cup {"Unknown"}, done : BOOLEAN]

(* The process, the connection and the histories have their types.             *)
Types ==
  /\ bridge \in BridgeType /\ link \in LinkType /\ orphans \in Seq(IceRequest)
  /\ device \in EccStates /\ served \in Seq(ServedType) /\ executed \in Seq(0 .. 1)
  /\ Len(executed) = Len(served) /\ Len(served) <= MaxRequests /\ eccFaults \in Nat

(* The proxy calls that are left are those of the request in hand.             *)
Todo ==
  /\ \/ bridge.todo = << >>
     \/ bridge.todo = <<"getStatus">>
     \/ bridge.todo = <<served[Request].action, "getStatus">> /\ served[Request].action \in EccActions
  /\ bridge.todo # << >> => bridge.pc \in {"call", "wait"} /\ Request > 0
  /\ bridge.pc = "reply" => Request > 0
  /\ bridge.todo = << >> /\ bridge.pc \in {"call", "wait"} => ~bridge.connected

(* The action of the request in hand is still to be called.                    *)
ToBeCalled ==
  Len(bridge.todo) = 2 /\ (bridge.pc = "call" \/ ~bridge.connected)

(* The action of the request in hand has been called.                          *)
Called == Len(bridge.todo) = 1 \/ bridge.pc = "reply"

(* What waits for the ECC: at most one request on the connection, the one      *)
(* that is waited for.                                                         *)
OneRequest ==
  /\ link.out # << >> =>
       /\ Len(link.out) = 1 /\ bridge.pc = "wait"
       /\ link.out[1].id = bridge.wait
       /\ link.out[1].op = IF bridge.connected THEN bridge.todo[1] ELSE "ice_ping"
       /\ link.out[1].n = Request

(* An action that may still be executed has not been, and waits once.          *)
Unexecuted(r) == r.op \in EccActions => r.n \in 1 .. Request /\ executed[r.n] = 0

OrphansOnce ==
  /\ \A j \in DOMAIN orphans : Unexecuted(orphans[j])
  /\ \A j, k \in DOMAIN orphans :
       j # k /\ orphans[j].op \in EccActions /\ orphans[k].op \in EccActions => orphans[j].n # orphans[k].n

(* So for the action of the request in hand, called or still to be called.     *)
ActionOnce ==
  ToBeCalled \/ (link.out # << >> /\ link.out[1].op \in EccActions)
    => /\ executed[Request] = 0
       /\ \A k \in DOMAIN orphans : orphans[k].op \in EccActions => orphans[k].n # Request

(* What the ids tell: a message with the id that is waited for is the reply,   *)
(* or a copy of it, and only such messages and irregular ones follow it.       *)
Replies ==
  /\ Len(link.last) <= 1
  /\ bridge.pc # "wait" /\ bridge.connected =>
       /\ \A k \in DOMAIN link.in : link.in[k].id # bridge.next_id
       /\ link.last # << >> => link.last[1].id # bridge.next_id
  /\ bridge.pc # "wait" /\ ~bridge.connected => link = NoLink
  /\ ~link.up => link.in = << >>
  /\ bridge.pc = "wait" =>
       /\ bridge.wait > 0 /\ bridge.next_id = TakeId(bridge.wait)
       /\ \A k \in DOMAIN link.in : link.in[k].id = bridge.wait
            => link.last # << >> /\ link.in[k] = link.last[1]
       /\ link.last # << >> /\ link.last[1].id = bridge.wait => link.out = << >>
       /\ \A j, k \in DOMAIN link.in : j < k /\ link.in[j].id = bridge.wait
            => link.in[k].id \in {0, bridge.wait}

(* A reply that says the action was done comes after the ECC did it.           *)
Truthful ==
  /\ /\ bridge.pc = "wait" /\ bridge.connected /\ Len(bridge.todo) = 2
     /\ link.last # << >> /\ link.last[1].id = bridge.wait /\ link.last[1].type = "Ok"
     => executed[Request] = 1
  /\ Called /\ bridge.ok /\ served[Request].action \in EccActions => executed[Request] = 1
  /\ OkMeansExecuted

BridgeInv ==
  Types /\ Todo /\ OneRequest /\ OrphansOnce /\ ActionOnce /\ Replies /\ Truthful
-------------------------------------------------------------------------------
(* Sequences and ids                                                           *)

(* At most one request joins those that were left behind.                      *)
LEMMA JoinShort ==
  ASSUME NEW S, NEW s \in Seq(S), NEW t \in Seq(S), Len(t) <= 1
  PROVE  /\ t = << >> => s \o t = s
         /\ t # << >> => s \o t = Append(s, t[1])
<1>1. CASE t = << >>
  BY <1>1, ConcatEmptySeq
<1>2. CASE t # << >>
  <2>1. Len(t) = 1
    <3> DEFINE n == Len(t)
    <3>1. n \in Nat \ {0} /\ n <= 1
      BY <1>2, EmptySeq
    <3> HIDE DEF n
    <3>2. n = 1
      BY <3>1
    <3> QED
      BY <3>2 DEF n
  <2>2. t[1] \in S
    BY <2>1, ElementOfSeq
  <2>3. t = <<t[1]>>
    <3>1. <<t[1]>> \in Seq(S) /\ Len(<<t[1]>>) = 1 /\ <<t[1]>>[1] = t[1]
      BY <2>2
    <3> QED
      BY <2>1, <3>1, SeqEqual
  <2>4. Append(s, t[1]) = s \o <<t[1]>>
    BY <2>2, AppendIsConcat
  <2> QED
    BY <1>2, <2>3, <2>4
<1> QED
  BY <1>1, <1>2

(* The id after an id is another one: ids start again only after i32::MAX.     *)
LEMMA NextIdDiffers ==
  ASSUME NEW id \in 1 .. MaxRequestId
  PROVE  TakeId(id) \in 1 .. MaxRequestId /\ TakeId(id) # id
BY EccAssumption DEF TakeId

(* Where an action leads.                                                      *)
LEMMA NextStateType ==
  ASSUME NEW s \in EccStates, NEW a
  PROVE  NextState(s, a).next \in EccStates
BY DEF NextState, EccStates

-------------------------------------------------------------------------------
(* The end of a proxy call                                                     *)

(* What Returned makes of the process, by the calls that were left.            *)
Ended(b, good) ==
  /\ b \in BridgeType /\ b.next_id = bridge.next_id /\ b.wait = 0
  /\ bridge.todo = << >> => b.todo = << >> /\ b.pc = "recv"
  /\ Len(bridge.todo) = 1 =>
       /\ b.todo = << >> /\ b.pc = "reply"
       /\ served[Request].action \in EccActions => b.ok = bridge.ok
  /\ Len(bridge.todo) = 2 =>
       /\ b.todo = <<"getStatus">> /\ b.pc = "call" /\ b.ok = good

(* The calls that are left, by their number.                                   *)
LEMMA TodoShape ==
  ASSUME Types, Todo
  PROVE  /\ Len(bridge.todo) \in 0 .. 2
         /\ bridge.todo = << >> <=> Len(bridge.todo) = 0
         /\ Len(bridge.todo) = 1 => bridge.todo = <<"getStatus">> /\ Tail(bridge.todo) = << >>
                                    /\ bridge.todo[1] = "getStatus"
         /\ Len(bridge.todo) = 2 => /\ served[Request].action \in EccActions
                                    /\ bridge.todo[1] = served[Request].action
                                    /\ Tail(bridge.todo) = <<"getStatus">>
<1> DEFINE a == served[Request].action
<1>1. CASE bridge.todo = << >>
  BY <1>1
<1>2. CASE bridge.todo = <<"getStatus">>
  BY <1>2
<1>3. CASE bridge.todo = <<a, "getStatus">> /\ a \in EccActions
  <2> HIDE DEF a
  <2>1. Len(<<a, "getStatus">>) = 2 /\ <<a, "getStatus">>[1] = a /\ Tail(<<a, "getStatus">>) = <<"getStatus">>
        /\ <<a, "getStatus">> # << >>
    OBVIOUS
  <2> QED
    BY <1>3, <2>1 DEF a
<1> QED
  BY <1>1, <1>2, <1>3 DEF Todo

(* Returned, field by field.                                                   *)
LEMMA ReturnedShape ==
  ASSUME Types, Todo, NEW good \in BOOLEAN, NEW st \in EccStates \cup {"Unknown"}
  PROVE  /\ Ended(Returned(bridge, good, st), good)
         /\ Returned(bridge, good, st).connected = bridge.connected
<1> DEFINE b == Returned(bridge, good, st)
<1>0. bridge \in BridgeType /\ 0 \in 0 .. MaxRequestId
  BY EccAssumption DEF Types
<1>1. CASE bridge.todo = << >>
  <2>1. b = [bridge EXCEPT !.pc = "recv", !.wait = 0]
    BY <1>1 DEF Returned, AtStart
  <2> HIDE DEF b
  <2>2. b \in BridgeType /\ b.next_id = bridge.next_id /\ b.wait = 0 /\ b.todo = bridge.todo
        /\ b.pc = "recv" /\ b.connected = bridge.connected
    BY <1>0, <2>1 DEF BridgeType
  <2> QED
    BY <1>1, <2>2, TodoShape DEF Ended, b
<1>2. CASE Len(bridge.todo) = 1
  <2> DEFINE k == IF served[Request].action = "refused" THEN FALSE
                  ELSE IF served[Request].action # "status" THEN bridge.ok ELSE good
  <2>1. b = [bridge EXCEPT !.todo = << >>, !.pc = "reply", !.wait = 0, !.ok = k, !.state = st]
    <3>1. ~AtStart(bridge) /\ Tail(bridge.todo) = << >>
      BY <1>2, TodoShape DEF AtStart
    <3>2. b = [bridge EXCEPT !.todo = Tail(bridge.todo), !.pc = "reply", !.wait = 0, !.ok = k, !.state = st]
      BY <1>2, <3>1 DEF Returned
    <3> QED
      BY <3>1, <3>2
  <2>2. k \in BOOLEAN
    BY <1>0 DEF BridgeType
  <2>3. served[Request].action \in EccActions => k = bridge.ok
    BY DEF EccActions
  <2>4. << >> \in Seq(Ops)
    OBVIOUS
  <2> HIDE DEF b, k
  <2>5. b \in BridgeType /\ b.next_id = bridge.next_id /\ b.wait = 0 /\ b.todo = << >>
        /\ b.pc = "reply" /\ b.connected = bridge.connected /\ b.ok = k
    BY <1>0, <2>1, <2>2, <2>4 DEF BridgeType
  <2> QED
    BY <1>2, <2>3, <2>5, TodoShape DEF Ended, b
<1>3. CASE Len(bridge.todo) = 2
  <2>1. b = [bridge EXCEPT !.todo = <<"getStatus">>, !.pc = "call", !.wait = 0, !.ok = good]
    <3>1. ~AtStart(bridge) /\ Tail(bridge.todo) = <<"getStatus">> /\ served[Request].action # "refused"
      BY <1>3, TodoShape DEF AtStart, EccActions
    <3>2. b = [bridge EXCEPT !.todo = Tail(bridge.todo), !.pc = "call", !.wait = 0, !.ok = good,
                             !.state = bridge.state]
      BY <1>3, <3>1 DEF Returned
    <3>3. [bridge EXCEPT !.todo = Tail(bridge.todo), !.pc = "call", !.wait = 0, !.ok = good,
                         !.state = bridge.state]
           = [bridge EXCEPT !.todo = Tail(bridge.todo), !.pc = "call", !.wait = 0, !.ok = good]
      BY <1>0 DEF BridgeType
    <3> QED
      BY <3>1, <3>2, <3>3
  <2>2. <<"getStatus">> \in Seq(Ops)
    BY DEF Ops
  <2> HIDE DEF b
  <2>3. b \in BridgeType /\ b.next_id = bridge.next_id /\ b.wait = 0 /\ b.todo = <<"getStatus">>
        /\ b.pc = "call" /\ b.connected = bridge.connected /\ b.ok = good
    BY <1>0, <2>1, <2>2 DEF BridgeType
  <2> QED
    BY <1>3, <2>3, TodoShape DEF Ended, b
<1> QED
  BY <1>1, <1>2, <1>3, TodoShape

-------------------------------------------------------------------------------
(* The request in hand                                                         *)

(* The histories reach up to the request in hand.                              *)
LEMMA RequestShape ==
  ASSUME Types
  PROVE  /\ Request \in Nat /\ Request <= MaxRequests
         /\ DOMAIN served = 1 .. Request /\ DOMAIN executed = 1 .. Request
         /\ \A n \in 1 .. Request : served[n] \in ServedType /\ executed[n] \in 0 .. 1
<1> DEFINE n == Len(served)
<1>1. /\ n \in Nat /\ n <= MaxRequests /\ DOMAIN served = 1 .. n
      /\ \A i \in 1 .. n : served[i] \in ServedType
  BY DEF Types
<1>2. DOMAIN executed = 1 .. Len(executed) /\ \A i \in 1 .. Len(executed) : executed[i] \in 0 .. 1
  BY DEF Types
<1> QED
  BY <1>1, <1>2 DEF Types, Request

(* The request on the connection joins those of earlier connections.           *)
LEMMA OrphansJoin ==
  ASSUME BridgeInv, orphans' = orphans \o link.out, UNCHANGED <<served, executed>>
  PROVE  orphans' \in Seq(IceRequest) /\ OrphansOnce'
<1>0. /\ orphans \in Seq(IceRequest) /\ link.out \in Seq(IceRequest)
      /\ link.out # << >> => Len(link.out) = 1
  BY DEF BridgeInv, Types, LinkType, OneRequest
<1>1. CASE link.out = << >>
  <2>1. orphans' = orphans
    BY <1>0, <1>1, ConcatEmptySeq
  <2> QED
    BY <1>0, <2>1 DEF BridgeInv, OrphansOnce, Unexecuted, Request
<1>2. CASE link.out # << >>
  <2> DEFINE r == link.out[1]
             n == Len(orphans)
  <2>1. r \in IceRequest
    BY <1>0, <1>2, ElementOfSeq
  <2>2. orphans' = Append(orphans, r)
    BY <1>0, <1>2, JoinShort, SMTT(30)
  <2>3. /\ n \in Nat /\ DOMAIN orphans = 1 .. n /\ DOMAIN orphans' = 1 .. n + 1
        /\ \A i \in 1 .. n : orphans'[i] = orphans[i]
        /\ orphans'[n + 1] = r
    BY <1>0, <2>2, AppendShape
  <2>4. r.op \in EccActions => /\ r.n = Request /\ r.n \in 1 .. Request /\ executed[r.n] = 0
                               /\ \A k \in 1 .. n : orphans[k].op \in EccActions => orphans[k].n # r.n
    <3>1. Request \in Nat
      BY RequestShape DEF BridgeInv
    <3>2. r.n = Request /\ (r.op \in EccActions => bridge.connected /\ bridge.todo # << >>)
      BY <1>2, TodoShape DEF BridgeInv, OneRequest, Todo, EccActions
    <3>3. bridge.todo # << >> => Request > 0
      BY DEF BridgeInv, Todo
    <3>4. r.op \in EccActions => Request \in 1 .. Request
      BY <3>1, <3>2, <3>3
    <3>5. r.op \in EccActions =>
            /\ executed[Request] = 0
            /\ \A k \in DOMAIN orphans : orphans[k].op \in EccActions => orphans[k].n # Request
      BY <1>2 DEF BridgeInv, ActionOnce
    <3> HIDE DEF n, r
    <3> QED
      BY <2>3, <3>2, <3>4, <3>5
  <2>5. orphans' \in Seq(IceRequest)
    BY <1>0, <2>1, <2>2, AppendProperties
  <2>6. Request' = Request /\ executed' = executed
    BY DEF Request
  <2> HIDE DEF r, n
  <2>7. (\A j \in DOMAIN orphans : Unexecuted(orphans[j]))'
    BY <2>3, <2>4, <2>6 DEF BridgeInv, OrphansOnce, Unexecuted
  <2>8. ASSUME NEW j \in DOMAIN orphans', NEW k \in DOMAIN orphans', j # k,
               orphans'[j].op \in EccActions, orphans'[k].op \in EccActions
        PROVE  orphans'[j].n # orphans'[k].n
    BY <2>3, <2>4, <2>8 DEF BridgeInv, OrphansOnce
  <2> QED
    BY <2>5, <2>7, <2>8 DEF OrphansOnce
<1> QED
  BY <1>1, <1>2

(* A call that ended with its connection.                                      *)
LEMMA CallEnds ==
  ASSUME BridgeInv, Ended(bridge', FALSE), ~bridge'.connected, link' = NoLink,
         orphans' = orphans \o link.out, UNCHANGED <<device, served, executed>>, eccFaults' \in Nat
  PROVE  BridgeInv'
<1>0. Types /\ Todo /\ Request' = Request /\ Request \in Nat
  BY RequestShape DEF BridgeInv, Request
<1>1. link' \in LinkType /\ link'.out = << >> /\ link'.in = << >> /\ link'.last = << >> /\ ~link'.up
  <2>1. << >> \in Seq(IceRequest) /\ << >> \in Seq(IceMessage)
    OBVIOUS
  <2> QED
    BY <2>1 DEF NoLink, LinkType
<1>2. orphans' \in Seq(IceRequest) /\ OrphansOnce'
  BY OrphansJoin
<1>3. Types'
  BY <1>1, <1>2 DEF BridgeInv, Types, Ended
<1>4. /\ bridge'.todo = << >> \/ bridge'.todo = <<"getStatus">>
      /\ bridge'.pc # "wait" /\ Len(bridge'.todo) # 2
      /\ bridge'.todo # << >> => Request > 0 /\ bridge'.pc = "call" /\ ~bridge'.ok
      /\ bridge'.pc = "reply" => Request > 0
      /\ Called' /\ bridge'.ok /\ served[Request].action \in EccActions => Called /\ bridge.ok
  <2>1. Len(bridge.todo) \in 0 .. 2 /\ (bridge.todo = << >> <=> Len(bridge.todo) = 0)
    BY <1>0, TodoShape
  <2>2. bridge.todo # << >> => Request > 0
    BY <1>0 DEF Todo
  <2>3. Len(<< >>) = 0 /\ Len(<<"getStatus">>) = 1 /\ <<"getStatus">> # << >>
    OBVIOUS
  <2>4. CASE bridge.todo = << >>
    BY <2>3, <2>4 DEF Ended, Called
  <2>5. CASE Len(bridge.todo) = 1
    <3>1. /\ bridge'.todo = << >> /\ bridge'.pc = "reply" /\ Request > 0 /\ Called
          /\ served[Request].action \in EccActions => bridge'.ok = bridge.ok
      BY <2>1, <2>2, <2>5 DEF Ended, Called
    <3>2. Len(bridge'.todo) # 2
      BY <2>3, <3>1
    <3> QED
      BY <3>1, <3>2, Zenon
  <2>6. CASE Len(bridge.todo) = 2
    BY <2>1, <2>2, <2>3, <2>6 DEF Ended, Called
  <2> QED
    BY <2>1, <2>4, <2>5, <2>6
<1>5. Todo'
  BY <1>0, <1>4 DEF Todo
<1>6. OneRequest' /\ ActionOnce'
  BY <1>1, <1>4 DEF OneRequest, ActionOnce, ToBeCalled
<1>7. Replies'
  <2>1. Len(<< >>) = 0
    OBVIOUS
  <2> QED
    BY <1>1, <1>4, <2>1 DEF Replies, NoLink
<1>8. Truthful'
  BY <1>0, <1>4 DEF BridgeInv, Truthful, OkMeansExecuted
<1> QED
  BY <1>2, <1>3, <1>5, <1>6, <1>7, <1>8 DEF BridgeInv

-------------------------------------------------------------------------------
(* The steps of the bridge                                                     *)

(* CallFails with the connection given up.                                     *)
LEMMA FailEnds ==
  ASSUME BridgeInv, CallFails(bridge), DropLink, UNCHANGED <<device, served, executed, eccFaults>>
  PROVE  BridgeInv'
<1> DEFINE b == Returned(bridge, FALSE, "Unknown")
<1>1. Ended(b, FALSE)
  BY ReturnedShape DEF BridgeInv
<1>2. bridge' = [b EXCEPT !.connected = FALSE]
  BY DEF CallFails
<1>3. Ended(bridge', FALSE) /\ ~bridge'.connected
  <2> HIDE DEF b
  <2>1. b \in BridgeType
    BY <1>1 DEF Ended
  <2>2. /\ bridge' \in BridgeType /\ bridge'.connected = FALSE
        /\ bridge'.next_id = b.next_id /\ bridge'.wait = b.wait /\ bridge'.todo = b.todo
        /\ bridge'.pc = b.pc /\ bridge'.ok = b.ok
    BY <1>2, <2>1 DEF BridgeType
  <2> QED
    BY <1>1, <2>2 DEF Ended
<1>4. link' = NoLink /\ orphans' = orphans \o link.out /\ eccFaults' \in Nat
  BY DEF DropLink, BridgeInv, Types
<1> QED
  BY <1>3, <1>4, CallEnds

(* A message that is no answer, or the end of the connection.                  *)
LEMMA BrokenStep ==
  ASSUME BridgeInv, TakeBroken \/ TakeEof
  PROVE  BridgeInv'
BY FailEnds DEF TakeBroken, TakeEof

(* No connection comes about.                                                  *)
LEMMA ConnectFailsStep ==
  ASSUME BridgeInv, ConnectFails
  PROVE  BridgeInv'
<1>1. /\ bridge' = Returned(bridge, FALSE, "Unknown") /\ link = NoLink /\ link' = NoLink
      /\ orphans' = orphans /\ ~bridge.connected /\ UNCHANGED <<device, served, executed>>
  BY DEF ConnectFails, BridgeInv, Replies
<1>2. Ended(bridge', FALSE) /\ ~bridge'.connected
  BY <1>1, ReturnedShape DEF BridgeInv
<1>3. orphans' = orphans \o link.out
  <2>1. link.out = << >> /\ orphans \in Seq(IceRequest)
    BY <1>1 DEF NoLink, BridgeInv, Types
  <2> QED
    BY <1>1, <2>1, ConcatEmptySeq
<1>4. eccFaults' \in Nat
  BY DEF ConnectFails, BridgeInv, Types
<1> QED
  BY <1>1, <1>2, <1>3, <1>4, CallEnds

(* The bridge dies with its connection; the next process connects first.       *)
LEMMA RestartStep ==
  ASSUME BridgeInv, BridgeRestarts
  PROVE  BridgeInv'
<1>0. bridge \in BridgeType /\ eccFaults \in Nat /\ 0 \in 0 .. MaxRequestId /\ 1 \in 1 .. MaxRequestId
  BY EccAssumption DEF BridgeInv, Types
<1>1. /\ bridge' \in BridgeType /\ bridge'.pc = "call" /\ bridge'.todo = << >>
      /\ bridge'.connected = FALSE
  <2>1. << >> \in Seq(Ops)
    OBVIOUS
  <2> QED
    BY <1>0, <2>1 DEF BridgeRestarts, BridgeType
<1>2. link' = NoLink /\ orphans' = orphans \o link.out /\ UNCHANGED <<device, served, executed>>
  BY DEF BridgeRestarts, DropLink
<1>3. /\ link' \in LinkType /\ link'.out = << >> /\ link'.in = << >> /\ link'.last = << >>
      /\ ~link'.up
  <2>1. << >> \in Seq(IceRequest) /\ << >> \in Seq(IceMessage)
    OBVIOUS
  <2> QED
    BY <1>2, <2>1 DEF NoLink, LinkType
<1>4. orphans' \in Seq(IceRequest) /\ OrphansOnce'
  BY <1>2, OrphansJoin
<1>5. eccFaults' \in Nat
  BY <1>0 DEF BridgeRestarts
<1>6. Types'
  BY <1>1, <1>2, <1>3, <1>4, <1>5 DEF BridgeInv, Types
<1>7. Len(<< >>) = 0
  OBVIOUS
<1>8. Todo' /\ OneRequest' /\ ActionOnce'
  BY <1>1, <1>3, <1>7 DEF Todo, OneRequest, ActionOnce, ToBeCalled
<1>9. Replies'
  BY <1>1, <1>2, <1>3, <1>7 DEF Replies
<1>10. Truthful'
  BY <1>1, <1>2, <1>7 DEF BridgeInv, Truthful, OkMeansExecuted, Called
<1> QED
  BY <1>4, <1>6, <1>8, <1>9, <1>10 DEF BridgeInv

(* The histories with one more request.                                        *)
LEMMA RequestGrows ==
  ASSUME Types, Request < MaxRequests, NEW s \in ServedType,
         served' = Append(served, s), executed' = Append(executed, 0)
  PROVE  /\ Request \in Nat /\ Request' = Request + 1
         /\ served' \in Seq(ServedType) /\ executed' \in Seq(0 .. 1)
         /\ Len(executed') = Len(served') /\ Len(served') <= MaxRequests
         /\ served'[Request + 1] = s /\ executed'[Request + 1] = 0
         /\ \A n \in 1 .. Request : served'[n] = served[n] /\ executed'[n] = executed[n]
         /\ DOMAIN served' = 1 .. Request + 1
<1>0. 0 \in 0 .. 1 /\ MaxRequests \in Nat
  BY EccAssumption
<1>1. served \in Seq(ServedType) /\ executed \in Seq(0 .. 1) /\ Len(executed) = Len(served)
  BY DEF Types
<1>2. /\ Len(served) \in Nat /\ Len(served') = Len(served) + 1 /\ served' \in Seq(ServedType)
      /\ DOMAIN served' = 1 .. Len(served) + 1
      /\ \A n \in 1 .. Len(served) : served'[n] = served[n]
      /\ served'[Len(served) + 1] = s
  BY <1>1, AppendShape, AppendProperties
<1>3. /\ Len(executed') = Len(executed) + 1 /\ executed' \in Seq(0 .. 1)
      /\ \A n \in 1 .. Len(executed) : executed'[n] = executed[n]
      /\ executed'[Len(executed) + 1] = 0
  BY <1>0, <1>1, AppendShape, AppendProperties
<1> QED
  BY <1>0, <1>1, <1>2, <1>3 DEF Request

(* A request comes in, with its calls still to be made.                        *)
LEMMA RecvStep ==
  ASSUME BridgeInv, NEW q \in JsonRequest, Recv(q)
  PROVE  BridgeInv'
<1> DEFINE good == ParseRequest(q)
           act  == good /\ q.action # "status"
           name == IF act THEN q.action ELSE IF good THEN "status" ELSE "refused"
           s    == [action |-> name, ok |-> FALSE, state |-> "Unknown", done |-> FALSE]
           todo == IF act THEN <<q.action, "getStatus">> ELSE <<"getStatus">>
<1>0. Types /\ bridge \in BridgeType
  BY DEF BridgeInv, Types
<1>1. /\ bridge.pc = "recv" /\ Request < MaxRequests /\ UNCHANGED <<link, orphans, device, eccFaults>>
      /\ bridge' = [bridge EXCEPT !.pc = "call", !.ok = good, !.state = "Unknown", !.todo = todo]
      /\ served' = Append(served, s) /\ executed' = Append(executed, 0)
  BY DEF Recv
<1>2. good \in BOOLEAN /\ (act => q.action \in EccActions)
  BY DEF ParseRequest, EccActions
<1>3. /\ name \in EccActions \cup {"status", "refused"} /\ (act => name = q.action)
      /\ ~act => name \notin EccActions
  BY <1>2 DEF EccActions
<1>4. s \in ServedType /\ s.action = name /\ s.done = FALSE
  BY <1>3 DEF ServedType
<1>5. /\ todo \in Seq(Ops) /\ (act => todo = <<name, "getStatus">> /\ name \in EccActions)
      /\ ~act => todo = <<"getStatus">>
  <2>1. act => <<q.action, "getStatus">> \in Seq(Ops)
    BY <1>2 DEF Ops
  <2>2. <<"getStatus">> \in Seq(Ops)
    BY DEF Ops
  <2> QED
    BY <1>2, <1>3, <2>1, <2>2
<1> HIDE DEF good, act, name, s, todo
<1>6. /\ bridge' \in BridgeType /\ bridge'.pc = "call" /\ bridge'.todo = todo
      /\ bridge'.connected = bridge.connected /\ bridge'.next_id = bridge.next_id
  BY <1>0, <1>1, <1>2, <1>5 DEF BridgeType
<1>7. /\ Request \in Nat /\ Request' = Request + 1
      /\ served' \in Seq(ServedType) /\ executed' \in Seq(0 .. 1)
      /\ Len(executed') = Len(served') /\ Len(served') <= MaxRequests
      /\ served'[Request + 1] = s /\ executed'[Request + 1] = 0
      /\ \A n \in 1 .. Request : served'[n] = served[n] /\ executed'[n] = executed[n]
      /\ DOMAIN served' = 1 .. Request + 1
  BY <1>0, <1>1, <1>4, RequestGrows
<1>8. Types'
  BY <1>1, <1>6, <1>7 DEF BridgeInv, Types
<1>9. link.out = << >>
  BY <1>1 DEF BridgeInv, OneRequest
<1>10. bridge.todo = << >> /\ (bridge'.todo = << >> => bridge.connected = FALSE) /\ todo # << >>
       /\ Len(todo) \in {1, 2} /\ (~act => Len(todo) = 1) /\ (act => Len(todo) = 2)
  <2>1. <<name, "getStatus">> # << >> /\ <<"getStatus">> # << >>
        /\ Len(<<name, "getStatus">>) = 2 /\ Len(<<"getStatus">>) = 1
    OBVIOUS
  <2> QED
    BY <1>1, <1>5, <1>6, <2>1 DEF BridgeInv, Todo
<1>11. Todo'
  BY <1>4, <1>5, <1>6, <1>7, <1>10 DEF Todo
<1>12. OneRequest'
  BY <1>1, <1>9 DEF OneRequest
<1>13. OrphansOnce'
  <2>1. (\A j \in DOMAIN orphans : Unexecuted(orphans[j]))'
    BY <1>1, <1>7 DEF BridgeInv, OrphansOnce, Unexecuted
  <2> QED
    BY <1>1, <2>1 DEF BridgeInv, OrphansOnce
<1>14. ActionOnce'
  <2>1. \A k \in DOMAIN orphans : orphans[k].op \in EccActions => orphans[k].n # Request + 1
    BY <1>7 DEF BridgeInv, OrphansOnce, Unexecuted
  <2> QED
    BY <1>1, <1>7, <2>1 DEF ActionOnce
<1>15. Replies'
  BY <1>1, <1>6 DEF BridgeInv, Replies
<1>16. Truthful'
  <2>1. OkMeansExecuted'
    <3> SUFFICES ASSUME NEW n \in DOMAIN served', served'[n].done, served'[n].ok,
                        served'[n].action \in EccActions
                 PROVE  executed'[n] = 1
      BY DEF OkMeansExecuted
    <3>1. n \in 1 .. Request
      BY <1>4, <1>7
    <3> QED
      BY <1>0, <1>7, <3>1, RequestShape DEF BridgeInv, Truthful, OkMeansExecuted
  <2>2. ~(Called' /\ served'[Request'].action \in EccActions)
    <3>1. served'[Request'].action = name
      BY <1>4, <1>7
    <3>2. act => ~Called'
      BY <1>6, <1>10 DEF Called
    <3> QED
      BY <1>3, <3>1, <3>2
  <2> QED
    BY <1>6, <2>1, <2>2 DEF Truthful
<1> QED
  BY <1>8, <1>11, <1>12, <1>13, <1>14, <1>15, <1>16 DEF BridgeInv

(* What invoke does with a connection that is up: the request goes out alone,  *)
(* with an id that no message in sight carries.                                *)
LEMMA InvokeSends ==
  ASSUME NEW l \in LinkType, NEW id \in 1 .. MaxRequestId, NEW op \in Ops, Types, l.out = << >>,
         link' = IF l.up THEN [l EXCEPT !.out = Append(@, [id |-> id, op |-> op, n |-> Request])] ELSE l
  PROVE  /\ link' \in LinkType /\ link'.up = l.up /\ link'.in = l.in /\ link'.last = l.last
         /\ link'.out # << >> => /\ Len(link'.out) = 1
                                 /\ link'.out[1] = [id |-> id, op |-> op, n |-> Request]
<1> DEFINE r == [id |-> id, op |-> op, n |-> Request]
           o == Append(l.out, r)
<1>1. r \in IceRequest
  BY RequestShape DEF IceRequest
<1>2. o \in Seq(IceRequest) /\ Len(o) = 1 /\ o[1] = r
  <2>1. l.out \in Seq(IceRequest) /\ Len(l.out) = 0
    BY DEF LinkType
  <2> HIDE DEF r
  <2> QED
    BY <1>1, <2>1
<1> HIDE DEF r, o
<1>3. CASE l.up
  <2>1. link' = [l EXCEPT !.out = o]
    BY <1>3 DEF r, o
  <2>2. link' \in LinkType /\ link'.up = l.up /\ link'.in = l.in /\ link'.last = l.last /\ link'.out = o
    BY <1>2, <2>1 DEF LinkType
  <2> QED
    BY <1>2, <2>2 DEF r
<1>4. CASE ~l.up
  BY <1>4
<1> QED
  BY <1>3, <1>4

(* A new connection, and ice_ping on it.                                       *)
LEMMA ConnectStep ==
  ASSUME BridgeInv, Connect
  PROVE  BridgeInv'
<1> DEFINE l == [NoLink EXCEPT !.up = TRUE]
<1>0. /\ Types /\ bridge \in BridgeType /\ bridge.pc = "call" /\ ~bridge.connected
      /\ 1 \in 1 .. MaxRequestId /\ 1 \in 0 .. MaxRequestId /\ Request' = Request
      /\ UNCHANGED <<orphans, device, served, executed, eccFaults>>
  BY EccAssumption DEF BridgeInv, Types, Connect, Request
<1>1. TakeId(1) \in 1 .. MaxRequestId
  BY <1>0, NextIdDiffers
<1>2. /\ l \in LinkType /\ l.up = TRUE /\ l.out = << >> /\ l.in = << >> /\ l.last = << >>
  <2>1. << >> \in Seq(IceRequest) /\ << >> \in Seq(IceMessage)
    OBVIOUS
  <2> QED
    BY <2>1 DEF NoLink, LinkType
<1>3. /\ bridge' = [[bridge EXCEPT !.next_id = 1] EXCEPT !.pc = "wait", !.wait = 1, !.next_id = TakeId(1)]
      /\ link' = IF l.up THEN [l EXCEPT !.out = Append(@, [id |-> 1, op |-> "ice_ping", n |-> Request])]
                 ELSE l
  BY <1>0 DEF Connect, Invoke, BridgeType
<1>4. /\ bridge' \in BridgeType /\ bridge'.pc = "wait" /\ bridge'.wait = 1 /\ bridge'.next_id = TakeId(1)
      /\ bridge'.todo = bridge.todo /\ bridge'.connected = bridge.connected /\ bridge'.ok = bridge.ok
  BY <1>0, <1>1, <1>3 DEF BridgeType
<1>5. "ice_ping" \in Ops /\ "ice_ping" \notin EccActions
  BY DEF Ops, EccActions
<1> HIDE DEF l
<1>6. /\ link' \in LinkType /\ link'.up /\ link'.in = << >> /\ link'.last = << >>
      /\ link'.out # << >> => /\ Len(link'.out) = 1
                              /\ link'.out[1] = [id |-> 1, op |-> "ice_ping", n |-> Request]
  BY <1>0, <1>2, <1>3, <1>5, InvokeSends
<1>7. Types'
  BY <1>0, <1>4, <1>6 DEF Types
<1>8. Todo'
  BY <1>0, <1>4 DEF BridgeInv, Todo
<1>9. OneRequest'
  BY <1>0, <1>4, <1>6 DEF OneRequest
<1>10. OrphansOnce'
  BY <1>0 DEF BridgeInv, OrphansOnce, Unexecuted
<1>11. ActionOnce'
  BY <1>0, <1>4, <1>5, <1>6 DEF BridgeInv, ActionOnce, ToBeCalled
<1>12. Replies'
  <2>1. Len(<< >>) = 0 /\ DOMAIN << >> = {}
    OBVIOUS
  <2> QED
    BY <1>4, <1>6, <2>1 DEF Replies
<1>13. Truthful'
  BY <1>0, <1>4 DEF BridgeInv, Truthful, OkMeansExecuted, Called
<1> QED
  BY <1>7, <1>8, <1>9, <1>10, <1>11, <1>12, <1>13 DEF BridgeInv

(* The next proxy call, on a connection that may be lost already.              *)
LEMMA CallStep ==
  ASSUME BridgeInv, Call
  PROVE  BridgeInv'
<1> DEFINE id == bridge.next_id
           op == Head(bridge.todo)
<1>0. /\ Types /\ bridge \in BridgeType /\ bridge.pc = "call" /\ bridge.connected /\ link \in LinkType
      /\ id \in 1 .. MaxRequestId /\ id \in 0 .. MaxRequestId /\ Request' = Request
      /\ UNCHANGED <<orphans, device, served, executed, eccFaults>>
  BY EccAssumption DEF BridgeInv, Types, Call, Request, BridgeType
<1>1. TakeId(id) \in 1 .. MaxRequestId
  BY <1>0, NextIdDiffers
<1>2. link.out = << >>
  BY <1>0 DEF BridgeInv, OneRequest
<1>3. /\ bridge' = [bridge EXCEPT !.pc = "wait", !.wait = id, !.next_id = TakeId(id)]
      /\ link' = IF link.up THEN [link EXCEPT !.out = Append(@, [id |-> id, op |-> op, n |-> Request])]
                 ELSE link
  BY DEF Call, Invoke
<1>4. /\ bridge.todo # << >> /\ op \in Ops /\ op = bridge.todo[1]
      /\ op \in EccActions => Len(bridge.todo) = 2
  <2>1. bridge.todo # << >> /\ bridge.todo \in Seq(Ops)
    BY <1>0 DEF BridgeInv, Todo, BridgeType
  <2>2. op = bridge.todo[1] /\ op \in Ops
    BY <2>1
  <2>3. op \in EccActions => Len(bridge.todo) = 2
    BY <2>1, <2>2, TodoShape DEF BridgeInv, EccActions
  <2> QED
    BY <2>1, <2>2, <2>3
<1> HIDE DEF id, op
<1>5. /\ bridge' \in BridgeType /\ bridge'.pc = "wait" /\ bridge'.wait = id /\ bridge'.next_id = TakeId(id)
      /\ bridge'.todo = bridge.todo /\ bridge'.connected = bridge.connected /\ bridge'.ok = bridge.ok
  BY <1>0, <1>1, <1>3 DEF BridgeType
<1>6. /\ link' \in LinkType /\ link'.up = link.up /\ link'.in = link.in /\ link'.last = link.last
      /\ link'.out # << >> => /\ Len(link'.out) = 1
                              /\ link'.out[1] = [id |-> id, op |-> op, n |-> Request]
  BY <1>0, <1>2, <1>3, <1>4, InvokeSends
<1>7. Types'
  BY <1>0, <1>5, <1>6 DEF Types
<1>8. Todo'
  BY <1>0, <1>5 DEF BridgeInv, Todo
<1>9. OneRequest'
  BY <1>0, <1>4, <1>5, <1>6 DEF OneRequest
<1>10. OrphansOnce'
  BY <1>0 DEF BridgeInv, OrphansOnce, Unexecuted
<1>11. ActionOnce'
  BY <1>0, <1>4, <1>5, <1>6 DEF BridgeInv, ActionOnce, ToBeCalled
<1>12. /\ \A k \in DOMAIN link.in : link.in[k].id # id
       /\ link.last # << >> => link.last[1].id # id
  BY <1>0 DEF BridgeInv, Replies, id
<1>13. id > 0
  BY <1>0
<1>14. Replies'
  BY <1>0, <1>5, <1>6, <1>12, <1>13 DEF BridgeInv, Replies
<1>15. Truthful'
  BY <1>0, <1>5, <1>6, <1>12 DEF BridgeInv, Truthful, OkMeansExecuted, Called
<1> QED
  BY <1>7, <1>8, <1>9, <1>10, <1>11, <1>14, <1>15 DEF BridgeInv

(* A message is taken from the connection: what is left is a part of what was  *)
(* there, in the same order.                                                   *)
LEMMA PopShape ==
  ASSUME Types, link.in # << >>, NEW l, l = Pop
  PROVE  /\ l \in LinkType /\ l.up = link.up /\ l.out = link.out /\ l.last = link.last
         /\ Head(link.in) = link.in[1] /\ 1 \in DOMAIN link.in /\ link.in[1] \in IceMessage
         /\ \A k \in DOMAIN l.in : k + 1 \in DOMAIN link.in /\ l.in[k] = link.in[k + 1] /\ k \in Nat
         /\ \A k \in DOMAIN link.in : k \in Nat /\ k >= 1
<1> DEFINE s == link.in
<1>1. s \in Seq(IceMessage) /\ link \in LinkType
  BY DEF Types, LinkType
<1>2. /\ Len(s) \in Nat /\ Len(s) >= 1 /\ Tail(s) \in Seq(IceMessage) /\ DOMAIN s = 1 .. Len(s)
      /\ DOMAIN Tail(s) = 1 .. Len(s) - 1
      /\ \A k \in 1 .. Len(s) - 1 : Tail(s)[k] = s[k + 1]
      /\ Head(s) = s[1]
  BY <1>1, TailShape
<1>3. l \in LinkType /\ l.up = link.up /\ l.out = link.out /\ l.last = link.last /\ l.in = Tail(s)
  BY <1>1, <1>2 DEF Pop, LinkType
<1>4. 1 \in DOMAIN s /\ s[1] \in IceMessage
  BY <1>1, <1>2, ElementOfSeq
<1> DEFINE n == Len(s)
           u == Tail(s)
<1> HIDE DEF n, u
<1>5. n \in Nat /\ n >= 1 /\ DOMAIN s = 1 .. n /\ DOMAIN u = 1 .. n - 1 /\ l.in = u
      /\ \A k \in 1 .. n - 1 : u[k] = s[k + 1]
  BY <1>2, <1>3 DEF n, u
<1>6. \A k \in DOMAIN u : k + 1 \in DOMAIN s /\ u[k] = s[k + 1] /\ k \in Nat
  BY <1>5
<1>7. \A k \in DOMAIN s : k \in Nat /\ k >= 1
  BY <1>5
<1> QED
  BY <1>2, <1>3, <1>4, <1>5, <1>6, <1>7

(* ValidateConnection is skipped.                                              *)
LEMMA HeartbeatStep ==
  ASSUME BridgeInv, TakeHeartbeat
  PROVE  BridgeInv'
<1>0. /\ Types /\ bridge.pc = "wait" /\ link.in # << >> /\ link' = Pop /\ Request' = Request
      /\ UNCHANGED <<bridge, orphans, device, served, executed, eccFaults>>
  BY DEF BridgeInv, TakeHeartbeat, Awaiting, Request
<1>1. /\ link' \in LinkType /\ link'.up = link.up /\ link'.out = link.out /\ link'.last = link.last
      /\ \A k \in DOMAIN link'.in : k + 1 \in DOMAIN link.in /\ link'.in[k] = link.in[k + 1] /\ k \in Nat
  BY <1>0, PopShape
<1>2. Types' /\ Todo' /\ OneRequest'
  BY <1>0, <1>1 DEF BridgeInv, Types, Todo, OneRequest
<1>3. OrphansOnce' /\ ActionOnce'
  BY <1>0, <1>1 DEF BridgeInv, OrphansOnce, Unexecuted, ActionOnce, ToBeCalled
<1>4. link.up
  BY <1>0 DEF BridgeInv, Replies
<1>5. ASSUME NEW j \in DOMAIN link'.in, NEW k \in DOMAIN link'.in, j < k, link'.in[j].id = bridge.wait
      PROVE  link'.in[k].id \in {0, bridge.wait}
  <2>1. j + 1 < k + 1
    BY <1>1, <1>5
  <2> QED
    BY <1>0, <1>1, <1>5, <2>1 DEF BridgeInv, Replies
<1>6. Replies'
  BY <1>0, <1>1, <1>4, <1>5 DEF BridgeInv, Replies
<1>7. Truthful'
  BY <1>0, <1>1 DEF BridgeInv, Truthful, OkMeansExecuted, Called
<1> QED
  BY <1>2, <1>3, <1>6, <1>7 DEF BridgeInv

(* Once the reply is taken nothing is under way, and no message carries the    *)
(* next id.                                                                    *)
LEMMA ReplyTaken ==
  ASSUME BridgeInv, Awaiting, ReadReply(Head(link.in)), NEW l, l = Pop
  PROVE  /\ l \in LinkType /\ l.out = << >> /\ l.up = link.up /\ l.last = link.last /\ link.up
         /\ Len(l.last) <= 1 /\ link.out = << >>
         /\ link.last # << >> /\ link.last[1].id = bridge.wait /\ link.last[1] = Head(link.in)
         /\ link.last[1].id # bridge.next_id
         /\ \A k \in DOMAIN l.in : l.in[k].id # bridge.next_id
<1>0. /\ Types /\ bridge.pc = "wait" /\ link.in # << >> /\ Head(link.in).id = bridge.wait
  BY DEF BridgeInv, Awaiting, ReadReply
<1>1. /\ l \in LinkType /\ l.up = link.up /\ l.out = link.out /\ l.last = link.last
      /\ Head(link.in) = link.in[1] /\ 1 \in DOMAIN link.in
      /\ \A k \in DOMAIN l.in : k + 1 \in DOMAIN link.in /\ l.in[k] = link.in[k + 1] /\ k \in Nat
      /\ \A k \in DOMAIN link.in : k \in Nat /\ k >= 1
  BY <1>0, PopShape
<1>2. /\ link.last # << >> /\ link.last[1] = Head(link.in) /\ link.last[1].id = bridge.wait
      /\ link.out = << >> /\ link.up /\ Len(l.last) <= 1
  BY <1>0, <1>1 DEF BridgeInv, Replies
<1>3. /\ bridge.wait \in 1 .. MaxRequestId /\ bridge.next_id = TakeId(bridge.wait)
  BY <1>0 DEF BridgeInv, Replies, Types, BridgeType
<1>4. bridge.next_id # bridge.wait /\ bridge.next_id # 0
  <2>1. bridge.next_id \in 1 .. MaxRequestId /\ bridge.next_id # bridge.wait
    BY <1>3, NextIdDiffers
  <2> QED
    BY <2>1
<1>5. ASSUME NEW k \in DOMAIN l.in PROVE l.in[k].id # bridge.next_id
  <2>1. k + 1 \in DOMAIN link.in /\ k \in Nat /\ l.in[k] = link.in[k + 1]
    BY <1>1
  <2>2. 1 < k + 1
    <3>1. k # 0
      <4>1. l.in \in Seq(IceMessage)
        BY <1>1 DEF LinkType
      <4> QED
        BY <4>1
    <3> QED
      BY <2>1, <3>1
  <2>3. link.in[k + 1].id \in {0, bridge.wait}
    BY <1>0, <1>1, <2>1, <2>2 DEF BridgeInv, Replies
  <2> QED
    BY <1>4, <2>1, <2>3
<1> QED
  BY <1>1, <1>2, <1>4, <1>5

(* The invariant after a reply that keeps the connection.                      *)
LEMMA ReplyKeeps ==
  ASSUME BridgeInv, Awaiting, ReadReply(Head(link.in)), link' = Pop,
         bridge' \in BridgeType, bridge'.connected, bridge'.pc # "wait", bridge'.next_id = bridge.next_id,
         Todo', ToBeCalled' => ToBeCalled,
         Called' /\ bridge'.ok /\ served[Request].action \in EccActions => executed[Request] = 1,
         UNCHANGED <<orphans, device, served, executed, eccFaults>>
  PROVE  BridgeInv'
<1>1. /\ link' \in LinkType /\ link'.out = << >> /\ link'.up = link.up /\ link'.last = link.last /\ link.up
      /\ Len(link'.last) <= 1 /\ link.last # << >> /\ link.last[1].id # bridge.next_id
      /\ \A k \in DOMAIN link'.in : link'.in[k].id # bridge.next_id
  BY ReplyTaken
<1>2. Request' = Request
  BY DEF Request
<1>3. Types' /\ OneRequest'
  BY <1>1 DEF BridgeInv, Types, OneRequest
<1>4. OrphansOnce' /\ ActionOnce'
  BY <1>1, <1>2 DEF BridgeInv, OrphansOnce, Unexecuted, ActionOnce
<1>5. Replies'
  BY <1>1 DEF Replies
<1>6. Truthful'
  BY <1>2 DEF BridgeInv, Truthful, OkMeansExecuted
<1> QED
  BY <1>3, <1>4, <1>5, <1>6 DEF BridgeInv

(* A reply to what was asked: to a call, or to the ping of a new connection.   *)
LEMMA TakeReplyStep ==
  ASSUME BridgeInv, TakeReply
  PROVE  BridgeInv'
<1> DEFINE m == Head(link.in)
<1>0. /\ Types /\ Todo /\ Awaiting /\ ReadReply(m) /\ bridge.pc = "wait" /\ link.in # << >>
      /\ UNCHANGED <<device, served, executed, eccFaults>> /\ Request' = Request /\ bridge \in BridgeType
  BY DEF BridgeInv, TakeReply, Awaiting, Types, Request
<1>1. m \in IceMessage /\ m = link.last[1] /\ link.last # << >> /\ link.last[1].id = bridge.wait
  <2>1. m = link.in[1] /\ link.in[1] \in IceMessage
    BY <1>0, PopShape
  <2> QED
    BY <1>0, <2>1, ReplyTaken
<1>2. CASE bridge.connected
  <2> DEFINE good == m.type = "Ok"
             st   == IF m.type = "Ok" THEN m.state ELSE "Unknown"
  <2>1. /\ bridge' = Returned(bridge, good, st) /\ link' = Pop /\ orphans' = orphans
    BY <1>2 DEF TakeReply
  <2>2. good \in BOOLEAN /\ st \in EccStates \cup {"Unknown"}
    BY <1>1 DEF IceMessage
  <2> HIDE DEF good, st
  <2>3. Ended(bridge', good) /\ bridge'.connected = bridge.connected
    BY <1>0, <2>1, <2>2, ReturnedShape
  <2>4. Len(bridge.todo) \in {1, 2} /\ bridge.todo # << >> /\ Request > 0
    BY <1>0, <1>2, TodoShape DEF Todo
  <2>5. Len(<< >>) = 0 /\ Len(<<"getStatus">>) = 1 /\ <<"getStatus">> # << >>
    OBVIOUS
  <2>6. /\ bridge'.pc # "wait" /\ Todo' /\ ~ToBeCalled'
        /\ bridge' \in BridgeType /\ bridge'.next_id = bridge.next_id
    <3>1. CASE Len(bridge.todo) = 1
      BY <1>0, <1>2, <2>3, <2>4, <2>5, <3>1 DEF Ended, Todo, ToBeCalled
    <3>2. CASE Len(bridge.todo) = 2
      BY <1>0, <1>2, <2>3, <2>4, <2>5, <3>2 DEF Ended, Todo, ToBeCalled
    <3> QED
      BY <2>4, <3>1, <3>2
  <2>7. ASSUME Called', bridge'.ok, served[Request].action \in EccActions PROVE executed[Request] = 1
    <3>1. CASE Len(bridge.todo) = 1
      <4>1. Called /\ bridge'.ok = bridge.ok
        BY <2>3, <2>7, <3>1 DEF Ended, Called
      <4>2. bridge.ok
        BY <2>7, <4>1, Zenon
      <4> QED
        BY <2>7, <4>1, <4>2 DEF BridgeInv, Truthful
    <3>2. CASE Len(bridge.todo) = 2
      <4>1. bridge'.ok = good
        BY <2>3, <3>2 DEF Ended
      <4>2. good
        BY <2>7, <4>1, Zenon
      <4> QED
        BY <1>0, <1>1, <1>2, <3>2, <4>2 DEF BridgeInv, Truthful, good
    <3> QED
      BY <2>4, <3>1, <3>2
  <2>8. bridge'.connected
    BY <1>2, <2>3, Zenon
  <2> QED
    BY <1>0, <2>1, <2>6, <2>7, <2>8, ReplyKeeps
<1>3. CASE ~bridge.connected /\ m.type # "UserException"
  <2> DEFINE p == IF AtStart(bridge) THEN "recv" ELSE "call"
  <2>1. /\ bridge' = [bridge EXCEPT !.pc = p, !.connected = TRUE, !.wait = 0]
        /\ link' = Pop /\ orphans' = orphans
    BY <1>3 DEF TakeReply
  <2>2. 0 \in 0 .. MaxRequestId /\ p \in {"recv", "call"} /\ (p = "recv" <=> bridge.todo = << >>)
    BY EccAssumption DEF AtStart
  <2> HIDE DEF p
  <2>3. /\ bridge' \in BridgeType /\ bridge'.connected = TRUE /\ bridge'.pc = p
        /\ bridge'.todo = bridge.todo /\ bridge'.next_id = bridge.next_id /\ bridge'.ok = bridge.ok
    BY <1>0, <2>1, <2>2 DEF BridgeType
  <2>4. Todo'
    BY <1>0, <2>2, <2>3 DEF Todo
  <2>5. (ToBeCalled' => ToBeCalled) /\ (Called' /\ bridge'.ok => Called /\ bridge.ok)
    BY <1>3, <2>2, <2>3 DEF ToBeCalled, Called
  <2>6. Called' /\ bridge'.ok /\ served[Request].action \in EccActions => executed[Request] = 1
    BY <2>5 DEF BridgeInv, Truthful
  <2> QED
    BY <1>0, <2>1, <2>2, <2>3, <2>4, <2>5, <2>6, ReplyKeeps
<1>4. CASE ~bridge.connected /\ m.type = "UserException"
  <2>1. CallFails(bridge) /\ DropLink
    BY <1>4 DEF TakeReply
  <2> QED
    BY <1>0, <2>1, FailEnds
<1> QED
  BY <1>2, <1>3, <1>4

(* The answer to the controller.                                               *)
LEMMA ReplyStep ==
  ASSUME BridgeInv, Reply
  PROVE  BridgeInv'
<1> DEFINE r == Request
           s == served[r]
<1>0. /\ Types /\ bridge \in BridgeType /\ bridge.pc = "reply" /\ bridge' = [bridge EXCEPT !.pc = "recv"]
      /\ UNCHANGED <<link, orphans, device, executed, eccFaults>> /\ served' = MakeResponse
  BY DEF BridgeInv, Types, Reply
<1>1. /\ r \in Nat /\ r > 0 /\ r \in DOMAIN served /\ DOMAIN served = 1 .. r /\ DOMAIN executed = 1 .. r
      /\ \A n \in 1 .. r : served[n] \in ServedType
  BY <1>0, RequestShape DEF BridgeInv, Todo
<1>2. /\ bridge' \in BridgeType /\ bridge'.pc = "recv" /\ bridge'.todo = bridge.todo
      /\ bridge'.connected = bridge.connected /\ bridge'.next_id = bridge.next_id
  BY <1>0 DEF BridgeType
<1>3. bridge.todo = << >> /\ Len(bridge.todo) = 0
  BY <1>0, TodoShape DEF BridgeInv, Todo
<1>4. /\ served' \in Seq(ServedType) /\ Len(served') = Len(served) /\ DOMAIN served' = DOMAIN served
      /\ \A n \in DOMAIN served : n # r => served'[n] = served[n]
      /\ served'[r] = [s EXCEPT !.done = TRUE, !.ok = bridge.ok, !.state = bridge.state]
  <2> DEFINE x == [s EXCEPT !.done = TRUE, !.ok = bridge.ok, !.state = bridge.state]
  <2>1. x \in ServedType
    BY <1>0, <1>1, ZenonT(30) DEF ServedType, BridgeType
  <2>2. served' = [served EXCEPT ![r] = x]
    BY <1>0, <1>1 DEF MakeResponse, Types
  <2> HIDE DEF x
  <2>3. served \in Seq(ServedType) /\ r \in 1 .. Len(served)
    BY <1>0, <1>1 DEF Types, Request
  <2>4. served' \in Seq(ServedType) /\ Len(served') = Len(served) /\ DOMAIN served' = DOMAIN served
    BY <2>1, <2>2, <2>3, ExceptSeq
  <2>5. served'[r] = x /\ \A n \in DOMAIN served : n # r => served'[n] = served[n]
    BY <1>1, <2>2, <2>3
  <2> QED
    BY <2>4, <2>5 DEF x
<1>5. Request' = Request
  BY <1>4 DEF Request
<1>6. s \in ServedType /\ served'[r].action = s.action /\ served'[r].ok = bridge.ok
  <2>1. s \in ServedType
    BY <1>1
  <2>2. served'[r] = [s EXCEPT !.done = TRUE, !.ok = bridge.ok, !.state = bridge.state]
    BY <1>4
  <2> HIDE DEF s, r
  <2>3. bridge.ok \in BOOLEAN
    BY <1>0 DEF BridgeType
  <2> QED
    BY <2>1, <2>2, <2>3 DEF ServedType
<1>7. Types'
  BY <1>0, <1>2, <1>4 DEF Types
<1>8. Todo' /\ OneRequest'
  BY <1>0, <1>2, <1>3 DEF BridgeInv, Todo, OneRequest
<1>9. OrphansOnce' /\ ActionOnce'
  BY <1>0, <1>2, <1>5 DEF BridgeInv, OrphansOnce, Unexecuted, ActionOnce, ToBeCalled
<1>10. Replies'
  BY <1>0, <1>2 DEF BridgeInv, Replies
<1>11. OkMeansExecuted'
  <2> SUFFICES ASSUME NEW n \in DOMAIN served', served'[n].done, served'[n].ok,
                      served'[n].action \in EccActions
               PROVE  executed'[n] = 1
    BY DEF OkMeansExecuted
  <2>1. CASE n = r
    <3>1. Called /\ s.action \in EccActions
      BY <1>0, <1>6, <2>1 DEF Called
    <3>2. bridge.ok
      BY <1>6, <2>1, Zenon
    <3> QED
      BY <1>0, <2>1, <3>1, <3>2 DEF BridgeInv, Truthful
  <2>2. CASE n # r
    BY <1>0, <1>4, <2>2 DEF BridgeInv, Truthful, OkMeansExecuted
  <2> QED
    BY <2>1, <2>2
<1>12. Truthful'
  BY <1>2, <1>3, <1>11 DEF Truthful, Called
<1> QED
  BY <1>7, <1>8, <1>9, <1>10, <1>12 DEF BridgeInv

-------------------------------------------------------------------------------
(* The steps of the ECC                                                        *)

(* An execution raises the count of its own request only, from none to one;    *)
(* a reply that is not an exception comes after it.                            *)
LEMMA Executes ==
  ASSUME Types, NEW r \in IceRequest, Unexecuted(r), Execute(r)
  PROVE  /\ device' \in EccStates /\ executed' \in Seq(0 .. 1) /\ Len(executed') = Len(executed)
         /\ \A n \in 1 .. Request : executed[n] = 1 => executed'[n] = 1
         /\ \A n \in 1 .. Request : ~(r.op \in EccActions /\ n = r.n) => executed'[n] = executed[n]
         /\ r.op \in EccActions /\ EccAnswer(r).type = "Ok" => executed'[r.n] = 1
         /\ EccAnswer(r) \in IceMessage /\ EccAnswer(r).id = r.id
<1> DEFINE a == IF r.op \in EccActions THEN r.op ELSE "status"
           t == NextState(device, a)
<1>0. /\ device \in EccStates /\ executed \in Seq(0 .. 1) /\ Request \in Nat /\ DOMAIN executed = 1 .. Request
      /\ Len(executed) = Request
  BY RequestShape DEF Types, Request
<1>1. t.next \in EccStates
  BY <1>0, NextStateType
<1> HIDE DEF a, t
<1>2. /\ device' = t.next
      /\ executed' = IF r.op \in EccActions /\ t.step # "Denied"
                     THEN [executed EXCEPT ![r.n] = @ + 1] ELSE executed
  BY DEF Execute, a, t
<1>3. EccAnswer(r) = [id |-> r.id, type |-> IF t.step = "Denied" THEN "UserException" ELSE "Ok",
                      state |-> device]
  BY DEF EccAnswer, a, t
<1>4. EccAnswer(r) \in IceMessage /\ EccAnswer(r).id = r.id
      /\ (EccAnswer(r).type = "Ok" => t.step # "Denied")
  BY <1>0, <1>3 DEF IceMessage, IceRequest
<1>5. CASE r.op \in EccActions /\ t.step # "Denied"
  <2>1. r.n \in 1 .. Request /\ executed[r.n] = 0
    BY <1>5 DEF Unexecuted
  <2>2. executed' = [executed EXCEPT ![r.n] = 1]
    BY <1>0, <1>2, <1>5, <2>1
  <2>3. executed' \in Seq(0 .. 1) /\ Len(executed') = Len(executed)
    <3>1. 1 \in 0 .. 1 /\ r.n \in 1 .. Len(executed)
      BY <1>0, <2>1
    <3> QED
      BY <1>0, <2>2, <3>1, ExceptSeq
  <2>4. executed'[r.n] = 1 /\ \A n \in 1 .. Request : n # r.n => executed'[n] = executed[n]
    BY <1>0, <2>1, <2>2
  <2> QED
    BY <1>1, <1>2, <1>4, <2>1, <2>3, <2>4
<1>6. CASE ~(r.op \in EccActions /\ t.step # "Denied")
  BY <1>0, <1>1, <1>2, <1>4, <1>6
<1> QED
  BY <1>5, <1>6

(* The answer joins the messages, and the request has left.                    *)
LEMMA AnswerSent ==
  ASSUME BridgeInv, link.up, link.out # << >>, NEW m \in IceMessage, m.id = link.out[1].id,
         link' = Sent(m), bridge' = bridge, orphans' = orphans, served' = served
  PROVE  /\ link' \in LinkType /\ link'.out = << >> /\ link'.last = <<m>> /\ OneRequest' /\ Replies'
<1> DEFINE s == link.in
           n == Len(s)
<1>0. link \in LinkType /\ s \in Seq(IceMessage) /\ link.out \in Seq(IceRequest)
  BY DEF BridgeInv, Types, LinkType
<1>1. Len(link.out) = 1 /\ bridge.pc = "wait" /\ m.id = bridge.wait
  BY DEF BridgeInv, OneRequest
<1>2. Tail(link.out) = << >> /\ Tail(link.out) \in Seq(IceRequest)
  <2>1. Tail(link.out) \in Seq(IceRequest) /\ Len(Tail(link.out)) = 0
    BY <1>0, <1>1, TailShape
  <2> QED
    BY <2>1, EmptySeq
<1>3. /\ n \in Nat /\ DOMAIN s = 1 .. n /\ DOMAIN Append(s, m) = 1 .. n + 1 /\ Append(s, m)[n + 1] = m
      /\ \A k \in 1 .. n : Append(s, m)[k] = s[k]
  BY <1>0, AppendShape
<1>4. Append(s, m) \in Seq(IceMessage) /\ <<m>> \in Seq(IceMessage)
  BY <1>0, AppendProperties
<1>5. /\ link' \in LinkType /\ link'.out = << >> /\ link'.in = Append(s, m) /\ link'.last = <<m>>
      /\ link'.up = link.up
  BY <1>0, <1>2, <1>4 DEF Sent, LinkType
<1>6. \A k \in DOMAIN s : s[k].id # bridge.wait
  BY <1>1 DEF BridgeInv, Replies
<1>7. <<m>> # << >> /\ Len(<<m>>) = 1 /\ <<m>>[1] = m
  OBVIOUS
<1>8. OneRequest'
  BY <1>5 DEF OneRequest
<1> HIDE DEF n
<1>9. /\ \A k \in DOMAIN link'.in : link'.in[k].id = bridge.wait => k = n + 1
      /\ link'.in[n + 1] = m /\ \A k \in DOMAIN link'.in : k <= n + 1 /\ k \in Nat
  BY <1>3, <1>5, <1>6
<1>10. \A j, k \in DOMAIN link'.in : j < k /\ link'.in[j].id = bridge.wait => FALSE
  BY <1>3, <1>9
<1>11. bridge.wait > 0 /\ bridge.next_id = TakeId(bridge.wait)
  BY <1>1 DEF BridgeInv, Replies
<1>12. Replies'
  BY <1>1, <1>5, <1>7, <1>9, <1>10, <1>11 DEF Replies
<1> QED
  BY <1>5, <1>8, <1>12

(* The ECC executes the request of the connection and answers.                 *)
LEMMA DispatchStep ==
  ASSUME BridgeInv, Dispatch
  PROVE  BridgeInv'
<1> DEFINE r == link.out[1]
           m == EccAnswer(r)
<1>0. /\ Types /\ link.up /\ link.out # << >> /\ UNCHANGED <<bridge, orphans, served, eccFaults>>
      /\ Request' = Request /\ Request \in Nat
  BY RequestShape DEF BridgeInv, Dispatch, Request
<1>1. link.out \in Seq(IceRequest) /\ Head(link.out) = r /\ r \in IceRequest
  <2>1. link.out \in Seq(IceRequest)
    BY <1>0 DEF Types, LinkType
  <2> QED
    BY <1>0, <2>1
<1>2. /\ bridge.pc = "wait" /\ r.id = bridge.wait /\ r.n = Request
      /\ r.op \in EccActions => bridge.connected /\ bridge.todo # << >>
      /\ bridge.connected => r.op = bridge.todo[1]
  BY <1>0, TodoShape DEF BridgeInv, OneRequest, Todo, EccActions
<1>3. r.op \in EccActions =>
        /\ Request \in 1 .. Request /\ executed[Request] = 0
        /\ \A k \in DOMAIN orphans : orphans[k].op \in EccActions => orphans[k].n # Request
  BY <1>0, <1>2 DEF BridgeInv, ActionOnce, Todo
<1>4. Unexecuted(r)
  BY <1>2, <1>3 DEF Unexecuted
<1>5. Execute(r) /\ link' = Sent(m)
  BY <1>1 DEF Dispatch
<1>6. /\ device' \in EccStates /\ executed' \in Seq(0 .. 1) /\ Len(executed') = Len(executed)
      /\ \A n \in 1 .. Request : executed[n] = 1 => executed'[n] = 1
      /\ \A n \in 1 .. Request : ~(r.op \in EccActions /\ n = r.n) => executed'[n] = executed[n]
      /\ r.op \in EccActions /\ m.type = "Ok" => executed'[r.n] = 1
      /\ m \in IceMessage /\ m.id = r.id
  BY <1>0, <1>1, <1>4, <1>5, Executes
<1> HIDE DEF r, m
<1>7. link' \in LinkType /\ link'.out = << >> /\ link'.last = <<m>> /\ OneRequest' /\ Replies'
  BY <1>0, <1>5, <1>6, AnswerSent DEF r
<1>8. Types' /\ Todo'
  BY <1>0, <1>6, <1>7 DEF BridgeInv, Types, Todo
<1>9. OrphansOnce'
  <2>1. (\A j \in DOMAIN orphans : Unexecuted(orphans[j]))'
    BY <1>0, <1>2, <1>3, <1>6 DEF BridgeInv, OrphansOnce, Unexecuted
  <2> QED
    BY <1>0, <2>1 DEF BridgeInv, OrphansOnce
<1>10. ActionOnce'
  <2>1. ASSUME ToBeCalled PROVE r.op \notin EccActions /\ Request \in 1 .. Request
    <3>1. ~bridge.connected /\ bridge.todo # << >>
      BY <1>0, <1>2, <2>1, TodoShape DEF BridgeInv, ToBeCalled
    <3> QED
      BY <1>0, <1>2, <3>1 DEF BridgeInv, Todo
  <2> QED
    BY <1>0, <1>6, <1>7, <2>1 DEF BridgeInv, ActionOnce, ToBeCalled
<1>11. Truthful'
  <2>1. <<m>>[1] = m
    OBVIOUS
  <2>2. bridge.connected /\ Len(bridge.todo) = 2 /\ m.type = "Ok" => executed'[Request] = 1
    BY <1>0, <1>2, <1>6, TodoShape DEF BridgeInv
  <2>3. Called => Request \in 1 .. Request
    BY <1>0, TodoShape DEF BridgeInv, Called, Todo
  <2>4. OkMeansExecuted'
    BY <1>0, <1>6, RequestShape DEF BridgeInv, Truthful, OkMeansExecuted
  <2>5. Called' = Called
    BY <1>0 DEF Called
  <2> QED
    BY <1>0, <1>6, <1>7, <2>1, <2>2, <2>3, <2>4, <2>5 DEF BridgeInv, Truthful
<1> QED
  BY <1>7, <1>8, <1>9, <1>10, <1>11 DEF BridgeInv

(* A request of an earlier connection is executed after all, or never.         *)
LEMMA OrphanStep ==
  ASSUME BridgeInv, DispatchOrphan
  PROVE  BridgeInv'
<1> DEFINE r == orphans[1]
<1>0. /\ Types /\ orphans # << >> /\ orphans' = Tail(orphans) /\ UNCHANGED <<bridge, link, served, eccFaults>>
      /\ Request' = Request /\ Request \in Nat
  BY RequestShape DEF BridgeInv, DispatchOrphan, Request
<1>1. /\ Tail(orphans) \in Seq(IceRequest) /\ Head(orphans) = r /\ r \in IceRequest /\ 1 \in DOMAIN orphans
      /\ \A k \in DOMAIN Tail(orphans) : /\ k + 1 \in DOMAIN orphans /\ k \in Nat /\ k + 1 # 1
                                         /\ Tail(orphans)[k] = orphans[k + 1]
  <2>0. orphans \in Seq(IceRequest)
    BY <1>0 DEF Types
  <2> DEFINE n == Len(orphans)
             u == Tail(orphans)
  <2>1. /\ n \in Nat /\ n >= 1 /\ u \in Seq(IceRequest) /\ DOMAIN orphans = 1 .. n /\ DOMAIN u = 1 .. n - 1
        /\ \A k \in 1 .. n - 1 : u[k] = orphans[k + 1]
        /\ Head(orphans) = orphans[1]
    BY <1>0, <2>0, TailShape
  <2>2. orphans[1] \in IceRequest
    BY <2>0, <2>1, ElementOfSeq
  <2> HIDE DEF n, u
  <2>3. 1 \in DOMAIN orphans /\ \A k \in DOMAIN u : /\ k + 1 \in DOMAIN orphans /\ k \in Nat /\ k + 1 # 1
                                                    /\ u[k] = orphans[k + 1]
    BY <2>1
  <2> QED
    BY <2>1, <2>2, <2>3 DEF u
<1>2. /\ Unexecuted(r)
      /\ \A k \in DOMAIN orphans : k # 1 /\ r.op \in EccActions /\ orphans[k].op \in EccActions
           => orphans[k].n # r.n
  BY <1>1 DEF BridgeInv, OrphansOnce
<1>3. /\ device' \in EccStates /\ executed' \in Seq(0 .. 1) /\ Len(executed') = Len(executed)
      /\ \A n \in 1 .. Request : executed[n] = 1 => executed'[n] = 1
      /\ \A n \in 1 .. Request : ~(r.op \in EccActions /\ n = r.n) => executed'[n] = executed[n]
  <2>1. CASE Execute(r)
    BY <1>0, <1>1, <1>2, <2>1, Executes
  <2>2. CASE UNCHANGED <<device, executed, during>>
    BY <1>0, <2>2 DEF Types
  <2> QED
    BY <1>1, <2>1, <2>2 DEF DispatchOrphan
<1> HIDE DEF r
<1>4. Types' /\ Todo' /\ OneRequest' /\ Replies'
  BY <1>0, <1>1, <1>3 DEF BridgeInv, Types, Todo, OneRequest, Replies
<1>5. OrphansOnce'
  <2>1. (\A j \in DOMAIN orphans : Unexecuted(orphans[j]))'
    <3> SUFFICES ASSUME NEW j \in DOMAIN orphans', orphans'[j].op \in EccActions
                 PROVE  orphans'[j].n \in 1 .. Request /\ executed'[orphans'[j].n] = 0
      BY <1>0 DEF Unexecuted
    <3>1. /\ j + 1 \in DOMAIN orphans /\ orphans'[j] = orphans[j + 1] /\ j + 1 # 1
      BY <1>0, <1>1
    <3>2. orphans[j + 1].n \in 1 .. Request /\ executed[orphans[j + 1].n] = 0
      BY <3>1 DEF BridgeInv, OrphansOnce, Unexecuted
    <3> QED
      BY <1>2, <1>3, <3>1, <3>2
  <2>2. ASSUME NEW j \in DOMAIN orphans', NEW k \in DOMAIN orphans', j # k,
               orphans'[j].op \in EccActions, orphans'[k].op \in EccActions
        PROVE  orphans'[j].n # orphans'[k].n
    <3>1. /\ j + 1 \in DOMAIN orphans /\ orphans'[j] = orphans[j + 1]
          /\ k + 1 \in DOMAIN orphans /\ orphans'[k] = orphans[k + 1]
      BY <1>0, <1>1
    <3>2. j + 1 # k + 1
      BY <1>0, <1>1, <2>2
    <3> QED
      BY <2>2, <3>1, <3>2 DEF BridgeInv, OrphansOnce
  <2> QED
    BY <2>1, <2>2 DEF OrphansOnce
<1>6. ToBeCalled \/ Called \/ (link.out # << >> /\ link.out[1].op \in EccActions)
        => Request \in 1 .. Request
  <2>1. link.out # << >> /\ link.out[1].op \in EccActions => bridge.todo # << >>
    BY TodoShape DEF BridgeInv, OneRequest, Todo, EccActions
  <2>2. ToBeCalled => bridge.todo # << >>
    BY TodoShape DEF BridgeInv, ToBeCalled
  <2>3. Called => bridge.todo # << >> \/ bridge.pc = "reply"
    BY TodoShape DEF BridgeInv, Called
  <2> QED
    BY <1>0, <2>1, <2>2, <2>3 DEF BridgeInv, Todo
<1>7. ActionOnce'
  <2> SUFFICES ASSUME ToBeCalled \/ (link.out # << >> /\ link.out[1].op \in EccActions)
               PROVE  /\ executed'[Request] = 0
                      /\ \A k \in DOMAIN orphans' : orphans'[k].op \in EccActions => orphans'[k].n # Request
    BY <1>0 DEF ActionOnce, ToBeCalled
  <2>1. /\ executed[Request] = 0
        /\ \A k \in DOMAIN orphans : orphans[k].op \in EccActions => orphans[k].n # Request
    BY DEF BridgeInv, ActionOnce
  <2>2. ~(r.op \in EccActions /\ Request = r.n)
    BY <1>1, <2>1 DEF r
  <2> QED
    BY <1>0, <1>1, <1>3, <1>6, <2>1, <2>2
<1>8. Truthful'
  <2>1. OkMeansExecuted'
    BY <1>0, <1>3, RequestShape DEF BridgeInv, Truthful, OkMeansExecuted
  <2>2. Called' = Called
    BY <1>0 DEF Called
  <2>3. bridge.todo # << >> => Request \in 1 .. Request
    BY <1>0 DEF BridgeInv, Todo
  <2>4. Len(bridge.todo) = 2 => Request \in 1 .. Request
    BY <2>3, TodoShape DEF BridgeInv
  <2> QED
    BY <1>0, <1>3, <1>6, <2>1, <2>2, <2>4 DEF BridgeInv, Truthful
<1> QED
  BY <1>4, <1>5, <1>7, <1>8 DEF BridgeInv

(* An answer without an execution.                                             *)
LEMMA MisdispatchStep ==
  ASSUME BridgeInv, Misdispatch
  PROVE  BridgeInv'
<1> DEFINE r == link.out[1]
<1>0. /\ Types /\ link.up /\ link.out # << >> /\ Request' = Request
      /\ UNCHANGED <<bridge, orphans, device, served, executed>> /\ eccFaults' \in Nat
  BY DEF BridgeInv, Types, Misdispatch, Request
<1>1. Head(link.out) = r /\ r \in IceRequest
  <2>1. link.out \in Seq(IceRequest)
    BY <1>0 DEF Types, LinkType
  <2> QED
    BY <1>0, <2>1
<1>2. PICK y \in {"UserException", "RequestFailed", "Trailing"} :
         link' = Sent([id |-> r.id, type |-> y, state |-> device])
  BY <1>1 DEF Misdispatch
<1> DEFINE m == [id |-> r.id, type |-> y, state |-> device]
<1>3. m \in IceMessage /\ m.id = r.id /\ m.type # "Ok"
  BY <1>0, <1>1, EccAssumption DEF IceMessage, IceRequest, Types
<1> HIDE DEF m
<1>4. link' \in LinkType /\ link'.out = << >> /\ link'.last = <<m>> /\ OneRequest' /\ Replies'
  BY <1>0, <1>2, <1>3, AnswerSent DEF m
<1>5. Types' /\ Todo'
  BY <1>0, <1>4 DEF BridgeInv, Types, Todo
<1>6. OrphansOnce' /\ ActionOnce'
  BY <1>0, <1>4 DEF BridgeInv, OrphansOnce, Unexecuted, ActionOnce, ToBeCalled
<1>7. Truthful'
  <2>1. <<m>>[1] = m
    OBVIOUS
  <2> QED
    BY <1>0, <1>3, <1>4, <2>1 DEF BridgeInv, Truthful, OkMeansExecuted, Called
<1> QED
  BY <1>4, <1>5, <1>6, <1>7 DEF BridgeInv

(* An irregular message, or a second copy of the last reply.                   *)
LEMMA OddityStep ==
  ASSUME BridgeInv, EccOddity
  PROVE  BridgeInv'
<1> DEFINE s == link.in
           n == Len(s)
<1>0. /\ Types /\ link.up /\ Request' = Request /\ link \in LinkType /\ s \in Seq(IceMessage)
      /\ UNCHANGED <<bridge, orphans, device, served, executed>> /\ eccFaults' \in Nat
  BY DEF BridgeInv, Types, EccOddity, Request, LinkType
<1>1. PICK m : /\ link' = [link EXCEPT !.in = Append(@, m)] /\ m \in IceMessage
               /\ m.id = 0 \/ (link.last # << >> /\ m = link.last[1])
  <2>1. ASSUME NEW y \in {"ValidateConnection", "CloseConnection", "Garbage"}
        PROVE  [id |-> 0, type |-> y, state |-> device] \in IceMessage
    BY <1>0, EccAssumption DEF IceMessage, Types
  <2>2. link.last # << >> => link.last[1] \in IceMessage
    <3>1. link.last \in Seq(IceMessage)
      BY <1>0 DEF LinkType
    <3> QED
      BY <3>1
  <2> QED
    BY <2>1, <2>2 DEF EccOddity
<1>2. /\ n \in Nat /\ DOMAIN s = 1 .. n /\ DOMAIN Append(s, m) = 1 .. n + 1 /\ Append(s, m)[n + 1] = m
      /\ \A k \in 1 .. n : Append(s, m)[k] = s[k]
  BY <1>0, AppendShape
<1>3. /\ link' \in LinkType /\ link'.in = Append(s, m) /\ link'.up /\ link'.out = link.out
      /\ link'.last = link.last
  <2>1. Append(s, m) \in Seq(IceMessage)
    BY <1>0, <1>1, AppendProperties
  <2> QED
    BY <1>0, <1>1, <2>1 DEF LinkType
<1>4. Types' /\ Todo' /\ OneRequest'
  BY <1>0, <1>3 DEF BridgeInv, Types, Todo, OneRequest
<1>5. OrphansOnce' /\ ActionOnce'
  BY <1>0, <1>3 DEF BridgeInv, OrphansOnce, Unexecuted, ActionOnce, ToBeCalled
<1>6. Truthful'
  BY <1>0, <1>3 DEF BridgeInv, Truthful, OkMeansExecuted, Called
<1> HIDE DEF n
<1>7. \A k \in DOMAIN link'.in : (k \in DOMAIN s /\ link'.in[k] = s[k]) \/ (k = n + 1 /\ link'.in[k] = m)
  BY <1>2, <1>3
<1>8. ASSUME bridge.pc # "wait"
      PROVE  /\ bridge.connected
             /\ \A k \in DOMAIN link'.in : link'.in[k].id # bridge.next_id
  <2>1. bridge.connected
    BY <1>0, <1>8 DEF BridgeInv, Replies, NoLink
  <2>2. bridge.next_id # 0
    BY <1>0 DEF Types, BridgeType
  <2> QED
    BY <1>1, <1>7, <1>8, <2>1, <2>2 DEF BridgeInv, Replies
<1>9. ASSUME bridge.pc = "wait"
      PROVE  /\ bridge.wait > 0 /\ bridge.next_id = TakeId(bridge.wait)
             /\ \A k \in DOMAIN link'.in : link'.in[k].id = bridge.wait
                  => link.last # << >> /\ link'.in[k] = link.last[1]
             /\ link.last # << >> /\ link.last[1].id = bridge.wait => link.out = << >>
             /\ \A j, k \in DOMAIN link'.in : j < k /\ link'.in[j].id = bridge.wait
                  => link'.in[k].id \in {0, bridge.wait}
  <2>1. bridge.wait > 0 /\ bridge.wait # 0 /\ bridge.next_id = TakeId(bridge.wait)
    <3>1. bridge.wait > 0 /\ bridge.wait \in 0 .. MaxRequestId /\ bridge.next_id = TakeId(bridge.wait)
      BY <1>0, <1>9 DEF BridgeInv, Replies, Types, BridgeType
    <3> QED
      BY <3>1
  <2>2. \A k \in DOMAIN link'.in : link'.in[k].id = bridge.wait
                  => link.last # << >> /\ link'.in[k] = link.last[1]
    BY <1>1, <1>7, <1>9, <2>1 DEF BridgeInv, Replies
  <2>3. ASSUME NEW j \in DOMAIN link'.in, NEW k \in DOMAIN link'.in, j < k, link'.in[j].id = bridge.wait
        PROVE  link'.in[k].id \in {0, bridge.wait}
    <3>1. CASE k = n + 1
      BY <1>1, <1>2, <1>3, <2>2, <2>3, <3>1
    <3>2. CASE k # n + 1
      <4>1. k \in DOMAIN s /\ j \in DOMAIN s
        BY <1>2, <1>7, <2>3, <3>2
      <4>2. link'.in[k] = s[k] /\ link'.in[j] = s[j]
        BY <1>2, <1>3, <4>1
      <4> QED
        BY <1>9, <2>3, <4>1, <4>2 DEF BridgeInv, Replies
    <3> QED
      BY <3>1, <3>2
  <2> QED
    BY <1>9, <2>1, <2>2, <2>3 DEF BridgeInv, Replies
<1>10. Replies'
  <2>1. Len(link.last) <= 1 /\ (bridge.pc # "wait" /\ link.last # << >> => link.last[1].id # bridge.next_id)
    BY <1>8 DEF BridgeInv, Replies
  <2> QED
    BY <1>0, <1>3, <1>8, <1>9, <2>1 DEF Replies
<1> QED
  BY <1>4, <1>5, <1>6, <1>10 DEF BridgeInv

(* The connection is lost with what was on its way to the bridge.              *)
LEMMA LostStep ==
  ASSUME BridgeInv, ConnectionLost
  PROVE  BridgeInv'
<1>0. /\ Types /\ link \in LinkType /\ link.up /\ Request' = Request
      /\ UNCHANGED <<bridge, orphans, device, served, executed>> /\ eccFaults' \in Nat
  BY DEF BridgeInv, Types, ConnectionLost, Request
<1>1. /\ link' \in LinkType /\ link'.in = << >> /\ link'.out = link.out /\ link'.last = link.last
  <2>1. << >> \in Seq(IceMessage)
    OBVIOUS
  <2> QED
    BY <1>0, <2>1 DEF ConnectionLost, LinkType
<1>2. Types' /\ Todo' /\ OneRequest'
  BY <1>0, <1>1 DEF BridgeInv, Types, Todo, OneRequest
<1>3. OrphansOnce' /\ ActionOnce'
  BY <1>0, <1>1 DEF BridgeInv, OrphansOnce, Unexecuted, ActionOnce, ToBeCalled
<1>4. Truthful'
  BY <1>0, <1>1 DEF BridgeInv, Truthful, OkMeansExecuted, Called
<1>5. Replies'
  <2>1. bridge.pc # "wait" => bridge.connected
    BY <1>0 DEF BridgeInv, Replies, NoLink
  <2>2. DOMAIN << >> = {}
    OBVIOUS
  <2> QED
    BY <1>0, <1>1, <2>1, <2>2 DEF BridgeInv, Replies
<1> QED
  BY <1>2, <1>3, <1>4, <1>5 DEF BridgeInv

-------------------------------------------------------------------------------
(* Nothing has been asked yet.                                                 *)
LEMMA BridgeStarts == EccInit => BridgeInv
<1> SUFFICES ASSUME EccInit PROVE BridgeInv
  OBVIOUS
<1>0. /\ << >> \in Seq(IceRequest) /\ << >> \in Seq(IceMessage) /\ << >> \in Seq(Ops)
      /\ << >> \in Seq(ServedType) /\ << >> \in Seq(0 .. 1) /\ Len(<< >>) = 0 /\ DOMAIN << >> = {}
  OBVIOUS
<1>1. 0 \in 0 .. MaxRequestId /\ 1 \in 1 .. MaxRequestId /\ 0 <= MaxRequests
  BY EccAssumption
<1>2. bridge \in BridgeType
  BY <1>0, <1>1 DEF EccInit, EccInitAt, BridgeType
<1>3. Types
  BY <1>0, <1>1, <1>2 DEF EccInit, EccInitAt, Types, LinkType, NoLink, EccStates
<1>4. Todo /\ OneRequest /\ OrphansOnce /\ ActionOnce
  BY <1>0 DEF EccInit, EccInitAt, NoLink, Todo, OneRequest, OrphansOnce, ActionOnce, ToBeCalled
<1>5. Replies /\ Truthful
  BY <1>0 DEF EccInit, EccInitAt, NoLink, Replies, Truthful, Called, OkMeansExecuted
<1> QED
  BY <1>3, <1>4, <1>5 DEF BridgeInv

(* Every step of the bridge, of the ECC and of the connection.                 *)
LEMMA BridgeStepKeeps == BridgeInv /\ [EccNextStep]_eccVars => BridgeInv'
<1> SUFFICES ASSUME BridgeInv, [EccNextStep]_eccVars PROVE BridgeInv'
  OBVIOUS
<1>1. CASE \E q \in JsonRequest : Recv(q)
  BY <1>1, RecvStep
<1>2. CASE Connect \/ ConnectFails \/ Call
  BY <1>2, ConnectStep, ConnectFailsStep, CallStep
<1>3. CASE TakeReply \/ TakeHeartbeat \/ TakeBroken \/ TakeEof
  BY <1>3, TakeReplyStep, HeartbeatStep, BrokenStep
<1>4. CASE Reply \/ BridgeRestarts
  BY <1>4, ReplyStep, RestartStep
<1>5. CASE Dispatch \/ DispatchOrphan \/ EccOddity \/ Misdispatch \/ ConnectionLost
  BY <1>5, DispatchStep, OrphanStep, OddityStep, MisdispatchStep, LostStep
<1>6. CASE UNCHANGED eccVars
  <2>1. UNCHANGED <<bridge, link, orphans, device, served, executed, eccFaults>>
    BY <1>6 DEF eccVars
  <2>2. Types' /\ Todo' /\ OneRequest' /\ Replies'
    BY <2>1 DEF BridgeInv, Types, Todo, OneRequest, Replies, Request
  <2>3. OrphansOnce' /\ ActionOnce' /\ Truthful'
    BY <2>1 DEF BridgeInv, OrphansOnce, Unexecuted, ActionOnce, ToBeCalled, Truthful, OkMeansExecuted, Called,
      Request
  <2> QED
    BY <2>2, <2>3 DEF BridgeInv
<1> QED
  BY <1>1, <1>2, <1>3, <1>4, <1>5, <1>6 DEF EccNextStep

(* For any number of requests, lost connections, irregular or repeated         *)
(* messages and deaths of the bridge, an action is executed at most once, and  *)
(* one that is answered with ok was executed (EccProxy::call makes no second   *)
(* attempt; read_reply takes no message for the reply but the one it waits     *)
(* for).  Ids may start again, as long as an id differs from the one before.   *)
THEOREM ActionsHappenOnce == EccSpec => []ActionsOnce
<1>1. BridgeInv => ActionsOnce
  <2> SUFFICES ASSUME BridgeInv PROVE ActionsOnce
    OBVIOUS
  <2>1. Types /\ Todo
    BY DEF BridgeInv
  <2>2. EccTypeOK
    <3>1. /\ Request \in 0 .. MaxRequests /\ DOMAIN executed = DOMAIN served
      BY <2>1, RequestShape, EccAssumption
    <3>2. Len(bridge.todo) <= 2
      <4> DEFINE n == Len(bridge.todo)
      <4>1. n \in 0 .. 2
        BY <2>1, TodoShape
      <4> HIDE DEF n
      <4>2. n <= 2
        BY <4>1
      <4> QED
        BY <4>2 DEF n
    <3> QED
      BY <2>1, <3>1, <3>2 DEF Types, BridgeType, EccTypeOK
  <2>3. AtMostOnce
    BY <2>1, RequestShape DEF AtMostOnce
  <2> QED
    BY <2>2, <2>3 DEF BridgeInv, Truthful, ActionsOnce
<1> QED
  BY <1>1, BridgeStarts, BridgeStepKeeps, PTL DEF EccSpec

-------------------------------------------------------------------------------
(* The state in an answer                                                      *)

(* What the answer reports, or will, is a state of the ECC since the request   *)
(* came.                                                                       *)
Fresh ==
  /\ Request > 0 => device \in during
  /\ bridge.state \in during \cup {"Unknown"}
  /\ /\ bridge.pc = "wait" /\ bridge.connected
     /\ link.last # << >> /\ link.last[1].id = bridge.wait
     => link.last[1].state \in during

(* A call that ends reports the state of the reply, or none.                   *)
LEMMA ReturnedState ==
  ASSUME BridgeInv, Fresh, NEW good, NEW st \in during \cup {"Unknown"}
  PROVE  Returned(bridge, good, st).state \in during \cup {"Unknown"}
<1>0. bridge \in BridgeType
  BY DEF BridgeInv, Types
<1>1. Returned(bridge, good, st).state \in {bridge.state, st}
  BY <1>0 DEF Returned, BridgeType
<1> QED
  BY <1>1 DEF Fresh

(* The steps of the bridge that end a call, or make none.                      *)
LEMMA BridgeFresh ==
  ASSUME BridgeInv, Fresh,
         ConnectFails \/ TakeReply \/ TakeHeartbeat \/ TakeBroken \/ TakeEof \/ Reply \/ BridgeRestarts
  PROVE  Fresh'
<1>0. bridge \in BridgeType /\ UNCHANGED <<device, during>> /\ Len(served') = Len(served)
  <2>1. bridge \in BridgeType
    BY DEF BridgeInv, Types
  <2>2. UNCHANGED <<device, during>>
    BY DEF ConnectFails, TakeReply, TakeHeartbeat, TakeBroken, TakeEof, Reply, BridgeRestarts
  <2>3. CASE Reply
    <3>1. served' \in Seq(ServedType) /\ Len(served') = Len(served)
      <4> DEFINE x == [served[Request] EXCEPT !.done = TRUE, !.ok = bridge.ok, !.state = bridge.state]
      <4>1. /\ served \in Seq(ServedType) /\ Request \in 1 .. Len(served) /\ served[Request] \in ServedType
        BY <2>3, RequestShape DEF BridgeInv, Types, Reply, Todo, Request
      <4>2. x \in ServedType
        BY <2>1, <4>1 DEF ServedType, BridgeType
      <4>3. served' = [served EXCEPT ![Request] = x]
        BY <2>3, <4>1 DEF Reply, MakeResponse
      <4> HIDE DEF x
      <4> QED
        BY <4>1, <4>2, <4>3, ExceptSeq
    <3> QED
      BY <2>1, <2>2, <3>1
  <2>4. CASE served' = served
    BY <2>1, <2>2, <2>4
  <2> QED
    BY <2>1, <2>2, <2>3, <2>4 DEF ConnectFails, TakeReply, TakeHeartbeat, TakeBroken, TakeEof, BridgeRestarts
<1>1. CASE ConnectFails \/ TakeBroken \/ TakeEof
  <2> DEFINE b == Returned(bridge, FALSE, "Unknown")
  <2>1. Ended(b, FALSE) /\ b.state \in during \cup {"Unknown"}
    BY ReturnedShape, ReturnedState DEF BridgeInv
  <2>2. bridge' = b \/ bridge' = [b EXCEPT !.connected = FALSE]
    BY <1>1 DEF ConnectFails, TakeBroken, TakeEof, CallFails
  <2> HIDE DEF b
  <2>3. b \in BridgeType /\ b.pc # "wait"
    BY <2>1, TodoShape DEF Ended, BridgeInv
  <2>4. bridge'.state = b.state /\ bridge'.pc # "wait"
    BY <2>2, <2>3 DEF BridgeType
  <2> QED
    BY <1>0, <2>1, <2>4 DEF Fresh, Request
<1>2. CASE TakeReply
  <2> DEFINE m == Head(link.in)
             st == IF m.type = "Ok" THEN m.state ELSE "Unknown"
  <2>0. /\ Awaiting /\ ReadReply(m) /\ bridge.pc = "wait" /\ m = link.last[1] /\ link.last # << >>
        /\ m.id = bridge.wait /\ m \in IceMessage
    <3>1. Awaiting /\ ReadReply(m) /\ bridge.pc = "wait" /\ link.in # << >>
      BY <1>2 DEF TakeReply, Awaiting
    <3>2. m \in IceMessage
      BY <3>1, PopShape DEF BridgeInv
    <3> QED
      BY <3>1, <3>2, ReplyTaken
  <2>1. CASE bridge.connected
    <3>1. bridge' = Returned(bridge, m.type = "Ok", st)
      BY <1>2, <2>1 DEF TakeReply
    <3>2. st \in during \cup {"Unknown"} /\ st \in EccStates \cup {"Unknown"} /\ (m.type = "Ok") \in BOOLEAN
      BY <2>0, <2>1 DEF Fresh, IceMessage
    <3> HIDE DEF st, m
    <3>3. bridge'.state \in during \cup {"Unknown"}
      BY <3>1, <3>2, ReturnedState
    <3>4. bridge'.pc # "wait"
      <4>1. Ended(bridge', m.type = "Ok")
        BY <3>1, <3>2, ReturnedShape DEF BridgeInv
      <4> QED
        BY <4>1, TodoShape DEF Ended, BridgeInv
    <3> QED
      BY <1>0, <3>3, <3>4 DEF Fresh, Request
  <2>2. CASE ~bridge.connected /\ m.type # "UserException"
    <3>1. bridge' = [bridge EXCEPT !.pc = IF AtStart(bridge) THEN "recv" ELSE "call",
                                   !.connected = TRUE, !.wait = 0]
      BY <1>2, <2>2 DEF TakeReply
    <3>2. bridge'.state = bridge.state /\ bridge'.pc # "wait"
      BY <1>0, <3>1 DEF BridgeType
    <3> QED
      BY <1>0, <3>2 DEF Fresh, Request
  <2>3. CASE ~bridge.connected /\ m.type = "UserException"
    <3> DEFINE b == Returned(bridge, FALSE, "Unknown")
    <3>1. Ended(b, FALSE) /\ b.state \in during \cup {"Unknown"}
      BY ReturnedShape, ReturnedState DEF BridgeInv
    <3>2. bridge' = [b EXCEPT !.connected = FALSE]
      BY <1>2, <2>3 DEF TakeReply, CallFails
    <3> HIDE DEF b
    <3>3. b \in BridgeType /\ b.pc # "wait"
      BY <3>1, TodoShape DEF Ended, BridgeInv
    <3>4. bridge'.state = b.state /\ bridge'.pc # "wait"
      BY <3>2, <3>3 DEF BridgeType
    <3> QED
      BY <1>0, <3>1, <3>4 DEF Fresh, Request
  <2> QED
    BY <2>1, <2>2, <2>3
<1>3. CASE TakeHeartbeat
  <2>1. bridge' = bridge /\ link'.last = link.last
    BY <1>3, PopShape DEF BridgeInv, TakeHeartbeat, Awaiting
  <2> QED
    BY <1>0, <2>1 DEF Fresh, Request
<1>4. CASE Reply \/ BridgeRestarts
  <2>1. bridge'.state = bridge.state /\ bridge'.pc # "wait"
    BY <1>0, <1>4 DEF Reply, BridgeRestarts, BridgeType
  <2> QED
    BY <1>0, <2>1 DEF Fresh, Request
<1> QED
  BY <1>1, <1>2, <1>3, <1>4

(* A request that comes in starts the record of states anew; a call is made.   *)
LEMMA CallFresh ==
  ASSUME BridgeInv, Fresh, (\E q \in JsonRequest : Recv(q)) \/ Connect \/ Call
  PROVE  Fresh'
<1>0. bridge \in BridgeType
  BY DEF BridgeInv, Types
<1>1. ASSUME NEW q \in JsonRequest, Recv(q) PROVE Fresh'
  <2>1. /\ bridge'.state = "Unknown" /\ bridge'.pc = "call" /\ during' = {device} /\ device' = device
    BY <1>0, <1>1 DEF Recv, BridgeType
  <2> QED
    BY <2>1 DEF Fresh
<1>2. CASE Connect
  <2>1. bridge'.state = bridge.state /\ ~bridge'.connected /\ UNCHANGED <<device, during, served>>
    BY <1>0, <1>2 DEF Connect, Invoke, BridgeType
  <2> QED
    BY <2>1 DEF Fresh, Request
<1>3. CASE Call
  <2>1. /\ bridge'.state = bridge.state /\ bridge'.wait = bridge.next_id /\ UNCHANGED <<device, during, served>>
        /\ bridge.pc = "call" /\ bridge.connected
    BY <1>0, <1>3 DEF Call, Invoke, BridgeType
  <2>2. link'.last = link.last
    BY <1>3 DEF Call, Invoke, BridgeInv, Types, LinkType
  <2>3. link.last # << >> => link.last[1].id # bridge.next_id
    BY <2>1 DEF BridgeInv, Replies
  <2> QED
    BY <2>1, <2>2, <2>3 DEF Fresh, Request
<1> QED
  BY <1>1, <1>2, <1>3

(* The ECC answers with the state it is in.                                    *)
LEMMA EccFresh ==
  ASSUME BridgeInv, Fresh, Dispatch \/ DispatchOrphan \/ EccOddity \/ Misdispatch \/ ConnectionLost
  PROVE  Fresh'
<1>0. /\ UNCHANGED <<bridge, served>> /\ link \in LinkType
      /\ bridge.todo # << >> => Request > 0
  BY DEF Dispatch, DispatchOrphan, EccOddity, Misdispatch, ConnectionLost, BridgeInv, Types, Todo
<1>1. during \subseteq during' /\ (device' \in during' \/ device' = device)
  BY DEF Dispatch, DispatchOrphan, EccOddity, Misdispatch, ConnectionLost, Execute
<1>2. \/ link'.last = link.last
      \/ link.out # << >> /\ \E m : link'.last = <<m>> /\ m.state = device
  <2>1. CASE Dispatch
    <3>1. link.out # << >> /\ link'.last = <<EccAnswer(Head(link.out))>>
      BY <1>0, <2>1 DEF Dispatch, Sent, LinkType
    <3>2. EccAnswer(Head(link.out)).state = device
      BY DEF EccAnswer
    <3> QED
      BY <3>1, <3>2
  <2>2. CASE Misdispatch
    <3>1. PICK y \in {"UserException", "RequestFailed", "Trailing"} :
             link' = Sent([id |-> Head(link.out).id, type |-> y, state |-> device])
      BY <2>2 DEF Misdispatch
    <3> DEFINE m == [id |-> Head(link.out).id, type |-> y, state |-> device]
    <3>2. m.state = device /\ link.out # << >>
      BY <2>2 DEF Misdispatch
    <3>3. link' = Sent(m)
      BY <3>1
    <3> HIDE DEF m
    <3>4. link'.last = <<m>>
      BY <1>0, <3>3 DEF Sent, LinkType
    <3> QED
      BY <3>2, <3>4
  <2>3. CASE DispatchOrphan \/ EccOddity \/ ConnectionLost
    BY <1>0, <2>3 DEF DispatchOrphan, EccOddity, ConnectionLost, LinkType
  <2> QED
    BY <2>1, <2>2, <2>3
<1>3. CASE link'.last = link.last
  BY <1>0, <1>1, <1>3 DEF Fresh, Request
<1>4. ASSUME link.out # << >>, NEW m, link'.last = <<m>>, m.state = device PROVE Fresh'
  <2>1. <<m>>[1] = m
    OBVIOUS
  <2>2. bridge.pc = "wait" /\ bridge.connected => bridge.todo # << >>
    BY DEF BridgeInv, Todo
  <2> QED
    BY <1>0, <1>1, <1>4, <2>1, <2>2 DEF Fresh, Request
<1> QED
  BY <1>2, <1>3, <1>4

(* A request is answered by Reply alone, with the state the bridge holds.      *)
LEMMA AnswerIsFresh ==
  ASSUME BridgeInv, Fresh, EccNextStep,
         NEW n \in DOMAIN served, served'[n].done, ~served[n].done
  PROVE  served'[n].state \in during \cup {"Unknown"}
<1>0. Types /\ served \in Seq(ServedType) /\ bridge \in BridgeType
  BY DEF BridgeInv, Types
<1>1. CASE \E q \in JsonRequest : Recv(q)
  <2>1. PICK s : served' = Append(served, s)
    BY <1>1 DEF Recv
  <2>2. served'[n] = served[n]
    BY <1>0, <2>1
  <2> QED
    BY <2>2, Zenon
<1>2. CASE Reply
  <2>1. served' = MakeResponse
    BY <1>2 DEF Reply
  <2>2. CASE n = Request
    <3>1. served'[n].state = bridge.state
      <4>1. served[n] \in ServedType
        BY <1>0, RequestShape
      <4> QED
        BY <1>0, <2>1, <2>2, <4>1 DEF MakeResponse, ServedType
    <3> QED
      BY <3>1 DEF Fresh
  <2>3. CASE n # Request
    <3>1. served'[n] = served[n]
      BY <1>0, <2>1, <2>3 DEF MakeResponse
    <3> QED
      BY <3>1, Zenon
  <2> QED
    BY <2>2, <2>3
<1>3. CASE served' = served
  BY <1>3, Zenon
<1> QED
  BY <1>1, <1>2, <1>3 DEF EccNextStep, Connect, ConnectFails, Call, TakeReply, TakeHeartbeat, TakeBroken,
    TakeEof, BridgeRestarts, Dispatch, DispatchOrphan, EccOddity, Misdispatch, ConnectionLost

(* The state in an answer is Unknown or one the ECC was in since the request   *)
(* came, never one of an earlier request: the controller decides its walk-back *)
(* by it (make_response, EccProxy::get_status).                                *)
THEOREM AnswersAreFresh == EccSpec => ReportedStateIsFresh
<1>1. EccInit => Fresh
  <2> SUFFICES ASSUME EccInit PROVE Fresh
    OBVIOUS
  <2>1. Len(<< >>) = 0
    OBVIOUS
  <2> QED
    BY <2>1 DEF EccInit, EccInitAt, Fresh, Request, NoLink
<1>2. BridgeInv /\ Fresh /\ [EccNextStep]_eccVars => Fresh'
  <2> SUFFICES ASSUME BridgeInv, Fresh, [EccNextStep]_eccVars PROVE Fresh'
    OBVIOUS
  <2>1. CASE EccNextStep
    BY <2>1, BridgeFresh, CallFresh, EccFresh DEF EccNextStep
  <2>2. CASE UNCHANGED eccVars
    BY <2>2 DEF eccVars, Fresh, Request
  <2> QED
    BY <2>1, <2>2
<1>3. BridgeInv /\ Fresh /\ [EccNextStep]_eccVars
        => [\A n \in DOMAIN served : served'[n].done /\ ~served[n].done
              => served'[n].state \in during \cup {"Unknown"}]_eccVars
  BY AnswerIsFresh
<1> QED
  BY <1>1, <1>2, <1>3, BridgeStarts, BridgeStepKeeps, PTL DEF EccSpec, ReportedStateIsFresh

-----------------------------------------------------------------------------
(* The power interlock                                                         *)

Base == TypeOK /\ OneInFlight

InBox(p) == \E i \in DOMAIN inbox : inbox[i] = p

OnDevice(p) == \E d \in Devices : queue[d] = p \/ running[d] = p

(* A request is nowhere before it is sent, and afterwards in one place only.   *)
NewIsNowhere ==
  \A p \in Requests : req[p] = "new" => ~InBox(p) /\ rep # p /\ p \notin expired /\ ~OnDevice(p)

InboxFirst ==
  \A p \in Requests : InBox(p) => rep # p /\ p \notin expired /\ ~OnDevice(p)

InboxOnce == \A i, j \in DOMAIN inbox : inbox[i] = inbox[j] => i = j

QueuedOrRunning ==
  \A p \in Requests, d, e \in Devices : queue[d] = p => running[e] # p

(* With a prompt slowctl, the controller still waits for whatever slowctl has  *)
(* not answered, and the REP thread for whatever a device may still execute.   *)
StillWaiting == \A p \in Requests : InBox(p) \/ rep = p => req[p] = "sent"

RepWaits ==
  \A p \in Requests, d \in Devices :
    running[d] = p \/ (queue[d] = p /\ p \notin expired) => rep = p

(* A request that waits is one the rule admits in the present phase.           *)
Admitted == \A p \in Requests : req[p] = "sent" => PowerRule(cmd[p])

IInv ==
  /\ Base
  /\ NewIsNowhere /\ InboxFirst /\ InboxOnce /\ QueuedOrRunning
  /\ StillWaiting /\ RepWaits /\ Admitted

-------------------------------------------------------------------------------
(* What is left of an inbox without its head.                                  *)
LEMMA TailOfInbox ==
  ASSUME NEW s \in Seq(Requests), s # << >>
  PROVE  /\ Head(s) \in Requests /\ Tail(s) \in Seq(Requests)
         /\ 1 \in DOMAIN s /\ s[1] = Head(s)
         /\ \A i \in DOMAIN Tail(s) : i + 1 \in DOMAIN s /\ i + 1 # 1 /\ Tail(s)[i] = s[i + 1]
         /\ DOMAIN Tail(s) \subseteq Nat
OBVIOUS

(* What is in an inbox that a request was added to.                            *)
LEMMA AppendToInbox ==
  ASSUME NEW s \in Seq(Requests), NEW p \in Requests
  PROVE  /\ Append(s, p) \in Seq(Requests)
         /\ \A i \in DOMAIN Append(s, p) :
              \/ i \in DOMAIN s /\ Append(s, p)[i] = s[i]
              \/ i = Len(s) + 1 /\ i \notin DOMAIN s /\ Append(s, p)[i] = p
OBVIOUS

(* The invariant that needs no promptness holds when the controller starts.    *)
LEMMA BaseInit == Init => Base
<1> SUFFICES ASSUME Init PROVE Base
  OBVIOUS
<1>1. \A d \in Devices, p \in Requests : queue[d] # p /\ running[d] # p
  BY InterlockAssumption DEF Init
<1>2. OneInFlight
  BY InterlockAssumption DEF Init, OneInFlight
<1>3. starts \in 0 .. MaxStarts /\ crashes \in 0 .. MaxCrashes
  BY InterlockAssumption DEF Init
<1>4. inbox \in Seq(Requests)
  BY DEF Init
<1> QED
  BY <1>1, <1>2, <1>3, <1>4, Zenon DEF Init, Base, TypeOK, Holder

(* The mark and the request that waits change together.                        *)
LEMMA BaseStep == Base /\ [Next]_vars => Base'
<1> SUFFICES ASSUME Base, [Next]_vars PROVE Base'
  OBVIOUS
<1> USE InterlockAssumption DEF Base, TypeOK, OneInFlight, Holder
<1>1. CASE RunStart \/ StartEnds \/ RunStop
  <2>1. phase' \in {"Idle", "Starting", "Running", "Stopping"}
    BY <1>1 DEF RunStart, StartEnds, RunStop
  <2>2. starts' \in 0 .. MaxStarts
    BY <1>1 DEF RunStart, StartEnds, RunStop
  <2>3. UNCHANGED <<crashes, inflight, req, cmd, slowVars>>
    BY <1>1 DEF RunStart, StartEnds, RunStop
  <2> QED
    BY <2>1, <2>2, <2>3 DEF slowVars
<1>2. CASE Crash
  BY <1>2 DEF Crash, slowVars
<1>3. ASSUME NEW p \in Requests, PowerSend(p) PROVE Base'
  <2>1. inbox' \in Seq(Requests)
    BY <1>3, AppendToInbox DEF PowerSend
  <2>2. /\ UNCHANGED <<runVars, cmd, rep, expired, queue, running, power>>
        /\ inflight = Nobody /\ inflight' = p /\ req' = [req EXCEPT ![p] = "sent"]
    BY <1>3 DEF PowerSend
  <2> QED
    BY <2>1, <2>2 DEF runVars
<1>4. ASSUME NEW p \in Requests, PowerRefuse(p) \/ PowerTimeout(p) PROVE Base'
  BY <1>4 DEF PowerRefuse, PowerTimeout, runVars, slowVars
<1>5. CASE RepTakes
  <2> DEFINE p == Head(inbox)
             d == cmd[p].device
  <2>1. p \in Requests /\ inbox' \in Seq(Requests) /\ rep = Nobody
    BY <1>5, TailOfInbox DEF RepTakes
  <2>2. d \in Devices
    BY <2>1 DEF PowerCommand
  <2>3. UNCHANGED <<runVars, cmd, expired, running, power>>
    BY <1>5 DEF RepTakes
  <2>4. CASE queue[d] = Nobody /\ queue' = [queue EXCEPT ![d] = p] /\ rep' = p
             /\ UNCHANGED <<req, inflight>>
    BY <2>1, <2>2, <2>3, <2>4 DEF runVars
  <2>5. CASE Answer(p) /\ UNCHANGED queue
    BY <2>1, <2>2, <2>3, <2>5, SMTT(30) DEF Answer, runVars
  <2> QED
    BY <1>5, <2>4, <2>5 DEF RepTakes
<1>6. CASE RepTimeout
  BY <1>6 DEF RepTimeout, Answer, runVars
<1>7. ASSUME NEW d \in Devices, DeviceTakes(d) PROVE Base'
  BY <1>7 DEF DeviceTakes, runVars
<1>8. ASSUME NEW d \in Devices, DeviceNotConnected(d) PROVE Base'
  BY <1>8 DEF DeviceNotConnected, Deliver, Answer, runVars
<1>9. ASSUME NEW d \in Devices, DeviceSwitches(d) PROVE Base'
  <2>1. running[d] \in Requests /\ cmd[running[d]].on \in BOOLEAN
    BY <1>9 DEF DeviceSwitches, PowerCommand
  <2>2. power' \in [Devices -> BOOLEAN]
    BY <1>9, <2>1 DEF DeviceSwitches
  <2>3. /\ running' = [running EXCEPT ![d] = Nobody] /\ Deliver(running[d])
        /\ UNCHANGED <<runVars, cmd, inbox, expired, queue>>
    BY <1>9 DEF DeviceSwitches
  <2> QED
    BY <2>1, <2>2, <2>3 DEF Deliver, Answer, runVars
<1>10. CASE UNCHANGED vars
  BY <1>10 DEF vars, runVars, slowVars
<1> QED
  BY <1>1, <1>2, <1>3, <1>4, <1>5, <1>6, <1>7, <1>8, <1>9, <1>10 DEF Next, Step

(* The mark is up exactly while a request of the controller waits for slowctl, *)
(* and names that request: there is never a second one, whatever is lost,      *)
(* late or restarted.                                                          *)
THEOREM MarkNamesTheOne == Spec => []OneInFlight
<1>1. Init => Base
  BY BaseInit
<1>2. Base /\ [Next]_vars => Base'
  BY BaseStep
<1>3. Base => OneInFlight
  BY DEF Base
<1> QED
  BY <1>1, <1>2, <1>3, PTL DEF Spec

-------------------------------------------------------------------------------
(* The invariant holds when the controller starts.                             *)
LEMMA InitInv == Init => IInv
<1> SUFFICES ASSUME Init PROVE IInv
  OBVIOUS
<1>1. ~\E p \in Requests : InBox(p) \/ OnDevice(p) \/ rep = p
  BY InterlockAssumption DEF Init, InBox, OnDevice
<1>2. /\ \A p \in Requests : req[p] = "new"
      /\ expired = {} /\ DOMAIN inbox = {}
  BY DEF Init
<1> QED
  BY <1>1, <1>2, BaseInit DEF IInv, NewIsNowhere, InboxFirst, InboxOnce, QueuedOrRunning,
     StillWaiting, RepWaits, Admitted, OnDevice

(* Starting and stopping runs: no run starts while a request waits, so that    *)
(* what was admitted in phase Idle stays admitted.                             *)
LEMMA RunStepInv ==
  ASSUME IInv, RunStart \/ StartEnds \/ RunStop, Base'
  PROVE  IInv'
<1>1. UNCHANGED <<inflight, req, cmd, slowVars>>
  BY DEF RunStart, StartEnds, RunStop
<1>2. Admitted'
  <2> SUFFICES ASSUME NEW p \in Requests, req[p] = "sent" PROVE PowerRule(cmd[p])'
    BY <1>1 DEF Admitted
  <2>1. PowerRule(cmd[p]) /\ inflight # Nobody
    BY InterlockAssumption DEF IInv, Base, OneInFlight, Admitted
  <2> QED
    BY <1>1, <2>1 DEF RunStart, StartEnds, RunStop, PowerRule
<1> QED
  BY <1>1, <1>2 DEF IInv, NewIsNowhere, InboxFirst, InboxOnce, QueuedOrRunning,
     StillWaiting, RepWaits, InBox, OnDevice, slowVars

(* The controller sends, refuses or gives up on a request.                     *)
LEMMA PowerStepInv ==
  ASSUME IInv, prompt, Base', NEW p \in Requests,
         PowerSend(p) \/ PowerRefuse(p) \/ PowerTimeout(p)
  PROVE  IInv'
<1> USE DEF IInv, Base, TypeOK
<1>1. CASE PowerSend(p)
  <2>1. /\ req[p] = "new" /\ req' = [req EXCEPT ![p] = "sent"] /\ PowerRule(cmd[p])
        /\ UNCHANGED <<phase, cmd, rep, expired, queue, running>>
    BY <1>1 DEF PowerSend, runVars
  <2>2. ~InBox(p) /\ rep # p /\ p \notin expired /\ ~OnDevice(p)
    BY <2>1 DEF NewIsNowhere
  <2>3. \A q \in Requests : InBox(q)' => InBox(q) \/ q = p
    BY <1>1, AppendToInbox DEF PowerSend, InBox
  <2>4. InboxOnce'
    <3>1. CASE inbox' = inbox
      BY <3>1 DEF InboxOnce
    <3>2. CASE inbox' = Append(inbox, p)
      <4>1. \A i \in DOMAIN inbox : inbox[i] # p
        BY <2>2 DEF InBox
      <4> HIDE DEF IInv, Base, TypeOK
      <4>2. inbox \in Seq(Requests) /\ InboxOnce
        BY DEF IInv, Base, TypeOK
      <4> QED
        BY <3>2, <4>1, <4>2, AppendToInbox DEF InboxOnce
    <3> QED
      BY <1>1, <3>1, <3>2 DEF PowerSend
  <2>5. \A q \in Requests : OnDevice(q)' <=> OnDevice(q)
    BY <2>1 DEF OnDevice
  <2>6. NewIsNowhere' /\ InboxFirst'
    BY <2>1, <2>2, <2>3, <2>5 DEF NewIsNowhere, InboxFirst
  <2>7. QueuedOrRunning' /\ RepWaits'
    BY <2>1 DEF QueuedOrRunning, RepWaits
  <2>8. StillWaiting'
    BY <2>1, <2>2, <2>3 DEF StillWaiting
  <2>9. Admitted'
    BY <2>1 DEF Admitted, PowerRule
  <2> QED
    BY <2>4, <2>6, <2>7, <2>8, <2>9
<1>2. CASE PowerRefuse(p) \/ PowerTimeout(p)
  <2>1. /\ UNCHANGED <<phase, cmd, slowVars>> /\ req' = [req EXCEPT ![p] = "done"]
        /\ ~InBox(p) /\ rep # p
    BY <1>2 DEF PowerRefuse, PowerTimeout, InSlowctl, InBox, NewIsNowhere, runVars
  <2>2. \A q \in Requests : (InBox(q)' <=> InBox(q)) /\ (OnDevice(q)' <=> OnDevice(q))
    BY <2>1 DEF slowVars, InBox, OnDevice
  <2>3. NewIsNowhere' /\ InboxFirst' /\ InboxOnce'
    BY <2>1, <2>2 DEF slowVars, NewIsNowhere, InboxFirst, InboxOnce
  <2>4. QueuedOrRunning' /\ RepWaits'
    BY <2>1 DEF slowVars, QueuedOrRunning, RepWaits
  <2>5. StillWaiting' /\ Admitted'
    BY <2>1, <2>2 DEF slowVars, StillWaiting, Admitted, PowerRule
  <2> QED
    BY <2>3, <2>4, <2>5
<1> QED
  BY <1>1, <1>2

(* The REP thread takes a request on.  It was free, so no device had anything  *)
(* left to execute.                                                            *)
LEMMA RepTakesInv ==
  ASSUME IInv, Base', RepTakes
  PROVE  IInv'
<1> USE DEF IInv, Base, TypeOK
<1> DEFINE p == Head(inbox)
           d == cmd[p].device
<1>1. p \in Requests /\ InBox(p) /\ d \in Devices /\ rep = Nobody
  BY TailOfInbox DEF RepTakes, InBox, PowerCommand
<1>2. UNCHANGED <<phase, cmd, expired, running>>
  BY DEF RepTakes, runVars
<1>3. rep # p /\ p \notin expired /\ ~OnDevice(p) /\ req[p] = "sent"
  BY <1>1 DEF InboxFirst, StillWaiting
<1>4. \A q \in Requests : InBox(q)' => InBox(q) /\ q # p
  BY TailOfInbox DEF RepTakes, InBox, InboxOnce
<1>5. InboxOnce'
  BY TailOfInbox DEF RepTakes, InboxOnce
<1>6. \A q \in Requests, e \in Devices : running[e] # q /\ (queue[e] = q => q \in expired)
  BY <1>1, InterlockAssumption DEF RepWaits
<1>7. CASE queue' = [queue EXCEPT ![d] = p] /\ rep' = p /\ UNCHANGED req
  <2>1. \A q \in Requests : OnDevice(q)' => OnDevice(q) \/ q = p
    BY <1>1, <1>2, <1>7 DEF OnDevice
  <2>2. NewIsNowhere' /\ InboxFirst'
    BY <1>2, <1>3, <1>4, <1>7, <2>1 DEF NewIsNowhere, InboxFirst
  <2>3. QueuedOrRunning' /\ RepWaits'
    BY <1>1, <1>2, <1>6, <1>7 DEF QueuedOrRunning, RepWaits
  <2>4. StillWaiting' /\ Admitted'
    BY <1>2, <1>3, <1>4, <1>7 DEF StillWaiting, Admitted, PowerRule
  <2> QED
    BY <1>5, <2>2, <2>3, <2>4
<1>8. CASE Answer(p) /\ UNCHANGED queue
  <2>1. rep' = Nobody /\ req' = [req EXCEPT ![p] = "done"]
    BY <1>3, <1>8 DEF Answer
  <2>2. \A q \in Requests : OnDevice(q)' <=> OnDevice(q)
    BY <1>2, <1>8 DEF OnDevice
  <2>3. NewIsNowhere' /\ InboxFirst'
    BY <1>2, <1>4, <2>1, <2>2, InterlockAssumption DEF NewIsNowhere, InboxFirst
  <2>4. QueuedOrRunning' /\ RepWaits'
    BY <1>2, <1>6, <1>8 DEF QueuedOrRunning, RepWaits
  <2>5. StillWaiting' /\ Admitted'
    BY <1>1, <1>2, <1>4, <2>1, InterlockAssumption DEF StillWaiting, Admitted, PowerRule
  <2> QED
    BY <1>5, <2>3, <2>4, <2>5
<1> QED
  BY <1>7, <1>8 DEF RepTakes

(* A request that the REP thread was waiting for is answered: it has expired,  *)
(* or it is on no device any more.                                             *)
LEMMA AnswerInv ==
  ASSUME IInv, Base', NEW p \in Requests, rep = p, Answer(p),
         UNCHANGED <<phase, cmd, inbox>>,
         expired \subseteq expired', expired' \subseteq expired \cup {p},
         \A q \in Requests, e \in Devices :
           /\ queue'[e] = q => queue[e] = q
           /\ running'[e] = q => running[e] = q,
         p \in expired' \/ \A e \in Devices : queue'[e] # p,
         \A e \in Devices : running'[e] # p
  PROVE  IInv'
<1> USE DEF IInv, Base, TypeOK
<1>1. req[p] = "sent" /\ rep' = Nobody /\ req' = [req EXCEPT ![p] = "done"]
  BY DEF StillWaiting, Answer
<1>2. \A q \in Requests : (InBox(q)' <=> InBox(q)) /\ (OnDevice(q)' => OnDevice(q))
  BY DEF InBox, OnDevice
<1>3. ~InBox(p)
  BY DEF InboxFirst
<1>4. NewIsNowhere' /\ InboxFirst' /\ InboxOnce'
  BY <1>1, <1>2, <1>3, InterlockAssumption DEF NewIsNowhere, InboxFirst, InboxOnce
<1>5. QueuedOrRunning'
  BY DEF QueuedOrRunning
<1>6. RepWaits'
  BY <1>1 DEF RepWaits
<1>7. StillWaiting' /\ Admitted'
  BY <1>1, <1>2, <1>3, InterlockAssumption DEF StillWaiting, Admitted, PowerRule
<1> QED
  BY <1>4, <1>5, <1>6, <1>7

(* The REP thread's deadline: a prompt device is not in the middle of it.      *)
LEMMA RepTimeoutInv ==
  ASSUME IInv, prompt, Base', RepTimeout
  PROVE  IInv'
<1>1. rep \in Requests
  BY DEF IInv, Base, TypeOK, Holder, RepTimeout
<1>2. /\ UNCHANGED <<phase, cmd, inbox, queue, running>> /\ expired' = expired \cup {rep}
      /\ Answer(rep) /\ \A e \in Devices : running[e] # rep
  BY DEF RepTimeout, runVars
<1> QED
  BY <1>1, <1>2, AnswerInv

(* The device thread takes a command, is not connected, or is done with one.   *)
LEMMA DeviceInv ==
  ASSUME IInv, Base', NEW d \in Devices,
         DeviceTakes(d) \/ DeviceNotConnected(d) \/ DeviceSwitches(d)
  PROVE  IInv'
<1> USE DEF IInv, Base, TypeOK
<1>1. CASE DeviceTakes(d)
  <2>1. /\ UNCHANGED <<phase, req, cmd, inbox, rep, expired>>
        /\ queue[d] # Nobody /\ running[d] = Nobody
        /\ queue' = [queue EXCEPT ![d] = Nobody]
        /\ running' = [running EXCEPT ![d] = IF queue[d] \in expired THEN Nobody ELSE queue[d]]
    BY <1>1 DEF DeviceTakes, runVars
  <2>2. \A q \in Requests : (InBox(q)' <=> InBox(q)) /\ (OnDevice(q)' => OnDevice(q))
    BY <2>1, InterlockAssumption DEF InBox, OnDevice
  <2>3. NewIsNowhere' /\ InboxFirst' /\ InboxOnce'
    BY <2>1, <2>2 DEF NewIsNowhere, InboxFirst, InboxOnce
  <2>4. QueuedOrRunning' /\ RepWaits'
    BY <2>1, InterlockAssumption DEF QueuedOrRunning, RepWaits
  <2>5. StillWaiting' /\ Admitted'
    BY <2>1, <2>2 DEF StillWaiting, Admitted, PowerRule
  <2> QED
    BY <2>3, <2>4, <2>5
<1>2. CASE DeviceNotConnected(d) \/ DeviceSwitches(d)
  <2>1. UNCHANGED <<phase, cmd, inbox, expired>>
    BY <1>2 DEF DeviceNotConnected, DeviceSwitches, runVars
  <2>2. PICK p \in Requests :
          /\ Deliver(p)
          /\ \/ queue[d] = p /\ queue' = [queue EXCEPT ![d] = Nobody] /\ UNCHANGED running
             \/ running[d] = p /\ running' = [running EXCEPT ![d] = Nobody] /\ UNCHANGED queue
    BY <1>2 DEF DeviceNotConnected, DeviceSwitches, Holder
  <2>3. /\ \A q \in Requests, e \in Devices :
             /\ queue'[e] = q => queue[e] = q
             /\ running'[e] = q => running[e] = q
        /\ \A e \in Devices : queue'[e] # p /\ running'[e] # p
    <3>1. \A e \in Devices : queue[e] = p \/ running[e] = p => e = d
      BY <2>2
    <3>2. queue \in [Devices -> Holder] /\ running \in [Devices -> Holder] /\ p # Nobody
      BY InterlockAssumption
    <3>3. QueuedOrRunning
      OBVIOUS
    <3> HIDE DEF IInv, Base, TypeOK
    <3>4. CASE queue[d] = p /\ queue' = [queue EXCEPT ![d] = Nobody] /\ UNCHANGED running
      BY <3>1, <3>2, <3>3, <3>4, InterlockAssumption DEF QueuedOrRunning
    <3>5. CASE running[d] = p /\ running' = [running EXCEPT ![d] = Nobody] /\ UNCHANGED queue
      BY <3>1, <3>2, <3>3, <3>5, InterlockAssumption DEF QueuedOrRunning
    <3> QED
      BY <2>2, <3>4, <3>5
  <2>4. CASE rep = p
    BY <2>1, <2>2, <2>3, <2>4, AnswerInv DEF Deliver
  <2>5. CASE rep # p
    <3>1. UNCHANGED <<rep, req>>
      BY <2>2, <2>5 DEF Deliver
    <3>2. \A q \in Requests : (InBox(q)' <=> InBox(q)) /\ (OnDevice(q)' => OnDevice(q))
      BY <2>1, <2>3 DEF InBox, OnDevice
    <3>3. NewIsNowhere' /\ InboxFirst' /\ InboxOnce'
      BY <2>1, <3>1, <3>2 DEF NewIsNowhere, InboxFirst, InboxOnce
    <3>4. QueuedOrRunning' /\ RepWaits'
      BY <2>1, <2>3, <3>1 DEF QueuedOrRunning, RepWaits
    <3>5. StillWaiting' /\ Admitted'
      BY <2>1, <3>1, <3>2 DEF StillWaiting, Admitted, PowerRule
    <3> QED
      BY <3>3, <3>4, <3>5
  <2> QED
    BY <2>4, <2>5
<1> QED
  BY <1>1, <1>2

(* What holds in every behaviour, and what more while everybody is prompt and  *)
(* the controller has not died.                                                *)
GInv == Base /\ (prompt /\ crashes = 0 => IInv)

(* No step breaks it: promptness is given, and a death cannot be undone.       *)
LEMMA StepInv == GInv /\ [Next]_vars => GInv'
<1> SUFFICES ASSUME GInv, [Next]_vars PROVE GInv'
  OBVIOUS
<1>0. Base'
  BY BaseStep DEF GInv
<1> SUFFICES ASSUME prompt', crashes' = 0 PROVE IInv'
  BY <1>0 DEF GInv
<1>1. prompt
  BY DEF Next, vars
<1>2. crashes = 0 /\ ~Crash
  <2>1. crashes \in Nat
    BY InterlockAssumption DEF GInv, Base, TypeOK
  <2>2. ~Crash
    BY <2>1 DEF Crash
  <2>3. UNCHANGED crashes
    BY <2>2 DEF Next, Step, vars, runVars, RunStart, StartEnds, RunStop, RepTakes, RepTimeout,
       PowerSend, PowerRefuse, PowerTimeout, DeviceTakes, DeviceNotConnected, DeviceSwitches
  <2> QED
    BY <2>2, <2>3
<1>3. IInv
  BY <1>1, <1>2 DEF GInv
<1>4. CASE RunStart \/ StartEnds \/ RunStop
  BY <1>0, <1>3, <1>4, RunStepInv
<1>5. ASSUME NEW p \in Requests, PowerSend(p) \/ PowerRefuse(p) \/ PowerTimeout(p)
      PROVE  IInv'
  BY <1>0, <1>1, <1>3, <1>5, PowerStepInv
<1>6. CASE RepTakes
  BY <1>0, <1>3, <1>6, RepTakesInv
<1>7. CASE RepTimeout
  BY <1>0, <1>1, <1>3, <1>7, RepTimeoutInv
<1>8. ASSUME NEW d \in Devices, DeviceTakes(d) \/ DeviceNotConnected(d) \/ DeviceSwitches(d)
      PROVE  IInv'
  BY <1>0, <1>3, <1>8, DeviceInv
<1>9. CASE UNCHANGED vars
  BY <1>0, <1>3, <1>9 DEF vars, runVars, slowVars, IInv, NewIsNowhere, InboxFirst, InboxOnce,
     QueuedOrRunning, StillWaiting, RepWaits, Admitted, InBox, OnDevice, PowerRule
<1> QED
  BY <1>2, <1>4, <1>5, <1>6, <1>7, <1>8, <1>9 DEF Next, Step

(* Only a device thread switches, and what it executes was admitted.           *)
LEMMA SwitchAdmitted == IInv /\ [Next]_vars => (Disturbs => phase = "Idle")
<1> SUFFICES ASSUME IInv, [Next]_vars, Disturbs PROVE phase = "Idle"
  OBVIOUS
<1> USE DEF IInv, Base, TypeOK
<1>1. power' # power
  BY DEF Disturbs
<1>2. PICK d \in Devices : DeviceSwitches(d)
  BY <1>1 DEF Next, Step, vars, runVars, slowVars, RunStart, StartEnds, RunStop, Crash, RepTakes,
     RepTimeout, PowerSend, PowerRefuse, PowerTimeout, DeviceTakes, DeviceNotConnected
<1> DEFINE p == running[d]
<1>3. p \in Requests /\ power' = [power EXCEPT ![d] = cmd[p].on]
  BY <1>1, <1>2 DEF DeviceSwitches, Holder
<1>4. req[p] = "sent" /\ cmd[p].device = d /\ cmd[p] \in PowerCommand
  BY <1>3 DEF RepWaits, StillWaiting
<1>5. PowerRule(cmd[p])
  BY <1>3, <1>4 DEF Admitted
<1>6. cmd[p] = [device |-> d, on |-> cmd[p].on] /\ cmd[p].on \in BOOLEAN
  BY <1>4 DEF PowerCommand
<1>7. \/ d = "hivolta" /\ cmd[p].on = TRUE
      \/ d = "hmp2020" /\ cmd[p].on = FALSE
  BY <1>3, <1>6 DEF Disturbs, Devices
<1> QED
  BY <1>5, <1>6, <1>7 DEF PowerRule

(* As long as slowctl reads a request before the controller gives up on it, a  *)
(* device obeys before the REP deadline and the controller has not died, HV is *)
(* never turned on and LV never off outside phase Idle, for any number of      *)
(* requests and runs and any interleaving of the four threads.                 *)
THEOREM SwitchesOnlyWhenIdle == Spec => SwitchOnlyWhenIdle
<1>1. Init => GInv
  BY InitInv DEF GInv, IInv
<1>2. GInv /\ [Next]_vars => GInv'
  BY StepInv
<1>3. GInv /\ [Next]_vars => [prompt /\ crashes = 0 /\ Disturbs => phase = "Idle"]_vars
  BY SwitchAdmitted DEF GInv
<1> QED
  BY <1>1, <1>2, <1>3, PTL DEF Spec, SwitchOnlyWhenIdle

-----------------------------------------------------------------------------
(* The InfluxDB writer                                                         *)

(* When a point was measured, as one number: polls ascend, and the samples of *)
(* a poll have an order.                                                      *)
Num(p) == 2 * p.poll + p.param

(* The points of s ascend.                                                    *)
Rising(s) == \A i, j \in DOMAIN s : i < j => Num(s[i]) < Num(s[j])

(* Every point of A was measured before every point of B.                     *)
Earlier(A, B) == \A a \in A, b \in B : Num(a) < Num(b)

(* s, with p at its end when it is finite.                                    *)
WithFinite(p, s) == IF p.finite THEN Append(s, p) ELSE s

(* One step of picking the finite points out of ps.                           *)
FiniteStep(ps) ==
  [x \in Seq(Point) \X (Nat \ {0}) |->
     IF x[2] \in 1 .. Len(ps) THEN WithFinite(ps[x[2]], x[1]) ELSE x[1]]

(* Finite goes through the points from the left.                              *)
LEMMA FiniteFollows ==
  ASSUME NEW ps \in Seq(Point)
  PROVE  \E g : /\ g[0] = << >>
                /\ \A j \in 1 .. Len(ps) : g[j] = WithFinite(ps[j], g[j - 1])
                /\ Finite(ps) = g[Len(ps)]
<1> DEFINE n == Len(ps)
           step == FiniteStep(ps)
           e == << >>
<1>0. n \in Nat
  OBVIOUS
<1>1. \A j \in 1 .. n : ps[j] \in Point
  OBVIOUS
<1>2. step \in [Seq(Point) \X (Nat \ {0}) -> Seq(Point)]
  <2> HIDE DEF n
  <2> SUFFICES ASSUME NEW x \in Seq(Point) \X (Nat \ {0})
               PROVE  (IF x[2] \in 1 .. n THEN WithFinite(ps[x[2]], x[1]) ELSE x[1])
                        \in Seq(Point)
    BY DEF FiniteStep, n
  <2> QED
    BY <1>1 DEF WithFinite
<1>3. e \in Seq(Point)
  OBVIOUS
<1>4. PICK g \in [0 .. n -> Seq(Point)] : Follows(g, n, e, step)
  <2> HIDE DEF step, n, e
  <2> QED
    BY <1>0, <1>2, <1>3, Recursion
<1>5. ASSUME NEW j \in 1 .. n PROVE g[j] = WithFinite(ps[j], g[j - 1])
  <2>1. j - 1 \in 0 .. n /\ j \in Nat \ {0}
    <3> HIDE DEF n
    <3> QED
      BY <1>0
  <2>2. g[j - 1] \in Seq(Point)
    BY <2>1
  <2>3. step[<<g[j - 1], j>>] = WithFinite(ps[j], g[j - 1])
    BY <2>1, <2>2 DEF FiniteStep
  <2> HIDE DEF step
  <2> QED
    BY <1>4, <2>3 DEF Follows
<1> DEFINE F(f) == [i \in 0 .. n |->
                      IF i = 0 THEN << >>
                      ELSE IF ps[i].finite THEN Append(f[i - 1], ps[i]) ELSE f[i - 1]]
           c == CHOOSE f : f = F(f)
<1>6. ASSUME NEW j \in 1 .. n, NEW f PROVE F(f)[j] = WithFinite(ps[j], f[j - 1])
  <2>1. j \in 0 .. n /\ j # 0
    <3> HIDE DEF n
    <3> QED
      BY <1>0
  <2> QED
    BY <2>1 DEF WithFinite
<1>7. ASSUME NEW f PROVE F(f)[0] = << >>
  <2>1. 0 \in 0 .. n
    <3> HIDE DEF n
    <3> QED
      BY <1>0
  <2> QED
    BY <2>1
<1>8. \A f : F(f) = [j \in 0 .. n |-> F(f)[j]]
  OBVIOUS
<1>9. Finite(ps) = c[n]
  BY DEF Finite
<1> HIDE DEF F, n
<1>10. g = F(g)
  <2>1. \A j \in 0 .. n : g[j] = F(g)[j]
    <3> SUFFICES ASSUME NEW j \in 0 .. n PROVE g[j] = F(g)[j]
      OBVIOUS
    <3>1. CASE j = 0
      BY <1>4, <1>7, <3>1 DEF Follows
    <3>2. CASE j # 0
      <4>1. j \in 1 .. n
        BY <1>0, <3>2
      <4> QED
        BY <1>5, <1>6, <4>1
    <3> QED
      BY <3>1, <3>2
  <2> QED
    BY <1>8, <2>1
<1>11. c = F(c)
  BY <1>10
<1> HIDE DEF c
<1>12. c[0] = << >>
  BY <1>7, <1>11
<1>13. \A j \in 1 .. n : c[j] = WithFinite(ps[j], c[j - 1])
  BY <1>6, <1>11
<1> QED
  BY <1>9, <1>12, <1>13 DEF n

(* The finite points of ps are points of ps, in their order.                  *)
LEMMA FiniteFacts ==
  ASSUME NEW ps \in Seq(Point), Rising(ps)
  PROVE  /\ Finite(ps) \in Seq(Point) /\ Len(Finite(ps)) <= Len(ps)
         /\ Elements(Finite(ps)) \subseteq Elements(ps)
         /\ Rising(Finite(ps))
         /\ \A p \in Elements(Finite(ps)) : p.finite
<1> DEFINE n == Len(ps)
<1>1. n \in Nat /\ \A j \in 1 .. n : ps[j] \in Point
  OBVIOUS
<1>2. PICK g : /\ g[0] = << >>
               /\ \A j \in 1 .. n : g[j] = WithFinite(ps[j], g[j - 1])
               /\ Finite(ps) = g[n]
  BY FiniteFollows
<1>3. \A i, j \in 1 .. n : i < j => Num(ps[i]) < Num(ps[j])
  BY DEF Rising
<1>4. Elements(ps) = {ps[j] : j \in 1 .. n}
  BY DEF Elements
<1> HIDE DEF n
<1> DEFINE Good(m) == /\ g[m] \in Seq(Point) /\ Len(g[m]) <= m
                      /\ Rising(g[m])
                      /\ \A p \in Elements(g[m]) : p.finite /\ \E j \in 1 .. m : p = ps[j]
           S == {m \in Nat : m <= n => Good(m)}
<1>5. 0 \in S
  <2>1. g[0] = << >>
    BY <1>2
  <2>2. << >> \in Seq(Point) /\ Len(<< >>) = 0 /\ DOMAIN << >> = {}
    OBVIOUS
  <2>3. Rising(<< >>)
    BY <2>2 DEF Rising
  <2>4. Elements(g[0]) = {} /\ Rising(g[0]) /\ g[0] \in Seq(Point) /\ Len(g[0]) <= 0
    BY <2>1, <2>2, <2>3, NoElements
  <2> QED
    BY <2>4
<1>6. ASSUME NEW m \in Nat, m \in S PROVE m + 1 \in S
  <2> SUFFICES ASSUME m + 1 <= n PROVE Good(m + 1)
    OBVIOUS
  <2>1. Good(m)
    BY <1>1, <1>6
  <2>2. m + 1 \in 1 .. n /\ (m + 1) - 1 = m
    BY <1>1
  <2>3. g[m + 1] = WithFinite(ps[m + 1], g[m])
    BY <1>2, <2>2
  <2>4. PICK p : p = ps[m + 1]
    OBVIOUS
  <2>5. PICK s : s = g[m]
    OBVIOUS
  <2>6. PICK t : t = g[m + 1]
    OBVIOUS
  <2>7. p \in Point /\ s \in Seq(Point) /\ Len(s) <= m
    BY <1>1, <2>1, <2>2, <2>4, <2>5
  <2>8. CASE p.finite
    <3>1. t = Append(s, p)
      BY <2>3, <2>4, <2>5, <2>6, <2>8 DEF WithFinite
    <3>2. t \in Seq(Point) /\ Len(t) <= m + 1
      BY <2>7, <3>1
    <3>3. Elements(t) = Elements(s) \cup {p}
      BY <2>7, <3>1, ElementsAppend
    <3>4. ASSUME NEW q \in Elements(t)
          PROVE  q.finite /\ \E j \in 1 .. m + 1 : q = ps[j]
      <4>1. CASE q = p
        BY <2>4, <2>8, <4>1, m + 1 \in 1 .. m + 1
      <4>2. CASE q \in Elements(s)
        <5>1. q.finite /\ \E j \in 1 .. m : q = ps[j]
          BY <2>1, <2>5, <4>2
        <5> QED
          BY <5>1
      <4> QED
        BY <3>3, <3>4, <4>1, <4>2
    <3>5. Rising(t)
      <4> SUFFICES ASSUME NEW i \in DOMAIN t, NEW k \in DOMAIN t, i < k
                   PROVE  Num(t[i]) < Num(t[k])
        BY DEF Rising
      <4>1. /\ Len(s) \in Nat /\ DOMAIN s = 1 .. Len(s) /\ DOMAIN t = 1 .. Len(s) + 1
            /\ \A l \in 1 .. Len(s) : t[l] = s[l]
            /\ t[Len(s) + 1] = p
        BY <2>7, <3>1, AppendShape
      <4>2. CASE k = Len(s) + 1
        <5>1. i \in DOMAIN s /\ t[i] = s[i]
          BY <4>1, <4>2
        <5>2. s[i] \in Elements(s)
          BY <5>1 DEF Elements
        <5>3. PICK j \in 1 .. m : s[i] = ps[j]
          BY <2>1, <2>5, <5>2
        <5>4. j \in 1 .. n /\ j < m + 1
          BY <1>1
        <5> QED
          BY <1>3, <2>2, <2>4, <4>1, <4>2, <5>1, <5>3, <5>4
      <4>3. CASE k # Len(s) + 1
        <5>1. i \in DOMAIN s /\ k \in DOMAIN s /\ t[i] = s[i] /\ t[k] = s[k]
          BY <4>1, <4>3
        <5> QED
          BY <2>1, <2>5, <5>1 DEF Rising
      <4> QED
        BY <4>2, <4>3
    <3> QED
      BY <2>6, <3>2, <3>4, <3>5
  <2>9. CASE ~p.finite
    <3>1. t = s
      BY <2>3, <2>4, <2>5, <2>6, <2>9 DEF WithFinite
    <3>2. \A q \in Elements(s) : q.finite /\ \E j \in 1 .. m + 1 : q = ps[j]
      <4> SUFFICES ASSUME NEW q \in Elements(s) PROVE q.finite /\ \E j \in 1 .. m + 1 : q = ps[j]
        OBVIOUS
      <4>1. q.finite /\ \E j \in 1 .. m : q = ps[j]
        BY <2>1, <2>5
      <4> QED
        BY <4>1
    <3>3. Len(s) <= m + 1
      BY <2>7
    <3> QED
      BY <2>1, <2>5, <2>6, <2>7, <3>1, <3>2, <3>3
  <2> QED
    BY <2>8, <2>9
<1>7. Nat \subseteq S
  <2> HIDE DEF S
  <2> QED
    BY <1>5, <1>6, NatSetInduction
<1>8. Good(n)
  <2>1. n \in S
    <3> HIDE DEF S
    <3> QED
      BY <1>1, <1>7
  <2> QED
    BY <1>1, <2>1
<1> QED
  BY <1>2, <1>4, <1>8 DEF n

-----------------------------------------------------------------------------
(* The points in the channel, in their order.                                 *)
Waiting == FlattenSeq(ixQueue)

(* Every variable has its type, and the queue and the buffer their limits.    *)
IxTypes ==
  /\ ixQueue \in Seq(Seq(Point)) /\ Len(ixQueue) <= IxQueue
  /\ ixPoints \in Seq(Point) /\ Len(ixPoints) <= IxBufferMax
  /\ acked \in Seq(Point) /\ offered \in Seq(Point) /\ stored \subseteq Point
  /\ storedAlarm \in [1 .. MaxIxPolls -> BOOLEAN]
  /\ ixWritten \in Nat /\ ixDropped \in Nat
  /\ ixPhase \in {"run", "drain", "done"} /\ ixOpen \in BOOLEAN /\ backingOff \in BOOLEAN

(* The counters, with the two facts they rest on: polls are offered and wait  *)
(* whole.                                                                     *)
IxCounts ==
  /\ PointsAccounted /\ Len(acked) = ixWritten
  /\ Len(Waiting) = 2 * Len(ixQueue)
  /\ Len(offered) % 2 = 0

(* Along the way from the devices to the database points keep their order.    *)
IxOrder ==
  /\ Rising(acked) /\ Rising(ixPoints) /\ Rising(Waiting)
  /\ Earlier(Elements(acked), Elements(ixPoints))
  /\ Earlier(Elements(acked), Elements(Waiting))
  /\ Earlier(Elements(ixPoints), Elements(Waiting))
  /\ \A p \in Elements(acked) \cup Elements(ixPoints) \cup Elements(Waiting) :
       2 * p.poll <= Len(offered)

(* AlarmFieldRight, of points instead of positions.                           *)
AlarmKept ==
  \A p \in Elements(acked) : p.poll \notin cut =>
    (storedAlarm[p.poll] = TRUE <=> \E q \in Elements(acked) : q.poll = p.poll /\ q.alarm = TRUE)

(* What was acknowledged is stored, with the alarm field it was measured      *)
(* with; only finite points get as far as the buffer.                         *)
IxStored ==
  /\ Elements(acked) \subseteq stored
  /\ \A p \in Elements(acked) \cup Elements(ixPoints) : p.finite
  /\ AlarmKept

IxInv == IxTypes /\ IxCounts /\ IxOrder /\ IxStored

-----------------------------------------------------------------------------
(* Two sequences of points one after the other.                               *)
LEMMA JoinFacts ==
  ASSUME NEW s \in Seq(Point), NEW t \in Seq(Point)
  PROVE  /\ s \o t \in Seq(Point) /\ Len(s \o t) = Len(s) + Len(t)
         /\ Elements(s \o t) = Elements(s) \cup Elements(t)
         /\ Rising(s) /\ Rising(t) /\ Earlier(Elements(s), Elements(t)) => Rising(s \o t)
<1> DEFINE m == Len(s)
           n == Len(t)
           u == s \o t
<1>1. /\ u \in Seq(Point) /\ Len(u) = m + n /\ m \in Nat /\ n \in Nat
      /\ DOMAIN s = 1 .. m /\ DOMAIN t = 1 .. n /\ DOMAIN u = 1 .. m + n
  OBVIOUS
<1>2. /\ \A i \in 1 .. m : u[i] = s[i]
      /\ \A i \in 1 .. m + n : i > m => u[i] = t[i - m]
      /\ \A i \in 1 .. n : u[m + i] = t[i]
  OBVIOUS
<1> HIDE DEF m, n, u
<1>3. Elements(u) = Elements(s) \cup Elements(t)
  <2>1. ASSUME NEW i \in DOMAIN u PROVE u[i] \in Elements(s) \cup Elements(t)
    <3>1. CASE i <= m
      <4>1. i \in DOMAIN s /\ u[i] = s[i]
        BY <1>1, <1>2, <3>1
      <4> QED
        BY <4>1 DEF Elements
    <3>2. CASE i > m
      <4>1. i - m \in DOMAIN t /\ u[i] = t[i - m]
        BY <1>1, <1>2, <3>2
      <4> QED
        BY <4>1 DEF Elements
    <3> QED
      BY <1>1, <3>1, <3>2
  <2>2. ASSUME NEW i \in DOMAIN s PROVE s[i] \in Elements(u)
    <3>1. i \in DOMAIN u /\ u[i] = s[i]
      BY <1>1, <1>2
    <3> QED
      BY <3>1 DEF Elements
  <2>3. ASSUME NEW i \in DOMAIN t PROVE t[i] \in Elements(u)
    <3>1. m + i \in DOMAIN u /\ u[m + i] = t[i]
      BY <1>1, <1>2
    <3> QED
      BY <3>1 DEF Elements
  <2> QED
    BY <2>1, <2>2, <2>3 DEF Elements
<1>4. ASSUME Rising(s), Rising(t), Earlier(Elements(s), Elements(t)) PROVE Rising(u)
  <2> SUFFICES ASSUME NEW i \in DOMAIN u, NEW j \in DOMAIN u, i < j
               PROVE  Num(u[i]) < Num(u[j])
    BY DEF Rising
  <2>1. CASE j <= m
    <3>1. i \in DOMAIN s /\ j \in DOMAIN s /\ u[i] = s[i] /\ u[j] = s[j]
      BY <1>1, <1>2, <2>1
    <3> QED
      BY <1>4, <3>1 DEF Rising
  <2>2. CASE i <= m /\ j > m
    <3>1. i \in DOMAIN s /\ j - m \in DOMAIN t /\ u[i] = s[i] /\ u[j] = t[j - m]
      BY <1>1, <1>2, <2>2
    <3>2. u[i] \in Elements(s) /\ u[j] \in Elements(t)
      BY <3>1 DEF Elements
    <3> QED
      BY <1>4, <3>2 DEF Earlier
  <2>3. CASE i > m
    <3>1. /\ i - m \in DOMAIN t /\ j - m \in DOMAIN t /\ i - m < j - m
          /\ u[i] = t[i - m] /\ u[j] = t[j - m]
      BY <1>1, <1>2, <2>3
    <3> QED
      BY <1>4, <3>1 DEF Rising
  <2> QED
    BY <1>1, <2>1, <2>2, <2>3
<1> QED
  BY <1>1, <1>3, <1>4 DEF m, n, u

(* A part of a sequence of points.                                            *)
LEMMA PartFacts ==
  ASSUME NEW s \in Seq(Point), NEW a \in 1 .. Len(s) + 1, NEW b \in 0 .. Len(s), a <= b + 1
  PROVE  /\ SubSeq(s, a, b) \in Seq(Point) /\ Len(SubSeq(s, a, b)) = b - a + 1
         /\ Elements(SubSeq(s, a, b)) \subseteq Elements(s)
         /\ Rising(s) => Rising(SubSeq(s, a, b))
         /\ \A p \in Elements(SubSeq(s, a, b)) : \E i \in a .. b : p = s[i]
<1> DEFINE n == Len(s)
           u == SubSeq(s, a, b)
<1>1. /\ n \in Nat /\ a \in Nat /\ b \in Nat /\ a >= 1 /\ b <= n /\ DOMAIN s = 1 .. n
      /\ u \in Seq(Point) /\ Len(u) = b - a + 1 /\ DOMAIN u = 1 .. b - a + 1
  OBVIOUS
<1>2. \A i \in 1 .. b - a + 1 : u[i] = s[a + i - 1]
  OBVIOUS
<1> HIDE DEF n, u
<1>3. ASSUME NEW i \in DOMAIN u
      PROVE  a + i - 1 \in DOMAIN s /\ a + i - 1 \in a .. b /\ u[i] = s[a + i - 1]
  BY <1>1, <1>2
<1>4. Elements(u) \subseteq Elements(s)
  BY <1>3 DEF Elements
<1>5. \A p \in Elements(u) : \E i \in a .. b : p = s[i]
  BY <1>3 DEF Elements
<1>6. ASSUME Rising(s) PROVE Rising(u)
  <2> SUFFICES ASSUME NEW i \in DOMAIN u, NEW j \in DOMAIN u, i < j
               PROVE  Num(u[i]) < Num(u[j])
    BY DEF Rising
  <2>1. a + i - 1 < a + j - 1
    BY <1>1
  <2> QED
    BY <1>3, <1>6, <2>1 DEF Rising
<1> QED
  BY <1>1, <1>4, <1>5, <1>6 DEF n, u

(* The first points of a rising sequence were measured before the others.     *)
LEMMA SplitFacts ==
  ASSUME NEW s \in Seq(Point), Rising(s), NEW m \in 0 .. Len(s)
  PROVE  Earlier(Elements(SubSeq(s, 1, m)), Elements(SubSeq(s, m + 1, Len(s))))
<1>1. /\ Len(s) \in Nat /\ m \in Nat /\ m <= Len(s) /\ DOMAIN s = 1 .. Len(s)
      /\ 1 \in 1 .. Len(s) + 1 /\ m + 1 \in 1 .. Len(s) + 1 /\ Len(s) \in 0 .. Len(s)
      /\ m + 1 <= Len(s) + 1 /\ 1 <= m + 1
  OBVIOUS
<1>2. ASSUME NEW p \in Elements(SubSeq(s, 1, m)), NEW q \in Elements(SubSeq(s, m + 1, Len(s)))
      PROVE  Num(p) < Num(q)
  <2>1. PICK i \in 1 .. m : p = s[i]
    BY <1>1, <1>2, PartFacts
  <2>2. PICK j \in m + 1 .. Len(s) : q = s[j]
    BY <1>1, <1>2, PartFacts
  <2>3. i \in DOMAIN s /\ j \in DOMAIN s /\ i < j
    BY <1>1
  <2> QED
    BY <2>1, <2>2, <2>3 DEF Rising
<1> QED
  BY <1>2 DEF Earlier

(* A line of which the batch does not hold just one half is in it whole: no   *)
(* point measured before the batch belongs to it.                             *)
LEMMA WholeLine ==
  ASSUME NEW s \in Seq(Point), Rising(s), NEW i \in DOMAIN s, s[i].poll \notin Halves(s),
         NEW a \in Point, Earlier({a}, Elements(s))
  PROVE  a.poll # s[i].poll
<1> DEFINE k == s[i].poll
           I == {l \in DOMAIN s : s[l].poll = k}
<1>1. \A l \in DOMAIN s : s[l] \in Point /\ s[l] \in Elements(s) /\ l \in Nat
  BY DEF Elements
<1>2. I # {i}
  <2> SUFFICES ASSUME I = {i} PROVE FALSE
    OBVIOUS
  <2>1. Cardinality(I) = 1
    BY FS_Singleton
  <2>2. s[i] \in ToSet(s)
    BY DEF ToSet
  <2> QED
    BY <2>1, <2>2 DEF Halves
<1>3. PICK j \in DOMAIN s : s[j].poll = k /\ j # i
  BY <1>2
<1>4. /\ Num(a) < Num(s[i]) /\ Num(a) < Num(s[j])
      /\ Num(s[i]) < Num(s[j]) \/ Num(s[j]) < Num(s[i])
  BY <1>1, <1>3 DEF Rising, Earlier
<1>5. \A p \in Point : p.poll \in Nat /\ p.param \in {1, 2}
  BY DEF Point, Samples
<1> QED
  BY <1>1, <1>3, <1>4, <1>5 DEF Num

-----------------------------------------------------------------------------
(* The batch and what it leaves are parts of the buffer, in order.            *)
LEMMA BatchFacts ==
  ASSUME IxTypes, IxOrder
  PROVE  \E rest \in Seq(Point) :
           /\ rest = SubSeq(ixPoints, Len(TheBatch) + 1, Len(ixPoints))
           /\ TheBatch \in Seq(Point) /\ Len(TheBatch) + Len(rest) = Len(ixPoints)
           /\ Rising(TheBatch) /\ Rising(rest)
           /\ Elements(TheBatch) \subseteq Elements(ixPoints)
           /\ Elements(rest) \subseteq Elements(ixPoints)
           /\ Earlier(Elements(TheBatch), Elements(rest))
<1> DEFINE n == Len(ixPoints)
           m == IF n < IxBatch THEN n ELSE IxBatch
<1>1. ixPoints \in Seq(Point) /\ Rising(ixPoints)
  BY DEF IxTypes, IxOrder
<1>2. n \in Nat
  BY <1>1
<1>3. TheBatch = SubSeq(ixPoints, 1, m)
  BY DEF TheBatch
<1> HIDE DEF n
<1>4. m \in 0 .. n /\ 1 \in 1 .. n + 1 /\ m + 1 \in 1 .. n + 1 /\ n \in 0 .. n
      /\ 1 <= m + 1 /\ m + 1 <= n + 1
  BY <1>2, InfluxAssumption
<1> HIDE DEF m
<1>5. /\ TheBatch \in Seq(Point) /\ Len(TheBatch) = m /\ Rising(TheBatch)
      /\ Elements(TheBatch) \subseteq Elements(ixPoints)
  <2>1. m - 1 + 1 = m
    BY <1>2, <1>4
  <2> QED
    BY <1>1, <1>3, <1>4, <2>1, PartFacts DEF n
<1> DEFINE rest == SubSeq(ixPoints, m + 1, n)
<1>6. /\ rest \in Seq(Point) /\ Len(rest) = n - m /\ Rising(rest)
      /\ Elements(rest) \subseteq Elements(ixPoints)
  <2>1. n - (m + 1) + 1 = n - m
    BY <1>2, <1>4
  <2> QED
    BY <1>1, <1>4, <2>1, PartFacts DEF n
<1>7. Earlier(Elements(TheBatch), Elements(rest))
  BY <1>1, <1>3, <1>4, SplitFacts DEF n
<1>8. m + (n - m) = n
  BY <1>2, <1>4
<1> HIDE DEF rest
<1>9. /\ rest = SubSeq(ixPoints, Len(TheBatch) + 1, Len(ixPoints))
      /\ Len(TheBatch) + Len(rest) = Len(ixPoints)
  BY <1>5, <1>6, <1>8 DEF rest, n
<1> QED
  BY <1>5, <1>6, <1>7, <1>9

(* Storing the batch leaves the alarm field of what was acknowledged before   *)
(* alone, unless a line was cut, and sets that of its own lines.              *)
LEMMA StoringFacts ==
  ASSUME IxTypes, IxOrder, Stores(TheBatch), Halves(TheBatch) \subseteq cut'
  PROVE  /\ stored \subseteq stored' /\ Elements(TheBatch) \subseteq stored'
         /\ stored' \subseteq Point /\ storedAlarm' \in [1 .. MaxIxPolls -> BOOLEAN]
         /\ \A p \in Elements(acked) : p.poll \notin cut' =>
              /\ storedAlarm'[p.poll] = storedAlarm[p.poll]
              /\ \A q \in Elements(TheBatch) : q.poll # p.poll
         /\ \A p \in Elements(TheBatch) :
              storedAlarm'[p.poll] = TRUE <=>
                \E q \in Elements(TheBatch) : q.poll = p.poll /\ q.alarm = TRUE
<1>1. PICK b \in Seq(Point) : /\ b = TheBatch /\ Rising(b)
                              /\ Elements(b) \subseteq Elements(ixPoints)
  BY BatchFacts
<1>2. /\ stored' = stored \cup ToSet(b)
      /\ storedAlarm' = [p \in 1 .. MaxIxPolls |->
            IF \E i \in DOMAIN b : b[i].poll = p THEN LineAlarm(b, p) ELSE storedAlarm[p]]
  BY <1>1 DEF Stores
<1>3. Elements(b) = ToSet(b) /\ \A i \in DOMAIN b : b[i] \in Elements(b) /\ b[i] \in Point
  BY DEF Elements, ToSet
<1>4. Elements(b) \subseteq Point
  BY <1>3 DEF Elements
<1>5. Elements(acked) \subseteq Point
  BY DEF IxTypes, Elements
<1>6. \A p \in Point : p.poll \in 1 .. MaxIxPolls /\ p.alarm \in BOOLEAN
  BY DEF Point
<1>7. \A k : LineAlarm(b, k) \in BOOLEAN
  BY DEF LineAlarm
<1>8. storedAlarm' \in [1 .. MaxIxPolls -> BOOLEAN]
  BY <1>2, <1>7 DEF IxTypes
<1>9. ASSUME NEW p \in Elements(acked), p.poll \notin cut'
      PROVE  \A q \in Elements(b) : q.poll # p.poll
  <2> SUFFICES ASSUME NEW q \in Elements(b), q.poll = p.poll PROVE FALSE
    OBVIOUS
  <2>1. PICK i \in DOMAIN b : b[i] = q
    BY DEF Elements
  <2>2. b[i].poll \notin Halves(b)
    BY <1>1, <1>9, <2>1
  <2>3. Earlier({p}, Elements(b))
    BY <1>1, <1>9 DEF IxOrder, Earlier
  <2>4. p \in Point
    BY <1>5, <1>9
  <2> QED
    BY <1>1, <2>1, <2>2, <2>3, <2>4, WholeLine
<1>10. ASSUME NEW p \in Elements(acked), p.poll \notin cut'
       PROVE  storedAlarm'[p.poll] = storedAlarm[p.poll]
  <2>1. ~ \E i \in DOMAIN b : b[i].poll = p.poll
    BY <1>3, <1>9, <1>10
  <2>2. p.poll \in 1 .. MaxIxPolls
    BY <1>5, <1>6, <1>10
  <2> QED
    BY <1>2, <2>1, <2>2
<1>11. ASSUME NEW p \in Elements(b)
       PROVE  storedAlarm'[p.poll] = TRUE <=>
                \E q \in Elements(b) : q.poll = p.poll /\ q.alarm = TRUE
  <2>1. \E i \in DOMAIN b : b[i].poll = p.poll
    BY <1>11 DEF Elements
  <2>2. p.poll \in 1 .. MaxIxPolls
    BY <1>4, <1>6, <1>11
  <2>3. storedAlarm'[p.poll] = LineAlarm(b, p.poll)
    BY <1>2, <2>1, <2>2
  <2>4. LineAlarm(b, p.poll) <=> \E q \in Elements(b) : q.poll = p.poll /\ q.alarm = TRUE
    <3>1. \A i \in DOMAIN b : b[i].alarm <=> b[i].alarm = TRUE
      BY <1>3, <1>6
    <3> QED
      BY <3>1 DEF LineAlarm, Elements
  <2> QED
    BY <1>7, <2>3, <2>4
<1>12. stored \subseteq stored' /\ Elements(b) \subseteq stored' /\ stored' \subseteq Point
  BY <1>2, <1>3, <1>4 DEF IxTypes
<1> QED
  BY <1>1, <1>8, <1>9, <1>10, <1>11, <1>12

(* The writer starts with nothing.                                            *)
LEMMA IxInit ==
  ASSUME InfluxInit
  PROVE  IxInv
<1>1. Waiting = << >>
  BY FlattenEmpty DEF InfluxInit, Waiting
<1>2. /\ << >> \in Seq(Point) /\ Len(<< >>) = 0 /\ DOMAIN << >> = {}
      /\ << >> \in Seq(Seq(Point))
  OBVIOUS
<1>3. Rising(<< >>)
  BY <1>2 DEF Rising
<1>4. IxTypes
  <2>1. 0 <= IxQueue /\ 0 <= IxBufferMax
    BY InfluxAssumption
  <2>2. /\ ixQueue \in Seq(Seq(Point)) /\ ixPoints \in Seq(Point) /\ acked \in Seq(Point)
        /\ offered \in Seq(Point) /\ Len(ixQueue) = 0 /\ Len(ixPoints) = 0
    BY <1>2 DEF InfluxInit
  <2>3. storedAlarm \in [1 .. MaxIxPolls -> BOOLEAN] /\ stored \subseteq Point
    BY DEF InfluxInit
  <2>4. ixWritten \in Nat /\ ixDropped \in Nat /\ ixPhase = "run" /\ ixOpen = TRUE
        /\ backingOff = FALSE
    BY DEF InfluxInit
  <2> QED
    BY <2>1, <2>2, <2>3, <2>4 DEF IxTypes
<1>5. IxCounts
  BY <1>1, <1>2 DEF InfluxInit, IxCounts, PointsAccounted
<1>6. IxOrder
  BY <1>1, <1>3, NoElements DEF InfluxInit, IxOrder, Earlier
<1>7. IxStored
  BY NoElements DEF InfluxInit, IxStored, AlarmKept
<1> QED
  BY <1>4, <1>5, <1>6, <1>7 DEF IxInv

(* A step that moves no point and changes no counter.                         *)
LEMMA IxFrame ==
  ASSUME IxInv,
         UNCHANGED <<ixQueue, ixPoints, ixWritten, ixDropped, stored, storedAlarm, acked, cut,
                     offered>>,
         ixPhase' \in {"run", "drain", "done"}, ixOpen' \in BOOLEAN, backingOff' \in BOOLEAN
  PROVE  IxInv'
<1>1. IxTypes'
  BY DEF IxInv, IxTypes
<1>2. IxCounts'
  BY DEF IxInv, IxCounts, PointsAccounted, Waiting
<1>3. IxOrder'
  BY DEF IxInv, IxOrder, Waiting
<1>4. IxStored'
  BY DEF IxInv, IxStored, AlarmKept
<1> QED
  BY <1>1, <1>2, <1>3, <1>4 DEF IxInv

(* InfluxSink::offer: a poll has two points, later than all before.           *)
LEMMA IxOfferPoll ==
  ASSUME IxInv, OfferPoll
  PROVE  IxInv'
<1>1. PICK alarm \in BOOLEAN, finite \in BOOLEAN :
        Offer([i \in Samples |-> [poll |-> Len(offered) \div 2 + 1, param |-> i,
                                  alarm |-> alarm /\ i = 1, finite |-> finite \/ i = 2]])
  BY DEF OfferPoll
<1>2. PICK k \in Nat : Len(offered) = 2 * k
  <2>1. Len(offered) \in Nat /\ Len(offered) % 2 = 0
    <3>1. offered \in Seq(Point)
      BY DEF IxInv, IxTypes
    <3>2. Len(offered) % 2 = 0
      BY Zenon DEF IxInv, IxCounts
    <3> QED
      BY <3>1, <3>2
  <2>2. PICK n \in Nat : n = Len(offered)
    BY <2>1
  <2>3. n % 2 = 0
    BY <2>1, <2>2
  <2>4. n \div 2 \in Nat /\ n = 2 * (n \div 2)
    BY <2>3
  <2> QED
    BY <2>2, <2>4
<1>3. Len(offered) \div 2 + 1 = k + 1 /\ k + 1 \in 1 .. MaxIxPolls
  BY <1>2, InfluxAssumption DEF OfferPoll
<1>4. PICK ps : ps = [i \in 1 .. 2 |-> [poll |-> k + 1, param |-> i,
                        alarm |-> alarm /\ i = 1, finite |-> finite \/ i = 2]]
  OBVIOUS
<1>5. Offer(ps)
  BY <1>1, <1>3, <1>4 DEF Samples
<1>6. \A i \in 1 .. 2 : ps[i] \in Point /\ ps[i].poll = k + 1 /\ ps[i].param = i
  BY <1>3, <1>4 DEF Point, Samples
<1>7. ps \in Seq(Point) /\ Len(ps) = 2 /\ DOMAIN ps = 1 .. 2
  <2>1. ps \in [1 .. 2 -> Point] /\ 2 \in Nat
    BY <1>4, <1>6
  <2>2. ps \in Seq(Point)
    BY <2>1, SeqDef
  <2>3. DOMAIN ps = 1 .. 2 /\ DOMAIN ps = 1 .. Len(ps) /\ Len(ps) \in Nat
    BY <2>1, <2>2, LenProperties
  <2>4. Len(ps) = 2
    BY <2>3
  <2> QED
    BY <2>2, <2>3, <2>4
<1>8. Rising(ps)
  BY <1>6, <1>7 DEF Rising, Num
<1>9. \A p \in Elements(ps) : p \in Point /\ p.poll = k + 1 /\ p.param \in 1 .. 2
  BY <1>6, <1>7 DEF Elements
<1>10. /\ UNCHANGED <<ixPoints, ixPhase, ixOpen, backingOff, ixWritten, stored, storedAlarm,
                      acked, cut>>
       /\ offered' = offered \o ps
  BY <1>5 DEF Offer
<1>11. offered' \in Seq(Point) /\ Len(offered') = 2 * k + 2 /\ Len(offered') % 2 = 0
  <2>1. offered' \in Seq(Point) /\ Len(offered') = Len(offered) + Len(ps)
    BY <1>7, <1>10, JoinFacts DEF IxInv, IxTypes
  <2> QED
    BY <1>2, <1>7, <2>1
<1>12. IxStored'
  BY <1>10 DEF IxInv, IxStored, AlarmKept
<1>13. CASE Len(ixQueue) < IxQueue
  <2>1. ixQueue' = Append(ixQueue, ps) /\ UNCHANGED ixDropped
    BY <1>5, <1>13 DEF Offer
  <2>2. ixQueue \in Seq(Seq(Point))
    BY DEF IxInv, IxTypes
  <2>3. /\ ixQueue' \in Seq(Seq(Point)) /\ Len(ixQueue') = Len(ixQueue) + 1
        /\ Len(ixQueue) \in Nat
    BY <1>7, <2>1, <2>2
  <2>4. Waiting \in Seq(Point) /\ Waiting' = Waiting \o ps
    BY <1>7, <2>1, <2>2, FlattenAppend DEF Waiting
  <2>5. /\ Len(Waiting') = Len(Waiting) + 2
        /\ Elements(Waiting') = Elements(Waiting) \cup Elements(ps)
        /\ Rising(Waiting) /\ Earlier(Elements(Waiting), Elements(ps)) => Rising(Waiting')
    BY <1>7, <1>8, <2>4, JoinFacts
  <2>6. IxTypes'
    <3>1. Len(ixQueue') <= IxQueue
      BY <1>13, <2>3, InfluxAssumption
    <3> QED
      BY <1>10, <1>11, <2>1, <2>3, <3>1 DEF IxInv, IxTypes
  <2>7. IxCounts'
    <3>1. /\ Len(offered) = ixWritten + ixDropped + Len(ixPoints) + 2 * Len(ixQueue)
          /\ Len(acked) = ixWritten /\ Len(Waiting) = 2 * Len(ixQueue)
          /\ ixWritten \in Nat /\ ixDropped \in Nat /\ Len(ixPoints) \in Nat
      BY DEF IxInv, IxCounts, IxTypes, PointsAccounted
    <3>2. Len(offered') = ixWritten' + ixDropped' + Len(ixPoints') + 2 * Len(ixQueue')
      BY <1>2, <1>10, <1>11, <2>1, <2>3, <3>1
    <3>3. Len(Waiting') = 2 * Len(ixQueue')
      BY <2>3, <2>5, <3>1
    <3> QED
      BY <1>10, <1>11, <3>1, <3>2, <3>3 DEF IxCounts, PointsAccounted
  <2>8. IxOrder'
    <3>1. \A p \in Elements(acked) \cup Elements(ixPoints) \cup Elements(Waiting) :
            p \in Point /\ 2 * p.poll <= 2 * k
      <4>1. /\ Elements(acked) \subseteq Point /\ Elements(ixPoints) \subseteq Point
            /\ Elements(Waiting) \subseteq Point
        BY <2>4 DEF Elements, IxInv, IxTypes
      <4> QED
        BY <1>2, <4>1 DEF IxInv, IxOrder
    <3>2. \A p \in Elements(acked) \cup Elements(ixPoints) \cup Elements(Waiting),
             q \in Elements(ps) : Num(p) < Num(q)
      <4> SUFFICES ASSUME NEW p \in Elements(acked) \cup Elements(ixPoints) \cup Elements(Waiting),
                          NEW q \in Elements(ps)
                   PROVE  Num(p) < Num(q)
        OBVIOUS
      <4>1. p.poll \in Nat /\ p.param \in 1 .. 2
        BY <3>1 DEF Point, Samples
      <4>2. 2 * p.poll <= 2 * k /\ q.poll = k + 1 /\ q.param \in 1 .. 2
        BY <1>9, <3>1
      <4> QED
        BY <4>1, <4>2 DEF Num
    <3>3. \A q \in Elements(ps) : 2 * q.poll <= Len(offered')
      BY <1>9, <1>11
    <3>4. \A p \in Elements(acked) \cup Elements(ixPoints) \cup Elements(Waiting) :
            2 * p.poll <= Len(offered')
      <4> SUFFICES ASSUME NEW p \in Elements(acked) \cup Elements(ixPoints) \cup Elements(Waiting)
                   PROVE  2 * p.poll <= Len(offered')
        OBVIOUS
      <4>1. p.poll \in Nat
        BY <3>1 DEF Point
      <4> QED
        BY <1>11, <3>1, <4>1
    <3>5. Earlier(Elements(Waiting), Elements(ps))
      BY <3>2 DEF Earlier
    <3>6. Rising(Waiting')
      BY <2>5, <3>5 DEF IxInv, IxOrder
    <3>7. Earlier(Elements(acked), Elements(Waiting'))
      BY <2>5, <3>2 DEF IxInv, IxOrder, Earlier
    <3>8. Earlier(Elements(ixPoints), Elements(Waiting'))
      BY <2>5, <3>2 DEF IxInv, IxOrder, Earlier
    <3>9. \A p \in Elements(acked) \cup Elements(ixPoints) \cup Elements(Waiting') :
            2 * p.poll <= Len(offered')
      BY <2>5, <3>3, <3>4
    <3>10. acked' = acked /\ ixPoints' = ixPoints
      BY <1>10
    <3> QED
      BY <3>6, <3>7, <3>8, <3>9, <3>10 DEF IxInv, IxOrder
  <2> QED
    BY <1>12, <2>6, <2>7, <2>8 DEF IxInv
<1>14. CASE ~(Len(ixQueue) < IxQueue)
  <2>1. ixDropped' = ixDropped + 2 /\ UNCHANGED ixQueue
    BY <1>5, <1>7, <1>14 DEF Offer
  <2>2. Waiting' = Waiting
    BY <2>1 DEF Waiting
  <2>3. IxTypes'
    BY <1>10, <1>11, <2>1 DEF IxInv, IxTypes
  <2>4. IxCounts'
    <3>1. /\ Len(offered) = ixWritten + ixDropped + Len(ixPoints) + 2 * Len(ixQueue)
          /\ Len(acked) = ixWritten /\ Len(Waiting) = 2 * Len(ixQueue)
          /\ ixWritten \in Nat /\ ixDropped \in Nat /\ Len(ixPoints) \in Nat
          /\ Len(ixQueue) \in Nat
      BY DEF IxInv, IxCounts, IxTypes, PointsAccounted
    <3>2. Len(offered') = ixWritten' + ixDropped' + Len(ixPoints') + 2 * Len(ixQueue')
      BY <1>2, <1>10, <1>11, <2>1, <3>1
    <3> QED
      BY <1>10, <1>11, <2>1, <2>2, <3>1, <3>2 DEF IxCounts, PointsAccounted
  <2>5. IxOrder'
    <3>1. \A p \in Elements(acked) \cup Elements(ixPoints) \cup Elements(Waiting) :
            2 * p.poll <= Len(offered')
      <4> SUFFICES ASSUME NEW p \in Elements(acked) \cup Elements(ixPoints) \cup Elements(Waiting)
                   PROVE  2 * p.poll <= Len(offered')
        OBVIOUS
      <4>1. Waiting \in Seq(Point)
        <5>1. ixQueue \in Seq(Seq(Point)) /\ ps \in Seq(Point)
          BY <1>7 DEF IxInv, IxTypes
        <5> QED
          BY <5>1, FlattenAppend DEF Waiting
      <4>2. p \in Point
        BY <4>1 DEF Elements, IxInv, IxTypes
      <4>3. p.poll \in Nat /\ 2 * p.poll <= 2 * k
        BY <1>2, <4>2 DEF Point, IxInv, IxOrder
      <4> QED
        BY <1>11, <4>3
    <3>2. acked' = acked /\ ixPoints' = ixPoints
      BY <1>10
    <3> QED
      BY <2>2, <3>1, <3>2 DEF IxInv, IxOrder
  <2> QED
    BY <1>12, <2>3, <2>4, <2>5 DEF IxInv
<1> QED
  BY <1>13, <1>14

(* receive and Buffer::admit: what waited enters the buffer in its order.     *)
LEMMA IxReceive ==
  ASSUME IxInv, Receive
  PROVE  IxInv'
<1>1. /\ Admit(Waiting) /\ ixQueue' = << >> /\ cut \subseteq cut'
      /\ UNCHANGED <<ixOpen, backingOff, ixWritten, stored, storedAlarm, acked, offered>>
      /\ ixPhase' \in {"run", "drain"}
  BY DEF Receive, Waiting
<1>2. /\ ixPoints \in Seq(Point) /\ Rising(ixPoints) /\ Rising(Waiting)
      /\ Earlier(Elements(ixPoints), Elements(Waiting))
      /\ Earlier(Elements(acked), Elements(Waiting))
      /\ Earlier(Elements(acked), Elements(ixPoints))
      /\ Len(Waiting) = 2 * Len(ixQueue)
  BY DEF IxInv, IxTypes, IxOrder, IxCounts
<1>3. Waiting \in Seq(Point)
  <2>1. ixQueue \in Seq(Seq(Point)) /\ << >> \in Seq(Point)
    BY DEF IxInv, IxTypes
  <2> QED
    BY <2>1, FlattenAppend DEF Waiting
<1>4. PICK f \in Seq(Point) :
        /\ f = Finite(Waiting) /\ Len(f) <= Len(Waiting) /\ Rising(f)
        /\ Elements(f) \subseteq Elements(Waiting) /\ \A p \in Elements(f) : p.finite
  BY <1>2, <1>3, FiniteFacts
<1>5. Earlier(Elements(ixPoints), Elements(f)) /\ Earlier(Elements(acked), Elements(f))
  BY <1>2, <1>4 DEF Earlier
<1>6. PICK all \in Seq(Point) :
        /\ all = ixPoints \o f /\ Len(all) = Len(ixPoints) + Len(f)
        /\ Elements(all) = Elements(ixPoints) \cup Elements(f) /\ Rising(all)
  BY <1>2, <1>4, <1>5, JoinFacts
<1>7. PICK excess : excess = IF Len(all) > IxBufferMax THEN Len(all) - IxBufferMax ELSE 0
  OBVIOUS
<1>8. /\ ixPoints' = SubSeq(all, excess + 1, Len(all))
      /\ ixDropped' = ixDropped + Len(ixPoints) + Len(Waiting) - Len(ixPoints')
  BY <1>1, <1>4, <1>6, <1>7 DEF Admit
<1>9. Len(all) \in Nat /\ excess \in Nat /\ excess <= Len(all) /\ Len(all) - excess <= IxBufferMax
  BY <1>7, InfluxAssumption
<1>10. /\ ixPoints' \in Seq(Point) /\ Len(ixPoints') = Len(all) - excess
       /\ Elements(ixPoints') \subseteq Elements(all) /\ Rising(ixPoints')
  <2>1. /\ excess + 1 \in 1 .. Len(all) + 1 /\ Len(all) \in 0 .. Len(all)
        /\ excess + 1 <= Len(all) + 1 /\ Len(all) - (excess + 1) + 1 = Len(all) - excess
    BY <1>9
  <2> QED
    BY <1>6, <1>8, <2>1, PartFacts
<1>11. Waiting' = << >>
  BY <1>1, FlattenEmpty DEF Waiting
<1>12. /\ << >> \in Seq(Seq(Point)) /\ Len(<< >>) = 0 /\ Rising(<< >>)
       /\ Elements(<< >>) = {}
  BY NoElements DEF Rising
<1>13. /\ ixDropped \in Nat /\ Len(ixPoints) \in Nat /\ Len(Waiting) \in Nat
       /\ Len(ixPoints') \in Nat /\ Len(ixQueue) \in Nat /\ Len(f) \in Nat
  BY <1>2, <1>3, <1>10 DEF IxInv, IxTypes
<1>14. IxTypes'
  <2>1. ixDropped' \in Nat
    BY <1>4, <1>6, <1>8, <1>9, <1>10, <1>13
  <2>2. Len(ixPoints') <= IxBufferMax
    BY <1>9, <1>10
  <2>3. ixQueue' \in Seq(Seq(Point)) /\ Len(ixQueue') <= IxQueue
    BY <1>1, <1>12, InfluxAssumption
  <2>4. ixPhase' \in {"run", "drain", "done"}
    BY <1>1
  <2> QED
    BY <1>1, <1>10, <2>1, <2>2, <2>3, <2>4 DEF IxInv, IxTypes
<1>15. IxCounts'
  <2>1. /\ Len(offered) = ixWritten + ixDropped + Len(ixPoints) + 2 * Len(ixQueue)
        /\ Len(acked) = ixWritten /\ Len(offered) % 2 = 0 /\ ixWritten \in Nat
    BY DEF IxInv, IxCounts, IxTypes, PointsAccounted
  <2>2. Len(ixQueue') = 0 /\ Len(Waiting') = 0
    BY <1>1, <1>11, <1>12
  <2>3. Len(offered') = ixWritten' + ixDropped' + Len(ixPoints') + 2 * Len(ixQueue')
    <3>1. Len(offered') = Len(offered) /\ ixWritten' = ixWritten
      BY <1>1
    <3> QED
      BY <1>2, <1>8, <1>13, <2>1, <2>2, <3>1
  <2>4. Len(Waiting') = 2 * Len(ixQueue')
    BY <2>2
  <2> QED
    BY <1>1, <2>1, <2>3, <2>4 DEF IxCounts, PointsAccounted
<1>16. Elements(ixPoints') \subseteq Elements(ixPoints) \cup Elements(Waiting)
  BY <1>4, <1>6, <1>10
<1>17. IxOrder'
  <2>1. Earlier(Elements(acked), Elements(ixPoints'))
    BY <1>2, <1>16 DEF Earlier
  <2>2. /\ Earlier(Elements(acked), Elements(Waiting'))
        /\ Earlier(Elements(ixPoints'), Elements(Waiting')) /\ Rising(Waiting')
    BY <1>11, <1>12 DEF Earlier
  <2>3. \A p \in Elements(acked) \cup Elements(ixPoints') \cup Elements(Waiting') :
          2 * p.poll <= Len(offered)
    BY <1>11, <1>12, <1>16 DEF IxInv, IxOrder
  <2>4. acked' = acked /\ offered' = offered /\ Rising(acked)
    BY <1>1 DEF IxInv, IxOrder
  <2> QED
    BY <1>10, <2>1, <2>2, <2>3, <2>4 DEF IxOrder
<1>18. IxStored'
  <2>1. \A p \in Elements(ixPoints') : p.finite
    BY <1>4, <1>6, <1>10 DEF IxInv, IxStored
  <2> QED
    BY <1>1, <2>1 DEF IxInv, IxStored, AlarmKept
<1> QED
  BY <1>14, <1>15, <1>17, <1>18 DEF IxInv

(* write_batch, answered: the batch leaves the buffer for the acknowledged    *)
(* points, and its lines are in the database.                                 *)
LEMMA IxWriteSucceeds ==
  ASSUME IxInv, WriteSucceeds
  PROVE  IxInv'
<1>1. /\ Stores(TheBatch) /\ Halves(TheBatch) \subseteq cut' /\ cut \subseteq cut'
      /\ ixPoints' = SubSeq(ixPoints, Len(TheBatch) + 1, Len(ixPoints))
      /\ ixWritten' = ixWritten + Len(TheBatch) /\ acked' = acked \o TheBatch
      /\ UNCHANGED <<ixQueue, ixPhase, ixOpen, backingOff, ixDropped, offered>>
  BY DEF WriteSucceeds
<1>2. IxTypes /\ IxCounts /\ IxOrder /\ IxStored
  BY DEF IxInv
<1>3. PICK rest \in Seq(Point) :
        /\ rest = SubSeq(ixPoints, Len(TheBatch) + 1, Len(ixPoints))
        /\ TheBatch \in Seq(Point) /\ Len(TheBatch) + Len(rest) = Len(ixPoints)
        /\ Rising(TheBatch) /\ Rising(rest)
        /\ Elements(TheBatch) \subseteq Elements(ixPoints)
        /\ Elements(rest) \subseteq Elements(ixPoints)
        /\ Earlier(Elements(TheBatch), Elements(rest))
  BY <1>2, BatchFacts
<1>4. PICK b : b = TheBatch
  OBVIOUS
<1>5. /\ stored \subseteq stored' /\ Elements(b) \subseteq stored'
      /\ stored' \subseteq Point /\ storedAlarm' \in [1 .. MaxIxPolls -> BOOLEAN]
      /\ \A p \in Elements(acked) : p.poll \notin cut' =>
           /\ storedAlarm'[p.poll] = storedAlarm[p.poll]
           /\ \A q \in Elements(b) : q.poll # p.poll
      /\ \A p \in Elements(b) :
           storedAlarm'[p.poll] = TRUE <=>
             \E q \in Elements(b) : q.poll = p.poll /\ q.alarm = TRUE
  BY <1>1, <1>2, <1>4, StoringFacts
<1>6. /\ acked \in Seq(Point) /\ Rising(acked) /\ ixPoints \in Seq(Point)
      /\ Earlier(Elements(acked), Elements(ixPoints))
      /\ Earlier(Elements(acked), Elements(Waiting))
      /\ Earlier(Elements(ixPoints), Elements(Waiting))
  BY <1>2 DEF IxTypes, IxOrder
<1>7. /\ Earlier(Elements(acked), Elements(b)) /\ Earlier(Elements(b), Elements(Waiting))
      /\ Earlier(Elements(rest), Elements(Waiting))
      /\ Earlier(Elements(acked), Elements(rest))
  BY <1>3, <1>4, <1>6 DEF Earlier
<1>8. /\ acked' \in Seq(Point) /\ Len(acked') = Len(acked) + Len(b)
      /\ Elements(acked') = Elements(acked) \cup Elements(b) /\ Rising(acked')
  BY <1>1, <1>3, <1>4, <1>6, <1>7, JoinFacts
<1>9. ixPoints' = rest /\ Waiting' = Waiting
  BY <1>1, <1>3 DEF Waiting
<1>10. /\ Len(acked) \in Nat /\ Len(b) \in Nat /\ Len(rest) \in Nat /\ Len(ixPoints) \in Nat
       /\ Len(b) + Len(rest) = Len(ixPoints)
  BY <1>3, <1>4, <1>6
<1>11. IxTypes'
  <2>1. Len(rest) <= IxBufferMax
    BY <1>2, <1>10, InfluxAssumption DEF IxTypes
  <2>2. ixWritten' \in Nat
    BY <1>1, <1>2, <1>4, <1>10 DEF IxTypes
  <2> QED
    BY <1>1, <1>2, <1>5, <1>8, <1>9, <2>1, <2>2 DEF IxTypes
<1>12. IxCounts'
  <2>1. /\ Len(offered) = ixWritten + ixDropped + Len(ixPoints) + 2 * Len(ixQueue)
        /\ Len(acked) = ixWritten /\ Len(Waiting) = 2 * Len(ixQueue)
        /\ ixWritten \in Nat /\ ixDropped \in Nat /\ Len(ixQueue) \in Nat
    BY <1>2 DEF IxTypes, IxCounts, PointsAccounted
  <2>2. ixWritten' = ixWritten + Len(b) /\ Len(ixPoints') = Len(rest)
    BY <1>1, <1>4, <1>9
  <2>3. ixWritten' + ixDropped + Len(ixPoints') = ixWritten + ixDropped + Len(ixPoints)
    BY <1>10, <2>1, <2>2
  <2>4. Len(offered') = ixWritten' + ixDropped' + Len(ixPoints') + 2 * Len(ixQueue')
    BY <1>1, <2>1, <2>3
  <2>5. Len(acked') = ixWritten'
    BY <1>8, <2>1, <2>2
  <2>6. Len(Waiting') = 2 * Len(ixQueue')
    BY <1>1, <1>9, <2>1
  <2>7. Len(offered') % 2 = 0
    BY <1>1, <1>2, Zenon DEF IxCounts
  <2> QED
    BY <2>4, <2>5, <2>6, <2>7, Zenon DEF IxCounts, PointsAccounted
<1>13. IxOrder'
  <2>1. /\ Earlier(Elements(acked'), Elements(ixPoints'))
        /\ Earlier(Elements(acked'), Elements(Waiting'))
        /\ Earlier(Elements(ixPoints'), Elements(Waiting'))
    BY <1>3, <1>4, <1>6, <1>7, <1>8, <1>9 DEF Earlier
  <2>2. \A p \in Elements(acked') \cup Elements(ixPoints') \cup Elements(Waiting') :
          2 * p.poll <= Len(offered')
    BY <1>1, <1>2, <1>3, <1>4, <1>8, <1>9 DEF IxOrder
  <2>3. Rising(acked') /\ Rising(ixPoints') /\ Rising(Waiting')
    BY <1>2, <1>3, <1>8, <1>9 DEF IxOrder
  <2> QED
    BY <2>1, <2>2, <2>3 DEF IxOrder
<1>14. IxStored'
  <2>1. Elements(acked') \subseteq stored'
    BY <1>2, <1>5, <1>8 DEF IxStored
  <2>2. \A p \in Elements(acked') \cup Elements(ixPoints') : p.finite
    BY <1>2, <1>3, <1>4, <1>8, <1>9 DEF IxStored
  <2>3. AlarmKept'
    <3> SUFFICES ASSUME NEW p \in Elements(acked'), p.poll \notin cut'
                 PROVE  storedAlarm'[p.poll] = TRUE <=>
                          \E q \in Elements(acked') : q.poll = p.poll /\ q.alarm = TRUE
      BY DEF AlarmKept
    <3>1. CASE p \in Elements(acked)
      <4>1. /\ storedAlarm'[p.poll] = storedAlarm[p.poll]
            /\ \A q \in Elements(b) : q.poll # p.poll
        BY <1>5, <3>1
      <4>2. storedAlarm[p.poll] = TRUE <=>
              \E q \in Elements(acked) : q.poll = p.poll /\ q.alarm = TRUE
        BY <1>1, <1>2, <3>1 DEF IxStored, AlarmKept
      <4> QED
        BY <1>8, <4>1, <4>2
    <3>2. CASE p \in Elements(b)
      <4>1. \A q \in Elements(acked) : q.poll # p.poll
        BY <1>5, <3>2
      <4> QED
        BY <1>5, <1>8, <3>2, <4>1
    <3> QED
      BY <1>8, <3>1, <3>2
  <2> QED
    BY <2>1, <2>2, <2>3 DEF IxStored
<1> QED
  BY <1>11, <1>12, <1>13, <1>14 DEF IxInv

(* A post that fails may have stored the batch all the same; what was         *)
(* acknowledged before keeps its alarm field.                                 *)
LEMMA FailedPost ==
  ASSUME IxInv, Stores(TheBatch) \/ UNCHANGED <<stored, storedAlarm>>,
         cut' = cut \cup Halves(TheBatch), acked' = acked,
         ixPoints' = ixPoints \/ ixPoints' = << >>
  PROVE  /\ IxStored' /\ stored' \subseteq Point
         /\ storedAlarm' \in [1 .. MaxIxPolls -> BOOLEAN]
<1>1. IxTypes /\ IxOrder /\ IxStored
  BY DEF IxInv
<1>2. PICK b : b = TheBatch
  OBVIOUS
<1>3. /\ stored \subseteq stored' /\ stored' \subseteq Point
      /\ storedAlarm' \in [1 .. MaxIxPolls -> BOOLEAN]
      /\ \A p \in Elements(acked) : p.poll \notin cut' => storedAlarm'[p.poll] = storedAlarm[p.poll]
  <2>1. CASE Stores(TheBatch)
    <3>1. Halves(TheBatch) \subseteq cut'
      OBVIOUS
    <3> QED
      BY <1>1, <2>1, <3>1, StoringFacts
  <2>2. CASE UNCHANGED <<stored, storedAlarm>>
    BY <1>1, <2>2 DEF IxTypes
  <2> QED
    BY <2>1, <2>2
<1>4. Elements(ixPoints') \subseteq Elements(ixPoints)
  BY NoElements
<1>5. AlarmKept'
  <2> SUFFICES ASSUME NEW p \in Elements(acked), p.poll \notin cut'
               PROVE  storedAlarm'[p.poll] = TRUE <=>
                        \E q \in Elements(acked) : q.poll = p.poll /\ q.alarm = TRUE
    BY DEF AlarmKept
  <2>1. p.poll \notin cut
    OBVIOUS
  <2> QED
    BY <1>1, <1>3, <2>1 DEF IxStored, AlarmKept
<1>6. IxStored'
  BY <1>1, <1>3, <1>4, <1>5 DEF IxStored
<1> QED
  BY <1>3, <1>6

(* A failure while running: the points are kept.                              *)
LEMMA IxWriteFails ==
  ASSUME IxInv, WriteFails
  PROVE  IxInv'
<1>1. /\ Stores(TheBatch) \/ UNCHANGED <<stored, storedAlarm>>
      /\ cut' = cut \cup Halves(TheBatch) /\ backingOff' = TRUE
      /\ UNCHANGED <<ixQueue, ixPoints, ixPhase, ixOpen, ixWritten, ixDropped, acked, offered>>
  BY DEF WriteFails
<1>2. IxTypes /\ IxCounts /\ IxOrder
  BY DEF IxInv
<1>3. /\ IxStored' /\ stored' \subseteq Point
      /\ storedAlarm' \in [1 .. MaxIxPolls -> BOOLEAN]
  BY <1>1, FailedPost
<1>4. IxTypes'
  BY <1>1, <1>2, <1>3 DEF IxTypes
<1>5. IxCounts'
  BY <1>1, <1>2 DEF IxCounts, PointsAccounted, Waiting
<1>6. IxOrder'
  BY <1>1, <1>2 DEF IxOrder, Waiting
<1> QED
  BY <1>3, <1>4, <1>5, <1>6 DEF IxInv

(* A failure while draining: what is left is dropped and counted.             *)
LEMMA IxDrainFails ==
  ASSUME IxInv, DrainFails
  PROVE  IxInv'
<1>1. /\ Stores(TheBatch) \/ UNCHANGED <<stored, storedAlarm>>
      /\ cut' = cut \cup Halves(TheBatch)
      /\ ixDropped' = ixDropped + Len(ixPoints)
      /\ ixPoints' = << >> /\ ixPhase' = "done"
      /\ UNCHANGED <<ixQueue, ixOpen, backingOff, ixWritten, acked, offered>>
  BY DEF DrainFails
<1>2. IxTypes /\ IxCounts /\ IxOrder
  BY DEF IxInv
<1>3. /\ IxStored' /\ stored' \subseteq Point
      /\ storedAlarm' \in [1 .. MaxIxPolls -> BOOLEAN]
  BY <1>1, FailedPost
<1>4. << >> \in Seq(Point) /\ Len(<< >>) = 0 /\ Elements(<< >>) = {} /\ Rising(<< >>)
  BY NoElements DEF Rising
<1>5. ixDropped \in Nat /\ Len(ixPoints) \in Nat /\ ixDropped' \in Nat
  BY <1>1, <1>2 DEF IxTypes
<1>6. IxTypes'
  <2>1. ixPoints' \in Seq(Point) /\ Len(ixPoints') <= IxBufferMax
    BY <1>1, <1>4, InfluxAssumption
  <2> QED
    BY <1>1, <1>2, <1>3, <1>5, <2>1 DEF IxTypes
<1>7. IxCounts'
  <2>1. /\ Len(offered) = ixWritten + ixDropped + Len(ixPoints) + 2 * Len(ixQueue)
        /\ ixWritten \in Nat /\ Len(ixQueue) \in Nat
    BY <1>2 DEF IxTypes, IxCounts, PointsAccounted
  <2>2. Len(ixPoints') = 0
    BY <1>1, <1>4
  <2>3. Len(offered) = ixWritten + ixDropped' + Len(ixPoints') + 2 * Len(ixQueue)
    BY <1>1, <1>5, <2>1, <2>2
  <2> QED
    BY <1>1, <1>2, <2>3, Zenon DEF IxCounts, PointsAccounted, Waiting
<1>8. IxOrder'
  <2>1. Elements(ixPoints') = {} /\ Rising(ixPoints')
    BY <1>1, <1>4
  <2> QED
    BY <1>1, <1>2, <2>1 DEF IxOrder, Earlier, Waiting
<1> QED
  BY <1>3, <1>6, <1>7, <1>8 DEF IxInv

(* Every step of the writer and of those who feed it keeps the invariant.     *)
LEMMA IxStep ==
  ASSUME IxInv, [InfluxNext]_ixVars
  PROVE  IxInv'
<1>1. CASE OfferPoll
  BY <1>1, IxOfferPoll
<1>2. CASE Receive
  BY <1>2, IxReceive
<1>3. CASE WriteSucceeds
  BY <1>3, IxWriteSucceeds
<1>4. CASE WriteFails
  BY <1>4, IxWriteFails
<1>5. CASE DrainFails
  BY <1>5, IxDrainFails
<1>6. ixPhase \in {"run", "drain", "done"} /\ ixOpen \in BOOLEAN /\ backingOff \in BOOLEAN
  BY DEF IxInv, IxTypes
<1>7. CASE CloseChannel
  BY <1>6, <1>7, IxFrame DEF CloseChannel
<1>8. CASE RetryTime
  BY <1>6, <1>8, IxFrame DEF RetryTime
<1>9. CASE Disconnected
  BY <1>6, <1>9, IxFrame DEF Disconnected
<1>10. CASE DrainEnds
  BY <1>6, <1>10, IxFrame DEF DrainEnds
<1>11. CASE UNCHANGED ixVars
  BY <1>6, <1>11, IxFrame DEF ixVars
<1> QED
  BY <1>1, <1>2, <1>3, <1>4, <1>5, <1>7, <1>8, <1>9, <1>10, <1>11 DEF InfluxNext, WriterStep

(* The invariant of the InfluxDB writer.                                      *)
THEOREM InfluxInvariant == InfluxSpec => []IxInv
<1>1. InfluxInit => IxInv
  BY IxInit
<1>2. IxInv /\ [InfluxNext]_ixVars => IxInv'
  BY IxStep
<1> QED
  BY <1>1, <1>2, PTL DEF InfluxSpec

(* The counters of written and dropped points account for every sample, and   *)
(* what is counted as written is in the database once, in order and with its  *)
(* alarm field, whatever fails (Buffer::admit, write_batch, writer_loop).     *)
THEOREM PointsProved == InfluxSpec => []PointsSound
<1>1. ASSUME IxInv PROVE PointsSound
  <2>1. IxTypes /\ IxCounts /\ IxOrder /\ IxStored
    BY <1>1 DEF IxInv
  <2>2. Elements(acked) = ToSet(acked) /\ Elements(ixPoints) = ToSet(ixPoints)
    BY DEF Elements, ToSet
  <2>3. ToSet(ixPoints) \subseteq Point /\ ToSet(acked) \subseteq Point
    BY <2>1 DEF IxTypes, ToSet
  <2>4. InfluxTypeOK
    BY <2>1, <2>3 DEF IxTypes, InfluxTypeOK
  <2>5. PointsAccounted
    BY <2>1 DEF IxCounts
  <2>6. WrittenIsStored
    <3>1. \A i, j \in DOMAIN acked :
            i < j => 2 * acked[i].poll + acked[i].param < 2 * acked[j].poll + acked[j].param
      BY <2>1 DEF IxOrder, Rising, Num
    <3>2. ToSet(acked) \subseteq stored /\ Len(acked) = ixWritten
      BY <2>1, <2>2 DEF IxStored, IxCounts
    <3>3. \A i \in DOMAIN acked : acked[i].finite
      BY <2>1 DEF IxStored, Elements
    <3> QED
      BY <3>1, <3>2, <3>3 DEF WrittenIsStored
  <2>7. AlarmFieldRight
    <3> SUFFICES ASSUME NEW p \in ToSet(acked), p.poll \notin cut
                 PROVE  storedAlarm[p.poll] <=>
                          \E i \in DOMAIN acked : acked[i].poll = p.poll /\ acked[i].alarm
      BY DEF AlarmFieldRight
    <3>1. p.poll \in 1 .. MaxIxPolls
      BY <2>3 DEF Point
    <3>2. storedAlarm[p.poll] \in BOOLEAN
      BY <2>1, <3>1 DEF IxTypes
    <3>3. storedAlarm[p.poll] = TRUE <=>
            \E q \in Elements(acked) : q.poll = p.poll /\ q.alarm = TRUE
      BY <2>1, <2>2 DEF IxStored, AlarmKept
    <3>4. \A i \in DOMAIN acked : acked[i].alarm \in BOOLEAN
      <4>1. \A i \in DOMAIN acked : acked[i] \in Point
        BY <2>1 DEF IxTypes
      <4> QED
        BY <4>1 DEF Point
    <3>5. (\E q \in Elements(acked) : q.poll = p.poll /\ q.alarm = TRUE)
            <=> \E i \in DOMAIN acked : acked[i].poll = p.poll /\ acked[i].alarm
      <4>1. \A i \in DOMAIN acked : acked[i].alarm <=> acked[i].alarm = TRUE
        BY <3>4
      <4> QED
        BY <4>1, Zenon DEF Elements
    <3> QED
      BY <3>2, <3>3, <3>5
  <2> QED
    BY <2>4, <2>5, <2>6, <2>7 DEF PointsSound
<1> QED
  BY <1>1, InfluxInvariant, PTL

-----------------------------------------------------------------------------
(* The records of slowctl                                                      *)

(* The numbers of s ascend strictly.                                           *)
Rises(s) == \A i, j \in DOMAIN s : i < j => s[i] < s[j]

(* Enough newer records of events that happen once have pushed i out.         *)
Superseded(log, i) ==
  Cardinality({j \in DOMAIN log : Retryable(log[j]) /\ j > i}) >= RetryLimit

(* A sequence of numbers that ascend has as many elements as places.          *)
LEMMA RisesCount ==
  ASSUME NEW s \in Seq(Nat), Rises(s)
  PROVE  IsFiniteSet(Elements(s)) /\ Cardinality(Elements(s)) = Len(s)
<1> DEFINE n == Len(s)
           T == Elements(s)
<1>1. n \in Nat /\ DOMAIN s = 1 .. n /\ \A i \in 1 .. n : s[i] \in Nat
  OBVIOUS
<1>2. \A i, j \in 1 .. n : i < j => s[i] < s[j]
  BY <1>1 DEF Rises
<1>3. T = {s[i] : i \in 1 .. n}
  BY <1>1 DEF Elements
<1>4. s = [i \in 1 .. n |-> s[i]]
  BY <1>1
<1> HIDE DEF n, T
<1>5. \A i, j \in 1 .. n : s[i] = s[j] => i = j
  BY <1>1, <1>2
<1>6. s \in [1 .. n -> T]
  BY <1>3, <1>4
<1>7. \A t \in T : \E i \in 1 .. n : s[i] = t
  BY <1>3
<1>8. s \in Bijection(1 .. n, T)
  BY <1>5, <1>6, <1>7 DEF Bijection, Injection, Surjection, IsInjective
<1>9. ExistsBijection(1 .. n, T)
  BY <1>8 DEF ExistsBijection
<1>10. IsFiniteSet(1 .. n) /\ Cardinality(1 .. n) = n
  BY <1>1, FS_Interval
<1> QED
  BY <1>9, <1>10, FS_Bijection DEF n, T

(* A record stays superseded when records are added.                          *)
LEMMA SupersededStays ==
  ASSUME NEW S, NEW log \in Seq(S), NEW more \in Seq(S), NEW i \in Nat, Superseded(log, i)
  PROVE  Superseded(log \o more, i)
<1> DEFINE all == log \o more
           A == {j \in DOMAIN log : Retryable(log[j]) /\ j > i}
           B == {j \in DOMAIN all : Retryable(all[j]) /\ j > i}
<1>1. /\ Len(log) \in Nat /\ Len(more) \in Nat /\ Len(all) = Len(log) + Len(more)
      /\ all \in Seq(S) /\ \A j \in 1 .. Len(log) : all[j] = log[j]
  BY ConcatShape
<1>2. DOMAIN log = 1 .. Len(log) /\ DOMAIN all = 1 .. Len(all)
  BY <1>1
<1>3. A \subseteq B
  BY <1>1, <1>2
<1>4. B \subseteq 1 .. Len(all)
  BY <1>2
<1>5. IsFiniteSet(B)
  <2>1. Len(all) \in Int /\ 1 \in Int
    BY <1>1
  <2>2. IsFiniteSet(1 .. Len(all))
    BY <2>1, FS_Interval
  <2> QED
    BY <1>4, <2>2, FS_Subset
<1>6. IsFiniteSet(A) /\ Cardinality(A) <= Cardinality(B)
  BY <1>3, <1>5, FS_Subset
<1>7. Cardinality(A) \in Nat /\ Cardinality(B) \in Nat
  BY <1>5, <1>6, FS_CardinalityType
<1>8. Cardinality(A) >= RetryLimit
  BY DEF Superseded
<1> HIDE DEF A, B
<1>9. Cardinality(B) >= RetryLimit
  BY <1>6, <1>7, <1>8, ScAssumption DEF ScAssumption
<1> QED
  BY <1>9 DEF B, Superseded

(* A queue of RetryLimit records that happen once, all newer than i, is what  *)
(* it takes to push i out.                                                    *)
LEMMA FullSupersedes ==
  ASSUME NEW S, NEW log \in Seq(S), NEW q \in Seq(Nat), NEW i \in Nat, Rises(q),
         Len(q) = RetryLimit,
         \A j \in Elements(q) : j \in DOMAIN log /\ Retryable(log[j]) /\ j > i
  PROVE  Superseded(log, i)
<1> DEFINE B == {j \in DOMAIN log : Retryable(log[j]) /\ j > i}
           T == Elements(q)
<1>1. T \subseteq B
  OBVIOUS
<1>2. IsFiniteSet(T) /\ Cardinality(T) = RetryLimit
  BY RisesCount
<1>3. B \subseteq 1 .. Len(log)
  OBVIOUS
<1>4. IsFiniteSet(B)
  <2>1. Len(log) \in Int /\ 1 \in Int
    OBVIOUS
  <2>2. IsFiniteSet(1 .. Len(log))
    BY <2>1, FS_Interval
  <2> QED
    BY <1>3, <2>2, FS_Subset
<1>5. Cardinality(T) <= Cardinality(B) /\ Cardinality(B) \in Nat
  BY <1>1, <1>4, FS_Subset, FS_CardinalityType
<1> HIDE DEF B, T
<1>6. Cardinality(B) >= RetryLimit
  BY <1>2, <1>5, ScAssumption DEF ScAssumption
<1> QED
  BY <1>6 DEF B, Superseded

(* One step of filling the retry queue with ids.                              *)
PushStep(ids, log) ==
  [x \in Seq(Nat) \X (Nat \ {0}) |->
     IF x[2] \in 1 .. Len(ids) THEN Push(x[1], ids[x[2]], log) ELSE x[1]]

(* A push leaves a queue of numbers a queue of numbers.                       *)
LEMMA PushType ==
  ASSUME NEW q \in Seq(Nat), NEW i \in Nat, NEW log
  PROVE  Push(q, i, log) \in Seq(Nat)
<1>1. RetryLimit \in Nat /\ RetryLimit # 0
  BY ScAssumption DEF ScAssumption
<1>2. CASE Len(q) >= RetryLimit
  <2>1. q # << >>
    BY <1>1, <1>2
  <2>2. Tail(q) \in Seq(Nat)
    BY <2>1
  <2>3. Append(Tail(q), i) \in Seq(Nat)
    BY <2>2
  <2> QED
    BY <1>2, <2>3 DEF Push
<1>3. CASE ~(Len(q) >= RetryLimit)
  BY <1>3 DEF Push
<1> QED
  BY <1>2, <1>3

(* Keep pushes the ids from the left.                                         *)
LEMMA KeepFollows ==
  ASSUME NEW ids \in Seq(Nat), NEW log
  PROVE  \E g : /\ g[0] = << >>
                /\ \A k \in 1 .. Len(ids) : g[k] = Push(g[k - 1], ids[k], log)
                /\ Keep(ids, log) = g[Len(ids)]
<1> DEFINE n == Len(ids)
           step == PushStep(ids, log)
           e == << >>
<1>0. n \in Nat
  OBVIOUS
<1>1. \A k \in 1 .. n : ids[k] \in Nat
  OBVIOUS
<1>2. step \in [Seq(Nat) \X (Nat \ {0}) -> Seq(Nat)]
  <2> HIDE DEF n
  <2> SUFFICES ASSUME NEW x \in Seq(Nat) \X (Nat \ {0})
               PROVE  (IF x[2] \in 1 .. n THEN Push(x[1], ids[x[2]], log) ELSE x[1])
                        \in Seq(Nat)
    BY DEF PushStep, n
  <2>1. CASE x[2] \in 1 .. n
    <3>1. ids[x[2]] \in Nat /\ x[1] \in Seq(Nat)
      BY <1>1, <2>1
    <3> QED
      BY <2>1, <3>1, PushType
  <2>2. CASE x[2] \notin 1 .. n
    BY <2>2
  <2> QED
    BY <2>1, <2>2
<1>3. e \in Seq(Nat)
  OBVIOUS
<1>4. PICK g \in [0 .. n -> Seq(Nat)] : Follows(g, n, e, step)
  <2> HIDE DEF step, n, e
  <2> QED
    BY <1>0, <1>2, <1>3, Recursion
<1>5. ASSUME NEW j \in 1 .. n PROVE g[j] = Push(g[j - 1], ids[j], log)
  <2>1. j - 1 \in 0 .. n /\ j \in Nat \ {0}
    <3> HIDE DEF n
    <3> QED
      BY <1>0
  <2>2. g[j - 1] \in Seq(Nat)
    BY <2>1
  <2>3. step[<<g[j - 1], j>>] = Push(g[j - 1], ids[j], log)
    BY <2>1, <2>2 DEF PushStep
  <2> HIDE DEF step
  <2> QED
    BY <1>4, <2>3 DEF Follows
<1> DEFINE F(f) == [i \in 0 .. n |-> IF i = 0 THEN << >> ELSE Push(f[i - 1], ids[i], log)]
           c == CHOOSE f : f = F(f)
<1>6. ASSUME NEW j \in 1 .. n, NEW f PROVE F(f)[j] = Push(f[j - 1], ids[j], log)
  <2>1. j \in 0 .. n /\ j # 0
    <3> HIDE DEF n
    <3> QED
      BY <1>0
  <2> QED
    BY <2>1
<1>7. ASSUME NEW f PROVE F(f)[0] = << >>
  <2>1. 0 \in 0 .. n
    <3> HIDE DEF n
    <3> QED
      BY <1>0
  <2> QED
    BY <2>1
<1>8. \A f : F(f) = [j \in 0 .. n |-> F(f)[j]]
  OBVIOUS
<1>9. Keep(ids, log) = c[n]
  BY DEF Keep
<1> HIDE DEF F, n
<1>10. g = F(g)
  <2>1. \A j \in 0 .. n : g[j] = F(g)[j]
    <3> SUFFICES ASSUME NEW j \in 0 .. n PROVE g[j] = F(g)[j]
      OBVIOUS
    <3>1. CASE j = 0
      BY <1>4, <1>7, <3>1 DEF Follows
    <3>2. CASE j # 0
      <4>1. j \in 1 .. n
        BY <1>0, <3>2
      <4> QED
        BY <1>5, <1>6, <4>1
    <3> QED
      BY <3>1, <3>2
  <2> QED
    BY <1>8, <2>1
<1>11. c = F(c)
  BY <1>10
<1> HIDE DEF c
<1>12. c[0] = << >>
  BY <1>7, <1>11
<1>13. \A j \in 1 .. n : c[j] = Push(c[j - 1], ids[j], log)
  BY <1>6, <1>11
<1> QED
  BY <1>9, <1>12, <1>13 DEF n

(* The queue that results from pushing ascending ids: it ascends, is bounded, *)
(* and of the records that happen once only superseded ones are missing.      *)
Pushed(q, ids, m, log) ==
  /\ q \in Seq(1 .. Len(log)) /\ Rises(q) /\ Len(q) <= m /\ Len(q) <= RetryLimit
  /\ \A i \in Elements(q) : Retryable(log[i]) /\ \E k \in 1 .. m : i = ids[k]
  /\ \A k \in 1 .. m : Retryable(log[ids[k]]) =>
       ids[k] \in Elements(q) \/ Superseded(log, ids[k])

(* Putting a number behind smaller ones keeps them ascending.                 *)
LEMMA RisesAppend ==
  ASSUME NEW s \in Seq(Nat), NEW x \in Nat, Rises(s), Below(Elements(s), {x})
  PROVE  Rises(Append(s, x))
<1> DEFINE t == Append(s, x)
<1>1. /\ Len(s) \in Nat /\ DOMAIN s = 1 .. Len(s) /\ DOMAIN t = 1 .. Len(s) + 1
      /\ \A l \in 1 .. Len(s) : t[l] = s[l]
      /\ t[Len(s) + 1] = x
  BY AppendShape
<1> SUFFICES ASSUME NEW i \in DOMAIN t, NEW k \in DOMAIN t, i < k PROVE t[i] < t[k]
  BY DEF Rises
<1>2. CASE k = Len(s) + 1
  <2>1. i \in DOMAIN s /\ t[i] = s[i]
    BY <1>1, <1>2
  <2> QED
    BY <1>1, <1>2, <2>1 DEF Elements, Below
<1>3. CASE k # Len(s) + 1
  <2>1. i \in DOMAIN s /\ k \in DOMAIN s /\ t[i] = s[i] /\ t[k] = s[k]
    BY <1>1, <1>3
  <2> QED
    BY <2>1 DEF Rises
<1> QED
  BY <1>2, <1>3

(* The tail of ascending numbers ascends, and its head is below it.           *)
LEMMA RisesTail ==
  ASSUME NEW s \in Seq(Nat), s # << >>, Rises(s)
  PROVE  Rises(Tail(s)) /\ Below({Head(s)}, Elements(Tail(s)))
<1> DEFINE t == Tail(s)
           n == Len(s)
<1>1. /\ n \in Nat /\ n >= 1 /\ DOMAIN s = 1 .. n /\ DOMAIN t = 1 .. n - 1
      /\ \A i \in 1 .. n - 1 : t[i] = s[i + 1]
      /\ Head(s) = s[1]
  BY TailShape
<1> HIDE DEF t, n
<1>2. \A i, j \in 1 .. n : i < j => s[i] < s[j]
  BY <1>1 DEF Rises
<1>3. Rises(t)
  BY <1>1, <1>2 DEF Rises
<1>4. \A j \in 1 .. n - 1 : s[1] < t[j]
  BY <1>1, <1>2
<1>5. Below({Head(s)}, Elements(t))
  BY <1>1, <1>4 DEF Below, Elements
<1> QED
  BY <1>3, <1>5 DEF t

(* One push of a number above all pushed before.                              *)
LEMMA PushGood ==
  ASSUME NEW S, NEW log \in Seq(S), NEW ids \in Seq(1 .. Len(log)), Rises(ids),
         NEW m \in Nat, m + 1 <= Len(ids), NEW q, Pushed(q, ids, m, log)
  PROVE  Pushed(Push(q, ids[m + 1], log), ids, m + 1, log)
<1>0. RetryLimit \in Nat /\ RetryLimit >= 1
  BY ScAssumption DEF ScAssumption
<1>1. PICK x : x = ids[m + 1]
  OBVIOUS
<1>2. /\ Len(ids) \in Nat /\ DOMAIN ids = 1 .. Len(ids) /\ m + 1 \in 1 .. Len(ids)
      /\ \A k \in 1 .. Len(ids) : ids[k] \in 1 .. Len(log)
  OBVIOUS
<1>3. Len(log) \in Nat /\ DOMAIN log = 1 .. Len(log)
  OBVIOUS
<1>4. x \in 1 .. Len(log) /\ x \in Nat
  BY <1>1, <1>2, <1>3
<1>5. ASSUME NEW k \in 1 .. m PROVE k \in 1 .. Len(ids) /\ ids[k] < x
  <2>1. k \in 1 .. Len(ids) /\ k < m + 1
    BY <1>2
  <2>2. k \in DOMAIN ids /\ m + 1 \in DOMAIN ids
    BY <1>2, <2>1
  <2> QED
    BY <1>1, <2>1, <2>2 DEF Rises
<1>6. /\ q \in Seq(1 .. Len(log)) /\ Rises(q) /\ Len(q) <= m /\ Len(q) <= RetryLimit
      /\ \A i \in Elements(q) : Retryable(log[i]) /\ \E k \in 1 .. m : i = ids[k]
      /\ \A k \in 1 .. m : Retryable(log[ids[k]]) =>
           ids[k] \in Elements(q) \/ Superseded(log, ids[k])
  BY DEF Pushed
<1>7. /\ Len(q) \in Nat /\ q \in Seq(Nat) /\ DOMAIN q = 1 .. Len(q)
      /\ Len(q) <= m /\ Len(q) <= RetryLimit
  BY <1>3, <1>6
<1>8. Below(Elements(q), {x})
  BY <1>5, <1>6 DEF Below
<1>9. Elements(q) \subseteq 1 .. Len(log)
  BY <1>6 DEF Elements
<1>10. \A k \in 1 .. m + 1 : k \in 1 .. m \/ ids[k] = x
  BY <1>1
<1>11. m + 1 \in 1 .. m + 1 /\ \A k \in 1 .. m : k \in 1 .. m + 1
  OBVIOUS
<1>12. CASE ~Retryable(log[x])
  <2>1. Push(q, x, log) = q
    BY <1>12 DEF Push
  <2>2. Len(q) <= m + 1
    BY <1>6, <1>7
  <2>3. \A i \in Elements(q) : Retryable(log[i]) /\ \E k \in 1 .. m + 1 : i = ids[k]
    BY <1>6, <1>11
  <2>4. \A k \in 1 .. m + 1 : Retryable(log[ids[k]]) =>
          ids[k] \in Elements(q) \/ Superseded(log, ids[k])
    BY <1>6, <1>10, <1>12
  <2> QED
    BY <1>1, <1>6, <2>1, <2>2, <2>3, <2>4 DEF Pushed
<1>13. CASE Retryable(log[x]) /\ Len(q) >= RetryLimit
  <2> DEFINE r == Tail(q)
             t == Append(r, x)
  <2>1. Push(q, x, log) = t
    BY <1>13 DEF Push
  <2>2. q # << >>
    BY <1>0, <1>7, <1>13
  <2>3. /\ Len(r) = Len(q) - 1 /\ r \in Seq(1 .. Len(log)) /\ Head(q) = q[1] /\ 1 \in DOMAIN q
    BY <1>6, <1>7, <2>2
  <2>4. r \in Seq(Nat) /\ Rises(r) /\ Below({Head(q)}, Elements(r))
    <3>1. r \in Seq(Nat)
      BY <1>7, <2>2
    <3>2. Rises(q)
      BY <1>6
    <3> QED
      BY <1>7, <2>2, <3>1, <3>2, RisesTail
  <2>5. Elements(q) = {Head(q)} \cup Elements(r)
    BY <1>7, <2>2, ElementsTail
  <2>6. Elements(t) = Elements(r) \cup {x}
    BY <2>4, ElementsAppend
  <2>7. Below(Elements(r), {x})
    BY <1>8, <2>5 DEF Below
  <2> HIDE DEF r
  <2>8. Rises(t)
    BY <1>4, <2>4, <2>7, RisesAppend
  <2>9. t \in Seq(1 .. Len(log)) /\ t \in Seq(Nat) /\ Len(t) = Len(q)
    <3>1. t \in Seq(1 .. Len(log)) /\ Len(t) = Len(r) + 1
      BY <1>4, <2>3
    <3>2. t \in Seq(Nat)
      BY <1>4, <2>4
    <3> QED
      BY <1>7, <2>3, <3>1, <3>2
  <2> HIDE DEF t
  <2>10. Head(q) \in Elements(q) /\ Head(q) \in Nat /\ Head(q) < x
    BY <1>3, <1>8, <1>9, <2>5 DEF Below
  <2>11. Superseded(log, Head(q))
    <3>1. \A j \in Elements(t) : j \in DOMAIN log /\ Retryable(log[j]) /\ j > Head(q)
      <4> SUFFICES ASSUME NEW j \in Elements(t)
                   PROVE  j \in DOMAIN log /\ Retryable(log[j]) /\ j > Head(q)
        OBVIOUS
      <4>1. CASE j = x
        BY <1>3, <1>4, <1>13, <2>10, <4>1
      <4>2. CASE j \in Elements(r)
        <5>1. j \in Elements(q) /\ Head(q) < j
          BY <2>4, <2>5, <4>2 DEF Below
        <5>2. j \in 1 .. Len(log)
          BY <1>9, <5>1
        <5> QED
          BY <1>3, <1>6, <2>10, <5>1, <5>2
      <4> QED
        BY <2>6, <4>1, <4>2
    <3>2. Len(t) = RetryLimit
      <4>1. Len(q) >= RetryLimit
        BY <1>13
      <4>2. Len(q) = RetryLimit
        <5>1. PICK l \in Nat : l = Len(q)
          BY <1>7
        <5>2. l <= RetryLimit /\ l >= RetryLimit
          BY <1>7, <4>1, <5>1
        <5>3. l = RetryLimit
          BY <1>0, <5>2
        <5> QED
          BY <5>1, <5>3
      <4> QED
        BY <2>9, <4>2
    <3> QED
      BY <2>8, <2>9, <2>10, <3>1, <3>2, FullSupersedes
  <2>12. Len(t) <= m + 1 /\ Len(t) <= RetryLimit
    BY <1>7, <2>9
  <2>13. ASSUME NEW i \in Elements(t)
         PROVE  Retryable(log[i]) /\ \E k \in 1 .. m + 1 : i = ids[k]
    <3>1. CASE i = x
      BY <1>1, <1>11, <1>13, <3>1
    <3>2. CASE i # x
      <4>1. i \in Elements(q)
        BY <2>5, <2>6, <3>2
      <4> QED
        BY <1>6, <1>11, <4>1
    <3> QED
      BY <3>1, <3>2
  <2>14. ASSUME NEW k \in 1 .. m + 1, Retryable(log[ids[k]])
         PROVE  ids[k] \in Elements(t) \/ Superseded(log, ids[k])
    <3>1. CASE ids[k] = x
      BY <2>6, <3>1
    <3>2. CASE k \in 1 .. m
      <4>1. ids[k] \in Elements(q) \/ Superseded(log, ids[k])
        BY <1>6, <2>14, <3>2
      <4> QED
        BY <2>5, <2>6, <2>11, <4>1
    <3> QED
      BY <1>10, <3>1, <3>2
  <2> QED
    BY <1>1, <2>1, <2>8, <2>9, <2>12, <2>13, <2>14 DEF Pushed
<1>14. CASE Retryable(log[x]) /\ ~(Len(q) >= RetryLimit)
  <2> DEFINE t == Append(q, x)
  <2>1. Push(q, x, log) = t
    BY <1>14 DEF Push
  <2>2. Elements(t) = Elements(q) \cup {x}
    BY <1>7, ElementsAppend
  <2>3. Rises(t)
    BY <1>4, <1>6, <1>7, <1>8, RisesAppend
  <2>4. t \in Seq(1 .. Len(log)) /\ Len(t) = Len(q) + 1
    BY <1>4, <1>6
  <2> HIDE DEF t
  <2>5. Len(t) <= m + 1 /\ Len(t) <= RetryLimit
    BY <1>0, <1>6, <1>7, <1>14, <2>4
  <2>6. ASSUME NEW i \in Elements(t)
        PROVE  Retryable(log[i]) /\ \E k \in 1 .. m + 1 : i = ids[k]
    <3>1. CASE i = x
      BY <1>1, <1>11, <1>14, <3>1
    <3>2. CASE i # x
      <4>1. i \in Elements(q)
        BY <2>2, <3>2
      <4> QED
        BY <1>6, <1>11, <4>1
    <3> QED
      BY <3>1, <3>2
  <2>7. ASSUME NEW k \in 1 .. m + 1, Retryable(log[ids[k]])
        PROVE  ids[k] \in Elements(t) \/ Superseded(log, ids[k])
    BY <1>6, <1>10, <2>2, <2>7
  <2> QED
    BY <1>1, <2>1, <2>3, <2>4, <2>5, <2>6, <2>7 DEF Pushed
<1> QED
  BY <1>1, <1>12, <1>13, <1>14

(* What Keep makes of ascending ids.                                          *)
LEMMA KeepGood ==
  ASSUME NEW S, NEW log \in Seq(S), NEW ids \in Seq(1 .. Len(log)), Rises(ids)
  PROVE  Pushed(Keep(ids, log), ids, Len(ids), log)
<1> DEFINE n == Len(ids)
<1>1. n \in Nat /\ ids \in Seq(Nat)
  OBVIOUS
<1>2. PICK g : /\ g[0] = << >>
               /\ \A k \in 1 .. n : g[k] = Push(g[k - 1], ids[k], log)
               /\ Keep(ids, log) = g[n]
  BY <1>1, KeepFollows
<1> HIDE DEF n
<1> DEFINE T == {m \in Nat : m <= n => Pushed(g[m], ids, m, log)}
<1>3. 0 \in T
  <2>1. RetryLimit \in Nat
    BY ScAssumption DEF ScAssumption
  <2>2. << >> \in Seq(1 .. Len(log)) /\ Len(<< >>) = 0 /\ DOMAIN << >> = {} /\ 1 .. 0 = {}
    OBVIOUS
  <2>3. Rises(<< >>)
    BY <2>2 DEF Rises
  <2>4. Pushed(<< >>, ids, 0, log)
    BY <2>1, <2>2, <2>3, NoElements DEF Pushed
  <2> QED
    BY <1>2, <2>4
<1>4. ASSUME NEW m \in Nat, m \in T PROVE m + 1 \in T
  <2> SUFFICES ASSUME m + 1 <= n PROVE Pushed(g[m + 1], ids, m + 1, log)
    OBVIOUS
  <2>1. Pushed(g[m], ids, m, log)
    BY <1>1, <1>4
  <2>2. m + 1 \in 1 .. n /\ (m + 1) - 1 = m
    BY <1>1
  <2>3. g[m + 1] = Push(g[m], ids[m + 1], log)
    BY <1>2, <2>2
  <2>4. PICK q : q = g[m]
    OBVIOUS
  <2>5. Pushed(q, ids, m, log) /\ m + 1 <= Len(ids)
    BY <2>1, <2>4 DEF n
  <2>6. Pushed(Push(q, ids[m + 1], log), ids, m + 1, log)
    BY <2>5, PushGood
  <2> QED
    BY <2>3, <2>4, <2>6
<1>5. Nat \subseteq T
  <2> HIDE DEF T
  <2> QED
    BY <1>3, <1>4, NatSetInduction
<1>6. n \in T
  BY <1>1, <1>5
<1> QED
  BY <1>1, <1>2, <1>6 DEF n

(* Of the first m records of log: p is posted, q queued, d dropped.  What was *)
(* posted came before what is queued, and of the records that happen once     *)
(* only superseded ones are in neither.                                       *)
Accounted(p, q, d, m, log) ==
  /\ p \in Seq(1 .. m) /\ q \in Seq(1 .. m) /\ d \in Nat
  /\ Rises(p) /\ Rises(q) /\ Below(Elements(p), Elements(q))
  /\ m = Len(p) + Len(q) + d
  /\ Len(q) <= RetryLimit
  /\ \A i \in 1 .. m : Retryable(log[i]) =>
       i \in Elements(p) \/ i \in Elements(q) \/ Superseded(log, i)

(* A sequence over a set is one over a larger set, and has its elements in it. *)
LEMMA SeqOfSubset ==
  ASSUME NEW A, NEW B, A \subseteq B, NEW s \in Seq(A)
  PROVE  /\ s \in Seq(B) /\ Elements(s) \subseteq A /\ Len(s) \in Nat
         /\ DOMAIN s = 1 .. Len(s) /\ Elements(s) = {s[i] : i \in 1 .. Len(s)}
<1>1. Len(s) \in Nat /\ DOMAIN s = 1 .. Len(s) /\ \A i \in 1 .. Len(s) : s[i] \in A
  OBVIOUS
<1>2. s = [i \in 1 .. Len(s) |-> s[i]]
  BY <1>1
<1>3. \A i \in 1 .. Len(s) : s[i] \in B
  BY <1>1
<1>4. s \in Seq(B)
  OBVIOUS
<1> QED
  BY <1>1, <1>4 DEF Elements

(* Two ascending sequences, one below the other, ascend together.             *)
LEMMA RisesConcat ==
  ASSUME NEW s \in Seq(Nat), NEW t \in Seq(Nat), Rises(s), Rises(t),
         Below(Elements(s), Elements(t))
  PROVE  Rises(s \o t)
<1> DEFINE u == s \o t
           a == Len(s)
           b == Len(t)
<1>1. /\ u \in Seq(Nat) /\ Len(u) = a + b /\ a \in Nat /\ b \in Nat
      /\ \A i \in 1 .. a : u[i] = s[i]
      /\ \A i \in 1 .. b : u[a + i] = t[i]
  BY ConcatShape
<1>2. DOMAIN s = 1 .. a /\ DOMAIN t = 1 .. b /\ DOMAIN u = 1 .. a + b
  BY <1>1
<1>3. \A i, j \in 1 .. a : i < j => s[i] < s[j]
  BY <1>2 DEF Rises
<1>4. \A i, j \in 1 .. b : i < j => t[i] < t[j]
  BY <1>2 DEF Rises
<1>5. \A i \in 1 .. a, j \in 1 .. b : s[i] < t[j]
  BY <1>2 DEF Elements, Below
<1> HIDE DEF u, a, b
<1> SUFFICES ASSUME NEW i \in 1 .. a + b, NEW k \in 1 .. a + b, i < k PROVE u[i] < u[k]
  BY <1>2 DEF Rises, u
<1>6. CASE k \in 1 .. a
  <2>1. i \in 1 .. a
    BY <1>1, <1>6
  <2> QED
    BY <1>1, <1>3, <1>6, <2>1
<1>7. CASE k \notin 1 .. a
  <2>1. PICK l \in 1 .. b : k = a + l
    <3>1. k - a \in 1 .. b /\ k = a + (k - a)
      BY <1>1, <1>7
    <3> QED
      BY <3>1
  <2>2. CASE i \in 1 .. a
    BY <1>1, <1>5, <2>1, <2>2
  <2>3. CASE i \notin 1 .. a
    <3>1. i - a \in 1 .. b /\ i = a + (i - a)
      BY <1>1, <2>3
    <3>2. PICK h \in 1 .. b : i = a + h
      BY <3>1
    <3>3. h < l
      BY <1>1, <2>1, <3>2
    <3> QED
      BY <1>1, <1>4, <2>1, <3>2, <3>3
  <2> QED
    BY <2>2, <2>3
<1> QED
  BY <1>6, <1>7

(* Both parts of an ascending sequence ascend, the first below the second.    *)
LEMMA RisesSplit ==
  ASSUME NEW S, NEW s \in Seq(S), S \subseteq Nat, Rises(s), NEW n \in Nat, n <= Len(s)
  PROVE  /\ SubSeq(s, 1, n) \in Seq(S) /\ SubSeq(s, n + 1, Len(s)) \in Seq(S)
         /\ Len(SubSeq(s, 1, n)) = n /\ Len(SubSeq(s, n + 1, Len(s))) = Len(s) - n
         /\ Rises(SubSeq(s, 1, n)) /\ Rises(SubSeq(s, n + 1, Len(s)))
         /\ Below(Elements(SubSeq(s, 1, n)), Elements(SubSeq(s, n + 1, Len(s))))
         /\ Elements(s) = Elements(SubSeq(s, 1, n)) \cup Elements(SubSeq(s, n + 1, Len(s)))
<1> DEFINE a == SubSeq(s, 1, n)
           b == SubSeq(s, n + 1, Len(s))
           l == Len(s)
<1>1. l \in Nat /\ n <= l /\ DOMAIN s = 1 .. l
  OBVIOUS
<1>2. a \in Seq(S) /\ Len(a) = n /\ \A i \in 1 .. n : a[i] = s[i]
  BY FirstShape
<1>3. b \in Seq(S) /\ Len(b) = l - n /\ \A i \in 1 .. l - n : b[i] = s[n + i]
  <2>1. PICK z \in Nat : z = Len(s)
    OBVIOUS
  <2>2. n <= z /\ z <= Len(s)
    BY <2>1
  <2>3. /\ SubSeq(s, n + 1, z) \in Seq(S) /\ Len(SubSeq(s, n + 1, z)) = z - n
        /\ \A i \in 1 .. z - n : SubSeq(s, n + 1, z)[i] = s[n + i]
    BY <2>2, SliceShape
  <2> QED
    BY <2>1, <2>3
<1>4. DOMAIN a = 1 .. n /\ DOMAIN b = 1 .. l - n
  <2>1. \A t \in Seq(S) : DOMAIN t = 1 .. Len(t)
    OBVIOUS
  <2> QED
    BY <1>2, <1>3, <2>1
<1>5. \A i, j \in 1 .. l : i < j => s[i] < s[j]
  BY <1>1 DEF Rises
<1>6. Elements(s) = {s[i] : i \in 1 .. l}
  BY <1>1 DEF Elements
<1> HIDE DEF a, b, l
<1>7. Rises(a)
  BY <1>1, <1>2, <1>4, <1>5 DEF Rises
<1>8. Rises(b)
  <2> SUFFICES ASSUME NEW i \in 1 .. l - n, NEW j \in 1 .. l - n, i < j PROVE b[i] < b[j]
    BY <1>4 DEF Rises
  <2>1. n + i \in 1 .. l /\ n + j \in 1 .. l /\ n + i < n + j
    BY <1>1
  <2> QED
    BY <1>3, <1>5, <2>1
<1>9. Below(Elements(a), Elements(b))
  <2> SUFFICES ASSUME NEW i \in 1 .. n, NEW j \in 1 .. l - n PROVE a[i] < b[j]
    BY <1>4 DEF Below, Elements
  <2>1. i \in 1 .. l /\ n + j \in 1 .. l /\ i < n + j
    BY <1>1
  <2> QED
    BY <1>2, <1>3, <1>5, <2>1
<1>10. Elements(s) = Elements(a) \cup Elements(b)
  <2>1. ASSUME NEW i \in 1 .. l PROVE s[i] \in Elements(a) \cup Elements(b)
    <3>1. CASE i \in 1 .. n
      BY <1>2, <1>4, <3>1 DEF Elements
    <3>2. CASE i \notin 1 .. n
      <4>1. i - n \in 1 .. l - n /\ n + (i - n) = i
        BY <1>1, <3>2
      <4>2. s[i] = b[i - n]
        BY <1>3, <4>1
      <4> QED
        BY <1>4, <4>1, <4>2 DEF Elements
    <3> QED
      BY <3>1, <3>2
  <2>2. \A i \in 1 .. n : a[i] \in Elements(s)
    BY <1>1, <1>2, <1>6
  <2>3. ASSUME NEW i \in 1 .. l - n PROVE b[i] \in Elements(s)
    <3>1. n + i \in 1 .. l
      BY <1>1
    <3> QED
      BY <1>3, <1>6, <3>1
  <2>4. Elements(a) \subseteq Elements(s)
    BY <1>4, <2>2 DEF Elements
  <2>5. Elements(b) \subseteq Elements(s)
    BY <1>4, <2>3 DEF Elements
  <2> QED
    BY <1>6, <2>1, <2>4, <2>5
<1> QED
  BY <1>1, <1>2, <1>3, <1>7, <1>8, <1>9, <1>10 DEF a, b, l

(* The numbers of r new records behind m old ones.                            *)
NewIds(m, r) == [i \in 1 .. r |-> m + i]

(* They ascend above the old ones.                                            *)
LEMMA NewIdsShape ==
  ASSUME NEW m \in Nat, NEW r \in Nat
  PROVE  /\ NewIds(m, r) \in Seq(1 .. m + r) /\ Len(NewIds(m, r)) = r
         /\ Rises(NewIds(m, r)) /\ Elements(NewIds(m, r)) = m + 1 .. m + r
<1>1. \A i \in 1 .. r : m + i \in 1 .. m + r
  OBVIOUS
<1>2. NewIds(m, r) \in Seq(1 .. m + r) /\ Len(NewIds(m, r)) = r
  BY <1>1 DEF NewIds
<1>3. DOMAIN NewIds(m, r) = 1 .. r /\ \A i \in 1 .. r : NewIds(m, r)[i] = m + i
  BY DEF NewIds
<1>4. Rises(NewIds(m, r))
  BY <1>3 DEF Rises
<1>5. ASSUME NEW j \in m + 1 .. m + r PROVE j \in Elements(NewIds(m, r))
  <2>1. j - m \in 1 .. r /\ m + (j - m) = j
    OBVIOUS
  <2> QED
    BY <1>3, <2>1 DEF Elements
<1>6. \A i \in 1 .. r : NewIds(m, r)[i] \in m + 1 .. m + r
  BY <1>3
<1>7. Elements(NewIds(m, r)) \subseteq m + 1 .. m + r
  BY <1>3, <1>6 DEF Elements
<1> QED
  BY <1>2, <1>4, <1>5, <1>7

(* A turn of the poster with r new records, of which, with what was queued,   *)
(* the first n go out.                                                        *)
LEMMA PostKeeps ==
  ASSUME NEW S, NEW log \in Seq(S), NEW p, NEW q, NEW d, NEW m \in Nat, NEW r \in Nat,
         Len(log) = m + r, Accounted(p, q, d, m, log), NEW n \in 0 .. Len(q) + r,
         NEW out, out = q \o NewIds(m, r), NEW left, left = SubSeq(out, n + 1, Len(out)),
         NEW kept, kept = Keep(left, log)
  PROVE  Accounted(p \o SubSeq(out, 1, n), kept, d + Len(left) - Len(kept), m + r, log)
<1> DEFINE M == 1 .. m + r
           new == NewIds(m, r)
           first == SubSeq(out, 1, n)
           pp == p \o first
<1>1. /\ p \in Seq(1 .. m) /\ q \in Seq(1 .. m) /\ d \in Nat
      /\ Rises(p) /\ Rises(q) /\ Below(Elements(p), Elements(q))
      /\ m = Len(p) + Len(q) + d
      /\ \A i \in 1 .. m : Retryable(log[i]) =>
           i \in Elements(p) \/ i \in Elements(q) \/ Superseded(log, i)
  BY DEF Accounted
<1>2. 1 .. m \subseteq M /\ M \subseteq Nat
  OBVIOUS
<1>3. p \in Seq(M) /\ q \in Seq(M) /\ p \in Seq(Nat) /\ q \in Seq(Nat)
  <2> HIDE DEF M
  <2>1. p \in Seq(M) /\ q \in Seq(M)
    BY <1>1, <1>2, SeqOfSubset
  <2> QED
    BY <1>2, <2>1, SeqOfSubset
<1>4. /\ new \in Seq(M) /\ Len(new) = r /\ Rises(new) /\ Elements(new) = m + 1 .. m + r
  BY NewIdsShape
<1>5. Elements(p) \subseteq 1 .. m /\ Elements(q) \subseteq 1 .. m
  BY <1>1, SeqOfSubset
<1>6. Below(Elements(p), Elements(new)) /\ Below(Elements(q), Elements(new))
  BY <1>4, <1>5 DEF Below
<1> HIDE DEF new, M
<1>7. new \in Seq(Nat)
  BY <1>2, <1>4, SeqOfSubset
<1>8. out \in Seq(M) /\ Len(out) = Len(q) + r /\ Len(q) \in Nat
  <2>1. out = q \o new
    BY DEF new
  <2> QED
    BY <1>3, <1>4, <2>1, ConcatShape
<1>9. Rises(out)
  <2>1. Rises(q) /\ Rises(new) /\ Below(Elements(q), Elements(new))
    BY <1>1, <1>4, <1>6
  <2>2. Rises(q \o new)
    BY <1>3, <1>7, <2>1, RisesConcat
  <2> QED
    BY <2>2 DEF new
<1>10. Elements(out) = Elements(q) \cup Elements(new)
  BY <1>3, <1>4, ElementsConcat DEF new
<1>11. n \in Nat /\ n <= Len(out)
  BY <1>8
<1>12. /\ first \in Seq(M) /\ left \in Seq(M) /\ Len(first) = n /\ Len(left) = Len(out) - n
       /\ Rises(first) /\ Rises(left) /\ Below(Elements(first), Elements(left))
       /\ Elements(out) = Elements(first) \cup Elements(left)
  <2>1. /\ first \in Seq(M) /\ left \in Seq(M) /\ Len(first) = n /\ Len(left) = Len(out) - n
    <3> HIDE DEF first
    <3>1. SubSeq(out, 1, n) \in Seq(M) /\ SubSeq(out, n + 1, Len(out)) \in Seq(M)
      BY <1>2, <1>8, <1>9, <1>11, RisesSplit
    <3>2. Len(SubSeq(out, 1, n)) = n /\ Len(SubSeq(out, n + 1, Len(out))) = Len(out) - n
      BY <1>2, <1>8, <1>9, <1>11, RisesSplit
    <3> QED
      BY <3>1, <3>2 DEF first
  <2>2. /\ Rises(first) /\ Rises(left) /\ Below(Elements(first), Elements(left))
    BY <1>2, <1>8, <1>9, <1>11, RisesSplit
  <2>3. Elements(out) = Elements(first) \cup Elements(left)
    BY <1>2, <1>8, <1>9, <1>11, RisesSplit
  <2> QED
    BY <2>1, <2>2, <2>3
<1> HIDE DEF first
<1>13. Below(Elements(p), Elements(out))
  BY <1>1, <1>6, <1>10 DEF Below
<1>14. Below(Elements(p), Elements(first)) /\ Below(Elements(p), Elements(left))
  BY <1>12, <1>13 DEF Below
<1>15. /\ pp \in Seq(M) /\ Len(pp) = Len(p) + n /\ Len(p) \in Nat
       /\ Elements(pp) = Elements(p) \cup Elements(first)
  <2>1. pp \in Seq(M) /\ Len(pp) = Len(p) + Len(first) /\ Len(p) \in Nat
    BY <1>3, <1>12, ConcatShape
  <2>2. Elements(pp) = Elements(p) \cup Elements(first)
    BY <1>3, <1>12, ElementsConcat
  <2> QED
    BY <1>12, <2>1, <2>2
<1>16. Rises(pp)
  <2>1. first \in Seq(Nat)
    BY <1>2, <1>12, SeqOfSubset
  <2>2. Rises(p) /\ Rises(first) /\ Below(Elements(p), Elements(first))
    BY <1>1, <1>12, <1>14
  <2> QED
    BY <1>3, <2>1, <2>2, RisesConcat
<1>17. left \in Seq(1 .. Len(log))
  BY <1>12 DEF M
<1>18. Pushed(kept, left, Len(left), log)
  BY <1>12, <1>17, KeepGood
<1>19. /\ kept \in Seq(M) /\ Rises(kept) /\ Len(kept) <= Len(left) /\ Len(kept) <= RetryLimit
       /\ \A i \in Elements(kept) : \E k \in 1 .. Len(left) : i = left[k]
       /\ \A k \in 1 .. Len(left) : Retryable(log[left[k]]) =>
            left[k] \in Elements(kept) \/ Superseded(log, left[k])
  BY <1>18 DEF Pushed, M
<1>20. Elements(left) = {left[k] : k \in 1 .. Len(left)}
  <2>1. DOMAIN left = 1 .. Len(left)
    BY <1>17
  <2> QED
    BY <2>1 DEF Elements
<1>21. Elements(kept) \subseteq Elements(left)
  BY <1>19, <1>20
<1>22. Below(Elements(pp), Elements(kept))
  BY <1>12, <1>14, <1>15, <1>21 DEF Below
<1>23. /\ d + Len(left) - Len(kept) \in Nat
       /\ m + r = Len(pp) + Len(kept) + (d + Len(left) - Len(kept))
  <2>1. PICK a \in Nat, b \in Nat, c \in Nat, l \in Nat :
          a = Len(p) /\ b = Len(q) /\ c = Len(kept) /\ l = Len(left)
    <3>1. Len(p) \in Nat /\ Len(q) \in Nat
      BY <1>8, <1>15
    <3>2. Len(kept) \in Nat /\ Len(left) \in Nat
      BY <1>12, <1>19, SeqOfSubset
    <3> QED
      BY <3>1, <3>2
  <2>2. l = (b + r) - n /\ c <= l /\ Len(pp) = a + n /\ m = a + b + d
    BY <1>1, <1>8, <1>12, <1>15, <1>19, <2>1
  <2>3. d + l - c \in Nat /\ m + r = (a + n) + c + (d + l - c)
    <3>1. d \in Nat
      BY <1>1
    <3> QED
      BY <1>11, <2>2, <3>1
  <2> QED
    BY <2>1, <2>2, <2>3
<1>24. ASSUME NEW i \in 1 .. m + r, Retryable(log[i])
       PROVE  i \in Elements(pp) \/ i \in Elements(kept) \/ Superseded(log, i)
  <2>1. i \in Elements(p) \/ i \in Elements(out) \/ Superseded(log, i)
    <3>1. CASE i \in 1 .. m
      BY <1>1, <1>10, <1>24, <3>1
    <3>2. CASE i \notin 1 .. m
      <4>1. i \in m + 1 .. m + r
        BY <3>2
      <4> QED
        BY <1>4, <1>10, <4>1
    <3> QED
      BY <3>1, <3>2
  <2>2. CASE i \in Elements(left)
    <3>1. PICK k \in 1 .. Len(left) : i = left[k]
      BY <1>20, <2>2
    <3> QED
      BY <1>19, <1>24, <3>1
  <2> QED
    BY <1>12, <1>15, <2>1, <2>2
<1> QED
  BY <1>15, <1>16, <1>19, <1>22, <1>23, <1>24 DEF Accounted, M, first

-----------------------------------------------------------------------------
(* The alarm and value records                                                *)

Words == {"ALARM", "RECOVER", "VALUE"}
ScRecord ==
  [device : ScDevices, node : Nat, event : Words \cup {"IDENT"}, value : Int]
    \cup [device : ScDevices, node : Nat, event : {"ERROR"}, value : [ErrorKinds -> Int]]
ScSample == [value : Int, alarm : BOOLEAN, ts : Int]

(* The nodes by name.                                                         *)
Flow1 == <<"flow", 1>>
Flow2 == <<"flow", 2>>
Env0 == <<"env", 0>>

(* There are three nodes.                                                     *)
LEMMA KeysAre ==
  /\ Keys = {Flow1, Flow2, Env0} /\ Flow1 # Flow2 /\ Flow1 # Env0 /\ Flow2 # Env0
  /\ Flow1[1] = "flow" /\ Flow2[1] = "flow" /\ Env0[1] = "env"
  /\ Flow1[2] = 1 /\ Flow2[2] = 2 /\ Env0[2] = 0
<1>1. Flow1[1] = "flow" /\ Flow2[1] = "flow" /\ Env0[1] = "env"
  BY DEF Flow1, Flow2, Env0
<1>2. Flow1[2] = 1 /\ Flow2[2] = 2 /\ Env0[2] = 0
  BY DEF Flow1, Flow2, Env0
<1>3. Flow1 # Flow2 /\ Flow1 # Env0 /\ Flow2 # Env0
  BY <1>1, <1>2
<1> QED
  BY <1>1, <1>2, <1>3 DEF Keys, Flow1, Flow2, Env0

(* The records of log that say event of node k.                               *)
Hits(log, k, event) ==
  {i \in DOMAIN log : log[i].event = event /\ <<log[i].device, log[i].node>> = k}

(* How often log says ALARM of k more than RECOVER.                           *)
BalanceIn(log, k) == Cardinality(Hits(log, k, "ALARM")) - Cardinality(Hits(log, k, "RECOVER"))

(* Hits are finitely many.                                                    *)
LEMMA HitsFinite ==
  ASSUME NEW S, NEW log \in Seq(S), NEW k, NEW event
  PROVE  IsFiniteSet(Hits(log, k, event)) /\ Cardinality(Hits(log, k, event)) \in Nat
<1>1. Hits(log, k, event) \subseteq 1 .. Len(log)
  BY DEF Hits
<1>2. Len(log) \in Int /\ 1 \in Int
  OBVIOUS
<1>3. IsFiniteSet(1 .. Len(log))
  BY <1>2, FS_Interval
<1>4. IsFiniteSet(Hits(log, k, event))
  BY <1>1, <1>3, FS_Subset
<1> QED
  BY <1>4, FS_CardinalityType

(* The hits in a concatenation are those in its parts.                        *)
LEMMA HitsConcat ==
  ASSUME NEW S, NEW s \in Seq(S), NEW t \in Seq(S), NEW k, NEW event
  PROVE  Cardinality(Hits(s \o t, k, event)) =
           Cardinality(Hits(s, k, event)) + Cardinality(Hits(t, k, event))
<1> DEFINE u == s \o t
           a == Len(s)
           b == Len(t)
           A == Hits(s, k, event)
           B == Hits(t, k, event)
           U == Hits(u, k, event)
           C == {a + i : i \in B}
           f == [i \in B |-> a + i]
<1>1. /\ u \in Seq(S) /\ Len(u) = a + b /\ a \in Nat /\ b \in Nat
      /\ \A i \in 1 .. a : u[i] = s[i]
      /\ \A i \in 1 .. b : u[a + i] = t[i]
  BY ConcatShape
<1>2. DOMAIN s = 1 .. a /\ DOMAIN t = 1 .. b /\ DOMAIN u = 1 .. a + b
  BY <1>1
<1>3. /\ IsFiniteSet(A) /\ Cardinality(A) \in Nat
      /\ IsFiniteSet(B) /\ Cardinality(B) \in Nat
  BY HitsFinite
<1>4. A \subseteq 1 .. a /\ B \subseteq 1 .. b /\ U \subseteq 1 .. a + b
  BY <1>2 DEF Hits
<1>5. \A i \in 1 .. a : i \in A <=> i \in U
  BY <1>1, <1>2 DEF Hits
<1>6. \A i \in 1 .. b : i \in B <=> a + i \in U
  BY <1>1, <1>2 DEF Hits
<1> HIDE DEF u, a, b, A, B, U
<1>7. U = A \cup C
  <2>1. A \subseteq U
    BY <1>4, <1>5
  <2>2. C \subseteq U
    BY <1>4, <1>6
  <2>3. ASSUME NEW i \in U PROVE i \in A \cup C
    <3>1. i \in 1 .. a + b
      BY <1>4
    <3>2. CASE i \in 1 .. a
      BY <1>5, <3>2
    <3>3. CASE i \notin 1 .. a
      <4>1. i - a \in 1 .. b /\ a + (i - a) = i
        BY <1>1, <3>1, <3>3
      <4>2. i - a \in B
        BY <1>6, <4>1
      <4> QED
        BY <4>1, <4>2
    <3> QED
      BY <3>2, <3>3
  <2> QED
    BY <2>1, <2>2, <2>3
<1>8. A \cap C = {}
  BY <1>1, <1>4
<1>9. f \in Bijection(B, C)
  <2>1. f \in [B -> C]
    OBVIOUS
  <2>2. \A i, j \in B : f[i] = f[j] => i = j
    BY <1>1, <1>4
  <2>3. \A c \in C : \E i \in B : f[i] = c
    OBVIOUS
  <2> QED
    BY <2>1, <2>2, <2>3 DEF Bijection, Injection, Surjection, IsInjective
<1>10. ExistsBijection(B, C)
  BY <1>9 DEF ExistsBijection
<1> HIDE DEF f, C
<1>11. IsFiniteSet(C) /\ Cardinality(C) = Cardinality(B)
  BY <1>3, <1>10, FS_Bijection
<1>12. Cardinality(A \cup C) = Cardinality(A) + Cardinality(C) - Cardinality(A \cap C)
  BY <1>3, <1>11, FS_Union
<1>13. Cardinality(A \cap C) = 0
  BY <1>8, FS_EmptySet
<1>14. Cardinality(U) = Cardinality(A) + Cardinality(B)
  BY <1>3, <1>7, <1>11, <1>12, <1>13
<1> QED
  BY <1>14 DEF A, B, U, u

(* The records that a sample s of a node makes of what is said.               *)
Spoken(s, said) ==
  [i \in DOMAIN said |->
     [device |-> s.key[1], node |-> s.key[2], event |-> said[i], value |-> s.value]]

(* How often said says ALARM more than RECOVER.                               *)
Surplus(said) == Cardinality(Places(said, "ALARM")) - Cardinality(Places(said, "RECOVER"))

(* A truth value as a number.                                                 *)
Bit(b) == IF b THEN 1 ELSE 0

(* What an edge adds.                                                         *)
Weight(e) == IF e = <<"ALARM">> THEN 1 ELSE IF e = <<"RECOVER">> THEN -1 ELSE 0

(* What can be said at an edge.                                               *)
Sayings == {<< >>, <<"ALARM">>, <<"RECOVER">>}

(* An edge adds its weight.                                                   *)
LEMMA EdgeAdds ==
  ASSUME NEW s \in Seq(Words), NEW e \in Sayings
  PROVE  s \o e \in Seq(Words) /\ Surplus(s) \in Int /\ Surplus(s \o e) = Surplus(s) + Weight(e)
<1>0. /\ Cardinality(Places(s, "ALARM")) \in Nat /\ Cardinality(Places(s, "RECOVER")) \in Nat
  BY PlacesFinite
<1>1. CASE e = << >>
  <2>1. s \o e = s
    BY <1>1
  <2>2. e # <<"ALARM">> /\ e # <<"RECOVER">>
    BY <1>1
  <2> QED
    BY <1>0, <2>1, <2>2 DEF Surplus, Weight
<1>2. ASSUME NEW w \in {"ALARM", "RECOVER"}, e = <<w>> PROVE
         /\ s \o e \in Seq(Words)
         /\ \A x \in {"ALARM", "RECOVER"} : Cardinality(Places(s \o e, x)) =
              Cardinality(Places(s, x)) + (IF w = x THEN 1 ELSE 0)
  <2>1. w \in Words
    BY DEF Words
  <2>2. s \o e = Append(s, w)
    BY <1>2, <2>1, AppendIsConcat
  <2>3. Append(s, w) \in Seq(Words)
    BY <2>1
  <2> QED
    BY <2>2, <2>3, CountAppend
<1>3. <<"ALARM">> # <<"RECOVER">>
  <2>1. <<"ALARM">>[1] = "ALARM" /\ <<"RECOVER">>[1] = "RECOVER"
    BY SmallTuples
  <2> QED
    BY <2>1
<1>4. CASE e = <<"ALARM">>
  BY <1>0, <1>2, <1>4 DEF Surplus, Weight
<1>5. CASE e = <<"RECOVER">>
  BY <1>0, <1>2, <1>3, <1>5 DEF Surplus, Weight
<1> QED
  BY <1>1, <1>4, <1>5 DEF Sayings

(* Nothing, or a value, is neither alarm nor recovery.                        *)
LEMMA QuietSurplus ==
  /\ Surplus(<< >>) = 0 /\ << >> \in Seq(Words)
  /\ Surplus(<<"VALUE">>) = 0 /\ <<"VALUE">> \in Seq(Words)
<1>1. Surplus(<< >>) = 0
  BY NoPlaces DEF Surplus
<1>2. << >> \in Seq(Words) /\ "VALUE" \in Words
  BY DEF Words
<1>3. <<"VALUE">> = Append(<< >>, "VALUE") /\ <<"VALUE">> \in Seq(Words)
  BY <1>2
<1>4. \A x \in {"ALARM", "RECOVER"} : Cardinality(Places(<<"VALUE">>, x)) = 0
  <2> SUFFICES ASSUME NEW x \in {"ALARM", "RECOVER"} PROVE Places(<<"VALUE">>, x) = {}
    BY FS_EmptySet
  <2>1. DOMAIN <<"VALUE">> = {1} /\ <<"VALUE">>[1] = "VALUE"
    BY SmallTuples
  <2> QED
    BY <2>1 DEF Places
<1>5. Surplus(<<"VALUE">>) = 0
  BY <1>4 DEF Surplus
<1> QED
  BY <1>1, <1>2, <1>3, <1>5

(* The samples that Ingest sees.                                              *)
GoodSample(s) ==
  /\ s.key \in Keys /\ s.value \in Int /\ s.alarm \in BOOLEAN /\ s.ts \in Nat
  /\ s.alarm => s.key = Env0

(* Records of what is said change only the balance of their node.             *)
LEMMA SpokenBalance ==
  ASSUME NEW log \in Seq(ScRecord), NEW s, GoodSample(s), NEW said \in Seq(Words),
         NEW k \in Keys
  PROVE  /\ Spoken(s, said) \in Seq(ScRecord) /\ Len(Spoken(s, said)) = Len(said)
         /\ BalanceIn(log, k) \in Int
         /\ BalanceIn(log \o Spoken(s, said), k) =
              BalanceIn(log, k) + (IF k = s.key THEN Surplus(said) ELSE 0)
<1> DEFINE t == Spoken(s, said)
<1>1. /\ s.key \in {Flow1, Flow2, Env0} /\ k \in {Flow1, Flow2, Env0} /\ s.value \in Int
      /\ s.key[1] \in ScDevices /\ s.key[2] \in Nat
  BY KeysAre DEF GoodSample, ScDevices
<1>2. DOMAIN said = 1 .. Len(said) /\ Len(said) \in Nat /\ \A i \in DOMAIN said : said[i] \in Words
  OBVIOUS
<1>3. \A i \in DOMAIN said :
        [device |-> s.key[1], node |-> s.key[2], event |-> said[i], value |-> s.value] \in ScRecord
  BY <1>1, <1>2 DEF ScRecord
<1>4. t \in Seq(ScRecord) /\ Len(t) = Len(said) /\ DOMAIN t = DOMAIN said
  BY <1>2, <1>3 DEF Spoken
<1>5. \A i \in DOMAIN said : t[i].event = said[i] /\ t[i].device = s.key[1] /\ t[i].node = s.key[2]
  BY DEF Spoken
<1>6. s.key = <<s.key[1], s.key[2]>>
  <2>1. \/ s.key = Flow1 \/ s.key = Flow2 \/ s.key = Env0
    BY <1>1
  <2> QED
    BY <2>1, KeysAre DEF Flow1, Flow2, Env0
<1> HIDE DEF t
<1>7. \A event : Hits(t, k, event) = IF k = s.key THEN Places(said, event) ELSE {}
  <2>1. \A i \in DOMAIN said : <<t[i].device, t[i].node>> = s.key
    BY <1>5, <1>6
  <2> QED
    BY <1>4, <1>5, <2>1 DEF Hits, Places
<1>8. \A event : /\ Cardinality(Hits(log \o t, k, event)) =
                      Cardinality(Hits(log, k, event)) + Cardinality(Hits(t, k, event))
                 /\ Cardinality(Hits(log, k, event)) \in Nat
  BY <1>4, HitsConcat, HitsFinite
<1>9. Cardinality(Places(said, "ALARM")) \in Nat /\ Cardinality(Places(said, "RECOVER")) \in Nat
  BY PlacesFinite
<1>10. Cardinality({}) = 0
  BY FS_EmptySet
<1>11. BalanceIn(log, k) \in Int
  BY <1>8 DEF BalanceIn
<1>12. CASE k = s.key
  BY <1>4, <1>7, <1>8, <1>9, <1>11, <1>12 DEF BalanceIn, Surplus, t
<1>13. CASE k # s.key
  <2>1. Hits(t, k, "ALARM") = {} /\ Hits(t, k, "RECOVER") = {}
    BY <1>7, <1>13
  <2>2. /\ Cardinality(Hits(log \o t, k, "ALARM")) = Cardinality(Hits(log, k, "ALARM"))
        /\ Cardinality(Hits(log \o t, k, "RECOVER")) = Cardinality(Hits(log, k, "RECOVER"))
    <3>1. ASSUME NEW event, Hits(t, k, event) = {}
          PROVE  Cardinality(Hits(log \o t, k, event)) = Cardinality(Hits(log, k, event))
      <4>1. /\ Cardinality(Hits(log \o t, k, event)) =
                  Cardinality(Hits(log, k, event)) + Cardinality(Hits(t, k, event))
            /\ Cardinality(Hits(log, k, event)) \in Nat
        BY <1>8, Zenon
      <4>2. Cardinality(Hits(t, k, event)) = 0
        BY <1>10, <3>1
      <4> QED
        BY <4>1, <4>2
    <3> QED
      BY <2>1, <3>1
  <2>3. BalanceIn(log \o t, k) = BalanceIn(log, k) + 0
    BY <1>11, <2>2 DEF BalanceIn
  <2> QED
    BY <1>4, <1>11, <1>13, <2>3 DEF t
<1> QED
  BY <1>12, <1>13

(* The value v is within 2 percent of the recorded one.                       *)
Near(recorded, v) ==
  \A n \in {v - recorded, recorded - v} : n <= 0 \/ 50 * n < recorded

(* The last record of k in log gives v.                                       *)
LastTells(log, k, v) ==
  \E i \in DOMAIN log :
    Tells(log[i], k) /\ log[i].value = v /\ \A j \in DOMAIN log : Tells(log[j], k) => j <= i

(* The aggregator's state f, l, g against the records made.                   *)
AlarmsFit(f, l, log) ==
  /\ ~l[Flow1].alarm /\ ~l[Flow2].alarm
  /\ BalanceIn(log, Env0) = Bit(l[Env0].alarm)
  /\ BalanceIn(log, Flow1) + BalanceIn(log, Flow2) = Bit(f[1]) + Bit(f[2])
  /\ f[1] <=> l[Flow1].value > ScHi

LogFits(l, g, log) ==
  \A k \in Keys :
    /\ l[k].ts # -1 => g[k].ts # -1 /\ Near(g[k].value, l[k].value)
    /\ g[k].ts # -1 => LastTells(log, k, g[k].value)

AggTypes(f, l, g) ==
  /\ f \in [DOMAIN ScRules -> BOOLEAN] /\ l \in [Keys -> ScSample] /\ g \in [Keys -> ScSample]

AggGood(f, l, g, log) ==
  /\ AggTypes(f, l, g) /\ log \in Seq(ScRecord) /\ AlarmsFit(f, l, log) /\ LogFits(l, g, log)

(* The two rules and what they match.                                         *)
LEMMA RulesAre ==
  ASSUME NEW s, GoodSample(s)
  PROVE  /\ DOMAIN ScRules = {1, 2}
         /\ Matches(ScRules[1], s) <=> s.key = Flow1
         /\ Matches(ScRules[2], s) <=> s.key # Env0
<1>1. /\ DOMAIN ScRules = {1, 2} /\ ScRules[1] = [device |-> "flow", node |-> 1]
      /\ ScRules[2] = [device |-> "flow", node |-> 0]
  BY SmallTuples DEF ScRules
<1>2. s.key \in {Flow1, Flow2, Env0}
  BY KeysAre DEF GoodSample
<1>3. CASE s.key = Flow1
  BY <1>1, <1>3, KeysAre DEF Matches
<1>4. CASE s.key = Flow2
  BY <1>1, <1>4, KeysAre DEF Matches
<1>5. CASE s.key = Env0
  BY <1>1, <1>5, KeysAre DEF Matches
<1> QED
  BY <1>2, <1>3, <1>4, <1>5

(* An edge weighs the change of the condition.                                *)
LEMMA EdgeWeights ==
  ASSUME NEW f \in [DOMAIN ScRules -> BOOLEAN], NEW s, GoodSample(s), NEW r \in {1, 2}
  PROVE  /\ Edges(f, s, r) \in Sayings
         /\ Weight(Edges(f, s, r)) =
              Bit(IF Matches(ScRules[r], s) THEN s.value > ScHi ELSE f[r]) - Bit(f[r])
<1>1. f[r] \in BOOLEAN
  BY RulesAre
<1>2. (s.value > ScHi) \in BOOLEAN
  OBVIOUS
<1>3. <<"ALARM">> # <<"RECOVER">> /\ << >> # <<"ALARM">> /\ << >> # <<"RECOVER">>
  <2>1. <<"ALARM">>[1] = "ALARM" /\ <<"RECOVER">>[1] = "RECOVER"
    BY SmallTuples
  <2> QED
    BY <2>1
<1>4. Weight(<< >>) = 0 /\ Weight(<<"ALARM">>) = 1 /\ Weight(<<"RECOVER">>) = -1
  BY <1>3 DEF Weight
<1>5. Bit(TRUE) = 1 /\ Bit(FALSE) = 0
  BY DEF Bit
<1>6. PICK b \in BOOLEAN : b = f[r]
  BY <1>1
<1>7. PICK c \in BOOLEAN : c = (s.value > ScHi)
  BY <1>2
<1>8. CASE ~Matches(ScRules[r], s)
  <2>1. Edges(f, s, r) = << >>
    BY <1>8 DEF Edges
  <2>2. Bit(b) - Bit(b) = 0
    BY DEF Bit
  <2> QED
    BY <1>4, <1>6, <1>8, <2>1, <2>2 DEF Sayings
<1>9. CASE Matches(ScRules[r], s)
  <2>1. CASE b = c
    <3>1. Edges(f, s, r) = << >>
      BY <1>6, <1>7, <2>1 DEF Edges
    <3>2. Bit(c) - Bit(b) = 0
      BY <2>1 DEF Bit
    <3> QED
      BY <1>4, <1>6, <1>7, <1>9, <3>1, <3>2 DEF Sayings
  <2>2. CASE b # c /\ c
    <3>1. Edges(f, s, r) = <<"ALARM">>
      BY <1>6, <1>7, <1>9, <2>2 DEF Edges
    <3>2. c = TRUE /\ b = FALSE
      BY <2>2
    <3>3. Bit(c) - Bit(b) = 1
      <4>1. Bit(c) = 1 /\ Bit(b) = 0
        BY <3>2, Zenon DEF Bit
      <4> QED
        BY <4>1
    <3> QED
      BY <1>4, <1>6, <1>7, <1>9, <3>1, <3>3 DEF Sayings
  <2>3. CASE b # c /\ ~c
    <3>1. Edges(f, s, r) = <<"RECOVER">>
      BY <1>6, <1>7, <1>9, <2>3 DEF Edges
    <3>2. c = FALSE /\ b = TRUE
      BY <2>3
    <3>3. Bit(c) - Bit(b) = -1
      <4>1. Bit(c) = 0 /\ Bit(b) = 1
        BY <3>2, Zenon DEF Bit
      <4> QED
        BY <4>1
    <3> QED
      BY <1>4, <1>6, <1>7, <1>9, <3>1, <3>3 DEF Sayings
  <2> QED
    BY <2>1, <2>2, <2>3
<1> QED
  BY <1>8, <1>9

(* So does the edge of the flag.                                              *)
LEMMA FlagWeights ==
  ASSUME NEW before, before.alarm \in BOOLEAN, NEW s, s.alarm \in BOOLEAN
  PROVE  /\ FlagEdges(before, s) \in Sayings
         /\ Weight(FlagEdges(before, s)) = Bit(s.alarm) - Bit(before.alarm)
<1>1. PICK b \in BOOLEAN, c \in BOOLEAN : b = before.alarm /\ c = s.alarm
  OBVIOUS
<1>2. FlagEdges(before, s) = IF b = c THEN << >> ELSE <<IF c THEN "ALARM" ELSE "RECOVER">>
  BY <1>1 DEF FlagEdges
<1>3. <<"ALARM">> # <<"RECOVER">> /\ << >> # <<"ALARM">> /\ << >> # <<"RECOVER">>
  <2>1. <<"ALARM">>[1] = "ALARM" /\ <<"RECOVER">>[1] = "RECOVER"
    BY SmallTuples
  <2> QED
    BY <2>1
<1>4. Weight(<< >>) = 0 /\ Weight(<<"ALARM">>) = 1 /\ Weight(<<"RECOVER">>) = -1
  BY <1>3 DEF Weight
<1>5. CASE b = c
  <2>1. FlagEdges(before, s) = << >> /\ Bit(c) - Bit(b) = 0
    BY <1>2, <1>5 DEF Bit
  <2> QED
    BY <1>1, <1>4, <2>1 DEF Sayings
<1>6. CASE b # c /\ c
  <2>1. FlagEdges(before, s) = <<"ALARM">> /\ Bit(c) - Bit(b) = 1
    <3>1. Bit(c) = 1 /\ Bit(b) = 0
      BY <1>6, Zenon DEF Bit
    <3>2. FlagEdges(before, s) = <<"ALARM">>
      BY <1>2, <1>6, Zenon
    <3> QED
      BY <3>1, <3>2
  <2> QED
    BY <1>1, <1>4, <2>1 DEF Sayings
<1>7. CASE b # c /\ ~c
  <2>1. FlagEdges(before, s) = <<"RECOVER">> /\ Bit(c) - Bit(b) = -1
    <3>1. Bit(c) = 0 /\ Bit(b) = 1
      BY <1>7, Zenon DEF Bit
    <3>2. FlagEdges(before, s) = <<"RECOVER">>
      BY <1>2, <1>7, Zenon
    <3> QED
      BY <3>1, <3>2
  <2> QED
    BY <1>1, <1>4, <2>1 DEF Sayings
<1> QED
  BY <1>5, <1>6, <1>7

(* What a sample says, with the surplus of its edges.                         *)
EdgesOf(f, l, s) == Edges(f, s, 1) \o Edges(f, s, 2) \o FlagEdges(l[s.key], s)

FiringAfter(f, s) ==
  [r \in DOMAIN ScRules |-> IF Matches(ScRules[r], s) THEN s.value > ScHi ELSE f[r]]

(* The edges of a sample weigh what changes in the rules and the flag.        *)
LEMMA EdgesWeigh ==
  ASSUME NEW f \in [DOMAIN ScRules -> BOOLEAN], NEW l \in [Keys -> ScSample], NEW s, GoodSample(s)
  PROVE  /\ EdgesOf(f, l, s) \in Seq(Words)
         /\ Surplus(EdgesOf(f, l, s)) =
              (Bit(FiringAfter(f, s)[1]) - Bit(f[1])) + (Bit(FiringAfter(f, s)[2]) - Bit(f[2]))
                + (Bit(s.alarm) - Bit(l[s.key].alarm))
<1> DEFINE a == Edges(f, s, 1)
           b == Edges(f, s, 2)
           c == FlagEdges(l[s.key], s)
           x == Bit(FiringAfter(f, s)[1]) - Bit(f[1])
           y == Bit(FiringAfter(f, s)[2]) - Bit(f[2])
           z == Bit(s.alarm) - Bit(l[s.key].alarm)
<1>1. l[s.key].alarm \in BOOLEAN /\ s.alarm \in BOOLEAN
  BY DEF GoodSample, ScSample
<1>2. /\ FiringAfter(f, s)[1] = IF Matches(ScRules[1], s) THEN s.value > ScHi ELSE f[1]
      /\ FiringAfter(f, s)[2] = IF Matches(ScRules[2], s) THEN s.value > ScHi ELSE f[2]
  BY RulesAre DEF FiringAfter
<1>3. a \in Sayings /\ Weight(a) = x
  BY <1>2, EdgeWeights
<1>4. b \in Sayings /\ Weight(b) = y
  BY <1>2, EdgeWeights
<1>5. c \in Sayings /\ Weight(c) = z
  BY <1>1, FlagWeights
<1> HIDE DEF a, b, c, x, y, z
<1>6. \A e \in Sayings : e \in Seq(Words) /\ Weight(e) \in Int
  <2>1. << >> \in Seq(Words) /\ <<"ALARM">> \in Seq(Words) /\ <<"RECOVER">> \in Seq(Words)
    BY DEF Words
  <2>2. \A e : Weight(e) \in Int
    BY DEF Weight
  <2> QED
    BY <2>1, <2>2 DEF Sayings
<1>7. a \in Seq(Words) /\ << >> \in Seq(Words) /\ Surplus(<< >>) = 0 /\ << >> \o a = a
  BY <1>3, <1>6, QuietSurplus
<1>8. Surplus(<< >> \o a) = Surplus(<< >>) + Weight(a)
  BY <1>3, <1>7, EdgeAdds
<1>9. a \o b \in Seq(Words) /\ Surplus(a \o b) = Surplus(a) + Weight(b)
  BY <1>4, <1>7, EdgeAdds
<1>10. PICK ab \in Seq(Words) : ab = a \o b
  BY <1>9
<1>11. ab \o c \in Seq(Words) /\ Surplus(ab \o c) = Surplus(ab) + Weight(c)
  BY <1>5, EdgeAdds
<1>12. Weight(a) \in Int /\ Weight(b) \in Int /\ Weight(c) \in Int
  BY <1>3, <1>4, <1>5, <1>6
<1>13. Surplus(a) = Weight(a)
  BY <1>7, <1>8, <1>12
<1>14. Surplus((a \o b) \o c) = x + y + z
  BY <1>3, <1>4, <1>5, <1>9, <1>10, <1>11, <1>12, <1>13
<1> QED
  BY <1>10, <1>11, <1>14 DEF EdgesOf, a, b, c, x, y, z

Said(f, l, g, s) ==
  IF EdgesOf(f, l, s) = << >> /\ ShouldLog(g[s.key], s) THEN <<"VALUE">> ELSE EdgesOf(f, l, s)

Now(s) == [value |-> s.value, alarm |-> s.alarm, ts |-> s.ts]

(* What is said tells of the sample's node, so the last record of another     *)
(* node stays the last, and the last word is the last record of its own.      *)
LEMMA SpokenTells ==
  ASSUME NEW log \in Seq(ScRecord), NEW s, GoodSample(s), NEW said \in Seq(Words)
  PROVE  /\ \A k \in Keys : \A v : k # s.key /\ LastTells(log, k, v) =>
              LastTells(log \o Spoken(s, said), k, v)
         /\ said # << >> => LastTells(log \o Spoken(s, said), s.key, s.value)
<1> DEFINE t == Spoken(s, said)
           u == log \o t
           a == Len(log)
           b == Len(t)
<1>1. s.key \in {Flow1, Flow2, Env0} /\ s.key \in Keys
  BY KeysAre DEF GoodSample
<1>2. s.key = <<s.key[1], s.key[2]>>
  <2>1. \/ s.key = Flow1 \/ s.key = Flow2 \/ s.key = Env0
    BY <1>1
  <2> QED
    BY <2>1, KeysAre DEF Flow1, Flow2, Env0
<1>3. t \in Seq(ScRecord) /\ b = Len(said)
  BY <1>1, SpokenBalance
<1>4. \A i \in DOMAIN said : said[i] \in Words /\ DOMAIN said = 1 .. Len(said)
  OBVIOUS
<1>5. \A i \in 1 .. b : /\ t[i].event \in Words /\ t[i].value = s.value
                        /\ <<t[i].device, t[i].node>> = s.key
  BY <1>2, <1>3, <1>4 DEF Spoken
<1> HIDE DEF t
<1>6. /\ u \in Seq(ScRecord) /\ Len(u) = a + b /\ a \in Nat /\ b \in Nat
      /\ \A i \in 1 .. a : u[i] = log[i]
      /\ \A i \in 1 .. b : u[a + i] = t[i]
  <2>1. t \in Seq(ScRecord)
    BY <1>3
  <2> QED
    BY <2>1, ConcatShape
<1>7. DOMAIN log = 1 .. a /\ DOMAIN u = 1 .. a + b
  BY <1>6
<1>8. said # << >> => b >= 1
  BY <1>3
<1> HIDE DEF u, a, b
<1>9. ASSUME NEW i \in 1 .. a + b, i \notin 1 .. a
      PROVE  \E h \in 1 .. b : i = a + h
  <2>1. i - a \in 1 .. b /\ i = a + (i - a)
    BY <1>6, <1>9
  <2> QED
    BY <2>1
<1>10. ASSUME NEW k \in Keys, NEW v, k # s.key, LastTells(log, k, v)
       PROVE  LastTells(u, k, v)
  <2>1. PICK i \in 1 .. a : /\ Tells(log[i], k) /\ log[i].value = v
                            /\ \A j \in 1 .. a : Tells(log[j], k) => j <= i
    BY <1>7, <1>10 DEF LastTells
  <2>2. i \in 1 .. a + b /\ Tells(u[i], k) /\ u[i].value = v
    BY <1>6, <2>1
  <2>3. ASSUME NEW j \in 1 .. a + b, Tells(u[j], k) PROVE j <= i
    <3>1. CASE j \in 1 .. a
      BY <1>6, <2>1, <2>3, <3>1
    <3>2. CASE j \notin 1 .. a
      <4>1. PICK h \in 1 .. b : j = a + h
        BY <1>9, <3>2
      <4>2. <<u[j].device, u[j].node>> = s.key
        BY <1>5, <1>6, <4>1
      <4> QED
        BY <1>10, <2>3, <4>2 DEF Tells
    <3> QED
      BY <3>1, <3>2
  <2> QED
    BY <1>7, <2>2, <2>3 DEF LastTells
<1>11. ASSUME said # << >> PROVE LastTells(u, s.key, s.value)
  <2>1. b \in 1 .. b /\ a + b \in 1 .. a + b
    BY <1>6, <1>8, <1>11
  <2>2. Tells(u[a + b], s.key) /\ u[a + b].value = s.value
    BY <1>5, <1>6, <2>1 DEF Tells, Words
  <2>3. \A j \in 1 .. a + b : j <= a + b
    BY <1>6
  <2> QED
    BY <1>7, <2>1, <2>2, <2>3 DEF LastTells
<1> QED
  BY <1>10, <1>11 DEF u, t

(* A value that is not worth a record is near the last recorded one.          *)
LEMMA UnloggedIsNear ==
  ASSUME NEW last, last.value \in Int, NEW s, s.value \in Int, ~ShouldLog(last, s)
  PROVE  last.ts # -1 /\ Near(last.value, s.value)
<1>1. last.ts # -1
  BY DEF ShouldLog
<1>2. PICK x \in Int, y \in Int : x = last.value /\ y = s.value
  OBVIOUS
<1> DEFINE step == IF y > x THEN y - x ELSE x - y
<1>3. ~(step > 0 /\ 50 * step >= x)
  BY <1>2 DEF ShouldLog
<1>4. \A n \in {y - x, x - y} : n <= 0 \/ 50 * n < x
  BY <1>3
<1> QED
  BY <1>1, <1>2, <1>4 DEF Near

(* A sample leaves the aggregator in accord with the records.                 *)
LEMMA SampleKeeps ==
  ASSUME NEW f, NEW l, NEW g, NEW log, AggGood(f, l, g, log), NEW s, GoodSample(s),
         NEW said, said = Said(f, l, g, s), NEW f2, f2 = FiringAfter(f, s),
         NEW l2, l2 = [l EXCEPT ![s.key] = Now(s)],
         NEW g2, g2 = IF said = << >> THEN g ELSE [g EXCEPT ![s.key] = Now(s)]
  PROVE  said \in Seq(Words) /\ AggGood(f2, l2, g2, log \o Spoken(s, said))
<1> DEFINE t == Spoken(s, said)
           u == log \o t
           k0 == s.key
<1>1. /\ f \in [DOMAIN ScRules -> BOOLEAN] /\ l \in [Keys -> ScSample] /\ g \in [Keys -> ScSample]
      /\ log \in Seq(ScRecord) /\ AlarmsFit(f, l, log) /\ LogFits(l, g, log)
  BY DEF AggGood, AggTypes
<1>2. /\ k0 \in Keys /\ s.value \in Int /\ s.alarm \in BOOLEAN /\ s.ts \in Nat
      /\ s.alarm => k0 = Env0
  BY DEF GoodSample
<1>3. Now(s) \in ScSample /\ Now(s).value = s.value /\ Now(s).alarm = s.alarm /\ Now(s).ts = s.ts
  BY <1>2 DEF Now, ScSample
<1>4. /\ EdgesOf(f, l, s) \in Seq(Words)
      /\ Surplus(EdgesOf(f, l, s)) =
           (Bit(f2[1]) - Bit(f[1])) + (Bit(f2[2]) - Bit(f[2])) + (Bit(s.alarm) - Bit(l[k0].alarm))
  BY <1>1, EdgesWeigh
<1>5. said \in Seq(Words) /\ Surplus(said) = Surplus(EdgesOf(f, l, s))
  <2>1. CASE EdgesOf(f, l, s) = << >> /\ ShouldLog(g[s.key], s)
    BY <2>1, QuietSurplus DEF Said
  <2>2. CASE ~(EdgesOf(f, l, s) = << >> /\ ShouldLog(g[s.key], s))
    BY <1>4, <2>2 DEF Said
  <2> QED
    BY <2>1, <2>2
<1>6. /\ t \in Seq(ScRecord) /\ u \in Seq(ScRecord)
      /\ \A k \in Keys : BalanceIn(log, k) \in Int
      /\ \A k \in Keys : BalanceIn(u, k) =
           BalanceIn(log, k) + (IF k = k0 THEN Surplus(said) ELSE 0)
  <2>1. \A k \in Keys : /\ t \in Seq(ScRecord) /\ BalanceIn(log, k) \in Int
                        /\ BalanceIn(u, k) =
                             BalanceIn(log, k) + (IF k = k0 THEN Surplus(said) ELSE 0)
    BY <1>1, <1>5, SpokenBalance
  <2>2. t \in Seq(ScRecord)
    BY <1>2, <2>1
  <2>3. u \in Seq(ScRecord)
    BY <1>1, <2>2
  <2> QED
    BY <2>1, <2>2, <2>3
<1>7. /\ \A k \in Keys : \A v : k # k0 /\ LastTells(log, k, v) => LastTells(u, k, v)
      /\ said # << >> => LastTells(u, k0, s.value)
  BY <1>1, <1>5, SpokenTells
<1>8. said = << >> => u = log
  <2>1. ASSUME said = << >> PROVE t = << >>
    BY <2>1 DEF Spoken
  <2>2. log \o << >> = log
    BY <1>1
  <2> QED
    BY <2>1, <2>2
<1>9. /\ l2 \in [Keys -> ScSample] /\ l2[k0] = Now(s) /\ \A k \in Keys : k # k0 => l2[k] = l[k]
  BY <1>1, <1>2, <1>3
<1>10. /\ g2 \in [Keys -> ScSample] /\ \A k \in Keys : k # k0 => g2[k] = g[k]
       /\ said # << >> => g2[k0] = Now(s)
       /\ said = << >> => g2 = g
  BY <1>1, <1>2, <1>3
<1>11. /\ f2 \in [DOMAIN ScRules -> BOOLEAN]
       /\ f2[1] = IF k0 = Flow1 THEN s.value > ScHi ELSE f[1]
       /\ f2[2] = IF k0 # Env0 THEN s.value > ScHi ELSE f[2]
       /\ f[1] \in BOOLEAN /\ f[2] \in BOOLEAN /\ f2[1] \in BOOLEAN /\ f2[2] \in BOOLEAN
  <2>1. \A r \in DOMAIN ScRules :
          (IF Matches(ScRules[r], s) THEN s.value > ScHi ELSE f[r]) \in BOOLEAN
    <3>1. (s.value > ScHi) \in BOOLEAN
      OBVIOUS
    <3>2. \A r \in DOMAIN ScRules : f[r] \in BOOLEAN
      BY <1>1
    <3> QED
      BY <3>1, <3>2, Zenon
  <2>2. f2 \in [DOMAIN ScRules -> BOOLEAN]
    BY <2>1 DEF FiringAfter
  <2>3. DOMAIN ScRules = {1, 2}
    BY RulesAre
  <2>4. /\ f2[1] = IF Matches(ScRules[1], s) THEN s.value > ScHi ELSE f[1]
        /\ f2[2] = IF Matches(ScRules[2], s) THEN s.value > ScHi ELSE f[2]
    BY <2>3 DEF FiringAfter
  <2>5. f2[1] = IF k0 = Flow1 THEN s.value > ScHi ELSE f[1]
    BY <2>4, RulesAre
  <2>6. f2[2] = IF k0 # Env0 THEN s.value > ScHi ELSE f[2]
    BY <2>4, RulesAre
  <2>7. f[1] \in BOOLEAN /\ f[2] \in BOOLEAN /\ f2[1] \in BOOLEAN /\ f2[2] \in BOOLEAN
    BY <1>1, <2>2, <2>3
  <2> QED
    BY <2>2, <2>5, <2>6, <2>7
<1> HIDE DEF t, u
<1>12. AlarmsFit(f2, l2, u)
  <2>1. /\ ~l[Flow1].alarm /\ ~l[Flow2].alarm
        /\ BalanceIn(log, Env0) = Bit(l[Env0].alarm)
        /\ BalanceIn(log, Flow1) + BalanceIn(log, Flow2) = Bit(f[1]) + Bit(f[2])
        /\ f[1] <=> l[Flow1].value > ScHi
    BY <1>1 DEF AlarmsFit
  <2>2. /\ Flow1 \in Keys /\ Flow2 \in Keys /\ Env0 \in Keys /\ Flow1 # Flow2 /\ Flow1 # Env0
        /\ Flow2 # Env0 /\ k0 \in {Flow1, Flow2, Env0}
    BY <1>2, KeysAre
  <2>3. /\ BalanceIn(log, Flow1) \in Int /\ BalanceIn(log, Flow2) \in Int
        /\ BalanceIn(log, Env0) \in Int
    BY <1>6, <2>2
  <2>4. \A b : Bit(b) \in Int
    BY DEF Bit
  <2>5. CASE k0 = Env0
    <3>1. f2[1] = f[1] /\ f2[2] = f[2]
      BY <1>11, <2>2, <2>5
    <3>2. l2[Flow1] = l[Flow1] /\ l2[Flow2] = l[Flow2] /\ l2[Env0].alarm = s.alarm
      BY <1>3, <1>9, <2>2, <2>5
    <3>3. /\ BalanceIn(u, Flow1) = BalanceIn(log, Flow1) + 0
          /\ BalanceIn(u, Flow2) = BalanceIn(log, Flow2) + 0
          /\ BalanceIn(u, Env0) = BalanceIn(log, Env0) + Surplus(said)
      BY <1>6, <2>2, <2>5
    <3>4. Surplus(said) = Bit(s.alarm) - Bit(l[Env0].alarm)
      BY <1>4, <1>5, <2>4, <2>5, <3>1
    <3>5. BalanceIn(u, Env0) = Bit(l2[Env0].alarm)
      BY <2>1, <2>4, <3>2, <3>3, <3>4
    <3>6. BalanceIn(u, Flow1) + BalanceIn(u, Flow2) = Bit(f2[1]) + Bit(f2[2])
      BY <2>1, <2>3, <3>1, <3>3
    <3>7. ~l2[Flow1].alarm /\ ~l2[Flow2].alarm /\ (f2[1] <=> l2[Flow1].value > ScHi)
      BY <2>1, <3>1, <3>2
    <3> QED
      BY <3>5, <3>6, <3>7 DEF AlarmsFit
  <2>6. CASE k0 # Env0
    <3>0. k0 \in {Flow1, Flow2}
      BY <2>2, <2>6
    <3>1. s.alarm = FALSE
      BY <1>2, <2>6
    <3>2. l[k0].alarm = FALSE
      <4>1. l[k0].alarm \in BOOLEAN
        BY <1>1, <1>2 DEF ScSample
      <4>2. ~l[k0].alarm
        BY <2>1, <3>0
      <4> QED
        BY <4>1, <4>2
    <3>3. Bit(s.alarm) - Bit(l[k0].alarm) = 0
      <4>1. Bit(s.alarm) = Bit(l[k0].alarm)
        BY <3>1, <3>2
      <4>2. Bit(s.alarm) \in Int
        BY <2>4
      <4> QED
        BY <4>1, <4>2
    <3>4. Surplus(said) = (Bit(f2[1]) - Bit(f[1])) + (Bit(f2[2]) - Bit(f[2]))
      BY <1>4, <1>5, <2>4, <3>3
    <3>5. BalanceIn(u, Env0) = BalanceIn(log, Env0) + 0 /\ l2[Env0] = l[Env0]
      BY <1>6, <1>9, <2>2, <2>6
    <3>6. BalanceIn(u, Flow1) + BalanceIn(u, Flow2) =
            BalanceIn(log, Flow1) + BalanceIn(log, Flow2) + Surplus(said)
      <4>0. Surplus(said) \in Int
        BY <2>4, <3>4
      <4>1. CASE k0 = Flow1
        <5>1. /\ BalanceIn(u, Flow1) = BalanceIn(log, Flow1) + Surplus(said)
              /\ BalanceIn(u, Flow2) = BalanceIn(log, Flow2) + 0
          BY <1>6, <2>2, <4>1
        <5> QED
          BY <2>3, <4>0, <5>1
      <4>2. CASE k0 = Flow2
        <5>1. /\ BalanceIn(u, Flow2) = BalanceIn(log, Flow2) + Surplus(said)
              /\ BalanceIn(u, Flow1) = BalanceIn(log, Flow1) + 0
          BY <1>6, <2>2, <4>2
        <5> QED
          BY <2>3, <4>0, <5>1
      <4> QED
        BY <3>0, <4>1, <4>2
    <3>7. BalanceIn(u, Flow1) + BalanceIn(u, Flow2) = Bit(f2[1]) + Bit(f2[2])
      BY <2>1, <2>4, <3>4, <3>6
    <3>8. BalanceIn(u, Env0) = Bit(l2[Env0].alarm)
      BY <2>1, <2>3, <3>5
    <3>9. ~l2[Flow1].alarm /\ ~l2[Flow2].alarm
      BY <1>3, <1>9, <2>1, <2>2, <3>1
    <3>10. f2[1] <=> l2[Flow1].value > ScHi
      <4>1. CASE k0 = Flow1
        BY <1>3, <1>9, <1>11, <4>1
      <4>2. CASE k0 # Flow1
        <5>1. f2[1] = f[1]
          BY <1>11, <4>2
        <5>2. l2[Flow1] = l[Flow1]
          BY <1>9, <2>2, <4>2
        <5> QED
          BY <2>1, <5>1, <5>2
      <4> QED
        BY <4>1, <4>2
    <3> QED
      BY <3>7, <3>8, <3>9, <3>10 DEF AlarmsFit
  <2> QED
    BY <2>5, <2>6
<1>13. LogFits(l2, g2, u)
  <2> SUFFICES ASSUME NEW k \in Keys
               PROVE  /\ l2[k].ts # -1 => g2[k].ts # -1 /\ Near(g2[k].value, l2[k].value)
                      /\ g2[k].ts # -1 => LastTells(u, k, g2[k].value)
    BY DEF LogFits
  <2>1. /\ l[k].ts # -1 => g[k].ts # -1 /\ Near(g[k].value, l[k].value)
        /\ g[k].ts # -1 => LastTells(log, k, g[k].value)
    BY <1>1 DEF LogFits
  <2>2. CASE k # k0
    BY <1>7, <1>9, <1>10, <2>1, <2>2
  <2>3. CASE k = k0 /\ said # << >>
    <3>1. l2[k] = Now(s) /\ g2[k] = Now(s)
      BY <1>9, <1>10, <2>3
    <3>2. Near(s.value, s.value)
      BY <1>2 DEF Near
    <3>3. s.ts # -1
      BY <1>2
    <3> QED
      BY <1>3, <1>7, <2>3, <3>1, <3>2, <3>3
  <2>4. CASE k = k0 /\ said = << >>
    <3>1. ~ShouldLog(g[k0], s)
      <4>1. <<"VALUE">> # << >>
        BY SmallTuples
      <4> QED
        BY <2>4, <4>1 DEF Said
    <3>2. g[k0].value \in Int
      BY <1>1, <1>2 DEF ScSample
    <3>3. g[k0].ts # -1 /\ Near(g[k0].value, s.value)
      BY <1>2, <3>1, <3>2, UnloggedIsNear
    <3>4. g2 = g /\ u = log /\ l2[k] = Now(s)
      BY <1>8, <1>9, <1>10, <2>4
    <3> QED
      BY <1>3, <2>1, <2>4, <3>3, <3>4
  <2> QED
    BY <2>2, <2>3, <2>4
<1> QED
  BY <1>5, <1>6, <1>9, <1>10, <1>11, <1>12, <1>13 DEF AggGood, AggTypes, t, u

-----------------------------------------------------------------------------
(* The error records                                                          *)

(* What a record adds to the reported count k of d.                           *)
Part(r, d, k) == IF r.event = "ERROR" /\ r.device = d THEN r.value[k] ELSE 0

(* It is a number.                                                            *)
LEMMA PartIsNumber ==
  ASSUME NEW r \in ScRecord, NEW d, NEW k \in ErrorKinds
  PROVE  Part(r, d, k) \in Int
<1>1. CASE r \in [device : ScDevices, node : Nat, event : Words \cup {"IDENT"}, value : Int]
  <2>1. r.event # "ERROR"
    BY <1>1 DEF Words
  <2> QED
    BY <2>1 DEF Part
<1>2. CASE r \in [device : ScDevices, node : Nat, event : {"ERROR"}, value : [ErrorKinds -> Int]]
  <2>1. r.value \in [ErrorKinds -> Int]
    BY <1>2
  <2> QED
    BY <2>1 DEF Part
<1> QED
  BY <1>1, <1>2 DEF ScRecord

PartStep(log, d, k) ==
  [x \in Int \X (Nat \ {0}) |->
     IF x[2] \in 1 .. Len(log) THEN x[1] + Part(log[x[2]], d, k) ELSE x[1]]

(* Reported adds up the parts from the left.                                  *)
LEMMA ReportedFollows ==
  ASSUME NEW log \in Seq(ScRecord), NEW d, NEW k \in ErrorKinds
  PROVE  \E g : /\ g[0] = 0
                /\ \A j \in 1 .. Len(log) : g[j] = g[j - 1] + Part(log[j], d, k)
                /\ Reported(log, d, k) = g[Len(log)]
                /\ \A j \in 0 .. Len(log) : g[j] \in Int
<1> DEFINE n == Len(log)
           step == PartStep(log, d, k)
<1>0. n \in Nat
  OBVIOUS
<1>1. \A j \in 1 .. n : Part(log[j], d, k) \in Int
  BY PartIsNumber
<1>2. step \in [Int \X (Nat \ {0}) -> Int]
  <2> HIDE DEF n
  <2> SUFFICES ASSUME NEW x \in Int \X (Nat \ {0})
               PROVE  (IF x[2] \in 1 .. n THEN x[1] + Part(log[x[2]], d, k) ELSE x[1]) \in Int
    BY DEF PartStep, n
  <2> QED
    BY <1>1
<1>3. PICK z \in Int : z = 0
  OBVIOUS
<1>4. PICK g \in [0 .. n -> Int] : Follows(g, n, 0, step)
  <2> HIDE DEF step, n
  <2>1. \E g \in [0 .. n -> Int] : Follows(g, n, z, step)
    BY <1>0, <1>2, Recursion
  <2> QED
    BY <1>3, <2>1
<1>5. ASSUME NEW j \in 1 .. n PROVE g[j] = g[j - 1] + Part(log[j], d, k)
  <2>1. j - 1 \in 0 .. n /\ j \in Nat \ {0}
    <3> HIDE DEF n
    <3> QED
      BY <1>0
  <2>2. g[j - 1] \in Int
    BY <2>1
  <2>3. step[<<g[j - 1], j>>] = g[j - 1] + Part(log[j], d, k)
    BY <2>1, <2>2 DEF PartStep
  <2> HIDE DEF step
  <2> QED
    BY <1>4, <2>3 DEF Follows
<1> DEFINE F(f) == [i \in 0 .. n |->
                      IF i = 0 THEN 0
                      ELSE f[i - 1] + (IF log[i].event = "ERROR" /\ log[i].device = d
                                       THEN log[i].value[k] ELSE 0)]
           c == CHOOSE f : f = F(f)
<1>6. ASSUME NEW j \in 1 .. n, NEW f PROVE F(f)[j] = f[j - 1] + Part(log[j], d, k)
  <2>1. j \in 0 .. n /\ j # 0
    <3> HIDE DEF n
    <3> QED
      BY <1>0
  <2> QED
    BY <2>1 DEF Part
<1>7. ASSUME NEW f PROVE F(f)[0] = 0
  <2>1. 0 \in 0 .. n
    <3> HIDE DEF n
    <3> QED
      BY <1>0
  <2> QED
    BY <2>1
<1>8. \A f : F(f) = [j \in 0 .. n |-> F(f)[j]]
  OBVIOUS
<1>9. Reported(log, d, k) = c[n]
  BY DEF Reported
<1> HIDE DEF F, n
<1>10. g = F(g)
  <2>1. \A j \in 0 .. n : g[j] = F(g)[j]
    <3> SUFFICES ASSUME NEW j \in 0 .. n PROVE g[j] = F(g)[j]
      OBVIOUS
    <3>1. CASE j = 0
      BY <1>4, <1>7, <3>1 DEF Follows
    <3>2. CASE j # 0
      <4>1. j \in 1 .. n
        BY <1>0, <3>2
      <4> QED
        BY <1>5, <1>6, <4>1
    <3> QED
      BY <3>1, <3>2
  <2> QED
    BY <1>8, <2>1
<1>11. c = F(c)
  BY <1>10
<1> HIDE DEF c
<1>12. c[0] = 0
  BY <1>7, <1>11
<1>13. \A j \in 1 .. n : c[j] = c[j - 1] + Part(log[j], d, k)
  BY <1>6, <1>11
<1>14. \A j \in 0 .. n : c[j] \in Int
  <2> DEFINE T == {m \in Nat : m <= n => c[m] \in Int}
  <2>1. 0 \in T
    BY <1>12
  <2>2. ASSUME NEW m \in Nat, m \in T PROVE m + 1 \in T
    <3> SUFFICES ASSUME m + 1 <= n PROVE c[m + 1] \in Int
      OBVIOUS
    <3>1. m + 1 \in 1 .. n /\ (m + 1) - 1 = m /\ c[m] \in Int
      BY <1>0, <2>2
    <3>2. c[m + 1] = c[m] + Part(log[m + 1], d, k)
      BY <1>13, <3>1
    <3> QED
      BY <1>1, <3>1, <3>2
  <2>3. Nat \subseteq T
    <3> HIDE DEF T
    <3> QED
      BY <2>1, <2>2, NatSetInduction
  <2> QED
    BY <1>0, <2>3
<1> QED
  BY <1>9, <1>12, <1>13, <1>14 DEF n

(* One more record adds its part.                                             *)
LEMMA ReportedAppend ==
  ASSUME NEW log \in Seq(ScRecord), NEW r \in ScRecord, NEW d, NEW k \in ErrorKinds
  PROVE  /\ Reported(log, d, k) \in Int
         /\ Reported(Append(log, r), d, k) = Reported(log, d, k) + Part(r, d, k)
<1> DEFINE n == Len(log)
           t == Append(log, r)
<1>1. n \in Nat /\ t \in Seq(ScRecord) /\ Len(t) = n + 1 /\ t[n + 1] = r
      /\ \A i \in 1 .. n : t[i] = log[i]
  OBVIOUS
<1>2. PICK g : /\ g[0] = 0
               /\ \A j \in 1 .. n : g[j] = g[j - 1] + Part(log[j], d, k)
               /\ Reported(log, d, k) = g[n]
               /\ \A j \in 0 .. n : g[j] \in Int
  BY ReportedFollows
<1> HIDE DEF n, t
<1>3. PICK h : /\ h[0] = 0
               /\ \A j \in 1 .. Len(t) : h[j] = h[j - 1] + Part(t[j], d, k)
               /\ Reported(t, d, k) = h[Len(t)]
  <2>1. t \in Seq(ScRecord)
    BY <1>1
  <2> QED
    BY <2>1, ReportedFollows
<1> DEFINE T == {m \in Nat : m <= n => g[m] = h[m]}
<1>4. 0 \in T
  BY <1>2, <1>3
<1>5. ASSUME NEW m \in Nat, m \in T PROVE m + 1 \in T
  <2> SUFFICES ASSUME m + 1 <= n PROVE g[m + 1] = h[m + 1]
    OBVIOUS
  <2>1. m + 1 \in 1 .. n /\ m + 1 \in 1 .. Len(t) /\ (m + 1) - 1 = m /\ g[m] = h[m]
    BY <1>1, <1>5
  <2>2. g[m + 1] = g[m] + Part(log[m + 1], d, k)
    BY <1>2, <2>1
  <2>3. h[m + 1] = h[m] + Part(t[m + 1], d, k)
    BY <1>3, <2>1
  <2>4. t[m + 1] = log[m + 1]
    BY <1>1, <2>1
  <2> QED
    BY <2>1, <2>2, <2>3, <2>4
<1>6. Nat \subseteq T
  <2> HIDE DEF T
  <2> QED
    BY <1>4, <1>5, NatSetInduction
<1>7. g[n] = h[n]
  BY <1>1, <1>6
<1>8. n + 1 \in 1 .. Len(t) /\ (n + 1) - 1 = n /\ n \in 0 .. n
  BY <1>1
<1>9. h[n + 1] = h[n] + Part(t[n + 1], d, k)
  BY <1>3, <1>8
<1>10. Reported(t, d, k) = Reported(log, d, k) + Part(r, d, k)
  BY <1>1, <1>2, <1>3, <1>7, <1>9
<1>11. Reported(log, d, k) \in Int
  BY <1>2, <1>8
<1> QED
  BY <1>10, <1>11 DEF t

(* No error record in t.                                                      *)
NoError(t) == \A i \in DOMAIN t : t[i].event # "ERROR"

(* Other records add nothing.                                                 *)
LEMMA ReportedQuiet ==
  ASSUME NEW log \in Seq(ScRecord), NEW t \in Seq(ScRecord), NoError(t), NEW d, NEW k \in ErrorKinds
  PROVE  Reported(log \o t, d, k) = Reported(log, d, k)
<1> DEFINE n == Len(t)
           G(m) == log \o SubSeq(t, 1, m)
           T == {m \in Nat : m <= n => Reported(G(m), d, k) = Reported(log, d, k)}
<1>1. n \in Nat /\ DOMAIN t = 1 .. n /\ \A i \in 1 .. n : t[i] \in ScRecord
  OBVIOUS
<1>2. /\ G(0) = log /\ G(n) = log \o t
      /\ \A m \in 0 .. n : G(m) \in Seq(ScRecord)
      /\ \A m \in Nat : m + 1 <= n => G(m + 1) = Append(G(m), t[m + 1])
  BY SubSeqGrow
<1>3. Reported(log, d, k) \in Int
  BY ReportedFollows, <1>1
<1> HIDE DEF n, G
<1>4. 0 \in T
  BY <1>2
<1>5. ASSUME NEW m \in Nat, m \in T PROVE m + 1 \in T
  <2> SUFFICES ASSUME m + 1 <= n PROVE Reported(G(m + 1), d, k) = Reported(log, d, k)
    OBVIOUS
  <2>1. m + 1 \in 1 .. n /\ m \in 0 .. n /\ Reported(G(m), d, k) = Reported(log, d, k)
    BY <1>1, <1>5
  <2>2. t[m + 1] \in ScRecord /\ Part(t[m + 1], d, k) = 0
    BY <1>1, <2>1 DEF NoError, Part
  <2>3. G(m) \in Seq(ScRecord) /\ G(m + 1) = Append(G(m), t[m + 1])
    BY <1>2, <2>1
  <2>4. PICK a \in Seq(ScRecord), r \in ScRecord : a = G(m) /\ r = t[m + 1]
    BY <2>2, <2>3
  <2>5. Reported(a, d, k) \in Int /\ Reported(Append(a, r), d, k) = Reported(a, d, k) + Part(r, d, k)
    BY ReportedAppend
  <2> QED
    <3>1. Reported(G(m + 1), d, k) = Reported(a, d, k) + Part(r, d, k)
      BY <2>3, <2>4, <2>5
    <3>2. Part(r, d, k) = 0 /\ Reported(a, d, k) = Reported(log, d, k)
      BY <2>1, <2>2, <2>4
    <3> QED
      BY <1>3, <3>1, <3>2
<1>6. Nat \subseteq T
  <2> HIDE DEF T
  <2> QED
    BY <1>4, <1>5, NatSetInduction
<1>7. n \in T
  BY <1>1, <1>6
<1>8. Reported(G(n), d, k) = Reported(log, d, k)
  BY <1>1, <1>7
<1> QED
  BY <1>2, <1>8

(* What the counters of d have grown by since the last report.                *)
Delta(d) == [k \in ErrorKinds |-> scCounters[d][k] - previous[d][k]]

(* An error record adds what the counters have grown by.                      *)
LEMMA ErrorAdds ==
  ASSUME NEW log \in Seq(ScRecord), NEW d \in ScDevices, Delta(d) \in [ErrorKinds -> Int]
  PROVE  /\ ErrorRecord(d) \in Seq(ScRecord)
         /\ \A i \in DOMAIN ErrorRecord(d) : ErrorRecord(d)[i].event = "ERROR"
         /\ \A e \in ScDevices, k \in ErrorKinds :
              Reported(log \o ErrorRecord(d), e, k) =
                Reported(log, e, k) + (IF e = d THEN Delta(d)[k] ELSE 0)
<1> DEFINE r == [device |-> d, node |-> 0, event |-> "ERROR", value |-> Delta(d)]
<1>1. ErrorRecord(d) = IF Delta(d) = ZeroCounts THEN << >> ELSE <<r>>
  BY DEF ErrorRecord, Delta
<1>2. r \in ScRecord /\ r.event = "ERROR" /\ r.device = d /\ r.value = Delta(d)
  BY DEF ScRecord
<1> HIDE DEF r
<1>3. \A e, k : Part(r, e, k) = IF e = d THEN Delta(d)[k] ELSE 0
  BY <1>2 DEF Part
<1>4. \A e : \A k \in ErrorKinds : Reported(log, e, k) \in Int
  BY <1>2, ReportedAppend
<1>5. CASE Delta(d) = ZeroCounts
  <2>1. ErrorRecord(d) = << >> /\ << >> \in Seq(ScRecord) /\ DOMAIN << >> = {}
    BY <1>1, <1>5
  <2>2. log \o << >> = log
    OBVIOUS
  <2>3. \A k \in ErrorKinds : Delta(d)[k] = 0
    BY <1>5 DEF ZeroCounts
  <2> QED
    BY <1>4, <2>1, <2>2, <2>3
<1>6. CASE Delta(d) # ZeroCounts
  <2>1. ErrorRecord(d) = <<r>> /\ <<r>> \in Seq(ScRecord)
    BY <1>1, <1>2, <1>6
  <2>2. log \o <<r>> = Append(log, r)
    BY <1>2, AppendIsConcat
  <2>3. ASSUME NEW e \in ScDevices, NEW k \in ErrorKinds
        PROVE  Reported(Append(log, r), e, k) = Reported(log, e, k) + (IF e = d THEN Delta(d)[k] ELSE 0)
    <3>1. Reported(Append(log, r), e, k) = Reported(log, e, k) + Part(r, e, k)
      BY <1>2, ReportedAppend
    <3> QED
      BY <1>3, <3>1
  <2>4. DOMAIN <<r>> = {1} /\ <<r>>[1] = r
    BY SmallTuples
  <2> QED
    BY <1>2, <2>1, <2>2, <2>3, <2>4
<1> QED
  BY <1>5, <1>6

(* t says nothing of alarms and values.                                       *)
Wordless(t) == \A i \in DOMAIN t : t[i].event \notin Words

(* Such records leave the balances and the last words alone.                  *)
LEMMA WordlessKeeps ==
  ASSUME NEW f, NEW l, NEW g, NEW log, AggGood(f, l, g, log), NEW t \in Seq(ScRecord), Wordless(t)
  PROVE  AggGood(f, l, g, log \o t)
<1> DEFINE u == log \o t
           a == Len(log)
           b == Len(t)
<1>1. log \in Seq(ScRecord) /\ AggTypes(f, l, g) /\ AlarmsFit(f, l, log) /\ LogFits(l, g, log)
  BY DEF AggGood
<1>2. /\ u \in Seq(ScRecord) /\ Len(u) = a + b /\ a \in Nat /\ b \in Nat
      /\ \A i \in 1 .. a : u[i] = log[i]
      /\ \A i \in 1 .. b : u[a + i] = t[i]
  BY <1>1, ConcatShape
<1>3. DOMAIN log = 1 .. a /\ DOMAIN u = 1 .. a + b /\ DOMAIN t = 1 .. b
  BY <1>1, <1>2
<1>4. ASSUME NEW k, NEW event \in {"ALARM", "RECOVER"}
      PROVE  Cardinality(Hits(u, k, event)) = Cardinality(Hits(log, k, event))
  <2>1. Hits(t, k, event) = {}
    BY DEF Hits, Wordless, Words
  <2>2. Cardinality(Hits(t, k, event)) = 0
    BY <2>1, FS_EmptySet
  <2>3. /\ Cardinality(Hits(u, k, event)) =
             Cardinality(Hits(log, k, event)) + Cardinality(Hits(t, k, event))
        /\ Cardinality(Hits(log, k, event)) \in Nat
    BY <1>1, HitsConcat, HitsFinite
  <2> QED
    BY <2>2, <2>3
<1>5. \A k : BalanceIn(u, k) = BalanceIn(log, k)
  BY <1>4 DEF BalanceIn
<1>6. AlarmsFit(f, l, u)
  BY <1>1, <1>5 DEF AlarmsFit
<1> HIDE DEF u, a, b
<1>7. ASSUME NEW k, NEW v, LastTells(log, k, v) PROVE LastTells(u, k, v)
  <2>1. PICK i \in 1 .. a : /\ Tells(log[i], k) /\ log[i].value = v
                            /\ \A j \in 1 .. a : Tells(log[j], k) => j <= i
    BY <1>3, <1>7 DEF LastTells
  <2>2. i \in 1 .. a + b /\ Tells(u[i], k) /\ u[i].value = v
    BY <1>2, <2>1
  <2>3. ASSUME NEW j \in 1 .. a + b, Tells(u[j], k) PROVE j <= i
    <3>1. CASE j \in 1 .. a
      BY <1>2, <2>1, <2>3, <3>1
    <3>2. CASE j \notin 1 .. a
      <4>1. j - a \in 1 .. b /\ j = a + (j - a)
        BY <1>2, <3>2
      <4>2. u[j].event \notin Words
        BY <1>2, <1>3, <4>1 DEF Wordless
      <4> QED
        BY <2>3, <4>2 DEF Tells, Words
    <3> QED
      BY <3>1, <3>2
  <2> QED
    BY <1>3, <2>2, <2>3 DEF LastTells
<1>8. LogFits(l, g, u)
  BY <1>1, <1>7 DEF LogFits
<1> QED
  BY <1>1, <1>2, <1>6, <1>8 DEF AggGood, u

-----------------------------------------------------------------------------
(* One event                                                                  *)

IdentEvent(d) == [NoEvent EXCEPT !.kind = "ident", !.device = d]

SampleEvents(d) ==
  [kind : {"samples"}, device : {d}, values : [1 .. Len(ScNodes[d]) -> Int],
   alarm : {a \in BOOLEAN : a => d = "env"}, ts : Nat]

ScEvent ==
  {NoEvent} \cup {IdentEvent(d) : d \in ScDevices} \cup UNION {SampleEvents(d) : d \in ScDevices}

(* What the kind of an event says of it.                                      *)
LEMMA EventShape ==
  ASSUME NEW e \in ScEvent
  PROVE  /\ e.kind = "ident" => e.device \in ScDevices
         /\ e.kind = "samples" => e.device \in ScDevices /\ e \in SampleEvents(e.device)
<1>1. CASE e = NoEvent
  BY <1>1 DEF NoEvent
<1>2. CASE \E d \in ScDevices : e = IdentEvent(d)
  <2>1. PICK d \in ScDevices : e = IdentEvent(d)
    BY <1>2
  <2>2. e.kind = "ident" /\ e.device = d
    BY <2>1 DEF IdentEvent, NoEvent
  <2> QED
    BY <2>2
<1>3. CASE \E d \in ScDevices : e \in SampleEvents(d)
  <2>1. PICK d \in ScDevices : e \in SampleEvents(d)
    BY <1>3
  <2>2. e.kind = "samples" /\ e.device = d
    BY <2>1 DEF SampleEvents
  <2> QED
    BY <2>1, <2>2
<1> QED
  BY <1>1, <1>2, <1>3 DEF ScEvent

(* The sample of node i in event e.                                           *)
SampleOf(e, i) ==
  [key |-> <<e.device, ScNodes[e.device][i]>>, value |-> e.values[i], alarm |-> e.alarm, ts |-> e.ts]

(* The samples of an event are samples.                                       *)
LEMMA SamplesGood ==
  ASSUME NEW e, e.device \in ScDevices, e \in SampleEvents(e.device)
  PROVE  /\ e.device = "flow" => Len(ScNodes["flow"]) = 2 /\ GoodSample(SampleOf(e, 1))
                                                          /\ GoodSample(SampleOf(e, 2))
         /\ e.device = "env" => Len(ScNodes["env"]) = 1 /\ GoodSample(SampleOf(e, 1))
<1>1. /\ ScNodes["flow"] = <<1, 2>> /\ ScNodes["env"] = <<0>>
      /\ Len(ScNodes["flow"]) = 2 /\ Len(ScNodes["env"]) = 1
  BY DEF ScNodes
<1>2. /\ <<1, 2>>[1] = 1 /\ <<1, 2>>[2] = 2 /\ <<0>>[1] = 0
  BY SmallTuples
<1>3. /\ e.values \in [1 .. Len(ScNodes[e.device]) -> Int] /\ e.alarm \in BOOLEAN
      /\ e.alarm => e.device = "env"
      /\ e.ts \in Nat
  BY DEF SampleEvents
<1>4. CASE e.device = "flow"
  <2>1. e.values[1] \in Int /\ e.values[2] \in Int /\ ~e.alarm
    BY <1>1, <1>3, <1>4
  <2>2. SampleOf(e, 1).key = Flow1 /\ SampleOf(e, 2).key = Flow2
    BY <1>1, <1>2, <1>4 DEF SampleOf, Flow1, Flow2
  <2>3. Flow1 \in Keys /\ Flow2 \in Keys
    BY KeysAre
  <2>4. GoodSample(SampleOf(e, 1))
    BY <1>3, <2>1, <2>2, <2>3 DEF GoodSample, SampleOf
  <2>5. GoodSample(SampleOf(e, 2))
    BY <1>3, <2>1, <2>2, <2>3 DEF GoodSample, SampleOf
  <2> QED
    BY <1>1, <1>4, <2>4, <2>5
<1>5. CASE e.device = "env"
  <2>1. e.values[1] \in Int
    BY <1>1, <1>3, <1>5
  <2>2. SampleOf(e, 1).key = Env0
    BY <1>1, <1>2, <1>5 DEF SampleOf, Env0
  <2>3. Env0 \in Keys
    BY KeysAre
  <2>4. GoodSample(SampleOf(e, 1))
    BY <1>3, <2>1, <2>2, <2>3 DEF GoodSample, SampleOf
  <2> QED
    BY <1>1, <1>5, <2>4
<1> QED
  BY <1>4, <1>5 DEF ScDevices

Start == [firing |-> firing, latest |-> latest, logged |-> logged, records |-> << >>]

(* Ingest takes the samples of an event one after the other.                  *)
LEMMA IngestUnfolds ==
  ASSUME NEW e, e.device \in ScDevices
  PROVE  /\ e.device = "flow" /\ Len(ScNodes["flow"]) = 2 =>
              Ingest(e) = IngestSample(IngestSample(Start, SampleOf(e, 1)), SampleOf(e, 2))
         /\ e.device = "env" /\ Len(ScNodes["env"]) = 1 =>
              Ingest(e) = IngestSample(Start, SampleOf(e, 1))
<1> DEFINE n == Len(ScNodes[e.device])
           F(f) == [i \in 0 .. n |-> IF i = 0 THEN Start ELSE IngestSample(f[i - 1], SampleOf(e, i))]
           c == CHOOSE f : f = F(f)
           s1 == IngestSample(Start, SampleOf(e, 1))
           s2 == IngestSample(s1, SampleOf(e, 2))
           g == [i \in 0 .. n |-> IF i = 0 THEN Start ELSE IF i = 1 THEN s1 ELSE s2]
<1>1. Ingest(e) = c[n]
  BY DEF Ingest, SampleOf, Start
<1> HIDE DEF s1, s2
<1>2. ASSUME n \in {1, 2} PROVE g = F(g)
  <2>1. ASSUME NEW i \in 0 .. n PROVE g[i] = F(g)[i]
    <3>1. CASE i = 0
      BY <1>2, <3>1
    <3>2. CASE i = 1
      <4>1. g[0] = Start /\ g[1] = s1 /\ F(g)[1] = IngestSample(g[1 - 1], SampleOf(e, 1))
        BY <1>2, <3>2
      <4>2. 1 - 1 = 0
        OBVIOUS
      <4> QED
        BY <3>2, <4>1, <4>2 DEF s1
    <3>3. CASE i = 2
      <4>1. g[1] = s1 /\ g[2] = s2 /\ F(g)[2] = IngestSample(g[2 - 1], SampleOf(e, 2))
        BY <1>2, <3>3
      <4>2. 2 - 1 = 1
        OBVIOUS
      <4> QED
        BY <3>3, <4>1, <4>2 DEF s2
    <3>4. i \in {0, 1, 2}
      <4> HIDE DEF n
      <4> QED
        BY <1>2
    <3> QED
      BY <3>1, <3>2, <3>3, <3>4
  <2>2. F(g) = [i \in 0 .. n |-> F(g)[i]] /\ g = [i \in 0 .. n |-> g[i]]
    OBVIOUS
  <2> HIDE DEF F, g
  <2> QED
    BY <2>1, <2>2
<1>3. ASSUME n \in {1, 2} PROVE c = F(c)
  <2> HIDE DEF F, g
  <2> QED
    BY <1>2, <1>3
<1>4. ASSUME n \in {1, 2} PROVE c[0] = Start /\ c[1] = s1
  <2>1. F(c)[0] = Start /\ F(c)[1] = IngestSample(c[1 - 1], SampleOf(e, 1))
    <3> HIDE DEF c
    <3> QED
      BY <1>4
  <2> HIDE DEF F, c
  <2>2. c[0] = Start /\ c[1] = IngestSample(c[1 - 1], SampleOf(e, 1)) /\ 1 - 1 = 0
    BY <1>3, <1>4, <2>1
  <2> QED
    BY <2>2 DEF s1
<1>5. ASSUME n = 2 PROVE c[2] = s2
  <2>1. F(c)[2] = IngestSample(c[2 - 1], SampleOf(e, 2))
    <3> HIDE DEF c
    <3> QED
      BY <1>5
  <2> HIDE DEF F, c
  <2>2. c[2] = IngestSample(c[2 - 1], SampleOf(e, 2)) /\ 2 - 1 = 1
    BY <1>3, <1>5, <2>1
  <2>3. c[1] = s1
    BY <1>4, <1>5
  <2> QED
    BY <2>2, <2>3 DEF s2
<1> HIDE DEF c
<1>6. ASSUME e.device = "flow", Len(ScNodes["flow"]) = 2 PROVE Ingest(e) = s2
  <2>1. n = 2
    BY <1>6
  <2> QED
    BY <1>1, <1>5, <2>1
<1>7. ASSUME e.device = "env", Len(ScNodes["env"]) = 1 PROVE Ingest(e) = s1
  <2>1. n = 1
    BY <1>7
  <2> QED
    BY <1>1, <1>4, <2>1
<1> QED
  BY <1>6, <1>7 DEF s1, s2

(* One sample, with the records of the samples before it.                     *)
StepGood(agg) ==
  /\ agg.records \in Seq(ScRecord) /\ NoError(agg.records)
  /\ AggGood(agg.firing, agg.latest, agg.logged, made \o agg.records)

(* A sample keeps that.                                                       *)
LEMMA SampleStep ==
  ASSUME NEW agg, StepGood(agg), NEW s, GoodSample(s), made \in Seq(ScRecord)
  PROVE  StepGood(IngestSample(agg, s))
<1> DEFINE b == IngestSample(agg, s)
           log == made \o agg.records
<1>1. PICK said : said = Said(agg.firing, agg.latest, agg.logged, s)
  OBVIOUS
<1>2. /\ b.firing = FiringAfter(agg.firing, s)
      /\ b.latest = [agg.latest EXCEPT ![s.key] = Now(s)]
      /\ b.logged = IF said = << >> THEN agg.logged ELSE [agg.logged EXCEPT ![s.key] = Now(s)]
      /\ b.records = agg.records \o Spoken(s, said)
  BY <1>1 DEF IngestSample, FiringAfter, Now, Spoken, Said, EdgesOf, LastLogged
<1> HIDE DEF b
<1>3. /\ agg.records \in Seq(ScRecord) /\ NoError(agg.records)
      /\ AggGood(agg.firing, agg.latest, agg.logged, log)
  BY DEF StepGood
<1> HIDE DEF log
<1>4. PICK f, l, g : f = agg.firing /\ l = agg.latest /\ g = agg.logged
  OBVIOUS
<1>5. AggGood(f, l, g, log) /\ said = Said(f, l, g, s)
  BY <1>1, <1>3, <1>4
<1>6. PICK f2, l2, g2 : f2 = b.firing /\ l2 = b.latest /\ g2 = b.logged
  OBVIOUS
<1>7. /\ f2 = FiringAfter(f, s) /\ l2 = [l EXCEPT ![s.key] = Now(s)]
      /\ g2 = IF said = << >> THEN g ELSE [g EXCEPT ![s.key] = Now(s)]
  BY <1>2, <1>4, <1>6
<1>8. said \in Seq(Words) /\ AggGood(f2, l2, g2, log \o Spoken(s, said))
  BY <1>5, <1>7, SampleKeeps
<1>9. Spoken(s, said) \in Seq(ScRecord) /\ Len(Spoken(s, said)) = Len(said)
  <2>1. log \in Seq(ScRecord)
    BY <1>5 DEF AggGood
  <2>2. Env0 \in Keys
    BY KeysAre
  <2> QED
    BY <1>8, <2>1, <2>2, SpokenBalance
<1>10. PICK t \in Seq(ScRecord) : t = Spoken(s, said)
  BY <1>9
<1>11. log \o t = made \o b.records
  <2>1. PICK r \in Seq(ScRecord) : r = agg.records
    BY <1>3
  <2>2. (made \o r) \o t = made \o (r \o t)
    BY ConcatAssociative
  <2> QED
    BY <1>2, <1>10, <2>1, <2>2 DEF log
<1>12. b.records \in Seq(ScRecord)
  BY <1>2, <1>3, <1>10
<1>13. \A i \in DOMAIN t : t[i].event # "ERROR"
  <2>1. DOMAIN t = DOMAIN said /\ \A i \in DOMAIN said : t[i].event = said[i] /\ said[i] \in Words
    BY <1>8, <1>10 DEF Spoken
  <2> QED
    BY <2>1 DEF Words
<1>14. NoError(b.records)
  <2> DEFINE r == agg.records
             m == Len(r)
  <2>1. /\ Len(r \o t) = m + Len(t) /\ m \in Nat /\ Len(t) \in Nat
        /\ \A i \in 1 .. m : (r \o t)[i] = r[i]
        /\ \A i \in 1 .. Len(t) : (r \o t)[m + i] = t[i]
    BY <1>3, ConcatShape
  <2>2. DOMAIN r = 1 .. m /\ DOMAIN t = 1 .. Len(t) /\ DOMAIN (r \o t) = 1 .. m + Len(t)
    BY <1>3, <2>1
  <2>3. b.records = r \o t
    BY <1>2, <1>10
  <2> HIDE DEF r, m
  <2> SUFFICES ASSUME NEW i \in 1 .. m + Len(t) PROVE (r \o t)[i].event # "ERROR"
    BY <2>2, <2>3 DEF NoError
  <2>4. CASE i \in 1 .. m
    BY <1>3, <2>1, <2>2, <2>4 DEF NoError, r
  <2>5. CASE i \notin 1 .. m
    <3>1. i - m \in 1 .. Len(t) /\ m + (i - m) = i
      BY <2>1, <2>5
    <3>2. (r \o t)[i] = t[i - m]
      BY <2>1, <3>1
    <3> QED
      BY <1>13, <2>2, <3>1, <3>2
  <2> QED
    BY <2>4, <2>5
<1>15. AggGood(b.firing, b.latest, b.logged, made \o b.records)
  BY <1>6, <1>8, <1>10, <1>11
<1> QED
  BY <1>12, <1>14, <1>15 DEF StepGood, b

(* An event keeps the aggregator in accord with the records.                  *)
LEMMA IngestGood ==
  ASSUME NEW e, e.device \in ScDevices, e \in SampleEvents(e.device), made \in Seq(ScRecord),
         AggGood(firing, latest, logged, made)
  PROVE  StepGood(Ingest(e))
<1>1. StepGood(Start)
  <2>1. /\ Start.firing = firing /\ Start.latest = latest /\ Start.logged = logged
        /\ Start.records = << >>
    BY DEF Start
  <2>2. << >> \in Seq(ScRecord) /\ made \o << >> = made /\ DOMAIN << >> = {}
    OBVIOUS
  <2> QED
    BY <2>1, <2>2 DEF StepGood, NoError
<1>2. CASE e.device = "flow"
  <2>1. /\ GoodSample(SampleOf(e, 1)) /\ GoodSample(SampleOf(e, 2)) /\ Len(ScNodes["flow"]) = 2
    BY <1>2, SamplesGood
  <2>2. Ingest(e) = IngestSample(IngestSample(Start, SampleOf(e, 1)), SampleOf(e, 2))
    BY <1>2, <2>1, IngestUnfolds
  <2>3. PICK a, s, z : a = IngestSample(Start, SampleOf(e, 1)) /\ s = SampleOf(e, 2) /\ z = SampleOf(e, 1)
    OBVIOUS
  <2>4. StepGood(a)
    BY <1>1, <2>1, <2>3, SampleStep
  <2>5. StepGood(IngestSample(a, s))
    BY <2>1, <2>3, <2>4, SampleStep
  <2> QED
    BY <2>2, <2>3, <2>5
<1>3. CASE e.device = "env"
  <2>1. GoodSample(SampleOf(e, 1)) /\ Len(ScNodes["env"]) = 1
    BY <1>3, SamplesGood
  <2>2. Ingest(e) = IngestSample(Start, SampleOf(e, 1))
    BY <1>3, <2>1, IngestUnfolds
  <2>3. StepGood(IngestSample(Start, SampleOf(e, 1)))
    BY <1>1, <2>1, SampleStep
  <2> QED
    BY <2>2, <2>3
<1> QED
  BY <1>2, <1>3 DEF ScDevices

-----------------------------------------------------------------------------
(* The inductive invariant                                                    *)

ThreadTypes ==
  /\ dev \in [ScDevices -> {"open", "backoff", "ident", "send", "poll", "done"}]
  /\ pollErrs \in [ScDevices -> 0 .. MaxPollErrors]
  /\ \A d \in ScDevices : dev[d] \in {"send", "poll"} => pollErrs[d] < MaxPollErrors
  /\ scCounters \in [ScDevices -> [ErrorKinds -> Nat]]
  /\ pending \in [ScDevices -> ScEvent] /\ scClock \in Nat

QueueTypes ==
  /\ events \in Seq(ScEvent) /\ Len(events) <= EventQueue
  /\ scMain \in {"run", "joining", "stopped"}

(* What the poster has, against the records made.                             *)
PosterFits ==
  made \in Seq(ScRecord) /\ Accounted(posted, retry, scDropped, Len(made), made)

AggregatorFits == AggGood(firing, latest, logged, made)

ErrorsFit ==
  /\ previous \in [ScDevices -> [ErrorKinds -> Nat]]
  /\ ErrorsReportedOnce

RecordsInv == ThreadTypes /\ QueueTypes /\ PosterFits /\ AggregatorFits /\ ErrorsFit

(* The records made grow by t.                                                *)
Grows(t) == t \in Seq(ScRecord) /\ Post(t)

(* A post keeps the poster's account.                                         *)
LEMMA PosterKeeps ==
  ASSUME PosterFits, NEW t, Grows(t)
  PROVE  PosterFits' /\ made' = made \o t
<1> DEFINE m == Len(made)
           r == Len(t)
<1>1. /\ made \in Seq(ScRecord) /\ t \in Seq(ScRecord) /\ made' = made \o t
      /\ Accounted(posted, retry, scDropped, m, made)
  BY DEF PosterFits, Grows, Post
<1>2. PICK n \in 0 .. Len(retry) + r :
        LET out == retry \o [i \in 1 .. r |-> m + i]
            left == SubSeq(out, n + 1, Len(out))
        IN  /\ posted' = posted \o SubSeq(out, 1, n)
            /\ retry' = Keep(left, made')
            /\ scDropped' = scDropped + Len(left) - Len(retry')
  BY DEF Grows, Post
<1>3. PICK out : out = retry \o NewIds(m, r)
  OBVIOUS
<1>4. PICK left : left = SubSeq(out, n + 1, Len(out))
  OBVIOUS
<1>5. /\ posted' = posted \o SubSeq(out, 1, n)
      /\ retry' = Keep(left, made')
      /\ scDropped' = scDropped + Len(left) - Len(retry')
  <2>1. out = retry \o [i \in 1 .. r |-> m + i]
    BY <1>3 DEF NewIds
  <2>2. PICK ids : ids = [i \in 1 .. r |-> m + i]
    OBVIOUS
  <2>3. /\ posted' = posted \o SubSeq(retry \o ids, 1, n)
        /\ retry' = Keep(SubSeq(retry \o ids, n + 1, Len(retry \o ids)), made')
        /\ scDropped' = scDropped + Len(SubSeq(retry \o ids, n + 1, Len(retry \o ids)))
                          - Len(retry')
    BY <1>2, <2>2
  <2> QED
    BY <1>4, <2>1, <2>2, <2>3
<1>6. PICK log \in Seq(ScRecord) : log = made'
  <2>1. made \in Seq(ScRecord) /\ t \in Seq(ScRecord)
    BY <1>1
  <2>2. made \o t \in Seq(ScRecord)
    BY <2>1, ConcatShape
  <2> QED
    BY <1>1, <2>2
<1>7. /\ Len(log) = m + r /\ m \in Nat /\ r \in Nat /\ \A i \in 1 .. m : log[i] = made[i]
  BY <1>1, <1>6, ConcatShape
<1>8. Accounted(posted, retry, scDropped, m, log)
  <2>1. ASSUME NEW i \in 1 .. m, Superseded(made, i) PROVE Superseded(log, i)
    <3>1. i \in Nat
      BY <1>7
    <3> QED
      BY <1>1, <1>6, <2>1, <3>1, SupersededStays
  <2> HIDE DEF m
  <2> QED
    BY <1>1, <1>7, <2>1 DEF Accounted
<1>9. PICK p, q, d, kept : p = posted /\ q = retry /\ d = scDropped /\ kept = retry'
  OBVIOUS
<1> HIDE DEF m, r
<1>10. PICK mm \in Nat, rr \in Nat : mm = m /\ rr = r
  BY <1>7
<1>11. /\ Len(log) = mm + rr /\ Accounted(p, q, d, mm, log) /\ n \in 0 .. Len(q) + rr
       /\ out = q \o NewIds(mm, rr) /\ kept = Keep(left, log)
  BY <1>3, <1>5, <1>6, <1>7, <1>8, <1>9, <1>10
<1>12. Accounted(p \o SubSeq(out, 1, n), kept, d + Len(left) - Len(kept), mm + rr, log)
  BY <1>4, <1>11, PostKeeps
<1>13. Accounted(posted', retry', scDropped', Len(made'), made')
  BY <1>5, <1>6, <1>9, <1>11, <1>12
<1> QED
  BY <1>1, <1>6, <1>13 DEF PosterFits

(* Records without errors keep what was reported.                             *)
LEMMA ErrorsKept ==
  ASSUME ErrorsFit, NEW t \in Seq(ScRecord), NoError(t), made \in Seq(ScRecord),
         made' = made \o t, previous' = previous, scCounters' = scCounters
  PROVE  ErrorsFit'
<1>1. \A d \in ScDevices, k \in ErrorKinds : Reported(made \o t, d, k) = Reported(made, d, k)
  BY ReportedQuiet
<1>2. \A d \in ScDevices, k \in ErrorKinds : Reported(made', d, k) = Reported(made, d, k)
  BY <1>1
<1> QED
  BY <1>2 DEF ErrorsFit, ErrorsReportedOnce

(* The records of an identification.                                          *)
LEMMA IdentShape ==
  ASSUME NEW d \in ScDevices
  PROVE  /\ IdentRecords(d) \in Seq(ScRecord) /\ NoError(IdentRecords(d))
         /\ Wordless(IdentRecords(d))
<1> DEFINE n == Len(ScNodes[d])
<1>1. n \in Nat /\ \A i \in 1 .. n : ScNodes[d][i] \in Nat
  <2>1. ScNodes[d] \in {<<1, 2>>, <<0>>}
    BY DEF ScNodes, ScDevices
  <2> QED
    BY <2>1
<1>2. DOMAIN IdentRecords(d) = 1 .. n
  BY DEF IdentRecords
<1>3. \A i \in 1 .. n :
        IdentRecords(d)[i] = [device |-> d, node |-> ScNodes[d][i], event |-> "IDENT", value |-> 0]
  BY DEF IdentRecords
<1> HIDE DEF n
<1>4. \A i \in 1 .. n :
        [device |-> d, node |-> ScNodes[d][i], event |-> "IDENT", value |-> 0] \in ScRecord
  BY <1>1 DEF ScRecord
<1>5. IdentRecords(d) \in Seq(ScRecord)
  <2>1. PICK len \in Nat : len = n
    BY <1>1
  <2>2. IdentRecords(d) = [i \in 1 .. len |->
          [device |-> d, node |-> ScNodes[d][i], event |-> "IDENT", value |-> 0]]
    BY <2>1 DEF IdentRecords, n
  <2>3. PICK f : f = IdentRecords(d)
    OBVIOUS
  <2>4. f \in [1 .. len -> ScRecord]
    BY <1>4, <2>1, <2>2, <2>3
  <2>5. f \in Seq(ScRecord)
    BY <2>4
  <2> QED
    BY <2>3, <2>5
<1>6. ASSUME NEW i \in 1 .. n PROVE IdentRecords(d)[i].event = "IDENT"
  <2>1. IdentRecords(d)[i] = [device |-> d, node |-> ScNodes[d][i], event |-> "IDENT", value |-> 0]
    BY <1>3
  <2>2. PICK x : x = ScNodes[d][i]
    OBVIOUS
  <2>3. PICK f : f = IdentRecords(d)[i]
    OBVIOUS
  <2>4. f = [device |-> d, node |-> x, event |-> "IDENT", value |-> 0]
    BY <2>1, <2>2, <2>3
  <2>5. f.event = "IDENT"
    BY <2>4
  <2> QED
    BY <2>3, <2>5
<1> QED
  BY <1>2, <1>5, <1>6 DEF NoError, Wordless, Words

(* The first state.                                                           *)
LEMMA RecordsInit == ScInit => RecordsInv
<1> SUFFICES ASSUME ScInit PROVE RecordsInv
  OBVIOUS
<1>0. RetryLimit \in Nat /\ EventQueue \in Nat /\ MaxPollErrors \in Nat /\ MaxPollErrors # 0
  BY ScAssumption DEF ScAssumption
<1>1. ThreadTypes
  <2>1. dev \in [ScDevices -> {"open", "backoff", "ident", "send", "poll", "done"}]
        /\ \A d \in ScDevices : dev[d] \notin {"send", "poll"}
    BY DEF ScInit
  <2>2. pollErrs \in [ScDevices -> 0 .. MaxPollErrors]
    BY <1>0 DEF ScInit
  <2>3. scCounters \in [ScDevices -> [ErrorKinds -> Nat]]
    BY DEF ScInit, ZeroCounts
  <2>4. pending \in [ScDevices -> ScEvent] /\ scClock \in Nat
    BY DEF ScInit, ScEvent
  <2> QED
    BY <2>1, <2>2, <2>3, <2>4 DEF ThreadTypes
<1>2. QueueTypes
  BY <1>0 DEF ScInit, QueueTypes
<1>3. /\ made = << >> /\ made \in Seq(ScRecord) /\ Len(made) = 0 /\ DOMAIN made = {} /\ 1 .. 0 = {}
      /\ posted = << >> /\ retry = << >> /\ scDropped = 0
  BY DEF ScInit
<1>4. PosterFits
  <2>1. Rises(<< >>) /\ << >> \in Seq(1 .. 0) /\ Len(<< >>) = 0 /\ Elements(<< >>) = {}
    BY NoElements DEF Rises
  <2> QED
    BY <1>0, <1>3, <2>1 DEF PosterFits, Accounted, Below
<1>5. AggregatorFits
  <2>1. /\ firing \in [DOMAIN ScRules -> BOOLEAN] /\ latest \in [Keys -> ScSample]
        /\ logged \in [Keys -> ScSample]
        /\ \A k \in Keys : latest[k] = NoSample /\ logged[k] = NoSample
    BY DEF ScInit, NoSample, ScSample
  <2>2. DOMAIN ScRules = {1, 2}
    BY SmallTuples DEF ScRules
  <2>3. firing[1] = FALSE /\ firing[2] = FALSE
    BY <2>2 DEF ScInit
  <2>4. Flow1 \in Keys /\ Flow2 \in Keys /\ Env0 \in Keys
    BY KeysAre
  <2>5. \A k : BalanceIn(made, k) = 0
    <3>1. \A k, event : Hits(made, k, event) = {}
      BY <1>3 DEF Hits
    <3>2. Cardinality({}) = 0
      BY FS_EmptySet
    <3> QED
      BY <3>1, <3>2 DEF BalanceIn
  <2>6. NoSample.alarm = FALSE /\ NoSample.value = 0 /\ NoSample.ts = -1
    BY DEF NoSample
  <2>7. AlarmsFit(firing, latest, made)
    BY <2>1, <2>3, <2>4, <2>5, <2>6 DEF AlarmsFit, Bit, ScHi
  <2>8. LogFits(latest, logged, made)
    BY <2>1, <2>6 DEF LogFits
  <2> QED
    BY <1>3, <2>1, <2>7, <2>8 DEF AggregatorFits, AggGood, AggTypes
<1>6. ErrorsFit
  <2>1. /\ previous \in [ScDevices -> [ErrorKinds -> Nat]] /\ previous = scCounters
        /\ \A d \in ScDevices, k \in ErrorKinds : previous[d][k] = 0
    BY DEF ScInit, ZeroCounts
  <2>2. ASSUME NEW d \in ScDevices, NEW k \in ErrorKinds PROVE Reported(made, d, k) = 0
    <3>0. made \in Seq(ScRecord)
      BY <1>3
    <3>1. \E g : g[0] = 0 /\ Reported(made, d, k) = g[Len(made)]
      BY <3>0, ReportedFollows
    <3> QED
      BY <1>3, <3>1
  <2> QED
    BY <2>1, <2>2 DEF ErrorsFit, ErrorsReportedOnce
<1> QED
  BY <1>1, <1>2, <1>4, <1>5, <1>6 DEF RecordsInv

(* The device threads: they leave the records alone, and count upwards.       *)
LEMMA ThreadsKeep ==
  ASSUME RecordsInv, NEW d \in ScDevices, DeviceStep(d)
  PROVE  RecordsInv'
<1>0. RetryLimit \in Nat /\ EventQueue \in Nat /\ MaxPollErrors \in Nat /\ MaxPollErrors # 0
      /\ ScValues \in [ScDevices -> SUBSET Int]
  BY ScAssumption DEF ScAssumption, ScDevices
<1>1. /\ ThreadTypes /\ QueueTypes /\ PosterFits /\ AggregatorFits /\ ErrorsFit
  BY DEF RecordsInv
<1>2. /\ dev \in [ScDevices -> {"open", "backoff", "ident", "send", "poll", "done"}]
      /\ pollErrs \in [ScDevices -> 0 .. MaxPollErrors]
      /\ \A e \in ScDevices : dev[e] \in {"send", "poll"} => pollErrs[e] < MaxPollErrors
      /\ scCounters \in [ScDevices -> [ErrorKinds -> Nat]]
      /\ pending \in [ScDevices -> ScEvent] /\ scClock \in Nat
  BY <1>1 DEF ThreadTypes
<1>3. UNCHANGED scMainVars
  BY DEF DeviceStep, OpenDevice, EndBackoff, Identify, PollSucceeds, PollFails, SendEvent, ThreadStops
<1>4. PosterFits' /\ AggregatorFits'
  BY <1>1, <1>3 DEF scMainVars, PosterFits, AggregatorFits
<1>5. ASSUME NEW kind \in ErrorKinds
      PROVE  /\ Count(d, kind) => /\ scCounters' \in [ScDevices -> [ErrorKinds -> Nat]]
                                  /\ \A e \in ScDevices, k \in ErrorKinds :
                                       scCounters[e][k] <= scCounters'[e][k]
  <2> SUFFICES ASSUME Count(d, kind)
               PROVE  /\ scCounters' \in [ScDevices -> [ErrorKinds -> Nat]]
                      /\ \A e \in ScDevices, k \in ErrorKinds :
                           scCounters[e][k] <= scCounters'[e][k]
    OBVIOUS
  <2>1. PICK c : c = [scCounters[d] EXCEPT ![kind] = @ + 1]
    OBVIOUS
  <2>2. scCounters' = [scCounters EXCEPT ![d] = c]
    BY <2>1 DEF Count
  <2>3. scCounters[d] \in [ErrorKinds -> Nat]
    BY <1>2
  <2>4. c \in [ErrorKinds -> Nat] /\ \A k \in ErrorKinds : scCounters[d][k] <= c[k]
    BY <2>1, <2>3
  <2>5. scCounters' \in [ScDevices -> [ErrorKinds -> Nat]]
    BY <1>2, <2>2, <2>4
  <2>6. ASSUME NEW e \in ScDevices, NEW k \in ErrorKinds PROVE scCounters[e][k] <= scCounters'[e][k]
    <3>1. CASE e = d
      BY <1>2, <2>2, <2>4, <3>1
    <3>2. CASE e # d
      <4>1. scCounters'[e] = scCounters[e] /\ scCounters[e][k] \in Nat
        BY <1>2, <2>2, <3>2
      <4> QED
        BY <4>1
    <3> QED
      BY <3>1, <3>2
  <2> QED
    BY <2>5, <2>6
<1>6. /\ scCounters' \in [ScDevices -> [ErrorKinds -> Nat]]
      /\ \A e \in ScDevices, k \in ErrorKinds : scCounters[e][k] <= scCounters'[e][k]
  <2>1. \/ UNCHANGED scCounters \/ Count(d, "reconnects") \/ Count(d, "failed")
    BY DEF DeviceStep, OpenDevice, EndBackoff, Identify, PollSucceeds, PollFails, SendEvent,
           ThreadStops
  <2>2. "reconnects" \in ErrorKinds /\ "failed" \in ErrorKinds
    BY DEF ErrorKinds
  <2>3. CASE UNCHANGED scCounters
    <3>1. \A e \in ScDevices, k \in ErrorKinds : scCounters[e][k] \in Nat
      BY <1>2
    <3> QED
      BY <1>2, <2>3, <3>1
  <2> QED
    BY <1>5, <2>1, <2>2, <2>3
<1>7. ErrorsFit'
  <2>1. /\ previous \in [ScDevices -> [ErrorKinds -> Nat]] /\ previous' = previous /\ made' = made
        /\ \A e \in ScDevices, k \in ErrorKinds :
             previous[e][k] <= scCounters[e][k] /\ Reported(made, e, k) = previous[e][k]
    BY <1>1, <1>3 DEF ErrorsFit, ErrorsReportedOnce, scMainVars
  <2>2. ASSUME NEW e \in ScDevices, NEW k \in ErrorKinds PROVE previous[e][k] <= scCounters'[e][k]
    <3>1. /\ previous[e][k] \in Nat /\ scCounters[e][k] \in Nat /\ scCounters'[e][k] \in Nat
          /\ previous[e][k] <= scCounters[e][k] /\ scCounters[e][k] <= scCounters'[e][k]
      BY <1>2, <1>6, <2>1
    <3> QED
      BY <3>1
  <2>3. previous' \in [ScDevices -> [ErrorKinds -> Nat]]
    BY <2>1
  <2>4. \A e \in ScDevices, k \in ErrorKinds :
          previous'[e][k] <= scCounters'[e][k] /\ Reported(made', e, k) = previous'[e][k]
    BY <2>1, <2>2
  <2> QED
    BY <2>3, <2>4 DEF ErrorsFit, ErrorsReportedOnce
<1>8. ThreadTypes' /\ QueueTypes'
  <2>0. events \in Seq(ScEvent) /\ Len(events) <= EventQueue /\ QueueTypes
    BY <1>1 DEF QueueTypes
  <2>1. CASE OpenDevice(d) \/ EndBackoff(d) \/ ThreadStops(d)
    <3>1. \E w \in {"ident", "backoff", "open", "done"} : dev' = [dev EXCEPT ![d] = w]
      BY <2>1 DEF OpenDevice, EndBackoff, ThreadStops, Goes
    <3>2. UNCHANGED <<pollErrs, pending, scClock, events, scMain>>
      BY <2>1 DEF OpenDevice, EndBackoff, ThreadStops
    <3>3. /\ dev' \in [ScDevices -> {"open", "backoff", "ident", "send", "poll", "done"}]
          /\ \A e \in ScDevices : dev'[e] \in {"send", "poll"} => pollErrs[e] < MaxPollErrors
      BY <1>2, <3>1
    <3> QED
      BY <1>2, <1>6, <2>0, <3>2, <3>3 DEF ThreadTypes, QueueTypes
  <2>2. CASE Identify(d)
    <3>1. /\ pollErrs' = [pollErrs EXCEPT ![d] = 0]
          /\ \E w \in {"send", "backoff"} : dev' = [dev EXCEPT ![d] = w]
          /\ pending' = [pending EXCEPT ![d] = IdentEvent(d)] \/ pending' = pending
          /\ UNCHANGED <<scClock, events, scMain>>
      BY <2>2 DEF Identify, Goes, IdentEvent
    <3>2. IdentEvent(d) \in ScEvent
      BY DEF ScEvent
    <3>3. pending' \in [ScDevices -> ScEvent]
      BY <1>2, <3>1, <3>2
    <3>4. pollErrs' \in [ScDevices -> 0 .. MaxPollErrors] /\ pollErrs'[d] = 0
          /\ \A e \in ScDevices : e # d => pollErrs'[e] = pollErrs[e]
      BY <1>0, <1>2, <3>1
    <3>5. /\ dev' \in [ScDevices -> {"open", "backoff", "ident", "send", "poll", "done"}]
          /\ \A e \in ScDevices : e # d => dev'[e] = dev[e]
      BY <1>2, <3>1
    <3>6. \A e \in ScDevices : dev'[e] \in {"send", "poll"} => pollErrs'[e] < MaxPollErrors
      BY <1>0, <1>2, <3>4, <3>5
    <3> QED
      BY <1>2, <1>6, <2>0, <3>1, <3>3, <3>4, <3>5, <3>6 DEF ThreadTypes, QueueTypes
  <2>3. CASE PollSucceeds(d)
    <3>1. PICK values \in [1 .. Len(ScNodes[d]) -> ScValues[d]], alarm \in BOOLEAN,
               ts \in scClock .. scClock + 1 :
            /\ alarm => d = "env"
            /\ scClock' = ts
            /\ pending' = [pending EXCEPT ![d] = [kind |-> "samples", device |-> d,
                             values |-> values, alarm |-> alarm, ts |-> ts]]
      BY <2>3 DEF PollSucceeds
    <3>2. /\ pollErrs' = [pollErrs EXCEPT ![d] = 0] /\ dev' = [dev EXCEPT ![d] = "send"]
          /\ UNCHANGED <<events, scMain>>
      BY <2>3 DEF PollSucceeds, Goes
    <3>3. ts \in Nat
      BY <1>2
    <3>4. values \in [1 .. Len(ScNodes[d]) -> Int]
      <4>1. ScValues[d] \subseteq Int
        BY <1>0
      <4> QED
        BY <4>1
    <3>5. alarm \in {a \in BOOLEAN : a => d = "env"}
      BY <3>1
    <3>6. [kind |-> "samples", device |-> d, values |-> values, alarm |-> alarm, ts |-> ts]
            \in SampleEvents(d)
      BY <3>3, <3>4, <3>5 DEF SampleEvents
    <3>7. pending' \in [ScDevices -> ScEvent]
      <4>1. SampleEvents(d) \subseteq ScEvent
        BY DEF ScEvent
      <4>2. PICK x \in ScEvent : pending' = [pending EXCEPT ![d] = x]
        BY <3>1, <3>6, <4>1
      <4> QED
        BY <1>2, <4>2
    <3>8. pollErrs' \in [ScDevices -> 0 .. MaxPollErrors] /\ pollErrs'[d] = 0
          /\ \A e \in ScDevices : e # d => pollErrs'[e] = pollErrs[e]
      BY <1>0, <1>2, <3>2
    <3>9. /\ dev' \in [ScDevices -> {"open", "backoff", "ident", "send", "poll", "done"}]
          /\ \A e \in ScDevices : e # d => dev'[e] = dev[e]
      BY <1>2, <3>2
    <3>10. ASSUME NEW e \in ScDevices, dev'[e] \in {"send", "poll"}
           PROVE  pollErrs'[e] < MaxPollErrors
      <4>1. CASE e = d
        BY <1>0, <3>8, <4>1
      <4>2. CASE e # d
        <5>1. dev'[e] = dev[e] /\ pollErrs'[e] = pollErrs[e]
          BY <3>8, <3>9, <4>2
        <5> QED
          BY <1>2, <3>10, <5>1
      <4> QED
        BY <4>1, <4>2
    <3> QED
      BY <1>6, <2>0, <3>1, <3>2, <3>3, <3>7, <3>8, <3>9, <3>10 DEF ThreadTypes, QueueTypes
  <2>4. CASE PollFails(d)
    <3>1. /\ dev[d] = "poll" /\ pollErrs' = [pollErrs EXCEPT ![d] = @ + 1]
          /\ dev' = [dev EXCEPT ![d] =
                       IF pollErrs[d] + 1 >= MaxPollErrors THEN "backoff" ELSE "poll"]
          /\ UNCHANGED <<pending, scClock, events, scMain>>
      BY <2>4 DEF PollFails, Goes
    <3>2. pollErrs[d] \in Nat /\ pollErrs[d] < MaxPollErrors
      BY <1>2, <3>1
    <3>3. pollErrs[d] + 1 \in 0 .. MaxPollErrors
      BY <1>0, <3>2
    <3>4. pollErrs' \in [ScDevices -> 0 .. MaxPollErrors] /\ pollErrs'[d] = pollErrs[d] + 1
          /\ \A e \in ScDevices : e # d => pollErrs'[e] = pollErrs[e]
      BY <1>2, <3>1, <3>3
    <3>5. /\ dev' \in [ScDevices -> {"open", "backoff", "ident", "send", "poll", "done"}]
          /\ dev'[d] = IF pollErrs[d] + 1 >= MaxPollErrors THEN "backoff" ELSE "poll"
          /\ \A e \in ScDevices : e # d => dev'[e] = dev[e]
      BY <1>2, <3>1
    <3>6. ASSUME NEW e \in ScDevices, dev'[e] \in {"send", "poll"} PROVE pollErrs'[e] < MaxPollErrors
      <4>1. CASE e = d
        <5>1. ~(pollErrs[d] + 1 >= MaxPollErrors)
          BY <3>5, <3>6, <4>1
        <5>2. pollErrs[d] + 1 < MaxPollErrors
          BY <1>0, <3>2, <5>1
        <5> QED
          BY <3>4, <4>1, <5>2
      <4>2. CASE e # d
        BY <1>2, <3>4, <3>5, <3>6, <4>2
      <4> QED
        BY <4>1, <4>2
    <3> QED
      BY <1>2, <1>6, <2>0, <3>1, <3>4, <3>5, <3>6 DEF ThreadTypes, QueueTypes
  <2>5. CASE SendEvent(d)
    <3>1. /\ dev[d] = "send" /\ Len(events) < EventQueue /\ events' = Append(events, pending[d])
          /\ pending' = [pending EXCEPT ![d] = NoEvent] /\ dev' = [dev EXCEPT ![d] = "poll"]
          /\ UNCHANGED <<pollErrs, scClock, scMain>>
      BY <2>5 DEF SendEvent, Goes
    <3>2. pending[d] \in ScEvent /\ NoEvent \in ScEvent
      BY <1>2 DEF ScEvent
    <3>3. pending' \in [ScDevices -> ScEvent]
      BY <1>2, <3>1, <3>2
    <3>4. events' \in Seq(ScEvent) /\ Len(events') <= EventQueue
      <4>1. events' \in Seq(ScEvent) /\ Len(events') = Len(events) + 1 /\ Len(events) \in Nat
        BY <2>0, <3>1, <3>2
      <4> QED
        BY <1>0, <3>1, <4>1
    <3>5. /\ dev' \in [ScDevices -> {"open", "backoff", "ident", "send", "poll", "done"}]
          /\ \A e \in ScDevices : dev'[e] \in {"send", "poll"} => dev[e] \in {"send", "poll"}
      BY <1>2, <3>1
    <3> QED
      BY <1>2, <1>6, <2>0, <3>1, <3>3, <3>4, <3>5 DEF ThreadTypes, QueueTypes
  <2> QED
    BY <2>1, <2>2, <2>3, <2>4, <2>5 DEF DeviceStep
<1> QED
  BY <1>4, <1>7, <1>8 DEF RecordsInv

(* The main loop: what it makes of an event, and the error report.            *)
LEMMA MainKeeps ==
  ASSUME RecordsInv, MainTurn \/ ErrorReport
  PROVE  RecordsInv'
<1>1. /\ ThreadTypes /\ QueueTypes /\ PosterFits /\ AggregatorFits /\ ErrorsFit
  BY DEF RecordsInv
<1>2. UNCHANGED scThreads /\ scMain' = scMain
  BY DEF MainTurn, ErrorReport
<1>3. ThreadTypes'
  BY <1>1, <1>2 DEF ThreadTypes, scThreads
<1>4. made \in Seq(ScRecord) /\ AggGood(firing, latest, logged, made)
  BY <1>1 DEF PosterFits, AggregatorFits
<1>5. CASE MainTurn
  <2>1. QueueTypes'
    <3>1. events' = events \/ (events # << >> /\ events' = Tail(events))
      BY <1>5 DEF MainTurn
    <3>2. events \in Seq(ScEvent) /\ Len(events) <= EventQueue /\ EventQueue \in Nat
      BY <1>1, ScAssumption DEF QueueTypes, ScAssumption
    <3>3. events' \in Seq(ScEvent) /\ Len(events') <= EventQueue
      <4>1. CASE events' = events
        BY <3>2, <4>1
      <4>2. CASE events # << >> /\ events' = Tail(events)
        <5>1. /\ Tail(events) \in Seq(ScEvent) /\ Len(Tail(events)) = Len(events) - 1
              /\ Len(events) \in Nat
          BY <3>2, <4>2
        <5> QED
          BY <3>2, <4>2, <5>1
      <4> QED
        BY <3>1, <4>1, <4>2
    <3> QED
      BY <1>1, <1>2, <3>3 DEF QueueTypes
  <2>2. PICK e : e = IF events = << >> THEN NoEvent ELSE Head(events)
    OBVIOUS
  <2>3. e \in ScEvent
    <3>1. NoEvent \in ScEvent
      BY DEF ScEvent
    <3>2. events # << >> => Head(events) \in ScEvent
      BY <1>1 DEF QueueTypes
    <3> QED
      BY <2>2, <3>1, <3>2
  <2>4. scCounters' = scCounters /\ previous' = previous
    BY <1>2, <1>5 DEF MainTurn, scThreads
  <2>5. \/ /\ e.kind = "samples" /\ Post(Ingest(e).records)
           /\ firing' = Ingest(e).firing /\ latest' = Ingest(e).latest /\ logged' = Ingest(e).logged
        \/ /\ e.kind = "ident" /\ Post(IdentRecords(e.device)) /\ UNCHANGED <<firing, latest, logged>>
        \/ /\ e.kind = "none" /\ Post(<< >>) /\ UNCHANGED <<firing, latest, logged>>
    BY <1>5, <2>2 DEF MainTurn
  <2>6. CASE e.kind = "samples" /\ Post(Ingest(e).records)
             /\ firing' = Ingest(e).firing /\ latest' = Ingest(e).latest
             /\ logged' = Ingest(e).logged
    <3>1. e.device \in ScDevices /\ e \in SampleEvents(e.device)
      BY <2>3, <2>6, EventShape
    <3>2. StepGood(Ingest(e))
      BY <1>4, <3>1, IngestGood
    <3>3. PICK t : t = Ingest(e).records
      OBVIOUS
    <3>4. /\ t \in Seq(ScRecord) /\ NoError(t) /\ AggGood(firing', latest', logged', made \o t)
      BY <2>6, <3>2, <3>3 DEF StepGood
    <3>5. Grows(t)
      BY <2>6, <3>3, <3>4 DEF Grows
    <3>6. PosterFits' /\ made' = made \o t
      BY <1>1, <3>5, PosterKeeps
    <3>7. ErrorsFit'
      BY <1>1, <1>4, <2>4, <3>4, <3>6, ErrorsKept
    <3>8. AggregatorFits'
      BY <3>4, <3>6 DEF AggregatorFits
    <3> QED
      BY <1>3, <2>1, <3>6, <3>7, <3>8 DEF RecordsInv
  <2>7. ASSUME NEW t \in Seq(ScRecord), NoError(t), Wordless(t), Post(t),
               UNCHANGED <<firing, latest, logged>>
        PROVE  RecordsInv'
    <3>1. Grows(t)
      BY <2>7 DEF Grows
    <3>2. PosterFits' /\ made' = made \o t
      BY <1>1, <3>1, PosterKeeps
    <3>3. ErrorsFit'
      BY <1>1, <1>4, <2>4, <2>7, <3>2, ErrorsKept
    <3>4. AggGood(firing, latest, logged, made \o t)
      BY <1>4, <2>7, WordlessKeeps
    <3>5. AggregatorFits'
      BY <2>7, <3>2, <3>4 DEF AggregatorFits
    <3> QED
      BY <1>3, <2>1, <3>2, <3>3, <3>5 DEF RecordsInv
  <2>8. CASE e.kind = "ident" /\ Post(IdentRecords(e.device)) /\ UNCHANGED <<firing, latest, logged>>
    <3>1. e.device \in ScDevices
      BY <2>3, <2>8, EventShape
    <3>2. /\ IdentRecords(e.device) \in Seq(ScRecord) /\ NoError(IdentRecords(e.device))
          /\ Wordless(IdentRecords(e.device))
      BY <3>1, IdentShape
    <3> QED
      BY <2>7, <2>8, <3>2
  <2>9. CASE e.kind = "none" /\ Post(<< >>) /\ UNCHANGED <<firing, latest, logged>>
    <3>1. << >> \in Seq(ScRecord) /\ NoError(<< >>) /\ Wordless(<< >>)
      BY DEF NoError, Wordless
    <3> QED
      BY <2>7, <2>9, <3>1
  <2> QED
    BY <2>5, <2>6, <2>8, <2>9
<1>6. CASE ErrorReport
  <2>1. /\ Post(ErrorRecord("flow") \o ErrorRecord("env")) /\ previous' = scCounters
        /\ UNCHANGED <<firing, latest, logged, events>> /\ scCounters' = scCounters
    BY <1>2, <1>6 DEF ErrorReport, scThreads
  <2>2. /\ scCounters \in [ScDevices -> [ErrorKinds -> Nat]]
        /\ previous \in [ScDevices -> [ErrorKinds -> Nat]]
        /\ \A d \in ScDevices, k \in ErrorKinds : Reported(made, d, k) = previous[d][k]
    BY <1>1 DEF ThreadTypes, ErrorsFit, ErrorsReportedOnce
  <2>3. ASSUME NEW d \in ScDevices
        PROVE  /\ Delta(d) \in [ErrorKinds -> Int]
               /\ \A k \in ErrorKinds : Delta(d)[k] = scCounters[d][k] - previous[d][k]
    <3>1. \A k \in ErrorKinds : scCounters[d][k] \in Nat /\ previous[d][k] \in Nat
      BY <2>2
    <3> QED
      BY <3>1 DEF Delta
  <2>4. "flow" \in ScDevices /\ "env" \in ScDevices /\ ScDevices = {"flow", "env"}
    BY DEF ScDevices
  <2>5. /\ ErrorRecord("flow") \in Seq(ScRecord)
        /\ \A i \in DOMAIN ErrorRecord("flow") : ErrorRecord("flow")[i].event = "ERROR"
        /\ \A e \in ScDevices, k \in ErrorKinds :
             Reported(made \o ErrorRecord("flow"), e, k) =
               Reported(made, e, k) + (IF e = "flow" THEN Delta("flow")[k] ELSE 0)
    BY <1>4, <2>3, <2>4, ErrorAdds
  <2>6. PICK a \in Seq(ScRecord) : a = ErrorRecord("flow")
    BY <2>5
  <2>7. PICK log \in Seq(ScRecord) : log = made \o a
    <3>1. made \in Seq(ScRecord)
      BY <1>4
    <3>2. made \o a \in Seq(ScRecord)
      BY <3>1, ConcatShape
    <3> QED
      BY <3>2
  <2>8. /\ ErrorRecord("env") \in Seq(ScRecord)
        /\ \A i \in DOMAIN ErrorRecord("env") : ErrorRecord("env")[i].event = "ERROR"
        /\ \A e \in ScDevices, k \in ErrorKinds :
             Reported(log \o ErrorRecord("env"), e, k) =
               Reported(log, e, k) + (IF e = "env" THEN Delta("env")[k] ELSE 0)
    BY <2>3, <2>4, ErrorAdds
  <2>9. PICK b \in Seq(ScRecord) : b = ErrorRecord("env")
    BY <2>8
  <2>10. PICK t \in Seq(ScRecord) : t = a \o b
    <3>1. a \o b \in Seq(ScRecord)
      BY ConcatShape
    <3> QED
      BY <3>1
  <2>11. made \o t = log \o b
    BY <1>4, <2>7, <2>10, ConcatAssociative
  <2>12. Wordless(t)
    <3>1. /\ \A i \in DOMAIN a : a[i].event = "ERROR"
          /\ \A i \in DOMAIN b : b[i].event = "ERROR"
      BY <2>5, <2>6, <2>8, <2>9
    <3>2. Elements(t) = Elements(a) \cup Elements(b)
      BY <2>10, ElementsConcat
    <3>3. \A x \in Elements(t) : x.event = "ERROR"
      BY <3>1, <3>2 DEF Elements
    <3> QED
      BY <3>3 DEF Wordless, Words, Elements
  <2>13. Grows(t)
    BY <2>1, <2>6, <2>9, <2>10 DEF Grows
  <2>14. PosterFits' /\ made' = made \o t
    BY <1>1, <2>13, PosterKeeps
  <2>15. AggregatorFits'
    <3>1. AggGood(firing, latest, logged, made \o t)
      BY <1>4, <2>12, WordlessKeeps
    <3> QED
      BY <2>1, <2>14, <3>1 DEF AggregatorFits
  <2>16. ErrorsFit'
    <3>1. ASSUME NEW d \in ScDevices, NEW k \in ErrorKinds
          PROVE  Reported(made', d, k) = scCounters[d][k]
      <4>1. /\ Reported(log, d, k) =
                 Reported(made, d, k) + (IF d = "flow" THEN Delta("flow")[k] ELSE 0)
            /\ Reported(log \o b, d, k) =
                 Reported(log, d, k) + (IF d = "env" THEN Delta("env")[k] ELSE 0)
        BY <2>5, <2>6, <2>7, <2>8, <2>9
      <4>2. Reported(made, d, k) = previous[d][k]
        BY <2>2
      <4>3. Reported(made', d, k) = Reported(log \o b, d, k)
        BY <2>11, <2>14
      <4>4. previous[d][k] \in Nat /\ scCounters[d][k] \in Nat
        BY <2>2
      <4>5. Delta(d)[k] = scCounters[d][k] - previous[d][k]
        BY <2>3
      <4>6. "flow" # "env"
        OBVIOUS
      <4>7. CASE d = "flow"
        BY <4>1, <4>2, <4>3, <4>4, <4>5, <4>6, <4>7
      <4>8. CASE d = "env"
        BY <4>1, <4>2, <4>3, <4>4, <4>5, <4>6, <4>8
      <4> QED
        BY <2>4, <4>7, <4>8
    <3>2. \A d \in ScDevices, k \in ErrorKinds : scCounters[d][k] \in Nat
      BY <2>2
    <3>3. previous' \in [ScDevices -> [ErrorKinds -> Nat]]
      BY <2>1, <2>2
    <3>4. \A d \in ScDevices, k \in ErrorKinds :
            previous'[d][k] <= scCounters'[d][k] /\ Reported(made', d, k) = previous'[d][k]
      BY <2>1, <3>1, <3>2
    <3> QED
      BY <3>3, <3>4 DEF ErrorsFit, ErrorsReportedOnce
  <2>17. QueueTypes'
    BY <1>1, <1>2, <2>1 DEF QueueTypes
  <2> QED
    BY <1>3, <2>14, <2>15, <2>16, <2>17 DEF RecordsInv
<1> QED
  BY <1>5, <1>6

(* Every step keeps the invariant.                                            *)
LEMMA RecordsNext == RecordsInv /\ [ScNext]_scVars => RecordsInv'
<1> SUFFICES ASSUME RecordsInv, [ScNext]_scVars PROVE RecordsInv'
  OBVIOUS
<1>1. ASSUME UNCHANGED <<scThreads, events, scMainVars>>,
             scMain' \in {"run", "joining", "stopped"}
      PROVE  RecordsInv'
  <2>1. /\ ThreadTypes /\ QueueTypes /\ PosterFits /\ AggregatorFits /\ ErrorsFit
    BY DEF RecordsInv
  <2>2. ThreadTypes' /\ QueueTypes'
    BY <1>1, <2>1 DEF ThreadTypes, QueueTypes, scThreads
  <2>3. PosterFits' /\ AggregatorFits'
    BY <1>1, <2>1 DEF PosterFits, AggregatorFits, scMainVars
  <2>4. ErrorsFit'
    BY <1>1, <2>1 DEF ErrorsFit, ErrorsReportedOnce, scMainVars, scThreads
  <2> QED
    BY <2>2, <2>3, <2>4 DEF RecordsInv
<1>2. scMain \in {"run", "joining", "stopped"}
  BY DEF RecordsInv, QueueTypes
<1>3. CASE UNCHANGED scVars
  BY <1>1, <1>2, <1>3 DEF scVars
<1>4. CASE Sigint \/ MainStops \/ MainJoins
  BY <1>1, <1>2, <1>4 DEF Sigint, MainStops, MainJoins
<1>5. CASE \E d \in ScDevices : DeviceStep(d)
  BY <1>5, ThreadsKeep
<1>6. CASE MainTurn \/ ErrorReport
  BY <1>6, MainKeeps
<1> QED
  BY <1>3, <1>4, <1>5, <1>6 DEF ScNext

(* The invariant says what RecordsSound says.                                 *)
LEMMA RecordsFollow == RecordsInv => RecordsSound
<1> SUFFICES ASSUME RecordsInv PROVE RecordsSound
  OBVIOUS
<1>1. /\ ThreadTypes /\ QueueTypes /\ PosterFits /\ AggregatorFits /\ ErrorsFit
  BY DEF RecordsInv
<1>2. /\ posted \in Seq(1 .. Len(made)) /\ retry \in Seq(1 .. Len(made)) /\ scDropped \in Nat
      /\ Rises(posted) /\ Len(made) = Len(posted) + Len(retry) + scDropped
      /\ Len(retry) <= RetryLimit /\ made \in Seq(ScRecord)
      /\ \A i \in 1 .. Len(made) : Retryable(made[i]) =>
           i \in Elements(posted) \/ i \in Elements(retry) \/ Superseded(made, i)
  BY <1>1 DEF PosterFits, Accounted
<1>3. ScTypeOK
  BY <1>1, <1>2 DEF ThreadTypes, QueueTypes, ScTypeOK
<1>4. RecordsInOrder
  BY <1>2 DEF RecordsInOrder, Rises
<1>5. OnlyOldestLost
  <2> DEFINE once == {i \in DOMAIN made : Retryable(made[i])}
  <2> SUFFICES ASSUME NEW i \in once \ (ToSet(posted) \cup ToSet(retry))
               PROVE  Cardinality({j \in once : j > i}) >= RetryLimit
    BY DEF OnlyOldestLost
  <2>1. DOMAIN made = 1 .. Len(made)
    BY <1>2
  <2>2. ToSet(posted) = Elements(posted) /\ ToSet(retry) = Elements(retry)
    BY DEF ToSet, Elements
  <2>3. Superseded(made, i)
    BY <1>2, <2>1, <2>2
  <2>4. {j \in once : j > i} = {j \in DOMAIN made : Retryable(made[j]) /\ j > i}
    OBVIOUS
  <2> QED
    BY <2>3, <2>4 DEF Superseded
<1>6. /\ AggTypes(firing, latest, logged) /\ AlarmsFit(firing, latest, made)
      /\ LogFits(latest, logged, made)
  BY <1>1 DEF AggregatorFits, AggGood
<1>7. AlarmsBalance
  <2>1. \A k : Balance(k) = BalanceIn(made, k)
    BY DEF Balance, BalanceIn, Hits
  <2>2. DOMAIN ScRules = {1, 2}
    BY SmallTuples DEF ScRules
  <2>3. firing[1] \in BOOLEAN /\ firing[2] \in BOOLEAN
    BY <1>6, <2>2 DEF AggTypes
  <2>4. Cardinality({r \in DOMAIN ScRules : firing[r]}) = Bit(firing[1]) + Bit(firing[2])
    <3> DEFINE A == {r \in DOMAIN ScRules : firing[r]}
    <3>1. /\ Cardinality({}) = 0 /\ IsFiniteSet({1}) /\ Cardinality({1}) = 1 /\ Cardinality({2}) = 1
      BY FS_EmptySet, FS_Singleton
    <3>2. Cardinality({1} \cup {2}) = 2
      <4>1. Cardinality({1} \cup {2}) = IF 2 \in {1} THEN Cardinality({1}) ELSE Cardinality({1}) + 1
        BY <3>1, FS_AddElement
      <4> QED
        BY <3>1, <4>1
    <3>3. CASE firing[1] /\ firing[2]
      <4>1. A = {1} \cup {2}
        BY <2>2, <3>3
      <4> QED
        BY <3>2, <3>3, <4>1 DEF Bit
    <3>4. CASE firing[1] /\ ~firing[2]
      <4>1. A = {1}
        BY <2>2, <3>4
      <4> QED
        BY <3>1, <3>4, <4>1 DEF Bit
    <3>5. CASE ~firing[1] /\ firing[2]
      <4>1. A = {2}
        BY <2>2, <3>5
      <4> QED
        BY <3>1, <3>5, <4>1 DEF Bit
    <3>6. CASE ~firing[1] /\ ~firing[2]
      <4>1. A = {}
        BY <2>2, <3>6
      <4> QED
        BY <3>1, <3>6, <4>1 DEF Bit
    <3> QED
      BY <3>3, <3>4, <3>5, <3>6
  <2>5. /\ BalanceIn(made, Env0) = Bit(latest[Env0].alarm)
        /\ BalanceIn(made, Flow1) + BalanceIn(made, Flow2) = Bit(firing[1]) + Bit(firing[2])
        /\ firing[1] <=> latest[Flow1].value > ScHi
    BY <1>6 DEF AlarmsFit
  <2>6. Balance(Env0) = IF latest[Env0].alarm THEN 1 ELSE 0
    BY <2>1, <2>5 DEF Bit
  <2>7. Balance(Flow1) + Balance(Flow2) = Cardinality({r \in DOMAIN ScRules : firing[r]})
    BY <2>1, <2>4, <2>5
  <2> QED
    BY <2>5, <2>6, <2>7 DEF AlarmsBalance, Flow1, Flow2, Env0
<1>8. LoggedIsCurrent
  <2> SUFFICES ASSUME NEW k \in Keys, latest[k].ts # -1
               PROVE  \E i \in DOMAIN made :
                        /\ Tells(made[i], k) /\ \A j \in DOMAIN made : Tells(made[j], k) => j <= i
                        /\ \A n \in {latest[k].value - made[i].value,
                                     made[i].value - latest[k].value} :
                             n <= 0 \/ 50 * n < made[i].value
    BY DEF LoggedIsCurrent
  <2>1. Near(logged[k].value, latest[k].value) /\ LastTells(made, k, logged[k].value)
    BY <1>6 DEF LogFits
  <2>2. PICK i \in DOMAIN made :
          /\ Tells(made[i], k) /\ made[i].value = logged[k].value
          /\ \A j \in DOMAIN made : Tells(made[j], k) => j <= i
    BY <2>1 DEF LastTells
  <2>3. \A n \in {latest[k].value - made[i].value, made[i].value - latest[k].value} :
          n <= 0 \/ 50 * n < made[i].value
    BY <2>1, <2>2 DEF Near
  <2> QED
    BY <2>2, <2>3
<1>9. ErrorsReportedOnce
  BY <1>1 DEF ErrorsFit
<1> QED
  BY <1>3, <1>4, <1>5, <1>7, <1>8, <1>9 DEF RecordsSound

(* However the device threads, reconnections, polls and refusals of the log   *)
(* socket interleave: the records are accounted for and posted in order, of   *)
(* those that happen once only superseded ones are lost, alarms and           *)
(* recoveries balance, the last record of a value is current, and every error *)
(* is reported once (component.rs: Aggregator, LogPoster, RetryQueue).        *)
THEOREM RecordsProved == ScSpec => []RecordsSound
<1>1. ScInit => RecordsInv
  BY RecordsInit
<1>2. RecordsInv /\ [ScNext]_scVars => RecordsInv'
  BY RecordsNext
<1>3. RecordsInv => RecordsSound
  BY RecordsFollow
<1> QED
  BY <1>1, <1>2, <1>3, PTL DEF ScSpec
==============================================================================
