------------------------------- MODULE Monitor -------------------------------
(* The monitor (src/src/monitor/{hub,sub,http,wire}.rs): a thread reads what  *)
(* root-sink and slowctl publish and hands it to the hub; each WebSocket      *)
(* client has a task that reads its subscriptions and a writer that sends it  *)
(* JSON (reliable: a client that does not keep up is dropped) and live frames *)
(* (one ring for all: who is slow misses the oldest, counted).                *)
EXTENDS Integers, Sequences, FiniteSets, SequencesExt, Functions, Feed

CONSTANTS
  Clients,     \* connections to the WebSocket port
  JsonQueue,   \* JSON_QUEUE
  LiveQueue,   \* capacity of the broadcast ring
  Statuses,    \* what a status message says: run and state
  HubSetups    \* bounds: status messages, events and snapshots, and
               \* subscriptions of a behaviour

Streams == {"uvw", "waveforms", "histos", "status"}
DefaultStreams == {"uvw", "histos", "status"}
Sub == "sub"

ASSUME MonitorAssumption ==
  /\ JsonQueue \in Nat \ {0} /\ LiveQueue \in Nat \ {0}
  /\ IsFiniteSet(Clients) /\ Sub \notin Clients

Actors == Clients \cup {Sub}

VARIABLES
  task,        \* per client: "off", "reading", "closed"
  writer,      \* per client: "off", "greeting", "on", "done"
  registered,  \* Hub.clients
  streams,     \* per client: ClientStreams
  jsonQ,       \* per client: its JSON queue
  pos,         \* per client: frames of the ring it has taken or missed
  todo,        \* per actor: what is left of the call it is in
  counted,     \* per actor: what refresh_waveform_demand has counted
  live,        \* history: frames sent on the ring, by stream
  demand, metaRun, lastRunState, clientCount,
  wsDropped, droppedSlow,
  said,        \* history: JSON messages broadcast
  joined, liveFrom,    \* history, per client: Len(said) and Len(live) when it came
  heard,       \* history, per client: the meta and run messages it was sent
  seen,        \* history, per client: live frames its writer looked at
  overlapped,  \* history: two counts of the demand overlapped
  budget

hubVars == <<task, writer, registered, streams, jsonQ, pos, todo, counted, live, demand,
             metaRun, lastRunState, clientCount, wsDropped, droppedSlow, said, joined,
             liveFrom, heard, seen, overlapped, budget>>

NoState == [run |-> 0, state |-> "none"]

HubInit ==
  /\ task = [c \in Clients |-> "off"] /\ writer = [c \in Clients |-> "off"]
  /\ registered = {} /\ streams = [c \in Clients |-> {}]
  /\ jsonQ = [c \in Clients |-> << >>] /\ pos = [c \in Clients |-> 0]
  /\ todo = [a \in Actors |-> << >>] /\ counted = [a \in Actors |-> 0]
  /\ live = << >> /\ demand = 0 /\ metaRun = 0 /\ lastRunState = NoState /\ clientCount = 0
  /\ wsDropped = 0 /\ droppedSlow = 0 /\ said = << >>
  /\ joined = [c \in Clients |-> 0] /\ liveFrom = [c \in Clients |-> 0]
  /\ heard = [c \in Clients |-> << >>] /\ seen = [c \in Clients |-> {}]
  /\ overlapped = FALSE /\ budget \in HubSetups

(* A call is a sequence of steps, each atomic: the locks are held for one.    *)
Step(name) == [name |-> name, client |-> Sub, text |-> NoState]
Drop(c) == [name |-> "drop", client |-> c, text |-> NoState]
Say(name, run, state) == [name |-> name, client |-> Sub, text |-> [run |-> run, state |-> state]]
Refresh == <<Step("count"), Step("store")>>

At(a, name) == todo[a] # << >> /\ Head(todo[a]).name = name

(* a's call goes on with these steps before the rest of it.                   *)
Continue(a, steps) == todo' = [todo EXCEPT ![a] = steps \o Tail(@)]

-----------------------------------------------------------------------------
(* Hub                                                                        *)

(* refresh_waveform_demand: counted under the lock, stored after it.          *)
CountDemand(a) ==
  /\ At(a, "count")
  /\ Continue(a, << >>)
  /\ counted' = [counted EXCEPT ![a] = Cardinality({c \in registered :
                                                     "waveforms" \in streams[c]})]
  /\ overlapped' = (overlapped \/ \E b \in Actors \ {a} : At(b, "store"))
  /\ UNCHANGED <<task, writer, registered, streams, jsonQ, pos, live, demand, metaRun,
                 lastRunState, clientCount, wsDropped, droppedSlow, said, joined, liveFrom,
                 heard, seen, budget>>

StoreDemand(a) ==
  /\ At(a, "store")
  /\ Continue(a, << >>)
  /\ demand' = counted[a]
  /\ counted' = [counted EXCEPT ![a] = 0]
  /\ UNCHANGED <<task, writer, registered, streams, jsonQ, pos, live, metaRun,
                 lastRunState, clientCount, wsDropped, droppedSlow, said, joined, liveFrom,
                 heard, seen, overlapped, budget>>

(* remove_client, for one that is still there.                                *)
TakeOut(a, c) ==
  /\ registered' = registered \ {c}
  /\ clientCount' = Cardinality(registered')
  /\ Continue(a, IF c \in registered THEN Refresh ELSE << >>)

RemoveClient(a) ==
  /\ At(a, "drop")
  /\ LET c == Head(todo[a]).client
     IN  /\ TakeOut(a, c)
         /\ droppedSlow' = IF a = Sub THEN droppedSlow + 1 ELSE droppedSlow
  /\ UNCHANGED <<task, writer, streams, jsonQ, pos, counted, live, demand, metaRun,
                 lastRunState, wsDropped, said, joined, liveFrom, heard, seen, overlapped,
                 budget>>

(* try_send succeeds.                                                         *)
Room(c) == Len(jsonQ[c]) < JsonQueue

(* The clients whose queue is full.                                           *)
SlowOnes(to) == {c \in to : ~Room(c)}

(* broadcast_json: try_send to all under the lock, then the slow ones go, in  *)
(* the order in which the map of clients was gone through.                    *)
Broadcast ==
  /\ \E name \in {"meta", "run", "status"} : At(Sub, name)
  /\ LET item == Head(todo[Sub])
         text == [kind |-> item.name, run |-> IF item.name = "meta" THEN metaRun ELSE item.text.run,
                  state |-> item.text.state]
         to   == {c \in registered : item.name = "status" => "status" \in streams[c]}
         slow == SlowOnes(to)
     IN  /\ jsonQ' = [c \in Clients |-> IF c \in to /\ Room(c) THEN Append(jsonQ[c], text) ELSE jsonQ[c]]
         /\ said' = IF item.name = "status" THEN said ELSE Append(said, text)
         /\ \E order \in Bijection(1 .. Cardinality(slow), slow) :
              Continue(Sub, [i \in 1 .. Cardinality(slow) |-> Drop(order[i])])
  /\ UNCHANGED <<task, writer, registered, streams, pos, counted, live, demand, metaRun,
                 lastRunState, clientCount, wsDropped, droppedSlow, joined, liveFrom, heard,
                 seen, overlapped, budget>>

(* Mutant: the run in meta is set after the message about it.                 *)
StatusSteps_MetaLate(run, state) ==
  LET newRun == lastRunState.run # run
      news   == newRun \/ lastRunState.state # state
  IN  (IF newRun THEN <<Say("meta", run, ""), Say("metaRun", run, "")>> ELSE << >>)
        \o (IF news THEN <<Say("run", run, state), Say("remember", run, state)>> ELSE << >>)
        \o <<Say("status", run, state)>>

(* on_status: meta on a new run, run on a new run or state, status always.    *)
StatusSteps(run, state) ==
  LET newRun == lastRunState.run # run
      news   == newRun \/ lastRunState.state # state
  IN  (IF newRun THEN <<Say("metaRun", run, ""), Say("meta", run, "")>> ELSE << >>)
        \o (IF news THEN <<Say("run", run, state), Say("remember", run, state)>> ELSE << >>)
        \o <<Say("status", run, state)>>

StoreMetaRun ==
  /\ At(Sub, "metaRun")
  /\ metaRun' = Head(todo[Sub]).text.run
  /\ Continue(Sub, << >>)
  /\ UNCHANGED <<task, writer, registered, streams, jsonQ, pos, counted, live, demand,
                 lastRunState, clientCount, wsDropped, droppedSlow, said, joined, liveFrom,
                 heard, seen, overlapped, budget>>

Remember ==
  /\ At(Sub, "remember")
  /\ lastRunState' = Head(todo[Sub]).text
  /\ Continue(Sub, << >>)
  /\ UNCHANGED <<task, writer, registered, streams, jsonQ, pos, counted, live, demand,
                 metaRun, clientCount, wsDropped, droppedSlow, said, joined, liveFrom, heard,
                 seen, overlapped, budget>>

(* Ingest::handle, a status.                                                  *)
HandleStatus(run, state) ==
  /\ todo[Sub] = << >> /\ budget.statuses > 0
  /\ budget' = [budget EXCEPT !.statuses = @ - 1]
  /\ todo' = [todo EXCEPT ![Sub] = StatusSteps(run, state)]
  /\ UNCHANGED <<task, writer, registered, streams, jsonQ, pos, counted, live, demand,
                 metaRun, lastRunState, clientCount, wsDropped, droppedSlow, said, joined,
                 liveFrom, heard, seen, overlapped>>

(* publish_live: a ring without readers takes nothing.                        *)
Publish(frames) ==
  live' = IF \A c \in Clients : writer[c] \notin {"greeting", "on"} THEN live ELSE live \o frames

(* Ingest::handle, an event: its planes, and its waveforms if wanted.  A      *)
(* histogram snapshot is one frame.                                           *)
HandleFrames ==
  /\ todo[Sub] = << >> /\ budget.frames > 0
  /\ budget' = [budget EXCEPT !.frames = @ - 1]
  /\ \/ Publish(IF demand > 0 THEN <<"uvw", "waveforms">> ELSE <<"uvw">>)
     \/ Publish(<<"histos">>)
  /\ UNCHANGED <<task, writer, registered, streams, jsonQ, pos, todo, counted, demand,
                 metaRun, lastRunState, clientCount, wsDropped, droppedSlow, said, joined,
                 liveFrom, heard, seen, overlapped>>

-----------------------------------------------------------------------------
(* serve_client                                                               *)

(* register: the receiver of the ring and the entry, then the demand; meta is *)
(* read after it.                                                             *)
Register(c) ==
  /\ task[c] = "off"
  /\ task' = [task EXCEPT ![c] = "reading"]
  /\ todo' = [todo EXCEPT ![c] = <<Step("enter")>> \o Refresh \o <<Step("greet")>>]
  /\ UNCHANGED <<writer, registered, streams, jsonQ, pos, counted, live, demand,
                 metaRun, lastRunState, clientCount, wsDropped, droppedSlow, said, joined,
                 liveFrom, heard, seen, overlapped, budget>>

Enter(c) ==
  /\ At(c, "enter")
  /\ Continue(c, << >>)
  /\ registered' = registered \cup {c}
  /\ clientCount' = Cardinality(registered')
  /\ streams' = [streams EXCEPT ![c] = DefaultStreams]
  /\ pos' = [pos EXCEPT ![c] = Len(live)] /\ liveFrom' = [liveFrom EXCEPT ![c] = Len(live)]
  /\ joined' = [joined EXCEPT ![c] = Len(said)]
  /\ writer' = [writer EXCEPT ![c] = "greeting"]
  /\ UNCHANGED <<task, jsonQ, counted, live, demand, metaRun, lastRunState, wsDropped,
                 droppedSlow, said, heard, seen, overlapped, budget>>

(* meta_json, and the writer that sends it first.                             *)
Greet(c) ==
  /\ At(c, "greet")
  /\ Continue(c, << >>)
  /\ writer' = [writer EXCEPT ![c] = "on"]
  /\ heard' = [heard EXCEPT ![c] = <<[kind |-> "meta", run |-> metaRun, state |-> ""]>>]
  /\ UNCHANGED <<task, registered, streams, jsonQ, pos, counted, live, demand, metaRun,
                 lastRunState, clientCount, wsDropped, droppedSlow, said, joined, liveFrom,
                 seen, overlapped, budget>>

(* The meta and run messages among the texts.                                 *)
News(texts) ==
  FlattenSeq([i \in 1 .. Len(texts) |-> IF texts[i].kind = "status" THEN << >> ELSE <<texts[i]>>])

WriterJson(c) ==
  /\ writer[c] = "on" /\ jsonQ[c] # << >>
  /\ heard' = [heard EXCEPT ![c] = @ \o News(<<Head(jsonQ[c])>>)]
  /\ jsonQ' = [jsonQ EXCEPT ![c] = Tail(@)]
  /\ UNCHANGED <<task, writer, registered, streams, pos, todo, counted, live, demand,
                 metaRun, lastRunState, clientCount, wsDropped, droppedSlow, said, joined,
                 liveFrom, seen, overlapped, budget>>

(* Lagged(n): the frames the ring no longer holds.                            *)
Missed(c) == IF Len(live) - pos[c] > LiveQueue THEN Len(live) - pos[c] - LiveQueue ELSE 0

(* live_rx.recv: it lags, or the next frame is sent or not wanted.            *)
WriterLive(c) ==
  /\ writer[c] = "on" /\ pos[c] < Len(live)
  /\ LET oldest == Len(live) - LiveQueue
     IN  \/ /\ pos[c] < oldest
            /\ pos' = [pos EXCEPT ![c] = oldest]
            /\ wsDropped' = wsDropped + Missed(c)
            /\ UNCHANGED seen
         \/ /\ pos[c] >= oldest
            /\ pos' = [pos EXCEPT ![c] = @ + 1]
            /\ seen' = [seen EXCEPT ![c] = @ \cup {pos[c] + 1}]
            /\ UNCHANGED wsDropped
  /\ UNCHANGED <<task, writer, registered, streams, jsonQ, todo, counted, live, demand,
                 metaRun, lastRunState, clientCount, droppedSlow, said, joined, liveFrom,
                 heard, overlapped, budget>>

(* The hub dropped the client, and its queue is empty.  The reading task goes *)
(* on: the socket stays open.                                                 *)
WriterEnds(c) ==
  /\ writer[c] = "on" /\ c \notin registered /\ jsonQ[c] = << >>
  /\ writer' = [writer EXCEPT ![c] = "done"]
  /\ UNCHANGED <<task, registered, streams, jsonQ, pos, todo, counted, live, demand,
                 metaRun, lastRunState, clientCount, wsDropped, droppedSlow, said, joined,
                 liveFrom, heard, seen, overlapped, budget>>

(* parse_subscribe: the names it knows; the others are ignored.               *)
ParseSubscribe(list) == ToSet(list) \cap Streams

(* apply_subscribe: the list replaces the streams of a client that is there.  *)
Subscribe(c) ==
  /\ task[c] = "reading" /\ todo[c] = << >> /\ writer[c] # "off"
  /\ budget.subscribes > 0 /\ budget' = [budget EXCEPT !.subscribes = @ - 1]
  /\ c \in registered
  /\ \E list \in {<<"status", "waveforms">>, <<"spectra", "uvw">>} :
       streams' = [streams EXCEPT ![c] = ParseSubscribe(list)]
  /\ todo' = [todo EXCEPT ![c] = Refresh]
  /\ UNCHANGED <<task, writer, registered, jsonQ, pos, counted, live, demand, metaRun,
                 lastRunState, clientCount, wsDropped, droppedSlow, said, joined, liveFrom,
                 heard, seen, overlapped>>

(* The client closes, or its socket breaks: writer.abort, remove_client.      *)
Close(c) ==
  /\ task[c] = "reading" /\ todo[c] = << >> /\ writer[c] # "off"
  /\ task' = [task EXCEPT ![c] = "closed"]
  /\ writer' = [writer EXCEPT ![c] = "done"]
  /\ todo' = [todo EXCEPT ![c] = <<Drop(c)>>]
  /\ UNCHANGED <<registered, streams, jsonQ, pos, counted, live, demand, metaRun,
                 lastRunState, clientCount, wsDropped, droppedSlow, said, joined, liveFrom,
                 heard, seen, overlapped, budget>>

HubNext ==
  \/ \E a \in Actors : CountDemand(a) \/ StoreDemand(a) \/ RemoveClient(a)
  \/ Broadcast \/ StoreMetaRun \/ Remember \/ HandleFrames
  \/ \E s \in Statuses : HandleStatus(s.run, s.state)
  \/ \E c \in Clients : \/ Register(c) \/ Enter(c) \/ Greet(c) \/ WriterJson(c)
                        \/ WriterLive(c) \/ WriterEnds(c) \/ Subscribe(c) \/ Close(c)

(* The hub, and the SUB thread's counting in front of it.                     *)
MonitorNext == (HubNext /\ UNCHANGED feedVars) \/ (FeedNext /\ UNCHANGED hubVars)
MonitorSpec == HubInit /\ FeedInit /\ [][MonitorNext]_<<hubVars, feedVars>>

-----------------------------------------------------------------------------
(* Every variable has its type; the queues keep their limits.                 *)
HubTypeOK ==
  /\ registered \subseteq Clients /\ streams \in [Clients -> SUBSET Streams]
  /\ \A c \in Clients : Len(jsonQ[c]) <= JsonQueue /\ pos[c] <= Len(live)
  /\ demand \in 0 .. Cardinality(Clients)

(* Nobody is in the middle of a call of the hub.                              *)
Quiet == \A a \in Actors : todo[a] = << >>

(* However a connection falls between the steps of on_status, a client that   *)
(* has been sent all there is for it knows the run of the present status from *)
(* the last meta it got (register before meta_json, meta_run before           *)
(* broadcast_json).                                                           *)
MetaCurrent ==
  \A c \in registered :
    Quiet /\ writer[c] = "on" /\ jsonQ[c] = << >> =>
      \E i \in DOMAIN heard[c] :
        /\ heard[c][i].kind = "meta" /\ heard[c][i].run = metaRun
        /\ \A j \in DOMAIN heard[c] : heard[c][j].kind = "meta" => j <= i

(* meta and run messages are reliable: a client that is in the hub has got or *)
(* will get every one since it came, in order; one that is not got the first  *)
(* so many of them, none left out in between (broadcast_json: the slow one is *)
(* dropped, not the message).                                                 *)
JsonReliable ==
  \A c \in Clients :
    LET got == (IF heard[c] = << >> THEN << >> ELSE Tail(heard[c])) \o News(jsonQ[c])
        due == SubSeq(said, joined[c] + 1, Len(said))
        dropping == \E i \in DOMAIN todo[Sub] : todo[Sub][i] = Drop(c)
    IN  /\ IsPrefix(got, due)
        /\ c \in registered /\ ~dropping => got = due

(* ws_dropped is the number of live frames that the writers never looked at   *)
(* because the ring had gone round, over all clients; what a writer has       *)
(* passed it has seen or counted (Lagged).                                    *)
LiveAccounted ==
  LET lost == UNION {{<<c, i>> : i \in (liveFrom[c] + 1 .. pos[c]) \ seen[c]} : c \in Clients}
  IN  wsDropped = Cardinality(lost)

(* The client count in every status is that of the hub, and a client that     *)
(* went has left it, whichever of the hub and its task took it out first.     *)
NoGhosts ==
  /\ clientCount = Cardinality(registered)
  /\ \A c \in Clients : task[c] = "closed" /\ todo[c] = << >> => c \notin registered

(* Waveforms are made when somebody wants them and only then, as long as no   *)
(* two counts of the demand overlapped: refresh_waveform_demand stores after  *)
(* it let the lock go, so the older of two counts may be stored last.         *)
DemandExact ==
  Quiet /\ ~overlapped =>
    demand = Cardinality({c \in registered : "waveforms" \in streams[c]})

(* Every client knows the run it looks at, gets all meta and run messages   *)
(* or is dropped, and what is missing of the rest is counted, in the hub    *)
(* and in front of it (hub.rs, http.rs, wire.rs).                           *)
MonitorSound ==
  /\ HubTypeOK /\ MetaCurrent /\ JsonReliable /\ LiveAccounted /\ NoGhosts
  /\ DemandExact /\ GapsHonest
=============================================================================
