---------------------------- MODULE MonitorProofs ----------------------------
(* Proofs about the monitor: the hub and its clients (Monitor) and the SUB     *)
(* thread's counting in front of it (Feed), for any number of clients,         *)
(* publishers and messages and queues of any size.                             *)
EXTENDS Monitor, SequenceFacts, TLAPS

-----------------------------------------------------------------------------
(* The SUB thread's counting                                                   *)

(* What the tracker of p, the messages that never came to it and the          *)
(* publisher's number have to do with each other.                             *)
FeedTypes ==
  /\ nextSeq \in [Publishers -> Nat] /\ restarted \in [Publishers -> Nat]
  /\ notSeen \in [Publishers -> Nat] /\ unseenTail \in [Publishers -> Nat]
  /\ tracker \in [Publishers -> [last : Nat \cup {NoSeq}, gaps : Nat, restarts : Nat]]

Tracked(t, next, again, unseen, tail) ==
  /\ t.gaps + tail <= unseen
  /\ t.last # NoSeq => next <= t.last + 1 + tail
  /\ t.last # NoSeq /\ next <= t.last => t.restarts + 1 <= again
  /\ t.restarts <= again
  /\ again = 0 /\ t.last # NoSeq => t.last + 1 + tail = next

FeedInv ==
  /\ FeedTypes
  /\ \A p \in Publishers :
       Tracked(tracker[p], nextSeq[p], restarted[p], notSeen[p], unseenTail[p])

-----------------------------------------------------------------------------
(* The hub                                                                     *)

RunNos == {0} \cup {s.run : s \in Statuses}
StateNames == {"none", ""} \cup {s.state : s \in Statuses}
Msg == [kind : {"meta", "run", "status"}, run : RunNos, state : StateNames]
StepText == [run : RunNos, state : StateNames]
StepNames == {"enter", "count", "store", "greet", "drop", "metaRun", "meta", "run", "remember", "status"}
HubStep == [name : StepNames, client : Actors, text : StepText]

HubTypes ==
  /\ task \in [Clients -> {"off", "reading", "closed"}]
  /\ writer \in [Clients -> {"off", "greeting", "on", "done"}]
  /\ registered \subseteq Clients /\ streams \in [Clients -> SUBSET Streams]
  /\ todo \in [Actors -> Seq(HubStep)]
  /\ metaRun \in RunNos /\ lastRunState \in StepText

(* The calls of a client's task, in the order of serve_client.                *)
CallEnter == <<Step("enter"), Step("count"), Step("store"), Step("greet")>>
CallCount == <<Step("count"), Step("store"), Step("greet")>>
CallStore == <<Step("store"), Step("greet")>>
CallGreet == <<Step("greet")>>
OnlyStore == <<Step("store")>>
OnlyDrop(c) == <<Drop(c)>>

ClientOK(t, w, s, reg, c) ==
  \/ t = "off" /\ w = "off" /\ s = << >>
  \/ t = "reading" /\ w = "off" /\ s = CallEnter
  \/ t = "reading" /\ w = "greeting" /\ s \in {CallCount, CallStore, CallGreet}
  \/ t = "reading" /\ w \in {"on", "done"} /\ s \in {Refresh, OnlyStore, << >>}
  \/ t = "closed" /\ w = "done" /\ s = OnlyDrop(c)
  \/ t = "closed" /\ w = "done" /\ s \in {Refresh, OnlyStore, << >>} /\ c \notin reg

ClientCalls == \A c \in Clients : ClientOK(task[c], writer[c], todo[c], registered, c)

(* The call of the SUB thread: the run of the meta message is set before it,  *)
(* and a count is stored right after it.                                      *)
SubNames == {"count", "store", "drop", "metaRun", "meta", "run", "remember", "status"}
SubOK(s) ==
  \A i \in DOMAIN s :
    /\ s[i].name \in SubNames
    /\ s[i].name = "metaRun" => i + 1 \in DOMAIN s /\ s[i + 1].name = "meta"
    /\ s[i].name = "store" => i = 1 \/ s[i - 1].name = "count"
SubCall == SubOK(todo[Sub])

CallInv == HubTypes /\ ClientCalls /\ SubCall

(* JSON messages.                                                             *)
Dropping(c) == \E i \in DOMAIN todo[Sub] : todo[Sub][i] = Drop(c)
GotOf(h, q) == (IF h = << >> THEN << >> ELSE Tail(h)) \o News(q)
DueOf(s, j) == SubSeq(s, j + 1, Len(s))

(* What the SUB thread drops it drops before it goes on.                      *)
DropsFirst(s) ==
  \A i, j \in DOMAIN s : s[i].name = "drop" /\ j <= i => s[j].name \in {"count", "store", "drop"}

(* The queue and the messages of a client in each state of its writer, and    *)
(* that what it got is the beginning of what it is due.                       *)
Fits(w, h, q, j, s) ==
  /\ q \in Seq(Msg) /\ h \in Seq(Msg) /\ j \in Nat /\ j <= Len(s) /\ Len(q) <= JsonQueue
  /\ w = "off" => q = << >> /\ h = << >>
  /\ w = "greeting" => h = << >>
  /\ w = "on" => h # << >>
  /\ Begins(DueOf(s, j), GotOf(h, q))

(* The last meta message of s is about run r.                                 *)
LastMeta(s, r) ==
  \E i \in DOMAIN s : /\ s[i].kind = "meta" /\ s[i].run = r
                      /\ \A j \in DOMAIN s : s[j].kind = "meta" => j <= i
NoMeta(s) == \A i \in DOMAIN s : s[i].kind # "meta"
Known(h, q, r) == LastMeta(q, r) \/ (NoMeta(q) /\ (h = << >> \/ LastMeta(h, r)))
MetaDue == \E i \in DOMAIN todo[Sub] : todo[Sub][i].name = "meta"

(* A client in the hub is about to be dropped, or got all that it is due and  *)
(* knows the run or is about to be told.                                      *)
Served(h, q, j, s, out, due, r) ==
  out \/ (GotOf(h, q) = DueOf(s, j) /\ (due \/ Known(h, q, r)))

JsonInv ==
  /\ said \in Seq(Msg) /\ DropsFirst(todo[Sub])
  /\ jsonQ \in [Clients -> Seq(Msg)] /\ heard \in [Clients -> Seq(Msg)]
  /\ joined \in [Clients -> Nat]
  /\ \A c \in Clients : Fits(writer[c], heard[c], jsonQ[c], joined[c], said)
  /\ \A c \in registered :
       /\ writer[c] # "off"
       /\ Served(heard[c], jsonQ[c], joined[c], said, Dropping(c), MetaDue, metaRun)

(* Live frames.                                                               *)
Lost(from, p, sn) ==
  {x \in Clients \X Nat : from[x[1]] < x[2] /\ x[2] <= p[x[1]] /\ x[2] \notin sn[x[1]]}
LiveInv ==
  /\ live \in Seq(Streams) /\ wsDropped \in Nat
  /\ pos \in [Clients -> Nat] /\ liveFrom \in [Clients -> Nat] /\ seen \in [Clients -> SUBSET Nat]
  /\ \A c \in Clients : /\ liveFrom[c] <= pos[c] /\ pos[c] <= Len(live)
                        /\ seen[c] \subseteq liveFrom[c] + 1 .. pos[c]
                        /\ writer[c] = "off" => pos[c] = 0 /\ liveFrom[c] = 0
  /\ wsDropped = Cardinality(Lost(liveFrom, pos, seen))

(* The demand.                                                                *)
Wanting == {c \in registered : "waveforms" \in streams[c]}
StoreNext(s) == s # << >> /\ Head(s).name = "store"
HasCount(s) == \E i \in DOMAIN s : s[i].name = "count"
StoreFollows(s) ==
  \A i \in DOMAIN s : s[i].name = "count" => i + 1 \in DOMAIN s /\ s[i + 1].name = "store"
Counting == \E a \in Actors : HasCount(todo[a])

(* As long as no two counts overlapped: at most one count is to be stored,    *)
(* and unless one is still to be made, the count to be stored, or else the    *)
(* demand, is that of the clients that want waveforms.                        *)
DemandInv ==
  /\ counted \in [Actors -> 0 .. Cardinality(Clients)] /\ demand \in 0 .. Cardinality(Clients)
  /\ overlapped \in BOOLEAN /\ StoreFollows(todo[Sub])
  /\ ~overlapped =>
       /\ \A a, b \in Actors : StoreNext(todo[a]) /\ StoreNext(todo[b]) => a = b
       /\ ~Counting =>
            \/ \E a \in Actors : StoreNext(todo[a]) /\ counted[a] = Cardinality(Wanting)
            \/ (\A a \in Actors : ~StoreNext(todo[a])) /\ demand = Cardinality(Wanting)

HubInv ==
  CallInv /\ JsonInv /\ LiveInv /\ clientCount = Cardinality(registered) /\ DemandInv

(* One number that comes: the tracker stays in step.                          *)
LEMMA ObserveKeeps ==
  ASSUME NEW t \in [last : Nat \cup {NoSeq}, gaps : Nat, restarts : Nat],
         NEW next \in Nat, NEW again \in Nat, NEW unseen \in Nat, NEW tail \in Nat,
         Tracked(t, next, again, unseen, tail)
  PROVE  /\ Observe(t, next) \in [last : Nat \cup {NoSeq}, gaps : Nat, restarts : Nat]
         /\ Tracked(Observe(t, next), next + 1, again, unseen, 0)
<1>1. PICK l, g, n : l = t.last /\ g = t.gaps /\ n = t.restarts
  OBVIOUS
<1>2. /\ l \in Nat \cup {NoSeq} /\ g \in Nat /\ n \in Nat /\ NoSeq = -1
      /\ g + tail <= unseen /\ (l # NoSeq => next <= l + 1 + tail)
      /\ (l # NoSeq /\ next <= l => n + 1 <= again) /\ n <= again
  BY <1>1 DEF Tracked, NoSeq
<1>3. CASE l # NoSeq /\ next <= l
  <2>1. Observe(t, next) = [last |-> next, gaps |-> g, restarts |-> n + 1]
    BY <1>1, <1>3 DEF Observe
  <2>2. n + 1 <= again /\ n + 1 \in Nat /\ again # 0
    BY <1>2, <1>3
  <2> QED
    BY <1>2, <2>1, <2>2 DEF Tracked
<1>4. CASE l = NoSeq
  <2>1. Observe(t, next) = [last |-> next, gaps |-> g, restarts |-> n]
    BY <1>1, <1>4 DEF Observe
  <2> QED
    BY <1>2, <2>1 DEF Tracked
<1>5. CASE l # NoSeq /\ ~(next <= l)
  <2>1. Observe(t, next) = [last |-> next, gaps |-> g + next - l - 1, restarts |-> n]
    BY <1>1, <1>5 DEF Observe
  <2>2. g + next - l - 1 \in Nat /\ g + next - l - 1 <= unseen
    BY <1>2, <1>5
  <2> QED
    BY <1>2, <2>1, <2>2 DEF Tracked
<1> QED
  BY <1>3, <1>4, <1>5

(* A message that does not come, and a publisher that starts again.           *)
LEMMA UnseenKeeps ==
  ASSUME NEW t \in [last : Nat \cup {NoSeq}, gaps : Nat, restarts : Nat],
         NEW next \in Nat, NEW again \in Nat, NEW unseen \in Nat, NEW tail \in Nat,
         Tracked(t, next, again, unseen, tail)
  PROVE  /\ Tracked(t, next + 1, again, unseen + 1, tail + 1)
         /\ Tracked(t, 0, again + 1, unseen, tail)
<1>1. PICK l, g, n : l = t.last /\ g = t.gaps /\ n = t.restarts
  OBVIOUS
<1>2. /\ l \in Nat \cup {NoSeq} /\ g \in Nat /\ n \in Nat /\ NoSeq = -1
      /\ g + tail <= unseen /\ (l # NoSeq => next <= l + 1 + tail)
      /\ (l # NoSeq /\ next <= l => n + 1 <= again) /\ n <= again
      /\ (again = 0 /\ l # NoSeq => l + 1 + tail = next)
  BY <1>1 DEF Tracked, NoSeq
<1>3. /\ g + (tail + 1) <= unseen + 1 /\ (l # NoSeq => next + 1 <= l + 1 + (tail + 1))
      /\ (l # NoSeq /\ next + 1 <= l => n + 1 <= again)
      /\ (again = 0 /\ l # NoSeq => l + 1 + (tail + 1) = next + 1)
  BY <1>2
<1>4. /\ (l # NoSeq => 0 <= l + 1 + tail) /\ n + 1 <= again + 1 /\ n <= again + 1
      /\ again + 1 # 0
  BY <1>2
<1> QED
  BY <1>1, <1>2, <1>3, <1>4 DEF Tracked

(* Every step of the feed keeps its invariant.                                *)
LEMMA FeedNextKeeps == FeedInv /\ FeedNext => FeedInv'
<1> SUFFICES ASSUME FeedInv, FeedNext PROVE FeedInv'
  OBVIOUS
<1> DEFINE T == [last : Nat \cup {NoSeq}, gaps : Nat, restarts : Nat]
<1>1. /\ nextSeq \in [Publishers -> Nat] /\ restarted \in [Publishers -> Nat]
      /\ notSeen \in [Publishers -> Nat] /\ unseenTail \in [Publishers -> Nat]
      /\ tracker \in [Publishers -> T]
      /\ \A p \in Publishers :
           Tracked(tracker[p], nextSeq[p], restarted[p], notSeen[p], unseenTail[p])
  BY DEF FeedInv, FeedTypes
<1>2. PICK p \in Publishers :
        (\E k \in Kinds : Deliver(p, k)) \/ Lose(p) \/ RestartPublisher(p)
  BY DEF FeedNext
<1>3. PICK t, next, again, unseen, tail :
        /\ t = tracker[p] /\ next = nextSeq[p] /\ again = restarted[p]
        /\ unseen = notSeen[p] /\ tail = unseenTail[p]
  OBVIOUS
<1>4. /\ t \in T /\ next \in Nat /\ again \in Nat /\ unseen \in Nat /\ tail \in Nat
      /\ Tracked(t, next, again, unseen, tail)
  BY <1>1, <1>3
<1>5. /\ Observe(t, next) \in T /\ Tracked(Observe(t, next), next + 1, again, unseen, 0)
  BY <1>4, ObserveKeeps
<1>6. /\ Tracked(t, next + 1, again, unseen + 1, tail + 1)
      /\ Tracked(t, 0, again + 1, unseen, tail)
  BY <1>4, UnseenKeeps
<1>7. ASSUME NEW t2 \in T, NEW n2 \in Nat, NEW a2 \in Nat, NEW u2 \in Nat, NEW l2 \in Nat,
             Tracked(t2, n2, a2, u2, l2),
             tracker' = [tracker EXCEPT ![p] = t2], nextSeq' = [nextSeq EXCEPT ![p] = n2],
             restarted' = [restarted EXCEPT ![p] = a2], notSeen' = [notSeen EXCEPT ![p] = u2],
             unseenTail' = [unseenTail EXCEPT ![p] = l2]
      PROVE  FeedInv'
  <2> HIDE DEF T
  <2>1. /\ nextSeq' \in [Publishers -> Nat] /\ restarted' \in [Publishers -> Nat]
        /\ notSeen' \in [Publishers -> Nat] /\ unseenTail' \in [Publishers -> Nat]
        /\ tracker' \in [Publishers -> T]
    BY <1>1, <1>7
  <2>2. ASSUME NEW q \in Publishers
        PROVE  Tracked(tracker'[q], nextSeq'[q], restarted'[q], notSeen'[q], unseenTail'[q])
    <3>1. CASE q = p
      <4>1. /\ tracker'[q] = t2 /\ nextSeq'[q] = n2 /\ restarted'[q] = a2 /\ notSeen'[q] = u2
            /\ unseenTail'[q] = l2
        BY <1>1, <1>7, <3>1
      <4> QED
        BY <1>7, <4>1
    <3>2. CASE q # p
      <4>1. /\ tracker'[q] = tracker[q] /\ nextSeq'[q] = nextSeq[q] /\ restarted'[q] = restarted[q]
            /\ notSeen'[q] = notSeen[q] /\ unseenTail'[q] = unseenTail[q]
        BY <1>1, <1>7, <3>2
      <4> QED
        BY <1>1, <4>1
    <3> QED
      BY <3>1, <3>2
  <2> QED
    BY <2>1, <2>2 DEF FeedInv, FeedTypes, T
<1>8. /\ tracker = [tracker EXCEPT ![p] = t] /\ nextSeq = [nextSeq EXCEPT ![p] = next]
      /\ restarted = [restarted EXCEPT ![p] = again] /\ notSeen = [notSeen EXCEPT ![p] = unseen]
      /\ unseenTail = [unseenTail EXCEPT ![p] = tail]
  <2> HIDE DEF T
  <2> QED
    BY <1>1, <1>3
<1> HIDE DEF T
<1>9. CASE \E k \in Kinds : k # "broken" /\ Deliver(p, k)
  <2>1. /\ tracker' = [tracker EXCEPT ![p] = Observe(t, next)]
        /\ nextSeq' = [nextSeq EXCEPT ![p] = next + 1] /\ restarted' = restarted
        /\ notSeen' = notSeen /\ unseenTail' = [unseenTail EXCEPT ![p] = 0]
    BY <1>3, <1>9 DEF Deliver, Publishes
  <2>2. restarted' = [restarted EXCEPT ![p] = again] /\ notSeen' = [notSeen EXCEPT ![p] = unseen]
    BY <1>8, <2>1
  <2>3. next + 1 \in Nat /\ 0 \in Nat /\ again \in Nat /\ unseen \in Nat
    BY <1>4
  <2> QED
    BY <1>5, <1>7, <2>1, <2>2, <2>3
<1>10. CASE Deliver(p, "broken") \/ Lose(p)
  <2>1. /\ tracker' = tracker /\ restarted' = restarted
        /\ nextSeq' = [nextSeq EXCEPT ![p] = next + 1]
        /\ notSeen' = [notSeen EXCEPT ![p] = unseen + 1]
        /\ unseenTail' = [unseenTail EXCEPT ![p] = tail + 1]
    BY <1>3, <1>10 DEF Deliver, Lose, Publishes
  <2>2. tracker' = [tracker EXCEPT ![p] = t] /\ restarted' = [restarted EXCEPT ![p] = again]
    BY <1>8, <2>1
  <2>3. t \in T /\ next + 1 \in Nat /\ again \in Nat /\ unseen + 1 \in Nat /\ tail + 1 \in Nat
    BY <1>4
  <2> QED
    BY <1>6, <1>7, <2>1, <2>2, <2>3
<1>11. CASE RestartPublisher(p)
  <2>1. /\ tracker' = tracker /\ restarted' = [restarted EXCEPT ![p] = again + 1]
        /\ nextSeq' = [nextSeq EXCEPT ![p] = 0] /\ notSeen' = notSeen /\ unseenTail' = unseenTail
    BY <1>3, <1>11 DEF RestartPublisher
  <2>2. /\ tracker' = [tracker EXCEPT ![p] = t] /\ notSeen' = [notSeen EXCEPT ![p] = unseen]
        /\ unseenTail' = [unseenTail EXCEPT ![p] = tail]
    BY <1>8, <2>1
  <2>3. t \in T /\ 0 \in Nat /\ again + 1 \in Nat /\ unseen \in Nat /\ tail \in Nat
    BY <1>4
  <2> QED
    BY <1>6, <1>7, <2>1, <2>2, <2>3
<1> QED
  BY <1>2, <1>9, <1>10, <1>11

(* The first state, and what the invariant says of the counters.              *)
LEMMA FeedFacts == (FeedInit => FeedInv) /\ (FeedInv => GapsHonest)
<1>1. ASSUME FeedInit PROVE FeedInv
  <2>1. FeedTypes
    BY <1>1 DEF FeedInit, FeedTypes, NoSeq
  <2>2. ASSUME NEW p \in Publishers
        PROVE  Tracked(tracker[p], nextSeq[p], restarted[p], notSeen[p], unseenTail[p])
    <3>1. /\ tracker[p].last = NoSeq /\ tracker[p].gaps = 0 /\ tracker[p].restarts = 0
          /\ nextSeq[p] = 0 /\ restarted[p] = 0 /\ notSeen[p] = 0 /\ unseenTail[p] = 0
      BY <1>1 DEF FeedInit
    <3> QED
      BY <3>1 DEF Tracked
  <2> QED
    BY <2>1, <2>2 DEF FeedInv
<1>2. ASSUME FeedInv, NEW p \in Publishers
      PROVE  /\ tracker[p].gaps <= notSeen[p] /\ tracker[p].restarts <= restarted[p]
             /\ restarted[p] = 0 /\ tracker[p].last # NoSeq =>
                  \E early \in 0 .. notSeen[p] :
                    /\ notSeen[p] = early + tracker[p].gaps + unseenTail[p]
                    /\ tracker[p].last + 1 + unseenTail[p] = nextSeq[p]
  <2>1. PICK l, g, n, next, again, unseen, tail :
          /\ l = tracker[p].last /\ g = tracker[p].gaps /\ n = tracker[p].restarts
          /\ next = nextSeq[p] /\ again = restarted[p]
          /\ unseen = notSeen[p] /\ tail = unseenTail[p]
    OBVIOUS
  <2>2. /\ g \in Nat /\ n \in Nat /\ next \in Nat /\ again \in Nat /\ unseen \in Nat /\ tail \in Nat
    BY <1>2, <2>1 DEF FeedInv, FeedTypes
  <2>3. /\ g + tail <= unseen /\ n <= again /\ (again = 0 /\ l # NoSeq => l + 1 + tail = next)
    BY <1>2, <2>1 DEF FeedInv, Tracked
  <2>4. g <= unseen /\ unseen - g - tail \in 0 .. unseen
        /\ unseen = (unseen - g - tail) + g + tail
    BY <2>2, <2>3
  <2> QED
    BY <2>1, <2>3, <2>4
<1> QED
  BY <1>1, <1>2 DEF GapsHonest

-----------------------------------------------------------------------------
(* The steps of a call.                                                       *)

(* Every step is one.                                                         *)
LEMMA StepIs ==
  /\ \A name \in StepNames : Step(name) \in HubStep
  /\ \A c \in Actors : Drop(c) \in HubStep
  /\ \A name : Step(name).name = name
  /\ \A c : Drop(c).name = "drop" /\ Drop(c).client = c
<1>1. NoState \in StepText /\ Sub \in Actors /\ "drop" \in StepNames
  BY DEF NoState, StepText, RunNos, StateNames, Actors, StepNames
<1> QED
  BY <1>1 DEF Step, Drop, HubStep

(* A sequence of three, and of four.                                          *)
LEMMA LongTuples ==
  ASSUME NEW a, NEW b, NEW c, NEW d
  PROVE  /\ <<a, b, c>> # << >> /\ Head(<<a, b, c>>) = a /\ Tail(<<a, b, c>>) = <<b, c>>
         /\ <<a, b, c, d>> # << >> /\ Head(<<a, b, c, d>>) = a
         /\ Tail(<<a, b, c, d>>) = <<b, c, d>>
OBVIOUS

(* What is next in a client's call, and what is left of it then.              *)
LEMMA CallShapes ==
  /\ CallEnter # << >> /\ Head(CallEnter).name = "enter" /\ Tail(CallEnter) = CallCount
  /\ CallCount # << >> /\ Head(CallCount).name = "count" /\ Tail(CallCount) = CallStore
  /\ CallStore # << >> /\ Head(CallStore).name = "store" /\ Tail(CallStore) = CallGreet
  /\ CallGreet # << >> /\ Head(CallGreet).name = "greet" /\ Tail(CallGreet) = << >>
  /\ Refresh # << >> /\ Head(Refresh).name = "count" /\ Tail(Refresh) = OnlyStore
  /\ OnlyStore # << >> /\ Head(OnlyStore).name = "store" /\ Tail(OnlyStore) = << >>
  /\ \A c : /\ OnlyDrop(c) # << >> /\ Head(OnlyDrop(c)).name = "drop"
            /\ Head(OnlyDrop(c)).client = c /\ Tail(OnlyDrop(c)) = << >>
<1>1. PICK e, n, s, g : e = Step("enter") /\ n = Step("count") /\ s = Step("store") /\ g = Step("greet")
  OBVIOUS
<1>2. e.name = "enter" /\ n.name = "count" /\ s.name = "store" /\ g.name = "greet"
  BY <1>1, StepIs
<1>3. /\ CallEnter = <<e, n, s, g>> /\ CallCount = <<n, s, g>> /\ CallStore = <<s, g>>
      /\ CallGreet = <<g>> /\ Refresh = <<n, s>> /\ OnlyStore = <<s>>
  BY <1>1 DEF CallEnter, CallCount, CallStore, CallGreet, Refresh, OnlyStore
<1>4. ASSUME NEW c
      PROVE  /\ OnlyDrop(c) # << >> /\ Head(OnlyDrop(c)).name = "drop"
             /\ Head(OnlyDrop(c)).client = c /\ Tail(OnlyDrop(c)) = << >>
  <2>1. PICK d : d = Drop(c)
    OBVIOUS
  <2>2. d.name = "drop" /\ d.client = c /\ OnlyDrop(c) = <<d>>
    BY <2>1, StepIs DEF OnlyDrop
  <2> QED
    BY <2>2, SmallTuples
<1>5. /\ CallEnter # << >> /\ Head(CallEnter) = e /\ Tail(CallEnter) = CallCount
  BY <1>3, LongTuples
<1>6. /\ CallCount # << >> /\ Head(CallCount) = n /\ Tail(CallCount) = CallStore
  BY <1>3, LongTuples
<1>7. /\ CallStore # << >> /\ Head(CallStore) = s /\ Tail(CallStore) = CallGreet
      /\ Refresh # << >> /\ Head(Refresh) = n /\ Tail(Refresh) = OnlyStore
  BY <1>3, SmallTuples
<1>8. /\ CallGreet # << >> /\ Head(CallGreet) = g /\ Tail(CallGreet) = << >>
      /\ OnlyStore # << >> /\ Head(OnlyStore) = s /\ Tail(OnlyStore) = << >>
  BY <1>3, SmallTuples
<1> QED
  BY <1>2, <1>4, <1>5, <1>6, <1>7, <1>8

(* They are calls.                                                            *)
LEMMA CallTypes ==
  /\ CallEnter \in Seq(HubStep) /\ CallCount \in Seq(HubStep) /\ CallStore \in Seq(HubStep)
  /\ CallGreet \in Seq(HubStep) /\ Refresh \in Seq(HubStep) /\ OnlyStore \in Seq(HubStep)
  /\ << >> \in Seq(HubStep) /\ \A c \in Clients : OnlyDrop(c) \in Seq(HubStep)
  /\ <<Step("enter")>> \o Refresh \o <<Step("greet")>> = CallEnter
<1>1. PICK e, n, s, g : e = Step("enter") /\ n = Step("count") /\ s = Step("store") /\ g = Step("greet")
  OBVIOUS
<1>2. e \in HubStep /\ n \in HubStep /\ s \in HubStep /\ g \in HubStep
  BY <1>1, StepIs DEF StepNames
<1>3. /\ CallEnter = <<e, n, s, g>> /\ CallCount = <<n, s, g>> /\ CallStore = <<s, g>>
      /\ CallGreet = <<g>> /\ Refresh = <<n, s>> /\ OnlyStore = <<s>>
  BY <1>1 DEF CallEnter, CallCount, CallStore, CallGreet, Refresh, OnlyStore
<1>4. ASSUME NEW c \in Clients PROVE OnlyDrop(c) \in Seq(HubStep)
  <2>1. PICK d \in HubStep : d = Drop(c)
    BY StepIs DEF Actors
  <2> QED
    BY <2>1 DEF OnlyDrop
<1>5. <<e>> \o <<n, s>> \o <<g>> = <<e, n, s, g>>
  <2>1. PICK a, b, c, r : a = <<e>> /\ b = <<n, s>> /\ c = <<g>> /\ r = <<e, n, s, g>>
    OBVIOUS
  <2>2. /\ a \in Seq(HubStep) /\ b \in Seq(HubStep) /\ c \in Seq(HubStep) /\ r \in Seq(HubStep)
        /\ Len(a) = 1 /\ Len(b) = 2 /\ Len(c) = 1 /\ Len(r) = 4 /\ a[1] = e /\ b[1] = n
        /\ b[2] = s /\ c[1] = g /\ r[1] = e /\ r[2] = n /\ r[3] = s /\ r[4] = g
    BY <1>2, <2>1
  <2>3. PICK d : d = a \o b
    OBVIOUS
  <2>4. d \in Seq(HubStep) /\ Len(d) = 3 /\ d[1] = e /\ d[1 + 1] = n /\ d[1 + 2] = s
    <3>0. a \in Seq(HubStep) /\ b \in Seq(HubStep)
      BY <2>2
    <3>1. /\ d \in Seq(HubStep) /\ Len(d) = Len(a) + Len(b) /\ \A i \in 1 .. Len(a) : d[i] = a[i]
          /\ \A i \in 1 .. Len(b) : d[Len(a) + i] = b[i]
      BY <2>3, <3>0, ConcatShape
    <3> QED
      BY <2>2, <3>1
  <2>5. PICK f : f = d \o c
    OBVIOUS
  <2>6. f \in Seq(HubStep) /\ Len(f) = 4 /\ f[1] = e /\ f[2] = n /\ f[3] = s /\ f[3 + 1] = g
    <3>0. d \in Seq(HubStep) /\ c \in Seq(HubStep)
      BY <2>2, <2>4
    <3>1. /\ f \in Seq(HubStep) /\ Len(f) = Len(d) + Len(c) /\ \A i \in 1 .. Len(d) : f[i] = d[i]
          /\ \A i \in 1 .. Len(c) : f[Len(d) + i] = c[i]
      BY <2>5, <3>0, ConcatShape
    <3> QED
      BY <2>2, <2>4, <3>1
  <2>7. \A i \in 1 .. 4 : f[i] = r[i]
    BY <2>2, <2>6
  <2>8. f = r
    BY <2>2, <2>6, <2>7
  <2> QED
    BY <2>1, <2>3, <2>5, <2>8
<1> QED
  BY <1>1, <1>2, <1>3, <1>4, <1>5

(* What is left of a call of the SUB thread, and what comes before it.        *)
LEMMA SubTail ==
  ASSUME NEW s \in Seq(HubStep), s # << >>, SubOK(s)
  PROVE  /\ SubOK(Tail(s))
         /\ Head(s).name # "count" => Tail(s) = << >> \/ Head(Tail(s)).name # "store"
<1> DEFINE t == Tail(s)
           n == Len(s)
<1>1. /\ n \in Nat /\ n >= 1 /\ t \in Seq(HubStep) /\ DOMAIN s = 1 .. n /\ DOMAIN t = 1 .. n - 1
      /\ \A i \in 1 .. n - 1 : t[i] = s[i + 1]
      /\ Head(s) = s[1]
  BY TailShape
<1>2. \A i \in 1 .. n : /\ s[i].name \in SubNames
                        /\ s[i].name = "metaRun" => i + 1 \in 1 .. n /\ s[i + 1].name = "meta"
                        /\ s[i].name = "store" => i = 1 \/ s[i - 1].name = "count"
  BY <1>1 DEF SubOK
<1> HIDE DEF t, n
<1>3. ASSUME NEW i \in 1 .. n - 1
      PROVE  /\ t[i].name \in SubNames
             /\ t[i].name = "metaRun" => i + 1 \in 1 .. n - 1 /\ t[i + 1].name = "meta"
             /\ t[i].name = "store" => i = 1 \/ t[i - 1].name = "count"
  <2>1. i + 1 \in 1 .. n /\ (i + 1) - 1 = i
    BY <1>1
  <2>2. t[i] = s[i + 1]
    BY <1>1
  <2>3. /\ s[i + 1].name \in SubNames
        /\ s[i + 1].name = "metaRun" => i + 2 \in 1 .. n /\ s[i + 2].name = "meta"
        /\ s[i + 1].name = "store" => i + 1 = 1 \/ s[i].name = "count"
    BY <1>2, <2>1
  <2>4. ASSUME t[i].name = "metaRun" PROVE i + 1 \in 1 .. n - 1 /\ t[i + 1].name = "meta"
    <3>1. i + 1 \in 1 .. n - 1
      BY <1>1, <2>2, <2>3, <2>4
    <3>2. t[i + 1] = s[i + 2]
      BY <1>1, <3>1
    <3> QED
      BY <2>2, <2>3, <2>4, <3>1, <3>2
  <2>5. ASSUME t[i].name = "store", i # 1 PROVE t[i - 1].name = "count"
    <3>1. i - 1 \in 1 .. n - 1 /\ (i - 1) + 1 = i
      BY <1>1, <2>5
    <3>2. t[i - 1] = s[i]
      BY <1>1, <3>1
    <3> QED
      BY <2>2, <2>3, <2>5, <3>2
  <2> QED
    BY <2>2, <2>3, <2>4, <2>5
<1>4. SubOK(t)
  BY <1>1, <1>3 DEF SubOK
<1>5. ASSUME t # << >>, Head(t).name = "store" PROVE Head(s).name = "count"
  <2>1. Head(t) = t[1] /\ 1 \in 1 .. n - 1
    BY <1>1, <1>5
  <2>2. t[1] = s[2] /\ 2 \in 1 .. n
    BY <1>1, <2>1
  <2>3. s[2 - 1].name = "count"
    BY <1>2, <1>5, <2>1, <2>2
  <2> QED
    BY <1>1, <2>3
<1> QED
  BY <1>4, <1>5 DEF t

(* Steps put before a call that does not begin with a store.                  *)
LEMMA SubBefore ==
  ASSUME NEW p \in Seq(HubStep), NEW t \in Seq(HubStep), SubOK(t), SubOK(p),
         p = << >> \/ t = << >> \/ Head(t).name # "store"
  PROVE  SubOK(p \o t)
<1> DEFINE s == p \o t
           m == Len(p)
           n == Len(t)
<1>1. /\ s \in Seq(HubStep) /\ m \in Nat /\ n \in Nat /\ Len(s) = m + n
      /\ DOMAIN s = 1 .. m + n /\ DOMAIN p = 1 .. m /\ DOMAIN t = 1 .. n
      /\ \A i \in 1 .. m : s[i] = p[i]
      /\ \A i \in m + 1 .. m + n : s[i] = t[i - m]
  BY ConcatShape
<1>2. \A i \in 1 .. n : /\ t[i].name \in SubNames
                        /\ t[i].name = "metaRun" => i + 1 \in 1 .. n /\ t[i + 1].name = "meta"
                        /\ t[i].name = "store" => i = 1 \/ t[i - 1].name = "count"
  BY <1>1 DEF SubOK
<1>3. \A i \in 1 .. m : /\ p[i].name \in SubNames
                        /\ p[i].name = "metaRun" => i + 1 \in 1 .. m /\ p[i + 1].name = "meta"
                        /\ p[i].name = "store" => i = 1 \/ p[i - 1].name = "count"
  BY <1>1 DEF SubOK
<1>4. m = 0 \/ n = 0 \/ t[1].name # "store"
  <2>1. p = << >> => m = 0
    OBVIOUS
  <2>2. t = << >> => n = 0
    OBVIOUS
  <2>3. t # << >> => Head(t) = t[1]
    OBVIOUS
  <2> QED
    BY <2>1, <2>2, <2>3
<1> HIDE DEF s, m, n
<1>5. ASSUME NEW i \in 1 .. m
      PROVE  /\ s[i].name \in SubNames
             /\ s[i].name = "metaRun" => i + 1 \in 1 .. m + n /\ s[i + 1].name = "meta"
             /\ s[i].name = "store" => i = 1 \/ s[i - 1].name = "count"
  <2>1. s[i] = p[i]
    BY <1>1
  <2>2. /\ p[i].name \in SubNames
        /\ p[i].name = "metaRun" => i + 1 \in 1 .. m /\ p[i + 1].name = "meta"
        /\ p[i].name = "store" => i = 1 \/ p[i - 1].name = "count"
    BY <1>3
  <2>3. ASSUME i + 1 \in 1 .. m PROVE i + 1 \in 1 .. m + n /\ s[i + 1] = p[i + 1]
    BY <1>1, <2>3
  <2>4. ASSUME i # 1 PROVE s[i - 1] = p[i - 1]
    <3>1. i - 1 \in 1 .. m
      BY <1>1, <2>4
    <3> QED
      BY <1>1, <3>1
  <2> QED
    BY <2>1, <2>2, <2>3, <2>4
<1>6. ASSUME NEW i \in m + 1 .. m + n
      PROVE  /\ s[i].name \in SubNames
             /\ s[i].name = "metaRun" => i + 1 \in 1 .. m + n /\ s[i + 1].name = "meta"
             /\ s[i].name = "store" => i = 1 \/ s[i - 1].name = "count"
  <2>1. PICK k \in 1 .. n : k = i - m
    BY <1>1
  <2>2. s[i] = t[k] /\ i = m + k
    BY <1>1, <2>1
  <2>3. /\ t[k].name \in SubNames
        /\ t[k].name = "metaRun" => k + 1 \in 1 .. n /\ t[k + 1].name = "meta"
        /\ t[k].name = "store" => k = 1 \/ t[k - 1].name = "count"
    BY <1>2
  <2>4. ASSUME s[i].name = "metaRun" PROVE i + 1 \in 1 .. m + n /\ s[i + 1].name = "meta"
    <3>1. i + 1 \in m + 1 .. m + n /\ i + 1 \in 1 .. m + n /\ (i + 1) - m = k + 1
      BY <1>1, <2>2, <2>3, <2>4
    <3>2. s[i + 1] = t[k + 1]
      BY <1>1, <3>1
    <3> QED
      BY <2>2, <2>3, <2>4, <3>1, <3>2
  <2>5. ASSUME s[i].name = "store", i # 1 PROVE s[i - 1].name = "count"
    <3>1. CASE k = 1
      <4>1. t[1].name = "store" /\ n # 0
        BY <1>1, <2>2, <2>5, <3>1
      <4>2. m = 0
        BY <1>4, <4>1
      <4> QED
        BY <2>2, <2>5, <3>1, <4>2
    <3>2. CASE k # 1
      <4>1. i - 1 \in m + 1 .. m + n /\ (i - 1) - m = k - 1
        BY <1>1, <2>2, <3>2
      <4>2. s[i - 1] = t[k - 1]
        BY <1>1, <4>1
      <4> QED
        BY <2>2, <2>3, <2>5, <3>2, <4>2
    <3> QED
      BY <3>1, <3>2
  <2> QED
    BY <2>2, <2>3, <2>4, <2>5
<1>7. \A i \in 1 .. m + n : i \in 1 .. m \/ i \in m + 1 .. m + n
  BY <1>1
<1>8. SubOK(s)
  BY <1>1, <1>5, <1>6, <1>7 DEF SubOK
<1> QED
  BY <1>8 DEF s

-----------------------------------------------------------------------------
(* The calls                                                                   *)

(* Nothing before a call leaves it as it is.                                  *)
LEMMA NothingBefore ==
  ASSUME NEW S, NEW s \in Seq(S)
  PROVE  << >> \o s = s /\ s \o << >> = s
OBVIOUS

(* What is left of a client's call after a step of the hub.                   *)
LEMMA ClientPops ==
  ASSUME NEW t, NEW w, NEW s, NEW reg, NEW c, ClientOK(t, w, s, reg, c), s # << >>
  PROVE  /\ Head(s).name \in {"count", "store"} => ClientOK(t, w, Tail(s), reg, c)
         /\ Head(s).name = "enter" => t = "reading" /\ w = "off" /\ s = CallEnter
         /\ Head(s).name = "greet" => t = "reading" /\ w = "greeting" /\ s = CallGreet
         /\ Head(s).name = "drop" => t = "closed" /\ w = "done" /\ s = OnlyDrop(c)
         /\ Head(s).name \notin {"metaRun", "meta", "run", "remember", "status"}
<1>1. CASE s = CallEnter
  <2>1. t = "reading" /\ w = "off" /\ Head(s).name = "enter"
    BY <1>1, CallShapes DEF ClientOK
  <2> QED
    BY <1>1, <2>1
<1>2. CASE s = CallCount
  BY <1>2, CallShapes DEF ClientOK
<1>3. CASE s = CallStore
  BY <1>3, CallShapes DEF ClientOK
<1>4. CASE s = CallGreet
  BY <1>4, CallShapes DEF ClientOK
<1>5. CASE s = Refresh
  BY <1>5, CallShapes DEF ClientOK
<1>6. CASE s = OnlyStore
  BY <1>6, CallShapes DEF ClientOK
<1>7. CASE s = OnlyDrop(c)
  BY <1>7, CallShapes DEF ClientOK
<1> QED
  BY <1>1, <1>2, <1>3, <1>4, <1>5, <1>6, <1>7 DEF ClientOK

(* A step of a client's task or of the hub in its name.                       *)
LEMMA ClientMoves ==
  ASSUME CallInv, NEW c \in Clients, NEW s \in Seq(HubStep), todo' = [todo EXCEPT ![c] = s],
         task' \in [Clients -> {"off", "reading", "closed"}],
         writer' \in [Clients -> {"off", "greeting", "on", "done"}],
         \A b \in Clients : b # c => task'[b] = task[b] /\ writer'[b] = writer[b],
         registered' \subseteq registered \cup {c},
         ClientOK(task'[c], writer'[c], s, registered', c)
  PROVE  todo' \in [Actors -> Seq(HubStep)] /\ ClientCalls' /\ SubCall'
<1>1. /\ todo \in [Actors -> Seq(HubStep)] /\ ClientCalls /\ SubCall
  BY DEF CallInv, HubTypes
<1>2. c \in Actors /\ Sub \in Actors /\ c # Sub /\ Clients \subseteq Actors
  BY MonitorAssumption DEF Actors, MonitorAssumption
<1>3. /\ todo' \in [Actors -> Seq(HubStep)] /\ todo'[Sub] = todo[Sub] /\ todo'[c] = s
      /\ \A b \in Clients : b # c => todo'[b] = todo[b]
  BY <1>1, <1>2
<1>4. SubCall'
  BY <1>1, <1>3 DEF SubCall
<1>5. ASSUME NEW b \in Clients PROVE ClientOK(task'[b], writer'[b], todo'[b], registered', b)
  <2>1. CASE b = c
    BY <1>3, <2>1
  <2>2. CASE b # c
    <3>1. ClientOK(task[b], writer[b], todo[b], registered, b)
      BY <1>1 DEF ClientCalls
    <3>2. b \notin registered => b \notin registered'
      BY <2>2
    <3>3. ClientOK(task[b], writer[b], todo[b], registered', b)
      BY <3>1, <3>2 DEF ClientOK
    <3> QED
      BY <1>3, <2>2, <3>3
  <2> QED
    BY <2>1, <2>2
<1> QED
  BY <1>3, <1>4, <1>5 DEF ClientCalls

(* A step of the SUB thread's call.                                           *)
LEMMA SubMoves ==
  ASSUME CallInv, NEW s \in Seq(HubStep), todo' = [todo EXCEPT ![Sub] = s], SubOK(s),
         task' = task, writer' = writer, registered' \subseteq registered
  PROVE  todo' \in [Actors -> Seq(HubStep)] /\ ClientCalls' /\ SubCall'
<1>1. /\ todo \in [Actors -> Seq(HubStep)] /\ ClientCalls
  BY DEF CallInv, HubTypes
<1>2. Sub \in Actors /\ Clients \subseteq Actors /\ Sub \notin Clients
  BY MonitorAssumption DEF Actors, MonitorAssumption
<1>3. /\ todo' \in [Actors -> Seq(HubStep)] /\ todo'[Sub] = s
      /\ \A b \in Clients : todo'[b] = todo[b]
  BY <1>1, <1>2
<1>4. ASSUME NEW b \in Clients PROVE ClientOK(task'[b], writer'[b], todo'[b], registered', b)
  <2>1. ClientOK(task[b], writer[b], todo[b], registered, b)
    BY <1>1 DEF ClientCalls
  <2>2. ClientOK(task[b], writer[b], todo[b], registered', b)
    BY <2>1 DEF ClientOK
  <2> QED
    BY <1>3, <2>2
<1> QED
  BY <1>3, <1>4 DEF ClientCalls, SubCall

(* What a call goes on with.                                                  *)
LEMMA Continues ==
  ASSUME CallInv, NEW a \in Actors, NEW p \in Seq(HubStep), todo[a] # << >>, Continue(a, p)
  PROVE  /\ p \o Tail(todo[a]) \in Seq(HubStep) /\ todo' = [todo EXCEPT ![a] = p \o Tail(todo[a])]
         /\ Tail(todo[a]) \in Seq(HubStep) /\ << >> \o Tail(todo[a]) = Tail(todo[a])
         /\ a \in Clients => ClientOK(task[a], writer[a], todo[a], registered, a)
         /\ a = Sub => /\ SubOK(Tail(todo[a]))
                       /\ Head(todo[a]).name # "count" =>
                            Tail(todo[a]) = << >> \/ Head(Tail(todo[a])).name # "store"
<1>1. todo \in [Actors -> Seq(HubStep)] /\ ClientCalls /\ SubCall
  BY DEF CallInv, HubTypes
<1>2. PICK q \in Seq(HubStep) : q = todo[a]
  BY <1>1
<1>3. PICK r \in Seq(HubStep) : r = Tail(q)
  <2>1. q # << >>
    BY <1>2
  <2>2. Tail(q) \in Seq(HubStep)
    BY <2>1, TailShape
  <2> QED
    BY <2>2
<1>4. p \o r \in Seq(HubStep) /\ << >> \o r = r
  BY ConcatShape, NothingBefore
<1>5. todo' = [todo EXCEPT ![a] = p \o r]
  BY <1>2, <1>3 DEF Continue
<1>6. a \in Clients => ClientOK(task[a], writer[a], todo[a], registered, a)
  BY <1>1 DEF ClientCalls
<1>7. ASSUME a = Sub
      PROVE  SubOK(r) /\ (Head(q).name # "count" => r = << >> \/ Head(r).name # "store")
  <2>1. SubOK(q) /\ q # << >>
    BY <1>1, <1>2, <1>7 DEF SubCall
  <2>2. SubOK(Tail(q)) /\ (Head(q).name # "count" => Tail(q) = << >> \/ Head(Tail(q)).name # "store")
    BY <2>1, SubTail
  <2> QED
    BY <1>3, <2>2
<1>8. r = Tail(todo[a]) /\ Head(q) = Head(todo[a])
  BY <1>2, <1>3
<1>9. a = Sub => /\ SubOK(Tail(todo[a]))
                 /\ Head(todo[a]).name # "count" =>
                      Tail(todo[a]) = << >> \/ Head(Tail(todo[a])).name # "store"
  BY <1>7, <1>8
<1>10. /\ p \o Tail(todo[a]) \in Seq(HubStep) /\ todo' = [todo EXCEPT ![a] = p \o Tail(todo[a])]
       /\ Tail(todo[a]) \in Seq(HubStep) /\ << >> \o Tail(todo[a]) = Tail(todo[a])
  BY <1>4, <1>5, <1>8
<1> QED
  BY <1>6, <1>9, <1>10

(* A message about the status is handled in the order of on_status.           *)
LEMMA StatusShape ==
  ASSUME NEW run \in RunNos, NEW state \in StateNames
  PROVE  StatusSteps(run, state) \in Seq(HubStep) /\ SubOK(StatusSteps(run, state))
<1>1. ASSUME NEW name \in StepNames, NEW st \in StateNames
      PROVE  Say(name, run, st) \in HubStep /\ Say(name, run, st).name = name
  BY DEF Say, HubStep, StepText, Actors
<1>2. PICK a, b, c, d, e : /\ a = Say("metaRun", run, "") /\ b = Say("meta", run, "")
                           /\ c = Say("run", run, state) /\ d = Say("remember", run, state)
                           /\ e = Say("status", run, state)
  OBVIOUS
<1>3. "" \in StateNames
  BY DEF StateNames
<1>4. /\ a \in HubStep /\ b \in HubStep /\ c \in HubStep /\ d \in HubStep /\ e \in HubStep
      /\ a.name = "metaRun" /\ b.name = "meta" /\ c.name = "run" /\ d.name = "remember"
      /\ e.name = "status"
  BY <1>1, <1>2, <1>3 DEF StepNames
<1>5. PICK p, q, r : /\ p = IF lastRunState.run # run THEN <<a, b>> ELSE << >>
                     /\ q = IF lastRunState.run # run \/ lastRunState.state # state
                            THEN <<c, d>> ELSE << >>
                     /\ r = <<e>>
  OBVIOUS
<1>6. StatusSteps(run, state) = (p \o q) \o r
  BY <1>2, <1>5 DEF StatusSteps
<1>7. ASSUME NEW x \in HubStep, NEW y \in HubStep, x.name \in SubNames, y.name \in SubNames,
             x.name # "store", y.name # "store", y.name # "metaRun",
             x.name = "metaRun" => y.name = "meta"
      PROVE  /\ <<x, y>> \in Seq(HubStep) /\ SubOK(<<x, y>>) /\ Head(<<x, y>>).name # "store"
             /\ <<y>> \in Seq(HubStep) /\ SubOK(<<y>>) /\ Head(<<y>>).name # "store"
  <2>1. /\ <<x, y>>[1] = x /\ <<x, y>>[2] = y /\ DOMAIN <<x, y>> = {1, 2}
        /\ <<y>>[1] = y /\ DOMAIN <<y>> = {1} /\ Head(<<x, y>>) = x /\ Head(<<y>>) = y
    BY SmallTuples
  <2>2. <<x, y>> \in Seq(HubStep) /\ <<y>> \in Seq(HubStep)
    OBVIOUS
  <2>3. SubOK(<<x, y>>)
    BY <1>7, <2>1 DEF SubOK
  <2>4. SubOK(<<y>>)
    BY <1>7, <2>1 DEF SubOK
  <2> QED
    BY <1>7, <2>1, <2>2, <2>3, <2>4
<1>8. {"metaRun", "meta", "run", "remember", "status"} \subseteq SubNames
  BY DEF SubNames
<1>9. << >> \in Seq(HubStep) /\ SubOK(<< >>)
  BY DEF SubOK
<1>10. p \in Seq(HubStep) /\ SubOK(p)
  <2>1. <<a, b>> \in Seq(HubStep) /\ SubOK(<<a, b>>)
    BY <1>4, <1>7, <1>8
  <2> QED
    BY <1>5, <1>9, <2>1
<1>11. q \in Seq(HubStep) /\ SubOK(q) /\ (q = << >> \/ Head(q).name # "store")
  <2>1. <<c, d>> \in Seq(HubStep) /\ SubOK(<<c, d>>) /\ Head(<<c, d>>).name # "store"
    BY <1>4, <1>7, <1>8
  <2> QED
    BY <1>5, <1>9, <2>1
<1>12. r \in Seq(HubStep) /\ SubOK(r) /\ Head(r).name # "store"
  BY <1>4, <1>5, <1>7, <1>8
<1>13. SubOK(p \o q) /\ p \o q \in Seq(HubStep)
  <2>1. p \in Seq(HubStep) /\ q \in Seq(HubStep)
    BY <1>10, <1>11
  <2>2. SubOK(p \o q)
    BY <1>10, <1>11, <2>1, SubBefore
  <2>3. p \o q \in Seq(HubStep)
    BY <2>1, ConcatShape
  <2> QED
    BY <2>2, <2>3
<1>14. PICK pq \in Seq(HubStep) : pq = p \o q
  BY <1>13
<1>15. r \in Seq(HubStep)
  BY <1>12
<1>16. SubOK(pq \o r)
  BY <1>12, <1>13, <1>14, <1>15, SubBefore
<1>17. pq \o r \in Seq(HubStep)
  BY <1>15, ConcatShape
<1> QED
  BY <1>6, <1>14, <1>16, <1>17

(* The first state.                                                           *)
LEMMA CallInit == HubInit => CallInv
<1> SUFFICES ASSUME HubInit PROVE CallInv
  OBVIOUS
<1>1. Sub \in Actors /\ Clients \subseteq Actors
  BY DEF Actors
<1>2. \A a \in Actors : todo[a] = << >>
  BY DEF HubInit
<1>3. todo \in [Actors -> Seq(HubStep)]
  BY DEF HubInit
<1>4. metaRun \in RunNos /\ lastRunState \in StepText
  BY DEF HubInit, RunNos, StepText, NoState, StateNames
<1>5. HubTypes
  BY <1>3, <1>4 DEF HubInit, HubTypes
<1>6. ClientCalls
  BY <1>1, <1>2 DEF HubInit, ClientCalls, ClientOK
<1>7. SubCall
  BY <1>1, <1>2 DEF SubCall, SubOK
<1> QED
  BY <1>5, <1>6, <1>7 DEF CallInv

(* A client that is removed has its call refreshed.                           *)
LEMMA RemoveMoves ==
  ASSUME CallInv, NEW a \in Actors, RemoveClient(a)
  PROVE  todo' \in [Actors -> Seq(HubStep)] /\ ClientCalls' /\ SubCall'
<1>1. PICK p : p = IF Head(todo[a]).client \in registered THEN Refresh ELSE << >>
  OBVIOUS
<1>2. /\ todo[a] # << >> /\ Head(todo[a]).name = "drop" /\ Continue(a, p)
      /\ registered' = registered \ {Head(todo[a]).client} /\ task' = task /\ writer' = writer
  BY <1>1 DEF RemoveClient, At, TakeOut
<1>3. p \in Seq(HubStep) /\ p \in {Refresh, << >>}
  BY <1>1, CallTypes
<1>4. /\ p \o Tail(todo[a]) \in Seq(HubStep) /\ todo' = [todo EXCEPT ![a] = p \o Tail(todo[a])]
      /\ Tail(todo[a]) \in Seq(HubStep) /\ << >> \o Tail(todo[a]) = Tail(todo[a])
      /\ a \in Clients => ClientOK(task[a], writer[a], todo[a], registered, a)
      /\ a = Sub => /\ SubOK(Tail(todo[a]))
                    /\ Head(todo[a]).name # "count" =>
                         Tail(todo[a]) = << >> \/ Head(Tail(todo[a])).name # "store"
  BY <1>2, <1>3, Continues
<1>5. CASE a = Sub
  <2>1. PICK t \in Seq(HubStep) : t = Tail(todo[a])
    BY <1>4
  <2>2. SubOK(t) /\ (t = << >> \/ Head(t).name # "store")
    BY <1>2, <1>4, <1>5, <2>1
  <2>3. SubOK(p)
    <3>1. SubOK(<< >>)
      BY DEF SubOK
    <3>2. SubOK(Refresh)
      <4>1. PICK x, y : x = Step("count") /\ y = Step("store")
        OBVIOUS
      <4>2. x.name = "count" /\ y.name = "store" /\ Refresh = <<x, y>>
        BY <4>1, StepIs DEF Refresh
      <4>3. <<x, y>>[1] = x /\ <<x, y>>[2] = y /\ DOMAIN <<x, y>> = {1, 2} /\ 2 - 1 = 1
        BY SmallTuples
      <4> QED
        BY <4>2, <4>3 DEF SubOK, SubNames
    <3> QED
      BY <1>3, <3>1, <3>2
  <2>4. SubOK(p \o t)
    BY <1>3, <2>2, <2>3, SubBefore
  <2>5. /\ p \o t \in Seq(HubStep) /\ todo' = [todo EXCEPT ![Sub] = p \o t]
        /\ registered' \subseteq registered
    BY <1>2, <1>4, <1>5, <2>1
  <2> QED
    BY <1>2, <2>4, <2>5, SubMoves
<1>6. CASE a \in Clients
  <2>1. ClientOK(task[a], writer[a], todo[a], registered, a)
    BY <1>4, <1>6
  <2>2. task[a] = "closed" /\ writer[a] = "done" /\ todo[a] = OnlyDrop(a)
    BY <1>2, <2>1, ClientPops
  <2>3. Tail(todo[a]) = << >> /\ Head(todo[a]).client = a
    BY <2>2, CallShapes
  <2>4. p \o Tail(todo[a]) = p
    BY <1>3, <2>3, NothingBefore
  <2>5. ClientOK(task[a], writer[a], p, registered', a)
    BY <1>2, <1>3, <2>2, <2>3 DEF ClientOK
  <2>6. /\ task' \in [Clients -> {"off", "reading", "closed"}]
        /\ writer' \in [Clients -> {"off", "greeting", "on", "done"}]
    BY <1>2 DEF CallInv, HubTypes
  <2>7. /\ \A b \in Clients : b # a => task'[b] = task[b] /\ writer'[b] = writer[b]
        /\ registered' \subseteq registered \cup {a}
        /\ ClientOK(task'[a], writer'[a], p, registered', a)
        /\ todo' = [todo EXCEPT ![a] = p]
    BY <1>2, <1>4, <2>4, <2>5
  <2> QED
    BY <1>3, <1>6, <2>6, <2>7, ClientMoves
<1> QED
  BY <1>5, <1>6 DEF Actors

(* The slow clients of a message, in the order in which they are dropped.     *)
LEMMA BroadcastShape ==
  ASSUME CallInv, Broadcast
  PROVE  \E item \in HubStep, text \in Msg, to \in SUBSET registered, drops \in Seq(HubStep) :
           /\ item = Head(todo[Sub]) /\ todo[Sub] # << >> /\ item.name \in {"meta", "run", "status"}
           /\ text.kind = item.name /\ (item.name = "meta" => text.run = metaRun)
           /\ item.name # "status" => to = registered
           /\ jsonQ' = [c \in Clients |-> IF c \in to /\ Room(c) THEN Append(jsonQ[c], text)
                                                                 ELSE jsonQ[c]]
           /\ said' = IF item.name = "status" THEN said ELSE Append(said, text)
           /\ Continue(Sub, drops) /\ SubOK(drops)
           /\ \A i \in DOMAIN drops : drops[i].name = "drop"
           /\ \A c \in to : ~Room(c) => \E i \in DOMAIN drops : drops[i] = Drop(c)
<1>1. PICK item : item = Head(todo[Sub])
  OBVIOUS
<1>2. /\ todo[Sub] # << >> /\ item.name \in {"meta", "run", "status"}
  BY <1>1 DEF Broadcast, At
<1>3. item \in HubStep
  <2>1. todo[Sub] \in Seq(HubStep)
    BY DEF CallInv, HubTypes, Actors
  <2> QED
    BY <1>1, <1>2, <2>1
<1>4. PICK text : text = [kind |-> item.name,
                          run |-> IF item.name = "meta" THEN metaRun ELSE item.text.run,
                          state |-> item.text.state]
  OBVIOUS
<1>5. text \in Msg
  <2>1. item.text \in StepText /\ metaRun \in RunNos
    BY <1>3 DEF CallInv, HubTypes, HubStep
  <2>2. item.text.run \in RunNos /\ item.text.state \in StateNames
    BY <2>1 DEF StepText
  <2> QED
    BY <1>2, <1>4, <2>1, <2>2 DEF Msg
<1>6. PICK to : to = {c \in registered : item.name = "status" => "status" \in streams[c]}
  OBVIOUS
<1>7. PICK slow : slow = SlowOnes(to)
  OBVIOUS
<1>8. PICK order \in Bijection(1 .. Cardinality(slow), slow) :
        Continue(Sub, [i \in 1 .. Cardinality(slow) |-> Drop(order[i])])
  BY <1>1, <1>6, <1>7 DEF Broadcast
<1>9. PICK n \in Nat : n = Cardinality(slow)
  <2>1. slow \subseteq Clients
    BY <1>6, <1>7 DEF SlowOnes, CallInv, HubTypes
  <2>2. IsFiniteSet(slow)
    BY <2>1, FS_Subset, MonitorAssumption DEF MonitorAssumption
  <2>3. Cardinality(slow) \in Nat
    BY <2>2, FS_CardinalityType
  <2> QED
    BY <2>3
<1>10. PICK drops : drops = [i \in 1 .. n |-> Drop(order[i])]
  OBVIOUS
<1>11. /\ order \in [1 .. n -> slow] /\ \A c \in slow : \E i \in 1 .. n : order[i] = c
  BY <1>8, <1>9 DEF Bijection, Injection, Surjection
<1>12. \A c \in slow : Drop(c) \in HubStep
  <2>1. slow \subseteq Actors
    BY <1>6, <1>7 DEF SlowOnes, CallInv, HubTypes, Actors
  <2> QED
    BY <2>1, StepIs
<1>13. /\ drops \in [1 .. n -> HubStep] /\ DOMAIN drops = 1 .. n
       /\ \A i \in 1 .. n : drops[i] = Drop(order[i])
  BY <1>10, <1>11, <1>12
<1>14. drops \in Seq(HubStep)
  BY <1>13
<1>15. \A i \in DOMAIN drops : drops[i].name = "drop"
  BY <1>13, StepIs
<1>16. SubOK(drops)
  BY <1>15 DEF SubOK, SubNames
<1>17. \A c \in to : ~Room(c) => \E i \in DOMAIN drops : drops[i] = Drop(c)
  BY <1>7, <1>11, <1>13 DEF SlowOnes
<1>18. to \in SUBSET registered /\ (item.name # "status" => to = registered)
  BY <1>6
<1>19. text.kind = item.name /\ (item.name = "meta" => text.run = metaRun)
  BY <1>4
<1>20. /\ jsonQ' = [c \in Clients |-> IF c \in to /\ Room(c) THEN Append(jsonQ[c], text) ELSE jsonQ[c]]
       /\ said' = IF item.name = "status" THEN said ELSE Append(said, text)
  BY <1>1, <1>4, <1>6 DEF Broadcast
<1>21. Continue(Sub, drops)
  BY <1>8, <1>9, <1>10
<1> QED
  BY <1>1, <1>2, <1>3, <1>5, <1>14, <1>15, <1>16, <1>17, <1>18, <1>19, <1>20, <1>21

(* Every step of the hub keeps its calls in order.                            *)
LEMMA CallNext == CallInv /\ HubNext => CallInv'
<1> SUFFICES ASSUME CallInv, HubNext PROVE CallInv'
  OBVIOUS
<1> DEFINE TW == [Clients -> {"off", "reading", "closed"}]
           WW == [Clients -> {"off", "greeting", "on", "done"}]
<1>1. /\ task \in TW /\ writer \in WW
      /\ registered \subseteq Clients /\ streams \in [Clients -> SUBSET Streams]
      /\ todo \in [Actors -> Seq(HubStep)] /\ metaRun \in RunNos /\ lastRunState \in StepText
      /\ ClientCalls /\ SubCall
  BY DEF CallInv, HubTypes
<1>2. Sub \in Actors /\ Clients \subseteq Actors /\ << >> \in Seq(HubStep)
  BY DEF Actors
<1>3. ASSUME todo' \in [Actors -> Seq(HubStep)] /\ ClientCalls' /\ SubCall',
             task' \in TW, writer' \in WW, registered' \subseteq Clients,
             streams' \in [Clients -> SUBSET Streams], metaRun' \in RunNos,
             lastRunState' \in StepText
      PROVE  CallInv'
  BY <1>3 DEF CallInv, HubTypes
<1>4. ASSUME UNCHANGED <<task, writer, registered, streams, todo, metaRun, lastRunState>>
      PROVE  CallInv'
  BY <1>1, <1>4 DEF CallInv, HubTypes, ClientCalls, SubCall
<1> HIDE DEF TW, WW
<1>5. ASSUME NEW a \in Actors, CountDemand(a) \/ StoreDemand(a) PROVE CallInv'
  <2>1. /\ todo[a] # << >> /\ Head(todo[a]).name \in {"count", "store"} /\ Continue(a, << >>)
        /\ UNCHANGED <<task, writer, registered, streams, metaRun, lastRunState>>
    BY <1>5 DEF CountDemand, StoreDemand, At
  <2>2. PICK t \in Seq(HubStep) : t = Tail(todo[a])
    BY <1>2, <2>1, Continues
  <2>3. /\ todo' = [todo EXCEPT ![a] = t]
        /\ a \in Clients => ClientOK(task[a], writer[a], todo[a], registered, a)
        /\ a = Sub => SubOK(t)
    BY <1>2, <2>1, <2>2, Continues
  <2>4. CASE a = Sub
    <3>1. SubOK(t) /\ todo' = [todo EXCEPT ![Sub] = t]
      BY <2>3, <2>4
    <3>2. task' = task /\ writer' = writer /\ registered' \subseteq registered
      BY <2>1
    <3>3. todo' \in [Actors -> Seq(HubStep)] /\ ClientCalls' /\ SubCall'
      BY <3>1, <3>2, SubMoves
    <3> QED
      BY <1>1, <1>3, <2>1, <3>3
  <2>5. CASE a \in Clients
    <3>1. ClientOK(task[a], writer[a], t, registered, a)
      BY <2>1, <2>2, <2>3, <2>5, ClientPops
    <3>2. /\ task' \in TW /\ writer' \in WW /\ registered' \subseteq registered \cup {a}
          /\ \A b \in Clients : b # a => task'[b] = task[b] /\ writer'[b] = writer[b]
          /\ ClientOK(task'[a], writer'[a], t, registered', a)
      BY <1>1, <2>1, <3>1
    <3>3. todo' \in [Actors -> Seq(HubStep)] /\ ClientCalls' /\ SubCall'
      BY <2>3, <2>5, <3>2, ClientMoves DEF TW, WW
    <3> QED
      BY <1>1, <1>3, <2>1, <3>3
  <2> QED
    BY <2>4, <2>5 DEF Actors
<1>6. ASSUME NEW a \in Actors, RemoveClient(a) PROVE CallInv'
  <2>1. todo' \in [Actors -> Seq(HubStep)] /\ ClientCalls' /\ SubCall'
    BY <1>6, RemoveMoves
  <2>2. registered' \subseteq registered /\ UNCHANGED <<task, writer, streams, metaRun, lastRunState>>
    BY <1>6 DEF RemoveClient, TakeOut
  <2> QED
    BY <1>1, <1>3, <2>1, <2>2
<1>7. ASSUME Broadcast PROVE CallInv'
  <2>1. PICK drops \in Seq(HubStep) :
          /\ todo[Sub] # << >> /\ Head(todo[Sub]).name \in {"meta", "run", "status"}
          /\ Continue(Sub, drops) /\ SubOK(drops)
    BY <1>7, BroadcastShape
  <2>2. UNCHANGED <<task, writer, registered, streams, metaRun, lastRunState>>
    BY <1>7 DEF Broadcast
  <2>3. PICK t \in Seq(HubStep) : t = Tail(todo[Sub])
    BY <1>2, <2>1, Continues
  <2>4. /\ drops \o t \in Seq(HubStep) /\ todo' = [todo EXCEPT ![Sub] = drops \o t] /\ SubOK(t)
        /\ t = << >> \/ Head(t).name # "store"
    BY <1>2, <2>1, <2>3, Continues
  <2>5. SubOK(drops \o t)
    BY <2>1, <2>4, SubBefore
  <2>6. task' = task /\ writer' = writer /\ registered' \subseteq registered
    BY <2>2
  <2>7. todo' \in [Actors -> Seq(HubStep)] /\ ClientCalls' /\ SubCall'
    BY <2>4, <2>5, <2>6, SubMoves
  <2> QED
    BY <1>1, <1>3, <2>2, <2>7
<1>8. ASSUME StoreMetaRun \/ Remember PROVE CallInv'
  <2>1. /\ todo[Sub] # << >> /\ Continue(Sub, << >>)
        /\ UNCHANGED <<task, writer, registered, streams>>
        /\ metaRun' \in {metaRun, Head(todo[Sub]).text.run}
        /\ lastRunState' \in {lastRunState, Head(todo[Sub]).text}
    BY <1>8 DEF StoreMetaRun, Remember, At
  <2>2. metaRun' \in RunNos /\ lastRunState' \in StepText
    <3>1. todo[Sub] \in Seq(HubStep)
      BY <1>1, <1>2
    <3>2. Head(todo[Sub]) \in HubStep
      BY <2>1, <3>1
    <3>3. Head(todo[Sub]).text \in StepText
      BY <3>2 DEF HubStep
    <3>4. Head(todo[Sub]).text.run \in RunNos
      BY <3>3 DEF StepText
    <3> QED
      BY <1>1, <2>1, <3>3, <3>4
  <2>3. PICK t \in Seq(HubStep) : t = Tail(todo[Sub])
    BY <1>2, <2>1, Continues
  <2>4. todo' = [todo EXCEPT ![Sub] = t] /\ SubOK(t)
    BY <1>2, <2>1, <2>3, Continues
  <2>5. task' = task /\ writer' = writer /\ registered' \subseteq registered
    BY <2>1
  <2>6. todo' \in [Actors -> Seq(HubStep)] /\ ClientCalls' /\ SubCall'
    BY <2>4, <2>5, SubMoves
  <2> QED
    BY <1>1, <1>3, <2>1, <2>2, <2>6
<1>9. ASSUME NEW s \in Statuses, HandleStatus(s.run, s.state) PROVE CallInv'
  <2>1. s.run \in RunNos /\ s.state \in StateNames
    BY DEF RunNos, StateNames
  <2>2. PICK t \in Seq(HubStep) : t = StatusSteps(s.run, s.state) /\ SubOK(t)
    BY <2>1, StatusShape
  <2>3. /\ todo' = [todo EXCEPT ![Sub] = t]
        /\ UNCHANGED <<task, writer, registered, streams, metaRun, lastRunState>>
    BY <1>9, <2>2 DEF HandleStatus
  <2>4. task' = task /\ writer' = writer /\ registered' \subseteq registered
    BY <2>3
  <2>5. todo' \in [Actors -> Seq(HubStep)] /\ ClientCalls' /\ SubCall'
    BY <2>2, <2>3, <2>4, SubMoves
  <2> QED
    BY <1>1, <1>3, <2>3, <2>5
<1>10. ASSUME NEW c \in Clients, NEW s \in Seq(HubStep), todo' = [todo EXCEPT ![c] = s],
              task' \in TW, writer' \in WW,
              \A b \in Clients : b # c => task'[b] = task[b] /\ writer'[b] = writer[b],
              registered' \subseteq registered \cup {c}, streams' \in [Clients -> SUBSET Streams],
              UNCHANGED <<metaRun, lastRunState>>,
              ClientOK(task'[c], writer'[c], s, registered', c)
       PROVE  CallInv'
  <2>1. todo' \in [Actors -> Seq(HubStep)] /\ ClientCalls' /\ SubCall'
    BY <1>10, ClientMoves DEF TW, WW
  <2>2. registered' \subseteq Clients
    BY <1>1, <1>10
  <2> QED
    BY <1>1, <1>3, <1>10, <2>1, <2>2
<1>11. ASSUME NEW c \in Clients PROVE ClientOK(task[c], writer[c], todo[c], registered, c)
  BY <1>1 DEF ClientCalls
<1>12. ASSUME NEW c \in Clients, Register(c) PROVE CallInv'
  <2>1. /\ task[c] = "off" /\ task' = [task EXCEPT ![c] = "reading"]
        /\ todo' = [todo EXCEPT ![c] = CallEnter]
        /\ UNCHANGED <<writer, registered, streams, metaRun, lastRunState>>
    BY <1>12, CallTypes DEF Register
  <2>2. writer[c] = "off"
    BY <1>11, <2>1 DEF ClientOK
  <2>3. /\ task' \in TW /\ task'[c] = "reading" /\ \A b \in Clients : b # c => task'[b] = task[b]
    BY <1>1, <2>1 DEF TW
  <2>4. ClientOK(task'[c], writer'[c], CallEnter, registered', c)
    BY <2>1, <2>2, <2>3 DEF ClientOK
  <2> QED
    BY <1>1, <1>10, <2>1, <2>3, <2>4, CallTypes
<1>13. ASSUME NEW c \in Clients, Enter(c) PROVE CallInv'
  <2>1. /\ todo[c] # << >> /\ Head(todo[c]).name = "enter" /\ Continue(c, << >>)
        /\ registered' = registered \cup {c} /\ streams' = [streams EXCEPT ![c] = DefaultStreams]
        /\ writer' = [writer EXCEPT ![c] = "greeting"]
        /\ UNCHANGED <<task, metaRun, lastRunState>>
    BY <1>13 DEF Enter, At
  <2>2. task[c] = "reading" /\ todo[c] = CallEnter
    BY <1>11, <2>1, ClientPops
  <2>3. todo' = [todo EXCEPT ![c] = CallCount]
    <3>1. todo' = [todo EXCEPT ![c] = Tail(todo[c])]
      BY <1>2, <2>1, Continues
    <3>2. Tail(todo[c]) = CallCount
      BY <2>2, CallShapes
    <3> QED
      BY <3>1, <3>2
  <2>4. /\ writer' \in WW /\ writer'[c] = "greeting"
        /\ \A b \in Clients : b # c => writer'[b] = writer[b]
    BY <1>1, <2>1 DEF WW
  <2>5. streams' \in [Clients -> SUBSET Streams]
    <3>1. DefaultStreams \in SUBSET Streams
      BY DEF DefaultStreams, Streams
    <3> QED
      BY <1>1, <2>1, <3>1
  <2>6. ClientOK(task'[c], writer'[c], CallCount, registered', c)
    BY <2>1, <2>2, <2>4 DEF ClientOK
  <2> QED
    BY <1>1, <1>10, <2>1, <2>3, <2>4, <2>5, <2>6, CallTypes
<1>14. ASSUME NEW c \in Clients, Greet(c) PROVE CallInv'
  <2>1. /\ todo[c] # << >> /\ Head(todo[c]).name = "greet" /\ Continue(c, << >>)
        /\ writer' = [writer EXCEPT ![c] = "on"]
        /\ UNCHANGED <<task, registered, streams, metaRun, lastRunState>>
    BY <1>14 DEF Greet, At
  <2>2. task[c] = "reading" /\ todo[c] = CallGreet
    BY <1>11, <2>1, ClientPops
  <2>3. todo' = [todo EXCEPT ![c] = << >>]
    <3>1. todo' = [todo EXCEPT ![c] = Tail(todo[c])]
      BY <1>2, <2>1, Continues
    <3>2. Tail(todo[c]) = << >>
      BY <2>2, CallShapes
    <3> QED
      BY <3>1, <3>2
  <2>4. /\ writer' \in WW /\ writer'[c] = "on"
        /\ \A b \in Clients : b # c => writer'[b] = writer[b]
    BY <1>1, <2>1 DEF WW
  <2>5. ClientOK(task'[c], writer'[c], << >>, registered', c)
    BY <2>1, <2>2, <2>4 DEF ClientOK
  <2> QED
    BY <1>1, <1>2, <1>10, <2>1, <2>3, <2>4, <2>5
<1>15. ASSUME NEW c \in Clients, WriterEnds(c) PROVE CallInv'
  <2>1. /\ writer[c] = "on" /\ writer' = [writer EXCEPT ![c] = "done"]
        /\ UNCHANGED <<task, registered, streams, todo, metaRun, lastRunState>>
    BY <1>15 DEF WriterEnds
  <2>2. task[c] = "reading" /\ todo[c] \in {Refresh, OnlyStore, << >>}
    BY <1>11, <2>1 DEF ClientOK
  <2>3. /\ writer' \in WW /\ writer'[c] = "done"
        /\ \A b \in Clients : b # c => writer'[b] = writer[b]
    BY <1>1, <2>1 DEF WW
  <2>4. ClientOK(task'[c], writer'[c], todo[c], registered', c)
    BY <2>1, <2>2, <2>3 DEF ClientOK
  <2>5. PICK s \in Seq(HubStep) : s = todo[c]
    BY <1>1, <1>2
  <2>6. todo' = [todo EXCEPT ![c] = s]
    BY <1>1, <2>1, <2>5
  <2> QED
    BY <1>1, <1>10, <2>1, <2>3, <2>4, <2>5, <2>6
<1>16. ASSUME NEW c \in Clients, Subscribe(c) PROVE CallInv'
  <2>1. /\ task[c] = "reading" /\ todo[c] = << >> /\ todo' = [todo EXCEPT ![c] = Refresh]
        /\ \E list \in {<<"status", "waveforms">>, <<"spectra", "uvw">>} :
             streams' = [streams EXCEPT ![c] = ParseSubscribe(list)]
        /\ UNCHANGED <<task, writer, registered, metaRun, lastRunState>>
    BY <1>16 DEF Subscribe
  <2>2. writer[c] \in {"on", "done"}
    BY <1>11, <2>1, CallShapes DEF ClientOK
  <2>3. streams' \in [Clients -> SUBSET Streams]
    <3>1. PICK x \in SUBSET Streams : streams' = [streams EXCEPT ![c] = x]
      BY <2>1 DEF ParseSubscribe
    <3> QED
      BY <1>1, <3>1
  <2>4. ClientOK(task'[c], writer'[c], Refresh, registered', c)
    BY <2>1, <2>2 DEF ClientOK
  <2> QED
    BY <1>1, <1>10, <2>1, <2>3, <2>4, CallTypes
<1>17. ASSUME NEW c \in Clients, Close(c) PROVE CallInv'
  <2>1. /\ task' = [task EXCEPT ![c] = "closed"] /\ writer' = [writer EXCEPT ![c] = "done"]
        /\ todo' = [todo EXCEPT ![c] = OnlyDrop(c)]
        /\ UNCHANGED <<registered, streams, metaRun, lastRunState>>
    BY <1>17 DEF Close, OnlyDrop
  <2>2. /\ task' \in TW /\ task'[c] = "closed" /\ writer' \in WW /\ writer'[c] = "done"
        /\ \A b \in Clients : b # c => task'[b] = task[b] /\ writer'[b] = writer[b]
    BY <1>1, <2>1 DEF TW, WW
  <2>3. ClientOK(task'[c], writer'[c], OnlyDrop(c), registered', c)
    BY <2>2 DEF ClientOK
  <2> QED
    BY <1>1, <1>10, <2>1, <2>2, <2>3, CallTypes
<1>18. ASSUME HandleFrames \/ \E c \in Clients : WriterJson(c) \/ WriterLive(c) PROVE CallInv'
  BY <1>4, <1>18 DEF HandleFrames, WriterJson, WriterLive
<1> QED
  BY <1>5, <1>6, <1>7, <1>8, <1>9, <1>12, <1>13, <1>14, <1>15, <1>16, <1>17, <1>18 DEF HubNext

-----------------------------------------------------------------------------
(* JSON messages                                                               *)

(* The order of putting three sequences together does not matter.             *)
LEMMA ConcatThree ==
  ASSUME NEW S, NEW a \in Seq(S), NEW b \in Seq(S), NEW c \in Seq(S)
  PROVE  (a \o b) \o c = a \o (b \o c)
BY ConcatAssociative

(* What the SUB thread is still to do.                                        *)
LEMMA SubElements ==
  /\ \A c : Dropping(c) <=> Drop(c) \in Elements(todo[Sub])
  /\ MetaDue <=> \E x \in Elements(todo[Sub]) : x.name = "meta"
  /\ \A c : Dropping(c)' <=> Drop(c) \in Elements(todo'[Sub])
  /\ MetaDue' <=> \E x \in Elements(todo'[Sub]) : x.name = "meta"
<1>1. \A c : Dropping(c) <=> Drop(c) \in Elements(todo[Sub])
  BY DEF Dropping, Elements
<1>2. MetaDue <=> \E x \in Elements(todo[Sub]) : x.name = "meta"
  BY DEF MetaDue, Elements
<1>3. \A c : Dropping(c)' <=> Drop(c) \in Elements(todo'[Sub])
  BY DEF Dropping, Elements, Drop, NoState
<1>4. MetaDue' <=> \E x \in Elements(todo'[Sub]) : x.name = "meta"
  BY DEF MetaDue, Elements
<1> QED
  BY <1>1, <1>2, <1>3, <1>4

(* The steps that come before a drop, as the SUB thread goes on.              *)
LEMMA DropsTail ==
  ASSUME NEW s \in Seq(HubStep), s # << >>, DropsFirst(s)
  PROVE  /\ DropsFirst(Tail(s))
         /\ Head(s).name \notin {"count", "store", "drop"} =>
              \A x \in Elements(s) : x.name # "drop"
<1> DEFINE t == Tail(s)
           n == Len(s)
<1>1. /\ n \in Nat /\ n >= 1 /\ DOMAIN s = 1 .. n /\ DOMAIN t = 1 .. n - 1
      /\ \A i \in 1 .. n - 1 : t[i] = s[i + 1]
      /\ Head(s) = s[1]
  BY TailShape
<1>2. \A i, j \in 1 .. n : s[i].name = "drop" /\ j <= i => s[j].name \in {"count", "store", "drop"}
  BY <1>1 DEF DropsFirst
<1> HIDE DEF t, n
<1>3. ASSUME NEW i \in 1 .. n - 1, NEW j \in 1 .. n - 1, t[i].name = "drop", j <= i
      PROVE  t[j].name \in {"count", "store", "drop"}
  <2>1. i + 1 \in 1 .. n /\ j + 1 \in 1 .. n /\ j + 1 <= i + 1
    BY <1>1, <1>3
  <2>2. t[i] = s[i + 1] /\ t[j] = s[j + 1]
    BY <1>1
  <2> QED
    BY <1>2, <1>3, <2>1, <2>2
<1>4. DropsFirst(t)
  BY <1>1, <1>3 DEF DropsFirst
<1>5. ASSUME NEW i \in 1 .. n, s[i].name = "drop" PROVE s[1].name \in {"count", "store", "drop"}
  <2>1. 1 \in 1 .. n /\ 1 <= i
    BY <1>1
  <2> QED
    BY <1>2, <1>5, <2>1
<1>6. Head(s).name \notin {"count", "store", "drop"} => \A x \in Elements(s) : x.name # "drop"
  BY <1>1, <1>5 DEF Elements
<1> QED
  BY <1>4, <1>6 DEF t

(* Counts and drops may be put before any call.                               *)
LEMMA DropsBefore ==
  ASSUME NEW p \in Seq(HubStep), NEW t \in Seq(HubStep), DropsFirst(t),
         \A x \in Elements(p) : x.name \in {"count", "store", "drop"}
  PROVE  DropsFirst(p \o t)
<1> DEFINE s == p \o t
           m == Len(p)
           n == Len(t)
<1>1. /\ m \in Nat /\ n \in Nat /\ DOMAIN p = 1 .. m /\ DOMAIN t = 1 .. n /\ DOMAIN s = 1 .. m + n
      /\ \A i \in 1 .. m : s[i] = p[i]
      /\ \A i \in 1 .. n : s[m + i] = t[i]
  BY ConcatShape
<1>2. \A i \in 1 .. m : p[i].name \in {"count", "store", "drop"}
  BY <1>1 DEF Elements
<1>3. \A i, j \in 1 .. n : t[i].name = "drop" /\ j <= i => t[j].name \in {"count", "store", "drop"}
  BY <1>1 DEF DropsFirst
<1> HIDE DEF s, m, n
<1>4. ASSUME NEW i \in 1 .. m + n, NEW j \in 1 .. m + n, s[i].name = "drop", j <= i
      PROVE  s[j].name \in {"count", "store", "drop"}
  <2>1. CASE j <= m
    BY <1>1, <1>2, <2>1
  <2>2. CASE j > m
    <3>1. i - m \in 1 .. n /\ j - m \in 1 .. n /\ j - m <= i - m /\ m + (i - m) = i /\ m + (j - m) = j
      BY <1>1, <1>4, <2>2
    <3>2. s[m + (i - m)] = t[i - m] /\ s[m + (j - m)] = t[j - m]
      BY <1>1, <3>1
    <3> QED
      BY <1>3, <1>4, <3>1, <3>2
  <2> QED
    BY <1>1, <2>1, <2>2
<1>5. DropsFirst(s)
  BY <1>1, <1>4 DEF DropsFirst
<1> QED
  BY <1>5 DEF s

(* News(q), from the end.                                                     *)
LEMMA NewsAppend ==
  ASSUME NEW q \in Seq(Msg), NEW x \in Msg
  PROVE  /\ News(<< >>) = << >> /\ News(q) \in Seq(Msg)
         /\ x.kind = "status" => News(Append(q, x)) = News(q)
         /\ x.kind # "status" => News(Append(q, x)) = Append(News(q), x)
<1> DEFINE one(m) == IF m.kind = "status" THEN << >> ELSE <<m>>
           n == Len(q)
           r == Append(q, x)
           ss == [i \in 1 .. n |-> one(q[i])]
           tt == [i \in 1 .. Len(r) |-> one(r[i])]
<1>1. \A m \in Msg : one(m) \in Seq(Msg)
  OBVIOUS
<1>2. /\ n \in Nat /\ \A i \in 1 .. n : q[i] \in Msg
  OBVIOUS
<1>3. /\ Len(r) = n + 1 /\ \A i \in 1 .. n : r[i] = q[i]
      /\ r[n + 1] = x
  BY AppendShape
<1> HIDE DEF n, r
<1>4. ss \in [1 .. n -> Seq(Msg)]
  BY <1>1, <1>2
<1>5. ss \in Seq(Seq(Msg)) /\ Len(ss) = n
  BY <1>2, <1>4
<1>6. /\ \A i \in 1 .. n : ss[i] = one(q[i])
      /\ tt \in [1 .. n + 1 -> Seq(Msg)] /\ \A i \in 1 .. n : tt[i] = one(q[i])
      /\ tt[n + 1] = one(x)
  <2>1. \A i \in 1 .. n + 1 : r[i] \in Msg
    BY <1>2, <1>3
  <2>2. n + 1 \in 1 .. n + 1 /\ \A i \in 1 .. n : i \in 1 .. n + 1
    BY <1>2
  <2> QED
    BY <1>1, <1>2, <1>3, <2>1, <2>2
<1>7. News(q) = FlattenSeq(ss) /\ News(r) = FlattenSeq(tt)
  BY DEF News, n
<1> HIDE DEF ss, tt
<1>8. tt \in Seq(Seq(Msg)) /\ Len(tt) = n + 1
  BY <1>2, <1>6
<1>9. PICK e \in Seq(Msg) : e = one(x)
  BY <1>1
<1> HIDE DEF one
<1>10. tt = Append(ss, e)
  <2>1. PICK u : u = Append(ss, e)
    OBVIOUS
  <2>2. /\ u \in Seq(Seq(Msg)) /\ Len(u) = n + 1 /\ (\A i \in 1 .. n : u[i] = ss[i])
        /\ u[n + 1] = e
    <3>1. Append(ss, e) \in Seq(Seq(Msg))
      BY <1>5
    <3> QED
      BY <1>5, <2>1, <3>1, AppendShape
  <2>3. \A i \in 1 .. n + 1 : u[i] = tt[i]
    <3>1. \A i \in 1 .. n + 1 : i \in 1 .. n \/ i = n + 1
      BY <1>2
    <3> QED
      BY <1>6, <1>9, <2>2, <3>1
  <2>4. u = tt
    BY <1>8, <2>2, <2>3, SeqEqual
  <2> QED
    BY <2>1, <2>4
<1>11. FlattenSeq(ss) \in Seq(Msg) /\ FlattenSeq(tt) = FlattenSeq(ss) \o e
  BY <1>5, <1>10, FlattenAppend
<1>12. News(<< >>) = << >>
  <2>1. [i \in 1 .. Len(<< >>) |-> IF << >>[i].kind = "status" THEN << >> ELSE <<<< >>[i]>>] = << >>
    OBVIOUS
  <2> QED
    BY <2>1, FlattenEmpty DEF News
<1>13. x.kind = "status" => News(r) = News(q)
  <2>1. x.kind = "status" => e = << >>
    BY <1>9 DEF one
  <2> QED
    BY <1>7, <1>11, <2>1, NothingBefore
<1>14. x.kind # "status" => News(r) = Append(News(q), x)
  <2>1. x.kind # "status" => e = <<x>>
    BY <1>9 DEF one
  <2>2. PICK f \in Seq(Msg) : f = FlattenSeq(ss)
    BY <1>11
  <2>3. f \o <<x>> = Append(f, x)
    BY AppendIsConcat
  <2> QED
    BY <1>7, <1>11, <2>1, <2>2, <2>3
<1> QED
  BY <1>7, <1>11, <1>12, <1>13, <1>14 DEF r

(* What is behind the first of two sequences put together.                    *)
LEMMA TailOfJoined ==
  ASSUME NEW S, NEW h \in Seq(S), NEW a \in Seq(S), h # << >>
  PROVE  h \o a # << >> /\ Tail(h \o a) = Tail(h) \o a
<1>1. PICK e \in S : e = Head(h)
  OBVIOUS
<1>2. PICK g \in Seq(S) : g = Tail(h)
  <2>1. Tail(h) \in Seq(S)
    OBVIOUS
  <2> QED
    BY <2>1
<1>3. h = <<e>> \o g
  <2>1. h = <<Head(h)>> \o Tail(h)
    OBVIOUS
  <2> QED
    BY <1>1, <1>2, <2>1
<1>4. PICK f \in Seq(S) : f = <<e>>
  <2>1. <<e>> \in Seq(S)
    OBVIOUS
  <2> QED
    BY <2>1
<1>5. (f \o g) \o a = f \o (g \o a)
  BY ConcatThree
<1>6. PICK k \in Seq(S) : k = g \o a
  <2>1. g \o a \in Seq(S)
    BY ConcatShape
  <2> QED
    BY <2>1
<1>7. <<e>> \o k # << >> /\ Tail(<<e>> \o k) = k
  OBVIOUS
<1> QED
  BY <1>2, <1>3, <1>4, <1>5, <1>6, <1>7

(* A sequence of one message.                                                 *)
LEMMA OneElement ==
  ASSUME NEW S, NEW s \in Seq(S), Len(s) = 1
  PROVE  s # << >> /\ s[1] \in S /\ Head(s) = s[1]
<1>1. s # << >>
  OBVIOUS
<1>2. Head(s) = s[1] /\ DOMAIN s = 1 .. 1
  BY <1>1, TailShape
<1>3. 1 \in 1 .. 1
  OBVIOUS
<1>4. s[1] \in S
  BY <1>2, <1>3
<1> QED
  BY <1>1, <1>2, <1>4

(* News(q), from the front.                                                   *)
LEMMA NewsHead ==
  ASSUME NEW q \in Seq(Msg), q # << >>
  PROVE  News(q) = News(<<Head(q)>>) \o News(Tail(q))
<1> DEFINE Good(s) == News(s) = News(<<Head(s)>>) \o News(Tail(s))
           S == {n \in Nat : \A s \in Seq(Msg) : Len(s) = n + 1 => Good(s)}
<1>1. 0 \in S
  <2> SUFFICES ASSUME NEW s \in Seq(Msg), Len(s) = 1 PROVE Good(s)
    OBVIOUS
  <2>1. s # << >> /\ Head(s) \in Msg /\ s = <<Head(s)>> /\ Tail(s) = << >>
    <3>1. s # << >> /\ s[1] \in Msg /\ Head(s) = s[1]
      BY OneElement
    <3>2. PICK x \in Msg : x = s[1]
      BY <3>1
    <3>3. <<x>> \in Seq(Msg) /\ Len(<<x>>) = 1 /\ <<x>>[1] = x
      OBVIOUS
    <3>4. s = <<x>>
      <4>1. PICK u \in Seq(Msg) : u = <<x>>
        BY <3>3
      <4>2. Len(u) = 1 /\ u[1] = s[1]
        BY <3>2, <3>3, <4>1
      <4>3. \A i \in 1 .. 1 : u[i] = s[i]
        BY <4>2
      <4>4. u = s
        BY <4>2, <4>3, SeqEqual
      <4> QED
        BY <4>1, <4>4
    <3> QED
      BY <3>1, <3>2, <3>4, SmallTuples
  <2>2. News(s) \in Seq(Msg) /\ News(<< >>) = << >>
    BY <2>1, NewsAppend
  <2>3. News(s) \o << >> = News(s)
    BY <2>2, NothingBefore
  <2> QED
    BY <2>1, <2>2, <2>3
<1>2. ASSUME NEW n \in Nat, n \in S PROVE n + 1 \in S
  <2> SUFFICES ASSUME NEW s \in Seq(Msg), Len(s) = n + 2 PROVE Good(s)
    OBVIOUS
  <2>1. PICK p : p = SubSeq(s, 1, n + 1)
    OBVIOUS
  <2>2. PICK x \in Msg : x = s[n + 2]
    OBVIOUS
  <2>3. n + 1 \in Nat /\ n + 1 <= Len(s) /\ (n + 1) + 1 <= Len(s) /\ (n + 1) + 1 = n + 2
    OBVIOUS
  <2>4. p \in Seq(Msg) /\ Len(p) = n + 1 /\ (\A i \in 1 .. n + 1 : p[i] = s[i])
    BY <2>1, <2>3, FirstShape
  <2>5. s = Append(p, x)
    <3>1. PICK u \in Seq(Msg) : u = Append(p, x)
      <4>1. Append(p, x) \in Seq(Msg)
        BY <2>4
      <4> QED
        BY <4>1
    <3>2. Len(u) = n + 2 /\ (\A i \in 1 .. n + 1 : u[i] = p[i]) /\ u[n + 2] = x
      <4>1. /\ Len(Append(p, x)) = Len(p) + 1
            /\ \A i \in 1 .. Len(p) : Append(p, x)[i] = p[i]
            /\ Append(p, x)[Len(p) + 1] = x
        BY <2>4, AppendShape
      <4> QED
        BY <2>3, <2>4, <3>1, <4>1
    <3>3. \A i \in 1 .. n + 2 : i \in 1 .. n + 1 \/ i = n + 2
      OBVIOUS
    <3>4. \A i \in 1 .. n + 2 : u[i] = s[i]
      BY <2>2, <2>4, <3>2, <3>3
    <3>5. u = s
      BY <3>2, <3>4, SeqEqual
    <3> QED
      BY <3>1, <3>5
  <2>6. p # << >> /\ Head(p) \in Msg /\ Tail(p) \in Seq(Msg)
    BY <2>4
  <2>7. Good(p)
    BY <1>2, <2>4
  <2>8. Head(s) = Head(p) /\ Tail(s) = Append(Tail(p), x)
    <3>1. Head(s) = s[1] /\ Head(p) = p[1] /\ s # << >>
      BY <2>4
    <3>2. PICK a \in Seq(Msg) : a = Tail(s)
      <4>1. Tail(s) \in Seq(Msg)
        BY <3>1
      <4> QED
        BY <4>1
    <3>3. PICK b \in Seq(Msg) : b = Tail(p)
      <4>1. Tail(p) \in Seq(Msg)
        BY <2>6
      <4> QED
        BY <4>1
    <3>4. /\ Len(a) = n + 1 /\ \A i \in 1 .. n + 1 : a[i] = s[i + 1]
      <4>1. Len(Tail(s)) = Len(s) - 1 /\ \A i \in 1 .. Len(s) - 1 : Tail(s)[i] = s[i + 1]
        BY <3>1, TailShape
      <4> QED
        BY <3>2, <4>1
    <3>5. /\ Len(b) = n /\ \A i \in 1 .. n : b[i] = p[i + 1]
      <4>1. Len(Tail(p)) = Len(p) - 1 /\ \A i \in 1 .. Len(p) - 1 : Tail(p)[i] = p[i + 1]
        BY <2>4, <2>6, TailShape
      <4>2. (n + 1) - 1 = n
        OBVIOUS
      <4> QED
        BY <2>4, <3>3, <4>1, <4>2
    <3>6. PICK d \in Seq(Msg) : d = Append(b, x)
      <4>1. Append(b, x) \in Seq(Msg)
        OBVIOUS
      <4> QED
        BY <4>1
    <3>7. Len(d) = n + 1 /\ (\A i \in 1 .. n : d[i] = b[i]) /\ d[n + 1] = x
      <4>1. /\ Len(Append(b, x)) = Len(b) + 1
            /\ \A i \in 1 .. Len(b) : Append(b, x)[i] = b[i]
            /\ Append(b, x)[Len(b) + 1] = x
        BY AppendShape
      <4> QED
        BY <3>5, <3>6, <4>1
    <3>8. ASSUME NEW i \in 1 .. n + 1 PROVE d[i] = a[i]
      <4>1. CASE i \in 1 .. n
        <5>1. i + 1 \in 1 .. n + 1
          BY <4>1
        <5> QED
          BY <2>4, <3>4, <3>5, <3>7, <4>1, <5>1
      <4>2. CASE i = n + 1
        <5>1. i + 1 = n + 2
          BY <4>2
        <5> QED
          BY <2>2, <3>4, <3>7, <4>2, <5>1
      <4> QED
        BY <4>1, <4>2
    <3>9. d = a
      BY <3>4, <3>7, <3>8, SeqEqual
    <3>10. Head(s) = Head(p)
      BY <2>4, <3>1
    <3> QED
      BY <3>2, <3>3, <3>6, <3>9, <3>10
  <2>9. PICK h, t, v \in Seq(Msg) : h = News(<<Head(p)>>) /\ t = News(Tail(p)) /\ v = News(p)
    <3>1. <<Head(p)>> \in Seq(Msg)
      BY <2>6
    <3>2. News(<<Head(p)>>) \in Seq(Msg)
      BY <2>2, <3>1, NewsAppend
    <3>3. News(Tail(p)) \in Seq(Msg)
      BY <2>2, <2>6, NewsAppend
    <3>4. News(p) \in Seq(Msg)
      BY <2>2, <2>4, NewsAppend
    <3> QED
      BY <3>2, <3>3, <3>4
  <2>10. v = h \o t
    BY <2>7, <2>9
  <2>11. CASE x.kind = "status"
    <3>1. News(s) = v
      BY <2>4, <2>5, <2>9, <2>11, NewsAppend
    <3>2. News(Tail(s)) = t
      BY <2>6, <2>8, <2>9, <2>11, NewsAppend
    <3> QED
      BY <2>8, <2>9, <2>10, <3>1, <3>2
  <2>12. CASE x.kind # "status"
    <3>1. News(s) = Append(v, x)
      BY <2>4, <2>5, <2>9, <2>12, NewsAppend
    <3>2. News(Tail(s)) = Append(t, x)
      BY <2>6, <2>8, <2>9, <2>12, NewsAppend
    <3>3. PICK y \in Seq(Msg) : y = <<x>>
      <4>1. <<x>> \in Seq(Msg)
        OBVIOUS
      <4> QED
        BY <4>1
    <3>4. Append(v, x) = v \o y /\ Append(t, x) = t \o y
      BY <3>3, AppendIsConcat
    <3>5. (h \o t) \o y = h \o (t \o y)
      BY ConcatThree
    <3> QED
      BY <2>8, <2>9, <2>10, <3>1, <3>2, <3>4, <3>5
  <2> QED
    BY <2>11, <2>12
<1> HIDE DEF Good
<1>3. Nat \subseteq S
  <2> HIDE DEF S
  <2> QED
    BY <1>1, <1>2, NatSetInduction
<1>4. PICK n \in Nat : Len(q) = n + 1
  <2>1. Len(q) \in Nat /\ Len(q) # 0
    OBVIOUS
  <2>2. Len(q) - 1 \in Nat /\ Len(q) = (Len(q) - 1) + 1
    BY <2>1
  <2> QED
    BY <2>2
<1>5. Good(q)
  BY <1>3, <1>4
<1> QED
  BY <1>5 DEF Good

(* One message more among those said is one more that is due.                 *)
LEMMA DueGrows ==
  ASSUME NEW s \in Seq(Msg), NEW j \in Nat, j <= Len(s), NEW x \in Msg
  PROVE  /\ DueOf(s, j) \in Seq(Msg) /\ DueOf(s, Len(s)) = << >>
         /\ DueOf(Append(s, x), j) = Append(DueOf(s, j), x)
         /\ j <= Len(Append(s, x)) /\ Append(s, x) \in Seq(Msg)
<1>1. PICK n \in Nat : n = Len(s)
  OBVIOUS
<1>2. PICK t \in Seq(Msg) : t = Append(s, x)
  <2>1. Append(s, x) \in Seq(Msg)
    OBVIOUS
  <2> QED
    BY <2>1
<1>3. /\ Len(t) = n + 1 /\ (\A i \in 1 .. n : t[i] = s[i]) /\ t[n + 1] = x
  <2>1. /\ Len(Append(s, x)) = Len(s) + 1
        /\ \A i \in 1 .. Len(s) : Append(s, x)[i] = s[i]
        /\ Append(s, x)[Len(s) + 1] = x
    BY AppendShape
  <2> QED
    BY <1>1, <1>2, <2>1
<1>4. PICK d : d = SubSeq(s, j + 1, n)
  OBVIOUS
<1>5. d \in Seq(Msg) /\ Len(d) = n - j /\ \A i \in 1 .. n - j : d[i] = s[j + i]
  BY <1>1, <1>4, SliceShape
<1>6. PICK e : e = SubSeq(t, j + 1, n + 1)
  OBVIOUS
<1>7. j <= n /\ j <= n + 1 /\ n + 1 \in Nat /\ n + 1 <= Len(t)
  BY <1>1, <1>3
<1>8. e \in Seq(Msg) /\ Len(e) = (n + 1) - j /\ \A i \in 1 .. (n + 1) - j : e[i] = t[j + i]
  BY <1>6, <1>7, SliceShape
<1>9. PICK a \in Seq(Msg) : a = Append(d, x)
  <2>1. Append(d, x) \in Seq(Msg)
    BY <1>5
  <2> QED
    BY <2>1
<1>10. /\ Len(a) = (n - j) + 1 /\ (\A i \in 1 .. n - j : a[i] = d[i]) /\ a[(n - j) + 1] = x
  <2>1. /\ Len(Append(d, x)) = Len(d) + 1
        /\ \A i \in 1 .. Len(d) : Append(d, x)[i] = d[i]
        /\ Append(d, x)[Len(d) + 1] = x
    <3>1. d \in Seq(Msg)
      BY <1>5
    <3> QED
      BY <3>1, AppendShape
  <2> QED
    BY <1>5, <1>9, <2>1
<1>11. (n + 1) - j = (n - j) + 1 /\ n - j \in Nat
  BY <1>7
<1>12. ASSUME NEW i \in 1 .. (n - j) + 1 PROVE a[i] = e[i]
  <2>1. CASE i \in 1 .. n - j
    <3>1. j + i \in 1 .. n
      BY <1>7, <2>1
    <3> QED
      BY <1>3, <1>5, <1>8, <1>10, <1>11, <2>1, <3>1
  <2>2. CASE i = (n - j) + 1
    <3>1. j + i = n + 1
      BY <1>7, <2>2
    <3> QED
      BY <1>3, <1>8, <1>10, <1>11, <2>2, <3>1
  <2> QED
    BY <1>11, <2>1, <2>2
<1>13. a = e
  BY <1>8, <1>10, <1>11, <1>12, SeqEqual
<1>14. DueOf(s, j) = d /\ DueOf(Append(s, x), j) = e
  BY <1>1, <1>2, <1>3, <1>4, <1>6 DEF DueOf
<1>15. DueOf(s, Len(s)) = << >>
  BY <1>1 DEF DueOf
<1> QED
  BY <1>2, <1>3, <1>5, <1>7, <1>9, <1>13, <1>14, <1>15

(* What a client got, as messages come into its queue and are sent.           *)
LEMMA GotMoves ==
  ASSUME NEW h \in Seq(Msg), NEW q \in Seq(Msg), NEW x \in Msg
  PROVE  /\ GotOf(h, q) \in Seq(Msg)
         /\ x.kind = "status" => GotOf(h, Append(q, x)) = GotOf(h, q)
         /\ x.kind # "status" => GotOf(h, Append(q, x)) = Append(GotOf(h, q), x)
         /\ h = << >> => GotOf(<<x>>, q) = GotOf(h, q)
         /\ h # << >> /\ q # << >> => GotOf(h \o News(<<Head(q)>>), Tail(q)) = GotOf(h, q)
<1>1. PICK g \in Seq(Msg) : g = IF h = << >> THEN << >> ELSE Tail(h)
  <2>1. (IF h = << >> THEN << >> ELSE Tail(h)) \in Seq(Msg)
    OBVIOUS
  <2> QED
    BY <2>1
<1>2. PICK n \in Seq(Msg) : n = News(q)
  BY NewsAppend
<1>3. GotOf(h, q) = g \o n
  BY <1>1, <1>2 DEF GotOf
<1>4. g \o n \in Seq(Msg)
  BY ConcatShape
<1>5. x.kind = "status" => GotOf(h, Append(q, x)) = g \o n
  BY <1>1, <1>2, NewsAppend DEF GotOf
<1>6. ASSUME x.kind # "status" PROVE GotOf(h, Append(q, x)) = Append(g \o n, x)
  <2>1. GotOf(h, Append(q, x)) = g \o Append(n, x)
    BY <1>1, <1>2, <1>6, NewsAppend DEF GotOf
  <2>2. PICK y \in Seq(Msg) : y = <<x>>
    <3>1. <<x>> \in Seq(Msg)
      OBVIOUS
    <3> QED
      BY <3>1
  <2>3. Append(n, x) = n \o y /\ Append(g \o n, x) = (g \o n) \o y
    BY <1>4, <2>2, AppendIsConcat
  <2>4. (g \o n) \o y = g \o (n \o y)
    BY ConcatThree
  <2> QED
    BY <2>1, <2>3, <2>4
<1>7. ASSUME h = << >> PROVE GotOf(<<x>>, q) = g \o n
  <2>1. <<x>> # << >> /\ Tail(<<x>>) = << >>
    BY SmallTuples
  <2> QED
    BY <1>1, <1>2, <1>7, <2>1 DEF GotOf
<1>8. ASSUME h # << >>, q # << >> PROVE GotOf(h \o News(<<Head(q)>>), Tail(q)) = g \o n
  <2>1. <<Head(q)>> \in Seq(Msg) /\ Tail(q) \in Seq(Msg)
    BY <1>8
  <2>2. PICK a \in Seq(Msg) : a = News(<<Head(q)>>)
    BY <2>1, NewsAppend
  <2>3. PICK b \in Seq(Msg) : b = News(Tail(q))
    BY <2>1, NewsAppend
  <2>4. n = a \o b
    BY <1>2, <1>8, <2>2, <2>3, NewsHead
  <2>5. h \o a # << >> /\ Tail(h \o a) = g \o a
    <3>1. g = Tail(h)
      BY <1>1, <1>8
    <3> QED
      BY <1>8, <3>1, TailOfJoined
  <2>6. (g \o a) \o b = g \o (a \o b)
    BY ConcatThree
  <2> QED
    BY <2>2, <2>3, <2>4, <2>5, <2>6 DEF GotOf
<1> QED
  BY <1>3, <1>4, <1>5, <1>6, <1>7, <1>8

(* The last meta message of a sequence that grows.                            *)
LEMMA MetaAppend ==
  ASSUME NEW s \in Seq(Msg), NEW x \in Msg, NEW r
  PROVE  /\ x.kind = "meta" /\ x.run = r => LastMeta(Append(s, x), r)
         /\ x.kind # "meta" => /\ LastMeta(s, r) => LastMeta(Append(s, x), r)
                               /\ NoMeta(s) => NoMeta(Append(s, x))
<1> DEFINE t == Append(s, x)
           n == Len(s)
<1>1. /\ n \in Nat /\ DOMAIN s = 1 .. n /\ DOMAIN t = 1 .. n + 1
      /\ \A i \in 1 .. n : t[i] = s[i]
      /\ t[n + 1] = x
  BY AppendShape
<1> HIDE DEF t, n
<1>2. /\ n + 1 \in 1 .. n + 1 /\ \A j \in 1 .. n + 1 : j <= n + 1 /\ (j \in 1 .. n \/ j = n + 1)
      /\ \A j \in 1 .. n : j \in 1 .. n + 1
  BY <1>1
<1>3. x.kind = "meta" /\ x.run = r => LastMeta(t, r)
  BY <1>1, <1>2 DEF LastMeta
<1>4. ASSUME x.kind # "meta", LastMeta(s, r) PROVE LastMeta(t, r)
  <2>1. PICK i \in 1 .. n : /\ s[i].kind = "meta" /\ s[i].run = r
                            /\ \A j \in 1 .. n : s[j].kind = "meta" => j <= i
    BY <1>1, <1>4 DEF LastMeta
  <2>2. i \in DOMAIN t /\ t[i].kind = "meta" /\ t[i].run = r
    BY <1>1, <1>2, <2>1
  <2>3. ASSUME NEW j \in DOMAIN t, t[j].kind = "meta" PROVE j <= i
    <3>1. j \in 1 .. n
      BY <1>1, <1>2, <1>4, <2>3
    <3> QED
      BY <1>1, <2>1, <2>3, <3>1
  <2> QED
    BY <2>2, <2>3 DEF LastMeta
<1>5. ASSUME x.kind # "meta", NoMeta(s) PROVE NoMeta(t)
  BY <1>1, <1>2, <1>5 DEF NoMeta
<1> QED
  BY <1>3, <1>4, <1>5 DEF t

(* The last meta message of a sequence, and of what is behind its first.      *)
LEMMA MetaTail ==
  ASSUME NEW q \in Seq(Msg), q # << >>, NEW r
  PROVE  /\ LastMeta(q, r) => \/ LastMeta(Tail(q), r)
                              \/ NoMeta(Tail(q)) /\ Head(q).kind = "meta" /\ Head(q).run = r
         /\ NoMeta(q) => NoMeta(Tail(q)) /\ Head(q).kind # "meta"
<1> DEFINE t == Tail(q)
           n == Len(q)
<1>1. /\ n \in Nat /\ n >= 1 /\ DOMAIN q = 1 .. n /\ DOMAIN t = 1 .. n - 1
      /\ \A i \in 1 .. n - 1 : t[i] = q[i + 1]
      /\ Head(q) = q[1]
  BY TailShape
<1> HIDE DEF t, n
<1>2. 1 \in 1 .. n /\ \A i \in 1 .. n - 1 : i + 1 \in 1 .. n /\ i + 1 # 1
  BY <1>1
<1>3. ASSUME NoMeta(q) PROVE NoMeta(t) /\ Head(q).kind # "meta"
  BY <1>1, <1>2, <1>3 DEF NoMeta
<1>4. ASSUME LastMeta(q, r)
      PROVE  LastMeta(t, r) \/ (NoMeta(t) /\ Head(q).kind = "meta" /\ Head(q).run = r)
  <2>1. PICK i \in 1 .. n : /\ q[i].kind = "meta" /\ q[i].run = r
                            /\ \A j \in 1 .. n : q[j].kind = "meta" => j <= i
    BY <1>1, <1>4 DEF LastMeta
  <2>2. CASE i = 1
    <3>1. ASSUME NEW j \in 1 .. n - 1, t[j].kind = "meta" PROVE FALSE
      <4>1. j + 1 \in 1 .. n /\ q[j + 1].kind = "meta"
        BY <1>1, <1>2, <3>1
      <4>2. j + 1 <= 1
        BY <2>1, <2>2, <4>1
      <4> QED
        BY <4>2
    <3> QED
      BY <1>1, <2>1, <2>2, <3>1 DEF NoMeta
  <2>3. CASE i # 1
    <3>1. i - 1 \in 1 .. n - 1 /\ (i - 1) + 1 = i
      BY <1>1, <2>3
    <3>2. t[i - 1] = q[i]
      BY <1>1, <3>1
    <3>3. ASSUME NEW j \in 1 .. n - 1, t[j].kind = "meta" PROVE j <= i - 1
      <4>1. j + 1 \in 1 .. n /\ q[j + 1].kind = "meta"
        BY <1>1, <1>2, <3>3
      <4>2. j + 1 <= i
        BY <2>1, <4>1
      <4> QED
        BY <4>2
    <3>4. PICK k \in 1 .. n - 1 : k = i - 1
      BY <3>1
    <3>5. /\ k \in DOMAIN t /\ t[k].kind = "meta" /\ t[k].run = r
          /\ \A j \in DOMAIN t : t[j].kind = "meta" => j <= k
      BY <1>1, <2>1, <3>2, <3>3, <3>4
    <3>6. LastMeta(t, r)
      BY <3>5 DEF LastMeta
    <3> QED
      BY <3>6
  <2> QED
    BY <2>2, <2>3
<1> QED
  BY <1>3, <1>4 DEF t

(* What is begun with stays begun with when one more comes.                   *)
LEMMA BeginsMore ==
  ASSUME NEW d \in Seq(Msg), NEW g \in Seq(Msg), NEW x \in Msg
  PROVE  /\ Begins(d, g) => Begins(Append(d, x), g)
         /\ Begins(d, d) /\ Begins(d, << >>)
<1>1. PICK n \in Nat : n = Len(d)
  OBVIOUS
<1>2. PICK m \in Nat : m = Len(g)
  OBVIOUS
<1>3. Len(Append(d, x)) = n + 1 /\ \A i \in 1 .. n : Append(d, x)[i] = d[i]
  BY <1>1, AppendShape
<1>4. Begins(d, g) => Begins(Append(d, x), g)
  BY <1>1, <1>2, <1>3 DEF Begins
<1>5. Begins(d, d)
  BY <1>1 DEF Begins
<1>6. Begins(d, << >>)
  <2>1. Len(<< >>) = 0
    OBVIOUS
  <2> QED
    BY <1>1, <2>1 DEF Begins
<1> QED
  BY <1>4, <1>5, <1>6

(* A client that has just come.                                               *)
LEMMA ServedEnter ==
  ASSUME NEW s \in Seq(Msg), NEW out, NEW due, NEW r
  PROVE  Fits("greeting", << >>, << >>, Len(s), s) /\ Served(<< >>, << >>, Len(s), s, out, due, r)
<1>1. << >> \in Seq(Msg) /\ Len(s) \in Nat /\ Len(s) <= Len(s)
  OBVIOUS
<1>2. DueOf(s, Len(s)) = << >>
  <2>1. PICK n \in Nat : n = Len(s)
    BY <1>1
  <2>2. SubSeq(s, n + 1, n) = << >>
    BY <2>1
  <2> QED
    BY <2>1, <2>2 DEF DueOf
<1>3. GotOf(<< >>, << >>) = << >>
  <2>1. News(<< >>) = << >>
    <3>1. [i \in 1 .. Len(<< >>) |-> IF << >>[i].kind = "status" THEN << >> ELSE <<<< >>[i]>>] = << >>
      OBVIOUS
    <3> QED
      BY <3>1, FlattenEmpty DEF News
  <2>2. << >> \o << >> = << >>
    OBVIOUS
  <2> QED
    BY <2>1, <2>2 DEF GotOf
<1>4. Begins(<< >>, << >>)
  BY DEF Begins
<1>5. Len(<< >>) <= JsonQueue
  BY MonitorAssumption DEF MonitorAssumption
<1>6. NoMeta(<< >>)
  BY DEF NoMeta
<1>7. Fits("greeting", << >>, << >>, Len(s), s)
  BY <1>1, <1>2, <1>3, <1>4, <1>5 DEF Fits
<1>8. Known(<< >>, << >>, r)
  BY <1>6 DEF Known
<1> QED
  BY <1>2, <1>3, <1>7, <1>8 DEF Served

(* A client that is greeted.                                                  *)
LEMMA ServedGreet ==
  ASSUME NEW q, NEW j, NEW s, NEW r, NEW m \in Msg, m.kind = "meta", m.run = r,
         Fits("greeting", << >>, q, j, s)
  PROVE  /\ Fits("on", <<m>>, q, j, s)
         /\ \A out, due : Served(<< >>, q, j, s, out, due, r) => Served(<<m>>, q, j, s, out, due, r)
<1>1. q \in Seq(Msg) /\ << >> \in Seq(Msg)
  BY DEF Fits
<1>2. GotOf(<<m>>, q) = GotOf(<< >>, q)
  BY <1>1, GotMoves
<1>3. <<m>> \in Seq(Msg) /\ <<m>> # << >>
  OBVIOUS
<1>4. Fits("on", <<m>>, q, j, s)
  BY <1>2, <1>3 DEF Fits
<1>5. LastMeta(<<m>>, r)
  <2>1. DOMAIN <<m>> = {1} /\ <<m>>[1] = m
    BY SmallTuples
  <2> QED
    BY <2>1 DEF LastMeta
<1>6. Known(<< >>, q, r) => Known(<<m>>, q, r)
  BY <1>5 DEF Known
<1> QED
  BY <1>2, <1>4, <1>6 DEF Served

(* A client whose writer sends the first of its queue.                        *)
LEMMA ServedWrite ==
  ASSUME NEW h, NEW q, NEW j, NEW s, NEW r, q # << >>, Fits("on", h, q, j, s)
  PROVE  /\ Fits("on", h \o News(<<Head(q)>>), Tail(q), j, s)
         /\ \A out, due : Served(h, q, j, s, out, due, r) =>
                          Served(h \o News(<<Head(q)>>), Tail(q), j, s, out, due, r)
<1>1. /\ q \in Seq(Msg) /\ h \in Seq(Msg) /\ h # << >> /\ Len(q) <= JsonQueue
  BY DEF Fits
<1>2. PICK x \in Msg : x = Head(q)
  BY <1>1
<1>3. PICK k : k = h \o News(<<x>>)
  OBVIOUS
<1>4. GotOf(k, Tail(q)) = GotOf(h, q)
  BY <1>1, <1>2, <1>3, GotMoves
<1>5. /\ x.kind = "status" => k = h
      /\ x.kind # "status" => k = Append(h, x)
  <2>1. << >> \in Seq(Msg) /\ Append(<< >>, x) = <<x>>
    OBVIOUS
  <2>2. /\ News(<< >>) = << >>
        /\ x.kind = "status" => News(<<x>>) = << >>
        /\ x.kind # "status" => News(<<x>>) = Append(<< >>, x)
    <3>1. /\ News(<< >>) = << >>
          /\ x.kind = "status" => News(Append(<< >>, x)) = News(<< >>)
          /\ x.kind # "status" => News(Append(<< >>, x)) = Append(News(<< >>), x)
      BY <2>1, NewsAppend
    <3> QED
      BY <2>1, <3>1
  <2>3. h \o << >> = h
    BY <1>1, NothingBefore
  <2>4. h \o <<x>> = Append(h, x)
    BY <1>1, AppendIsConcat
  <2> QED
    BY <1>3, <2>1, <2>2, <2>3, <2>4
<1>6. k \in Seq(Msg) /\ k # << >>
  <2>1. Append(h, x) \in Seq(Msg) /\ Append(h, x) # << >>
    BY <1>1, AppendShape
  <2> QED
    BY <1>1, <1>5, <2>1
<1>7. Tail(q) \in Seq(Msg) /\ Len(Tail(q)) <= JsonQueue
  <2>1. Tail(q) \in Seq(Msg) /\ Len(Tail(q)) = Len(q) - 1 /\ Len(q) \in Nat
    BY <1>1, TailShape
  <2> QED
    BY <1>1, <2>1, MonitorAssumption DEF MonitorAssumption
<1>8. Fits("on", k, Tail(q), j, s)
  BY <1>4, <1>6, <1>7 DEF Fits
<1>9. ASSUME Known(h, q, r) PROVE Known(k, Tail(q), r)
  <2>1. /\ LastMeta(q, r) => \/ LastMeta(Tail(q), r)
                             \/ NoMeta(Tail(q)) /\ x.kind = "meta" /\ x.run = r
        /\ NoMeta(q) => NoMeta(Tail(q)) /\ x.kind # "meta"
    BY <1>1, <1>2, MetaTail
  <2>2. /\ x.kind = "meta" /\ x.run = r => LastMeta(Append(h, x), r)
        /\ x.kind # "meta" /\ LastMeta(h, r) => LastMeta(Append(h, x), r)
    BY <1>1, MetaAppend
  <2>3. CASE LastMeta(q, r)
    <3>1. CASE LastMeta(Tail(q), r)
      BY <3>1 DEF Known
    <3>2. CASE NoMeta(Tail(q)) /\ x.kind = "meta" /\ x.run = r
      BY <1>5, <2>2, <3>2 DEF Known
    <3> QED
      BY <2>1, <2>3, <3>1, <3>2
  <2>4. CASE NoMeta(q) /\ LastMeta(h, r)
    BY <1>5, <2>1, <2>2, <2>4 DEF Known
  <2> QED
    BY <1>1, <1>9, <2>3, <2>4 DEF Known
<1> QED
  BY <1>2, <1>3, <1>4, <1>8, <1>9 DEF Served

(* A client that a message is put in the queue of.                            *)
LEMMA ServedSend ==
  ASSUME NEW w, w # "off", NEW h, NEW q, NEW j, NEW s \in Seq(Msg), NEW t, NEW r, NEW x \in Msg,
         NEW out, NEW due, NEW due2,
         Fits(w, h, q, j, s), Served(h, q, j, s, FALSE, due, r), Len(q) < JsonQueue,
         t = IF x.kind = "status" THEN s ELSE Append(s, x),
         x.kind = "meta" => x.run = r, x.kind # "meta" /\ due => due2
  PROVE  Fits(w, h, Append(q, x), j, t) /\ Served(h, Append(q, x), j, t, out, due2, r)
<1>1. /\ q \in Seq(Msg) /\ h \in Seq(Msg) /\ j \in Nat /\ j <= Len(s)
      /\ GotOf(h, q) = DueOf(s, j) /\ (due \/ Known(h, q, r))
  BY DEF Fits, Served
<1>2. Append(q, x) \in Seq(Msg) /\ Len(Append(q, x)) <= JsonQueue
  <2>1. Append(q, x) \in Seq(Msg)
    BY <1>1
  <2>2. Len(Append(q, x)) = Len(q) + 1 /\ Len(q) \in Nat
    BY <1>1, AppendShape
  <2> QED
    BY <2>1, <2>2, MonitorAssumption DEF MonitorAssumption
<1>3. /\ DueOf(s, j) \in Seq(Msg) /\ DueOf(Append(s, x), j) = Append(DueOf(s, j), x)
      /\ j <= Len(Append(s, x))
  BY <1>1, DueGrows
<1>4. /\ x.kind = "status" => GotOf(h, Append(q, x)) = GotOf(h, q)
      /\ x.kind # "status" => GotOf(h, Append(q, x)) = Append(GotOf(h, q), x)
  BY <1>1, GotMoves
<1>5. j <= Len(t) /\ GotOf(h, Append(q, x)) = DueOf(t, j)
  BY <1>1, <1>3, <1>4
<1>6. DueOf(t, j) \in Seq(Msg)
  <2>1. Append(DueOf(s, j), x) \in Seq(Msg)
    BY <1>3
  <2> QED
    BY <1>3, <2>1
<1>7. Begins(DueOf(t, j), DueOf(t, j))
  BY <1>6, BeginsMore
<1>8. Fits(w, h, Append(q, x), j, t)
  BY <1>1, <1>2, <1>5, <1>7 DEF Fits
<1>9. CASE x.kind = "meta"
  <2>1. LastMeta(Append(q, x), r)
    BY <1>1, <1>9, MetaAppend
  <2> QED
    BY <1>5, <1>8, <2>1 DEF Served, Known
<1>10. CASE x.kind # "meta"
  <2>1. Known(h, q, r) => Known(h, Append(q, x), r)
    BY <1>1, <1>10, MetaAppend DEF Known
  <2> QED
    BY <1>1, <1>5, <1>8, <1>10, <2>1 DEF Served
<1> QED
  BY <1>9, <1>10

(* A client that a message is not put in the queue of.                        *)
LEMMA FitsSkip ==
  ASSUME NEW w, NEW h, NEW q, NEW j, NEW s \in Seq(Msg), NEW x \in Msg, Fits(w, h, q, j, s)
  PROVE  Fits(w, h, q, j, Append(s, x))
<1>1. q \in Seq(Msg) /\ h \in Seq(Msg) /\ j \in Nat /\ j <= Len(s) /\ Begins(DueOf(s, j), GotOf(h, q))
  BY DEF Fits
<1>2. /\ DueOf(s, j) \in Seq(Msg) /\ DueOf(Append(s, x), j) = Append(DueOf(s, j), x)
      /\ j <= Len(Append(s, x))
  BY <1>1, DueGrows
<1>3. GotOf(h, q) \in Seq(Msg)
  BY <1>1, GotMoves
<1>4. Begins(Append(DueOf(s, j), x), GotOf(h, q))
  BY <1>1, <1>2, <1>3, BeginsMore
<1> QED
  BY <1>2, <1>4 DEF Fits

(* The SUB thread goes on with p.                                             *)
LEMMA SubGoesOn ==
  ASSUME CallInv, DropsFirst(todo[Sub]), NEW p \in Seq(HubStep), todo[Sub] # << >>,
         Continue(Sub, p)
  PROVE  /\ todo[Sub] \in Seq(HubStep) /\ Tail(todo[Sub]) \in Seq(HubStep)
         /\ todo'[Sub] = p \o Tail(todo[Sub]) /\ DropsFirst(Tail(todo[Sub]))
         /\ Elements(todo'[Sub]) = Elements(p) \cup Elements(Tail(todo[Sub]))
         /\ Elements(todo[Sub]) = {Head(todo[Sub])} \cup Elements(Tail(todo[Sub]))
         /\ Head(todo[Sub]).name \notin {"count", "store", "drop"} => \A c : ~Dropping(c)
<1>1. todo \in [Actors -> Seq(HubStep)] /\ Sub \in Actors
  BY DEF CallInv, HubTypes, Actors
<1>2. PICK s \in Seq(HubStep) : s = todo[Sub]
  BY <1>1
<1>3. PICK t \in Seq(HubStep) : t = Tail(s)
  <2>1. s # << >>
    BY <1>2
  <2>2. Tail(s) \in Seq(HubStep)
    BY <2>1
  <2> QED
    BY <2>2
<1>4. todo'[Sub] = p \o t
  BY <1>1, <1>2, <1>3 DEF Continue
<1>5. Elements(p \o t) = Elements(p) \cup Elements(t)
  BY ElementsConcat
<1>6. Elements(s) = {Head(s)} \cup Elements(t)
  BY <1>2, <1>3, ElementsTail
<1>7. DropsFirst(t) /\ (Head(s).name \notin {"count", "store", "drop"} =>
                          \A x \in Elements(s) : x.name # "drop")
  BY <1>2, <1>3, DropsTail
<1>8. Head(s).name \notin {"count", "store", "drop"} => \A c : ~Dropping(c)
  <2>1. \A c : Dropping(c) <=> Drop(c) \in Elements(s)
    BY <1>2, SubElements
  <2>2. \A c : Drop(c).name = "drop"
    BY StepIs
  <2> QED
    BY <1>7, <2>1, <2>2
<1>9. s = todo[Sub] /\ t = Tail(todo[Sub]) /\ Head(s) = Head(todo[Sub])
  BY <1>2, <1>3
<1> QED
  BY <1>4, <1>5, <1>6, <1>7, <1>8, <1>9

(* A step that touches no JSON message.                                       *)
LEMMA JsonFrame ==
  ASSUME JsonInv, UNCHANGED <<said, jsonQ, heard, joined>>, DropsFirst(todo'[Sub]),
         registered \subseteq Clients, registered' \subseteq registered,
         \A c \in Clients : writer'[c] \in {writer[c], "done"},
         \A c \in registered' : Dropping(c) => Dropping(c)',
         MetaDue => MetaDue', metaRun' = metaRun \/ MetaDue'
  PROVE  JsonInv'
<1>1. ASSUME NEW c \in Clients
      PROVE  Fits(writer'[c], heard'[c], jsonQ'[c], joined'[c], said')
  <2>1. Fits(writer[c], heard[c], jsonQ[c], joined[c], said)
    BY DEF JsonInv
  <2>2. writer'[c] \in {writer[c], "done"}
    OBVIOUS
  <2> QED
    BY <2>1, <2>2 DEF Fits
<1>2. ASSUME NEW c \in registered'
      PROVE  /\ writer'[c] # "off"
             /\ Served(heard'[c], jsonQ'[c], joined'[c], said', Dropping(c)', MetaDue', metaRun')
  <2>1. c \in registered /\ c \in Clients
    OBVIOUS
  <2>2. /\ writer[c] # "off"
        /\ Served(heard[c], jsonQ[c], joined[c], said, Dropping(c), MetaDue, metaRun)
    BY <2>1 DEF JsonInv
  <2>3. writer'[c] # "off"
    BY <2>1, <2>2
  <2>4. PICK o, d, o2, d2 \in BOOLEAN : /\ o = Dropping(c) /\ d = MetaDue
                                        /\ o2 = Dropping(c)' /\ d2 = MetaDue'
    BY DEF Dropping, MetaDue
  <2>5. (o => o2) /\ (d => d2) /\ (metaRun' = metaRun \/ d2)
    BY <2>4
  <2>6. Served(heard[c], jsonQ[c], joined[c], said, o, d, metaRun)
    BY <2>2, <2>4
  <2>7. Served(heard[c], jsonQ[c], joined[c], said, o2, d2, metaRun')
    BY <2>5, <2>6 DEF Served
  <2>8. Served(heard'[c], jsonQ'[c], joined'[c], said', o2, d2, metaRun')
    BY <2>7
  <2> QED
    BY <2>3, <2>4, <2>8
<1> QED
  BY <1>1, <1>2 DEF JsonInv

(* The steps of a status message.                                             *)
LEMMA StatusNames ==
  ASSUME NEW run \in RunNos, NEW state \in StateNames
  PROVE  \A x \in Elements(StatusSteps(run, state)) : x.name \notin {"count", "store", "drop"}
<1> DEFINE N == {"count", "store", "drop"}
<1>1. ASSUME NEW name \in StepNames, NEW st \in StateNames
      PROVE  Say(name, run, st) \in HubStep /\ Say(name, run, st).name = name
  BY DEF Say, HubStep, StepText, Actors
<1>2. PICK a, b, c, d, e : /\ a = Say("metaRun", run, "") /\ b = Say("meta", run, "")
                           /\ c = Say("run", run, state) /\ d = Say("remember", run, state)
                           /\ e = Say("status", run, state)
  OBVIOUS
<1>3. "" \in StateNames
  BY DEF StateNames
<1>4. /\ a \in HubStep /\ b \in HubStep /\ c \in HubStep /\ d \in HubStep /\ e \in HubStep
      /\ a.name \notin N /\ b.name \notin N /\ c.name \notin N /\ d.name \notin N
      /\ e.name \notin N
  BY <1>1, <1>2, <1>3 DEF StepNames
<1> HIDE DEF N
<1>5. PICK p, q, r : /\ p = IF lastRunState.run # run THEN <<a, b>> ELSE << >>
                     /\ q = IF lastRunState.run # run \/ lastRunState.state # state
                            THEN <<c, d>> ELSE << >>
                     /\ r = <<e>>
  OBVIOUS
<1>6. StatusSteps(run, state) = (p \o q) \o r
  BY <1>2, <1>5 DEF StatusSteps
<1>7. ASSUME NEW x \in HubStep, NEW y \in HubStep, x.name \notin N, y.name \notin N
      PROVE  /\ <<x, y>> \in Seq(HubStep) /\ <<x>> \in Seq(HubStep)
             /\ \A z \in Elements(<<x, y>>) : z.name \notin N
             /\ \A z \in Elements(<<x>>) : z.name \notin N
  <2>1. DOMAIN <<x, y>> = {1, 2} /\ <<x, y>>[1] = x /\ <<x, y>>[2] = y
    BY SmallTuples
  <2>2. DOMAIN <<x>> = {1} /\ <<x>>[1] = x
    BY SmallTuples
  <2>3. <<x, y>> \in Seq(HubStep) /\ <<x>> \in Seq(HubStep)
    OBVIOUS
  <2>4. \A z \in Elements(<<x, y>>) : z.name \notin N
    BY <1>7, <2>1 DEF Elements
  <2>5. \A z \in Elements(<<x>>) : z.name \notin N
    BY <1>7, <2>2 DEF Elements
  <2> QED
    BY <2>3, <2>4, <2>5
<1>8. << >> \in Seq(HubStep) /\ \A z \in Elements(<< >>) : z.name \notin N
  BY NoElements
<1>9. p \in Seq(HubStep) /\ \A z \in Elements(p) : z.name \notin N
  BY <1>4, <1>5, <1>7, <1>8
<1>10. q \in Seq(HubStep) /\ \A z \in Elements(q) : z.name \notin N
  BY <1>4, <1>5, <1>7, <1>8
<1>11. r \in Seq(HubStep) /\ \A z \in Elements(r) : z.name \notin N
  BY <1>4, <1>5, <1>7
<1>12. p \in Seq(HubStep) /\ q \in Seq(HubStep) /\ r \in Seq(HubStep)
  BY <1>9, <1>10, <1>11
<1>13. PICK m \in Seq(HubStep) : m = p \o q
  <2>1. p \o q \in Seq(HubStep)
    BY <1>12, ConcatShape
  <2> QED
    BY <2>1
<1>14. Elements(m) = Elements(p) \cup Elements(q)
  BY <1>12, <1>13, ElementsConcat
<1>15. Elements(m \o r) = Elements(m) \cup Elements(r)
  BY <1>12, ElementsConcat
<1> QED
  BY <1>6, <1>9, <1>10, <1>11, <1>13, <1>14, <1>15 DEF N

(* The first state.                                                           *)
LEMMA JsonInit == HubInit => JsonInv
<1> SUFFICES ASSUME HubInit PROVE JsonInv
  OBVIOUS
<1>1. PICK e \in Seq(Msg) : e = << >>
  <2>1. << >> \in Seq(Msg)
    OBVIOUS
  <2> QED
    BY <2>1
<1>2. /\ said = e /\ registered = {} /\ Sub \in Actors
      /\ \A c \in Clients : /\ writer[c] = "off" /\ jsonQ[c] = << >> /\ heard[c] = << >>
                            /\ joined[c] = 0
  BY <1>1 DEF HubInit, Actors
<1>3. DropsFirst(todo[Sub])
  <2>1. todo[Sub] = << >>
    BY <1>2 DEF HubInit
  <2> QED
    BY <2>1 DEF DropsFirst
<1>4. Fits("greeting", << >>, << >>, Len(e), e)
  BY ServedEnter
<1>5. Len(e) = 0
  BY <1>1
<1>6. Fits("off", << >>, << >>, 0, e)
  BY <1>4, <1>5 DEF Fits
<1>7. /\ jsonQ \in [Clients -> Seq(Msg)] /\ heard \in [Clients -> Seq(Msg)]
      /\ joined \in [Clients -> Nat] /\ said \in Seq(Msg)
  BY <1>1, <1>2 DEF HubInit
<1> QED
  BY <1>2, <1>3, <1>6, <1>7 DEF JsonInv

(* A message goes to the clients.                                             *)
LEMMA JsonBroadcast == CallInv /\ JsonInv /\ Broadcast => JsonInv'
<1> SUFFICES ASSUME CallInv, JsonInv, Broadcast PROVE JsonInv'
  OBVIOUS
<1>1. /\ said \in Seq(Msg) /\ DropsFirst(todo[Sub])
      /\ jsonQ \in [Clients -> Seq(Msg)] /\ heard \in [Clients -> Seq(Msg)]
      /\ joined \in [Clients -> Nat] /\ registered \subseteq Clients
  BY DEF JsonInv, CallInv, HubTypes
<1>2. PICK item \in HubStep, x \in Msg, to \in SUBSET registered, drops \in Seq(HubStep) :
           /\ item = Head(todo[Sub]) /\ todo[Sub] # << >> /\ item.name \in {"meta", "run", "status"}
           /\ x.kind = item.name /\ (item.name = "meta" => x.run = metaRun)
           /\ item.name # "status" => to = registered
           /\ jsonQ' = [c \in Clients |-> IF c \in to /\ Room(c) THEN Append(jsonQ[c], x)
                                                                 ELSE jsonQ[c]]
           /\ said' = IF item.name = "status" THEN said ELSE Append(said, x)
           /\ Continue(Sub, drops) /\ SubOK(drops)
           /\ \A i \in DOMAIN drops : drops[i].name = "drop"
           /\ \A c \in to : ~Room(c) => \E i \in DOMAIN drops : drops[i] = Drop(c)
  BY BroadcastShape
<1>3. UNCHANGED <<writer, registered, heard, joined, metaRun>>
  BY DEF Broadcast
<1>4. /\ Tail(todo[Sub]) \in Seq(HubStep)
      /\ todo'[Sub] = drops \o Tail(todo[Sub]) /\ DropsFirst(Tail(todo[Sub]))
      /\ Elements(todo'[Sub]) = Elements(drops) \cup Elements(Tail(todo[Sub]))
      /\ Elements(todo[Sub]) = {item} \cup Elements(Tail(todo[Sub]))
      /\ item.name \notin {"count", "store", "drop"} => \A c : ~Dropping(c)
  BY <1>1, <1>2, SubGoesOn
<1>5. \A c : ~Dropping(c)
  BY <1>2, <1>4
<1>6. DropsFirst(todo'[Sub])
  <2>1. \A y \in Elements(drops) : y.name \in {"count", "store", "drop"}
    BY <1>2 DEF Elements
  <2>2. PICK t \in Seq(HubStep) : t = Tail(todo[Sub])
    BY <1>4
  <2>3. DropsFirst(drops \o t)
    BY <1>4, <2>1, <2>2, DropsBefore
  <2> QED
    BY <1>4, <2>2, <2>3
<1>7. \A c \in to : ~Room(c) => Dropping(c)'
  <2>1. \A c \in to : ~Room(c) => Drop(c) \in Elements(drops)
    BY <1>2 DEF Elements
  <2> QED
    BY <1>4, <2>1, SubElements
<1>8. item.name # "meta" /\ MetaDue => MetaDue'
  BY <1>4, SubElements
<1>9. /\ jsonQ' \in [Clients -> Seq(Msg)] /\ said' \in Seq(Msg)
      /\ \A c \in Clients : jsonQ'[c] = IF c \in to /\ Room(c) THEN Append(jsonQ[c], x) ELSE jsonQ[c]
  <2>1. \A c \in Clients : Append(jsonQ[c], x) \in Seq(Msg)
    BY <1>1
  <2>2. Append(said, x) \in Seq(Msg)
    BY <1>1
  <2> QED
    BY <1>1, <1>2, <2>1, <2>2
<1>10. PICK s, s2 \in Seq(Msg) : s = said /\ s2 = said'
  BY <1>1, <1>9
<1>11. s2 = IF x.kind = "status" THEN s ELSE Append(s, x)
  BY <1>2, <1>10
<1>12. PICK d, d2 \in BOOLEAN : d = MetaDue /\ d2 = MetaDue'
  BY DEF MetaDue
<1>13. /\ x.kind = "meta" => x.run = metaRun
       /\ x.kind # "meta" /\ d => d2
  BY <1>2, <1>8, <1>12
<1>14. ASSUME NEW c \in Clients
       PROVE  /\ Fits(writer[c], heard[c], jsonQ[c], joined[c], s)
              /\ c \in registered => /\ writer[c] # "off"
                                     /\ Served(heard[c], jsonQ[c], joined[c], s, FALSE, d, metaRun)
  <2>1. Fits(writer[c], heard[c], jsonQ[c], joined[c], s)
    BY <1>10 DEF JsonInv
  <2>2. ASSUME c \in registered
        PROVE  writer[c] # "off" /\ Served(heard[c], jsonQ[c], joined[c], s, FALSE, d, metaRun)
    <3>1. /\ writer[c] # "off"
          /\ Served(heard[c], jsonQ[c], joined[c], said, Dropping(c), MetaDue, metaRun)
      BY <2>2 DEF JsonInv
    <3>2. PICK o \in BOOLEAN : o = Dropping(c)
      BY DEF Dropping
    <3>3. o = FALSE
      BY <1>5, <3>2
    <3>4. Served(heard[c], jsonQ[c], joined[c], s, o, d, metaRun)
      BY <1>10, <1>12, <3>1, <3>2
    <3> QED
      BY <3>1, <3>3, <3>4
  <2> QED
    BY <2>1, <2>2
<1>15. ASSUME NEW c \in Clients
       PROVE  /\ Fits(writer'[c], heard'[c], jsonQ'[c], joined'[c], said')
              /\ c \in registered' =>
                   /\ writer'[c] # "off"
                   /\ Served(heard'[c], jsonQ'[c], joined'[c], said', Dropping(c)', MetaDue', metaRun')
  <2>1. PICK w, h, q, j, r : w = writer[c] /\ h = heard[c] /\ q = jsonQ[c] /\ j = joined[c] /\ r = metaRun
    OBVIOUS
  <2>2. PICK o \in BOOLEAN : o = Dropping(c)'
    BY DEF Dropping
  <2>3. w = writer'[c] /\ h = heard'[c] /\ j = joined'[c] /\ r = metaRun'
    BY <1>3, <2>1
  <2>4. /\ Fits(w, h, q, j, s)
        /\ c \in registered => w # "off" /\ Served(h, q, j, s, FALSE, d, r)
    BY <1>14, <2>1
  <2>5. CASE c \in to /\ Room(c)
    <3>1. c \in registered /\ Len(q) < JsonQueue
      BY <2>1, <2>5 DEF Room
    <3>2. w # "off" /\ Served(h, q, j, s, FALSE, d, r) /\ Fits(w, h, q, j, s)
      BY <2>4, <3>1
    <3>3. /\ x.kind = "meta" => x.run = r
          /\ x.kind # "meta" /\ d => d2
      BY <1>13, <2>1
    <3>4. Fits(w, h, Append(q, x), j, s2) /\ Served(h, Append(q, x), j, s2, o, d2, r)
      BY <1>11, <3>1, <3>2, <3>3, ServedSend
    <3>5. jsonQ'[c] = Append(q, x)
      BY <1>9, <2>1, <2>5
    <3> QED
      BY <1>10, <1>12, <2>2, <2>3, <3>2, <3>4, <3>5
  <2>6. CASE ~(c \in to /\ Room(c))
    <3>1. jsonQ'[c] = q
      BY <1>9, <2>1, <2>6
    <3>2. Fits(w, h, q, j, s2)
      BY <1>11, <2>4, FitsSkip
    <3>3. ASSUME c \in registered PROVE w # "off" /\ Served(h, q, j, s2, o, d2, r)
      <4>1. CASE c \in to
        BY <1>7, <2>2, <2>4, <2>6, <3>3, <4>1 DEF Served
      <4>2. CASE c \notin to
        <5>1. item.name = "status"
          BY <1>2, <3>3, <4>2
        <5>2. s2 = s /\ (d => d2)
          BY <1>2, <1>11, <1>13, <5>1
        <5> QED
          BY <2>4, <3>3, <5>2 DEF Served
      <4> QED
        BY <4>1, <4>2
    <3>4. registered' = registered
      BY <1>3
    <3> QED
      BY <1>10, <1>12, <2>2, <2>3, <3>1, <3>2, <3>3, <3>4
  <2> QED
    BY <2>5, <2>6
<1>16. registered' \subseteq Clients /\ heard' \in [Clients -> Seq(Msg)] /\ joined' \in [Clients -> Nat]
  BY <1>1, <1>3
<1> QED
  BY <1>6, <1>9, <1>15, <1>16 DEF JsonInv

(* A client comes, is greeted, is sent a message.                             *)
LEMMA JsonClient ==
  ASSUME CallInv, JsonInv, NEW c \in Clients, Enter(c) \/ Greet(c) \/ WriterJson(c)
  PROVE  JsonInv'
<1>1. /\ said \in Seq(Msg) /\ DropsFirst(todo[Sub])
      /\ jsonQ \in [Clients -> Seq(Msg)] /\ heard \in [Clients -> Seq(Msg)]
      /\ joined \in [Clients -> Nat] /\ registered \subseteq Clients
      /\ writer \in [Clients -> {"off", "greeting", "on", "done"}]
      /\ todo \in [Actors -> Seq(HubStep)] /\ metaRun \in RunNos
  BY DEF JsonInv, CallInv, HubTypes
<1>2. c \in Actors /\ Sub \in Actors /\ c # Sub
  BY MonitorAssumption DEF Actors, MonitorAssumption
<1>3. todo'[Sub] = todo[Sub] /\ UNCHANGED <<said, metaRun>>
  BY <1>1, <1>2 DEF Enter, Greet, WriterJson, Continue
<1>4. DropsFirst(todo'[Sub])
  BY <1>1, <1>3
<1>5. PICK d \in BOOLEAN : d = MetaDue /\ d = MetaDue'
  BY <1>3 DEF MetaDue
<1>6. \A b : Dropping(b)' <=> Dropping(b)
  BY <1>3, SubElements
<1>7. ASSUME NEW b \in Clients
      PROVE  /\ Fits(writer[b], heard[b], jsonQ[b], joined[b], said)
             /\ b \in registered => /\ writer[b] # "off"
                                    /\ Served(heard[b], jsonQ[b], joined[b], said, Dropping(b), d, metaRun)
  BY <1>5 DEF JsonInv
<1>8. PICK o \in BOOLEAN : o = Dropping(c) /\ o = Dropping(c)'
  <2>1. Dropping(c) \in BOOLEAN /\ Dropping(c)' \in BOOLEAN
    BY DEF Dropping
  <2>2. Dropping(c)' = Dropping(c)
    BY <1>6, <2>1
  <2> QED
    BY <2>1, <2>2
<1>9. ClientOK(task[c], writer[c], todo[c], registered, c)
  BY DEF CallInv, ClientCalls
<1>10. ASSUME jsonQ' \in [Clients -> Seq(Msg)], heard' \in [Clients -> Seq(Msg)],
              joined' \in [Clients -> Nat], registered' \subseteq registered \cup {c},
              \A b \in Clients : b # c => /\ writer'[b] = writer[b] /\ heard'[b] = heard[b]
                                          /\ jsonQ'[b] = jsonQ[b] /\ joined'[b] = joined[b],
              Fits(writer'[c], heard'[c], jsonQ'[c], joined'[c], said),
              c \in registered' => /\ writer'[c] # "off"
                                   /\ Served(heard'[c], jsonQ'[c], joined'[c], said, o, d, metaRun)
       PROVE  JsonInv'
  <2>1. ASSUME NEW b \in Clients
        PROVE  /\ Fits(writer'[b], heard'[b], jsonQ'[b], joined'[b], said')
               /\ b \in registered' =>
                    /\ writer'[b] # "off"
                    /\ Served(heard'[b], jsonQ'[b], joined'[b], said', Dropping(b)', MetaDue', metaRun')
    <3>1. CASE b = c
      BY <1>3, <1>5, <1>8, <1>10, <3>1
    <3>2. CASE b # c
      <4>1. PICK p \in BOOLEAN : p = Dropping(b) /\ p = Dropping(b)'
        <5>1. Dropping(b) \in BOOLEAN /\ Dropping(b)' \in BOOLEAN
          BY DEF Dropping
        <5>2. Dropping(b)' = Dropping(b)
          BY <1>6, <5>1
        <5> QED
          BY <5>1, <5>2
      <4>2. b \in registered' => b \in registered
        BY <1>10, <3>2
      <4>3. /\ Fits(writer[b], heard[b], jsonQ[b], joined[b], said)
            /\ b \in registered => /\ writer[b] # "off"
                                   /\ Served(heard[b], jsonQ[b], joined[b], said, p, d, metaRun)
        BY <1>7, <4>1
      <4> QED
        BY <1>3, <1>5, <1>10, <3>2, <4>1, <4>2, <4>3
    <3> QED
      BY <3>1, <3>2
  <2>2. registered' \subseteq Clients /\ said' \in Seq(Msg)
    BY <1>1, <1>3, <1>10
  <2> QED
    BY <1>4, <1>10, <2>1, <2>2 DEF JsonInv
<1>11. CASE Enter(c)
  <2>1. /\ todo[c] # << >> /\ Head(todo[c]).name = "enter"
        /\ registered' = registered \cup {c} /\ joined' = [joined EXCEPT ![c] = Len(said)]
        /\ writer' = [writer EXCEPT ![c] = "greeting"] /\ UNCHANGED <<jsonQ, heard>>
    BY <1>11 DEF Enter, At
  <2>2. writer[c] = "off"
    BY <1>9, <2>1, ClientPops
  <2>3. jsonQ[c] = << >> /\ heard[c] = << >>
    BY <1>7, <2>2 DEF Fits
  <2>4. Len(said) \in Nat
    BY <1>1
  <2>5. /\ joined' \in [Clients -> Nat] /\ joined'[c] = Len(said) /\ writer'[c] = "greeting"
        /\ \A b \in Clients : b # c => writer'[b] = writer[b] /\ joined'[b] = joined[b]
    BY <1>1, <2>1, <2>4
  <2>6. /\ Fits("greeting", << >>, << >>, Len(said), said)
        /\ Served(<< >>, << >>, Len(said), said, o, d, metaRun)
    BY <1>1, ServedEnter
  <2> QED
    BY <1>1, <1>10, <2>1, <2>3, <2>5, <2>6
<1>12. CASE Greet(c)
  <2>1. PICK m \in Msg : m = [kind |-> "meta", run |-> metaRun, state |-> ""]
    BY <1>1 DEF Msg, StateNames
  <2>2. /\ todo[c] # << >> /\ Head(todo[c]).name = "greet"
        /\ writer' = [writer EXCEPT ![c] = "on"] /\ heard' = [heard EXCEPT ![c] = <<m>>]
        /\ UNCHANGED <<jsonQ, registered, joined>>
    BY <1>12, <2>1 DEF Greet, At
  <2>3. writer[c] = "greeting"
    BY <1>9, <2>2, ClientPops
  <2>4. heard[c] = << >>
    BY <1>7, <2>3 DEF Fits
  <2>5. <<m>> \in Seq(Msg)
    OBVIOUS
  <2>6. /\ heard' \in [Clients -> Seq(Msg)] /\ heard'[c] = <<m>> /\ writer'[c] = "on"
        /\ \A b \in Clients : b # c => writer'[b] = writer[b] /\ heard'[b] = heard[b]
    BY <1>1, <2>2, <2>5
  <2>7. m.kind = "meta" /\ m.run = metaRun
    BY <2>1
  <2>8. Fits("greeting", << >>, jsonQ[c], joined[c], said)
    BY <1>7, <2>3, <2>4
  <2>9. /\ Fits("on", <<m>>, jsonQ[c], joined[c], said)
        /\ Served(<< >>, jsonQ[c], joined[c], said, o, d, metaRun) =>
             Served(<<m>>, jsonQ[c], joined[c], said, o, d, metaRun)
    BY <2>7, <2>8, ServedGreet
  <2>10. c \in registered => Served(<< >>, jsonQ[c], joined[c], said, o, d, metaRun)
    BY <1>7, <1>8, <2>4
  <2> QED
    BY <1>1, <1>10, <2>2, <2>6, <2>9, <2>10
<1>13. CASE WriterJson(c)
  <2>1. /\ writer[c] = "on" /\ jsonQ[c] # << >>
        /\ heard' = [heard EXCEPT ![c] = heard[c] \o News(<<Head(jsonQ[c])>>)]
        /\ jsonQ' = [jsonQ EXCEPT ![c] = Tail(jsonQ[c])]
        /\ UNCHANGED <<writer, registered, joined>>
    BY <1>13 DEF WriterJson
  <2>2. PICK h, q, k, t : /\ h = heard[c] /\ q = jsonQ[c] /\ k = h \o News(<<Head(q)>>)
                          /\ t = Tail(q)
    OBVIOUS
  <2>3. Fits("on", h, q, joined[c], said) /\ q # << >>
    BY <1>7, <2>1, <2>2
  <2>4. /\ Fits("on", k, t, joined[c], said)
        /\ Served(h, q, joined[c], said, o, d, metaRun) =>
             Served(k, t, joined[c], said, o, d, metaRun)
    BY <2>2, <2>3, ServedWrite
  <2>5. k \in Seq(Msg) /\ t \in Seq(Msg)
    BY <2>4 DEF Fits
  <2>6. /\ heard' \in [Clients -> Seq(Msg)] /\ heard'[c] = k /\ jsonQ' \in [Clients -> Seq(Msg)]
        /\ jsonQ'[c] = t /\ \A b \in Clients : b # c => jsonQ'[b] = jsonQ[b] /\ heard'[b] = heard[b]
    BY <1>1, <2>1, <2>2, <2>5
  <2>7. c \in registered => Served(h, q, joined[c], said, o, d, metaRun)
    BY <1>7, <1>8, <2>2
  <2> QED
    BY <1>1, <1>10, <2>1, <2>4, <2>6, <2>7
<1> QED
  BY <1>11, <1>12, <1>13

(* Every step of the hub keeps the JSON messages in order.                    *)
LEMMA JsonNext == CallInv /\ JsonInv /\ HubNext => JsonInv'
<1> SUFFICES ASSUME CallInv, JsonInv, HubNext PROVE JsonInv'
  OBVIOUS
<1>1. /\ DropsFirst(todo[Sub]) /\ registered \subseteq Clients
      /\ writer \in [Clients -> {"off", "greeting", "on", "done"}]
      /\ todo \in [Actors -> Seq(HubStep)] /\ SubOK(todo[Sub])
  BY DEF JsonInv, CallInv, HubTypes, SubCall
<1>2. Sub \in Actors /\ Clients \subseteq Actors /\ Sub \notin Clients /\ << >> \in Seq(HubStep)
  BY MonitorAssumption DEF Actors, MonitorAssumption
<1>3. ASSUME UNCHANGED <<said, jsonQ, heard, joined, metaRun>>, todo'[Sub] = todo[Sub],
             registered' \subseteq registered, \A c \in Clients : writer'[c] \in {writer[c], "done"}
      PROVE  JsonInv'
  <2>1. DropsFirst(todo'[Sub])
    BY <1>1, <1>3
  <2>2. \A c : Dropping(c) => Dropping(c)'
    BY <1>3, SubElements
  <2>3. MetaDue => MetaDue'
    BY <1>3, SubElements
  <2>4. UNCHANGED <<said, jsonQ, heard, joined>> /\ metaRun' = metaRun
    BY <1>3
  <2> QED
    BY <1>1, <1>3, <2>1, <2>2, <2>3, <2>4, JsonFrame
<1>4. ASSUME UNCHANGED <<said, jsonQ, heard, joined>>, todo[Sub] # << >>,
             NEW p \in Seq(HubStep), Continue(Sub, p), writer' = writer,
             \A x \in Elements(p) : x.name \in {"count", "store", "drop"},
             registered' \subseteq registered, Head(todo[Sub]).name # "meta",
             \A c \in registered' : Head(todo[Sub]) # Drop(c),
             metaRun' = metaRun \/ (Head(Tail(todo[Sub])).name = "meta" /\ Tail(todo[Sub]) # << >>)
      PROVE  JsonInv'
  <2>1. /\ Tail(todo[Sub]) \in Seq(HubStep)
        /\ todo'[Sub] = p \o Tail(todo[Sub]) /\ DropsFirst(Tail(todo[Sub]))
        /\ Elements(todo'[Sub]) = Elements(p) \cup Elements(Tail(todo[Sub]))
        /\ Elements(todo[Sub]) = {Head(todo[Sub])} \cup Elements(Tail(todo[Sub]))
    BY <1>1, <1>4, SubGoesOn
  <2>2. DropsFirst(todo'[Sub])
    <3>1. PICK t \in Seq(HubStep) : t = Tail(todo[Sub])
      BY <2>1
    <3>2. DropsFirst(p \o t)
      BY <1>4, <2>1, <3>1, DropsBefore
    <3> QED
      BY <2>1, <3>1, <3>2
  <2>3. \A c \in registered' : Dropping(c) => Dropping(c)'
    BY <1>4, <2>1, SubElements
  <2>4. MetaDue => MetaDue'
    BY <1>4, <2>1, SubElements
  <2>5. metaRun' = metaRun \/ MetaDue'
    <3>1. ASSUME Head(Tail(todo[Sub])).name = "meta", Tail(todo[Sub]) # << >> PROVE MetaDue'
      <4>1. PICK t \in Seq(HubStep) : t = Tail(todo[Sub])
        BY <2>1
      <4>2. t # << >>
        BY <3>1, <4>1
      <4>3. Elements(t) = {Head(t)} \cup Elements(Tail(t))
        BY <4>2, ElementsTail
      <4>4. Head(t) \in Elements(todo'[Sub]) /\ Head(t).name = "meta"
        BY <2>1, <3>1, <4>1, <4>3
      <4> QED
        BY <4>4, SubElements
    <3> QED
      BY <1>4, <3>1
  <2>6. \A c \in Clients : writer'[c] \in {writer[c], "done"}
    BY <1>4
  <2> QED
    BY <1>1, <1>4, <2>2, <2>3, <2>4, <2>5, <2>6, JsonFrame
<1>5. \A x \in Elements(<< >>) : x.name \in {"count", "store", "drop"}
  BY NoElements
<1>6. ASSUME NEW a \in Actors, CountDemand(a) \/ StoreDemand(a) PROVE JsonInv'
  <2>1. /\ todo[a] # << >> /\ Head(todo[a]).name \in {"count", "store"} /\ Continue(a, << >>)
        /\ UNCHANGED <<said, jsonQ, heard, joined, metaRun, registered, writer>>
    BY <1>6 DEF CountDemand, StoreDemand, At
  <2>2. CASE a = Sub
    <3>1. \A c \in registered' : Head(todo[Sub]) # Drop(c)
      BY <2>1, <2>2, StepIs
    <3>2. /\ todo[Sub] # << >> /\ Continue(Sub, << >>) /\ Head(todo[Sub]).name # "meta"
          /\ UNCHANGED <<said, jsonQ, heard, joined>> /\ metaRun' = metaRun
          /\ registered' \subseteq registered /\ writer' = writer
      BY <2>1, <2>2
    <3> QED
      BY <1>2, <1>4, <1>5, <3>1, <3>2
  <2>3. CASE a # Sub
    <3>1. todo'[Sub] = todo[Sub]
      BY <1>1, <1>2, <2>1, <2>3 DEF Continue
    <3> QED
      BY <1>3, <2>1, <3>1
  <2> QED
    BY <2>2, <2>3
<1>7. ASSUME NEW a \in Actors, RemoveClient(a) PROVE JsonInv'
  <2>1. PICK c : c = Head(todo[a]).client
    OBVIOUS
  <2>2. /\ todo[a] # << >> /\ Head(todo[a]).name = "drop" /\ registered' = registered \ {c}
        /\ Continue(a, IF c \in registered THEN Refresh ELSE << >>)
        /\ UNCHANGED <<said, jsonQ, heard, joined, metaRun, writer>>
    BY <1>7, <2>1 DEF RemoveClient, TakeOut, At
  <2>3. CASE a = Sub
    <3>1. PICK p : p = IF c \in registered THEN Refresh ELSE << >>
      OBVIOUS
    <3>2. p \in Seq(HubStep) /\ \A x \in Elements(p) : x.name \in {"count", "store", "drop"}
      <4>1. Refresh \in Seq(HubStep)
        BY CallTypes
      <4>2. \A x \in Elements(Refresh) : x.name \in {"count", "store", "drop"}
        <5>1. PICK m, n : m = Step("count") /\ n = Step("store")
          OBVIOUS
        <5>2. Refresh = <<m, n>> /\ m.name = "count" /\ n.name = "store"
          BY <5>1, StepIs DEF Refresh
        <5>3. DOMAIN <<m, n>> = {1, 2} /\ <<m, n>>[1] = m /\ <<m, n>>[2] = n
          BY SmallTuples
        <5> QED
          BY <5>2, <5>3 DEF Elements
      <4> QED
        BY <1>2, <1>5, <3>1, <4>1, <4>2
    <3>3. \A b \in registered' : Head(todo[Sub]) # Drop(b)
      BY <2>1, <2>2, <2>3, StepIs
    <3>4. /\ todo[Sub] # << >> /\ Continue(Sub, p) /\ Head(todo[Sub]).name # "meta"
          /\ UNCHANGED <<said, jsonQ, heard, joined>> /\ metaRun' = metaRun
          /\ registered' \subseteq registered /\ writer' = writer
      BY <2>2, <2>3, <3>1
    <3> QED
      BY <1>4, <3>2, <3>3, <3>4
  <2>4. CASE a # Sub
    <3>1. todo'[Sub] = todo[Sub]
      BY <1>1, <1>2, <2>2, <2>4 DEF Continue
    <3>2. registered' \subseteq registered /\ \A b \in Clients : writer'[b] \in {writer[b], "done"}
      BY <2>2
    <3> QED
      BY <1>3, <2>2, <3>1, <3>2
  <2> QED
    BY <2>3, <2>4
<1>8. ASSUME StoreMetaRun PROVE JsonInv'
  <2>1. /\ todo[Sub] # << >> /\ Head(todo[Sub]).name = "metaRun" /\ Continue(Sub, << >>)
        /\ UNCHANGED <<said, jsonQ, heard, joined>> /\ registered' = registered /\ writer' = writer
    BY <1>8 DEF StoreMetaRun, At
  <2>2. PICK s \in Seq(HubStep) : s = todo[Sub]
    BY <1>1, <1>2
  <2>3. /\ Len(s) \in Nat /\ DOMAIN s = 1 .. Len(s) /\ DOMAIN Tail(s) = 1 .. Len(s) - 1
        /\ Len(s) >= 1 /\ Tail(s) \in Seq(HubStep)
        /\ \A i \in 1 .. Len(s) - 1 : Tail(s)[i] = s[i + 1]
        /\ Head(s) = s[1]
    BY <2>1, <2>2, TailShape
  <2>4. 1 \in DOMAIN s
    BY <2>3
  <2>5. 1 + 1 \in DOMAIN s /\ s[1 + 1].name = "meta"
    BY <1>1, <2>1, <2>2, <2>3, <2>4 DEF SubOK
  <2>6. 1 \in 1 .. Len(s) - 1
    BY <2>3, <2>5
  <2>7. Tail(s) # << >> /\ Head(Tail(s)).name = "meta"
    <3>1. PICK t \in Seq(HubStep) : t = Tail(s)
      BY <2>3
    <3>2. 1 \in DOMAIN t /\ t[1] = s[1 + 1]
      BY <2>3, <2>6, <3>1
    <3>3. t # << >> /\ Head(t) = t[1]
      BY <3>2
    <3> QED
      BY <2>5, <3>1, <3>2, <3>3
  <2>8. Tail(todo[Sub]) # << >> /\ Head(Tail(todo[Sub])).name = "meta"
    BY <2>2, <2>7
  <2>9. \A c \in registered' : Head(todo[Sub]) # Drop(c)
    BY <2>1, StepIs
  <2>10. /\ Head(todo[Sub]).name # "meta" /\ registered' \subseteq registered
    BY <2>1
  <2> QED
    BY <1>2, <1>4, <1>5, <2>1, <2>8, <2>9, <2>10
<1>9. ASSUME Remember PROVE JsonInv'
  <2>1. /\ todo[Sub] # << >> /\ Head(todo[Sub]).name = "remember" /\ Continue(Sub, << >>)
        /\ UNCHANGED <<said, jsonQ, heard, joined>> /\ metaRun' = metaRun
        /\ registered' \subseteq registered /\ writer' = writer
    BY <1>9 DEF Remember, At
  <2>2. \A c \in registered' : Head(todo[Sub]) # Drop(c)
    BY <2>1, StepIs
  <2>3. Head(todo[Sub]).name # "meta"
    BY <2>1
  <2> QED
    BY <1>2, <1>4, <1>5, <2>1, <2>2, <2>3
<1>10. ASSUME NEW s \in Statuses, HandleStatus(s.run, s.state) PROVE JsonInv'
  <2>1. s.run \in RunNos /\ s.state \in StateNames
    BY DEF RunNos, StateNames
  <2>2. /\ todo[Sub] = << >> /\ todo' = [todo EXCEPT ![Sub] = StatusSteps(s.run, s.state)]
        /\ UNCHANGED <<said, jsonQ, heard, joined>> /\ metaRun' = metaRun
        /\ registered' = registered /\ writer' = writer
    BY <1>10 DEF HandleStatus
  <2>3. todo'[Sub] = StatusSteps(s.run, s.state)
    BY <1>1, <1>2, <2>2
  <2>4. DropsFirst(todo'[Sub])
    <3>1. \A x \in Elements(todo'[Sub]) : x.name # "drop"
      BY <2>1, <2>3, StatusNames
    <3> QED
      BY <3>1 DEF DropsFirst, Elements
  <2>5. (\A c : ~Dropping(c)) /\ ~MetaDue
    BY <2>2 DEF Dropping, MetaDue
  <2>6. \A c \in Clients : writer'[c] \in {writer[c], "done"}
    BY <2>2
  <2> QED
    BY <1>1, <2>2, <2>4, <2>5, <2>6, JsonFrame
<1>11. ASSUME NEW c \in Clients, Register(c) \/ Subscribe(c) \/ Close(c) \/ WriterEnds(c) \/ WriterLive(c)
       PROVE  JsonInv'
  <2>1. UNCHANGED <<said, jsonQ, heard, joined, metaRun>> /\ registered' \subseteq registered
    BY <1>11 DEF Register, Subscribe, Close, WriterEnds, WriterLive
  <2>2. todo'[Sub] = todo[Sub]
    BY <1>1, <1>2, <1>11 DEF Register, Subscribe, Close, WriterEnds, WriterLive
  <2>3. \A b \in Clients : writer'[b] \in {writer[b], "done"}
    BY <1>1, <1>11 DEF Register, Subscribe, Close, WriterEnds, WriterLive
  <2> QED
    BY <1>3, <2>1, <2>2, <2>3
<1>12. ASSUME HandleFrames PROVE JsonInv'
  BY <1>3, <1>12 DEF HandleFrames
<1>13. ASSUME NEW c \in Clients, Enter(c) \/ Greet(c) \/ WriterJson(c) PROVE JsonInv'
  BY <1>13, JsonClient
<1>14. ASSUME Broadcast PROVE JsonInv'
  BY <1>14, JsonBroadcast
<1> QED
  BY <1>6, <1>7, <1>8, <1>9, <1>10, <1>11, <1>12, <1>13, <1>14 DEF HubNext

(* What the JSON messages promise.                                            *)
LEMMA JsonPromises == CallInv /\ JsonInv => MetaCurrent /\ JsonReliable
<1> SUFFICES ASSUME CallInv, JsonInv PROVE MetaCurrent /\ JsonReliable
  OBVIOUS
<1>1. registered \subseteq Clients /\ said \in Seq(Msg) /\ Sub \in Actors
  BY DEF CallInv, HubTypes, JsonInv, Actors
<1>2. ASSUME NEW c \in registered, Quiet, writer[c] = "on", jsonQ[c] = << >>
      PROVE  \E i \in DOMAIN heard[c] :
               /\ heard[c][i].kind = "meta" /\ heard[c][i].run = metaRun
               /\ \A j \in DOMAIN heard[c] : heard[c][j].kind = "meta" => j <= i
  <2>1. todo[Sub] = << >>
    BY <1>1, <1>2 DEF Quiet
  <2>2. ~Dropping(c) /\ ~MetaDue
    BY <2>1 DEF Dropping, MetaDue
  <2>3. Served(heard[c], jsonQ[c], joined[c], said, Dropping(c), MetaDue, metaRun)
    BY DEF JsonInv
  <2>4. Known(heard[c], << >>, metaRun)
    BY <1>2, <2>2, <2>3 DEF Served
  <2>5. heard[c] # << >>
    <3>1. c \in Clients
      BY <1>1
    <3>2. Fits(writer[c], heard[c], jsonQ[c], joined[c], said)
      BY <3>1 DEF JsonInv
    <3> QED
      BY <1>2, <3>2 DEF Fits
  <2>6. ~LastMeta(<< >>, metaRun)
    BY DEF LastMeta
  <2>7. LastMeta(heard[c], metaRun)
    BY <2>4, <2>5, <2>6 DEF Known
  <2> QED
    BY <2>7 DEF LastMeta
<1>3. ASSUME NEW c \in Clients
      PROVE  LET got == (IF heard[c] = << >> THEN << >> ELSE Tail(heard[c])) \o News(jsonQ[c])
                 due == SubSeq(said, joined[c] + 1, Len(said))
                 dropping == \E i \in DOMAIN todo[Sub] : todo[Sub][i] = Drop(c)
             IN  /\ IsPrefix(got, due)
                 /\ c \in registered /\ ~dropping => got = due
  <2>1. PICK g, d : g = GotOf(heard[c], jsonQ[c]) /\ d = DueOf(said, joined[c])
    OBVIOUS
  <2>2. Fits(writer[c], heard[c], jsonQ[c], joined[c], said)
    BY DEF JsonInv
  <2>3. /\ jsonQ[c] \in Seq(Msg) /\ heard[c] \in Seq(Msg) /\ joined[c] \in Nat
        /\ joined[c] <= Len(said) /\ Begins(d, g)
    BY <2>1, <2>2 DEF Fits
  <2>4. PICK x \in Msg : TRUE
    <3>1. [kind |-> "meta", run |-> 0, state |-> ""] \in Msg
      BY DEF Msg, RunNos, StateNames
    <3> QED
      BY <3>1
  <2>5. g \in Seq(Msg)
    BY <2>1, <2>3, GotMoves
  <2>6. d \in Seq(Msg)
    BY <1>1, <2>1, <2>3, DueGrows
  <2>7. IsPrefix(g, d)
    BY <2>3, <2>5, <2>6, PrefixBegins
  <2>8. ASSUME c \in registered, ~Dropping(c) PROVE g = d
    <3>1. Served(heard[c], jsonQ[c], joined[c], said, Dropping(c), MetaDue, metaRun)
      BY <2>8 DEF JsonInv
    <3> QED
      BY <2>1, <2>8, <3>1 DEF Served
  <2>9. /\ g = (IF heard[c] = << >> THEN << >> ELSE Tail(heard[c])) \o News(jsonQ[c])
        /\ d = SubSeq(said, joined[c] + 1, Len(said))
    BY <2>1 DEF GotOf, DueOf
  <2> QED
    BY <2>7, <2>8, <2>9 DEF Dropping
<1> QED
  BY <1>2, <1>3 DEF MetaCurrent, JsonReliable

-----------------------------------------------------------------------------
(* Live frames                                                                 *)

(* The frames that no writer looked at are finitely many.                     *)
LEMMA LostFinite ==
  ASSUME LiveInv
  PROVE  IsFiniteSet(Lost(liveFrom, pos, seen))
<1>1. /\ pos \in [Clients -> Nat] /\ live \in Seq(Streams) /\ \A c \in Clients : pos[c] <= Len(live)
  BY DEF LiveInv
<1>2. PICK n \in Nat : n = Len(live)
  BY <1>1
<1>3. \A c \in Clients : pos[c] \in Nat /\ pos[c] <= n
  BY <1>1, <1>2
<1>4. IsFiniteSet(0 .. n)
  BY FS_Interval
<1>5. IsFiniteSet(Clients \X (0 .. n))
  BY <1>4, FS_Product, MonitorAssumption DEF MonitorAssumption
<1>6. ASSUME NEW x \in Lost(liveFrom, pos, seen) PROVE x \in Clients \X (0 .. n)
  <2>1. x \in Clients \X Nat /\ x[2] <= pos[x[1]]
    BY DEF Lost
  <2>2. PICK c \in Clients, i \in Nat : x = <<c, i>>
    BY <2>1
  <2>3. i <= pos[c]
    BY <2>1, <2>2
  <2>4. i \in 0 .. n
    BY <1>3, <2>3
  <2> QED
    BY <2>2, <2>4
<1>7. Lost(liveFrom, pos, seen) \in SUBSET (Clients \X (0 .. n))
  BY <1>6
<1> QED
  BY <1>5, <1>7, FS_Subset

(* A step that does not move a reader of the ring.                            *)
LEMMA LiveFrame ==
  ASSUME LiveInv, UNCHANGED <<pos, liveFrom, seen, wsDropped>>, live' \in Seq(Streams),
         Len(live) <= Len(live'), \A c \in Clients : writer'[c] = "off" => writer[c] = "off"
  PROVE  LiveInv'
<1>1. Len(live) \in Nat /\ Len(live') \in Nat
  BY DEF LiveInv
<1>2. PICK m, n \in Nat : m = Len(live) /\ n = Len(live')
  BY <1>1
<1>3. ASSUME NEW c \in Clients
      PROVE  /\ liveFrom'[c] <= pos'[c] /\ pos'[c] <= Len(live')
             /\ seen'[c] \subseteq liveFrom'[c] + 1 .. pos'[c]
             /\ writer'[c] = "off" => pos'[c] = 0 /\ liveFrom'[c] = 0
  <2>1. /\ liveFrom[c] <= pos[c] /\ pos[c] <= Len(live)
        /\ seen[c] \subseteq liveFrom[c] + 1 .. pos[c]
        /\ writer[c] = "off" => pos[c] = 0 /\ liveFrom[c] = 0
        /\ pos[c] \in Nat
    BY DEF LiveInv
  <2>2. pos[c] <= n
    BY <1>2, <2>1
  <2> QED
    BY <1>2, <2>1, <2>2
<1>4. /\ wsDropped' \in Nat /\ pos' \in [Clients -> Nat] /\ liveFrom' \in [Clients -> Nat]
      /\ seen' \in [Clients -> SUBSET Nat]
      /\ wsDropped' = Cardinality(Lost(liveFrom', pos', seen'))
  BY DEF LiveInv
<1> QED
  BY <1>3, <1>4 DEF LiveInv, Lost

(* The first state.                                                           *)
LEMMA LiveInit == HubInit => LiveInv
<1> SUFFICES ASSUME HubInit PROVE LiveInv
  OBVIOUS
<1>1. live = << >> /\ wsDropped = 0
  BY DEF HubInit
<1>2. /\ pos \in [Clients -> Nat] /\ liveFrom \in [Clients -> Nat] /\ seen \in [Clients -> SUBSET Nat]
      /\ \A c \in Clients : pos[c] = 0 /\ liveFrom[c] = 0 /\ seen[c] = {}
  BY DEF HubInit
<1>3. live \in Seq(Streams) /\ Len(live) = 0
  BY <1>1
<1>4. Lost(liveFrom, pos, seen) = {}
  <2>1. ASSUME NEW x \in Lost(liveFrom, pos, seen) PROVE FALSE
    <3>1. x \in Clients \X Nat /\ liveFrom[x[1]] < x[2] /\ x[2] <= pos[x[1]]
      BY <2>1 DEF Lost
    <3>2. PICK c \in Clients, i \in Nat : x = <<c, i>>
      BY <3>1
    <3>3. liveFrom[c] < i /\ i <= pos[c]
      BY <3>1, <3>2
    <3> QED
      BY <1>2, <3>3
  <2> QED
    BY <2>1
<1>5. Cardinality({}) = 0
  BY FS_EmptySet
<1> QED
  BY <1>1, <1>2, <1>3, <1>4, <1>5 DEF LiveInv

(* A client comes to the ring where it is.                                    *)
LEMMA LiveEnter ==
  ASSUME CallInv, LiveInv, NEW c \in Clients, Enter(c)
  PROVE  LiveInv'
<1>1. /\ live \in Seq(Streams) /\ wsDropped \in Nat
      /\ pos \in [Clients -> Nat] /\ liveFrom \in [Clients -> Nat] /\ seen \in [Clients -> SUBSET Nat]
      /\ \A b \in Clients : /\ liveFrom[b] <= pos[b] /\ pos[b] <= Len(live)
                            /\ seen[b] \subseteq liveFrom[b] + 1 .. pos[b]
                            /\ writer[b] = "off" => pos[b] = 0 /\ liveFrom[b] = 0
      /\ wsDropped = Cardinality(Lost(liveFrom, pos, seen))
      /\ writer \in [Clients -> {"off", "greeting", "on", "done"}]
  BY DEF LiveInv, CallInv, HubTypes
<1>2. /\ todo[c] # << >> /\ Head(todo[c]).name = "enter"
      /\ pos' = [pos EXCEPT ![c] = Len(live)] /\ liveFrom' = [liveFrom EXCEPT ![c] = Len(live)]
      /\ writer' = [writer EXCEPT ![c] = "greeting"] /\ UNCHANGED <<live, seen, wsDropped>>
  BY DEF Enter, At
<1>3. writer[c] = "off"
  <2>1. ClientOK(task[c], writer[c], todo[c], registered, c)
    BY DEF CallInv, ClientCalls
  <2> QED
    BY <1>2, <2>1, ClientPops
<1>4. pos[c] = 0 /\ liveFrom[c] = 0 /\ seen[c] = {}
  <2>1. pos[c] = 0 /\ liveFrom[c] = 0 /\ seen[c] \subseteq liveFrom[c] + 1 .. pos[c]
    BY <1>1, <1>3
  <2>2. seen[c] \subseteq 0 + 1 .. 0
    BY <2>1
  <2>3. 0 + 1 .. 0 = {}
    OBVIOUS
  <2> QED
    BY <2>1, <2>2, <2>3
<1>5. PICK n \in Nat : n = Len(live)
  BY <1>1
<1>6. /\ pos' \in [Clients -> Nat] /\ liveFrom' \in [Clients -> Nat] /\ pos'[c] = n /\ liveFrom'[c] = n
      /\ \A b \in Clients : b # c => /\ pos'[b] = pos[b] /\ liveFrom'[b] = liveFrom[b]
                                     /\ writer'[b] = writer[b]
      /\ writer'[c] = "greeting" /\ seen' = seen /\ live' = live
  BY <1>1, <1>2, <1>5
<1>7. ASSUME NEW b \in Clients
      PROVE  /\ liveFrom'[b] <= pos'[b] /\ pos'[b] <= Len(live')
             /\ seen'[b] \subseteq liveFrom'[b] + 1 .. pos'[b]
             /\ writer'[b] = "off" => pos'[b] = 0 /\ liveFrom'[b] = 0
  <2>1. CASE b = c
    BY <1>4, <1>5, <1>6, <2>1
  <2>2. CASE b # c
    BY <1>1, <1>6, <2>2
  <2> QED
    BY <2>1, <2>2
<1>8. Lost(liveFrom', pos', seen') = Lost(liveFrom, pos, seen)
  <2>1. ASSUME NEW b \in Clients, NEW i \in Nat
        PROVE  (liveFrom'[b] < i /\ i <= pos'[b] /\ i \notin seen'[b]) <=>
               (liveFrom[b] < i /\ i <= pos[b] /\ i \notin seen[b])
    <3>1. CASE b = c
      <4>1. ~(n < i /\ i <= n) /\ ~(0 < i /\ i <= 0)
        OBVIOUS
      <4> QED
        BY <1>4, <1>6, <3>1, <4>1
    <3>2. CASE b # c
      BY <1>6, <3>2
    <3> QED
      BY <3>1, <3>2
  <2>2. \A x \in Clients \X Nat :
          (liveFrom'[x[1]] < x[2] /\ x[2] <= pos'[x[1]] /\ x[2] \notin seen'[x[1]]) <=>
          (liveFrom[x[1]] < x[2] /\ x[2] <= pos[x[1]] /\ x[2] \notin seen[x[1]])
    BY <2>1
  <2> QED
    BY <2>2 DEF Lost
<1>9. wsDropped' \in Nat /\ wsDropped' = Cardinality(Lost(liveFrom', pos', seen'))
  BY <1>1, <1>2, <1>8
<1> QED
  BY <1>1, <1>6, <1>7, <1>9 DEF LiveInv, Lost

(* A writer lags, or looks at the next frame.                                 *)
LEMMA LiveWriter ==
  ASSUME LiveInv, NEW c \in Clients, WriterLive(c)
  PROVE  LiveInv'
<1>1. /\ live \in Seq(Streams) /\ wsDropped \in Nat
      /\ pos \in [Clients -> Nat] /\ liveFrom \in [Clients -> Nat] /\ seen \in [Clients -> SUBSET Nat]
      /\ \A b \in Clients : /\ liveFrom[b] <= pos[b] /\ pos[b] <= Len(live)
                            /\ seen[b] \subseteq liveFrom[b] + 1 .. pos[b]
                            /\ writer[b] = "off" => pos[b] = 0 /\ liveFrom[b] = 0
      /\ wsDropped = Cardinality(Lost(liveFrom, pos, seen))
  BY DEF LiveInv
<1>2. PICK n \in Nat : n = Len(live)
  BY <1>1
<1>3. PICK p, f \in Nat : p = pos[c] /\ f = liveFrom[c]
  BY <1>1
<1>4. /\ LiveQueue \in Nat /\ LiveQueue > 0 /\ f <= p /\ p <= n /\ seen[c] \subseteq f + 1 .. p
  BY <1>1, <1>2, <1>3, MonitorAssumption DEF MonitorAssumption
<1>5. /\ writer[c] = "on" /\ p < n /\ UNCHANGED <<live, liveFrom, writer>>
      /\ \/ /\ p < n - LiveQueue /\ pos' = [pos EXCEPT ![c] = n - LiveQueue]
            /\ wsDropped' = wsDropped + Missed(c) /\ seen' = seen
         \/ /\ p >= n - LiveQueue /\ pos' = [pos EXCEPT ![c] = p + 1]
            /\ seen' = [seen EXCEPT ![c] = seen[c] \cup {p + 1}] /\ wsDropped' = wsDropped
  BY <1>2, <1>3 DEF WriterLive
<1>6. ASSUME NEW m \in Nat, NEW S \in SUBSET Nat, pos' = [pos EXCEPT ![c] = m], p <= m, m <= n,
             seen' = [seen EXCEPT ![c] = S], S \subseteq f + 1 .. m,
             wsDropped' \in Nat, wsDropped' = Cardinality(Lost(liveFrom', pos', seen'))
      PROVE  LiveInv'
  <2>1. /\ pos' \in [Clients -> Nat] /\ pos'[c] = m /\ seen' \in [Clients -> SUBSET Nat] /\ seen'[c] = S
        /\ \A b \in Clients : b # c => pos'[b] = pos[b] /\ seen'[b] = seen[b]
    BY <1>1, <1>6
  <2>2. ASSUME NEW b \in Clients
        PROVE  /\ liveFrom'[b] <= pos'[b] /\ pos'[b] <= Len(live')
               /\ seen'[b] \subseteq liveFrom'[b] + 1 .. pos'[b]
               /\ writer'[b] = "off" => pos'[b] = 0 /\ liveFrom'[b] = 0
    <3>1. CASE b = c
      <4>1. f <= m
        BY <1>4, <1>6
      <4> QED
        BY <1>2, <1>3, <1>5, <1>6, <2>1, <3>1, <4>1
    <3>2. CASE b # c
      BY <1>1, <1>5, <2>1, <3>2
    <3> QED
      BY <3>1, <3>2
  <2>3. live' \in Seq(Streams) /\ liveFrom' \in [Clients -> Nat]
    BY <1>1, <1>5
  <2> QED
    BY <1>6, <2>1, <2>2, <2>3 DEF LiveInv, Lost
<1>7. CASE p < n - LiveQueue /\ pos' = [pos EXCEPT ![c] = n - LiveQueue]
           /\ wsDropped' = wsDropped + Missed(c) /\ seen' = seen
  <2>1. PICK m \in Nat : m = n - LiveQueue /\ p < m /\ m <= n
    BY <1>4, <1>7
  <2>2. Missed(c) = m - p
    <3>1. n - p > LiveQueue /\ n - p - LiveQueue = m - p
      BY <1>4, <1>7, <2>1
    <3> QED
      BY <1>2, <1>3, <3>1 DEF Missed
  <2>3. PICK A : A = Lost(liveFrom, pos, seen)
    OBVIOUS
  <2>4. PICK B : B = {c} \X (p + 1 .. m)
    OBVIOUS
  <2>5. IsFiniteSet(A) /\ wsDropped = Cardinality(A)
    BY <1>1, <2>3, LostFinite
  <2>6. IsFiniteSet(B) /\ Cardinality(B) = m - p
    <3>1. IsFiniteSet(p + 1 .. m) /\ Cardinality(p + 1 .. m) = m - p
      <4>1. p + 1 \in Int /\ m \in Int /\ ~(p + 1 > m) /\ m - (p + 1) + 1 = m - p
        BY <2>1
      <4> QED
        BY <4>1, FS_Interval
    <3>2. IsFiniteSet({c}) /\ Cardinality({c}) = 1
      BY FS_Singleton
    <3>3. IsFiniteSet({c} \X (p + 1 .. m)) /\ Cardinality({c} \X (p + 1 .. m)) = 1 * (m - p)
      BY <3>1, <3>2, FS_Product
    <3>4. 1 * (m - p) = m - p
      BY <2>1
    <3> QED
      BY <2>4, <3>3, <3>4
  <2>7. /\ pos'[c] = m /\ \A b \in Clients : b # c => pos'[b] = pos[b]
    BY <1>1, <1>7, <2>1
  <2>8. ASSUME NEW b \in Clients, NEW i \in Nat
        PROVE  (liveFrom'[b] < i /\ i <= pos'[b] /\ i \notin seen'[b]) <=>
               (liveFrom[b] < i /\ i <= pos[b] /\ i \notin seen[b]) \/ <<b, i>> \in B
    <3>1. <<b, i>> \in B <=> b = c /\ i \in p + 1 .. m
      BY <2>4
    <3>2. CASE b = c
      <4>1. i \in p + 1 .. m => i \notin seen[c]
        <5>1. i \in p + 1 .. m => i \notin f + 1 .. p
          OBVIOUS
        <5> QED
          BY <1>4, <5>1
      <4>2. (f < i /\ i <= m) <=> (f < i /\ i <= p) \/ i \in p + 1 .. m
        BY <1>4, <2>1
      <4>3. liveFrom'[b] = f /\ pos'[b] = m /\ liveFrom[b] = f /\ pos[b] = p /\ seen'[b] = seen[c] /\ seen[b] = seen[c]
        BY <1>3, <1>5, <1>7, <2>7, <3>2
      <4> QED
        BY <3>1, <3>2, <4>1, <4>2, <4>3
    <3>3. CASE b # c
      BY <1>5, <1>7, <2>7, <3>1, <3>3
    <3> QED
      BY <3>2, <3>3
  <2>9. Lost(liveFrom', pos', seen') = A \cup B
    <3>1. ASSUME NEW x \in Clients \X Nat
          PROVE  (liveFrom'[x[1]] < x[2] /\ x[2] <= pos'[x[1]] /\ x[2] \notin seen'[x[1]]) <=>
                 (liveFrom[x[1]] < x[2] /\ x[2] <= pos[x[1]] /\ x[2] \notin seen[x[1]]) \/ x \in B
      <4>1. x[1] \in Clients /\ x[2] \in Nat /\ x = <<x[1], x[2]>>
        OBVIOUS
      <4> QED
        BY <2>8, <4>1
    <3>2. \A x \in B : x \in Clients \X Nat
      <4>1. \A i \in p + 1 .. m : i \in Nat
        OBVIOUS
      <4> QED
        BY <2>4, <4>1
    <3>3. \A x : x \in Lost(liveFrom', pos', seen') <=> x \in A \/ x \in B
      BY <2>3, <3>1, <3>2 DEF Lost
    <3> QED
      BY <3>3
  <2>10. A \cap B = {}
    <3>1. ASSUME NEW x \in A, x \in B PROVE FALSE
      <4>1. x \in Clients \X Nat /\ x[2] <= pos[x[1]]
        BY <2>3, <3>1 DEF Lost
      <4>2. PICK i \in p + 1 .. m : x = <<c, i>>
        BY <2>4, <3>1
      <4>3. i <= p
        BY <1>3, <4>1, <4>2
      <4> QED
        BY <4>2, <4>3
    <3> QED
      BY <3>1
  <2>11. Cardinality(A \cup B) = Cardinality(A) + (m - p)
    <3>1. Cardinality(A \cup B) = Cardinality(A) + Cardinality(B) - Cardinality({})
      BY <2>5, <2>6, <2>10, FS_Union
    <3>2. Cardinality({}) = 0
      BY FS_EmptySet
    <3>3. PICK k \in Nat : k = Cardinality(A)
      BY <1>1, <2>5
    <3>4. k + (m - p) - 0 = k + (m - p)
      BY <2>1
    <3> QED
      BY <2>6, <3>1, <3>2, <3>3, <3>4
  <2>12. wsDropped' \in Nat /\ wsDropped' = Cardinality(Lost(liveFrom', pos', seen'))
    <3>1. wsDropped + (m - p) \in Nat
      BY <1>1, <2>1
    <3> QED
      BY <1>7, <2>2, <2>5, <2>9, <2>11, <3>1
  <2>13. seen[c] \in SUBSET Nat /\ seen' = [seen EXCEPT ![c] = seen[c]] /\ p <= m
         /\ seen[c] \subseteq f + 1 .. m
    <3>1. \A i \in f + 1 .. p : i \in f + 1 .. m
      BY <1>4, <2>1
    <3> QED
      BY <1>1, <1>4, <1>7, <2>1, <3>1
  <2> QED
    BY <1>6, <1>7, <2>1, <2>12, <2>13
<1>8. CASE p >= n - LiveQueue /\ pos' = [pos EXCEPT ![c] = p + 1]
           /\ seen' = [seen EXCEPT ![c] = seen[c] \cup {p + 1}] /\ wsDropped' = wsDropped
  <2>1. PICK m \in Nat : m = p + 1 /\ p <= m /\ m <= n
    BY <1>4, <1>5
  <2>2. PICK S \in SUBSET Nat : S = seen[c] \cup {m}
    BY <1>1, <2>1
  <2>3. /\ pos' = [pos EXCEPT ![c] = m] /\ seen' = [seen EXCEPT ![c] = S]
    BY <1>8, <2>1, <2>2
  <2>4. S \subseteq f + 1 .. m
    <3>1. m \in f + 1 .. m /\ \A i \in f + 1 .. p : i \in f + 1 .. m
      BY <1>4, <2>1
    <3> QED
      BY <1>4, <2>2, <3>1
  <2>5. /\ pos'[c] = m /\ seen'[c] = S
        /\ \A b \in Clients : b # c => pos'[b] = pos[b] /\ seen'[b] = seen[b]
    BY <1>1, <2>3
  <2>6. ASSUME NEW b \in Clients, NEW i \in Nat
        PROVE  (liveFrom'[b] < i /\ i <= pos'[b] /\ i \notin seen'[b]) <=>
               (liveFrom[b] < i /\ i <= pos[b] /\ i \notin seen[b])
    <3>1. CASE b = c
      <4>1. (f < i /\ i <= m /\ i # m) <=> (f < i /\ i <= p)
        BY <1>4, <2>1
      <4>2. i \in S <=> i \in seen[c] \/ i = m
        BY <2>2
      <4>3. liveFrom'[b] = f /\ pos'[b] = m /\ liveFrom[b] = f /\ pos[b] = p /\ seen'[b] = S /\ seen[b] = seen[c]
        BY <1>3, <1>5, <2>5, <3>1
      <4> QED
        BY <4>1, <4>2, <4>3
    <3>2. CASE b # c
      BY <1>5, <2>5, <3>2
    <3> QED
      BY <3>1, <3>2
  <2>7. Lost(liveFrom', pos', seen') = Lost(liveFrom, pos, seen)
    <3>1. \A x \in Clients \X Nat :
            (liveFrom'[x[1]] < x[2] /\ x[2] <= pos'[x[1]] /\ x[2] \notin seen'[x[1]]) <=>
            (liveFrom[x[1]] < x[2] /\ x[2] <= pos[x[1]] /\ x[2] \notin seen[x[1]])
      BY <2>6
    <3> QED
      BY <3>1 DEF Lost
  <2>8. wsDropped' \in Nat /\ wsDropped' = Cardinality(Lost(liveFrom', pos', seen'))
    BY <1>1, <1>8, <2>7
  <2> QED
    BY <1>6, <2>1, <2>3, <2>4, <2>8
<1> QED
  BY <1>5, <1>7, <1>8

(* Every step of the hub keeps account of the live frames.                    *)
LEMMA LiveNext == CallInv /\ LiveInv /\ HubNext => LiveInv'
<1> SUFFICES ASSUME CallInv, LiveInv, HubNext PROVE LiveInv'
  OBVIOUS
<1>1. /\ live \in Seq(Streams) /\ writer \in [Clients -> {"off", "greeting", "on", "done"}]
  BY DEF LiveInv, CallInv, HubTypes
<1>2. Len(live) \in Nat /\ Len(live) <= Len(live)
  BY <1>1
<1>3. ASSUME UNCHANGED <<pos, liveFrom, seen, wsDropped, live>>,
             \A c \in Clients : writer'[c] = "off" => writer[c] = "off"
      PROVE  LiveInv'
  BY <1>1, <1>2, <1>3, LiveFrame
<1>4. ASSUME NEW a \in Actors, CountDemand(a) \/ StoreDemand(a) \/ RemoveClient(a) PROVE LiveInv'
  BY <1>3, <1>4 DEF CountDemand, StoreDemand, RemoveClient
<1>5. ASSUME Broadcast \/ StoreMetaRun \/ Remember PROVE LiveInv'
  BY <1>3, <1>5 DEF Broadcast, StoreMetaRun, Remember
<1>6. ASSUME NEW s \in Statuses, HandleStatus(s.run, s.state) PROVE LiveInv'
  BY <1>3, <1>6 DEF HandleStatus
<1>7. ASSUME NEW c \in Clients, Register(c) \/ Subscribe(c) \/ WriterJson(c) PROVE LiveInv'
  BY <1>3, <1>7 DEF Register, Subscribe, WriterJson
<1>8. ASSUME NEW c \in Clients, Greet(c) \/ WriterEnds(c) \/ Close(c) PROVE LiveInv'
  <2>1. UNCHANGED <<pos, liveFrom, seen, wsDropped, live>>
    BY <1>8 DEF Greet, WriterEnds, Close
  <2>2. \A b \in Clients : writer'[b] = "off" => writer[b] = "off"
    BY <1>1, <1>8 DEF Greet, WriterEnds, Close
  <2> QED
    BY <1>3, <2>1, <2>2
<1>9. ASSUME HandleFrames PROVE LiveInv'
  <2>1. PICK fr \in {<<"uvw", "waveforms">>, <<"uvw">>, <<"histos">>} : Publish(fr)
    BY <1>9 DEF HandleFrames
  <2>2. fr \in Seq(Streams)
    <3>1. "uvw" \in Streams /\ "waveforms" \in Streams /\ "histos" \in Streams
      BY DEF Streams
    <3>2. \A a, b \in Streams : <<a, b>> \in Seq(Streams) /\ <<a>> \in Seq(Streams)
      OBVIOUS
    <3> QED
      BY <2>1, <3>1, <3>2
  <2>3. live \o fr \in Seq(Streams) /\ Len(live) <= Len(live \o fr)
    <3>1. live \o fr \in Seq(Streams) /\ Len(live \o fr) = Len(live) + Len(fr) /\ Len(fr) \in Nat
      BY <1>1, <2>2, ConcatShape
    <3> QED
      BY <1>2, <3>1
  <2>4. live' \in Seq(Streams) /\ Len(live) <= Len(live')
    BY <1>1, <1>2, <2>1, <2>3 DEF Publish
  <2>5. UNCHANGED <<pos, liveFrom, seen, wsDropped>> /\ writer' = writer
    BY <1>9 DEF HandleFrames
  <2> QED
    BY <2>4, <2>5, LiveFrame
<1>10. ASSUME NEW c \in Clients, Enter(c) PROVE LiveInv'
  BY <1>10, LiveEnter
<1>11. ASSUME NEW c \in Clients, WriterLive(c) PROVE LiveInv'
  BY <1>11, LiveWriter
<1> QED
  BY <1>4, <1>5, <1>6, <1>7, <1>8, <1>9, <1>10, <1>11 DEF HubNext

(* The counted frames are those that the property counts.                     *)
LEMMA LivePromise == LiveInv => LiveAccounted
<1> SUFFICES ASSUME LiveInv PROVE LiveAccounted
  OBVIOUS
<1>1. /\ pos \in [Clients -> Nat] /\ liveFrom \in [Clients -> Nat] /\ seen \in [Clients -> SUBSET Nat]
      /\ wsDropped = Cardinality(Lost(liveFrom, pos, seen))
  BY DEF LiveInv
<1>2. PICK L : L = UNION {{<<c, i>> : i \in (liveFrom[c] + 1 .. pos[c]) \ seen[c]} : c \in Clients}
  OBVIOUS
<1>3. ASSUME NEW x \in L PROVE x \in Lost(liveFrom, pos, seen)
  <2>1. PICK c \in Clients : x \in {<<c, i>> : i \in (liveFrom[c] + 1 .. pos[c]) \ seen[c]}
    BY <1>2
  <2>2. PICK i \in (liveFrom[c] + 1 .. pos[c]) \ seen[c] : x = <<c, i>>
    BY <2>1
  <2>3. i \in Nat /\ liveFrom[c] < i /\ i <= pos[c] /\ i \notin seen[c]
    BY <1>1, <2>2
  <2>4. x \in Clients \X Nat /\ x[1] = c /\ x[2] = i
    BY <2>2, <2>3
  <2> QED
    BY <2>3, <2>4 DEF Lost
<1>4. ASSUME NEW x \in Lost(liveFrom, pos, seen) PROVE x \in L
  <2>1. x \in Clients \X Nat /\ liveFrom[x[1]] < x[2] /\ x[2] <= pos[x[1]] /\ x[2] \notin seen[x[1]]
    BY DEF Lost
  <2>2. PICK c \in Clients, i \in Nat : x = <<c, i>>
    BY <2>1
  <2>3. i \in (liveFrom[c] + 1 .. pos[c]) \ seen[c]
    BY <1>1, <2>1, <2>2
  <2>4. x \in {<<c, k>> : k \in (liveFrom[c] + 1 .. pos[c]) \ seen[c]}
    BY <2>2, <2>3
  <2> QED
    BY <1>2, <2>4
<1>5. L = Lost(liveFrom, pos, seen)
  BY <1>3, <1>4
<1> QED
  BY <1>1, <1>2, <1>5 DEF LiveAccounted

-----------------------------------------------------------------------------
(* The demand                                                                  *)

(* Whether a call has a count to make, by its elements.                       *)
LEMMA CountElements ==
  ASSUME NEW s
  PROVE  HasCount(s) <=> \E x \in Elements(s) : x.name = "count"
BY DEF HasCount, Elements

(* What the calls of a client have to count and to store.                     *)
LEMMA CallDemand ==
  /\ HasCount(CallEnter) /\ HasCount(CallCount) /\ HasCount(Refresh)
  /\ StoreNext(CallStore) /\ StoreNext(OnlyStore)
  /\ ~StoreNext(CallEnter) /\ ~StoreNext(CallCount) /\ ~StoreNext(CallGreet)
  /\ ~StoreNext(Refresh) /\ ~StoreNext(<< >>) /\ \A c : ~StoreNext(OnlyDrop(c))
  /\ ~HasCount(CallGreet) /\ ~HasCount(<< >>) /\ \A c : ~HasCount(OnlyDrop(c))
<1>1. /\ StoreNext(CallStore) /\ StoreNext(OnlyStore)
      /\ ~StoreNext(CallEnter) /\ ~StoreNext(CallCount) /\ ~StoreNext(CallGreet)
      /\ ~StoreNext(Refresh) /\ ~StoreNext(<< >>) /\ \A c : ~StoreNext(OnlyDrop(c))
  BY CallShapes DEF StoreNext
<1>2. PICK e, n, s, g : e = Step("enter") /\ n = Step("count") /\ s = Step("store") /\ g = Step("greet")
  OBVIOUS
<1>3. n.name = "count" /\ g.name = "greet" /\ \A c : Drop(c).name = "drop"
  BY <1>2, StepIs
<1>4. HasCount(CallEnter)
  <2>1. CallEnter = <<e, n, s, g>> /\ 2 \in DOMAIN <<e, n, s, g>> /\ <<e, n, s, g>>[2] = n
    BY <1>2 DEF CallEnter
  <2> QED
    BY <1>3, <2>1 DEF HasCount
<1>5. HasCount(CallCount)
  <2>1. CallCount = <<n, s, g>> /\ 1 \in DOMAIN <<n, s, g>> /\ <<n, s, g>>[1] = n
    BY <1>2 DEF CallCount
  <2> QED
    BY <1>3, <2>1 DEF HasCount
<1>6. HasCount(Refresh)
  <2>1. Refresh = <<n, s>> /\ 1 \in DOMAIN <<n, s>> /\ <<n, s>>[1] = n
    BY <1>2 DEF Refresh
  <2> QED
    BY <1>3, <2>1 DEF HasCount
<1>7. ~HasCount(CallGreet)
  <2>1. CallGreet = <<g>> /\ DOMAIN <<g>> = {1} /\ <<g>>[1] = g
    BY <1>2, SmallTuples DEF CallGreet
  <2> QED
    BY <1>3, <2>1 DEF HasCount
<1>8. ~HasCount(<< >>)
  BY DEF HasCount
<1>9. ASSUME NEW c PROVE ~HasCount(OnlyDrop(c))
  <2>1. PICK d : d = Drop(c)
    OBVIOUS
  <2>2. OnlyDrop(c) = <<d>> /\ DOMAIN <<d>> = {1} /\ <<d>>[1] = d
    BY <2>1, SmallTuples DEF OnlyDrop
  <2> QED
    BY <1>3, <2>1, <2>2 DEF HasCount
<1> QED
  BY <1>1, <1>4, <1>5, <1>6, <1>7, <1>8, <1>9

(* The store behind every count of the SUB thread's call, as it goes on.      *)
LEMMA StoreTail ==
  ASSUME NEW s \in Seq(HubStep), s # << >>, StoreFollows(s)
  PROVE  StoreFollows(Tail(s)) /\ (Head(s).name = "count" => StoreNext(Tail(s)))
<1> DEFINE t == Tail(s)
           n == Len(s)
<1>1. /\ n \in Nat /\ n >= 1 /\ t \in Seq(HubStep) /\ DOMAIN s = 1 .. n /\ DOMAIN t = 1 .. n - 1
      /\ \A i \in 1 .. n - 1 : t[i] = s[i + 1]
      /\ Head(s) = s[1]
  BY TailShape
<1>2. \A i \in 1 .. n : s[i].name = "count" => i + 1 \in 1 .. n /\ s[i + 1].name = "store"
  BY <1>1 DEF StoreFollows
<1> HIDE DEF t, n
<1>3. ASSUME NEW i \in 1 .. n - 1, t[i].name = "count"
      PROVE  i + 1 \in 1 .. n - 1 /\ t[i + 1].name = "store"
  <2>1. i + 1 \in 1 .. n /\ t[i] = s[i + 1]
    BY <1>1
  <2>2. (i + 1) + 1 \in 1 .. n /\ s[(i + 1) + 1].name = "store"
    BY <1>2, <1>3, <2>1
  <2>3. i + 1 \in 1 .. n - 1
    BY <1>1, <2>2
  <2> QED
    BY <1>1, <2>2, <2>3
<1>4. StoreFollows(t)
  BY <1>1, <1>3 DEF StoreFollows
<1>5. ASSUME s[1].name = "count" PROVE StoreNext(t)
  <2>1. 1 \in 1 .. n
    BY <1>1
  <2>2. 1 + 1 \in 1 .. n /\ s[1 + 1].name = "store"
    BY <1>2, <1>5, <2>1
  <2>3. 1 \in 1 .. n - 1
    BY <1>1, <2>2
  <2>4. t[1].name = "store"
    BY <1>1, <2>2, <2>3
  <2>5. t # << >> /\ Head(t) = t[1]
    BY <1>1, <2>3
  <2> QED
    BY <2>4, <2>5 DEF StoreNext
<1> QED
  BY <1>1, <1>4, <1>5 DEF t

(* And as steps are put before it.                                            *)
LEMMA StoreBefore ==
  ASSUME NEW p \in Seq(HubStep), NEW t \in Seq(HubStep), StoreFollows(t), StoreFollows(p)
  PROVE  StoreFollows(p \o t)
<1> DEFINE s == p \o t
           m == Len(p)
           n == Len(t)
<1>1. /\ m \in Nat /\ n \in Nat /\ DOMAIN p = 1 .. m /\ DOMAIN t = 1 .. n /\ DOMAIN s = 1 .. m + n
      /\ \A i \in 1 .. m : s[i] = p[i]
      /\ \A i \in 1 .. n : s[m + i] = t[i]
  BY ConcatShape
<1>2. \A i \in 1 .. m : p[i].name = "count" => i + 1 \in 1 .. m /\ p[i + 1].name = "store"
  BY <1>1 DEF StoreFollows
<1>3. \A i \in 1 .. n : t[i].name = "count" => i + 1 \in 1 .. n /\ t[i + 1].name = "store"
  BY <1>1 DEF StoreFollows
<1> HIDE DEF s, m, n
<1>4. ASSUME NEW i \in 1 .. m + n, s[i].name = "count"
      PROVE  i + 1 \in 1 .. m + n /\ s[i + 1].name = "store"
  <2>1. CASE i <= m
    <3>1. i \in 1 .. m
      BY <2>1
    <3>2. i + 1 \in 1 .. m /\ p[i + 1].name = "store"
      BY <1>1, <1>2, <1>4, <3>1
    <3>3. i + 1 \in 1 .. m + n
      BY <1>1, <3>2
    <3> QED
      BY <1>1, <3>2, <3>3
  <2>2. CASE i > m
    <3>1. PICK k \in 1 .. n : i = m + k
      <4>1. i - m \in 1 .. n /\ i = m + (i - m)
        BY <1>1, <2>2
      <4> QED
        BY <4>1
    <3>2. t[k].name = "count"
      BY <1>1, <1>4, <3>1
    <3>3. k + 1 \in 1 .. n /\ t[k + 1].name = "store"
      BY <1>3, <3>2
    <3>4. i + 1 = m + (k + 1) /\ i + 1 \in 1 .. m + n
      BY <1>1, <3>1, <3>3
    <3>5. s[m + (k + 1)] = t[k + 1]
      BY <1>1, <3>3
    <3> QED
      BY <3>3, <3>4, <3>5
  <2> QED
    BY <1>1, <2>1, <2>2
<1>5. StoreFollows(s)
  BY <1>1, <1>4 DEF StoreFollows
<1> QED
  BY <1>5 DEF s

(* So many clients may want waveforms.                                        *)
LEMMA WantingBound ==
  ASSUME registered \subseteq Clients
  PROVE  Cardinality(Wanting) \in 0 .. Cardinality(Clients)
<1>1. Wanting \in SUBSET Clients
  BY DEF Wanting
<1>2. IsFiniteSet(Clients)
  BY MonitorAssumption DEF MonitorAssumption
<1>3. IsFiniteSet(Wanting) /\ Cardinality(Wanting) <= Cardinality(Clients)
  BY <1>1, <1>2, FS_Subset
<1>4. Cardinality(Wanting) \in Nat /\ Cardinality(Clients) \in Nat
  BY <1>2, <1>3, FS_CardinalityType
<1> QED
  BY <1>3, <1>4

(* A step in a's call that neither counts nor stores.                         *)
LEMMA DemandMoves ==
  ASSUME DemandInv, todo \in [Actors -> Seq(HubStep)], NEW a \in Actors, NEW s,
         todo' = [todo EXCEPT ![a] = s], UNCHANGED <<counted, demand, overlapped>>,
         StoreNext(s) <=> StoreNext(todo[a]), a = Sub => StoreFollows(s),
         HasCount(s) \/ (registered' = registered /\ streams' = streams /\ ~HasCount(todo[a]))
  PROVE  DemandInv'
<1>1. Sub \in Actors
  BY DEF Actors
<1>2. todo'[a] = s /\ \A b \in Actors : b # a => todo'[b] = todo[b]
  OBVIOUS
<1>3. \A b \in Actors : StoreNext(todo'[b]) <=> StoreNext(todo[b])
  BY <1>2
<1>4. StoreFollows(todo'[Sub])
  BY <1>1, <1>2 DEF DemandInv
<1>5. ASSUME ~overlapped
      PROVE  /\ \A b, d \in Actors : StoreNext(todo'[b]) /\ StoreNext(todo'[d]) => b = d
             /\ ~Counting' =>
                  \/ \E b \in Actors : StoreNext(todo'[b]) /\ counted[b] = Cardinality(Wanting')
                  \/ (\A b \in Actors : ~StoreNext(todo'[b])) /\ demand = Cardinality(Wanting')
  <2>1. \A b, d \in Actors : StoreNext(todo'[b]) /\ StoreNext(todo'[d]) => b = d
    BY <1>3, <1>5 DEF DemandInv
  <2>2. ASSUME ~Counting'
        PROVE  \/ \E b \in Actors : StoreNext(todo'[b]) /\ counted[b] = Cardinality(Wanting')
               \/ (\A b \in Actors : ~StoreNext(todo'[b])) /\ demand = Cardinality(Wanting')
    <3>1. ~HasCount(s) /\ \A b \in Actors : b # a => ~HasCount(todo[b])
      BY <1>2, <2>2 DEF Counting
    <3>2. ~Counting
      BY <3>1 DEF Counting
    <3>3. Wanting' = Wanting
      BY <3>1 DEF Wanting
    <3>4. \/ \E b \in Actors : StoreNext(todo[b]) /\ counted[b] = Cardinality(Wanting)
          \/ (\A b \in Actors : ~StoreNext(todo[b])) /\ demand = Cardinality(Wanting)
      BY <1>5, <3>2 DEF DemandInv
    <3> QED
      BY <1>3, <3>3, <3>4
  <2> QED
    BY <2>1, <2>2
<1>6. /\ counted' \in [Actors -> 0 .. Cardinality(Clients)] /\ demand' \in 0 .. Cardinality(Clients)
      /\ overlapped' \in BOOLEAN
  BY DEF DemandInv
<1>7. counted' = counted /\ demand' = demand /\ overlapped' = overlapped
  OBVIOUS
<1> QED
  BY <1>4, <1>5, <1>6, <1>7 DEF DemandInv, StoreNext, HasCount, StoreFollows

(* A count is made, and a count is stored.                                    *)
LEMMA DemandCounts ==
  ASSUME CallInv, DemandInv, NEW a \in Actors, CountDemand(a) \/ StoreDemand(a)
  PROVE  DemandInv'
<1>1. /\ counted \in [Actors -> 0 .. Cardinality(Clients)] /\ demand \in 0 .. Cardinality(Clients)
      /\ overlapped \in BOOLEAN /\ StoreFollows(todo[Sub])
      /\ todo \in [Actors -> Seq(HubStep)] /\ registered \subseteq Clients
  BY DEF DemandInv, CallInv, HubTypes
<1>2. Sub \in Actors /\ << >> \in Seq(HubStep)
  BY DEF Actors
<1>3. /\ todo[a] # << >> /\ Continue(a, << >>) /\ UNCHANGED <<registered, streams>>
      /\ Head(todo[a]).name \in {"count", "store"}
  BY DEF CountDemand, StoreDemand, At
<1>4. PICK t \in Seq(HubStep) : t = Tail(todo[a])
  BY <1>2, <1>3, Continues
<1>5. /\ todo' = [todo EXCEPT ![a] = t]
      /\ a \in Clients => ClientOK(task[a], writer[a], todo[a], registered, a)
      /\ a = Sub => (Head(todo[a]).name # "count" => t = << >> \/ Head(t).name # "store")
  BY <1>2, <1>3, <1>4, Continues
<1>6. PICK s \in Seq(HubStep) : s = todo[a] /\ s # << >>
  BY <1>1, <1>3
<1>7. /\ Head(s).name = "count" => StoreNext(t)
      /\ Head(s).name = "store" => ~StoreNext(t)
      /\ a = Sub => StoreFollows(t)
  <2>1. CASE a = Sub
    <3>1. StoreFollows(s)
      BY <1>1, <1>6, <2>1
    <3>2. StoreFollows(t) /\ (Head(s).name = "count" => StoreNext(t))
      BY <1>4, <1>6, <3>1, StoreTail
    <3> QED
      BY <1>5, <1>6, <2>1, <3>2 DEF StoreNext
  <2>2. CASE a \in Clients
    <3>1. ClientOK(task[a], writer[a], s, registered, a) /\ a # Sub
      BY <1>5, <1>6, <2>2, MonitorAssumption DEF MonitorAssumption
    <3>2. s \in {CallEnter, CallCount, CallStore, CallGreet, Refresh, OnlyStore, OnlyDrop(a)}
      BY <1>6, <3>1 DEF ClientOK
    <3>3. Head(s).name = "count" => s = CallCount \/ s = Refresh
      BY <3>2, CallShapes
    <3>4. Head(s).name = "store" => s = CallStore \/ s = OnlyStore
      BY <3>2, CallShapes
    <3>5. t = Tail(s)
      BY <1>4, <1>6
    <3> QED
      BY <3>1, <3>3, <3>4, <3>5, CallShapes, CallDemand
  <2> QED
    BY <2>1, <2>2 DEF Actors
<1>8. todo'[a] = t /\ \A b \in Actors : b # a => todo'[b] = todo[b]
  BY <1>1, <1>5
<1>9. StoreFollows(todo'[Sub])
  BY <1>1, <1>2, <1>7, <1>8
<1>10. Wanting' = Wanting
  BY <1>3 DEF Wanting
<1>11. Cardinality(Wanting) \in 0 .. Cardinality(Clients)
  BY <1>1, WantingBound
<1>12. ASSUME NEW k \in [Actors -> 0 .. Cardinality(Clients)], NEW d \in 0 .. Cardinality(Clients),
              NEW o \in BOOLEAN, counted' = k, demand' = d, overlapped' = o,
              ~o => /\ \A b, e \in Actors : StoreNext(todo'[b]) /\ StoreNext(todo'[e]) => b = e
                    /\ ~Counting' =>
                         \/ \E b \in Actors : StoreNext(todo'[b]) /\ k[b] = Cardinality(Wanting)
                         \/ (\A b \in Actors : ~StoreNext(todo'[b])) /\ d = Cardinality(Wanting)
       PROVE  DemandInv'
  BY <1>9, <1>10, <1>12 DEF DemandInv, StoreNext, StoreFollows
<1>13. CASE CountDemand(a)
  <2>1. /\ Head(s).name = "count" /\ demand' = demand
        /\ counted' = [counted EXCEPT ![a] = Cardinality(Wanting)]
        /\ overlapped' = (overlapped \/ \E b \in Actors \ {a} : At(b, "store"))
    BY <1>6, <1>13 DEF CountDemand, At, Wanting
  <2>2. PICK k \in [Actors -> 0 .. Cardinality(Clients)] : k = counted' /\ k[a] = Cardinality(Wanting)
    <3>1. PICK w \in 0 .. Cardinality(Clients) : w = Cardinality(Wanting)
      BY <1>11
    <3>2. counted' = [counted EXCEPT ![a] = w]
      BY <2>1, <3>1
    <3>3. counted' \in [Actors -> 0 .. Cardinality(Clients)] /\ counted'[a] = w
      BY <1>1, <3>2
    <3> QED
      BY <3>1, <3>3
  <2>3. PICK o \in BOOLEAN : o = overlapped'
    BY <2>1
  <2>4. ~o => \A b \in Actors : b # a => ~StoreNext(todo[b])
    BY <2>1, <2>3 DEF At, StoreNext
  <2>5. StoreNext(todo'[a])
    BY <1>7, <1>8, <2>1
  <2>6. ~o => \A b, e \in Actors : StoreNext(todo'[b]) /\ StoreNext(todo'[e]) => b = e
    BY <1>8, <2>4
  <2>7. \E b \in Actors : StoreNext(todo'[b]) /\ k[b] = Cardinality(Wanting)
    BY <2>2, <2>5
  <2> QED
    BY <1>1, <1>12, <2>1, <2>2, <2>3, <2>6, <2>7
<1>14. CASE StoreDemand(a)
  <2>1. /\ Head(s).name = "store" /\ demand' = counted[a] /\ counted' = [counted EXCEPT ![a] = 0]
        /\ overlapped' = overlapped
    BY <1>6, <1>14 DEF StoreDemand, At
  <2>2. PICK n \in Nat : n = Cardinality(Clients)
    BY FS_CardinalityType, MonitorAssumption DEF MonitorAssumption
  <2>3. 0 \in 0 .. Cardinality(Clients)
    BY <2>2
  <2>4. PICK k \in [Actors -> 0 .. Cardinality(Clients)] : k = counted'
    BY <1>1, <2>1, <2>3
  <2>5. PICK d \in 0 .. Cardinality(Clients) : d = demand' /\ d = counted[a]
    BY <1>1, <2>1
  <2>6. StoreNext(todo[a]) /\ ~StoreNext(todo'[a])
    BY <1>6, <1>7, <1>8, <2>1 DEF StoreNext
  <2>7. ASSUME ~overlapped
        PROVE  /\ \A b \in Actors : ~StoreNext(todo'[b])
               /\ ~Counting' => d = Cardinality(Wanting)
    <3>1. \A b \in Actors : StoreNext(todo[b]) => b = a
      BY <2>6, <2>7 DEF DemandInv
    <3>2. \A b \in Actors : ~StoreNext(todo'[b])
      BY <1>8, <2>6, <3>1
    <3>3. ASSUME ~Counting' PROVE d = Cardinality(Wanting)
      <4>1. ~HasCount(todo[a])
        <5>1. ~HasCount(t)
          BY <1>8, <3>3 DEF Counting, HasCount
        <5>2. Elements(s) = {Head(s)} \cup Elements(t)
          BY <1>4, <1>6, ElementsTail
        <5> QED
          BY <1>6, <2>1, <5>1, <5>2, CountElements
      <4>2. ~Counting
        BY <1>8, <3>3, <4>1 DEF Counting, HasCount
      <4>3. PICK b \in Actors : StoreNext(todo[b]) /\ counted[b] = Cardinality(Wanting)
        BY <2>6, <2>7, <4>2 DEF DemandInv
      <4> QED
        BY <2>5, <3>1, <4>3
    <3> QED
      BY <3>2, <3>3
  <2>8. ~overlapped =>
          /\ \A b, e \in Actors : StoreNext(todo'[b]) /\ StoreNext(todo'[e]) => b = e
          /\ ~Counting' =>
               \/ \E b \in Actors : StoreNext(todo'[b]) /\ k[b] = Cardinality(Wanting)
               \/ (\A b \in Actors : ~StoreNext(todo'[b])) /\ d = Cardinality(Wanting)
    BY <2>7
  <2> QED
    BY <1>1, <1>12, <2>1, <2>4, <2>5, <2>8
<1> QED
  BY <1>13, <1>14

(* The first state.                                                           *)
LEMMA DemandInit == HubInit => DemandInv
<1> SUFFICES ASSUME HubInit PROVE DemandInv
  OBVIOUS
<1>1. Sub \in Actors /\ \A a \in Actors : todo[a] = << >>
  BY DEF HubInit, Actors
<1>2. PICK n \in Nat : n = Cardinality(Clients)
  BY FS_CardinalityType, MonitorAssumption DEF MonitorAssumption
<1>3. 0 \in 0 .. Cardinality(Clients)
  BY <1>2
<1>4. /\ counted \in [Actors -> 0 .. Cardinality(Clients)] /\ demand = 0 /\ overlapped = FALSE
  BY <1>3 DEF HubInit
<1>5. StoreFollows(todo[Sub]) /\ \A a \in Actors : ~StoreNext(todo[a])
  BY <1>1 DEF StoreFollows, StoreNext
<1>6. Wanting = {}
  BY DEF HubInit, Wanting
<1>7. Cardinality(Wanting) = 0
  BY <1>6, FS_EmptySet
<1> QED
  BY <1>3, <1>4, <1>5, <1>7 DEF DemandInv

(* What else happens to the calls.                                            *)
LEMMA DemandNext == CallInv /\ DemandInv /\ HubNext => DemandInv'
<1> SUFFICES ASSUME CallInv, DemandInv, HubNext PROVE DemandInv'
  OBVIOUS
<1>1. /\ StoreFollows(todo[Sub]) /\ todo \in [Actors -> Seq(HubStep)]
  BY DEF DemandInv, CallInv, HubTypes
<1>2. Sub \in Actors /\ Clients \subseteq Actors /\ Sub \notin Clients /\ << >> \in Seq(HubStep)
  BY MonitorAssumption DEF Actors, MonitorAssumption
<1>3. ASSUME NEW p \in Seq(HubStep), todo[Sub] # << >>, Continue(Sub, p), StoreFollows(p),
             p = << >> \/ Head(p).name # "store", Head(todo[Sub]).name \notin {"count", "store"},
             UNCHANGED <<counted, demand, overlapped>>,
             HasCount(p) \/ (registered' = registered /\ streams' = streams)
      PROVE  DemandInv'
  <2>1. PICK s \in Seq(HubStep) : s = todo[Sub] /\ s # << >>
    BY <1>1, <1>2, <1>3
  <2>2. PICK t \in Seq(HubStep) : t = Tail(s)
    <3>1. Tail(s) \in Seq(HubStep)
      BY <2>1
    <3> QED
      BY <3>1
  <2>3. /\ todo' = [todo EXCEPT ![Sub] = p \o t]
        /\ t = << >> \/ Head(t).name # "store"
    BY <1>2, <1>3, <2>1, <2>2, Continues
  <2>4. StoreFollows(p \o t)
    <3>1. StoreFollows(t)
      BY <1>1, <2>1, <2>2, StoreTail
    <3> QED
      BY <1>3, <3>1, StoreBefore
  <2>5. ~StoreNext(p \o t) /\ ~StoreNext(s)
    <3>1. CASE p = << >>
      <4>1. p \o t = t
        BY <3>1, NothingBefore
      <4> QED
        BY <1>3, <2>1, <2>3, <4>1 DEF StoreNext
    <3>2. CASE p # << >>
      <4>1. Head(p \o t) = Head(p)
        BY <3>2
      <4> QED
        BY <1>3, <2>1, <3>2, <4>1 DEF StoreNext
    <3> QED
      BY <3>1, <3>2
  <2>6. /\ Elements(p \o t) = Elements(p) \cup Elements(t)
        /\ Elements(s) = {Head(s)} \cup Elements(t)
    <3>1. Elements(p \o t) = Elements(p) \cup Elements(t)
      BY ElementsConcat
    <3>2. Elements(s) = {Head(s)} \cup Elements(t)
      BY <2>1, <2>2, ElementsTail
    <3> QED
      BY <3>1, <3>2
  <2>7. HasCount(p) => HasCount(p \o t)
    BY <2>6, CountElements
  <2>8. HasCount(s) => HasCount(p \o t)
    BY <1>3, <2>1, <2>6, CountElements
  <2>9. HasCount(p \o t) \/ (registered' = registered /\ streams' = streams /\ ~HasCount(todo[Sub]))
    BY <1>3, <2>1, <2>7, <2>8
  <2>10. StoreNext(p \o t) <=> StoreNext(todo[Sub])
    BY <2>1, <2>5
  <2> QED
    BY <1>1, <1>2, <1>3, <2>3, <2>4, <2>9, <2>10, DemandMoves
<1>4. ASSUME NEW c \in Clients, NEW s, todo' = [todo EXCEPT ![c] = s],
             UNCHANGED <<counted, demand, overlapped>>, ~StoreNext(s), ~StoreNext(todo[c]),
             HasCount(s) \/ (registered' = registered /\ streams' = streams /\ ~HasCount(todo[c]))
      PROVE  DemandInv'
  BY <1>1, <1>2, <1>4, DemandMoves
<1>5. ASSUME UNCHANGED <<todo, counted, demand, overlapped, registered, streams>> PROVE DemandInv'
  BY <1>5 DEF DemandInv, Counting, Wanting, StoreNext, HasCount, StoreFollows
<1>6. StoreFollows(<< >>)
  BY DEF StoreFollows
<1>7. ASSUME NEW c \in Clients PROVE ClientOK(task[c], writer[c], todo[c], registered, c)
  BY DEF CallInv, ClientCalls
<1>8. ASSUME NEW a \in Actors, CountDemand(a) \/ StoreDemand(a) PROVE DemandInv'
  BY <1>8, DemandCounts
<1>9. ASSUME NEW a \in Actors, RemoveClient(a) PROVE DemandInv'
  <2>1. PICK c : c = Head(todo[a]).client
    OBVIOUS
  <2>2. PICK p : p = IF c \in registered THEN Refresh ELSE << >>
    OBVIOUS
  <2>3. /\ todo[a] # << >> /\ Head(todo[a]).name = "drop" /\ registered' = registered \ {c}
        /\ Continue(a, p) /\ UNCHANGED <<counted, demand, overlapped, streams>>
    BY <1>9, <2>1, <2>2 DEF RemoveClient, TakeOut, At
  <2>4. /\ p \in Seq(HubStep) /\ StoreFollows(p) /\ (p = << >> \/ Head(p).name # "store")
        /\ HasCount(p) \/ (registered' = registered /\ streams' = streams)
    <3>1. CASE c \in registered
      <4>1. StoreFollows(Refresh)
        <5>1. PICK m, n : m = Step("count") /\ n = Step("store")
          OBVIOUS
        <5>2. Refresh = <<m, n>> /\ m.name = "count" /\ n.name = "store"
          BY <5>1, StepIs DEF Refresh
        <5>3. DOMAIN <<m, n>> = {1, 2} /\ <<m, n>>[1] = m /\ <<m, n>>[2] = n
          BY SmallTuples
        <5> QED
          BY <5>2, <5>3 DEF StoreFollows
      <4> QED
        BY <2>2, <3>1, <4>1, CallTypes, CallShapes, CallDemand
    <3>2. CASE c \notin registered
      BY <1>2, <1>6, <2>2, <2>3, <3>2
    <3> QED
      BY <3>1, <3>2
  <2>5. CASE a = Sub
    BY <1>3, <2>3, <2>4, <2>5
  <2>6. CASE a \in Clients
    <3>1. todo[a] = OnlyDrop(a)
      BY <1>7, <2>3, <2>6, ClientPops
    <3>2. todo' = [todo EXCEPT ![a] = p]
      <4>1. todo' = [todo EXCEPT ![a] = p \o Tail(todo[a])]
        BY <1>2, <2>3, <2>4, Continues
      <4>2. Tail(todo[a]) = << >>
        BY <3>1, CallShapes
      <4>3. p \o << >> = p
        BY <2>4, NothingBefore
      <4> QED
        BY <4>1, <4>2, <4>3
    <3>3. ~StoreNext(p) /\ ~StoreNext(todo[a]) /\ ~HasCount(todo[a])
      BY <2>4, <3>1, CallDemand DEF StoreNext
    <3> QED
      BY <1>4, <2>3, <2>4, <2>6, <3>2, <3>3
  <2> QED
    BY <2>5, <2>6 DEF Actors
<1>10. ASSUME Broadcast PROVE DemandInv'
  <2>1. PICK drops \in Seq(HubStep) :
          /\ todo[Sub] # << >> /\ Head(todo[Sub]).name \in {"meta", "run", "status"}
          /\ Continue(Sub, drops) /\ \A i \in DOMAIN drops : drops[i].name = "drop"
    BY <1>10, BroadcastShape
  <2>2. UNCHANGED <<counted, demand, overlapped>> /\ registered' = registered /\ streams' = streams
    BY <1>10 DEF Broadcast
  <2>3. StoreFollows(drops)
    BY <2>1 DEF StoreFollows
  <2>4. drops = << >> \/ Head(drops).name # "store"
    <3>1. ASSUME drops # << >> PROVE Head(drops).name = "drop"
      <4>1. 1 \in DOMAIN drops /\ Head(drops) = drops[1]
        BY <3>1
      <4> QED
        BY <2>1, <4>1
    <3> QED
      BY <3>1
  <2>5. Head(todo[Sub]).name \notin {"count", "store"}
    BY <2>1
  <2> QED
    BY <1>3, <2>1, <2>2, <2>3, <2>4, <2>5
<1>11. ASSUME StoreMetaRun \/ Remember PROVE DemandInv'
  <2>1. /\ todo[Sub] # << >> /\ Continue(Sub, << >>)
        /\ Head(todo[Sub]).name \notin {"count", "store"}
        /\ UNCHANGED <<counted, demand, overlapped>> /\ registered' = registered /\ streams' = streams
    BY <1>11 DEF StoreMetaRun, Remember, At
  <2> QED
    BY <1>2, <1>3, <1>6, <2>1
<1>12. ASSUME NEW s \in Statuses, HandleStatus(s.run, s.state) PROVE DemandInv'
  <2>1. s.run \in RunNos /\ s.state \in StateNames
    BY DEF RunNos, StateNames
  <2>2. PICK t : t = StatusSteps(s.run, s.state)
    OBVIOUS
  <2>3. t \in Seq(HubStep) /\ \A x \in Elements(t) : x.name \notin {"count", "store"}
    BY <2>1, <2>2, StatusShape, StatusNames
  <2>4. /\ todo[Sub] = << >> /\ todo' = [todo EXCEPT ![Sub] = t]
        /\ UNCHANGED <<counted, demand, overlapped>> /\ registered' = registered /\ streams' = streams
    BY <1>12, <2>2 DEF HandleStatus
  <2>5. ~HasCount(t)
    BY <2>3, CountElements
  <2>6. StoreFollows(t)
    BY <2>5 DEF StoreFollows, HasCount
  <2>7. ~StoreNext(t)
    <3>1. ASSUME t # << >> PROVE Head(t) \in Elements(t)
      BY <2>3, <3>1, ElementsTail
    <3> QED
      BY <2>3, <3>1 DEF StoreNext
  <2>8. ~StoreNext(todo[Sub]) /\ ~HasCount(todo[Sub])
    BY <2>4, CallDemand
  <2> QED
    BY <1>1, <1>2, <2>4, <2>6, <2>7, <2>8, DemandMoves
<1>13. ASSUME NEW c \in Clients, Register(c) PROVE DemandInv'
  <2>1. /\ task[c] = "off" /\ todo' = [todo EXCEPT ![c] = CallEnter]
        /\ UNCHANGED <<counted, demand, overlapped>>
    BY <1>13, CallTypes DEF Register
  <2>2. todo[c] = << >>
    BY <1>7, <2>1 DEF ClientOK
  <2> QED
    BY <1>4, <2>1, <2>2, CallDemand
<1>14. ASSUME NEW c \in Clients, Enter(c) PROVE DemandInv'
  <2>1. /\ todo[c] # << >> /\ Head(todo[c]).name = "enter" /\ Continue(c, << >>)
        /\ UNCHANGED <<counted, demand, overlapped>>
    BY <1>14 DEF Enter, At
  <2>2. todo[c] = CallEnter
    BY <1>7, <2>1, ClientPops
  <2>3. todo' = [todo EXCEPT ![c] = CallCount]
    <3>1. todo' = [todo EXCEPT ![c] = Tail(todo[c])]
      BY <1>2, <2>1, Continues
    <3>2. Tail(todo[c]) = CallCount
      BY <2>2, CallShapes
    <3> QED
      BY <3>1, <3>2
  <2> QED
    BY <1>4, <2>1, <2>2, <2>3, CallDemand
<1>15. ASSUME NEW c \in Clients, Greet(c) PROVE DemandInv'
  <2>1. /\ todo[c] # << >> /\ Head(todo[c]).name = "greet" /\ Continue(c, << >>)
        /\ UNCHANGED <<counted, demand, overlapped>> /\ registered' = registered /\ streams' = streams
    BY <1>15 DEF Greet, At
  <2>2. todo[c] = CallGreet
    BY <1>7, <2>1, ClientPops
  <2>3. todo' = [todo EXCEPT ![c] = << >>]
    <3>1. todo' = [todo EXCEPT ![c] = Tail(todo[c])]
      BY <1>2, <2>1, Continues
    <3>2. Tail(todo[c]) = << >>
      BY <2>2, CallShapes
    <3> QED
      BY <3>1, <3>2
  <2> QED
    BY <1>4, <2>1, <2>2, <2>3, CallDemand
<1>16. ASSUME NEW c \in Clients, Subscribe(c) PROVE DemandInv'
  <2>1. /\ todo[c] = << >> /\ todo' = [todo EXCEPT ![c] = Refresh]
        /\ UNCHANGED <<counted, demand, overlapped>>
    BY <1>16 DEF Subscribe
  <2> QED
    BY <1>4, <2>1, CallDemand
<1>17. ASSUME NEW c \in Clients, Close(c) PROVE DemandInv'
  <2>1. /\ todo[c] = << >> /\ todo' = [todo EXCEPT ![c] = OnlyDrop(c)]
        /\ UNCHANGED <<counted, demand, overlapped>> /\ registered' = registered /\ streams' = streams
    BY <1>17 DEF Close, OnlyDrop
  <2> QED
    BY <1>4, <2>1, CallDemand
<1>18. ASSUME HandleFrames \/ \E c \in Clients : WriterJson(c) \/ WriterLive(c) \/ WriterEnds(c)
       PROVE  DemandInv'
  BY <1>5, <1>18 DEF HandleFrames, WriterJson, WriterLive, WriterEnds
<1> QED
  BY <1>8, <1>9, <1>10, <1>11, <1>12, <1>13, <1>14, <1>15, <1>16, <1>17, <1>18 DEF HubNext

-----------------------------------------------------------------------------
(* The monitor                                                                 *)

(* The first state.                                                           *)
LEMMA HubStarts == HubInit => HubInv
<1> SUFFICES ASSUME HubInit PROVE HubInv
  OBVIOUS
<1>1. clientCount = Cardinality(registered)
  BY FS_EmptySet DEF HubInit
<1> QED
  BY <1>1, CallInit, JsonInit, LiveInit, DemandInit DEF HubInv

(* The count of clients follows the map of clients.                           *)
LEMMA CountFollows ==
  ASSUME clientCount = Cardinality(registered), HubNext
  PROVE  clientCount' = Cardinality(registered')
<1>1. ASSUME NEW a \in Actors, CountDemand(a) \/ StoreDemand(a) \/ RemoveClient(a)
      PROVE  clientCount' = Cardinality(registered')
  BY <1>1 DEF CountDemand, StoreDemand, RemoveClient, TakeOut
<1>2. ASSUME Broadcast \/ StoreMetaRun \/ Remember \/ HandleFrames
      PROVE  clientCount' = Cardinality(registered')
  BY <1>2 DEF Broadcast, StoreMetaRun, Remember, HandleFrames
<1>3. ASSUME NEW s \in Statuses, HandleStatus(s.run, s.state)
      PROVE  clientCount' = Cardinality(registered')
  BY <1>3 DEF HandleStatus
<1>4. ASSUME NEW c \in Clients, Register(c) \/ Enter(c) \/ Greet(c) \/ WriterJson(c)
      PROVE  clientCount' = Cardinality(registered')
  BY <1>4 DEF Register, Enter, Greet, WriterJson
<1>5. ASSUME NEW c \in Clients, WriterLive(c) \/ WriterEnds(c) \/ Subscribe(c) \/ Close(c)
      PROVE  clientCount' = Cardinality(registered')
  BY <1>5 DEF WriterLive, WriterEnds, Subscribe, Close
<1> QED
  BY <1>1, <1>2, <1>3, <1>4, <1>5 DEF HubNext

(* Every step of the hub keeps the invariant.                                 *)
LEMMA HubGoesOn == HubInv /\ HubNext => HubInv'
BY CallNext, JsonNext, LiveNext, DemandNext, CountFollows DEF HubInv

(* A step that is not the hub's.                                              *)
LEMMA HubRests == HubInv /\ UNCHANGED hubVars => HubInv'
<1> SUFFICES ASSUME HubInv, UNCHANGED hubVars PROVE HubInv'
  OBVIOUS
<1>1. CallInv'
  BY DEF HubInv, hubVars, CallInv, HubTypes, ClientCalls, SubCall
<1>2. JsonInv'
  <2>1. UNCHANGED <<said, jsonQ, heard, joined, registered, writer, metaRun, todo>>
    BY DEF hubVars
  <2>2. JsonInv /\ registered \subseteq Clients
    BY DEF HubInv, CallInv, HubTypes
  <2>3. DropsFirst(todo'[Sub])
    BY <2>1, <2>2 DEF JsonInv
  <2>4. (\A c : Dropping(c) => Dropping(c)') /\ (MetaDue => MetaDue')
    BY <2>1, SubElements
  <2>5. UNCHANGED <<said, jsonQ, heard, joined>> /\ registered' \subseteq registered /\ metaRun' = metaRun
        /\ \A c \in Clients : writer'[c] \in {writer[c], "done"}
    BY <2>1
  <2> QED
    BY <2>2, <2>3, <2>4, <2>5, JsonFrame
<1>3. LiveInv'
  <2>1. LiveInv /\ UNCHANGED <<pos, liveFrom, seen, wsDropped>> /\ live' = live /\ writer' = writer
    BY DEF HubInv, hubVars
  <2>2. live' \in Seq(Streams) /\ Len(live) <= Len(live')
    <3>1. live \in Seq(Streams)
      BY <2>1 DEF LiveInv
    <3>2. Len(live) \in Nat
      BY <3>1
    <3> QED
      BY <2>1, <3>1, <3>2
  <2> QED
    BY <2>1, <2>2, LiveFrame
<1>4. DemandInv'
  BY DEF HubInv, hubVars, DemandInv, Counting, Wanting, StoreNext, HasCount, StoreFollows
<1>5. clientCount' = Cardinality(registered')
  BY DEF HubInv, hubVars
<1> QED
  BY <1>1, <1>2, <1>3, <1>4, <1>5 DEF HubInv

(* What the invariant promises of the hub.                                    *)
LEMMA HubPromises ==
  HubInv => HubTypeOK /\ MetaCurrent /\ JsonReliable /\ LiveAccounted /\ NoGhosts /\ DemandExact
<1> SUFFICES ASSUME HubInv
             PROVE  /\ HubTypeOK /\ MetaCurrent /\ JsonReliable /\ LiveAccounted /\ NoGhosts
                    /\ DemandExact
  OBVIOUS
<1>1. CallInv /\ JsonInv /\ LiveInv /\ DemandInv /\ clientCount = Cardinality(registered)
  BY DEF HubInv
<1>2. HubTypeOK
  <2>1. registered \subseteq Clients /\ streams \in [Clients -> SUBSET Streams]
    BY <1>1 DEF CallInv, HubTypes
  <2>2. \A c \in Clients : Len(jsonQ[c]) <= JsonQueue /\ pos[c] <= Len(live)
    BY <1>1 DEF JsonInv, Fits, LiveInv
  <2>3. demand \in 0 .. Cardinality(Clients)
    BY <1>1 DEF DemandInv
  <2> QED
    BY <2>1, <2>2, <2>3 DEF HubTypeOK
<1>3. MetaCurrent /\ JsonReliable
  BY <1>1, JsonPromises
<1>4. LiveAccounted
  BY <1>1, LivePromise
<1>5. NoGhosts
  <2>1. ASSUME NEW c \in Clients, task[c] = "closed", todo[c] = << >> PROVE c \notin registered
    <3>1. ClientOK(task[c], writer[c], todo[c], registered, c)
      BY <1>1 DEF CallInv, ClientCalls
    <3> QED
      BY <2>1, <3>1, CallShapes DEF ClientOK
  <2> QED
    BY <1>1, <2>1 DEF NoGhosts
<1>6. DemandExact
  <2> SUFFICES ASSUME Quiet, ~overlapped PROVE demand = Cardinality(Wanting)
    BY DEF DemandExact, Wanting
  <2>1. ~Counting /\ \A a \in Actors : ~StoreNext(todo[a])
    BY CallDemand DEF Quiet, Counting
  <2> QED
    BY <1>1, <2>1 DEF DemandInv
<1> QED
  BY <1>2, <1>3, <1>4, <1>5, <1>6

(* The monitor does what it is for, for any clients, queues, statuses and     *)
(* publishers, with the SUB thread's counting in front of the hub: no client  *)
(* in the hub misses a meta or run message or looks at a run it was not told, *)
(* whatever falls between the steps of on_status, serve_client and            *)
(* broadcast_json; every live frame is looked at or counted in ws_dropped; a  *)
(* client that went has left the hub; and waveforms are made exactly as long  *)
(* as somebody wants them unless two counts overlapped.                       *)
THEOREM MonitorProved == MonitorSpec => []MonitorSound
<1>1. HubInit /\ FeedInit => HubInv /\ FeedInv
  BY HubStarts, FeedFacts
<1>2. HubInv /\ FeedInv /\ [MonitorNext]_<<hubVars, feedVars>> => HubInv' /\ FeedInv'
  <2> SUFFICES ASSUME HubInv, FeedInv, [MonitorNext]_<<hubVars, feedVars>> PROVE HubInv' /\ FeedInv'
    OBVIOUS
  <2>1. ASSUME UNCHANGED feedVars PROVE FeedInv'
    BY <2>1 DEF feedVars, FeedInv, FeedTypes
  <2>2. CASE HubNext /\ UNCHANGED feedVars
    BY <2>1, <2>2, HubGoesOn
  <2>3. CASE FeedNext /\ UNCHANGED hubVars
    BY <2>3, FeedNextKeeps, HubRests
  <2>4. CASE UNCHANGED <<hubVars, feedVars>>
    <3>1. UNCHANGED hubVars /\ UNCHANGED feedVars
      BY <2>4
    <3> QED
      BY <2>1, <3>1, HubRests
  <2> QED
    BY <2>2, <2>3, <2>4 DEF MonitorNext
<1>3. HubInv /\ FeedInv => MonitorSound
  BY HubPromises, FeedFacts DEF MonitorSound
<1> QED
  BY <1>1, <1>2, <1>3, PTL DEF MonitorSpec
==============================================================================
