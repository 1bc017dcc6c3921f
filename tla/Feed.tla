-------------------------------- MODULE Feed --------------------------------
(* What the monitor's SUB thread counts (src/src/monitor/sub.rs, wire.rs): a  *)
(* PUB socket drops messages without a word, and publishers are restarted;    *)
(* the sequence numbers are all there is to tell.                             *)
EXTENDS Integers, FiniteSets

CONSTANTS
  Publishers,   \* root-sink, slowctl
  MaxPublished, \* bound: messages published
  MaxRestarts   \* bound: restarts of a publisher

Kinds == {"status", "hist_snapshot", "built_event", "slow", "unknown", "broken"}
NoSeq == -1

VARIABLES
  nextSeq,     \* per publisher: its next sequence number
  tracker,     \* per publisher: GapTracker
  inCount,     \* messages_in and the counters by kind
  restarted,   \* history, per publisher: its restarts
  notSeen,     \* history, per publisher: messages that never reached observe
  unseenTail,  \* history, per publisher: those since the last one that did
  published

feedVars == <<nextSeq, tracker, inCount, restarted, notSeen, unseenTail, published>>

FeedInit ==
  /\ nextSeq = [p \in Publishers |-> 0]
  /\ tracker = [p \in Publishers |-> [last |-> NoSeq, gaps |-> 0, restarts |-> 0]]
  /\ inCount = [k \in Kinds |-> 0]
  /\ restarted = [p \in Publishers |-> 0] /\ notSeen = [p \in Publishers |-> 0]
  /\ unseenTail = [p \in Publishers |-> 0] /\ published = 0

(* GapTracker::observe: a number not above the last is a restart.             *)
Observe(t, seq) ==
  IF t.last # NoSeq /\ seq <= t.last
  THEN [last |-> seq, gaps |-> t.gaps, restarts |-> t.restarts + 1]
  ELSE [last |-> seq, gaps |-> IF t.last = NoSeq THEN t.gaps ELSE t.gaps + seq - t.last - 1,
        restarts |-> t.restarts]

Publishes(p) ==
  /\ published < MaxPublished /\ published' = published + 1
  /\ nextSeq' = [nextSeq EXCEPT ![p] = @ + 1]

(* Ingest::handle: a message that cannot be decoded is counted, and its       *)
(* number not looked at; one of an unknown kind is counted.                   *)
Deliver(p, kind) ==
  /\ Publishes(p)
  /\ inCount' = [inCount EXCEPT ![kind] = @ + 1]
  /\ IF kind = "broken"
     THEN /\ notSeen' = [notSeen EXCEPT ![p] = @ + 1]
          /\ unseenTail' = [unseenTail EXCEPT ![p] = @ + 1]
          /\ UNCHANGED tracker
     ELSE /\ tracker' = [tracker EXCEPT ![p] = Observe(@, nextSeq[p])]
          /\ unseenTail' = [unseenTail EXCEPT ![p] = 0]
          /\ UNCHANGED notSeen
  /\ UNCHANGED restarted

(* The socket's queue is full, or nobody is connected yet.                    *)
Lose(p) ==
  /\ Publishes(p)
  /\ notSeen' = [notSeen EXCEPT ![p] = @ + 1]
  /\ unseenTail' = [unseenTail EXCEPT ![p] = @ + 1]
  /\ UNCHANGED <<tracker, inCount, restarted>>

RestartPublisher(p) ==
  /\ restarted[p] < MaxRestarts
  /\ restarted' = [restarted EXCEPT ![p] = @ + 1]
  /\ nextSeq' = [nextSeq EXCEPT ![p] = 0]
  /\ UNCHANGED <<tracker, inCount, notSeen, unseenTail, published>>

FeedNext ==
  \E p \in Publishers :
    \/ \E k \in Kinds : Deliver(p, k)
    \/ Lose(p)
    \/ RestartPublisher(p)

(* monitor_gaps never claims more than was lost, and with no restart it is    *)
(* what was lost between the messages that came; source_restarts claims only  *)
(* restarts that were (GapTracker::observe, one tracker per source).          *)
GapsHonest ==
  \A p \in Publishers :
    /\ tracker[p].gaps <= notSeen[p]
    /\ tracker[p].restarts <= restarted[p]
    /\ restarted[p] = 0 /\ tracker[p].last # NoSeq =>
         \E early \in 0 .. notSeen[p] :   \* before the first that came
           /\ notSeen[p] = early + tracker[p].gaps + unseenTail[p]
           /\ tracker[p].last + 1 + unseenTail[p] = nextSeq[p]
=============================================================================
