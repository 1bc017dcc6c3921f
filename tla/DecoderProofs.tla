---------------------------- MODULE DecoderProofs ----------------------------
(* Proofs about the decoder: its inductive invariant DInv and, from it, that  *)
(* no fragment is mislaid, that the own EndOfStream needs every source, that  *)
(* runs stay separate and that restarts are counted exactly; and about the    *)
(* framer: MInv and, from it, that frames come out whole and bytes add up.    *)
EXTENDS Decoder, Mfm, SequenceFacts, TLAPS

(* A fragment: its source, its run and its place among the decoded ones.      *)
Fragment == [src : Expected, run : Nat, n : Nat]

(* What the core keeps of a source: its epoch, and the index and clock values *)
(* of the acquisition it is in.                                               *)
SourceType == [epoch : Nat, max_event_idx : Nat, time_floor : Int, data_frames : Nat]

(* The RunDecoder.                                                            *)
CoreType ==
  [run : Nat, awaiting : BOOLEAN, eos : SUBSET (Expected \cup {Stray}), pending : Seq(Fragment),
   out_seq : Nat, next_seq : [Expected -> Nat], source : [Expected -> SourceType],
   min_epoch : Nat, acquisition_restarts : Nat, before : [Expected -> Int],
   seq_gaps : Nat, run_mismatches : Nat, unsupported : Nat, batches_out : Nat,
   batches_abandoned : Nat, eos_out : Nat, eos_abandoned : Nat, errored : BOOLEAN]

(* What a source sends next.                                                  *)
FeedType == [run : Nat, seq : Nat, idx : Nat, time : Nat, stale : BOOLEAN, past : BOOLEAN]

(* The outcome of a send.                                                     *)
SentType == [kind : {"eos", "data"}, ok : BOOLEAN, run : Nat, seq : Nat, frags : Seq(Fragment)]

(* What the history counts.                                                   *)
TallyType == [plan : Plans, msgs : Nat, odd : Nat, eos : [Expected -> Nat],
              restarts : [Expected -> Nat], earlier : Nat]

(* The handler.                                                               *)
DecType == [state : States, joining : BOOLEAN, pull : BOOLEAN, started : 0 .. MaxStarted,
            fresh : BOOLEAN, core : BOOLEAN]

(* The thread.                                                                *)
WorkType == [pc : {"off", "loop", "batch", "eos", "hb", "last"}, stop : BOOLEAN,
             abandon : BOOLEAN, eosNext : BOOLEAN]

(* The types of the variables.                                                *)
DTypes ==
  /\ dec \in DecType /\ work \in WorkType
  /\ core \in CoreType
  /\ feed \in [Expected -> FeedType]
  /\ decoded \in Seq(Fragment) /\ sent \in Seq(SentType) /\ tally \in TallyType

(* The thread is about to send its own EndOfStream, now or after a last       *)
(* batch.                                                                     *)
Closing == work.pc = "eos" \/ work.eosNext = TRUE

(* The thread and what it is about to send.                                   *)
ThreadFits ==
  /\ work.pc \in {"off", "eos", "hb"} => core.pending = << >>
  /\ work.pc \in {"batch", "last"} => core.pending # << >>
  /\ work.eosNext = TRUE => work.pc \in {"batch", "eos"}
  /\ Closing => Expected \subseteq core.eos /\ tally.plan = "closes"
  /\ core.awaiting = TRUE => core.pending = << >> /\ core.eos = {}
  /\ dec.fresh = TRUE => work.pc = "off" /\ sent = << >> /\ decoded = << >>

(* The fragments of all messages of q.                                        *)
AllFrags(q) == FlattenSeq([i \in DOMAIN q |-> q[i].frags])

(* The messages of q that did not go out.                                     *)
Failures(q) == {i \in DOMAIN q : ~q[i].ok}

(* The own EndOfStreams in q.                                                 *)
Ends(q) == {i \in DOMAIN q : q[i].kind = "eos"}

(* The EndOfStreams before place i of q.                                      *)
EndsBefore(q, i) == {j \in 1 .. i - 1 : q[j].kind = "eos"}

(* The place after the last one of A.                                         *)
After(A) == IF A = {} THEN 1 ELSE 1 + CHOOSE j \in A : \A k \in A : j >= k

(* The first place of the run that place i of q belongs to.                   *)
First(q, i) == After(EndsBefore(q, i))

(* The fragments, and the number the next batch will have.                    *)
Batches ==
  /\ AllFrags(sent) \o core.pending = decoded
  /\ dec.fresh = FALSE => Lost(core) = Cardinality(Failures(sent))
  /\ \A i \in DOMAIN sent : sent[i].kind = "data" => sent[i].seq = i - First(sent, i)
  /\ First(sent, Len(sent) + 1) \in Nat
  /\ dec.fresh = FALSE => core.out_seq = (Len(sent) + 1) - First(sent, Len(sent) + 1)

(* Every source closes each run.                                              *)
Closes ==
  \A s \in Expected :
    /\ tally.eos[s] >= Cardinality(Ends(sent))
    /\ dec.fresh = FALSE /\ s \in core.eos => tally.eos[s] >= Cardinality(Ends(sent)) + 1

(* s has closed the run of the core, or reconnected with data behind it.      *)
Passed(s) == feed[s].run >= core.run /\ (feed[s].run = core.run => feed[s].seq > 0)

(* Without a latched error, what is pending is of the run of the core, which  *)
(* has not been closed, and a source still in a closed run is ahead of the    *)
(* number the core waits for.                                                 *)
Runs ==
  core.errored = FALSE =>
    /\ \A k \in DOMAIN core.pending : core.pending[k].run = core.run
    /\ \A i \in DOMAIN sent : \A k \in DOMAIN sent[i].frags : sent[i].frags[k].run = sent[i].run
    /\ \A i \in DOMAIN sent : \A j \in 1 .. i - 1 :
         sent[j].kind = "eos" /\ sent[i].kind = "data" => sent[j].run # sent[i].run
    /\ \A j \in DOMAIN sent : sent[j].kind = "eos" =>
         /\ core.pending # << >> => sent[j].run # core.run
         /\ \A s \in Expected : /\ sent[j].run <= feed[s].run
                                /\ sent[j].run = feed[s].run => feed[s].seq > core.next_seq[s]
    /\ dec.fresh = FALSE => \A s \in Expected : s \in core.eos => Passed(s)

(* What the core keeps of a source against the acquisition the source is in. *)
Tracks(u, e) ==
  /\ u.stale = TRUE =>
       /\ u.time >= StaleTime /\ e.time_floor >= StaleTime - 1
       /\ u.past = TRUE <=> e.max_event_idx > Gate
       /\ u.idx > Gate => u.past = TRUE
       /\ e.max_event_idx > Gate => e.time_floor <= u.time
  /\ u.stale = FALSE =>
       /\ u.time = u.idx
       /\ e.time_floor <= 1 \/ (u.idx = 0 /\ e.max_event_idx = 0)

(* The epochs the core counts are the restarts the sources made, and the      *)
(* restarts of the run those that all sources made, the closed runs included. *)
Epochs ==
  /\ dec.fresh = FALSE =>
       /\ \A s \in Expected : core.source[s].epoch = tally.restarts[s]
       /\ core.min_epoch = MinOf({tally.restarts[s] : s \in Expected})
       /\ core.acquisition_restarts = tally.earlier + core.min_epoch
  /\ dec.fresh = FALSE /\ tally.plan = "restarts" =>
       \A s \in Expected : Tracks(feed[s], core.source[s])

(* The inductive invariant of the decoder.                                    *)
DInv == DTypes /\ ThreadFits /\ Batches /\ Closes /\ Runs /\ Epochs

(* The kinds of frames.                                                       *)
Kinds == {"fragment", "malformed", "control"}

(* The index and the clock value of an event.                                 *)
EventType == [idx : Nat, time : Int]

(* d keeps what c knows of the acquisitions.                                  *)
SameEpochs(c, d) == /\ d.source = c.source /\ d.min_epoch = c.min_epoch
                    /\ d.acquisition_restarts = c.acquisition_restarts

(* d keeps what c has sent.                                                   *)
SameOut(c, d) == /\ d.out_seq = c.out_seq /\ d.batches_abandoned = c.batches_abandoned
                 /\ d.eos_abandoned = c.eos_abandoned

(* check_run: the core ends up in run r, or the error is latched.             *)
LEMMA CheckRunFacts ==
  ASSUME NEW c \in CoreType, NEW r \in Nat
  PROVE  LET d == CheckRun(c, r)
         IN  /\ d \in CoreType /\ d.awaiting = FALSE /\ d.eos = c.eos
             /\ d.pending = c.pending /\ d.next_seq = c.next_seq
             /\ SameEpochs(c, d) /\ SameOut(c, d)
             /\ c.errored = TRUE => d.errored = TRUE
             /\ c.awaiting = FALSE => d.run = c.run
             /\ d.errored = FALSE => d.run = r
<1> DEFINE a == [c EXCEPT !.awaiting = FALSE, !.run = r]
           b == [c EXCEPT !.run_mismatches = @ + 1, !.errored = TRUE]
<1>1. /\ a \in CoreType /\ a.awaiting = FALSE /\ a.eos = c.eos
      /\ a.pending = c.pending /\ a.next_seq = c.next_seq
      /\ SameEpochs(c, a) /\ SameOut(c, a) /\ a.errored = c.errored /\ a.run = r
  BY DEF CoreType, SameEpochs, SameOut
<1>2. /\ b \in CoreType /\ b.awaiting = c.awaiting /\ b.eos = c.eos
      /\ b.pending = c.pending /\ b.next_seq = c.next_seq
      /\ SameEpochs(c, b) /\ SameOut(c, b) /\ b.errored = TRUE /\ b.run = c.run
  <2> DEFINE n == c.run_mismatches + 1
  <2>1. n \in Nat
    BY DEF CoreType
  <2> HIDE DEF n
  <2>2. b = [c EXCEPT !.run_mismatches = n, !.errored = TRUE]
    BY DEF n
  <2> QED
    BY <2>1, <2>2 DEF CoreType, SameEpochs, SameOut
<1>3. c.awaiting \in BOOLEAN
  BY DEF CoreType
<1>4. CheckRun(c, r) = (IF c.awaiting THEN a ELSE IF r = c.run THEN c ELSE b)
  BY DEF CheckRun
<1>5. SameEpochs(c, c) /\ SameOut(c, c)
  BY DEF SameEpochs, SameOut
<1> HIDE DEF a, b
<1> QED
  BY <1>1, <1>2, <1>3, <1>4, <1>5

(* The gap check of DecodeBatch and the number that is expected next.         *)
Numbered(c, s, q) ==
  LET g == IF q = c.next_seq[s] THEN c ELSE [c EXCEPT !.seq_gaps = @ + 1, !.errored = TRUE]
  IN  [g EXCEPT !.next_seq[s] = q + 1]

(* A number that is not the expected one latches the error.                   *)
LEMMA GapFacts ==
  ASSUME NEW c \in CoreType, NEW s \in Expected, NEW q \in Nat
  PROVE  LET d == Numbered(c, s, q)
         IN  /\ d \in CoreType /\ d.awaiting = c.awaiting /\ d.eos = c.eos /\ d.run = c.run
             /\ d.pending = c.pending /\ d.next_seq = [c.next_seq EXCEPT ![s] = q + 1]
             /\ SameEpochs(c, d) /\ SameOut(c, d)
             /\ c.errored = TRUE => d.errored = TRUE
             /\ d.errored = FALSE => q = c.next_seq[s]
<1> DEFINE b == [c EXCEPT !.seq_gaps = @ + 1, !.errored = TRUE]
           g == IF q = c.next_seq[s] THEN c ELSE b
           d == [g EXCEPT !.next_seq[s] = q + 1]
<1>1. /\ b \in CoreType /\ b.awaiting = c.awaiting /\ b.eos = c.eos /\ b.run = c.run
      /\ b.pending = c.pending /\ b.next_seq = c.next_seq
      /\ SameEpochs(c, b) /\ SameOut(c, b) /\ b.errored = TRUE
  <2> DEFINE n == c.seq_gaps + 1
  <2>1. n \in Nat
    BY DEF CoreType
  <2> HIDE DEF n
  <2>2. b = [c EXCEPT !.seq_gaps = n, !.errored = TRUE]
    BY DEF n
  <2> QED
    BY <2>1, <2>2 DEF CoreType, SameEpochs, SameOut
<1>2. SameEpochs(c, c) /\ SameOut(c, c)
  BY DEF SameEpochs, SameOut
<1> HIDE DEF b
<1>3. /\ g \in CoreType /\ g.awaiting = c.awaiting /\ g.eos = c.eos /\ g.run = c.run
      /\ g.pending = c.pending /\ g.next_seq = c.next_seq
      /\ SameEpochs(c, g) /\ SameOut(c, g)
      /\ c.errored = TRUE => g.errored = TRUE
      /\ g.errored = FALSE => q = c.next_seq[s]
  BY <1>1, <1>2
<1> HIDE DEF g
<1> DEFINE m == [g.next_seq EXCEPT ![s] = q + 1]
<1>4. m \in [Expected -> Nat] /\ d = [g EXCEPT !.next_seq = m]
  <2>1. g.next_seq \in [Expected -> Nat] /\ q + 1 \in Nat
    BY <1>3 DEF CoreType
  <2> QED
    BY <2>1
<1>5. m = [c.next_seq EXCEPT ![s] = q + 1]
  BY <1>3
<1> HIDE DEF m
<1>6. /\ [g EXCEPT !.next_seq = m] \in CoreType
      /\ LET e == [g EXCEPT !.next_seq = m]
         IN  /\ e.awaiting = g.awaiting /\ e.eos = g.eos /\ e.run = g.run
             /\ e.pending = g.pending /\ e.next_seq = m
             /\ SameEpochs(g, e) /\ SameOut(g, e) /\ e.errored = g.errored
  BY <1>3, <1>4 DEF CoreType, SameEpochs, SameOut
<1>7. SameEpochs(c, d) /\ SameOut(c, d)
  BY <1>3, <1>4, <1>6 DEF SameEpochs, SameOut
<1> HIDE DEF d
<1>8. /\ d \in CoreType /\ d.awaiting = c.awaiting /\ d.eos = c.eos /\ d.run = c.run
      /\ d.pending = c.pending /\ d.next_seq = [c.next_seq EXCEPT ![s] = q + 1]
      /\ SameEpochs(c, d) /\ SameOut(c, d)
      /\ c.errored = TRUE => d.errored = TRUE
      /\ d.errored = FALSE => q = c.next_seq[s]
  BY <1>3, <1>4, <1>5, <1>6, <1>7
<1> QED
  BY <1>8 DEF d, g, b, Numbered

(* The least of the values of f.                                              *)
Least(f) == MinOf({f[s] : s \in Expected})

(* The least value is one of the values and at most every other.              *)
LEMMA LeastFacts ==
  ASSUME NEW f \in [Expected -> Nat]
  PROVE  /\ Least(f) \in Nat
         /\ \E s \in Expected : Least(f) = f[s]
         /\ \A s \in Expected : Least(f) <= f[s]
<1> DEFINE T == {f[s] : s \in Expected}
<1>1. T \subseteq Nat /\ T # {}
  BY SourcesAssumption
<1>2. \E m \in T : \A k \in T : m <= k
  <2> HIDE DEF T
  <2> QED
    BY <1>1, LeastNatural
<1>3. MinOf(T) \in T /\ \A k \in T : MinOf(T) <= k
  <2> HIDE DEF T
  <2> QED
    BY <1>2 DEF MinOf
<1>4. Least(f) = MinOf(T)
  BY DEF Least
<1> QED
  BY <1>1, <1>3, <1>4

(* A value that everything is above and something reaches is the least.       *)
LEMMA LeastIs ==
  ASSUME NEW f \in [Expected -> Nat], NEW m \in Nat,
         \A s \in Expected : m <= f[s], \E s \in Expected : f[s] = m
  PROVE  Least(f) = m
BY LeastFacts

(* One value that grows by one raises the least one by at most one.           *)
LEMMA LeastGrows ==
  ASSUME NEW f \in [Expected -> Nat], NEW s \in Expected, NEW g \in [Expected -> Nat],
         g = [f EXCEPT ![s] = f[s] + 1]
  PROVE  Least(g) = Least(f) \/ Least(g) = Least(f) + 1
<1>1. /\ Least(f) \in Nat /\ Least(g) \in Nat
      /\ \A t \in Expected : Least(f) <= f[t]
      /\ \A t \in Expected : Least(g) <= g[t]
  BY LeastFacts
<1>2. PICK x \in Expected : Least(f) = f[x]
  BY LeastFacts
<1>3. PICK y \in Expected : Least(g) = g[y]
  BY LeastFacts
<1>4. \A t \in Expected : f[t] \in Nat /\ g[t] \in Nat /\ g[t] >= f[t] /\ g[t] <= f[t] + 1
  OBVIOUS
<1>5. Least(g) <= Least(f) + 1
  <2>1. Least(g) <= g[x] /\ g[x] <= f[x] + 1 /\ g[x] \in Nat /\ f[x] \in Nat
    BY <1>1, <1>4
  <2> QED
    BY <1>1, <1>2, <2>1
<1>6. Least(g) >= Least(f)
  <2>1. Least(f) <= f[y] /\ f[y] <= g[y] /\ g[y] \in Nat /\ f[y] \in Nat
    BY <1>1, <1>4
  <2> QED
    BY <1>1, <1>3, <2>1
<1> QED
  BY <1>1, <1>5, <1>6

(* The epochs of the sources.                                                 *)
EpochsOf(c) == [s \in Expected |-> c.source[s].epoch]

(* What one event tells the core of source s.                                 *)
Tracked(c, d, s, ev) ==
  /\ \A t \in Expected \ {s} : d.source[t] = c.source[t]
  /\ Restarted(c.source[s], ev) =>
       /\ d.source[s].epoch = c.source[s].epoch + 1
       /\ d.source[s].max_event_idx = 0 /\ d.source[s].time_floor = ev.time
       /\ IF Least(EpochsOf(d)) > c.min_epoch
          THEN /\ d.min_epoch = Least(EpochsOf(d))
               /\ d.acquisition_restarts = c.acquisition_restarts + 1
          ELSE /\ d.min_epoch = c.min_epoch
               /\ d.acquisition_restarts = c.acquisition_restarts
  /\ ~Restarted(c.source[s], ev) =>
       /\ d.source[s].epoch = c.source[s].epoch
       /\ d.source[s].max_event_idx = IF ev.idx > c.source[s].max_event_idx
                                      THEN ev.idx ELSE c.source[s].max_event_idx
       /\ d.source[s].time_floor = IF ev.time < c.source[s].time_floor
                                   THEN ev.time ELSE c.source[s].time_floor
       /\ d.min_epoch = c.min_epoch /\ d.acquisition_restarts = c.acquisition_restarts

(* d differs from c in the acquisitions only.                                 *)
SameButEpochs(c, d) ==
  /\ d.awaiting = c.awaiting /\ d.eos = c.eos /\ d.run = c.run
  /\ d.pending = c.pending /\ d.next_seq = c.next_seq
  /\ SameOut(c, d) /\ d.errored = c.errored

(* track_acquisition_restart touches nothing but the acquisitions.            *)
LEMMA TrackFacts ==
  ASSUME NEW c \in CoreType, NEW s \in Expected, NEW ev \in EventType
  PROVE  LET d == TrackRestart(c, s, ev)
         IN  d \in CoreType /\ SameButEpochs(c, d) /\ Tracked(c, d, s, ev)
<1> DEFINE e == [c.source[s] EXCEPT !.data_frames = @ + 1]
           again == [e EXCEPT !.epoch = @ + 1, !.max_event_idx = 0, !.time_floor = ev.time]
           same == [e EXCEPT !.max_event_idx = IF ev.idx > @ THEN ev.idx ELSE @,
                             !.time_floor = IF ev.time < @ THEN ev.time ELSE @]
           d == [c EXCEPT !.source[s] = again,
                          !.before[s] = IF @ = -1 THEN e.data_frames - 1 ELSE @]
           lowest == MinOf({d.source[x].epoch : x \in Expected})
           high == [d EXCEPT !.min_epoch = lowest, !.acquisition_restarts = @ + 1]
           low == [c EXCEPT !.source[s] = same]
<1>1. TrackRestart(c, s, ev) = IF ~Restarted(e, ev) THEN low
                               ELSE IF lowest > c.min_epoch THEN high ELSE d
  BY DEF TrackRestart
<1>2. /\ c.source \in [Expected -> SourceType] /\ c.source[s] \in SourceType
      /\ c.before \in [Expected -> Int] /\ c.min_epoch \in Nat
      /\ c.acquisition_restarts \in Nat
  BY DEF CoreType
<1>3. ev.idx \in Nat /\ ev.time \in Int
  BY DEF EventType
<1>4. /\ e \in SourceType /\ e.epoch = c.source[s].epoch
      /\ e.max_event_idx = c.source[s].max_event_idx /\ e.time_floor = c.source[s].time_floor
  BY <1>2 DEF SourceType
<1>5. Restarted(e, ev) = Restarted(c.source[s], ev)
  BY <1>4 DEF Restarted
<1> HIDE DEF e
<1>6. /\ again \in SourceType /\ again.epoch = e.epoch + 1
      /\ again.max_event_idx = 0 /\ again.time_floor = ev.time
  <2> DEFINE n == e.epoch + 1
             z == 0
  <2>1. n \in Nat /\ z \in Nat
    BY <1>4 DEF SourceType
  <2>2. again = [e EXCEPT !.epoch = n, !.max_event_idx = z, !.time_floor = ev.time]
    OBVIOUS
  <2> HIDE DEF n, z, again
  <2>3. again \in SourceType /\ again.epoch = n /\ again.max_event_idx = z
        /\ again.time_floor = ev.time
    BY <1>3, <1>4, <2>1, <2>2 DEF SourceType
  <2> QED
    BY <2>3 DEF n, z
<1>7. /\ same \in SourceType /\ same.epoch = e.epoch
      /\ same.max_event_idx = (IF ev.idx > e.max_event_idx THEN ev.idx ELSE e.max_event_idx)
      /\ same.time_floor = (IF ev.time < e.time_floor THEN ev.time ELSE e.time_floor)
  BY <1>3, <1>4 DEF SourceType
<1> HIDE DEF again, same
<1>8. /\ low \in CoreType /\ SameButEpochs(c, low)
      /\ low.source = [c.source EXCEPT ![s] = same]
      /\ low.min_epoch = c.min_epoch /\ low.acquisition_restarts = c.acquisition_restarts
  <2> DEFINE src == [c.source EXCEPT ![s] = same]
  <2>1. src \in [Expected -> SourceType] /\ low = [c EXCEPT !.source = src]
    BY <1>2, <1>7
  <2> HIDE DEF src, low
  <2>2. /\ low \in CoreType /\ SameButEpochs(c, low) /\ low.source = src
        /\ low.min_epoch = c.min_epoch /\ low.acquisition_restarts = c.acquisition_restarts
    BY <2>1 DEF CoreType, SameButEpochs, SameOut
  <2> QED
    BY <2>2 DEF src
<1>9. /\ d \in CoreType /\ SameButEpochs(c, d)
      /\ d.source = [c.source EXCEPT ![s] = again]
      /\ d.min_epoch = c.min_epoch /\ d.acquisition_restarts = c.acquisition_restarts
  <2> DEFINE src == [c.source EXCEPT ![s] = again]
             bef == [c.before EXCEPT ![s] = IF @ = -1 THEN e.data_frames - 1 ELSE @]
  <2>0. e.data_frames - 1 \in Int
    BY <1>4 DEF SourceType
  <2>1. src \in [Expected -> SourceType] /\ bef \in [Expected -> Int]
    BY <1>2, <1>6, <2>0
  <2>2. d = [c EXCEPT !.source = src, !.before = bef]
    OBVIOUS
  <2> HIDE DEF src, bef, d
  <2>3. /\ d \in CoreType /\ SameButEpochs(c, d) /\ d.source = src
        /\ d.min_epoch = c.min_epoch /\ d.acquisition_restarts = c.acquisition_restarts
    BY <2>1, <2>2 DEF CoreType, SameButEpochs, SameOut
  <2> QED
    BY <2>3 DEF src
<1> HIDE DEF d, low
<1>10. EpochsOf(d) \in [Expected -> Nat] /\ lowest = Least(EpochsOf(d)) /\ lowest \in Nat
  <2>1. EpochsOf(d) \in [Expected -> Nat]
    BY <1>9 DEF EpochsOf, CoreType, SourceType
  <2>2. {EpochsOf(d)[x] : x \in Expected} = {d.source[x].epoch : x \in Expected}
    BY DEF EpochsOf
  <2>3. lowest = Least(EpochsOf(d))
    BY <2>2 DEF Least
  <2> QED
    BY <2>1, <2>3, LeastFacts
<1> HIDE DEF lowest
<1>11. /\ high \in CoreType /\ SameButEpochs(c, high) /\ high.source = d.source
       /\ high.min_epoch = lowest /\ high.acquisition_restarts = c.acquisition_restarts + 1
  <2> DEFINE n == c.acquisition_restarts + 1
  <2>1. n \in Nat
    BY <1>2
  <2>2. high = [d EXCEPT !.min_epoch = lowest, !.acquisition_restarts = n]
    BY <1>9
  <2> HIDE DEF n, high
  <2>3. /\ high \in CoreType /\ SameButEpochs(d, high) /\ high.source = d.source
        /\ high.min_epoch = lowest /\ high.acquisition_restarts = n
    BY <1>9, <1>10, <2>1, <2>2 DEF CoreType, SameButEpochs, SameOut
  <2>4. SameButEpochs(c, high)
    BY <1>9, <2>3 DEF SameButEpochs, SameOut
  <2> QED
    BY <2>3, <2>4 DEF n
<1>12. EpochsOf(high) = EpochsOf(d)
  BY <1>11 DEF EpochsOf
<1> HIDE DEF high
<1>13. CASE ~Restarted(e, ev)
  <2>1. Tracked(c, low, s, ev)
    BY <1>2, <1>4, <1>5, <1>7, <1>8, <1>13 DEF Tracked
  <2> QED
    BY <1>1, <1>8, <1>13, <2>1
<1>14. CASE Restarted(e, ev) /\ lowest > c.min_epoch
  <2>1. Tracked(c, high, s, ev)
    BY <1>2, <1>4, <1>5, <1>6, <1>9, <1>10, <1>11, <1>12, <1>14 DEF Tracked
  <2> QED
    BY <1>1, <1>11, <1>14, <2>1
<1>15. CASE Restarted(e, ev) /\ ~(lowest > c.min_epoch)
  <2>1. Tracked(c, d, s, ev)
    BY <1>2, <1>4, <1>5, <1>6, <1>9, <1>10, <1>15 DEF Tracked
  <2> QED
    BY <1>1, <1>9, <1>15, <2>1
<1> QED
  BY <1>13, <1>14, <1>15

(* decode_frame: a fragment is pending and its event has been tracked;        *)
(* another frame leaves both alone.                                           *)
LEMMA FrameFacts ==
  ASSUME NEW c \in CoreType, NEW kind \in Kinds, NEW f \in Fragment, NEW ev \in EventType
  PROVE  LET d == DecodeFrame(c, kind, f, ev)
         IN  /\ d \in CoreType /\ d.awaiting = c.awaiting /\ d.eos = c.eos /\ d.run = c.run
             /\ d.next_seq = c.next_seq /\ SameOut(c, d)
             /\ c.errored = TRUE => d.errored = TRUE
             /\ d.pending = IF kind = "fragment" THEN Append(c.pending, f) ELSE c.pending
             /\ IF kind = "fragment" THEN Tracked(c, d, f.src, ev) ELSE SameEpochs(c, d)
<1>1. CASE kind = "fragment"
  <2> DEFINE e == TrackRestart(c, f.src, ev)
             p == Append(e.pending, f)
             d == [e EXCEPT !.pending = p]
  <2>1. e \in CoreType /\ SameButEpochs(c, e) /\ Tracked(c, e, f.src, ev)
    BY TrackFacts DEF Fragment
  <2>2. DecodeFrame(c, kind, f, ev) = d
    BY <1>1 DEF DecodeFrame
  <2> HIDE DEF e
  <2>3. p \in Seq(Fragment) /\ p = Append(c.pending, f)
    BY <2>1 DEF CoreType, SameButEpochs
  <2> HIDE DEF p
  <2>4. /\ d \in CoreType /\ d.source = e.source /\ d.min_epoch = e.min_epoch
        /\ d.acquisition_restarts = e.acquisition_restarts
        /\ d.awaiting = e.awaiting /\ d.eos = e.eos /\ d.run = e.run
        /\ d.next_seq = e.next_seq /\ SameOut(e, d) /\ d.errored = e.errored
        /\ d.pending = p
    BY <2>1, <2>3 DEF CoreType, SameOut
  <2> HIDE DEF d
  <2>5. EpochsOf(d) = EpochsOf(e)
    BY <2>4 DEF EpochsOf
  <2>6. Tracked(c, d, f.src, ev)
    BY <2>1, <2>4, <2>5 DEF Tracked
  <2>7. SameOut(c, d)
    BY <2>1, <2>4 DEF SameOut, SameButEpochs
  <2> QED
    BY <1>1, <2>1, <2>2, <2>3, <2>4, <2>6, <2>7 DEF SameButEpochs
<1>2. CASE kind = "malformed"
  <2> DEFINE d == [c EXCEPT !.errored = TRUE]
  <2>1. DecodeFrame(c, kind, f, ev) = d
    BY <1>2 DEF DecodeFrame
  <2>2. /\ d \in CoreType /\ SameEpochs(c, d)
        /\ d.awaiting = c.awaiting /\ d.eos = c.eos /\ d.run = c.run
        /\ d.next_seq = c.next_seq /\ SameOut(c, d) /\ d.errored = TRUE
        /\ d.pending = c.pending
    BY DEF CoreType, SameOut, SameEpochs
  <2> HIDE DEF d
  <2> QED
    BY <1>2, <2>1, <2>2
<1>3. CASE kind = "control"
  <2> DEFINE n == c.unsupported + 1
             d == [c EXCEPT !.unsupported = n]
  <2>1. DecodeFrame(c, kind, f, ev) = d
    BY <1>3 DEF DecodeFrame
  <2>2. n \in Nat
    BY DEF CoreType
  <2> HIDE DEF n
  <2>3. /\ d \in CoreType /\ SameEpochs(c, d)
        /\ d.awaiting = c.awaiting /\ d.eos = c.eos /\ d.run = c.run
        /\ d.next_seq = c.next_seq /\ SameOut(c, d) /\ d.errored = c.errored
        /\ d.pending = c.pending
    BY <2>2 DEF CoreType, SameOut, SameEpochs
  <2> HIDE DEF d
  <2> QED
    BY <1>3, <2>1, <2>3
<1> QED
  BY <1>1, <1>2, <1>3 DEF Kinds

(* decode_batch: an unlatched core took data of its own run with the number   *)
(* it waited for.                                                             *)
LEMMA BatchFacts ==
  ASSUME NEW c \in CoreType, NEW s \in Expected, NEW r \in Nat, NEW q \in Nat,
         NEW kind \in Kinds, NEW f \in Fragment, f.src = s, NEW ev \in EventType
  PROVE  LET d == DecodeBatch(c, s, r, q, kind, f, ev)
         IN  /\ d \in CoreType /\ d.awaiting = FALSE /\ d.eos = c.eos
             /\ d.next_seq = [c.next_seq EXCEPT ![s] = q + 1] /\ SameOut(c, d)
             /\ c.errored = TRUE => d.errored = TRUE
             /\ d.pending = IF kind = "fragment" THEN Append(c.pending, f) ELSE c.pending
             /\ IF kind = "fragment" THEN Tracked(c, d, s, ev) ELSE SameEpochs(c, d)
             /\ c.awaiting = FALSE => d.run = c.run
             /\ d.errored = FALSE => d.run = r /\ q = c.next_seq[s]
<1> DEFINE a == CheckRun(c, r)
           b == Numbered(a, s, q)
           d == DecodeFrame(b, kind, f, ev)
<1>1. DecodeBatch(c, s, r, q, kind, f, ev) = d
  BY DEF DecodeBatch, Numbered
<1>2. /\ a \in CoreType /\ a.awaiting = FALSE /\ a.eos = c.eos
      /\ a.pending = c.pending /\ a.next_seq = c.next_seq
      /\ SameEpochs(c, a) /\ SameOut(c, a)
      /\ c.errored = TRUE => a.errored = TRUE
      /\ c.awaiting = FALSE => a.run = c.run
      /\ a.errored = FALSE => a.run = r
  BY CheckRunFacts
<1> HIDE DEF a
<1>3. /\ b \in CoreType /\ b.awaiting = a.awaiting /\ b.eos = a.eos /\ b.run = a.run
      /\ b.pending = a.pending /\ b.next_seq = [a.next_seq EXCEPT ![s] = q + 1]
      /\ SameEpochs(a, b) /\ SameOut(a, b)
      /\ a.errored = TRUE => b.errored = TRUE
      /\ b.errored = FALSE => q = a.next_seq[s]
  <2>1. a \in CoreType
    BY <1>2
  <2> QED
    BY ONLY <2>1, s \in Expected, q \in Nat, GapFacts, Zenon
<1> HIDE DEF b
<1>4. /\ d \in CoreType /\ d.awaiting = b.awaiting /\ d.eos = b.eos /\ d.run = b.run
      /\ d.next_seq = b.next_seq /\ SameOut(b, d)
      /\ b.errored = TRUE => d.errored = TRUE
      /\ d.pending = IF kind = "fragment" THEN Append(b.pending, f) ELSE b.pending
      /\ IF kind = "fragment" THEN Tracked(b, d, f.src, ev) ELSE SameEpochs(b, d)
  BY <1>3, FrameFacts, Zenon
<1> HIDE DEF d
<1>5. SameOut(c, d)
  BY <1>2, <1>3, <1>4 DEF SameOut
<1>6. SameEpochs(c, b)
  BY <1>2, <1>3 DEF SameEpochs
<1>7. IF kind = "fragment" THEN Tracked(c, d, s, ev) ELSE SameEpochs(c, d)
  <2>1. CASE kind = "fragment"
    BY <1>4, <1>6, <2>1 DEF Tracked, SameEpochs
  <2>2. CASE kind # "fragment"
    BY <1>4, <1>6, <2>2 DEF SameEpochs
  <2> QED
    BY <2>1, <2>2
<1>8. /\ a.errored \in BOOLEAN /\ b.errored \in BOOLEAN /\ d.errored \in BOOLEAN
  BY <1>2, <1>3, <1>4 DEF CoreType
<1>9. /\ d \in CoreType /\ d.awaiting = FALSE /\ d.eos = c.eos
      /\ d.next_seq = [c.next_seq EXCEPT ![s] = q + 1]
      /\ c.errored = TRUE => d.errored = TRUE
      /\ d.pending = IF kind = "fragment" THEN Append(c.pending, f) ELSE c.pending
      /\ c.awaiting = FALSE => d.run = c.run
      /\ d.errored = FALSE => d.run = r /\ q = c.next_seq[s]
  BY <1>2, <1>3, <1>4, <1>8
<1> QED
  BY <1>1, <1>5, <1>7, <1>9

(* handle_eos: the source is closed, and an unlatched core is in its run.     *)
LEMMA EosFacts ==
  ASSUME NEW c \in CoreType, NEW s \in Expected \cup {Stray}, NEW r \in Nat
  PROVE  LET d == DecodeEos(c, s, r)
         IN  /\ d \in CoreType /\ d.awaiting = FALSE /\ d.eos = c.eos \cup {s}
             /\ d.pending = c.pending /\ d.next_seq = c.next_seq
             /\ SameEpochs(c, d) /\ SameOut(c, d)
             /\ c.errored = TRUE => d.errored = TRUE
             /\ c.awaiting = FALSE => d.run = c.run
             /\ d.errored = FALSE => d.run = r
<1> DEFINE a == CheckRun(c, r)
           e == a.eos \cup {s}
           d == [a EXCEPT !.eos = e]
<1>1. DecodeEos(c, s, r) = d
  BY DEF DecodeEos
<1>2. /\ a \in CoreType /\ a.awaiting = FALSE /\ a.eos = c.eos
      /\ a.pending = c.pending /\ a.next_seq = c.next_seq
      /\ SameEpochs(c, a) /\ SameOut(c, a)
      /\ c.errored = TRUE => a.errored = TRUE
      /\ c.awaiting = FALSE => a.run = c.run
      /\ a.errored = FALSE => a.run = r
  BY CheckRunFacts
<1> HIDE DEF a
<1>3. e \in SUBSET (Expected \cup {Stray}) /\ e = c.eos \cup {s}
  BY <1>2 DEF CoreType
<1> HIDE DEF e
<1>4. /\ d \in CoreType /\ d.awaiting = a.awaiting /\ d.eos = e /\ d.run = a.run
      /\ d.pending = a.pending /\ d.next_seq = a.next_seq
      /\ SameEpochs(a, d) /\ SameOut(a, d) /\ d.errored = a.errored
  BY <1>2, <1>3 DEF CoreType, SameEpochs, SameOut
<1> HIDE DEF d
<1>5. SameEpochs(c, d) /\ SameOut(c, d)
  BY <1>2, <1>4 DEF SameEpochs, SameOut
<1> QED
  BY <1>1, <1>2, <1>3, <1>4, <1>5

(* A source of which nothing has been heard.                                  *)
LEMMA NewSourceFacts ==
  /\ NewSource \in SourceType /\ NewSource.epoch = 0 /\ NewSource.max_event_idx = 0
  /\ NewSource.time_floor = NoFloor /\ NoFloor \in Nat /\ NoFloor >= StaleTime
<1>1. NoFloor \in Nat /\ NoFloor >= StaleTime
  BY DecoderAssumption DEF NoFloor
<1> QED
  BY <1>1 DEF NewSource, SourceType

(* A core as Start makes it.                                                  *)
LEMMA NewCoreFacts ==
  ASSUME NEW r \in Nat
  PROVE  /\ NewCore(r) \in CoreType /\ NewCore(r).run = r /\ NewCore(r).awaiting = FALSE
         /\ NewCore(r).eos = {} /\ NewCore(r).pending = << >> /\ NewCore(r).out_seq = 0
         /\ NewCore(r).source = [s \in Expected |-> NewSource]
         /\ NewCore(r).min_epoch = 0 /\ NewCore(r).acquisition_restarts = 0
         /\ NewCore(r).batches_abandoned = 0 /\ NewCore(r).eos_abandoned = 0
         /\ NewCore(r).errored = FALSE
<1> DEFINE nx == [s \in Expected |-> 0]
           src == [s \in Expected |-> NewSource]
           bef == [s \in Expected |-> -1]
<1>1. /\ nx \in [Expected -> Nat] /\ src \in [Expected -> SourceType] /\ bef \in [Expected -> Int]
      /\ << >> \in Seq(Fragment) /\ {} \in SUBSET (Expected \cup {Stray})
  BY NewSourceFacts
<1> DEFINE c == [run |-> r, awaiting |-> FALSE, eos |-> {}, pending |-> << >>, out_seq |-> 0,
                 next_seq |-> nx, source |-> src,
                 min_epoch |-> 0, acquisition_restarts |-> 0, before |-> bef,
                 seq_gaps |-> 0, run_mismatches |-> 0, unsupported |-> 0, batches_out |-> 0,
                 batches_abandoned |-> 0, eos_out |-> 0, eos_abandoned |-> 0, errored |-> FALSE]
<1>2. NewCore(r) = c
  BY DEF NewCore
<1> HIDE DEF nx, src, bef
<1>3. /\ c \in CoreType /\ c.run = r /\ c.awaiting = FALSE
      /\ c.eos = {} /\ c.pending = << >> /\ c.out_seq = 0 /\ c.source = src
      /\ c.min_epoch = 0 /\ c.acquisition_restarts = 0
      /\ c.batches_abandoned = 0 /\ c.eos_abandoned = 0 /\ c.errored = FALSE
  BY <1>1 DEF CoreType
<1> HIDE DEF c
<1> QED
  BY <1>2, <1>3 DEF src

(* After the own EndOfStream: the core begins anew but for its run, its       *)
(* latch and its counters.                                                    *)
LEMMA EosDoneFacts ==
  ASSUME NEW c \in CoreType, NEW ok \in BOOLEAN
  PROVE  LET d == EosDone(c, ok)
         IN  /\ d \in CoreType /\ d.run = c.run /\ d.awaiting = TRUE /\ d.eos = {}
             /\ d.pending = << >> /\ d.out_seq = 0
             /\ d.next_seq = [s \in Expected |-> 0]
             /\ d.source = [s \in Expected |-> NewSource] /\ d.min_epoch = 0
             /\ d.acquisition_restarts = c.acquisition_restarts
             /\ Lost(d) = Lost(c) + (IF ok THEN 0 ELSE 1) /\ d.errored = c.errored
<1> DEFINE n == c.eos_out + 1
           m == c.eos_abandoned + 1
           a == [c EXCEPT !.eos_out = n]
           b == [c EXCEPT !.eos_abandoned = m]
           e == IF ok THEN a ELSE b
           nx == [s \in Expected |-> 0]
           src == [s \in Expected |-> NewSource]
           mt == << >>
           d == [e EXCEPT !.eos = {}, !.next_seq = nx, !.out_seq = 0,
                          !.awaiting = TRUE, !.source = src,
                          !.min_epoch = 0, !.pending = mt]
<1>1. EosDone(c, ok) = d
  BY DEF EosDone, Rearm
<1>2. n \in Nat /\ m \in Nat /\ c.batches_abandoned \in Nat /\ c.eos_abandoned \in Nat
  BY DEF CoreType
<1>3. nx \in [Expected -> Nat] /\ src \in [Expected -> SourceType] /\ mt \in Seq(Fragment)
  BY NewSourceFacts
<1> HIDE DEF nx, src, mt
<1>4. /\ e \in CoreType /\ e.run = c.run /\ e.errored = c.errored
      /\ e.acquisition_restarts = c.acquisition_restarts
      /\ e.batches_abandoned = c.batches_abandoned
      /\ e.eos_abandoned = IF ok THEN c.eos_abandoned ELSE m
  <2> HIDE DEF n, m
  <2>1. /\ a \in CoreType /\ a.run = c.run /\ a.errored = c.errored
        /\ a.acquisition_restarts = c.acquisition_restarts
        /\ a.batches_abandoned = c.batches_abandoned /\ a.eos_abandoned = c.eos_abandoned
    BY <1>2 DEF CoreType
  <2>2. /\ b \in CoreType /\ b.run = c.run /\ b.errored = c.errored
        /\ b.acquisition_restarts = c.acquisition_restarts
        /\ b.batches_abandoned = c.batches_abandoned /\ b.eos_abandoned = m
    BY <1>2 DEF CoreType
  <2> HIDE DEF a, b
  <2> QED
    BY <2>1, <2>2
<1> HIDE DEF e
<1>5. /\ d \in CoreType /\ d.run = e.run /\ d.awaiting = TRUE /\ d.eos = {}
      /\ d.pending = mt /\ d.out_seq = 0 /\ d.next_seq = nx /\ d.source = src
      /\ d.min_epoch = 0 /\ d.acquisition_restarts = e.acquisition_restarts
      /\ d.batches_abandoned = e.batches_abandoned /\ d.eos_abandoned = e.eos_abandoned
      /\ d.errored = e.errored
  BY <1>3, <1>4 DEF CoreType
<1> HIDE DEF d
<1>6. Lost(d) = Lost(c) + (IF ok THEN 0 ELSE 1)
  BY <1>2, <1>4, <1>5 DEF Lost
<1> QED
  BY <1>1, <1>4, <1>5, <1>6 DEF nx, src, mt

(* After a batch: its number is used up and nothing is pending.               *)
LEMMA BatchDoneFacts ==
  ASSUME NEW c \in CoreType, NEW ok \in BOOLEAN
  PROVE  LET d == IF ok THEN BatchSent(c) ELSE BatchAbandoned(c)
         IN  /\ d \in CoreType /\ d.run = c.run /\ d.awaiting = c.awaiting /\ d.eos = c.eos
             /\ d.pending = << >> /\ d.out_seq = c.out_seq + 1
             /\ d.next_seq = c.next_seq /\ SameEpochs(c, d)
             /\ Lost(d) = Lost(c) + (IF ok THEN 0 ELSE 1) /\ d.errored = c.errored
<1> DEFINE n == c.batches_out + 1
           m == c.batches_abandoned + 1
           q == c.out_seq + 1
           mt == << >>
           a == [[c EXCEPT !.batches_out = n, !.out_seq = q] EXCEPT !.pending = mt]
           b == [[c EXCEPT !.batches_abandoned = m, !.out_seq = q] EXCEPT !.pending = mt]
<1>1. BatchSent(c) = a /\ BatchAbandoned(c) = b
  BY DEF BatchSent, BatchAbandoned, ClearPending
<1>2. /\ n \in Nat /\ m \in Nat /\ q \in Nat /\ mt \in Seq(Fragment)
      /\ c.batches_abandoned \in Nat /\ c.eos_abandoned \in Nat
  <2>1. /\ c.batches_out \in Nat /\ c.batches_abandoned \in Nat /\ c.out_seq \in Nat
        /\ c.eos_abandoned \in Nat
    BY DEF CoreType
  <2>2. mt \in Seq(Fragment)
    OBVIOUS
  <2> QED
    BY <2>1, <2>2
<1> HIDE DEF n, m, q, mt
<1>3. /\ a \in CoreType /\ a.run = c.run /\ a.awaiting = c.awaiting /\ a.eos = c.eos
      /\ a.pending = mt /\ a.out_seq = q /\ a.next_seq = c.next_seq /\ SameEpochs(c, a)
      /\ a.batches_abandoned = c.batches_abandoned /\ a.eos_abandoned = c.eos_abandoned
      /\ a.errored = c.errored
  BY <1>2 DEF CoreType, SameEpochs
<1>4. /\ b \in CoreType /\ b.run = c.run /\ b.awaiting = c.awaiting /\ b.eos = c.eos
      /\ b.pending = mt /\ b.out_seq = q /\ b.next_seq = c.next_seq /\ SameEpochs(c, b)
      /\ b.batches_abandoned = m /\ b.eos_abandoned = c.eos_abandoned
      /\ b.errored = c.errored
  BY <1>2 DEF CoreType, SameEpochs
<1> HIDE DEF a, b
<1>5. Lost(a) = Lost(c) + 0 /\ Lost(b) = Lost(c) + 1
  BY <1>2, <1>3, <1>4 DEF Lost, m
<1> QED
  BY <1>1, <1>3, <1>4, <1>5 DEF q, mt

(* A message more brings its fragments to the end of what was sent.           *)
LEMMA FragsAppend ==
  ASSUME NEW q \in Seq(SentType), NEW x \in SentType
  PROVE  /\ AllFrags(q) \in Seq(Fragment)
         /\ AllFrags(Append(q, x)) = AllFrags(q) \o x.frags
<1> DEFINE ds == [i \in DOMAIN q |-> q[i].frags]
           e == Append(q, x)
           es == [i \in DOMAIN e |-> e[i].frags]
           n == Len(q)
<1>1. /\ n \in Nat /\ DOMAIN q = 1 .. n /\ DOMAIN e = 1 .. n + 1
      /\ \A j \in 1 .. n : e[j] = q[j]
      /\ e[n + 1] = x
  BY AppendShape
<1>2. x.frags \in Seq(Fragment) /\ \A j \in 1 .. n : q[j].frags \in Seq(Fragment)
  <2>1. \A j \in 1 .. n : q[j] \in SentType
    BY <1>1
  <2> QED
    BY <2>1 DEF SentType
<1> HIDE DEF e, n
<1>3. ds \in Seq(Seq(Fragment)) /\ Len(ds) = n
  <2>1. ds = [i \in 1 .. n |-> q[i].frags]
    BY <1>1
  <2> QED
    BY <1>1, <1>2, <2>1
<1>4. es = Append(ds, x.frags)
  <2> DEFINE t == Append(ds, x.frags)
             y == x.frags
  <2>1. /\ t \in Seq(Seq(Fragment)) /\ DOMAIN t = 1 .. n + 1
        /\ \A j \in 1 .. n : t[j] = ds[j]
        /\ t[n + 1] = y
    <3>1. y \in Seq(Fragment)
      BY <1>2
    <3> HIDE DEF ds, y
    <3>2. Append(ds, y) \in Seq(Seq(Fragment))
      BY <1>3, <3>1
    <3> QED
      BY <1>3, <3>1, <3>2, AppendShape DEF y
  <2>2. t = [j \in 1 .. n + 1 |-> t[j]]
    <3> HIDE DEF t
    <3> QED
      BY <2>1
  <2>3. ASSUME NEW j \in 1 .. n + 1 PROVE es[j] = t[j]
    <3>1. CASE j = n + 1
      BY <1>1, <2>1, <3>1
    <3>2. CASE j # n + 1
      <4>1. j \in 1 .. n
        BY <1>1, <3>2
      <4> QED
        BY <1>1, <2>1, <4>1
    <3> QED
      BY <3>1, <3>2
  <2>4. es = [j \in 1 .. n + 1 |-> es[j]]
    BY <1>1
  <2> HIDE DEF es, t
  <2>5. es = t
    BY <2>2, <2>3, <2>4
  <2> QED
    BY <2>5 DEF t
<1> HIDE DEF ds, es
<1>5. FlattenSeq(es) = FlattenSeq(ds) \o x.frags /\ FlattenSeq(ds) \in Seq(Fragment)
  BY <1>2, <1>3, <1>4, FlattenAppend
<1> QED
  BY <1>5 DEF AllFrags, ds, es, e

(* No messages carry no fragments.                                            *)
LEMMA NoFrags == AllFrags(<< >>) = << >>
<1>1. [i \in DOMAIN << >> |-> << >>[i].frags] = << >>
  OBVIOUS
<1> QED
  BY <1>1, FlattenEmpty DEF AllFrags

(* The places of q where P holds, for the two counts the properties use.      *)
LEMMA CountsFinite ==
  ASSUME NEW q \in Seq(SentType)
  PROVE  /\ IsFiniteSet(Failures(q)) /\ Cardinality(Failures(q)) \in Nat
         /\ IsFiniteSet(Ends(q)) /\ Cardinality(Ends(q)) \in Nat
<1>1. IsFiniteSet(1 .. Len(q)) /\ DOMAIN q = 1 .. Len(q)
  BY FS_Interval
<1>2. Failures(q) \subseteq 1 .. Len(q) /\ Ends(q) \subseteq 1 .. Len(q)
  BY <1>1 DEF Failures, Ends
<1>3. IsFiniteSet(Failures(q)) /\ IsFiniteSet(Ends(q))
  BY <1>1, <1>2, FS_Subset
<1> QED
  BY <1>3, FS_CardinalityType

(* The two counts after one more message.                                     *)
LEMMA CountsAppend ==
  ASSUME NEW q \in Seq(SentType), NEW x \in SentType
  PROVE  /\ Cardinality(Failures(Append(q, x))) =
              Cardinality(Failures(q)) + (IF x.ok THEN 0 ELSE 1)
         /\ Cardinality(Ends(Append(q, x))) =
              Cardinality(Ends(q)) + (IF x.kind = "eos" THEN 1 ELSE 0)
<1> DEFINE e == Append(q, x)
           n == Len(q)
<1>1. /\ n \in Nat /\ DOMAIN q = 1 .. n /\ DOMAIN e = 1 .. n + 1
      /\ \A j \in 1 .. n : e[j] = q[j]
      /\ e[n + 1] = x
  BY AppendShape
<1>2. /\ IsFiniteSet(Failures(q)) /\ Cardinality(Failures(q)) \in Nat
      /\ IsFiniteSet(Ends(q)) /\ Cardinality(Ends(q)) \in Nat
  BY CountsFinite
<1>3. x.ok \in BOOLEAN
  BY DEF SentType
<1> HIDE DEF e, n
<1>4. /\ n + 1 \notin Failures(q) /\ n + 1 \notin Ends(q)
      /\ Failures(e) = (IF x.ok THEN Failures(q) ELSE Failures(q) \cup {n + 1})
      /\ Ends(e) = (IF x.kind = "eos" THEN Ends(q) \cup {n + 1} ELSE Ends(q))
  BY <1>1, <1>3 DEF Failures, Ends
<1>5. ASSUME NEW A, IsFiniteSet(A), Cardinality(A) \in Nat, n + 1 \notin A
      PROVE  Cardinality(A \cup {n + 1}) = Cardinality(A) + 1
  BY <1>5, FS_AddElement
<1>6. Cardinality(Failures(e)) = Cardinality(Failures(q)) + (IF x.ok THEN 0 ELSE 1)
  <2>1. CASE x.ok
    BY <1>2, <1>4, <2>1
  <2>2. CASE ~x.ok
    BY <1>2, <1>4, <1>5, <2>2
  <2> QED
    BY <2>1, <2>2
<1>7. Cardinality(Ends(e)) = Cardinality(Ends(q)) + (IF x.kind = "eos" THEN 1 ELSE 0)
  <2>1. CASE x.kind # "eos"
    BY <1>2, <1>4, <2>1
  <2>2. CASE x.kind = "eos"
    BY <1>2, <1>4, <1>5, <2>2
  <2> QED
    BY <2>1, <2>2
<1> QED
  BY <1>6, <1>7 DEF e

(* The two counts, and the first place of the run, when nothing was sent.     *)
LEMMA NoCounts == /\ Cardinality(Failures(<< >>)) = 0 /\ Cardinality(Ends(<< >>)) = 0
                  /\ First(<< >>, 1) = 1
<1>1. Failures(<< >>) = {} /\ Ends(<< >>) = {} /\ Cardinality({}) = 0
  BY FS_EmptySet DEF Failures, Ends
<1>2. First(<< >>, 1) = 1
  <2>1. EndsBefore(<< >>, 1) = {}
    BY DEF EndsBefore
  <2> QED
    BY <2>1 DEF First, After
<1> QED
  BY <1>1, <1>2

(* Where a run begins does not change when messages are added; after an       *)
(* EndOfStream it is the next place.                                          *)
LEMMA FirstAppend ==
  ASSUME NEW q \in Seq(SentType), NEW x \in SentType
  PROVE  /\ \A i \in 1 .. Len(q) + 1 : First(Append(q, x), i) = First(q, i)
         /\ x.kind = "data" => First(Append(q, x), Len(q) + 2) = First(q, Len(q) + 1)
         /\ x.kind = "eos" => First(Append(q, x), Len(q) + 2) = Len(q) + 2
<1> DEFINE e == Append(q, x)
           n == Len(q)
<1>1. /\ n \in Nat /\ DOMAIN q = 1 .. n /\ DOMAIN e = 1 .. n + 1
      /\ \A j \in 1 .. n : e[j] = q[j]
      /\ e[n + 1] = x
  BY AppendShape
<1> HIDE DEF e, n
<1>2. ASSUME NEW i \in 1 .. n + 1 PROVE First(e, i) = First(q, i)
  <2>1. \A j \in 1 .. i - 1 : e[j] = q[j]
    BY <1>1
  <2>2. EndsBefore(e, i) = EndsBefore(q, i)
    BY <2>1 DEF EndsBefore
  <2> QED
    BY <2>2 DEF First
<1>3. ASSUME x.kind = "data" PROVE First(e, n + 2) = First(q, n + 1)
  <2>1. EndsBefore(e, n + 2) = EndsBefore(q, n + 1)
    BY <1>1, <1>3 DEF EndsBefore
  <2> QED
    BY <2>1 DEF First
<1>4. ASSUME x.kind = "eos" PROVE First(e, n + 2) = n + 2
  <2> DEFINE A == EndsBefore(e, n + 2)
             m == CHOOSE j \in A : \A k \in A : j >= k
  <2>1. n + 1 \in A /\ \A k \in A : k \in Int /\ n + 1 >= k
    BY <1>1, <1>4 DEF EndsBefore
  <2> HIDE DEF A
  <2>2. After(A) = 1 + m
    BY <2>1 DEF After
  <2>3. m \in A /\ \A k \in A : m >= k
    BY <2>1
  <2> HIDE DEF m
  <2>4. m = n + 1
    <3>1. m >= n + 1 /\ n + 1 >= m /\ m \in Int
      BY <2>1, <2>3
    <3> QED
      BY <1>1, <3>1
  <2>5. After(A) = n + 2
    BY <1>1, <2>2, <2>4
  <2> QED
    BY <2>5 DEF First, A
<1> QED
  BY <1>2, <1>3, <1>4 DEF e, n

(* A feed at the start of a connection of run r.                              *)
LEMMA NewFeedFacts ==
  ASSUME NEW b \in BOOLEAN, NEW r \in Nat
  PROVE  LET u == [NewFeed(b) EXCEPT !.run = r]
         IN  /\ NewFeed(b) \in FeedType
             /\ u \in FeedType /\ u.run = r /\ u.seq = 0 /\ u.stale = b /\ u.past = FALSE
             /\ u.idx = (IF b THEN Gate ELSE 0) /\ u.time = (IF b THEN StaleTime ELSE 0)
<1> DEFINE g == IF b THEN Gate ELSE 0
           t == IF b THEN StaleTime ELSE 0
           v == [run |-> 1, seq |-> 0, idx |-> g, time |-> t, stale |-> b, past |-> FALSE]
<1>1. g \in Nat /\ t \in Nat
  BY DecoderAssumption
<1>2. NewFeed(b) = v
  BY DEF NewFeed
<1> HIDE DEF g, t
<1>3. v \in FeedType
  BY <1>1 DEF FeedType
<1>4. LET u == [v EXCEPT !.run = r]
      IN  /\ u \in FeedType /\ u.run = r /\ u.seq = 0 /\ u.stale = b /\ u.past = FALSE
          /\ u.idx = g /\ u.time = t
  BY <1>1 DEF FeedType
<1> HIDE DEF v
<1> QED
  BY <1>2, <1>3, <1>4 DEF g, t

(* A tally at the start of a history.                                         *)
LEMMA NewTallyFacts ==
  ASSUME NEW p \in Plans
  PROVE  /\ NewTally(p) \in TallyType /\ NewTally(p).plan = p /\ NewTally(p).earlier = 0
         /\ NewTally(p).eos = [s \in Expected |-> 0]
         /\ NewTally(p).restarts = [s \in Expected |-> 0]
<1> DEFINE z == [s \in Expected |-> 0]
<1>1. z \in [Expected -> Nat]
  OBVIOUS
<1>2. NewTally(p) = [plan |-> p, msgs |-> 0, odd |-> 0, eos |-> z, restarts |-> z, earlier |-> 0]
  BY DEF NewTally
<1> HIDE DEF z
<1>3. /\ NewTally(p) \in TallyType /\ NewTally(p).plan = p /\ NewTally(p).earlier = 0
      /\ NewTally(p).eos = z /\ NewTally(p).restarts = z
  BY <1>1, <1>2 DEF TallyType
<1> QED
  BY <1>3 DEF z

(* The least of nothing but zeros.                                            *)
LEMMA LeastZero == Least([s \in Expected |-> 0]) = 0
<1> DEFINE z == [s \in Expected |-> 0]
<1>1. z \in [Expected -> Nat] /\ \A s \in Expected : z[s] = 0
  OBVIOUS
<1> HIDE DEF z
<1>2. \E s \in Expected : z[s] = 0
  BY <1>1, SourcesAssumption
<1>3. Least(z) = 0
  BY <1>1, <1>2, LeastIs
<1> QED
  BY <1>3 DEF z

(* What holds when nothing has been sent or decoded since a Start or a Reset. *)
LEMMA CleanHistory ==
  /\ AllFrags(<< >>) \o << >> = << >>
  /\ Cardinality(Failures(<< >>)) = 0 /\ Cardinality(Ends(<< >>)) = 0
  /\ First(<< >>, Len(<< >>) + 1) = 1 /\ DOMAIN << >> = {}
<1>1. Len(<< >>) + 1 = 1 /\ << >> \o << >> = << >> /\ DOMAIN << >> = {}
  BY ConcatEmptySeq
<1> QED
  BY <1>1, NoFrags, NoCounts

(* The invariant holds at the start.                                          *)
LEMMA InitInv == DecInit => DInv
<1> SUFFICES ASSUME DecInit PROVE DInv
  OBVIOUS
<1>1. /\ core = NewCore(0) /\ sent = << >> /\ decoded = << >> /\ tally = NewTally("closes")
      /\ work = Idle0 /\ dec.fresh = TRUE
  BY DEF DecInit
<1>2. 0 \in Nat /\ "closes" \in Plans /\ FALSE \in BOOLEAN /\ 1 \in Nat
  BY DEF Plans
<1>3. core \in CoreType /\ core.pending = << >> /\ core.awaiting = FALSE
  BY <1>1, <1>2, NewCoreFacts
<1>4. tally \in TallyType /\ tally.eos = [s \in Expected |-> 0]
  BY <1>1, <1>2, NewTallyFacts
<1>5. feed \in [Expected -> FeedType]
  <2>1. NewFeed(FALSE) \in FeedType
    BY <1>2, NewFeedFacts
  <2> QED
    BY <2>1 DEF DecInit
<1>6. /\ work \in WorkType /\ work.pc = "off" /\ work.eosNext = FALSE
  BY <1>1 DEF Idle0, WorkType
<1>7. dec \in DecType
  BY DecoderAssumption DEF DecInit, DecType, States
<1>8. DTypes
  BY <1>1, <1>3, <1>4, <1>5, <1>6, <1>7 DEF DTypes
<1>9. ThreadFits
  BY <1>1, <1>3, <1>6 DEF ThreadFits, Closing
<1>10. Batches
  BY <1>1, <1>3, CleanHistory DEF Batches
<1>11. Closes
  BY <1>1, <1>4, CleanHistory DEF Closes
<1>12. Runs
  BY <1>1, <1>3, CleanHistory DEF Runs
<1>13. Epochs
  BY <1>1 DEF Epochs
<1> QED
  BY <1>8, <1>9, <1>10, <1>11, <1>12, <1>13 DEF DInv

(* What only depends on the core, the feeds and the histories stays with      *)
(* them.                                                                      *)
LEMMA Carried ==
  ASSUME Batches, Closes, Runs, Epochs, UNCHANGED <<core, feed, decoded, sent, tally>>,
         dec'.fresh = dec.fresh
  PROVE  Batches' /\ Closes' /\ Runs' /\ Epochs'
<1>1. Batches'
  BY DEF Batches
<1>2. Closes'
  BY DEF Closes
<1>3. Runs'
  BY DEF Runs, Passed
<1>4. Epochs'
  BY DEF Epochs
<1> QED
  BY <1>1, <1>2, <1>3, <1>4

(* Tick, SendIdle and LeaveLoop: the thread goes on to what it does next.     *)
LEMMA TurnStep ==
  ASSUME DInv, Tick \/ SendIdle \/ LeaveLoop
  PROVE  DInv'
<1>1. /\ DTypes /\ ThreadFits /\ Batches /\ Closes /\ Runs /\ Epochs
      /\ work \in WorkType /\ core \in CoreType
  BY DEF DInv, DTypes
<1>2. /\ UNCHANGED <<dec, core, feed, decoded, sent, tally>> /\ work.pc = "loop"
      /\ \/ /\ work' = [work EXCEPT !.pc = "batch", !.eosNext = FALSE]
            /\ core.pending # << >>
         \/ /\ work' = [work EXCEPT !.pc = "hb"]
            /\ core.pending = << >>
         \/ work' = [work EXCEPT !.pc = IF core.pending = << >> THEN "off" ELSE "last"]
  BY DEF Tick, SendIdle, LeaveLoop
<1>3. work.eosNext = FALSE
  BY <1>1, <1>2 DEF ThreadFits, WorkType
<1>4. /\ work' \in WorkType /\ work'.eosNext = FALSE
      /\ \/ work'.pc \in {"batch", "last"} /\ core.pending # << >>
         \/ work'.pc \in {"hb", "off"} /\ core.pending = << >>
  BY <1>1, <1>2, <1>3 DEF WorkType
<1>5. DTypes'
  BY <1>1, <1>2, <1>4 DEF DTypes
<1>6. ThreadFits'
  BY <1>1, <1>2, <1>4 DEF ThreadFits, Closing
<1>7. Batches' /\ Closes' /\ Runs' /\ Epochs'
  BY <1>1, <1>2, Carried
<1> QED
  BY <1>5, <1>6, <1>7 DEF DInv

(* The commands that start and end no run.                                    *)
Commanded == \/ DecStatus \/ DecConfigure \/ DecArm \/ DecStartFails \/ DecStop \/ DecReset

(* The latch leaves the handler in one of its states.                         *)
LEMMA DecLatchedState == ASSUME DInv PROVE DecLatched \in States
BY DEF DInv, DTypes, DecType, DecLatched, States

(* Such a command moves the state of the handler and the flags of the thread, *)
(* nothing the invariant speaks of.                                           *)
LEMMA CommandedStep ==
  ASSUME DInv, Commanded
  PROVE  DInv'
<1>1. /\ DTypes /\ ThreadFits /\ Batches /\ Closes /\ Runs /\ Epochs
      /\ work \in WorkType /\ dec \in DecType
  BY DEF DInv, DTypes
<1>2. UNCHANGED <<core, feed, decoded, sent, tally>>
  BY DEF Commanded, DecStatus, DecConfigure, DecArm, DecStartFails, DecStop, DecReset, decVars
<1>3. dec' \in DecType /\ dec'.fresh = dec.fresh
  <2>0. DecLatched \in States
    BY DecLatchedState
  <2>1. CASE DecStatus
    BY <1>1, <2>0, <2>1 DEF DecStatus, DecType
  <2>2. CASE DecConfigure
    BY <1>1, <2>2 DEF DecConfigure, DecType, States
  <2>3. CASE DecArm
    BY <1>1, <2>3 DEF DecArm, DecType, States
  <2>4. CASE DecStartFails
    BY <1>1, <2>4 DEF DecStartFails, decVars
  <2>5. CASE DecStop
    BY <1>1, <2>5 DEF DecStop, DecType, States
  <2>6. CASE DecReset
    BY <1>1, <2>0, <2>6 DEF DecReset, DecType
  <2> QED
    BY <2>1, <2>2, <2>3, <2>4, <2>5, <2>6 DEF Commanded
<1>4. work' \in WorkType /\ work'.pc = work.pc /\ work'.eosNext = work.eosNext
  <2>1. \/ work' = work \/ work' = [work EXCEPT !.stop = TRUE]
        \/ work' = [work EXCEPT !.stop = TRUE, !.abandon = TRUE]
    BY DEF Commanded, DecStatus, DecConfigure, DecArm, DecStartFails, DecStop, DecReset, decVars
  <2> QED
    BY <1>1, <2>1 DEF WorkType
<1>5. DTypes'
  BY <1>1, <1>2, <1>3, <1>4 DEF DTypes
<1>6. ThreadFits'
  BY <1>1, <1>2, <1>3, <1>4 DEF ThreadFits, Closing
<1>7. Batches' /\ Closes' /\ Runs' /\ Epochs'
  BY <1>1, <1>2, <1>3, Carried
<1> QED
  BY <1>5, <1>6, <1>7 DEF DInv

(* A source that has not been heard of yet.                                   *)
LEMMA TracksNew ==
  ASSUME NEW u \in FeedType, u.past = FALSE,
         u.idx = (IF u.stale THEN Gate ELSE 0), u.time = (IF u.stale THEN StaleTime ELSE 0)
  PROVE  Tracks(u, NewSource)
<1>1. NewSource.max_event_idx = 0 /\ NewSource.time_floor \in Nat
      /\ NewSource.time_floor >= StaleTime
  BY NewSourceFacts
<1>2. u.stale \in BOOLEAN
  BY DEF FeedType
<1>3. CASE u.stale = TRUE
  BY <1>1, <1>3, DecoderAssumption DEF Tracks
<1>4. CASE u.stale = FALSE
  BY <1>1, <1>4, DecoderAssumption DEF Tracks
<1> QED
  BY <1>2, <1>3, <1>4

(* Start: a new core, new streams and an empty history.                       *)
LEMMA BeginStep ==
  ASSUME DInv, DecStart
  PROVE  DInv'
<1>1. dec \in DecType /\ dec.started \in Nat
  BY DecoderAssumption DEF DInv, DTypes, DecType
<1>2. PICK r \in Nat : r = dec.started + 1
  BY <1>1
<1>3. /\ dec' = [dec EXCEPT !.state = "Running", !.pull = FALSE, !.started = r,
                            !.fresh = FALSE, !.core = TRUE]
      /\ work' = [Idle0 EXCEPT !.pc = "loop"]
      /\ core' = NewCore(r) /\ decoded' = << >> /\ sent' = << >>
      /\ dec.started < MaxStarted
  BY <1>2 DEF DecStart
<1>4. PICK p \in Plans : tally' = NewTally(p)
  BY DEF DecStart
<1>5. tally' \in TallyType /\ tally'.plan = p /\ tally'.earlier = 0
      /\ tally'.eos = [s \in Expected |-> 0] /\ tally'.restarts = [s \in Expected |-> 0]
  BY <1>4, NewTallyFacts
<1>6. feed' \in [Expected -> {[NewFeed(x) EXCEPT !.run = r] : x \in BOOLEAN}]
  <2> DEFINE b == (tally'.plan = "restarts")
             m == dec.started + 1
  <2>1. feed' \in [Expected -> {[NewFeed(x) EXCEPT !.run = m] : x \in {b, FALSE}}]
    BY Zenon DEF DecStart
  <2>2. b \in BOOLEAN /\ m = r
    BY <1>2
  <2> HIDE DEF b, m
  <2>3. {[NewFeed(x) EXCEPT !.run = m] : x \in {b, FALSE}} \subseteq
          {[NewFeed(x) EXCEPT !.run = r] : x \in BOOLEAN}
    BY <2>2
  <2> QED
    BY <2>1, <2>3
<1>7. ASSUME NEW s \in Expected
      PROVE  \E b \in BOOLEAN : feed'[s] = [NewFeed(b) EXCEPT !.run = r]
  BY <1>6
<1>8. ASSUME NEW s \in Expected
      PROVE  /\ feed'[s] \in FeedType /\ feed'[s].run = r /\ feed'[s].seq = 0
             /\ feed'[s].past = FALSE /\ feed'[s].stale \in BOOLEAN
             /\ feed'[s].idx = (IF feed'[s].stale THEN Gate ELSE 0)
             /\ feed'[s].time = (IF feed'[s].stale THEN StaleTime ELSE 0)
  <2>1. PICK b \in BOOLEAN : feed'[s] = [NewFeed(b) EXCEPT !.run = r]
    BY <1>7
  <2> DEFINE u == [NewFeed(b) EXCEPT !.run = r]
  <2>2. /\ u \in FeedType /\ u.run = r /\ u.seq = 0 /\ u.stale = b /\ u.past = FALSE
        /\ u.idx = (IF b THEN Gate ELSE 0) /\ u.time = (IF b THEN StaleTime ELSE 0)
    BY NewFeedFacts
  <2> HIDE DEF u
  <2>3. feed'[s] = u
    BY <2>1 DEF u
  <2> QED
    BY <2>2, <2>3
<1>9. feed' \in [Expected -> FeedType]
  BY <1>6, <1>8
<1>10. /\ core' \in CoreType /\ core'.run = r /\ core'.awaiting = FALSE
       /\ core'.eos = {} /\ core'.pending = << >> /\ core'.out_seq = 0
       /\ core'.source = [s \in Expected |-> NewSource]
       /\ core'.min_epoch = 0 /\ core'.acquisition_restarts = 0
       /\ Lost(core') = 0 /\ core'.errored = FALSE
  <2>1. core'.batches_abandoned = 0 /\ core'.eos_abandoned = 0
    BY <1>3, NewCoreFacts
  <2>2. Lost(core') = 0
    BY <2>1 DEF Lost
  <2> QED
    BY <1>3, <2>2, NewCoreFacts
<1>11. /\ work' \in WorkType /\ work'.pc = "loop" /\ work'.eosNext = FALSE
  BY <1>3 DEF Idle0, WorkType
<1>12. dec' \in DecType /\ dec'.fresh = FALSE
  <2>1. r \in 0 .. MaxStarted
    BY <1>1, <1>2, <1>3, DecoderAssumption
  <2> QED
    BY <1>1, <1>3, <2>1 DEF DecType, States
<1>13. DTypes'
  BY <1>3, <1>5, <1>9, <1>10, <1>11, <1>12 DEF DTypes
<1>14. ThreadFits'
  BY <1>3, <1>10, <1>11, <1>12 DEF ThreadFits, Closing
<1>15. Batches'
  <2>1. /\ AllFrags(sent') \o core'.pending = << >> /\ Cardinality(Failures(sent')) = 0
        /\ First(sent', Len(sent') + 1) = 1 /\ DOMAIN sent' = {} /\ Len(sent') = 0
    BY <1>3, <1>10, CleanHistory
  <2>2. (Lost(core))' = 0
    BY <1>10
  <2> QED
    BY <1>3, <1>10, <1>12, <2>1, <2>2 DEF Batches
<1>16. Closes'
  BY <1>3, <1>5, <1>10, CleanHistory DEF Closes
<1>17. Runs'
  <2>1. DOMAIN sent' = {} /\ DOMAIN core'.pending = {}
    BY <1>3, <1>10, CleanHistory
  <2> QED
    BY <1>10, <2>1 DEF Runs
<1>18. Epochs'
  <2>1. MinOf({tally'.restarts[s] : s \in Expected}) = 0
    BY <1>5, LeastZero DEF Least
  <2>2. ASSUME NEW s \in Expected
        PROVE  /\ core'.source[s] = NewSource /\ core'.source[s].epoch = 0
               /\ tally'.restarts[s] = 0
    BY <1>5, <1>10, NewSourceFacts
  <2>3. ASSUME NEW s \in Expected PROVE Tracks(feed'[s], NewSource)
    BY <1>8, TracksNew
  <2>4. (core.acquisition_restarts = tally.earlier + core.min_epoch)'
    BY <1>5, <1>10
  <2> QED
    BY <1>10, <1>12, <2>1, <2>2, <2>3, <2>4 DEF Epochs
<1> QED
  BY <1>13, <1>14, <1>15, <1>16, <1>17, <1>18 DEF DInv

(* Reset has joined the thread: the core stays, the history is empty.         *)
LEMMA JoinedStep ==
  ASSUME DInv, DecResetJoined
  PROVE  DInv'
<1>1. /\ DTypes /\ ThreadFits /\ dec \in DecType /\ core \in CoreType
  BY DEF DInv, DTypes
<1>2. /\ work.pc = "off" /\ decoded' = << >> /\ sent' = << >> /\ tally' = NewTally("closes")
      /\ dec' = [dec EXCEPT !.joining = FALSE, !.state = "Idle", !.pull = FALSE, !.fresh = TRUE]
      /\ feed' = [s \in Expected |-> NewFeed(FALSE)] /\ UNCHANGED <<work, core>>
  BY DEF DecResetJoined
<1>3. "closes" \in Plans /\ FALSE \in BOOLEAN /\ 1 \in Nat
  BY DEF Plans
<1>4. tally' \in TallyType /\ tally'.eos = [s \in Expected |-> 0]
  BY <1>2, <1>3, NewTallyFacts
<1>5. feed' \in [Expected -> FeedType]
  <2>1. NewFeed(FALSE) \in FeedType
    BY <1>3, NewFeedFacts
  <2> QED
    BY <1>2, <2>1
<1>6. dec' \in DecType /\ dec'.fresh = TRUE
  BY <1>1, <1>2 DEF DecType, States
<1>7. core.pending = << >> /\ work.eosNext = FALSE
  BY <1>1, <1>2 DEF ThreadFits, DTypes, WorkType
<1>8. DTypes'
  <2>1. sent' \in Seq(SentType) /\ decoded' \in Seq(Fragment)
    BY <1>2
  <2>2. work' \in WorkType /\ core' \in CoreType
    BY <1>1, <1>2 DEF DTypes
  <2> QED
    BY <1>4, <1>5, <1>6, <2>1, <2>2 DEF DTypes
<1>9. ThreadFits'
  BY <1>1, <1>2, <1>6, <1>7 DEF ThreadFits, Closing
<1>10. Batches'
  BY <1>2, <1>6, <1>7, CleanHistory DEF Batches
<1>11. Closes'
  BY <1>2, <1>4, <1>6, CleanHistory DEF Closes
<1>12. Runs'
  BY <1>2, <1>6, <1>7, CleanHistory DEF Runs
<1>13. Epochs'
  BY <1>6 DEF Epochs
<1> QED
  BY <1>8, <1>9, <1>10, <1>11, <1>12, <1>13 DEF DInv

(* Only the bounds of the tally have moved.                                   *)
SameTally(t, u) == /\ u \in TallyType /\ u.plan = t.plan /\ u.eos = t.eos
                   /\ u.restarts = t.restarts /\ u.earlier = t.earlier

(* A counted oddity changes nothing else.                                     *)
LEMMA OddTally ==
  ASSUME NEW t \in TallyType, NEW odd \in Nat
  PROVE  SameTally(t, [t EXCEPT !.odd = @ + odd])
<1> DEFINE n == t.odd + odd
<1>1. n \in Nat
  BY DEF TallyType
<1> HIDE DEF n
<1>2. SameTally(t, [t EXCEPT !.odd = n])
  BY <1>1 DEF TallyType, SameTally
<1> QED
  BY <1>2 DEF n

(* A heartbeat says nothing about the run.                                    *)
LEMMA HeartbeatStep ==
  ASSUME DInv, NEW ok \in BOOLEAN, NEW odd \in Nat, Outcome(ok, odd), work.pc = "hb"
  PROVE  DInv'
<1>1. /\ DTypes /\ ThreadFits /\ Batches /\ Closes /\ Runs /\ Epochs
      /\ work \in WorkType /\ tally \in TallyType
  BY DEF DInv, DTypes
<1>2. /\ UNCHANGED <<dec, core, feed, decoded, sent>>
      /\ work' = [work EXCEPT !.pc = "loop", !.eosNext = FALSE]
      /\ tally' = [tally EXCEPT !.odd = @ + odd]
  BY DEF Outcome
<1>3. SameTally(tally, tally')
  BY <1>1, <1>2, OddTally
<1>4. work' \in WorkType /\ work'.pc = "loop" /\ work'.eosNext = FALSE
  BY <1>1, <1>2 DEF WorkType
<1>5. dec.fresh = FALSE
  BY <1>1 DEF ThreadFits, DTypes, DecType
<1>6. DTypes'
  BY <1>1, <1>2, <1>3, <1>4 DEF DTypes, SameTally
<1>7. ThreadFits'
  BY <1>1, <1>2, <1>4, <1>5 DEF ThreadFits, Closing
<1>8. Batches'
  BY <1>1, <1>2 DEF Batches
<1>9. Closes'
  BY <1>1, <1>2, <1>3 DEF Closes, SameTally
<1>10. Runs'
  BY <1>1, <1>2 DEF Runs, Passed
<1>11. Epochs'
  BY <1>1, <1>2, <1>3 DEF Epochs, SameTally
<1> QED
  BY <1>6, <1>7, <1>8, <1>9, <1>10, <1>11 DEF DInv

(* What sending message x does to the history of the batches.                 *)
LEMMA SentBatches ==
  ASSUME DTypes, Batches, dec.fresh = FALSE, dec' = dec, decoded' = decoded,
         NEW x \in SentType, sent' = Append(sent, x), x.frags = core.pending,
         x.seq = core.out_seq, core' \in CoreType, core'.pending = << >>,
         Lost(core') = Lost(core) + (IF x.ok THEN 0 ELSE 1),
         core'.out_seq = IF x.kind = "eos" THEN 0 ELSE core.out_seq + 1
  PROVE  Batches'
<1>1. /\ sent \in Seq(SentType) /\ core.pending \in Seq(Fragment) /\ core.out_seq \in Nat
      /\ x.kind \in {"eos", "data"}
  BY DEF DTypes, CoreType, SentType
<1> DEFINE n == Len(sent)
           e == Append(sent, x)
<1>2. /\ n \in Nat /\ DOMAIN sent = 1 .. n /\ DOMAIN e = 1 .. n + 1 /\ Len(e) = n + 1
      /\ \A j \in 1 .. n : e[j] = sent[j]
      /\ e[n + 1] = x
  BY <1>1, AppendShape
<1>3. AllFrags(e) \o core'.pending = decoded
  <2>1. AllFrags(sent) \in Seq(Fragment) /\ AllFrags(e) = AllFrags(sent) \o core.pending
    BY <1>1, FragsAppend
  <2>2. AllFrags(e) = decoded
    BY <2>1 DEF Batches
  <2>3. decoded \in Seq(Fragment) /\ decoded \o << >> = decoded
    BY ConcatEmptySeq DEF DTypes
  <2> QED
    BY <2>2, <2>3
<1>4. Lost(core') = Cardinality(Failures(e))
  <2>1. /\ Cardinality(Failures(e)) = Cardinality(Failures(sent)) + (IF x.ok THEN 0 ELSE 1)
    BY <1>1, CountsAppend
  <2> QED
    BY <2>1 DEF Batches
<1>5. /\ \A i \in 1 .. n + 1 : First(e, i) = First(sent, i)
      /\ x.kind = "data" => First(e, n + 2) = First(sent, n + 1)
      /\ x.kind = "eos" => First(e, n + 2) = n + 2
  BY <1>1, FirstAppend
<1>6. /\ First(sent, n + 1) \in Nat /\ core.out_seq = (n + 1) - First(sent, n + 1)
      /\ \A i \in 1 .. n : sent[i].kind = "data" => sent[i].seq = i - First(sent, i)
  BY <1>2 DEF Batches
<1> HIDE DEF n, e
<1>7. ASSUME NEW i \in 1 .. n + 1, e[i].kind = "data" PROVE e[i].seq = i - First(e, i)
  <2>1. CASE i = n + 1
    BY <1>2, <1>5, <1>6, <2>1
  <2>2. CASE i # n + 1
    <3>1. i \in 1 .. n
      BY <1>2, <2>2
    <3> QED
      BY <1>2, <1>5, <1>6, <1>7, <3>1
  <2> QED
    BY <2>1, <2>2
<1>8. First(e, n + 2) \in Nat /\ core'.out_seq = (n + 2) - First(e, n + 2)
  <2>1. CASE x.kind = "eos"
    BY <1>2, <1>5, <2>1
  <2>2. CASE x.kind = "data"
    BY <1>2, <1>5, <1>6, <2>2
  <2> QED
    BY <1>1, <2>1, <2>2
<1>9. sent' = e /\ Len(sent') + 1 = n + 2 /\ DOMAIN sent' = 1 .. n + 1
  BY <1>2 DEF e
<1>10. /\ AllFrags(sent') \o core'.pending = decoded' /\ Lost(core') = Cardinality(Failures(sent'))
       /\ \A i \in DOMAIN sent' : sent'[i].kind = "data" => sent'[i].seq = i - First(sent', i)
       /\ First(sent', Len(sent') + 1) \in Nat
       /\ core'.out_seq = (Len(sent') + 1) - First(sent', Len(sent') + 1)
  <2>1. AllFrags(sent') \o core'.pending = decoded' /\ Lost(core') = Cardinality(Failures(sent'))
    BY <1>3, <1>4, <1>9
  <2>2. \A i \in DOMAIN sent' : sent'[i].kind = "data" => sent'[i].seq = i - First(sent', i)
    BY <1>7, <1>9
  <2>3. First(sent', Len(sent') + 1) \in Nat
    BY <1>8, <1>9
  <2>4. core'.out_seq = (Len(sent') + 1) - First(sent', Len(sent') + 1)
    <3> DEFINE l == Len(sent') + 1
    <3>1. l = n + 2
      BY <1>9
    <3> HIDE DEF l
    <3>2. First(sent', l) = First(e, n + 2)
      BY <1>9, <3>1, Zenon
    <3>3. core'.out_seq = l - First(sent', l)
      <4> DEFINE z == First(sent', l)
      <4>1. z \in Nat /\ core'.out_seq = (n + 2) - z
        BY <1>8, <3>2
      <4> HIDE DEF z
      <4>2. core'.out_seq = l - z
        BY <1>2, <3>1, <4>1
      <4> QED
        BY <4>2 DEF z
    <3> QED
      BY <3>3, Zenon DEF l
  <2> QED
    BY <2>1, <2>2, <2>3, <2>4
<1> QED
  BY <1>10, Zenon DEF Batches

(* What sending message x does to the separation of the runs.                 *)
LEMMA SentRuns ==
  ASSUME DTypes, Runs, NEW x \in SentType, sent' = Append(sent, x), x.frags = core.pending,
         x.run = core.run, feed' = feed, dec' = dec,
         core'.pending = << >>, core'.errored = core.errored, core'.run = core.run,
         x.kind = "data" => /\ core.pending # << >> /\ core'.next_seq = core.next_seq
                            /\ core'.eos = core.eos,
         x.kind = "eos" => /\ core'.next_seq = [s \in Expected |-> 0] /\ core'.eos = {}
                           /\ Expected \subseteq core.eos /\ dec.fresh = FALSE
  PROVE  Runs'
<1> SUFFICES ASSUME core'.errored = FALSE PROVE Runs'
  BY DEF Runs
<1>1. core.errored = FALSE /\ x.kind \in {"eos", "data"} /\ sent \in Seq(SentType)
      /\ core \in CoreType /\ feed \in [Expected -> FeedType]
  BY DEF DTypes, SentType
<1> DEFINE n == Len(sent)
           e == Append(sent, x)
<1>2. /\ n \in Nat /\ DOMAIN sent = 1 .. n /\ DOMAIN e = 1 .. n + 1
      /\ \A j \in 1 .. n : e[j] = sent[j]
      /\ e[n + 1] = x
  BY <1>1, AppendShape
<1> HIDE DEF n, e
<1>3. /\ \A k \in DOMAIN core.pending : core.pending[k].run = core.run
      /\ \A i \in 1 .. n : \A k \in DOMAIN sent[i].frags : sent[i].frags[k].run = sent[i].run
      /\ \A i \in 1 .. n : \A j \in 1 .. i - 1 :
           sent[j].kind = "eos" /\ sent[i].kind = "data" => sent[j].run # sent[i].run
      /\ \A j \in 1 .. n : sent[j].kind = "eos" =>
           /\ core.pending # << >> => sent[j].run # core.run
           /\ \A s \in Expected : /\ sent[j].run <= feed[s].run
                                  /\ sent[j].run = feed[s].run => feed[s].seq > core.next_seq[s]
      /\ dec.fresh = FALSE => \A s \in Expected : s \in core.eos => Passed(s)
  BY <1>1, <1>2 DEF Runs
<1>4. ASSUME NEW i \in 1 .. n + 1, NEW k \in DOMAIN e[i].frags
      PROVE  e[i].frags[k].run = e[i].run
  <2>1. CASE i = n + 1
    BY <1>2, <1>3, <1>4, <2>1
  <2>2. CASE i # n + 1
    <3>1. i \in 1 .. n /\ e[i] = sent[i]
      BY <1>2, <2>2
    <3> QED
      BY <1>3, <1>4, <3>1
  <2> QED
    BY <2>1, <2>2
<1>5. ASSUME NEW i \in 1 .. n + 1, NEW j \in 1 .. i - 1, e[j].kind = "eos", e[i].kind = "data"
      PROVE  e[j].run # e[i].run
  <2>0. j \in 1 .. n /\ e[j] = sent[j]
    BY <1>2
  <2>1. CASE i = n + 1
    BY <1>2, <1>3, <1>5, <2>0, <2>1
  <2>2. CASE i # n + 1
    <3>1. i \in 1 .. n /\ e[i] = sent[i]
      BY <1>2, <2>2
    <3> QED
      BY <1>3, <1>5, <2>0, <3>1
  <2> QED
    BY <2>1, <2>2
<1>6. ASSUME NEW j \in 1 .. n + 1, e[j].kind = "eos", NEW s \in Expected
      PROVE  /\ e[j].run <= feed[s].run
             /\ e[j].run = feed[s].run => feed[s].seq > core'.next_seq[s]
  <2>0. feed[s].seq \in Nat /\ feed[s].run \in Nat /\ core.next_seq[s] \in Nat /\ core.run \in Nat
    BY <1>1 DEF FeedType, CoreType
  <2>1. CASE j = n + 1
    <3>1. e[j] = x /\ x.kind = "eos" /\ x.run = core.run
      BY <1>2, <1>6, <2>1
    <3>2. Passed(s) /\ core'.next_seq[s] = 0
      BY <1>3, <3>1
    <3> QED
      BY <2>0, <3>1, <3>2 DEF Passed
  <2>2. CASE j # n + 1
    <3>1. j \in 1 .. n /\ e[j] = sent[j]
      BY <1>2, <2>2
    <3>2. /\ sent[j].run <= feed[s].run
          /\ sent[j].run = feed[s].run => feed[s].seq > core.next_seq[s]
      BY <1>3, <1>6, <3>1
    <3>3. core'.next_seq[s] = core.next_seq[s] \/ core'.next_seq[s] = 0
      BY <1>1
    <3> QED
      BY <2>0, <3>1, <3>2, <3>3
  <2> QED
    BY <2>1, <2>2
<1>7. ASSUME dec'.fresh = FALSE, NEW s \in Expected, s \in core'.eos
      PROVE  Passed(s)'
  BY <1>1, <1>3, <1>7 DEF Passed
<1>8. DOMAIN core'.pending = {} /\ sent' = e /\ DOMAIN sent' = 1 .. n + 1
  BY <1>2, CleanHistory DEF e
<1>9. \A i \in DOMAIN sent' : \A k \in DOMAIN sent'[i].frags :
        sent'[i].frags[k].run = sent'[i].run
  BY <1>4, <1>8
<1>10. \A i \in DOMAIN sent' : \A j \in 1 .. i - 1 :
         sent'[j].kind = "eos" /\ sent'[i].kind = "data" => sent'[j].run # sent'[i].run
  BY <1>5, <1>8
<1>11. \A j \in DOMAIN sent' : sent'[j].kind = "eos" =>
         /\ core'.pending # << >> => sent'[j].run # core'.run
         /\ \A s \in Expected :
              /\ sent'[j].run <= feed'[s].run
              /\ sent'[j].run = feed'[s].run => feed'[s].seq > core'.next_seq[s]
  BY <1>6, <1>8
<1>12. \A k \in DOMAIN core'.pending : core'.pending[k].run = core'.run
  BY <1>8
<1> QED
  BY <1>7, <1>9, <1>10, <1>11, <1>12, Zenon DEF Runs

(* The own EndOfStream, sent or given up: the core waits for the next run.    *)
LEMMA OwnEosStep ==
  ASSUME DInv, NEW ok \in BOOLEAN, NEW odd \in Nat, Outcome(ok, odd), work.pc = "eos"
  PROVE  DInv'
<1>1. /\ DTypes /\ ThreadFits /\ Batches /\ Closes /\ Runs /\ Epochs
      /\ work \in WorkType /\ tally \in TallyType /\ core \in CoreType /\ dec \in DecType
      /\ sent \in Seq(SentType)
  BY DEF DInv, DTypes
<1>2. /\ core.pending = << >> /\ Expected \subseteq core.eos /\ tally.plan = "closes"
      /\ dec.fresh = FALSE
  BY <1>1 DEF ThreadFits, Closing, DecType
<1> DEFINE x == [kind |-> "eos", ok |-> ok, run |-> core.run, seq |-> core.out_seq,
                 frags |-> core.pending]
           t == [tally EXCEPT !.odd = @ + odd]
           z == [s \in Expected |-> 0]
<1>3. /\ UNCHANGED <<dec, feed, decoded>>
      /\ work' = [work EXCEPT !.pc = "loop", !.eosNext = FALSE]
      /\ sent' = Append(sent, x)
      /\ core' = EosDone(core, ok)
      /\ tally' = [t EXCEPT !.restarts = z, !.earlier = @ + Least(t.restarts)]
  BY DEF Outcome, Least
<1>4. x \in SentType /\ x.kind = "eos" /\ x.ok = ok /\ x.run = core.run
      /\ x.seq = core.out_seq /\ x.frags = core.pending
  BY <1>1 DEF CoreType, SentType
<1>5. z \in [Expected -> Nat] /\ \A s \in Expected : z[s] = 0
  OBVIOUS
<1>6. SameTally(tally, t)
  BY <1>1, OddTally
<1> HIDE DEF t, x
<1>7. /\ tally' \in TallyType /\ tally'.plan = "closes" /\ tally'.eos = tally.eos
      /\ tally'.restarts = z /\ tally'.earlier = tally.earlier + Least(tally.restarts)
  <2> DEFINE m == t.earlier + Least(t.restarts)
  <2>1. m \in Nat /\ m = tally.earlier + Least(tally.restarts)
    <3>1. /\ tally.restarts \in [Expected -> Nat] /\ tally.earlier \in Nat
          /\ t.restarts = tally.restarts /\ t.earlier = tally.earlier
      BY <1>1, <1>6 DEF TallyType, SameTally
    <3>2. Least(tally.restarts) \in Nat
      BY <3>1, LeastFacts
    <3> QED
      BY <3>1, <3>2
  <2>2. tally' = [t EXCEPT !.restarts = z, !.earlier = m]
    BY <1>3
  <2> HIDE DEF m, z
  <2>3. t \in TallyType /\ t.plan = "closes" /\ t.eos = tally.eos
    BY <1>2, <1>6 DEF SameTally
  <2> QED
    BY <1>5, <2>1, <2>2, <2>3 DEF TallyType
<1>8. /\ core' \in CoreType /\ core'.run = core.run /\ core'.awaiting = TRUE /\ core'.eos = {}
      /\ core'.pending = << >> /\ core'.out_seq = 0 /\ core'.next_seq = z
      /\ core'.source = [s \in Expected |-> NewSource] /\ core'.min_epoch = 0
      /\ core'.acquisition_restarts = core.acquisition_restarts
      /\ Lost(core') = Lost(core) + (IF ok THEN 0 ELSE 1) /\ core'.errored = core.errored
  BY <1>1, <1>3, EosDoneFacts
<1>9. work' \in WorkType /\ work'.pc = "loop" /\ work'.eosNext = FALSE
  BY <1>1, <1>3 DEF WorkType
<1> HIDE DEF z
<1>10. sent' \in Seq(SentType)
  BY <1>1, <1>3, <1>4
<1>11. DTypes'
  BY <1>1, <1>3, <1>7, <1>8, <1>9, <1>10 DEF DTypes
<1>12. ThreadFits'
  BY <1>2, <1>3, <1>8, <1>9 DEF ThreadFits, Closing
<1>13. Batches'
  BY <1>1, <1>2, <1>3, <1>4, <1>8, SentBatches
<1>14. Closes'
  <2>1. Cardinality(Ends(sent')) = Cardinality(Ends(sent)) + 1 /\ Cardinality(Ends(sent)) \in Nat
    BY <1>1, <1>3, <1>4, CountsAppend, CountsFinite
  <2>2. ASSUME NEW s \in Expected PROVE tally'.eos[s] >= Cardinality(Ends(sent'))
    BY <1>1, <1>2, <1>7, <2>1 DEF Closes
  <2> QED
    BY <1>8, <2>2 DEF Closes
<1>15. Runs'
  BY <1>1, <1>2, <1>3, <1>4, <1>8, SentRuns DEF z
<1>16. Epochs'
  <2>1. ASSUME NEW s \in Expected PROVE core'.source[s].epoch = tally'.restarts[s]
    BY <1>5, <1>7, <1>8, NewSourceFacts
  <2>2. Least(z) = 0
    BY LeastZero DEF z
  <2>3. core'.min_epoch = MinOf({tally'.restarts[s] : s \in Expected})
    BY <1>7, <1>8, <2>2 DEF Least
  <2>4. core.acquisition_restarts = tally.earlier + Least(tally.restarts)
    BY <1>1, <1>2 DEF Epochs, Least
  <2>5. (core.acquisition_restarts = tally.earlier + core.min_epoch)'
    <3>1. Least(tally.restarts) \in Nat /\ tally.earlier \in Nat
      BY <1>1, LeastFacts DEF TallyType
    <3> QED
      BY <1>7, <1>8, <2>4, <3>1
  <2>6. tally'.plan # "restarts"
    BY <1>7
  <2> QED
    BY <2>1, <2>3, <2>5, <2>6, Zenon DEF Epochs
<1> QED
  BY <1>11, <1>12, <1>13, <1>14, <1>15, <1>16 DEF DInv

(* A batch, sent or given up: the next one has the next number.               *)
LEMMA OwnBatchStep ==
  ASSUME DInv, NEW ok \in BOOLEAN, NEW odd \in Nat, Outcome(ok, odd),
         work.pc \in {"batch", "last"}
  PROVE  DInv'
<1>1. /\ DTypes /\ ThreadFits /\ Batches /\ Closes /\ Runs /\ Epochs
      /\ work \in WorkType /\ tally \in TallyType /\ core \in CoreType /\ dec \in DecType
      /\ sent \in Seq(SentType)
  BY DEF DInv, DTypes
<1>2. /\ core.pending # << >> /\ dec.fresh = FALSE /\ core.awaiting = FALSE
      /\ work.eosNext = TRUE => /\ Expected \subseteq core.eos /\ tally.plan = "closes"
                                /\ work.pc = "batch"
  BY <1>1 DEF ThreadFits, Closing, DecType, CoreType
<1> DEFINE x == [kind |-> "data", ok |-> ok, run |-> core.run, seq |-> core.out_seq,
                 frags |-> core.pending]
           p == CASE work.pc = "last" -> "off"
                  [] work.pc = "batch" /\ work.eosNext -> "eos"
                  [] OTHER -> "loop"
<1>3. /\ UNCHANGED <<dec, feed, decoded>>
      /\ work' = [work EXCEPT !.pc = p, !.eosNext = FALSE]
      /\ sent' = Append(sent, x)
      /\ core' = IF ok THEN BatchSent(core) ELSE BatchAbandoned(core)
      /\ tally' = [tally EXCEPT !.odd = @ + odd]
  BY DEF Outcome
<1>4. x \in SentType /\ x.kind = "data" /\ x.ok = ok /\ x.run = core.run
      /\ x.seq = core.out_seq /\ x.frags = core.pending
  BY <1>1 DEF CoreType, SentType
<1>5. SameTally(tally, tally')
  BY <1>1, <1>3, OddTally
<1>6. p \in {"off", "eos", "loop"} /\ (p = "eos" => work.eosNext = TRUE)
  BY <1>1 DEF WorkType
<1> HIDE DEF x, p
<1>7. /\ core' \in CoreType /\ core'.run = core.run /\ core'.awaiting = core.awaiting
      /\ core'.eos = core.eos /\ core'.pending = << >> /\ core'.out_seq = core.out_seq + 1
      /\ core'.next_seq = core.next_seq /\ SameEpochs(core, core')
      /\ Lost(core') = Lost(core) + (IF ok THEN 0 ELSE 1) /\ core'.errored = core.errored
  BY <1>1, <1>3, BatchDoneFacts
<1>8. work' \in WorkType /\ work'.pc = p /\ work'.eosNext = FALSE
  BY <1>1, <1>3, <1>6 DEF WorkType
<1>9. sent' \in Seq(SentType)
  BY <1>1, <1>3, <1>4
<1>10. DTypes'
  BY <1>1, <1>3, <1>5, <1>7, <1>8, <1>9 DEF DTypes, SameTally
<1>11. ThreadFits'
  BY <1>2, <1>3, <1>5, <1>6, <1>7, <1>8 DEF ThreadFits, Closing, SameTally
<1>12. Batches'
  BY <1>1, <1>2, <1>3, <1>4, <1>7, SentBatches
<1>13. Closes'
  <2>1. Cardinality(Ends(sent')) = Cardinality(Ends(sent)) /\ Cardinality(Ends(sent)) \in Nat
    BY <1>1, <1>3, <1>4, CountsAppend, CountsFinite
  <2> QED
    BY <1>1, <1>2, <1>3, <1>5, <1>7, <2>1 DEF Closes, SameTally
<1>14. Runs'
  BY <1>1, <1>2, <1>3, <1>4, <1>7, SentRuns
<1>15. Epochs'
  BY <1>1, <1>2, <1>3, <1>5, <1>7 DEF Epochs, SameTally, SameEpochs
<1> QED
  BY <1>10, <1>11, <1>12, <1>13, <1>14, <1>15 DEF DInv

(* Every send.                                                                *)
LEMMA SendStep ==
  ASSUME DInv, SendOk \/ SendAbandon \/ SendFails
  PROVE  DInv'
<1>1. Sending /\ \E ok \in BOOLEAN, odd \in Nat : Outcome(ok, odd)
  BY DEF SendOk, SendAbandon, SendFails
<1>2. PICK ok \in BOOLEAN, odd \in Nat : Outcome(ok, odd)
  BY <1>1
<1>3. CASE work.pc = "hb"
  BY <1>2, <1>3, HeartbeatStep
<1>4. CASE work.pc = "eos"
  BY <1>2, <1>4, OwnEosStep
<1>5. CASE work.pc \in {"batch", "last"}
  BY <1>2, <1>5, OwnBatchStep
<1> QED
  BY <1>1, <1>3, <1>4, <1>5 DEF Sending

(* What the thread does after a message that left the core as c.              *)
LEMMA AfterFacts ==
  ASSUME work \in WorkType, NEW c \in CoreType, NEW full \in {"data", "eos"},
         AfterMessage(c, full)
  PROVE  /\ work' \in WorkType /\ work'.pc \in {"batch", "eos", "loop"}
         /\ work'.pc = "batch" => c.pending # << >>
         /\ work'.pc = "eos" => c.pending = << >> /\ work'.eosNext = TRUE
         /\ work'.eosNext = TRUE => /\ work'.pc \in {"batch", "eos"}
                                    /\ full = "eos" /\ Expected \subseteq c.eos
<1> DEFINE closes == (full = "eos" /\ Expected \subseteq c.eos)
<1>1. PICK due \in BOOLEAN :
        /\ due => c.pending # << >> /\ Slow
        /\ work' = [work EXCEPT
             !.pc = IF c.pending # << >> /\ (closes \/ due \/ Len(c.pending) >= BatchFragments)
                    THEN "batch" ELSE IF closes THEN "eos" ELSE "loop",
             !.eosNext = closes]
  BY DEF AfterMessage
<1>2. closes \in BOOLEAN /\ (closes => full = "eos" /\ Expected \subseteq c.eos)
  OBVIOUS
<1> DEFINE long == (Len(c.pending) >= BatchFragments)
           p == IF c.pending # << >> /\ (closes \/ due \/ long)
                THEN "batch" ELSE IF closes THEN "eos" ELSE "loop"
<1>3. work' = [work EXCEPT !.pc = p, !.eosNext = closes]
  BY <1>1
<1> HIDE DEF closes, long
<1>4. /\ p \in {"batch", "eos", "loop"} /\ (p = "batch" => c.pending # << >>)
      /\ (p = "eos" => c.pending = << >> /\ closes)
      /\ (closes => p \in {"batch", "eos"})
  OBVIOUS
<1> HIDE DEF p
<1>5. work' \in WorkType /\ work'.pc = p /\ work'.eosNext = closes
  BY <1>2, <1>3, <1>4 DEF WorkType
<1> QED
  BY <1>2, <1>4, <1>5

(* The tally after a message: one more, and what else it counts.              *)
LEMMA MessageTally ==
  ASSUME NEW t \in TallyType, NEW a \in Nat, NEW b \in Nat
  PROVE  SameTally(t, [t EXCEPT !.msgs = a, !.odd = b])
BY DEF TallyType, SameTally

(* The EndOfStream of a source that is not expected closes nothing.           *)
LEMMA StrayStep ==
  ASSUME DInv, ReceiveStray
  PROVE  DInv'
<1>1. /\ DTypes /\ ThreadFits /\ Batches /\ Closes /\ Runs /\ Epochs
      /\ work \in WorkType /\ tally \in TallyType /\ core \in CoreType /\ dec \in DecType
  BY DEF DInv, DTypes
<1>2. /\ UNCHANGED <<dec, feed, decoded, sent>> /\ work.pc = "loop"
      /\ core' = DecodeEos(core, Stray, core.run) /\ AfterMessage(core', "data")
      /\ tally' = [tally EXCEPT !.msgs = @ + 1, !.odd = @ + 1]
  BY DEF ReceiveStray, Receiving
<1>3. dec.fresh = FALSE /\ core.run \in Nat
  BY <1>1, <1>2 DEF ThreadFits, DecType, CoreType
<1>4. /\ core' \in CoreType /\ core'.awaiting = FALSE /\ core'.eos = core.eos \cup {Stray}
      /\ core'.pending = core.pending /\ core'.next_seq = core.next_seq
      /\ SameEpochs(core, core') /\ SameOut(core, core')
      /\ core.errored = TRUE => core'.errored = TRUE
      /\ core.awaiting = FALSE => core'.run = core.run
      /\ core'.errored = FALSE => core'.run = core.run
  <2>1. Stray \in Expected \cup {Stray}
    OBVIOUS
  <2> DEFINE d == DecodeEos(core, Stray, core.run)
  <2>2. core \in CoreType /\ core.run \in Nat
    BY <1>1, <1>3
  <2>3. /\ d \in CoreType /\ d.awaiting = FALSE /\ d.eos = core.eos \cup {Stray}
        /\ d.pending = core.pending /\ d.next_seq = core.next_seq
        /\ SameEpochs(core, d) /\ SameOut(core, d)
        /\ core.errored = TRUE => d.errored = TRUE
        /\ core.awaiting = FALSE => d.run = core.run
        /\ d.errored = FALSE => d.run = core.run
    BY ONLY <2>1, <2>2, EosFacts, Zenon
  <2>4. core' = d
    BY <1>2
  <2> HIDE DEF d
  <2> QED
    BY ONLY <2>3, <2>4
<1>5. SameTally(tally, tally')
  <2> DEFINE a == tally.msgs + 1
             b == tally.odd + 1
  <2>1. a \in Nat /\ b \in Nat
    BY <1>1 DEF TallyType
  <2>2. tally' = [tally EXCEPT !.msgs = a, !.odd = b]
    BY <1>2
  <2> HIDE DEF a, b
  <2> QED
    BY <1>1, <2>1, <2>2, MessageTally
<1>6. /\ work' \in WorkType /\ work'.pc \in {"batch", "eos", "loop"}
      /\ work'.pc = "batch" => core'.pending # << >>
      /\ work'.pc = "eos" => core'.pending = << >> /\ work'.eosNext = TRUE
      /\ work'.eosNext = FALSE
  BY <1>1, <1>2, <1>4, AfterFacts DEF WorkType
<1>7. DTypes'
  BY <1>1, <1>2, <1>4, <1>5, <1>6 DEF DTypes, SameTally
<1>8. ThreadFits'
  BY <1>2, <1>3, <1>4, <1>6 DEF ThreadFits, Closing
<1>9. Batches'
  <2>1. Lost(core') = Lost(core) /\ core'.out_seq = core.out_seq
    BY <1>4 DEF Lost, SameOut
  <2> QED
    BY <1>1, <1>2, <1>4, <2>1 DEF Batches
<1>10. Closes'
  <2>1. ASSUME NEW s \in Expected PROVE s \in core'.eos => s \in core.eos
    BY <1>4, SourcesAssumption
  <2> QED
    BY <1>1, <1>2, <1>5, <2>1 DEF Closes, SameTally
<1>11. Runs'
  <2>1. ASSUME NEW s \in Expected PROVE s \in core'.eos => s \in core.eos
    BY <1>4, SourcesAssumption
  <2>2. core'.errored = FALSE => core.errored = FALSE
    BY <1>1, <1>4 DEF CoreType
  <2> QED
    BY <1>1, <1>2, <1>4, <2>1, <2>2 DEF Runs, Passed
<1>12. Epochs'
  BY <1>1, <1>2, <1>4, <1>5 DEF Epochs, SameTally, SameEpochs
<1> QED
  BY <1>7, <1>8, <1>9, <1>10, <1>11, <1>12 DEF DInv

(* The tally after the EndOfStream of source s.                               *)
LEMMA EosTally ==
  ASSUME NEW t \in TallyType, NEW s \in Expected, NEW b \in Nat
  PROVE  LET u == [t EXCEPT !.msgs = @ + 1, !.odd = b, !.eos[s] = @ + 1]
         IN  /\ u \in TallyType /\ u.plan = t.plan /\ u.restarts = t.restarts
             /\ u.earlier = t.earlier /\ u.eos = [t.eos EXCEPT ![s] = t.eos[s] + 1]
<1> DEFINE a == t.msgs + 1
           e == [t.eos EXCEPT ![s] = t.eos[s] + 1]
           u == [t EXCEPT !.msgs = @ + 1, !.odd = b, !.eos[s] = @ + 1]
<1>1. a \in Nat /\ t.eos \in [Expected -> Nat] /\ t.eos[s] + 1 \in Nat
  BY DEF TallyType
<1>2. e \in [Expected -> Nat]
  BY <1>1
<1>3. u = [t EXCEPT !.msgs = a, !.odd = b, !.eos = e]
  OBVIOUS
<1> HIDE DEF a, e
<1>4. /\ u \in TallyType /\ u.plan = t.plan /\ u.restarts = t.restarts
      /\ u.earlier = t.earlier /\ u.eos = e
  BY <1>1, <1>2, <1>3 DEF TallyType
<1> QED
  BY <1>4 DEF e

(* The feed of a source whose connection has ended.                           *)
LEMMA FeedAfterEos ==
  ASSUME feed \in [Expected -> FeedType], NEW s \in Expected, NEW on \in BOOLEAN,
         feed' = [feed EXCEPT ![s] = IF on THEN @
                                     ELSE [NewFeed(FALSE) EXCEPT !.run = feed[s].run + 1]]
  PROVE  /\ feed' \in [Expected -> FeedType]
         /\ \A t \in Expected \ {s} : feed'[t] = feed[t]
         /\ on => feed'[s] = feed[s]
         /\ ~on => feed'[s].run = feed[s].run + 1
<1> DEFINE m == feed[s].run + 1
           v == [NewFeed(FALSE) EXCEPT !.run = m]
<1>1. feed[s] \in FeedType /\ m \in Nat /\ FALSE \in BOOLEAN
  BY DEF FeedType
<1> HIDE DEF m
<1>2. v \in FeedType /\ v.run = m
  BY <1>1, NewFeedFacts
<1>3. feed' = [feed EXCEPT ![s] = IF on THEN feed[s] ELSE v]
  BY DEF m
<1> HIDE DEF v
<1> QED
  BY <1>1, <1>2, <1>3 DEF m

(* The EndOfStream of source s of its run: without an error the run of the    *)
(* core is that run from now on.                                              *)
LEMMA EosRuns ==
  ASSUME DTypes, ThreadFits, Runs, NEW s \in Expected, NEW on \in BOOLEAN,
         dec' = dec, sent' = sent, dec.fresh = FALSE,
         core' \in CoreType, core'.eos = core.eos \cup {s}, core'.pending = core.pending,
         core'.next_seq = core.next_seq, core.errored = TRUE => core'.errored = TRUE,
         core.awaiting = FALSE => core'.run = core.run,
         core'.errored = FALSE => core'.run = feed[s].run,
         feed' \in [Expected -> FeedType], \A t \in Expected \ {s} : feed'[t] = feed[t],
         on => feed'[s] = feed[s] /\ feed[s].seq > 0, ~on => feed'[s].run = feed[s].run + 1
  PROVE  Runs'
<1> SUFFICES ASSUME core'.errored = FALSE PROVE Runs'
  BY DEF Runs
<1>1. /\ core \in CoreType /\ core.errored = FALSE /\ core'.run = feed[s].run
      /\ feed \in [Expected -> FeedType] /\ sent \in Seq(SentType)
  BY DEF DTypes, CoreType
<1>2. /\ core.awaiting = TRUE /\ core.pending = << >> /\ core.eos = {}
      \/ core'.run = core.run
  BY <1>1 DEF ThreadFits, CoreType
<1>3. ASSUME NEW t \in Expected
      PROVE  /\ feed[t].run \in Nat /\ feed'[t].run \in Nat /\ feed'[t].run >= feed[t].run
             /\ feed'[t] = feed[t] \/ feed'[t].run > feed[t].run
  <2>1. feed[t] \in FeedType /\ feed'[t] \in FeedType
    BY <1>1
  <2>2. feed'[t] = feed[t] \/ (t = s /\ feed'[t].run = feed[t].run + 1)
    OBVIOUS
  <2> QED
    BY <2>1, <2>2 DEF FeedType
<1>4. /\ \A k \in DOMAIN core.pending : core.pending[k].run = core.run
      /\ \A i \in DOMAIN sent : \A k \in DOMAIN sent[i].frags :
           sent[i].frags[k].run = sent[i].run
      /\ \A i \in DOMAIN sent : \A j \in 1 .. i - 1 :
           sent[j].kind = "eos" /\ sent[i].kind = "data" => sent[j].run # sent[i].run
      /\ \A j \in DOMAIN sent : sent[j].kind = "eos" =>
           /\ core.pending # << >> => sent[j].run # core.run
           /\ \A t \in Expected : /\ sent[j].run <= feed[t].run
                                  /\ sent[j].run = feed[t].run => feed[t].seq > core.next_seq[t]
      /\ \A t \in Expected : t \in core.eos => Passed(t)
  BY <1>1 DEF Runs
<1>5. \A k \in DOMAIN core'.pending : core'.pending[k].run = core'.run
  BY <1>2, <1>4, CleanHistory
<1>6. ASSUME NEW j \in DOMAIN sent, sent[j].kind = "eos", NEW t \in Expected
      PROVE  /\ sent[j].run <= feed'[t].run
             /\ sent[j].run = feed'[t].run => feed'[t].seq > core'.next_seq[t]
  <2>1. sent[j].run \in Nat
    <3>1. sent[j] \in SentType
      BY <1>1
    <3> QED
      BY <3>1 DEF SentType
  <2>2. /\ sent[j].run <= feed[t].run
        /\ sent[j].run = feed[t].run => feed[t].seq > core.next_seq[t]
    BY <1>4, <1>6
  <2> QED
    BY <1>3, <2>1, <2>2
<1>7. ASSUME NEW j \in DOMAIN sent, sent[j].kind = "eos", core'.pending # << >>
      PROVE  sent[j].run # core'.run
  BY <1>2, <1>4, <1>7
<1>8. ASSUME NEW t \in Expected, t \in core'.eos PROVE Passed(t)'
  <2>1. CASE t = s
    <3>1. feed'[s].run >= core'.run /\ (feed'[s].run = core'.run => feed'[s].seq > 0)
      BY <1>1, <1>3
    <3> QED
      BY <2>1, <3>1 DEF Passed
  <2>2. CASE t # s
    <3>1. t \in core.eos /\ feed'[t] = feed[t]
      BY <1>8, <2>2
    <3>2. core'.run = core.run /\ Passed(t)
      BY <1>2, <1>4, <3>1
    <3> QED
      BY <3>1, <3>2 DEF Passed
  <2> QED
    BY <2>1, <2>2
<1>9. \A j \in DOMAIN sent' : sent'[j].kind = "eos" =>
        /\ core'.pending # << >> => sent'[j].run # core'.run
        /\ \A t \in Expected :
             /\ sent'[j].run <= feed'[t].run
             /\ sent'[j].run = feed'[t].run => feed'[t].seq > core'.next_seq[t]
  BY <1>6, <1>7
<1>10. /\ \A i \in DOMAIN sent' : \A k \in DOMAIN sent'[i].frags :
            sent'[i].frags[k].run = sent'[i].run
       /\ \A i \in DOMAIN sent' : \A j \in 1 .. i - 1 :
            sent'[j].kind = "eos" /\ sent'[i].kind = "data" => sent'[j].run # sent'[i].run
  BY <1>4
<1> QED
  BY <1>5, <1>8, <1>9, <1>10, Zenon DEF Runs

(* The EndOfStream of an expected source.                                     *)
LEMMA EosStep ==
  ASSUME DInv, ReceiveEos
  PROVE  DInv'
<1>1. /\ DTypes /\ ThreadFits /\ Batches /\ Closes /\ Runs /\ Epochs
      /\ work \in WorkType /\ tally \in TallyType /\ core \in CoreType /\ dec \in DecType
      /\ feed \in [Expected -> FeedType] /\ sent \in Seq(SentType)
  BY DEF DInv, DTypes
<1>2. PICK s \in Expected, on \in BOOLEAN :
        /\ on => feed[s].seq > 0 /\ tally.odd < MaxOddities
        /\ core' = DecodeEos(core, s, feed[s].run)
        /\ AfterMessage(core', "eos")
        /\ feed' = [feed EXCEPT ![s] = IF on THEN @
                                       ELSE [NewFeed(FALSE) EXCEPT !.run = feed[s].run + 1]]
        /\ tally' = [tally EXCEPT !.msgs = @ + 1, !.odd = IF on THEN @ + 1 ELSE @,
                                  !.eos[s] = @ + 1]
  BY Zenon DEF ReceiveEos
<1>3. /\ UNCHANGED <<dec, decoded, sent>> /\ work.pc = "loop" /\ tally.plan = "closes"
  BY DEF ReceiveEos, Receiving
<1>4. dec.fresh = FALSE /\ feed[s].run \in Nat
  BY <1>1, <1>3 DEF ThreadFits, DecType, FeedType
<1>5. /\ core' \in CoreType /\ core'.awaiting = FALSE /\ core'.eos = core.eos \cup {s}
      /\ core'.pending = core.pending /\ core'.next_seq = core.next_seq
      /\ SameEpochs(core, core') /\ SameOut(core, core')
      /\ core.errored = TRUE => core'.errored = TRUE
      /\ core.awaiting = FALSE => core'.run = core.run
      /\ core'.errored = FALSE => core'.run = feed[s].run
  <2>1. s \in Expected \cup {Stray}
    OBVIOUS
  <2> DEFINE d == DecodeEos(core, s, feed[s].run)
  <2>2. core \in CoreType /\ feed[s].run \in Nat
    BY <1>1, <1>4
  <2>3. /\ d \in CoreType /\ d.awaiting = FALSE /\ d.eos = core.eos \cup {s}
        /\ d.pending = core.pending /\ d.next_seq = core.next_seq
        /\ SameEpochs(core, d) /\ SameOut(core, d)
        /\ core.errored = TRUE => d.errored = TRUE
        /\ core.awaiting = FALSE => d.run = core.run
        /\ d.errored = FALSE => d.run = feed[s].run
    BY ONLY <2>1, <2>2, EosFacts, Zenon
  <2>4. core' = d
    BY <1>2
  <2> HIDE DEF d
  <2> QED
    BY ONLY <2>3, <2>4
<1>6. /\ tally' \in TallyType /\ tally'.plan = "closes" /\ tally'.restarts = tally.restarts
      /\ tally'.earlier = tally.earlier
      /\ tally'.eos = [tally.eos EXCEPT ![s] = tally.eos[s] + 1]
  <2> DEFINE b == IF on THEN tally.odd + 1 ELSE tally.odd
  <2>1. b \in Nat
    BY <1>1 DEF TallyType
  <2>2. tally' = [tally EXCEPT !.msgs = @ + 1, !.odd = b, !.eos[s] = @ + 1]
    BY <1>2
  <2> HIDE DEF b
  <2> DEFINE u == [tally EXCEPT !.msgs = @ + 1, !.odd = b, !.eos[s] = @ + 1]
  <2>3. /\ u \in TallyType /\ u.plan = tally.plan /\ u.restarts = tally.restarts
        /\ u.earlier = tally.earlier /\ u.eos = [tally.eos EXCEPT ![s] = tally.eos[s] + 1]
    <3>1. tally \in TallyType
      BY <1>1
    <3> QED
      BY ONLY <2>1, <3>1, EosTally, ZenonT(40)
  <2>4. tally' = u
    BY <2>2
  <2> HIDE DEF u
  <2> QED
    BY ONLY <1>3, <2>3, <2>4
<1>7. /\ feed' \in [Expected -> FeedType]
      /\ \A t \in Expected \ {s} : feed'[t] = feed[t]
      /\ on => feed'[s] = feed[s]
      /\ ~on => feed'[s].run = feed[s].run + 1
  BY <1>1, <1>2, FeedAfterEos
<1>8. /\ work' \in WorkType /\ work'.pc \in {"batch", "eos", "loop"}
      /\ work'.pc = "batch" => core'.pending # << >>
      /\ work'.pc = "eos" => core'.pending = << >> /\ work'.eosNext = TRUE
      /\ work'.eosNext = TRUE => /\ work'.pc \in {"batch", "eos"}
                                 /\ Expected \subseteq core'.eos
  BY <1>1, <1>2, <1>5, AfterFacts
<1>9. DTypes'
  BY <1>1, <1>3, <1>5, <1>6, <1>7, <1>8 DEF DTypes
<1>10. ThreadFits'
  BY <1>3, <1>4, <1>5, <1>6, <1>8 DEF ThreadFits, Closing
<1>11. Batches'
  <2>1. Lost(core') = Lost(core) /\ core'.out_seq = core.out_seq
    BY <1>5 DEF Lost, SameOut
  <2> QED
    BY <1>1, <1>3, <1>5, <2>1 DEF Batches
<1>12. Closes'
  <2> DEFINE n == Cardinality(Ends(sent))
  <2>1. n \in Nat /\ Cardinality(Ends(sent')) = n
    BY <1>1, <1>3, CountsFinite
  <2>2. tally.eos \in [Expected -> Nat]
    BY <1>1 DEF TallyType
  <2>3. \A t \in Expected : tally.eos[t] >= n /\ (t \in core.eos => tally.eos[t] >= n + 1)
    BY <1>1, <1>4 DEF Closes
  <2> HIDE DEF n
  <2>4. ASSUME NEW t \in Expected
        PROVE  tally'.eos[t] >= n /\ (t \in core'.eos => tally'.eos[t] >= n + 1)
    <3>1. CASE t = s
      <4>1. tally'.eos[t] = tally.eos[t] + 1 /\ tally.eos[t] \in Nat
        BY <1>6, <2>2, <3>1
      <4> QED
        BY <2>1, <2>3, <4>1
    <3>2. CASE t # s
      <4>1. tally'.eos[t] = tally.eos[t] /\ (t \in core'.eos => t \in core.eos)
        BY <1>5, <1>6, <2>2, <3>2
      <4> QED
        BY <2>3, <4>1
    <3> QED
      BY <3>1, <3>2
  <2> QED
    BY <2>1, <2>4 DEF Closes
<1>13. Runs'
  BY <1>1, <1>2, <1>3, <1>4, <1>5, <1>7, EosRuns
<1>14. Epochs'
  BY <1>1, <1>3, <1>4, <1>5, <1>6 DEF Epochs, SameEpochs
<1> QED
  BY <1>9, <1>10, <1>11, <1>12, <1>13, <1>14 DEF DInv

(* The shapes of the next event of a source.                                  *)
Shapes == {"next", "behind", "restart"}

(* The event the next frame of u carries: in the shape "behind" it is of the  *)
(* AsAd that is one event behind.                                             *)
EventOf(u, shape) ==
  IF shape = "behind" /\ u.idx > 0 THEN [idx |-> u.idx - 1, time |-> u.time - 1]
  ELSE [idx |-> NextEvent(u, shape).idx, time |-> NextEvent(u, shape).time]

(* The feed after an event of a shape.                                        *)
LEMMA NextFacts ==
  ASSUME NEW u \in FeedType, NEW shape \in Shapes
  PROVE  LET v == NextEvent(u, shape)
         IN  /\ v \in FeedType /\ v.run = u.run
             /\ shape = "next" => /\ v.idx = u.idx + 1 /\ v.time = u.time + 1
                                  /\ v.stale = u.stale
                                  /\ v.past = (u.past \/ u.idx >= Gate)
             /\ shape = "behind" => v = u
             /\ shape = "restart" => v.idx = 0 /\ v.time = 0 /\ v.stale = FALSE
<1>1. CASE shape = "next"
  <2> DEFINE a == u.idx + 1
             b == u.time + 1
             c == (u.past \/ u.idx >= Gate)
             v == [u EXCEPT !.idx = a, !.time = b, !.past = c]
  <2>1. a \in Nat /\ b \in Nat /\ c \in BOOLEAN
    BY DEF FeedType
  <2>2. NextEvent(u, shape) = v
    BY <1>1 DEF NextEvent
  <2> HIDE DEF a, b, c
  <2>3. v \in FeedType /\ v.run = u.run /\ v.idx = a /\ v.time = b /\ v.stale = u.stale
        /\ v.past = c
    BY <2>1 DEF FeedType
  <2> HIDE DEF v
  <2> QED
    BY <1>1, <2>2, <2>3 DEF a, b, c
<1>2. CASE shape = "behind"
  BY <1>2 DEF NextEvent
<1>3. CASE shape = "restart"
  <2> DEFINE v == [u EXCEPT !.idx = 0, !.time = 0, !.stale = FALSE, !.past = FALSE]
  <2>1. NextEvent(u, shape) = v
    BY <1>3 DEF NextEvent
  <2>2. v \in FeedType /\ v.run = u.run /\ v.idx = 0 /\ v.time = 0 /\ v.stale = FALSE
    BY DEF FeedType
  <2> HIDE DEF v
  <2> QED
    BY <1>3, <2>1, <2>2
<1> QED
  BY <1>1, <1>2, <1>3 DEF Shapes

(* The index and the clock value of the next event.                           *)
LEMMA EventFacts ==
  ASSUME NEW u \in FeedType, NEW shape \in Shapes
  PROVE  LET ev == EventOf(u, shape)
         IN  /\ ev \in EventType
             /\ shape = "next" => ev.idx = u.idx + 1 /\ ev.time = u.time + 1
             /\ shape = "behind" /\ u.idx > 0 => ev.idx = u.idx - 1 /\ ev.time = u.time - 1
             /\ shape = "behind" /\ u.idx = 0 => ev.idx = 0 /\ ev.time = u.time
             /\ shape = "restart" => ev.idx = 0 /\ ev.time = 0
<1> DEFINE v == NextEvent(u, shape)
<1>1. /\ v \in FeedType
      /\ shape = "next" => v.idx = u.idx + 1 /\ v.time = u.time + 1
      /\ shape = "behind" => v = u
      /\ shape = "restart" => v.idx = 0 /\ v.time = 0
  BY ONLY NextFacts, u \in FeedType, shape \in Shapes
<1>2. EventOf(u, shape) = IF shape = "behind" /\ u.idx > 0
                          THEN [idx |-> u.idx - 1, time |-> u.time - 1]
                          ELSE [idx |-> v.idx, time |-> v.time]
  BY DEF EventOf
<1> HIDE DEF v
<1>3. u.idx \in Nat /\ u.time \in Nat /\ v.idx \in Nat /\ v.time \in Nat
  BY <1>1 DEF FeedType
<1> QED
  BY <1>1, <1>2, <1>3 DEF Shapes, EventType

(* What event ev makes of e, the clock and the indices of its source.         *)
Told(e, d, ev) ==
  /\ Restarted(e, ev) => d.max_event_idx = 0 /\ d.time_floor = ev.time
  /\ ~Restarted(e, ev) =>
       /\ d.max_event_idx = IF ev.idx > e.max_event_idx THEN ev.idx ELSE e.max_event_idx
       /\ d.time_floor = IF ev.time < e.time_floor THEN ev.time ELSE e.time_floor

(* w is v but for its number.                                                 *)
SameButSeq(v, w) == /\ w.run = v.run /\ w.idx = v.idx /\ w.time = v.time
                    /\ w.stale = v.stale /\ w.past = v.past

(* A source leaves a stale acquisition in which it was past the gate.         *)
Leaves(u, shape) == shape = "restart" /\ u.stale = TRUE /\ u.past = TRUE

(* A core is told of a new acquisition exactly when a source leaves a stale   *)
(* one in which it was past the gate, and keeps track of it.                  *)
LEMMA TracksStep ==
  ASSUME NEW u \in FeedType, NEW e \in SourceType, NEW shape \in Shapes, Tracks(u, e),
         shape = "restart" => u.idx > 0,
         NEW w \in FeedType, SameButSeq(NextEvent(u, shape), w),
         NEW d \in SourceType, Told(e, d, EventOf(u, shape))
  PROVE  Tracks(w, d) /\ (Restarted(e, EventOf(u, shape)) <=> Leaves(u, shape))
<1> DEFINE ev == EventOf(u, shape)
<1>0. /\ ev \in EventType
      /\ Restarted(e, ev) => d.max_event_idx = 0 /\ d.time_floor = ev.time
      /\ ~Restarted(e, ev) =>
           /\ d.max_event_idx = IF ev.idx > e.max_event_idx THEN ev.idx ELSE e.max_event_idx
           /\ d.time_floor = IF ev.time < e.time_floor THEN ev.time ELSE e.time_floor
  <2>1. ev \in EventType
    BY ONLY EventFacts, u \in FeedType, shape \in Shapes, Zenon
  <2> QED
    BY <2>1 DEF Told
<1> DEFINE v == NextEvent(u, shape)
<1>1. /\ v \in FeedType
      /\ shape = "next" => /\ v.idx = u.idx + 1 /\ v.time = u.time + 1
                           /\ v.stale = u.stale
                           /\ v.past = (u.past \/ u.idx >= Gate)
      /\ shape = "behind" => v = u
      /\ shape = "restart" => v.idx = 0 /\ v.time = 0 /\ v.stale = FALSE
  BY ONLY NextFacts, u \in FeedType, shape \in Shapes
<1>2. /\ shape = "next" => ev.idx = u.idx + 1 /\ ev.time = u.time + 1
      /\ shape = "behind" /\ u.idx > 0 => ev.idx = u.idx - 1 /\ ev.time = u.time - 1
      /\ shape = "behind" /\ u.idx = 0 => ev.idx = 0 /\ ev.time = u.time
      /\ shape = "restart" => ev.idx = 0 /\ ev.time = 0
  BY ONLY EventFacts, u \in FeedType, shape \in Shapes, Zenon
<1>3. w.idx = v.idx /\ w.time = v.time /\ w.stale = v.stale /\ w.past = v.past
  BY DEF SameButSeq
<1> HIDE DEF v, ev
<1>4. /\ u.idx \in Nat /\ u.time \in Nat /\ u.stale \in BOOLEAN /\ u.past \in BOOLEAN
      /\ e.max_event_idx \in Nat /\ e.time_floor \in Int /\ ev.idx \in Nat /\ ev.time \in Int
  BY <1>0 DEF FeedType, SourceType, EventType
<1>5. /\ Gate \in Nat /\ Gap \in Nat /\ Gap >= 1 /\ StaleTime \in Nat /\ StaleTime > Gap + 1
  BY DecoderAssumption
<1> DEFINE R == Restarted(e, ev)
<1>6. R <=> ev.idx = 0 /\ e.max_event_idx > Gate /\ ev.time + Gap < e.time_floor
  BY DEF Restarted
<1>7. CASE u.stale = TRUE
  <2>1. /\ u.time >= StaleTime /\ e.time_floor >= StaleTime - 1
        /\ u.past = TRUE <=> e.max_event_idx > Gate
        /\ u.idx > Gate => u.past = TRUE
        /\ e.max_event_idx > Gate => e.time_floor <= u.time
    BY <1>7 DEF Tracks
  <2>2. CASE shape = "next"
    <3>1. ~R
      BY <1>2, <1>4, <1>6, <2>2
    <3>2. /\ w.idx = u.idx + 1 /\ w.time = u.time + 1
          /\ w.past = TRUE <=> (u.past = TRUE \/ u.idx >= Gate)
      <4>1. w.past = (u.past \/ u.idx >= Gate)
        BY <1>1, <1>3, <2>2
      <4> QED
        BY <1>1, <1>3, <1>4, <2>2, <4>1
    <3>3. /\ d.max_event_idx = IF u.idx + 1 > e.max_event_idx THEN u.idx + 1 ELSE e.max_event_idx
          /\ d.time_floor = IF u.time + 1 < e.time_floor THEN u.time + 1 ELSE e.time_floor
      BY <1>0, <1>2, <2>2, <3>1
    <3>4. /\ w.time >= StaleTime /\ d.time_floor >= StaleTime - 1
          /\ w.past = TRUE <=> d.max_event_idx > Gate
          /\ w.idx > Gate => w.past = TRUE
          /\ d.max_event_idx > Gate => d.time_floor <= w.time
      BY ONLY <1>4, <1>5, <2>1, <3>2, <3>3
    <3>5. w.stale = TRUE
      BY <1>1, <1>3, <1>7, <2>2
    <3> QED
      BY <2>2, <3>1, <3>4, <3>5 DEF Tracks, Leaves, ev
  <2>3. CASE shape = "behind"
    <3>1. ~R
      BY <1>2, <1>4, <1>5, <1>6, <2>1, <2>3
    <3>2. /\ w.time >= StaleTime /\ d.time_floor >= StaleTime - 1
          /\ w.past = TRUE <=> d.max_event_idx > Gate
          /\ w.idx > Gate => w.past = TRUE
          /\ d.max_event_idx > Gate => d.time_floor <= w.time
      BY <1>0, <1>1, <1>2, <1>3, <1>4, <1>5, <2>1, <2>3, <3>1
    <3>3. w.stale = TRUE
      BY <1>1, <1>3, <1>7, <2>3
    <3> QED
      BY <2>3, <3>1, <3>2, <3>3 DEF Tracks, Leaves, ev
  <2>4. CASE shape = "restart"
    <3>1. R <=> u.past = TRUE
      BY <1>2, <1>4, <1>5, <1>6, <2>1, <2>4
    <3>2. w.time = w.idx /\ w.stale = FALSE /\ d.time_floor <= 1
      BY <1>0, <1>1, <1>2, <1>3, <1>4, <1>5, <2>1, <2>4
    <3> QED
      BY <1>7, <2>4, <3>1, <3>2 DEF Tracks, Leaves, ev
  <2> QED
    BY <2>2, <2>3, <2>4 DEF Shapes
<1>8. CASE u.stale = FALSE
  <2>1. /\ u.time = u.idx
        /\ e.time_floor <= 1 \/ (u.idx = 0 /\ e.max_event_idx = 0)
    BY <1>8 DEF Tracks
  <2>2. ~R
    BY <1>2, <1>4, <1>5, <1>6, <2>1 DEF Shapes
  <2>3. w.stale = FALSE /\ w.time = w.idx
    BY <1>1, <1>3, <1>4, <1>8, <2>1 DEF Shapes
  <2>4. d.time_floor <= 1
    BY <1>0, <1>2, <1>4, <2>1, <2>2 DEF Shapes
  <2> QED
    BY <1>8, <2>2, <2>3, <2>4 DEF Tracks, Leaves, ev
<1> QED
  BY <1>4, <1>7, <1>8 DEF ev

(* The epochs and restarts c counts are those of f and n.                     *)
EpochsFit(c, f, n) ==
  /\ \A t \in Expected : c.source[t].epoch = f[t]
  /\ c.min_epoch = Least(f) /\ c.acquisition_restarts = n + c.min_epoch

(* The epochs of the core after an event, against the restarts of the feed.   *)
LEMMA EpochsStep ==
  ASSUME NEW c \in CoreType, NEW d \in CoreType, NEW s \in Expected, NEW ev,
         NEW f \in [Expected -> Nat], NEW g \in [Expected -> Nat], NEW n \in Nat,
         Tracked(c, d, s, ev), EpochsFit(c, f, n),
         Restarted(c.source[s], ev) => g = [f EXCEPT ![s] = f[s] + 1],
         ~Restarted(c.source[s], ev) => g = f
  PROVE  EpochsFit(d, g, n)
<1> USE DEF EpochsFit
<1> DEFINE R == Restarted(c.source[s], ev)
<1>1. /\ \A t \in Expected \ {s} : d.source[t] = c.source[t]
      /\ R => /\ d.source[s].epoch = c.source[s].epoch + 1
              /\ IF Least(EpochsOf(d)) > c.min_epoch
                 THEN /\ d.min_epoch = Least(EpochsOf(d))
                      /\ d.acquisition_restarts = c.acquisition_restarts + 1
                 ELSE /\ d.min_epoch = c.min_epoch
                      /\ d.acquisition_restarts = c.acquisition_restarts
      /\ ~R => /\ d.source[s].epoch = c.source[s].epoch
               /\ d.min_epoch = c.min_epoch
               /\ d.acquisition_restarts = c.acquisition_restarts
  BY DEF Tracked
<1>2. R => g = [f EXCEPT ![s] = f[s] + 1]
  OBVIOUS
<1>3. ~R => g = f
  OBVIOUS
<1> HIDE DEF R
<1>4. ASSUME NEW t \in Expected PROVE d.source[t].epoch = g[t]
  <2>1. CASE t = s
    BY <1>1, <1>2, <1>3, <2>1
  <2>2. CASE t # s
    BY <1>1, <1>2, <1>3, <2>2
  <2> QED
    BY <2>1, <2>2
<1>5. CASE ~R
  BY <1>1, <1>3, <1>4, <1>5
<1>6. CASE R
  <2>1. EpochsOf(d) = g
    BY <1>4 DEF EpochsOf
  <2>2. Least(g) = Least(f) \/ Least(g) = Least(f) + 1
    BY <1>2, <1>6, LeastGrows
  <2>3. Least(f) \in Nat /\ Least(g) \in Nat
    BY LeastFacts
  <2>4. /\ d.min_epoch = Least(g)
        /\ d.acquisition_restarts = n + d.min_epoch
    <3>1. CASE Least(g) = Least(f) + 1
      BY <1>1, <1>6, <2>1, <2>3, <3>1
    <3>2. CASE Least(g) = Least(f)
      BY <1>1, <1>6, <2>1, <2>3, <3>2
    <3> QED
      BY <2>2, <3>1, <3>2
  <2> QED
    BY <1>4, <2>4
<1> QED
  BY <1>5, <1>6

(* A fragment more, pending and decoded.                                      *)
LEMMA AppendToBoth ==
  ASSUME NEW a \in Seq(Fragment), NEW p \in Seq(Fragment), NEW f \in Fragment
  PROVE  a \o Append(p, f) = Append(a \o p, f)
<1>1. <<f>> \in Seq(Fragment) /\ a \o p \in Seq(Fragment)
  BY ConcatProperties
<1>2. Append(p, f) = p \o <<f>> /\ Append(a \o p, f) = (a \o p) \o <<f>>
  BY <1>1, AppendIsConcat
<1> QED
  BY <1>1, <1>2, ConcatAssociative

(* The core and the feed of s after data with number q, of which fragment f   *)
(* was decoded or nothing.                                                    *)
DataTaken(s, q, f) ==
  /\ core' \in CoreType /\ core'.eos = core.eos
  /\ core'.pending = core.pending \/ core'.pending = Append(core.pending, f)
  /\ core'.next_seq = [core.next_seq EXCEPT ![s] = q + 1]
  /\ core.errored = TRUE => core'.errored = TRUE
  /\ core.awaiting = FALSE => core'.run = core.run
  /\ core'.errored = FALSE => core'.run = feed[s].run /\ q = core.next_seq[s]
  /\ feed' \in [Expected -> FeedType] /\ \A t \in Expected \ {s} : feed'[t] = feed[t]
  /\ feed'[s].run = feed[s].run /\ feed'[s].seq = q + 1

(* Data of source s of run r: without an error it is the number the core      *)
(* waited for, so that the run of the source has not been closed.             *)
LEMMA DataRuns ==
  ASSUME DTypes, ThreadFits, Runs, NEW s \in Expected, NEW q \in Nat, q >= feed[s].seq,
         NEW f \in Fragment, f.run = feed[s].run, dec' = dec, sent' = sent,
         dec.fresh = FALSE, DataTaken(s, q, f)
  PROVE  Runs'
<1> USE DEF DataTaken
<1> SUFFICES ASSUME core'.errored = FALSE PROVE Runs'
  BY DEF Runs
<1>1. /\ core \in CoreType /\ core.errored = FALSE /\ core'.run = feed[s].run
      /\ q = core.next_seq[s]
      /\ feed \in [Expected -> FeedType] /\ sent \in Seq(SentType)
      /\ core.pending \in Seq(Fragment)
  BY DEF DTypes, CoreType
<1>2. /\ core.awaiting = TRUE /\ core.pending = << >> /\ core.eos = {}
      \/ core'.run = core.run
  BY <1>1 DEF ThreadFits, CoreType
<1>3. feed[s].seq \in Nat /\ feed[s].run \in Nat
  BY <1>1 DEF FeedType
<1>4. /\ \A k \in DOMAIN core.pending : core.pending[k].run = core.run
      /\ \A i \in DOMAIN sent : \A k \in DOMAIN sent[i].frags :
           sent[i].frags[k].run = sent[i].run
      /\ \A i \in DOMAIN sent : \A j \in 1 .. i - 1 :
           sent[j].kind = "eos" /\ sent[i].kind = "data" => sent[j].run # sent[i].run
      /\ \A j \in DOMAIN sent : sent[j].kind = "eos" =>
           \A t \in Expected : /\ sent[j].run <= feed[t].run
                               /\ sent[j].run = feed[t].run => feed[t].seq > core.next_seq[t]
      /\ \A t \in Expected : t \in core.eos => Passed(t)
  BY <1>1 DEF Runs
<1>5. \A k \in DOMAIN core'.pending : core'.pending[k].run = core'.run
  <2>1. \A k \in DOMAIN core.pending : core.pending[k].run = core'.run
    BY <1>2, <1>4, CleanHistory
  <2>2. CASE core'.pending = core.pending
    BY <2>1, <2>2
  <2>3. CASE core'.pending = Append(core.pending, f)
    <3> DEFINE o == core.pending
               e == Append(o, f)
               m == Len(o)
    <3>1. /\ m \in Nat /\ DOMAIN o = 1 .. m /\ DOMAIN e = 1 .. m + 1
          /\ \A j \in 1 .. m : e[j] = o[j]
          /\ e[m + 1] = f
      BY <1>1, AppendShape
    <3>2. \A k \in DOMAIN o : o[k].run = core'.run
      BY <2>1
    <3> HIDE DEF o, e, m
    <3>3. ASSUME NEW k \in 1 .. m + 1 PROVE e[k].run = core'.run
      <4>1. k \in 1 .. m \/ k = m + 1
        BY <3>1
      <4> QED
        BY <1>1, <3>1, <3>2, <4>1
    <3>4. core'.pending = e
      BY <2>3 DEF e, o
    <3> QED
      BY <3>1, <3>3, <3>4
  <2> QED
    BY <2>2, <2>3
<1>6. ASSUME NEW j \in DOMAIN sent, sent[j].kind = "eos"
      PROVE  sent[j].run \in Nat /\ sent[j].run < feed[s].run
  <2>1. sent[j].run \in Nat
    <3>1. sent[j] \in SentType
      BY <1>1
    <3> QED
      BY <3>1 DEF SentType
  <2>2. /\ sent[j].run <= feed[s].run
        /\ sent[j].run = feed[s].run => feed[s].seq > core.next_seq[s]
    BY <1>4, <1>6
  <2> QED
    BY <1>1, <1>3, <2>1, <2>2
<1>7. ASSUME NEW j \in DOMAIN sent, sent[j].kind = "eos", NEW t \in Expected
      PROVE  /\ sent[j].run <= feed'[t].run
             /\ sent[j].run = feed'[t].run => feed'[t].seq > core'.next_seq[t]
  <2>1. CASE t = s
    BY <1>3, <1>6, <1>7, <2>1
  <2>2. CASE t # s
    <3>1. feed'[t] = feed[t] /\ core'.next_seq[t] = core.next_seq[t]
      BY <1>1, <2>2 DEF CoreType
    <3> QED
      BY <1>4, <1>7, <3>1
  <2> QED
    BY <2>1, <2>2
<1>8. ASSUME NEW t \in Expected, t \in core'.eos PROVE Passed(t)'
  <2>1. core'.run = core.run /\ Passed(t)
    BY <1>2, <1>4, <1>8
  <2>2. CASE t = s
    <3>1. feed'[s].run = feed[s].run /\ feed'[s].seq > 0
      BY <1>3
    <3> QED
      BY <2>1, <2>2, <3>1 DEF Passed
  <2>3. CASE t # s
    BY <2>1, <2>3 DEF Passed
  <2> QED
    BY <2>2, <2>3
<1>9. \A j \in DOMAIN sent' : sent'[j].kind = "eos" =>
        /\ core'.pending # << >> => sent'[j].run # core'.run
        /\ \A t \in Expected :
             /\ sent'[j].run <= feed'[t].run
             /\ sent'[j].run = feed'[t].run => feed'[t].seq > core'.next_seq[t]
  <2>1. ASSUME NEW j \in DOMAIN sent, sent[j].kind = "eos" PROVE sent[j].run # core'.run
    BY <1>1, <1>3, <1>6, <2>1
  <2> QED
    BY <1>7, <2>1
<1>10. /\ \A i \in DOMAIN sent' : \A k \in DOMAIN sent'[i].frags :
            sent'[i].frags[k].run = sent'[i].run
       /\ \A i \in DOMAIN sent' : \A j \in 1 .. i - 1 :
            sent'[j].kind = "eos" /\ sent'[i].kind = "data" => sent'[j].run # sent'[i].run
  BY <1>4
<1> QED
  BY <1>5, <1>8, <1>9, <1>10, Zenon DEF Runs

(* A batch of one frame from an expected source.                              *)
LEMMA DataStep ==
  ASSUME DInv, ReceiveData
  PROVE  DInv'
<1>1. /\ DTypes /\ ThreadFits /\ Batches /\ Closes /\ Runs /\ Epochs
      /\ work \in WorkType /\ tally \in TallyType /\ core \in CoreType /\ dec \in DecType
      /\ feed \in [Expected -> FeedType] /\ sent \in Seq(SentType) /\ decoded \in Seq(Fragment)
  BY DEF DInv, DTypes
<1>2. PICK s \in Expected, shape \in {"next", "behind", "restart"},
        kind \in {"fragment", "malformed", "control"}, skip \in {0, 1} :
          LET u == feed[s]
              v == NextEvent(u, shape)
              f == [src |-> s, run |-> u.run, n |-> Len(decoded) + 1]
              ev == IF shape = "behind" /\ u.idx > 0
                    THEN [idx |-> u.idx - 1, time |-> u.time - 1]
                    ELSE [idx |-> v.idx, time |-> v.time]
              odd == skip + IF kind = "fragment" THEN 0 ELSE 1
              c == DecodeBatch(core, s, u.run, u.seq + skip, kind, f, ev)
          IN  /\ kind # "fragment" => shape = "behind"
              /\ shape = "restart" => u.idx > 0
              /\ IF tally.plan = "restarts" THEN kind = "fragment" /\ skip = 0
                 ELSE shape = "next" \/ kind # "fragment"
              /\ tally.odd + odd <= MaxOddities
              /\ core' = c
              /\ AfterMessage(c, "data")
              /\ feed' = [feed EXCEPT ![s] = [v EXCEPT !.seq = u.seq + skip + 1]]
              /\ decoded' = IF kind = "fragment" THEN Append(decoded, f) ELSE decoded
              /\ tally' = [tally EXCEPT !.msgs = @ + 1, !.odd = @ + odd,
                             !.restarts[s] = IF shape = "restart" /\ u.stale /\ u.past
                                             THEN @ + 1 ELSE @]
  BY Zenon DEF ReceiveData
<1>0. shape \in Shapes /\ kind \in Kinds
  BY DEF Shapes, Kinds
<1>3. UNCHANGED <<dec, sent>> /\ work.pc = "loop"
  BY DEF ReceiveData, Receiving
<1> DEFINE u == feed[s]
           v == NextEvent(u, shape)
           q == u.seq + skip
           w == [v EXCEPT !.seq = q + 1]
           f == [src |-> s, run |-> u.run, n |-> Len(decoded) + 1]
           ev == EventOf(u, shape)
           odd == skip + IF kind = "fragment" THEN 0 ELSE 1
           b == (shape = "restart" /\ u.stale /\ u.past)
           c == DecodeBatch(core, s, u.run, q, kind, f, ev)
<1>4. /\ kind # "fragment" => shape = "behind"
      /\ shape = "restart" => u.idx > 0
      /\ tally.plan = "restarts" => kind = "fragment"
      /\ tally.plan # "restarts" => shape = "next" \/ kind # "fragment"
      /\ core' = c /\ AfterMessage(c, "data")
      /\ feed' = [feed EXCEPT ![s] = w]
      /\ decoded' = IF kind = "fragment" THEN Append(decoded, f) ELSE decoded
      /\ tally' = [tally EXCEPT !.msgs = @ + 1, !.odd = @ + odd,
                                !.restarts[s] = IF b THEN @ + 1 ELSE @]
  BY <1>2 DEF EventOf
<1>5. dec.fresh = FALSE
  BY <1>1, <1>3 DEF ThreadFits, DecType
<1>6. /\ u \in FeedType /\ u.run \in Nat /\ u.seq \in Nat /\ q \in Nat /\ q + 1 \in Nat
      /\ u.stale \in BOOLEAN /\ u.past \in BOOLEAN /\ odd \in Nat
      /\ b \in BOOLEAN /\ (b <=> shape = "restart" /\ u.stale = TRUE /\ u.past = TRUE)
      /\ f \in Fragment /\ f.src = s /\ f.run = u.run
  <2>1. u \in FeedType
    BY <1>1
  <2>2. Len(decoded) + 1 \in Nat
    BY <1>1, LenProperties
  <2>3. f \in Fragment /\ f.src = s /\ f.run = u.run
    BY <2>1, <2>2 DEF Fragment, FeedType
  <2> QED
    BY <2>1, <2>3 DEF FeedType
<1>7. ev \in EventType /\ (shape = "next" => ev.idx = u.idx + 1)
  BY ONLY <1>6, EventFacts, <1>0, Zenon
<1>8. /\ v \in FeedType /\ v.run = u.run
  BY ONLY <1>6, NextFacts, <1>0, Zenon
<1>9. /\ w \in FeedType /\ w.run = u.run /\ w.seq = q + 1 /\ w.idx = v.idx /\ w.time = v.time
      /\ w.stale = v.stale /\ w.past = v.past
  <2> DEFINE m == q + 1
  <2>1. m \in Nat
    BY <1>6
  <2> HIDE DEF m, v, u, q
  <2>2. LET x == [v EXCEPT !.seq = m]
        IN  /\ x \in FeedType /\ x.run = v.run /\ x.seq = m /\ x.idx = v.idx
            /\ x.time = v.time /\ x.stale = v.stale /\ x.past = v.past
    BY <1>8, <2>1 DEF FeedType
  <2> QED
    BY <1>8, <2>2 DEF m
<1>10. /\ c \in CoreType /\ c.awaiting = FALSE /\ c.eos = core.eos
       /\ c.next_seq = [core.next_seq EXCEPT ![s] = q + 1] /\ SameOut(core, c)
       /\ core.errored = TRUE => c.errored = TRUE
       /\ c.pending = IF kind = "fragment" THEN Append(core.pending, f) ELSE core.pending
       /\ IF kind = "fragment" THEN Tracked(core, c, s, ev) ELSE SameEpochs(core, c)
       /\ core.awaiting = FALSE => c.run = core.run
       /\ c.errored = FALSE => c.run = u.run /\ q = core.next_seq[s]
  BY ONLY <1>1, <1>6, <1>7, BatchFacts, s \in Expected, <1>0, Zenon
<1>11. /\ tally' \in TallyType /\ tally'.plan = tally.plan /\ tally'.eos = tally.eos
       /\ tally'.earlier = tally.earlier
       /\ b => tally'.restarts = [tally.restarts EXCEPT ![s] = tally.restarts[s] + 1]
       /\ ~b => tally'.restarts = tally.restarts
  <2> DEFINE m == tally.msgs + 1
             n == tally.odd + odd
             r == tally.restarts
             g == [r EXCEPT ![s] = IF b THEN r[s] + 1 ELSE r[s]]
             x == [tally EXCEPT !.msgs = m, !.odd = n, !.restarts = g]
  <2>1. r \in [Expected -> Nat] /\ r[s] \in Nat /\ r[s] + 1 \in Nat /\ m \in Nat /\ n \in Nat
    <3>1. odd \in Nat /\ tally \in TallyType /\ s \in Expected
      BY <1>1, <1>6
    <3>2. r \in [Expected -> Nat] /\ tally.msgs \in Nat /\ tally.odd \in Nat
      BY ONLY <3>1 DEF TallyType
    <3> QED
      BY ONLY <3>1, <3>2
  <2>2. tally' = x
    <3>1. tally' = [tally EXCEPT !.msgs = @ + 1, !.odd = @ + odd,
                                 !.restarts[s] = IF b THEN @ + 1 ELSE @]
      BY <1>4, Zenon
    <3> QED
      BY ONLY <3>1, SMTT(30)
  <2> HIDE DEF b, odd, m, n, r
  <2>3. /\ g \in [Expected -> Nat] /\ (b => g = [r EXCEPT ![s] = r[s] + 1])
        /\ ~b => g = r
    BY <1>6, <2>1
  <2> HIDE DEF g
  <2>4. /\ x \in TallyType /\ x.plan = tally.plan /\ x.eos = tally.eos
        /\ x.earlier = tally.earlier /\ x.restarts = g
    BY <1>1, <2>1, <2>3 DEF TallyType
  <2> HIDE DEF x
  <2> QED
    BY <2>2, <2>3, <2>4 DEF r
<1> HIDE DEF c, b, odd, ev, f, w
<1>12. /\ work' \in WorkType /\ work'.pc \in {"batch", "eos", "loop"}
       /\ work'.pc = "batch" => core'.pending # << >>
       /\ work'.pc # "eos" /\ work'.eosNext = FALSE
  <2>1. /\ work' \in WorkType /\ work'.pc \in {"batch", "eos", "loop"}
        /\ work'.pc = "batch" => c.pending # << >>
        /\ work'.pc = "eos" => work'.eosNext = TRUE
        /\ ~(work'.eosNext = TRUE)
    BY <1>1, <1>4, <1>10, AfterFacts
  <2> QED
    BY <1>4, <2>1 DEF WorkType
<1>13. /\ feed' \in [Expected -> FeedType] /\ feed'[s] = w
       /\ \A t \in Expected \ {s} : feed'[t] = feed[t]
  BY <1>1, <1>4, <1>9
<1>14. DTypes'
  <2>1. decoded' \in Seq(Fragment)
    BY <1>1, <1>4, <1>6
  <2> QED
    BY <1>1, <1>3, <1>4, <1>10, <1>11, <1>12, <1>13, <2>1 DEF DTypes
<1>15. ThreadFits'
  BY <1>3, <1>4, <1>5, <1>10, <1>12 DEF ThreadFits, Closing
<1>16. Batches'
  <2>1. Lost(core') = Lost(core) /\ core'.out_seq = core.out_seq
    BY <1>4, <1>10 DEF Lost, SameOut
  <2>2. AllFrags(sent) \o core'.pending = decoded'
    <3>1. AllFrags(sent) \o core.pending = decoded /\ core.pending \in Seq(Fragment)
      BY <1>1 DEF Batches, CoreType
    <3>2. CASE kind = "fragment"
      <4>1. AllFrags(sent) \in Seq(Fragment)
        <5>1. [kind |-> "eos", ok |-> TRUE, run |-> 0, seq |-> 0, frags |-> << >>] \in SentType
          BY DEF SentType
        <5> QED
          BY <1>1, <5>1, FragsAppend
      <4>2. AllFrags(sent) \o Append(core.pending, f) = Append(decoded, f)
        BY <1>6, <3>1, <4>1, AppendToBoth
      <4> QED
        BY <1>4, <1>10, <3>2, <4>2
    <3>3. CASE kind # "fragment"
      BY <1>4, <1>10, <3>1, <3>3
    <3> QED
      BY <3>2, <3>3
  <2> QED
    BY <1>1, <1>3, <2>1, <2>2 DEF Batches
<1>17. Closes'
  BY <1>1, <1>3, <1>4, <1>10, <1>11 DEF Closes
<1>18. Runs'
  <2>1. PICK k \in Nat : k = q
    BY <1>6
  <2>2. PICK g \in Fragment : g = f
    BY <1>6
  <2>3. DataTaken(s, k, g)
    <3>1. feed'[s].run = feed[s].run /\ feed'[s].seq = k + 1
      BY <1>9, <1>13, <2>1
    <3> QED
      BY <1>4, <1>10, <1>13, <2>1, <2>2, <3>1 DEF DataTaken
  <2>4. k >= feed[s].seq /\ g.run = feed[s].run
    BY <1>6, <2>1, <2>2
  <2> QED
    BY <1>1, <1>3, <1>5, <2>3, <2>4, DataRuns
<1>19. Epochs'
  <2> DEFINE g == tally'.restarts
             old == tally.restarts
  <2>1. /\ EpochsFit(core, old, tally.earlier)
        /\ tally.plan = "restarts" => \A t \in Expected : Tracks(feed[t], core.source[t])
        /\ core.source \in [Expected -> SourceType] /\ c.source \in [Expected -> SourceType]
        /\ old \in [Expected -> Nat] /\ g \in [Expected -> Nat]
        /\ tally.earlier \in Nat
    BY <1>1, <1>5, <1>10, <1>11 DEF Epochs, Least, CoreType, TallyType, EpochsFit
  <2>2. ASSUME EpochsFit(c, g, tally.earlier),
               tally.plan = "restarts" => \A t \in Expected : Tracks(feed'[t], c.source[t])
        PROVE  Epochs'
    <3>1. core' = c /\ tally'.earlier = tally.earlier /\ tally'.plan = tally.plan
      BY <1>4, <1>11
    <3>2. /\ \A t \in Expected : core'.source[t].epoch = tally'.restarts[t]
          /\ core'.min_epoch = MinOf({tally'.restarts[t] : t \in Expected})
          /\ core'.acquisition_restarts = tally'.earlier + core'.min_epoch
          /\ tally'.plan = "restarts" =>
               \A t \in Expected : Tracks(feed'[t], core'.source[t])
      BY <2>2, <3>1, Zenon DEF Least, EpochsFit
    <3> QED
      BY <3>2, Zenon DEF Epochs
  <2>3. CASE kind # "fragment"
    <3>1. SameEpochs(core, c) /\ g = old /\ tally.plan # "restarts"
      BY <1>4, <1>6, <1>10, <1>11, <2>3
    <3>2. EpochsFit(c, g, tally.earlier)
      BY <2>1, <3>1 DEF EpochsFit, SameEpochs
    <3> QED
      BY <2>2, <3>1, <3>2
  <2>4. CASE kind = "fragment"
    <3> DEFINE e == core.source[s]
    <3>1. /\ Tracked(core, c, s, ev) /\ e \in SourceType /\ c.source[s] \in SourceType
          /\ e.max_event_idx \in Nat /\ ev = EventOf(u, shape)
      BY <1>10, <2>1, <2>4 DEF SourceType, ev
    <3>2. /\ Restarted(e, ev) <=> b
          /\ tally.plan = "restarts" => Tracks(w, c.source[s])
      <4>1. CASE tally.plan = "restarts"
        <5>1. /\ Tracks(u, e) /\ Told(e, c.source[s], EventOf(u, shape))
              /\ SameButSeq(NextEvent(u, shape), w)
          BY <1>8, <1>9, <2>1, <3>1, <4>1 DEF Tracked, Told, SameButSeq
        <5>2. u \in FeedType /\ w \in FeedType /\ (shape = "restart" => u.idx > 0)
          BY <1>4, <1>6, <1>9
        <5> HIDE DEF e, u
        <5>3. Tracks(w, c.source[s]) /\ (Restarted(e, EventOf(u, shape)) <=> Leaves(u, shape))
          BY ONLY <1>0, <3>1, <5>1, <5>2, TracksStep, Zenon
        <5> QED
          BY <1>6, <3>1, <5>3 DEF Leaves
      <4>2. CASE tally.plan # "restarts"
        <5>1. shape = "next" /\ ev.idx = u.idx + 1 /\ u.idx \in Nat
          BY <1>4, <1>6, <1>7, <2>4, <4>2 DEF FeedType
        <5>2. ~Restarted(e, ev) /\ ~b
          BY <1>6, <5>1 DEF Restarted
        <5> QED
          BY <4>2, <5>2
      <4> QED
        BY <4>1, <4>2
    <3>3. /\ Restarted(core.source[s], ev) => g = [old EXCEPT ![s] = old[s] + 1]
          /\ ~Restarted(core.source[s], ev) => g = old
      BY <1>11, <3>2
    <3>4. EpochsFit(c, g, tally.earlier)
      <4> HIDE DEF g, old
      <4>1. core \in CoreType /\ c \in CoreType
        BY <1>1, <1>10
      <4> QED
        BY ONLY <2>1, <3>1, <3>3, <4>1, EpochsStep, s \in Expected, Zenon
    <3>5. ASSUME tally.plan = "restarts", NEW t \in Expected
          PROVE  Tracks(feed'[t], c.source[t])
      <4>1. CASE t = s
        BY <1>13, <3>2, <3>5, <4>1
      <4>2. CASE t # s
        <5>1. feed'[t] = feed[t] /\ c.source[t] = core.source[t]
          BY <1>13, <3>1, <4>2 DEF Tracked
        <5> QED
          BY <2>1, <3>5, <5>1
      <4> QED
        BY <4>1, <4>2
    <3> QED
      BY <2>2, <3>4, <3>5
  <2> QED
    BY <2>3, <2>4
<1> QED
  BY <1>14, <1>15, <1>16, <1>17, <1>18, <1>19 DEF DInv

(* Every step keeps the inductive invariant.                                  *)
LEMMA DecInvStep == ASSUME DInv, [DecNext]_decVars PROVE DInv'
<1>1. CASE ReceiveData
  BY <1>1, DataStep
<1>2. CASE ReceiveEos
  BY <1>2, EosStep
<1>3. CASE ReceiveStray
  BY <1>3, StrayStep
<1>4. CASE Tick \/ SendIdle \/ LeaveLoop
  BY <1>4, TurnStep
<1>5. CASE SendOk \/ SendAbandon \/ SendFails
  BY <1>5, SendStep
<1>6. CASE Commanded
  BY <1>6, CommandedStep
<1>7. CASE DecStart
  BY <1>7, BeginStep
<1>8. CASE DecResetJoined
  BY <1>8, JoinedStep
<1>9. CASE UNCHANGED decVars
  <2>1. UNCHANGED <<core, feed, decoded, sent, tally>> /\ dec' = dec /\ work' = work
    BY <1>9 DEF decVars
  <2>2. Batches' /\ Closes' /\ Runs' /\ Epochs'
    BY <2>1, Carried DEF DInv
  <2>3. DTypes' /\ ThreadFits'
    BY <2>1 DEF DInv, DTypes, ThreadFits, Closing
  <2> QED
    BY <2>2, <2>3 DEF DInv
<1> QED
  BY <1>1, <1>2, <1>3, <1>4, <1>5, <1>6, <1>7, <1>8, <1>9 DEF DecNext, Commanded

(* The invariant of the decoder holds in every run of it.                     *)
THEOREM DecInvariant == DecSpec => []DInv
<1>1. DecInit => DInv
  BY InitInv
<1>2. DInv /\ [DecNext]_decVars => DInv'
  BY DecInvStep
<1> QED
  BY <1>1, <1>2, PTL DEF DecSpec

(* The invariant implies FragmentsSound: its parts are those of Batches and   *)
(* Epochs.                                                                    *)
LEMMA InvFragments == DInv => FragmentsSound
<1> SUFFICES ASSUME DInv PROVE FragmentsSound
  OBVIOUS
<1>1. DTypes /\ ThreadFits /\ Batches /\ Epochs
  BY DEF DInv
<1>2. DecTypeOK
  <2>1. /\ dec \in DecType /\ work \in WorkType /\ core \in CoreType
    BY <1>1 DEF DTypes
  <2> QED
    BY <2>1 DEF DecTypeOK, DecType, WorkType, CoreType
<1>3. dec.fresh \in BOOLEAN
  BY <1>1 DEF DTypes, DecType
<1>4. NoFragmentMislaid
  <2>1. work.pc = "off" => core.pending = << >>
    BY <1>1 DEF ThreadFits
  <2> QED
    BY <1>1, <1>3, <2>1, Zenon DEF Batches, NoFragmentMislaid, AllFrags, Failures
<1>5. HolesAreAbandoned
  BY <1>1, Zenon DEF Batches, HolesAreAbandoned, First, After, EndsBefore
<1>6. RestartsExact
  BY <1>1, <1>3 DEF Epochs, RestartsExact
<1> QED
  BY <1>2, <1>4, <1>5, <1>6 DEF FragmentsSound

(* The invariant implies OwnEosNeedsAll: a closing thread has heard of all    *)
(* sources since the last own EndOfStream.                                    *)
LEMMA InvOwnEos == DInv => OwnEosNeedsAll
<1> SUFFICES ASSUME DInv, NEW s \in Expected
             PROVE  tally.eos[s] >= Cardinality(Ends(sent)) + IF work.pc = "eos" THEN 1 ELSE 0
  BY DEF OwnEosNeedsAll, Ends
<1>1. /\ DTypes /\ ThreadFits /\ Closes /\ sent \in Seq(SentType) /\ dec.fresh \in BOOLEAN
      /\ tally.eos[s] \in Nat
  BY DEF DInv, DTypes, TallyType, DecType
<1>2. Cardinality(Ends(sent)) \in Nat
  BY <1>1, CountsFinite
<1>3. CASE work.pc = "eos"
  <2>1. s \in core.eos /\ dec.fresh = FALSE
    BY <1>1, <1>3 DEF ThreadFits, Closing
  <2> QED
    BY <1>1, <1>3, <2>1 DEF Closes
<1>4. CASE work.pc # "eos"
  BY <1>1, <1>2, <1>4 DEF Closes
<1> QED
  BY <1>3, <1>4

(* The invariant implies RunsStaySeparate, a part of Runs.                    *)
LEMMA InvRuns == DInv => RunsStaySeparate
<1> SUFFICES ASSUME DInv PROVE RunsStaySeparate
  OBVIOUS
<1>1. Runs /\ core.errored \in BOOLEAN
  BY DEF DInv, DTypes, CoreType
<1> QED
  BY <1>1 DEF Runs, RunsStaySeparate

(* FragmentsSound: every fragment decoded since Start is, once and in order,  *)
(* in a batch that was sent or given up or is pending; the numbers of the     *)
(* batches show what was given up; the epochs are the acquisitions            *)
(* (send_pending, batch_abandoned, track_acquisition_restart).                *)
THEOREM FragmentsProved == DecSpec => []FragmentsSound
BY DecInvariant, InvFragments, PTL

(* OwnEosNeedsAll: the own EndOfStream goes out only when every expected      *)
(* source has closed the run once more (handle_eos, rearm).                   *)
THEOREM OwnEosProved == DecSpec => []OwnEosNeedsAll
BY DecInvariant, InvOwnEos, PTL

(* RunsStaySeparate: without a latched error no batch mixes runs, and none    *)
(* follows the EndOfStream of its run (check_run, next_seq).                  *)
THEOREM RunsProved == DecSpec => []RunsStaySeparate
BY DecInvariant, InvRuns, PTL

-----------------------------------------------------------------------------
(* The bytes of the first k frames of ss.                                      *)
Bytes(ss, k) == FlattenSeq(SubSeq(ss, 1, k))

(* They are bytes, and the next frame comes right after them.                  *)
LEMMA BytesGrow ==
  ASSUME NEW S, NEW ss \in Seq(Seq(S)), NEW k \in Nat, k <= Len(ss)
  PROVE  /\ Bytes(ss, k) \in Seq(S) /\ Bytes(ss, 0) = << >> /\ Bytes(ss, Len(ss)) = FlattenSeq(ss)
         /\ k + 1 <= Len(ss) => Bytes(ss, k + 1) = Bytes(ss, k) \o ss[k + 1]
<1>1. /\ SubSeq(ss, 1, k) \in Seq(Seq(S))
      /\ SubSeq(ss, 1, 0) = << >> /\ SubSeq(ss, 1, Len(ss)) = ss
      /\ k + 1 <= Len(ss) => SubSeq(ss, 1, k + 1) = Append(SubSeq(ss, 1, k), ss[k + 1])
  BY FirstShape
<1>2. Bytes(ss, k) \in Seq(S)
  <2>1. << >> \in Seq(S)
    OBVIOUS
  <2> QED
    BY <1>1, <2>1, FlattenAppend DEF Bytes
<1>3. ASSUME k + 1 <= Len(ss) PROVE Bytes(ss, k + 1) = Bytes(ss, k) \o ss[k + 1]
  <2>1. ss[k + 1] \in Seq(S)
    BY <1>3
  <2> QED
    BY <1>1, <1>3, <2>1, FlattenAppend DEF Bytes
<1> QED
  BY <1>1, <1>2, <1>3, FlattenEmpty DEF Bytes

(* The bytes of more frames begin with those of fewer.                         *)
LEMMA BytesBegin ==
  ASSUME NEW S, NEW ss \in Seq(Seq(S)), NEW k \in Nat, NEW n \in Nat, k <= n, n <= Len(ss)
  PROVE  Begins(Bytes(ss, n), Bytes(ss, k))
<1> DEFINE T == {m \in Nat : k + m <= Len(ss) => Begins(Bytes(ss, k + m), Bytes(ss, k))}
<1>0. Len(ss) \in Nat /\ k <= Len(ss)
  OBVIOUS
<1>1. Bytes(ss, k) \in Seq(S)
  BY <1>0, BytesGrow
<1>2. 0 \in T
  <2>1. k + 0 = k
    OBVIOUS
  <2>2. Begins(Bytes(ss, k), Bytes(ss, k))
    BY <1>1 DEF Begins
  <2> QED
    BY <2>1, <2>2
<1>3. ASSUME NEW m \in Nat, m \in T PROVE m + 1 \in T
  <2> SUFFICES ASSUME k + (m + 1) <= Len(ss) PROVE Begins(Bytes(ss, k + (m + 1)), Bytes(ss, k))
    OBVIOUS
  <2>1. PICK j \in Nat : j = k + m
    OBVIOUS
  <2>2. k + (m + 1) = j + 1 /\ j <= Len(ss) /\ j + 1 <= Len(ss)
    BY <1>0, <2>1
  <2>3. Begins(Bytes(ss, j), Bytes(ss, k))
    BY <1>3, <2>1, <2>2
  <2>4. Bytes(ss, j) \in Seq(S) /\ ss[j + 1] \in Seq(S) /\ Bytes(ss, j + 1) = Bytes(ss, j) \o ss[j + 1]
    BY <2>2, BytesGrow
  <2>5. PICK a \in Seq(S) : a = Bytes(ss, j)
    BY <2>4
  <2>6. PICK b \in Seq(S) : b = ss[j + 1]
    BY <2>4
  <2>7. PICK c \in Seq(S) : c = Bytes(ss, k)
    BY <1>1
  <2>8. /\ Len(a \o b) = Len(a) + Len(b) /\ Len(a) \in Nat /\ Len(b) \in Nat
        /\ \A i \in 1 .. Len(a) : (a \o b)[i] = a[i]
    BY ConcatShape
  <2>9. Len(c) \in Nat /\ Len(c) <= Len(a) /\ \A i \in 1 .. Len(c) : a[i] = c[i]
    BY <2>3, <2>5, <2>7 DEF Begins
  <2>10. Len(c) <= Len(a \o b) /\ \A i \in 1 .. Len(c) : i \in 1 .. Len(a)
    BY <2>8, <2>9
  <2>11. Begins(a \o b, c)
    BY <2>8, <2>9, <2>10 DEF Begins
  <2> QED
    BY <2>2, <2>4, <2>5, <2>6, <2>7, <2>11
<1>4. Nat \subseteq T
  <2> HIDE DEF T
  <2> QED
    BY <1>2, <1>3, NatSetInduction
<1>5. PICK m \in Nat : n = k + m
  <2>1. n - k \in Nat /\ n = k + (n - k)
    OBVIOUS
  <2> QED
    BY <2>1
<1> QED
  BY <1>4, <1>5

(* The next frame lies in the stream right after the frames before it.         *)
LEMMA FrameLies ==
  ASSUME NEW S, NEW ss \in Seq(Seq(S)), NEW k \in Nat, k + 1 <= Len(ss)
  PROVE  /\ Len(Bytes(ss, k + 1)) = Len(Bytes(ss, k)) + Len(ss[k + 1])
         /\ Len(Bytes(ss, k)) + Len(ss[k + 1]) <= Len(FlattenSeq(ss))
         /\ \A i \in 1 .. Len(ss[k + 1]) :
              FlattenSeq(ss)[Len(Bytes(ss, k)) + i] = ss[k + 1][i]
         /\ Len(Bytes(ss, k)) \in Nat
<1>0. Len(ss) \in Nat /\ k <= Len(ss) /\ Len(ss) <= Len(ss) /\ k + 1 \in Nat
  OBVIOUS
<1>1. /\ Bytes(ss, k) \in Seq(S) /\ ss[k + 1] \in Seq(S)
      /\ Bytes(ss, k + 1) = Bytes(ss, k) \o ss[k + 1]
      /\ Bytes(ss, Len(ss)) = FlattenSeq(ss)
  BY <1>0, BytesGrow
<1>2. Begins(Bytes(ss, Len(ss)), Bytes(ss, k + 1))
  BY <1>0, BytesBegin
<1>3. PICK a \in Seq(S) : a = Bytes(ss, k)
  BY <1>1
<1>4. PICK b \in Seq(S) : b = ss[k + 1]
  BY <1>1
<1>5. PICK f : f = FlattenSeq(ss)
  OBVIOUS
<1>6. /\ Len(a \o b) = Len(a) + Len(b) /\ Len(a) \in Nat /\ Len(b) \in Nat
      /\ \A i \in 1 .. Len(b) : (a \o b)[Len(a) + i] = b[i]
  BY ConcatShape
<1>7. Begins(f, a \o b)
  BY <1>1, <1>2, <1>3, <1>4, <1>5
<1>8. Len(a) + Len(b) <= Len(f) /\ \A i \in 1 .. Len(a) + Len(b) : f[i] = (a \o b)[i]
  BY <1>6, <1>7 DEF Begins
<1>9. \A i \in 1 .. Len(b) : Len(a) + i \in 1 .. Len(a) + Len(b)
  BY <1>6
<1>10. \A i \in 1 .. Len(b) : f[Len(a) + i] = b[i]
  BY <1>6, <1>8, <1>9
<1> QED
  BY <1>1, <1>3, <1>4, <1>5, <1>6, <1>8, <1>10

-----------------------------------------------------------------------------
(* A number is made of its digits.                                             *)
LEMMA Digits ==
  ASSUME NEW n \in Nat
  PROVE  (n % 256) + 256 * ((n \div 256) % 256) + 65536 * (n \div 65536) = n
OBVIOUS

(* The sizes of blocks.                                                        *)
LEMMA BlockSizes ==
  ASSUME NEW n \in 0 .. 15
  PROVE  2 ^ n \in Nat /\ 2 ^ n >= 1
<1>1. /\ 2 ^ 0 \in Nat /\ 2 ^ 0 >= 1 /\ 2 ^ 1 \in Nat /\ 2 ^ 1 >= 1
      /\ 2 ^ 2 \in Nat /\ 2 ^ 2 >= 1 /\ 2 ^ 3 \in Nat /\ 2 ^ 3 >= 1
      /\ 2 ^ 4 \in Nat /\ 2 ^ 4 >= 1 /\ 2 ^ 5 \in Nat /\ 2 ^ 5 >= 1
      /\ 2 ^ 6 \in Nat /\ 2 ^ 6 >= 1 /\ 2 ^ 7 \in Nat /\ 2 ^ 7 >= 1
      /\ 2 ^ 8 \in Nat /\ 2 ^ 8 >= 1 /\ 2 ^ 9 \in Nat /\ 2 ^ 9 >= 1
      /\ 2 ^ 10 \in Nat /\ 2 ^ 10 >= 1 /\ 2 ^ 11 \in Nat /\ 2 ^ 11 >= 1
      /\ 2 ^ 12 \in Nat /\ 2 ^ 12 >= 1 /\ 2 ^ 13 \in Nat /\ 2 ^ 13 >= 1
      /\ 2 ^ 14 \in Nat /\ 2 ^ 14 >= 1 /\ 2 ^ 15 \in Nat /\ 2 ^ 15 >= 1
  OBVIOUS
<1>2. n \in {0, 1, 2, 3, 4, 5, 6, 7, 8, 9, 10, 11, 12, 13, 14, 15}
  OBVIOUS
<1> QED
  BY <1>1, <1>2, Zenon

(* The bytes of a header, as numbers.                                          *)
LEMMA HeaderBytes ==
  ASSUME NEW h \in Seq(Byte), Len(h) >= 4
  PROVE  /\ h[1] \in 0 .. 255 /\ h[2] \in 0 .. 255 /\ h[3] \in 0 .. 255 /\ h[4] \in 0 .. 255
         /\ 2 ^ (h[1] % 16) \in Nat /\ 2 ^ (h[1] % 16) >= 1
<1>1. \A i \in 1 .. Len(h) : h[i] \in Byte
  OBVIOUS
<1>2. 1 \in 1 .. Len(h) /\ 2 \in 1 .. Len(h) /\ 3 \in 1 .. Len(h) /\ 4 \in 1 .. Len(h)
  OBVIOUS
<1>3. h[1] \in Byte /\ h[2] \in Byte /\ h[3] \in Byte /\ h[4] \in Byte
  BY <1>1, <1>2
<1>4. h[1] \in 0 .. 255 /\ h[2] \in 0 .. 255 /\ h[3] \in 0 .. 255 /\ h[4] \in 0 .. 255
  BY <1>3, Zenon DEF Byte
<1>5. PICK a \in 0 .. 255 : a = h[1]
  BY <1>4
<1>6. a % 16 \in 0 .. 15
  OBVIOUS
<1>7. 2 ^ (a % 16) \in Nat /\ 2 ^ (a % 16) >= 1
  BY <1>6, BlockSizes
<1> QED
  BY <1>4, <1>5, <1>7, Zenon

(* parse_frame_size gives the size a header announces, when a header fits into *)
(* it, and none when it announces less.                                        *)
LEMMA SizeParsed ==
  ASSUME NEW h \in Seq(Byte), Len(h) >= 4
  PROVE  /\ ParseFrameSize(h) = None \/ (ParseFrameSize(h) \in Nat /\ ParseFrameSize(h) >= Header)
         /\ \A n \in Nat : n >= Header /\ Announces(h, n) => ParseFrameSize(h) = n
         /\ ParseFrameSize(h) # None => Announces(h, ParseFrameSize(h))
<1>1. PICK a \in 0 .. 255 : a = h[1]
  BY HeaderBytes
<1>2. PICK b \in 0 .. 255 : b = h[2]
  BY HeaderBytes
<1>3. PICK c \in 0 .. 255 : c = h[3]
  BY HeaderBytes
<1>4. PICK d \in 0 .. 255 : d = h[4]
  BY HeaderBytes
<1>5. PICK s \in Nat : s = 2 ^ (h[1] % 16) /\ s >= 1
  BY HeaderBytes
<1>6. PICK k : k = IF a >= 128 THEN b + 256 * c + 65536 * d ELSE 65536 * b + 256 * c + d
  OBVIOUS
<1>7. k \in Nat
  BY <1>6
<1>8. PICK z \in Nat : z = k * s
  BY <1>7
<1>9. ParseFrameSize(h) = IF z < 8 THEN None ELSE z
  BY <1>1, <1>2, <1>3, <1>4, <1>5, <1>6, <1>8 DEF ParseFrameSize, Header
<1>10. ASSUME NEW n \in Nat, n >= Header, Announces(h, n) PROVE ParseFrameSize(h) = n
  <2>1. PICK x \in 0 .. n :
          /\ n = x * s /\ c = (x \div 256) % 256
          /\ a >= 128 => b = x % 256 /\ d = x \div 65536
          /\ a < 128 => b = x \div 65536 /\ d = x % 256
    BY <1>1, <1>2, <1>3, <1>4, <1>5, <1>10 DEF Announces
  <2>2. x \in Nat
    OBVIOUS
  <2>3. (x % 256) + 256 * ((x \div 256) % 256) + 65536 * (x \div 65536) = x
    BY <2>2, Digits
  <2>4. CASE a >= 128
    <3>1. b + 256 * c + 65536 * d = x
      BY <2>1, <2>3, <2>4
    <3>2. k = x
      BY <1>6, <2>4, <3>1
    <3> QED
      BY <1>8, <1>9, <1>10, <2>1, <3>2 DEF Header
  <2>5. CASE a < 128
    <3>1. 65536 * b + 256 * c + d = x
      BY <2>1, <2>3, <2>5
    <3>2. k = x
      BY <1>6, <2>5, <3>1
    <3> QED
      BY <1>8, <1>9, <1>10, <2>1, <3>2 DEF Header
  <2> QED
    BY <2>4, <2>5
<1>11. ASSUME ParseFrameSize(h) # None PROVE Announces(h, z) /\ ParseFrameSize(h) = z
  <2>1. ParseFrameSize(h) = z
    BY <1>9, <1>11
  <2>2. k \in 0 .. z
    <3>1. \A x, y \in Nat : y >= 1 => x * y >= x
      <4>1. SUFFICES ASSUME NEW x \in Nat, NEW y \in Nat, y >= 1 PROVE x * y >= x
        OBVIOUS
      <4>2. PICK w \in Nat : y = w + 1
        <5>1. y - 1 \in Nat /\ y = (y - 1) + 1
          BY <4>1
        <5> QED
          BY <5>1
      <4>3. x * (w + 1) = x * w + x /\ x * w \in Nat
        OBVIOUS
      <4> QED
        BY <4>2, <4>3
    <3>2. z >= k
      BY <1>5, <1>7, <1>8, <3>1
    <3> QED
      BY <1>7, <3>2
  <2>3. CASE a >= 128
    <3>1. k = b + 256 * c + 65536 * d
      BY <1>6, <2>3
    <3>2. k % 256 = b /\ (k \div 256) % 256 = c /\ k \div 65536 = d
      BY <3>1
    <3>3. ~(a < 128)
      BY <2>3
    <3>4. /\ z = k * 2 ^ (h[1] % 16) /\ h[3] = (k \div 256) % 256
          /\ h[1] >= 128 => h[2] = k % 256 /\ h[4] = k \div 65536
          /\ h[1] < 128 => h[2] = k \div 65536 /\ h[4] = k % 256
      BY <1>1, <1>2, <1>3, <1>4, <1>5, <1>8, <3>2, <3>3
    <3> QED
      BY <2>1, <2>2, <3>4 DEF Announces
  <2>4. CASE a < 128
    <3>1. k = d + 256 * c + 65536 * b
      BY <1>6, <2>4
    <3>2. k % 256 = d /\ (k \div 256) % 256 = c /\ k \div 65536 = b
      BY <3>1
    <3>3. ~(a >= 128)
      BY <2>4
    <3>4. /\ z = k * 2 ^ (h[1] % 16) /\ h[3] = (k \div 256) % 256
          /\ h[1] >= 128 => h[2] = k % 256 /\ h[4] = k \div 65536
          /\ h[1] < 128 => h[2] = k \div 65536 /\ h[4] = k % 256
      BY <1>1, <1>2, <1>3, <1>4, <1>5, <1>8, <3>2, <3>3
    <3> QED
      BY <2>1, <2>2, <3>4 DEF Announces
  <2> QED
    BY <2>3, <2>4
<1>12. ParseFrameSize(h) = None \/ (ParseFrameSize(h) \in Nat /\ ParseFrameSize(h) >= Header)
  BY <1>9 DEF Header
<1> QED
  BY <1>10, <1>11, <1>12

(* Which a framer reads of a plausible and of an implausible frame.            *)
LEMMA KindsParsed ==
  ASSUME NEW fs \in Streams, NEW i \in 1 .. Len(fs)
  PROVE  /\ Plausible(fs[i]) => ParseFrameSize(fs[i]) = Len(fs[i]) /\ Len(fs[i]) <= MaxFrameBytes
         /\ Implausible(fs[i]) => ParseFrameSize(fs[i]) = None \/ ParseFrameSize(fs[i]) > MaxFrameBytes
         /\ ~(Plausible(fs[i]) /\ Implausible(fs[i]))
<1>1. fs[i] \in Seq(Byte) /\ Len(fs[i]) >= Header
  BY StreamsAssumption
<1>2. PICK f \in Seq(Byte) : f = fs[i]
  BY <1>1
<1>3. Len(f) \in Nat /\ Len(f) >= Header /\ Len(f) >= 4
  BY <1>1, <1>2 DEF Header
<1>4. /\ ParseFrameSize(f) = None \/ (ParseFrameSize(f) \in Nat /\ ParseFrameSize(f) >= Header)
      /\ \A n \in Nat : n >= Header /\ Announces(f, n) => ParseFrameSize(f) = n
      /\ ParseFrameSize(f) # None => Announces(f, ParseFrameSize(f))
  BY <1>3, SizeParsed
<1>5. ASSUME Plausible(f) PROVE ParseFrameSize(f) = Len(f) /\ Len(f) <= MaxFrameBytes
  BY <1>3, <1>4, <1>5 DEF Plausible
<1>6. ASSUME Implausible(f), ParseFrameSize(f) # None PROVE ParseFrameSize(f) > MaxFrameBytes
  <2>1. PICK n \in Nat : n = ParseFrameSize(f) /\ n >= Header /\ Announces(f, n)
    BY <1>4, <1>6
  <2>2. n \notin Header .. MaxFrameBytes
    BY <1>6, <2>1, Zenon DEF Implausible
  <2> QED
    BY <2>1, <2>2, MfmAssumption DEF Header
<1>7. ASSUME Plausible(f), Implausible(f) PROVE FALSE
  <2>1. Announces(f, Len(f)) /\ Len(f) <= MaxFrameBytes
    BY <1>7 DEF Plausible
  <2>2. Len(f) \in Header .. MaxFrameBytes
    BY <1>3, <2>1, MfmAssumption DEF Header
  <2> QED
    BY <1>7, <2>1, <2>2, Zenon DEF Implausible
<1> QED
  BY <1>2, <1>5, <1>6, <1>7

(* Only the first four bytes count.                                            *)
LEMMA SizeOfHeader ==
  ASSUME NEW h, NEW f, h[1] = f[1], h[2] = f[2], h[3] = f[3], h[4] = f[4]
  PROVE  ParseFrameSize(h) = ParseFrameSize(f)
<1>1. PICK a : a = h[1]
  OBVIOUS
<1>2. PICK b : b = h[2]
  OBVIOUS
<1>3. PICK c : c = h[3]
  OBVIOUS
<1>4. PICK d : d = h[4]
  OBVIOUS
<1> QED
  BY <1>1, <1>2, <1>3, <1>4 DEF ParseFrameSize

(* What follows head in buf is what follows the first k frames of fs.          *)
Window(buf, head, fs, k) ==
  \A i \in 1 .. Len(buf) - head : buf[head + i] = FlattenSeq(fs)[Len(Bytes(fs, k)) + i]

(* What is seen there of a whole header is the header of the next frame, and   *)
(* what is seen of a whole frame is that frame.                                *)
LEMMA FrameSeen ==
  ASSUME NEW fs \in Streams, NEW k \in Nat, k <= Len(fs),
         NEW buf \in Seq(Byte), NEW head \in Nat, NEW av \in Nat, head + av = Len(buf),
         Len(Bytes(fs, k)) + av <= Len(FlattenSeq(fs)), Window(buf, head, fs, k), av >= Header
  PROVE  /\ k + 1 <= Len(fs)
         /\ ParseFrameSize(SubSeq(buf, head + 1, head + Header)) = ParseFrameSize(fs[k + 1])
         /\ Len(fs[k + 1]) <= av =>
              SubSeq(buf, head + 1, head + Len(fs[k + 1])) = fs[k + 1]
<1>1. /\ fs \in Seq(Seq(Byte))
      /\ \A i \in 1 .. Len(fs) : Len(fs[i]) >= Header
  BY StreamsAssumption
<1>2. /\ Bytes(fs, k) \in Seq(Byte) /\ Bytes(fs, Len(fs)) = FlattenSeq(fs)
  BY <1>1, BytesGrow
<1>3. Len(fs) \in Nat /\ Len(Bytes(fs, k)) \in Nat
  BY <1>1, <1>2
<1>4. k + 1 <= Len(fs)
  <2>1. SUFFICES ASSUME k = Len(fs) PROVE FALSE
    BY <1>3
  <2>2. Len(Bytes(fs, k)) + av <= Len(Bytes(fs, k))
    BY <1>2, <2>1
  <2> QED
    BY <1>3, <2>2 DEF Header
<1>5. fs[k + 1] \in Seq(Byte) /\ Len(fs[k + 1]) >= Header
  BY <1>1, <1>4
<1>6. PICK f \in Seq(Byte) : f = fs[k + 1]
  BY <1>5
<1>7. PICK p \in Nat : p = Len(Bytes(fs, k))
  BY <1>3
<1>8. \A i \in 1 .. Len(f) : FlattenSeq(fs)[p + i] = f[i]
  BY <1>1, <1>4, <1>6, <1>7, FrameLies
<1>9. \A i \in 1 .. av : buf[head + i] = FlattenSeq(fs)[p + i]
  <2>1. Len(buf) - head = av
    OBVIOUS
  <2> QED
    BY <1>7, <2>1 DEF Window
<1>10. Len(f) \in Nat /\ Len(f) >= 8
  BY <1>5, <1>6 DEF Header
<1>11. \A i \in 1 .. av : i <= Len(f) => buf[head + i] = f[i]
  BY <1>8, <1>9, <1>10
<1>12. PICK e \in Nat : e = head + Header
  BY DEF Header
<1>13. PICK h : h = SubSeq(buf, head + 1, e)
  OBVIOUS
<1>14. e <= Len(buf) /\ head <= e /\ e - head = 8 /\ av >= 8
  BY <1>12 DEF Header
<1>15. /\ h \in Seq(Byte) /\ Len(h) = 8 /\ \A i \in 1 .. 8 : h[i] = buf[head + i]
  <2>1. /\ h \in Seq(Byte) /\ Len(h) = e - head /\ \A i \in 1 .. e - head : h[i] = buf[head + i]
    BY <1>13, <1>14, SliceShape
  <2> QED
    BY <1>14, <2>1
<1>16. \A i \in {1, 2, 3, 4} : i \in 1 .. 8 /\ i \in 1 .. av /\ i <= Len(f)
  BY <1>10, <1>14
<1>17. \A i \in {1, 2, 3, 4} : h[i] = f[i]
  BY <1>11, <1>15, <1>16, Zenon
<1>18. ParseFrameSize(h) = ParseFrameSize(f)
  BY <1>17, SizeOfHeader
<1>19. ASSUME Len(f) <= av PROVE SubSeq(buf, head + 1, head + Len(f)) = f
  <2>1. PICK m \in Nat : m = head + Len(f)
    BY <1>10
  <2>2. head <= m /\ m <= Len(buf) /\ m - head = Len(f)
    BY <1>10, <1>19, <2>1
  <2>3. PICK g : g = SubSeq(buf, head + 1, m)
    OBVIOUS
  <2>4. g \in Seq(Byte) /\ Len(g) = Len(f) /\ \A i \in 1 .. Len(f) : g[i] = buf[head + i]
    BY <2>2, <2>3, SliceShape
  <2>5. \A i \in 1 .. Len(f) : i \in 1 .. av
    BY <1>10, <1>19
  <2>6. \A i \in 1 .. Len(f) : g[i] = f[i]
    BY <1>10, <1>11, <2>4, <2>5
  <2> QED
    BY <2>1, <2>3, <2>4, <2>6, SeqEqual
<1> QED
  BY <1>4, <1>6, <1>12, <1>13, <1>18, <1>19

-----------------------------------------------------------------------------
(* The inductive invariant of the framer.                                      *)
FramerTypes ==
  /\ sentFrames \in Streams
  /\ got \in Nat /\ got <= Len(Stream)
  /\ framer \in [buf : Seq(Byte), head : Nat, reset_count : Nat, lost : Nat]
  /\ framer.head <= Len(framer.buf)
  /\ emitted \in Seq(Seq(Byte))
  /\ reading \in BOOLEAN

(* Every byte is in a frame, dropped or held.                                  *)
BytesHeld ==
  /\ got = Len(FlattenSeq(emitted)) + framer.lost + Avail
  /\ framer.lost = 0 <=> framer.reset_count = 0

(* Until the first reset the frames returned are the first k sent, all of them *)
(* plausible, and the bytes held are those that follow them.                   *)
InStepAt(k) ==
  /\ emitted = SubSeq(sentFrames, 1, k)
  /\ \A i \in 1 .. k : Plausible(sentFrames[i])
  /\ Window(framer.buf, framer.head, sentFrames, k)

InStep == framer.reset_count = 0 => \E k \in 0 .. Len(sentFrames) : InStepAt(k)

(* After it, the frames before some implausible one have come first.           *)
DamagedAt(k) ==
  Implausible(sentFrames[k + 1]) /\ Begins(emitted, SubSeq(sentFrames, 1, k))

AfterDamage == framer.reset_count # 0 => \E k \in 0 .. Len(sentFrames) - 1 : DamagedAt(k)

(* The reader goes back to the socket with less than a frame in the buffer.    *)
Drained == reading => ~Broken /\ (Avail >= Header => Avail < Size)

MInv == FramerTypes /\ BytesHeld /\ InStep /\ AfterDamage /\ Drained

(* The shape of what is sent.                                                  *)
LEMMA StreamShape ==
  ASSUME NEW fs \in Streams, NEW k \in 0 .. Len(fs)
  PROVE  /\ fs \in Seq(Seq(Byte)) /\ Len(fs) \in Nat /\ k \in Nat /\ k <= Len(fs)
         /\ FlattenSeq(fs) \in Seq(Byte) /\ Len(FlattenSeq(fs)) \in Nat
         /\ Bytes(fs, k) \in Seq(Byte) /\ Len(Bytes(fs, k)) \in Nat
         /\ Bytes(fs, 0) = << >>
         /\ \A i \in 1 .. Len(fs) : Len(fs[i]) >= Header /\ (Plausible(fs[i]) \/ Implausible(fs[i]))
<1>1. fs \in Seq(Seq(Byte)) /\ \A i \in 1 .. Len(fs) : Len(fs[i]) >= Header /\ (Plausible(fs[i]) \/ Implausible(fs[i]))
  BY StreamsAssumption
<1>2. Len(fs) \in Nat /\ Len(fs) <= Len(fs) /\ k \in Nat /\ k <= Len(fs)
  BY <1>1
<1>3. Bytes(fs, k) \in Seq(Byte) /\ Bytes(fs, Len(fs)) \in Seq(Byte) /\ Bytes(fs, 0) = << >>
      /\ Bytes(fs, Len(fs)) = FlattenSeq(fs)
  BY <1>1, <1>2, BytesGrow
<1> QED
  BY <1>1, <1>2, <1>3

(* What next reads of a header is a size a header fits into, or none.          *)
LEMMA SizeSeen ==
  ASSUME FramerTypes
  PROVE  /\ Avail \in Nat /\ framer.head + Avail = Len(framer.buf)
         /\ Avail >= Header => Size = None \/ (Size \in Nat /\ Size >= Header)
<1>1. framer.buf \in Seq(Byte) /\ framer.head \in Nat /\ framer.head <= Len(framer.buf)
  BY DEF FramerTypes
<1>2. PICK b \in Seq(Byte) : b = framer.buf
  BY <1>1
<1>3. PICK m \in Nat : m = framer.head
  BY <1>1
<1>4. Avail \in Nat /\ m + Avail = Len(b)
  BY <1>1, <1>2, <1>3 DEF Avail
<1>5. ASSUME Avail >= Header PROVE Size = None \/ (Size \in Nat /\ Size >= Header)
  <2>1. PICK e \in Nat : e = m + Header
    BY DEF Header
  <2>2. m <= e /\ e <= Len(b) /\ e - m = 8
    BY <1>4, <1>5, <2>1 DEF Header
  <2>3. SubSeq(b, m + 1, e) \in Seq(Byte) /\ Len(SubSeq(b, m + 1, e)) = e - m
    BY <2>2, SliceShape
  <2>4. PICK h \in Seq(Byte) : h = SubSeq(b, m + 1, e)
    BY <2>3
  <2>5. Len(h) >= 4
    BY <2>2, <2>3, <2>4
  <2>6. Size = ParseFrameSize(h)
    BY <1>2, <1>3, <2>1, <2>4 DEF Size
  <2> QED
    BY <2>5, <2>6, SizeParsed
<1> QED
  BY <1>2, <1>3, <1>4, <1>5

(* It holds at first.                                                          *)
LEMMA FramerStarts ==
  ASSUME MfmInit
  PROVE  MInv
<1>1. /\ sentFrames \in Streams /\ got = 0 /\ reading = TRUE /\ emitted = << >>
      /\ framer = [buf |-> << >>, head |-> 0, reset_count |-> 0, lost |-> 0]
  BY DEF MfmInit
<1>2. PICK fs \in Streams : fs = sentFrames
  BY <1>1
<1>3. 0 \in 0 .. Len(fs) /\ fs \in Seq(Seq(Byte)) /\ Len(fs) \in Nat
  BY StreamsAssumption
<1>4. FlattenSeq(fs) \in Seq(Byte) /\ Len(FlattenSeq(fs)) \in Nat
  BY <1>3, StreamShape
<1>5. /\ framer.buf = << >> /\ framer.head = 0 /\ framer.reset_count = 0 /\ framer.lost = 0
  BY <1>1
<1>6. << >> \in Seq(Byte) /\ << >> \in Seq(Seq(Byte)) /\ Len(<< >>) = 0
  OBVIOUS
<1>7. FramerTypes
  <2>1. framer \in [buf : Seq(Byte), head : Nat, reset_count : Nat, lost : Nat]
    BY <1>1, <1>6
  <2>2. reading \in BOOLEAN
    BY <1>1, Zenon
  <2>3. got \in Nat /\ got <= Len(Stream)
    BY <1>1, <1>2, <1>4 DEF Stream
  <2>4. framer.head <= Len(framer.buf) /\ emitted \in Seq(Seq(Byte))
    BY <1>1, <1>5, <1>6
  <2> QED
    BY <1>1, <2>1, <2>2, <2>3, <2>4, Zenon DEF FramerTypes
<1>8. Avail = 0
  BY <1>5, <1>6 DEF Avail
<1>9. BytesHeld
  <2>1. Len(FlattenSeq(emitted)) = 0
    BY <1>1, <1>6, FlattenEmpty
  <2> QED
    BY <1>1, <1>5, <1>8, <2>1 DEF BytesHeld
<1>10. InStep
  <2>1. SubSeq(fs, 1, 0) = << >>
    BY <1>3
  <2>2. emitted = SubSeq(sentFrames, 1, 0)
    BY <1>1, <1>2, <2>1
  <2>3. \A i \in 1 .. 0 : Plausible(sentFrames[i])
    OBVIOUS
  <2>4. Window(framer.buf, framer.head, sentFrames, 0)
    <3>1. Len(framer.buf) - framer.head = 0
      BY <1>8 DEF Avail
    <3>2. \A i : i \notin 1 .. 0
      OBVIOUS
    <3> QED
      BY <3>1, <3>2, Zenon DEF Window
  <2>5. InStepAt(0)
    BY <2>2, <2>3, <2>4, Zenon DEF InStepAt
  <2> QED
    BY <1>2, <1>3, <2>5, Zenon DEF InStep
<1>11. AfterDamage
  BY <1>5 DEF AfterDamage
<1>12. Drained
  BY <1>8 DEF Drained, Broken, Header
<1> QED
  BY <1>7, <1>9, <1>10, <1>11, <1>12 DEF MInv

(* It says nothing of what the other steps change.                             *)
LEMMA FramerRests ==
  ASSUME MInv, UNCHANGED <<sentFrames, got, framer, reading, emitted>>
  PROVE  MInv'
<1>1. /\ sentFrames' = sentFrames /\ got' = got /\ framer' = framer /\ reading' = reading
      /\ emitted' = emitted
  OBVIOUS
<1>2. Stream' = Stream /\ Avail' = Avail /\ Size' = Size
  BY <1>1 DEF Stream, Avail, Size
<1>3. Broken' = Broken
  BY <1>2 DEF Broken
<1>4. FramerTypes'
  BY <1>1, <1>2 DEF MInv, FramerTypes
<1>5. BytesHeld'
  BY <1>1, <1>2 DEF MInv, BytesHeld
<1>6. InStep'
  BY <1>1 DEF MInv, InStep, InStepAt
<1>7. AfterDamage'
  BY <1>1 DEF MInv, AfterDamage, DamagedAt
<1>8. Drained'
  BY <1>1, <1>2, <1>3 DEF MInv, Drained
<1> QED
  BY <1>4, <1>5, <1>6, <1>7, <1>8 DEF MInv

(* Framer::push keeps it.                                                      *)
LEMMA PushKeeps ==
  ASSUME MInv, NEW q \in 1 .. Len(Stream) - got, Push(q)
  PROVE  MInv'
<1>1. FramerTypes /\ BytesHeld /\ InStep /\ AfterDamage
  BY DEF MInv
<1>2. PICK fs \in Streams : fs = sentFrames
  BY <1>1 DEF FramerTypes
<1>3. PICK r \in [buf : Seq(Byte), head : Nat, reset_count : Nat, lost : Nat] : r = framer
  BY <1>1 DEF FramerTypes
<1>4. PICK g \in Nat : g = got
  BY <1>1 DEF FramerTypes
<1>5. 0 \in 0 .. Len(fs)
  BY StreamsAssumption
<1>6. FlattenSeq(fs) \in Seq(Byte)
  BY <1>5, StreamShape
<1>7. PICK str \in Seq(Byte) : str = FlattenSeq(fs)
  BY <1>6
<1>8. PICK n \in Nat : n = q /\ g + n <= Len(str)
  BY <1>1, <1>2, <1>4, <1>7 DEF Stream
<1>9. r.buf \in Seq(Byte) /\ r.head \in Nat /\ r.head <= Len(r.buf) /\ Len(r.buf) \in Nat
  BY <1>1, <1>3 DEF FramerTypes
<1>10. PICK av \in Nat : av = Len(r.buf) - r.head
  BY <1>9
<1>11. PICK b \in Seq(Byte) : b = r.buf
  BY <1>9
<1>12. PICK h \in Nat : h = r.head
  BY <1>9
<1>13. h + av = Len(b) /\ Len(b) \in Nat /\ Len(b) - h = av
  BY <1>9, <1>10, <1>11, <1>12
<1>14. PICK m \in Nat : m = Len(b)
  BY <1>13
<1>15. PICK e \in Nat : e = g + n
  OBVIOUS
<1>16. PICK x : x = SubSeq(b, h + 1, m)
  OBVIOUS
<1>17. PICK y : y = SubSeq(str, g + 1, e)
  OBVIOUS
<1>18. x \in Seq(Byte) /\ Len(x) = av /\ \A i \in 1 .. av : x[i] = b[h + i]
  <2>1. h <= m /\ m <= Len(b) /\ m - h = av
    BY <1>13, <1>14
  <2>2. /\ SubSeq(b, h + 1, m) \in Seq(Byte) /\ Len(SubSeq(b, h + 1, m)) = m - h
        /\ \A i \in 1 .. m - h : SubSeq(b, h + 1, m)[i] = b[h + i]
    BY <2>1, SliceShape
  <2> QED
    BY <1>16, <2>1, <2>2
<1>19. y \in Seq(Byte) /\ Len(y) = n /\ \A i \in 1 .. n : y[i] = str[g + i]
  <2>1. g <= e /\ e <= Len(str) /\ e - g = n
    BY <1>8, <1>15
  <2>2. /\ SubSeq(str, g + 1, e) \in Seq(Byte) /\ Len(SubSeq(str, g + 1, e)) = e - g
        /\ \A i \in 1 .. e - g : SubSeq(str, g + 1, e)[i] = str[g + i]
    BY <2>1, SliceShape
  <2> QED
    BY <1>17, <2>1, <2>2
<1>20. PICK nb : nb = x \o y
  OBVIOUS
<1>21. /\ nb \in Seq(Byte) /\ Len(nb) = av + n
       /\ \A i \in 1 .. av : nb[i] = b[h + i]
       /\ \A i \in 1 .. n : nb[av + i] = str[g + i]
  <2>1. x \in Seq(Byte) /\ y \in Seq(Byte)
    BY <1>18, <1>19
  <2>2. x \o y \in Seq(Byte) /\ Len(x \o y) = Len(x) + Len(y)
    BY <2>1, ConcatShape
  <2>3. \A i \in 1 .. Len(x) : (x \o y)[i] = x[i]
    BY <2>1, ConcatShape
  <2>4. \A i \in 1 .. Len(y) : (x \o y)[Len(x) + i] = y[i]
    BY <2>1, ConcatShape
  <2>5. \A i \in 1 .. av : nb[i] = b[h + i]
    BY <1>18, <1>20, <2>3, Zenon
  <2>6. \A i \in 1 .. n : nb[av + i] = str[g + i]
    BY <1>18, <1>19, <1>20, <2>4, Zenon
  <2> QED
    BY <1>18, <1>19, <1>20, <2>2, <2>5, <2>6, Zenon
<1>22. /\ framer' = [r EXCEPT !.buf = nb, !.head = 0]
       /\ got' = g + n /\ reading' = FALSE /\ sentFrames' = fs /\ emitted' = emitted
  BY <1>2, <1>3, <1>4, <1>7, <1>8, <1>11, <1>12, <1>14, <1>15, <1>16, <1>17, <1>20 DEF Push, Stream
<1>23. /\ framer'.buf = nb /\ framer'.head = 0
       /\ framer'.reset_count = r.reset_count /\ framer'.lost = r.lost
       /\ framer' \in [buf : Seq(Byte), head : Nat, reset_count : Nat, lost : Nat]
  BY <1>21, <1>22
<1>24. Avail = av /\ Avail' = av + n
  BY <1>3, <1>10, <1>21, <1>23 DEF Avail
<1>25. FramerTypes'
  <2>1. got' \in Nat /\ got' <= Len(Stream')
    BY <1>7, <1>8, <1>22 DEF Stream
  <2>2. framer'.head <= Len(framer'.buf)
    BY <1>21, <1>23
  <2>3. reading' \in BOOLEAN
    BY <1>22, Zenon
  <2>4. sentFrames' \in Streams /\ emitted' \in Seq(Seq(Byte))
    BY <1>1, <1>22 DEF FramerTypes
  <2> QED
    BY <1>23, <2>1, <2>2, <2>3, <2>4, Zenon DEF FramerTypes
<1>26. BytesHeld'
  <2>1. PICK l : l = Len(FlattenSeq(emitted))
    OBVIOUS
  <2>2. l = Len(FlattenSeq(emitted'))
    BY <1>22, <2>1
  <2>3. g = l + r.lost + av /\ (r.lost = 0 <=> r.reset_count = 0)
    BY <1>1, <1>3, <1>4, <1>24, <2>1 DEF BytesHeld
  <2>4. l \in Nat
    <3>1. FlattenSeq(emitted) \in Seq(Byte)
      <4>1. emitted \in Seq(Seq(Byte)) /\ << >> \in Seq(Byte)
        BY <1>1 DEF FramerTypes
      <4> QED
        BY <4>1, FlattenAppend
    <3> QED
      BY <2>1, <3>1
  <2>5. g + n = l + r.lost + (av + n)
    BY <2>3, <2>4
  <2> QED
    BY <1>22, <1>23, <1>24, <2>2, <2>3, <2>5 DEF BytesHeld
<1>27. InStep'
  <2>1. SUFFICES ASSUME framer'.reset_count = 0 PROVE \E k \in 0 .. Len(sentFrames') : InStepAt(k)'
    BY DEF InStep
  <2>2. PICK k \in 0 .. Len(fs) : InStepAt(k)
    BY <1>1, <1>2, <1>3, <1>23, <2>1 DEF InStep
  <2>3. /\ emitted = SubSeq(fs, 1, k) /\ (\A i \in 1 .. k : Plausible(fs[i]))
        /\ Window(r.buf, r.head, fs, k)
    BY <1>2, <1>3, <2>2 DEF InStepAt
  <2>4. PICK p \in Nat : p = Len(Bytes(fs, k))
    BY StreamShape
  <2>5. p + av = g
    <3>1. r.lost = 0
      BY <1>1, <1>3, <1>23, <2>1 DEF BytesHeld
    <3>2. Len(FlattenSeq(emitted)) = p
      BY <2>3, <2>4 DEF Bytes
    <3>3. g = p + 0 + av
      BY <1>1, <1>3, <1>4, <1>24, <3>1, <3>2 DEF BytesHeld
    <3> QED
      BY <3>3
  <2>6. \A i \in 1 .. av : b[h + i] = str[p + i]
    BY <1>7, <1>11, <1>12, <1>13, <2>3, <2>4 DEF Window
  <2>7. ASSUME NEW i \in 1 .. av + n PROVE nb[i] = str[p + i]
    <3>1. CASE i <= av
      <4>1. i \in 1 .. av
        BY <3>1
      <4> QED
        BY <1>21, <2>6, <4>1
    <3>2. CASE i > av
      <4>1. PICK j \in 1 .. n : i = av + j
        <5>1. i - av \in 1 .. n /\ i = av + (i - av)
          BY <3>2
        <5> QED
          BY <5>1
      <4>2. \A u, v, w \in Nat : u + (v + w) = (u + v) + w
        OBVIOUS
      <4>3. j \in Nat
        OBVIOUS
      <4>4. p + (av + j) = (p + av) + j
        BY <4>2, <4>3
      <4> QED
        BY <1>21, <2>5, <4>1, <4>4
    <3> QED
      BY <3>1, <3>2
  <2>8. Window(nb, 0, fs, k)
    <3>1. Len(nb) - 0 = av + n /\ \A i \in 1 .. av + n : 0 + i = i
      BY <1>21
    <3>2. \A i \in 1 .. Len(nb) - 0 : nb[0 + i] = FlattenSeq(fs)[Len(Bytes(fs, k)) + i]
      BY <1>7, <2>4, <2>7, <3>1
    <3> QED
      BY <3>2 DEF Window
  <2>9. InStepAt(k)'
    BY <1>22, <1>23, <2>3, <2>8 DEF InStepAt
  <2> QED
    BY <1>22, <2>9
<1>28. AfterDamage'
  BY <1>1, <1>2, <1>3, <1>22, <1>23 DEF AfterDamage, DamagedAt
<1>29. Drained'
  BY <1>22 DEF Drained
<1> QED
  BY <1>25, <1>26, <1>27, <1>28, <1>29 DEF MInv

(* Framer::next with nothing to return keeps it.                               *)
LEMMA NoneKeeps ==
  ASSUME MInv, NextNone
  PROVE  MInv'
<1>1. /\ sentFrames' = sentFrames /\ got' = got /\ framer' = framer /\ reading' = TRUE
      /\ emitted' = emitted /\ ~Broken /\ (Avail >= Header => Avail < Size)
  BY DEF NextNone
<1>2. Stream' = Stream /\ Avail' = Avail /\ Size' = Size
  BY <1>1 DEF Stream, Avail, Size
<1>3. Broken' = Broken
  BY <1>2 DEF Broken
<1>4. FramerTypes'
  <2>1. reading' \in BOOLEAN
    BY <1>1, Zenon
  <2> QED
    BY <1>1, <1>2, <2>1, Zenon DEF MInv, FramerTypes
<1>5. BytesHeld'
  BY <1>1, <1>2 DEF MInv, BytesHeld
<1>6. InStep'
  BY <1>1 DEF MInv, InStep, InStepAt
<1>7. AfterDamage'
  BY <1>1 DEF MInv, AfterDamage, DamagedAt
<1>8. Drained'
  BY <1>1, <1>2, <1>3 DEF Drained
<1> QED
  BY <1>4, <1>5, <1>6, <1>7, <1>8 DEF MInv

(* In step, the frames returned and what is held are all that was read.        *)
LEMMA HeldInStep ==
  ASSUME FramerTypes, BytesHeld, framer.reset_count = 0, NEW k \in 0 .. Len(sentFrames), InStepAt(k)
  PROVE  Len(Bytes(sentFrames, k)) \in Nat /\ Len(Bytes(sentFrames, k)) + Avail = got
<1>1. PICK fs \in Streams : fs = sentFrames
  BY DEF FramerTypes
<1>2. k \in 0 .. Len(fs)
  BY <1>1
<1>3. PICK p \in Nat : p = Len(Bytes(fs, k))
  BY <1>2, StreamShape
<1>4. framer.lost = 0
  BY DEF BytesHeld
<1>5. Len(FlattenSeq(emitted)) = p
  BY <1>1, <1>3 DEF InStepAt, Bytes
<1>6. got = p + 0 + Avail
  BY <1>4, <1>5 DEF BytesHeld
<1>7. Avail \in Nat
  BY SizeSeen
<1>8. p + Avail = got
  BY <1>6, <1>7
<1> QED
  BY <1>1, <1>3, <1>8

(* In step, next reads the header of the next frame, and returns that frame.   *)
LEMMA SeenInStep ==
  ASSUME FramerTypes, BytesHeld, framer.reset_count = 0, NEW k \in 0 .. Len(sentFrames), InStepAt(k),
         Avail >= Header
  PROVE  /\ k + 1 \in 1 .. Len(sentFrames)
         /\ Size = ParseFrameSize(sentFrames[k + 1])
         /\ Len(sentFrames[k + 1]) <= Avail =>
              SubSeq(framer.buf, framer.head + 1, framer.head + Len(sentFrames[k + 1])) = sentFrames[k + 1]
<1>1. PICK fs \in Streams : fs = sentFrames
  BY DEF FramerTypes
<1>2. k \in Nat /\ k <= Len(fs) /\ Len(fs) \in Nat
  <2>1. k \in 0 .. Len(fs)
    BY <1>1
  <2> QED
    BY <2>1, StreamShape
<1>3. PICK b \in Seq(Byte) : b = framer.buf
  BY DEF FramerTypes
<1>4. PICK h \in Nat : h = framer.head
  BY DEF FramerTypes
<1>5. PICK av \in Nat : av = Avail
  BY SizeSeen
<1>6. h + av = Len(b) /\ av >= Header
  BY <1>3, <1>4, <1>5, SizeSeen
<1>7. Len(Bytes(fs, k)) + av = got
  BY <1>1, <1>5, HeldInStep
<1>8. Len(Bytes(fs, k)) + av <= Len(FlattenSeq(fs))
  BY <1>1, <1>7 DEF FramerTypes, Stream
<1>9. Window(b, h, fs, k)
  BY <1>1, <1>3, <1>4 DEF InStepAt
<1>10. /\ k + 1 <= Len(fs)
       /\ ParseFrameSize(SubSeq(b, h + 1, h + Header)) = ParseFrameSize(fs[k + 1])
       /\ Len(fs[k + 1]) <= av => SubSeq(b, h + 1, h + Len(fs[k + 1])) = fs[k + 1]
  BY <1>2, <1>6, <1>8, <1>9, FrameSeen
<1>11. k + 1 \in 1 .. Len(fs)
  BY <1>2, <1>10
<1>12. Size = ParseFrameSize(SubSeq(b, h + 1, h + Header))
  BY <1>3, <1>4 DEF Size
<1> QED
  BY <1>1, <1>3, <1>4, <1>5, <1>10, <1>11, <1>12

(* A header that is not plausible: Framer::next drops the buffer.              *)
LEMMA ResetKeeps ==
  ASSUME MInv, NextReset
  PROVE  MInv'
<1>1. FramerTypes /\ BytesHeld /\ InStep /\ AfterDamage
  BY DEF MInv
<1>2. PICK av \in Nat : av = Avail
  BY <1>1, SizeSeen
<1>3. PICK c \in Nat : c = framer.reset_count
  BY <1>1 DEF FramerTypes
<1>4. PICK l \in Nat : l = framer.lost
  BY <1>1 DEF FramerTypes
<1>5. /\ framer' = [buf |-> << >>, head |-> 0, reset_count |-> c + 1, lost |-> l + av]
      /\ sentFrames' = sentFrames /\ got' = got /\ emitted' = emitted /\ reading' = TRUE
  BY <1>2, <1>3, <1>4 DEF NextReset
<1>6. av >= 8 /\ (Size = None \/ Size > MaxFrameBytes)
  BY <1>2 DEF NextReset, Broken, Header
<1>7. << >> \in Seq(Byte) /\ Len(<< >>) = 0
  OBVIOUS
<1>8. /\ framer'.buf = << >> /\ framer'.head = 0 /\ framer'.reset_count = c + 1 /\ framer'.lost = l + av
      /\ framer' \in [buf : Seq(Byte), head : Nat, reset_count : Nat, lost : Nat]
  BY <1>5, <1>7
<1>9. Avail' = 0
  BY <1>7, <1>8 DEF Avail
<1>10. FramerTypes'
  <2>1. framer'.head <= Len(framer'.buf)
    BY <1>7, <1>8
  <2>2. reading' \in BOOLEAN
    BY <1>5, Zenon
  <2>3. Stream' = Stream
    BY <1>5 DEF Stream
  <2> QED
    BY <1>1, <1>5, <1>8, <2>1, <2>2, <2>3, Zenon DEF FramerTypes
<1>11. BytesHeld'
  <2>1. PICK x : x = Len(FlattenSeq(emitted))
    OBVIOUS
  <2>2. x = Len(FlattenSeq(emitted'))
    BY <1>5, <2>1
  <2>3. x \in Nat
    <3>1. emitted \in Seq(Seq(Byte)) /\ << >> \in Seq(Byte)
      BY <1>1, <1>7 DEF FramerTypes
    <3>2. FlattenSeq(emitted) \in Seq(Byte)
      BY <3>1, FlattenAppend
    <3> QED
      BY <2>1, <3>2
  <2>4. got = x + l + av
    BY <1>1, <1>2, <1>4, <2>1 DEF BytesHeld
  <2>5. x + l + av = x + (l + av) + 0
    BY <2>3
  <2>6. c + 1 # 0 /\ l + av # 0
    BY <1>6
  <2> QED
    BY <1>5, <1>8, <1>9, <2>2, <2>4, <2>5, <2>6 DEF BytesHeld
<1>12. InStep'
  <2>1. c + 1 # 0
    OBVIOUS
  <2> QED
    BY <1>8, <2>1 DEF InStep
<1>13. AfterDamage'
  <2>1. \E k \in 0 .. Len(sentFrames) - 1 : DamagedAt(k)
    <3>1. CASE c # 0
      BY <1>1, <1>3, <3>1 DEF AfterDamage
    <3>2. CASE c = 0
      <4>1. PICK k \in 0 .. Len(sentFrames) : InStepAt(k)
        BY <1>1, <1>3, <3>2 DEF InStep
      <4>2. k + 1 \in 1 .. Len(sentFrames) /\ Size = ParseFrameSize(sentFrames[k + 1])
        <5>1. Avail >= Header /\ framer.reset_count = 0
          BY <1>2, <1>3, <1>6, <3>2 DEF Header
        <5> QED
          BY <1>1, <4>1, <5>1, SeenInStep
      <4>3. Implausible(sentFrames[k + 1])
        <5>1. PICK fs \in Streams : fs = sentFrames
          BY <1>1 DEF FramerTypes
        <5>2. PICK i \in 1 .. Len(fs) : i = k + 1
          BY <4>2, <5>1
        <5>3. Plausible(fs[i]) \/ Implausible(fs[i])
          BY StreamsAssumption
        <5>4. Len(fs[i]) \in Nat /\ Len(fs[i]) >= 8
          BY StreamsAssumption DEF Header
        <5>5. ASSUME Plausible(fs[i]) PROVE FALSE
          <6>1. Size = Len(fs[i]) /\ Len(fs[i]) <= MaxFrameBytes
            BY <4>2, <5>1, <5>2, <5>5, KindsParsed
          <6> QED
            BY <1>6, <5>4, <6>1, MfmAssumption DEF None
        <5> QED
          BY <5>1, <5>2, <5>3, <5>5
      <4>4. sentFrames \in Seq(Seq(Byte)) /\ Len(sentFrames) \in Nat
        BY <1>1, StreamsAssumption DEF FramerTypes
      <4>5. k \in 0 .. Len(sentFrames) - 1
        BY <4>2, <4>4
      <4>6. Begins(emitted, SubSeq(sentFrames, 1, k))
        <5>1. emitted = SubSeq(sentFrames, 1, k) /\ emitted \in Seq(Seq(Byte))
          BY <1>1, <4>1 DEF InStepAt, FramerTypes
        <5>2. Len(emitted) <= Len(emitted)
          BY <5>1
        <5> QED
          BY <5>1, <5>2 DEF Begins
      <4> QED
        BY <4>3, <4>5, <4>6 DEF DamagedAt
    <3> QED
      BY <3>1, <3>2
  <2> QED
    BY <1>5, <2>1 DEF AfterDamage, DamagedAt
<1>14. Drained'
  <2>1. ~(Avail' >= Header)
    BY <1>9 DEF Header
  <2> QED
    BY <2>1 DEF Drained, Broken
<1> QED
  BY <1>10, <1>11, <1>12, <1>13, <1>14 DEF MInv

(* A whole frame: Framer::next returns it and steps over it.                   *)
LEMMA FrameKeeps ==
  ASSUME MInv, NextFrame
  PROVE  MInv'
<1>1. FramerTypes /\ BytesHeld /\ InStep /\ AfterDamage
  BY DEF MInv
<1>2. PICK r \in [buf : Seq(Byte), head : Nat, reset_count : Nat, lost : Nat] : r = framer
  BY <1>1 DEF FramerTypes
<1>3. PICK b \in Seq(Byte) : b = r.buf
  OBVIOUS
<1>4. PICK h \in Nat : h = r.head
  OBVIOUS
<1>5. PICK av \in Nat : av = Avail
  BY <1>1, SizeSeen
<1>6. h + av = Len(b)
  BY <1>1, <1>2, <1>3, <1>4, <1>5, SizeSeen
<1>7. ~reading /\ ~Broken /\ Avail >= Header /\ Avail >= Size
  BY DEF NextFrame
<1>8. PICK z \in Nat : z = Size /\ z >= Header /\ z <= MaxFrameBytes /\ z <= av
  <2>1. Size # None /\ ~(Size > MaxFrameBytes)
    BY <1>7 DEF Broken
  <2>2. Size \in Nat /\ Size >= Header
    BY <1>1, <1>7, <2>1, SizeSeen
  <2> QED
    BY <1>5, <1>7, <2>1, <2>2, MfmAssumption
<1>9. PICK e \in Nat : e = h + z
  OBVIOUS
<1>10. PICK x : x = SubSeq(b, h + 1, e)
  OBVIOUS
<1>11. x \in Seq(Byte) /\ Len(x) = z
  <2>1. h <= e /\ e <= Len(b) /\ e - h = z
    BY <1>6, <1>8, <1>9
  <2>2. SubSeq(b, h + 1, e) \in Seq(Byte) /\ Len(SubSeq(b, h + 1, e)) = e - h
    BY <2>1, SliceShape
  <2> QED
    BY <1>10, <2>1, <2>2
<1>12. /\ framer' = [r EXCEPT !.head = e]
       /\ emitted' = Append(emitted, x)
       /\ sentFrames' = sentFrames /\ got' = got /\ reading' = reading
  BY <1>2, <1>3, <1>4, <1>8, <1>9, <1>10 DEF NextFrame
<1>13. /\ framer'.buf = b /\ framer'.head = e
       /\ framer'.reset_count = r.reset_count /\ framer'.lost = r.lost
       /\ framer' \in [buf : Seq(Byte), head : Nat, reset_count : Nat, lost : Nat]
  BY <1>3, <1>12
<1>14. Avail' = av - z /\ e <= Len(b)
  BY <1>6, <1>8, <1>9, <1>13 DEF Avail
<1>15. FramerTypes'
  <2>1. framer'.head <= Len(framer'.buf)
    BY <1>13, <1>14
  <2>2. Stream' = Stream
    BY <1>12 DEF Stream
  <2>3. emitted' \in Seq(Seq(Byte))
    BY <1>1, <1>11, <1>12 DEF FramerTypes
  <2> QED
    BY <1>1, <1>12, <1>13, <2>1, <2>2, <2>3, Zenon DEF FramerTypes
<1>16. BytesHeld'
  <2>1. emitted \in Seq(Seq(Byte))
    BY <1>1 DEF FramerTypes
  <2>2. FlattenSeq(emitted) \in Seq(Byte) /\ FlattenSeq(Append(emitted, x)) = FlattenSeq(emitted) \o x
    BY <1>11, <2>1, FlattenAppend
  <2>3. PICK y \in Seq(Byte) : y = FlattenSeq(emitted)
    BY <2>2
  <2>4. Len(y \o x) = Len(y) + z /\ Len(y) \in Nat
    <3>1. x \in Seq(Byte)
      BY <1>11
    <3>2. Len(y \o x) = Len(y) + Len(x) /\ Len(y) \in Nat
      BY <3>1
    <3> QED
      BY <1>11, <3>2
  <2>5. Len(FlattenSeq(emitted')) = Len(y) + z
    BY <1>12, <2>2, <2>3, <2>4
  <2>6. got = Len(y) + r.lost + av /\ (r.lost = 0 <=> r.reset_count = 0)
    BY <1>1, <1>2, <1>5, <2>3 DEF BytesHeld
  <2>7. Len(y) + r.lost + av = (Len(y) + z) + r.lost + (av - z)
    BY <2>4
  <2> QED
    BY <1>12, <1>13, <1>14, <2>5, <2>6, <2>7 DEF BytesHeld
<1>17. InStep'
  <2>1. SUFFICES ASSUME framer'.reset_count = 0 PROVE \E k \in 0 .. Len(sentFrames') : InStepAt(k)'
    BY DEF InStep
  <2>2. framer.reset_count = 0
    BY <1>2, <1>13, <2>1
  <2>3. PICK k \in 0 .. Len(sentFrames) : InStepAt(k)
    BY <1>1, <2>2 DEF InStep
  <2>4. PICK fs \in Streams : fs = sentFrames
    BY <1>1 DEF FramerTypes
  <2>5. k + 1 \in 1 .. Len(fs) /\ z = ParseFrameSize(fs[k + 1])
        /\ (Len(fs[k + 1]) <= av => SubSeq(b, h + 1, h + Len(fs[k + 1])) = fs[k + 1])
    BY <1>1, <1>2, <1>3, <1>4, <1>5, <1>7, <1>8, <2>2, <2>3, <2>4, SeenInStep
  <2>6. fs \in Seq(Seq(Byte)) /\ Len(fs) \in Nat /\ k \in 0 .. Len(fs) /\ k \in Nat
    BY <2>4, StreamsAssumption
  <2>7. Plausible(fs[k + 1])
    <3>1. Plausible(fs[k + 1]) \/ Implausible(fs[k + 1])
      BY <2>5, StreamsAssumption
    <3>2. z # None /\ ~(z > MaxFrameBytes)
      BY <1>8, MfmAssumption DEF None
    <3> QED
      BY <2>5, <3>1, <3>2, KindsParsed
  <2>8. z = Len(fs[k + 1])
    BY <2>5, <2>7, KindsParsed
  <2>9. x = fs[k + 1]
    BY <1>8, <1>9, <1>10, <2>5, <2>8
  <2>10. SubSeq(fs, 1, k + 1) = Append(SubSeq(fs, 1, k), fs[k + 1])
    BY <2>5, <2>6, FirstShape
  <2>11. emitted' = SubSeq(fs, 1, k + 1)
    BY <1>12, <2>3, <2>4, <2>9, <2>10 DEF InStepAt
  <2>12. \A i \in 1 .. k + 1 : Plausible(fs[i])
    <3>1. \A i \in 1 .. k : Plausible(fs[i])
      BY <2>3, <2>4 DEF InStepAt
    <3>2. \A i \in 1 .. k + 1 : i \in 1 .. k \/ i = k + 1
      BY <2>6
    <3> QED
      BY <2>7, <3>1, <3>2, Zenon
  <2>13. Window(b, e, fs, k + 1)
    <3>1. PICK p \in Nat : p = Len(Bytes(fs, k))
      BY <2>6, StreamShape
    <3>2. Len(Bytes(fs, k + 1)) = p + z
      BY <2>5, <2>6, <2>8, <3>1, FrameLies
    <3>3. PICK str : str = FlattenSeq(fs)
      OBVIOUS
    <3>4. \A i \in 1 .. av : b[h + i] = str[p + i]
      <4>1. Len(b) - h = av
        BY <1>6
      <4> QED
        BY <1>2, <1>3, <1>4, <2>3, <2>4, <3>1, <3>3, <4>1 DEF InStepAt, Window
    <3>5. ASSUME NEW i \in 1 .. av - z PROVE b[e + i] = str[(p + z) + i]
      <4>1. PICK j \in 1 .. av : j = z + i
        BY <1>8
      <4>2. e + i = h + j /\ (p + z) + i = p + j
        BY <1>9, <4>1
      <4> QED
        BY <3>4, <4>2
    <3>6. Len(b) - e = av - z
      BY <1>6, <1>9
    <3> QED
      BY <3>2, <3>3, <3>5, <3>6 DEF Window
  <2>14. InStepAt(k + 1)'
    BY <1>12, <1>13, <2>4, <2>11, <2>12, <2>13 DEF InStepAt
  <2>15. k + 1 \in 0 .. Len(sentFrames')
    BY <1>12, <2>4, <2>5, <2>6
  <2> QED
    BY <2>14, <2>15
<1>18. AfterDamage'
  <2>1. SUFFICES ASSUME framer'.reset_count # 0
                 PROVE  \E k \in 0 .. Len(sentFrames') - 1 : DamagedAt(k)'
    BY DEF AfterDamage
  <2>2. PICK k \in 0 .. Len(sentFrames) - 1 : DamagedAt(k)
    BY <1>1, <1>2, <1>13, <2>1 DEF AfterDamage
  <2>3. PICK em \in Seq(Seq(Byte)) : em = emitted
    BY <1>1 DEF FramerTypes
  <2>4. PICK fs \in Streams : fs = sentFrames
    BY <1>1 DEF FramerTypes
  <2>5. fs \in Seq(Seq(Byte)) /\ Len(fs) \in Nat /\ k \in Nat /\ k <= Len(fs)
    BY <2>4, StreamsAssumption
  <2>6. PICK s \in Seq(Seq(Byte)) : s = SubSeq(fs, 1, k)
    BY <2>5, FirstShape
  <2>7. Len(s) <= Len(em) /\ \A i \in 1 .. Len(s) : em[i] = s[i]
    BY <2>2, <2>3, <2>4, <2>6 DEF DamagedAt, Begins
  <2>8. /\ Len(Append(em, x)) = Len(em) + 1 /\ Len(em) \in Nat /\ Len(s) \in Nat
        /\ \A i \in 1 .. Len(em) : Append(em, x)[i] = em[i]
    BY <1>11
  <2>9. \A i \in 1 .. Len(s) : i \in 1 .. Len(em)
    BY <2>7, <2>8
  <2>10. Begins(Append(em, x), s)
    <3>1. Len(s) <= Len(Append(em, x))
      BY <2>7, <2>8
    <3>2. \A i \in 1 .. Len(s) : Append(em, x)[i] = s[i]
      BY <2>7, <2>8, <2>9, Zenon
    <3> QED
      BY <3>1, <3>2 DEF Begins
  <2>11. DamagedAt(k)'
    BY <1>12, <2>2, <2>3, <2>4, <2>6, <2>10 DEF DamagedAt
  <2> QED
    BY <1>12, <2>11
<1>19. Drained'
  BY <1>7, <1>12 DEF Drained
<1> QED
  BY <1>15, <1>16, <1>17, <1>18, <1>19 DEF MInv

(* A sequence that begins with the first m frames begins with the first k.     *)
LEMMA BeginsLess ==
  ASSUME NEW S, NEW fs \in Seq(S), NEW em \in Seq(S), NEW m \in Nat, m <= Len(fs),
         NEW k \in Nat, k <= m, Begins(em, SubSeq(fs, 1, m))
  PROVE  IsPrefix(SubSeq(fs, 1, k), em)
<1>1. PICK s \in Seq(S) : s = SubSeq(fs, 1, m)
  BY FirstShape
<1>2. k <= Len(fs)
  OBVIOUS
<1>3. PICK t \in Seq(S) : t = SubSeq(fs, 1, k)
  BY <1>2, FirstShape
<1>4. Len(s) = m /\ \A i \in 1 .. m : s[i] = fs[i]
  BY <1>1, FirstShape
<1>5. Len(t) = k /\ \A i \in 1 .. k : t[i] = fs[i]
  BY <1>2, <1>3, FirstShape
<1>6. m <= Len(em) /\ \A i \in 1 .. m : em[i] = s[i]
  BY <1>1, <1>4 DEF Begins
<1>7. \A i \in 1 .. k : i \in 1 .. m
  OBVIOUS
<1>8. \A i \in 1 .. Len(t) : em[i] = t[i]
  BY <1>4, <1>5, <1>6, <1>7, Zenon
<1>9. Len(t) <= Len(em)
  BY <1>5, <1>6
<1>10. Begins(em, t)
  BY <1>8, <1>9 DEF Begins
<1> QED
  BY <1>3, <1>10, PrefixBegins

(* Once a read is drained, the frames that came have come out.                 *)
LEMMA DrainedIsExact ==
  ASSUME MInv
  PROVE  FramesExact
<1>1. FramerTypes /\ BytesHeld /\ InStep /\ AfterDamage /\ Drained
  BY DEF MInv
<1>2. SUFFICES ASSUME reading
               PROVE  /\ \A k \in 0 .. Len(sentFrames) : Came(k) => IsPrefix(SubSeq(sentFrames, 1, k), emitted)
                      /\ framer.reset_count = 0 =>
                           \E k \in 0 .. Len(sentFrames) : Came(k) /\ emitted = SubSeq(sentFrames, 1, k)
  BY DEF FramesExact
<1>3. PICK fs \in Streams : fs = sentFrames
  BY <1>1 DEF FramerTypes
<1>4. PICK em \in Seq(Seq(Byte)) : em = emitted
  BY <1>1 DEF FramerTypes
<1>5. PICK av \in Nat : av = Avail
  BY <1>1, SizeSeen
<1>6. ~Broken /\ (Avail >= Header => Avail < Size)
  BY <1>1, <1>2 DEF Drained
<1>7. fs \in Seq(Seq(Byte)) /\ Len(fs) \in Nat
  BY StreamsAssumption
<1>8. CASE framer.reset_count = 0
  <2>1. PICK m \in 0 .. Len(fs) : InStepAt(m)
    BY <1>1, <1>3, <1>8 DEF InStep
  <2>2. /\ em = SubSeq(fs, 1, m) /\ \A i \in 1 .. m : Plausible(fs[i])
    BY <1>3, <1>4, <2>1 DEF InStepAt
  <2>3. PICK p \in Nat : p = Len(Bytes(fs, m))
    BY StreamShape
  <2>4. p + av = got
    BY <1>1, <1>3, <1>5, <1>8, <2>1, <2>3, HeldInStep
  <2>5. m \in Nat /\ m <= Len(fs)
    BY <1>7
  <2>6. Came(m) /\ emitted = SubSeq(sentFrames, 1, m)
    <3>1. p <= got
      BY <2>4
    <3>2. Len(FlattenSeq(SubSeq(sentFrames, 1, m))) <= got
      BY <1>3, <2>3, <3>1 DEF Bytes
    <3> QED
      BY <1>3, <1>4, <2>2, <3>2 DEF Came
  <2>7. ASSUME NEW k \in 0 .. Len(fs), Came(k) PROVE k <= m
    <3>1. SUFFICES ASSUME m + 1 <= k PROVE FALSE
      BY <2>5
    <3>2. k \in Nat /\ k <= Len(fs) /\ m + 1 <= Len(fs) /\ m + 1 \in Nat /\ m + 1 \in 1 .. k /\ m + 1 \in 1 .. Len(fs)
      BY <1>7, <2>5, <3>1
    <3>3. Plausible(fs[m + 1])
      BY <1>3, <2>7, <3>2 DEF Came
    <3>4. PICK z \in Nat : z = Len(fs[m + 1]) /\ z >= 8
      BY <1>7, <3>2, StreamsAssumption DEF Header
    <3>5. Len(Bytes(fs, m + 1)) = p + z
      BY <1>7, <2>3, <2>5, <3>2, <3>4, FrameLies
    <3>6. Begins(Bytes(fs, k), Bytes(fs, m + 1))
      BY <1>7, <3>1, <3>2, BytesBegin
    <3>7. Len(Bytes(fs, k)) \in Nat /\ Len(Bytes(fs, k)) <= got
      BY <1>3, <2>7, StreamShape DEF Came, Bytes
    <3>8. p + z <= Len(Bytes(fs, k))
      BY <3>5, <3>6 DEF Begins
    <3>9. got \in Nat
      BY <1>1 DEF FramerTypes
    <3>10. z <= av
      BY <2>4, <3>7, <3>8, <3>9
    <3>11. Avail >= Header
      BY <1>5, <3>4, <3>10 DEF Header
    <3>12. Size = ParseFrameSize(fs[m + 1])
      BY <1>1, <1>3, <1>8, <2>1, <3>11, SeenInStep
    <3>13. Size = z
      BY <3>2, <3>3, <3>4, <3>12, KindsParsed
    <3> QED
      BY <1>5, <1>6, <3>10, <3>11, <3>13
  <2>8. Begins(em, SubSeq(fs, 1, m))
    BY <2>2 DEF Begins
  <2>9. ASSUME NEW k \in 0 .. Len(fs), Came(k) PROVE IsPrefix(SubSeq(fs, 1, k), em)
    <3>1. k <= m /\ k \in Nat
      BY <1>7, <2>7, <2>9
    <3> QED
      BY <1>7, <2>5, <2>8, <3>1, BeginsLess
  <2> QED
    BY <1>3, <1>4, <2>6, <2>9
<1>9. CASE framer.reset_count # 0
  <2>1. PICK m \in 0 .. Len(fs) - 1 : DamagedAt(m)
    BY <1>1, <1>3, <1>9 DEF AfterDamage
  <2>2. Implausible(fs[m + 1]) /\ Begins(em, SubSeq(fs, 1, m))
    BY <1>3, <1>4, <2>1 DEF DamagedAt
  <2>3. m \in Nat /\ m <= Len(fs) /\ m + 1 \in 1 .. Len(fs)
    BY <1>7
  <2>4. ASSUME NEW k \in 0 .. Len(fs), Came(k) PROVE IsPrefix(SubSeq(fs, 1, k), em)
    <3>1. k \in Nat
      BY <1>7
    <3>2. k <= m
      <4>1. SUFFICES ASSUME m + 1 <= k PROVE FALSE
        BY <2>3, <3>1
      <4>2. m + 1 \in 1 .. k
        BY <2>3, <3>1, <4>1
      <4>3. Plausible(fs[m + 1])
        BY <1>3, <2>4, <4>2 DEF Came
      <4> QED
        BY <2>2, <2>3, <4>3, KindsParsed
    <3> QED
      BY <1>7, <2>2, <2>3, <3>1, <3>2, BeginsLess
  <2> QED
    BY <1>3, <1>4, <1>9, <2>4
<1> QED
  BY <1>8, <1>9

(* The invariant gives what the run checks.                                    *)
LEMMA FramerSound ==
  ASSUME MInv
  PROVE  FramingSound
<1>1. FramerTypes /\ BytesHeld /\ Drained
  BY DEF MInv
<1>2. MfmTypeOK
  <2>1. PICK fs \in Streams : fs = sentFrames
    BY <1>1 DEF FramerTypes
  <2>2. 0 \in 0 .. Len(fs)
    BY StreamsAssumption
  <2>3. Len(Stream) \in Nat
    BY <2>1, <2>2, StreamShape DEF Stream
  <2>4. got \in 0 .. Len(Stream)
    BY <1>1, <2>3 DEF FramerTypes
  <2>5. /\ framer.head \in 0 .. Len(framer.buf)
        /\ framer.reset_count \in Nat /\ framer.lost \in Nat
    BY <1>1 DEF FramerTypes
  <2> QED
    BY <1>1, <2>4, <2>5, Zenon DEF MfmTypeOK, FramerTypes
<1>3. BytesAccounted
  <2>1. framer.lost \in Nat /\ framer.reset_count \in Nat
    BY <1>1 DEF FramerTypes
  <2>2. (framer.lost > 0) <=> (framer.reset_count > 0)
    BY <1>1, <2>1 DEF BytesHeld
  <2>3. got = Len(FlattenSeq(emitted)) + framer.lost + Avail
    BY <1>1 DEF BytesHeld
  <2>4. ASSUME reading PROVE Avail < MaxFrameBytes
    <3>1. ~Broken /\ (Avail >= Header => Avail < Size)
      BY <1>1, <2>4 DEF Drained
    <3>2. Avail \in Nat /\ (Avail >= Header => Size = None \/ (Size \in Nat /\ Size >= Header))
      BY <1>1, SizeSeen
    <3>3. CASE Avail >= Header
      <4>1. Size # None /\ ~(Size > MaxFrameBytes)
        BY <3>1, <3>3 DEF Broken
      <4> QED
        BY <3>1, <3>2, <3>3, <4>1, MfmAssumption
    <3>4. CASE ~(Avail >= Header)
      BY <3>2, <3>4, MfmAssumption DEF Header
    <3> QED
      BY <3>3, <3>4
  <2>5. (framer.lost > 0) = (framer.reset_count > 0)
    BY <2>2
  <2> QED
    BY <2>3, <2>4, <2>5 DEF BytesAccounted
<1>4. FramesExact
  BY DrainedIsExact
<1> QED
  BY <1>2, <1>3, <1>4 DEF FramingSound

(* Every step keeps it.                                                        *)
LEMMA FramerStep ==
  ASSUME MInv, [MfmNext]_mfmVars
  PROVE  MInv'
<1>1. ASSUME NEW n \in 1 .. Len(Stream) - got, Push(n) PROVE MInv'
  BY <1>1, PushKeeps
<1>2. CASE NextNone
  BY <1>2, NoneKeeps
<1>3. CASE NextReset
  BY <1>3, ResetKeeps
<1>4. CASE NextFrame
  BY <1>4, FrameKeeps
<1>5. CASE Decode
  <2>1. UNCHANGED <<sentFrames, got, framer, reading, emitted>>
    BY <1>5 DEF Decode
  <2> QED
    BY <2>1, FramerRests
<1>6. CASE UNCHANGED mfmVars
  <2>1. UNCHANGED <<sentFrames, got, framer, reading, emitted>>
    BY <1>6 DEF mfmVars
  <2> QED
    BY <2>1, FramerRests
<1> QED
  BY <1>1, <1>2, <1>3, <1>4, <1>5, <1>6 DEF MfmNext

(* However a stream is cut into reads, the frames that arrived whole before    *)
(* the first implausible header have come out of Framer::next, in order and    *)
(* byte for byte, whenever the reader goes back to the socket; nothing else    *)
(* has without a counted reset; every byte read is accounted for and less than *)
(* one frame stays buffered.  For every stream of frames, every frame limit.   *)
THEOREM FramingProved == MfmSpec => []FramingSound
<1>1. MfmInit => MInv
  BY FramerStarts
<1>2. MInv /\ [MfmNext]_mfmVars => MInv'
  BY FramerStep
<1>3. MInv => FramingSound
  BY FramerSound
<1> QED
  BY <1>1, <1>2, <1>3, PTL DEF MfmSpec
==============================================================================
