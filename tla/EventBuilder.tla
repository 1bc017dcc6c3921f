---------------------------- MODULE EventBuilder ----------------------------
(* root-sink's event builder (src/tools/root_sink/eb_core.hpp) under the      *)
(* aggregation thread of root_sink.cxx, over one run.  Fragments of several   *)
(* sources (cobo, asad) are gathered by event index until an event is         *)
(* complete or its time is over, and come out in ascending order.             *)
(*                                                                            *)
(* A CoBo that went on without its ECC first sends what is left of its old    *)
(* acquisition, with high indices and times, and then starts again at 0.      *)
(* The builder must not mix the two: every source has an epoch, it is moved   *)
(* on when its indices and times start again (restart_source), when its times *)
(* fall into a newer epoch (join_epoch), or when fragments of it that wait    *)
(* turn out to be of the newer one (reattach_new_acquisition).                *)
EXTENDS Integers, Sequences, FiniteSets, SequencesExt

CONSTANTS
  ExpectedKeys,        \* expected_: the (cobo, asad) an event is complete with
  UnexpectedKeys,      \* others that send nevertheless
  Scripts,             \* what an expected source sends, in its order: sequences of [idx, time, acq]
  Strays,              \* and what one of the others does
  kRestartMinIdx,      \* restarts are seen only after an index above this one
  kRestartMinTimeGap,  \* and with a step back in time greater than this
  BuildTimeout         \* build_timeout_ms, in steps of the clock

SrcKeys == ExpectedKeys \cup UnexpectedKeys

ASSUME EventBuilderAssumption ==
  /\ ExpectedKeys # {} /\ ExpectedKeys \cap UnexpectedKeys = {}
  /\ kRestartMinIdx \in Nat /\ kRestartMinTimeGap \in Nat /\ BuildTimeout \in Nat

VARIABLES
  script,   \* for every source, what it has still to send
  fed,      \* history: the fragments fed so far
  polled,   \* the batch that is being consumed has been polled
  flushed,  \* the EOS that closes the run has been consumed
  eb        \* EventBuilder, its output and what it put aside

ebVars == <<script, fed, polled, flushed, eb>>

-----------------------------------------------------------------------------
NoTime == -1
NoSource == [epoch |-> 0, max_seen |-> 0, floor |-> NoTime]
NoEpoch  == [upto |-> -1, ids |-> {}, floor |-> NoTime, ceil |-> NoTime]

(* rs.epochs[e] makes the epoch it does not find.                             *)
EpochOf(b, e) == IF e \in DOMAIN b.epochs THEN b.epochs[e] ELSE NoEpoch
SetEpoch(b, e, es) ==
  [b EXCEPT !.epochs = [x \in DOMAIN @ \cup {e} |-> IF x = e THEN es ELSE @[x]]]

Lower(s, t) == IF s = NoTime \/ t < s THEN t ELSE s
Higher(s, t) == IF s = NoTime \/ t > s THEN t ELSE s
Larger(a, b) == IF a >= b THEN a ELSE b

(* Pending::seen: the expected ones among the sources of the fragments.       *)
SeenOf(ev) == {ev.fragments[i].src : i \in DOMAIN ev.fragments} \cap ExpectedKeys
is_complete(ev) == SeenOf(ev) = ExpectedKeys

(* The age of an event stands for now_ms - first_arrival_ms; past the timeout *)
(* it counts no further.                                                      *)
timed_out(ev) == ev.age > BuildTimeout

NoBuilder ==
  [sources |-> [k \in SrcKeys |-> NoSource], epochs |-> << >>, epoch |-> 0, max_epoch |-> 0,
   pending |-> << >>, out |-> << >>, late |-> {}, dropped |-> << >>,
   source_restarts |-> [k \in SrcKeys |-> 0], joins |-> [k \in SrcKeys |-> 0]]

ScriptsOfSources ==
  {f \in [SrcKeys -> Scripts \cup Strays] :
     \A k \in SrcKeys : f[k] \in IF k \in ExpectedKeys THEN Scripts ELSE Strays}

BuilderInit ==
  /\ script \in ScriptsOfSources
  /\ fed = {} /\ polled = TRUE /\ flushed = FALSE
  /\ eb = NoBuilder

-----------------------------------------------------------------------------
(* Emitting                                                                   *)

(* EventKey::operator<, as far as one run goes: by epoch, then by index.      *)
KeyLess(k, l) == k[1] < l[1] \/ (k[1] = l[1] /\ k[2] < l[2])

Without(pending, ks) == [k \in DOMAIN pending \ ks |-> pending[k]]

(* std::stable_sort by (cobo, asad): only which fragments there are is kept.  *)
Built(ev, k) ==
  [epoch |-> k[1], idx |-> k[2], incomplete |-> ~is_complete(ev), fragments |-> ToSet(ev.fragments)]

(* emitted_in_another_epoch                                                   *)
EmittedElsewhere(b, k) == \E e \in DOMAIN b.epochs \ {k[1]} : k[2] \in b.epochs[e].ids

(* An event whose number another epoch has used, before or just now, is not   *)
(* written, only counted (restart_duplicate_events).                          *)
Duplicate(b, ks, k) ==
  \/ EmittedElsewhere(b, k)
  \/ \E l \in ks : l[2] = k[2] /\ l[1] < k[1] /\ ~EmittedElsewhere(b, l)

InOrder(ks) ==
  [i \in 1 .. Cardinality(ks) |-> CHOOSE k \in ks : Cardinality({l \in ks : KeyLess(l, k)}) = i - 1]

BuiltEvents(b, ks) == LET o == InOrder(ks) IN [i \in DOMAIN o |-> Built(b.pending[o[i]], o[i])]

(* emit_into of the events ks, one after the other in the order of the map:   *)
(* the mark of an epoch goes up also when an event of it is not written.      *)
EmitAll(b, ks) ==
  LET twice == {k \in ks : Duplicate(b, ks, k)}
      of(e, S) == {k[2] : k \in {k \in S : k[1] = e}}
      after(e) ==
        LET es == EpochOf(b, e)
        IN  IF of(e, ks) = {} THEN es
            ELSE [es EXCEPT !.upto = CHOOSE i \in of(e, ks) : \A j \in of(e, ks) : j <= i,
                            !.ids = @ \cup of(e, ks \ twice)]
  IN  [b EXCEPT !.epochs = [e \in DOMAIN @ \cup {k[1] : k \in ks} |-> after(e)],
                !.pending = Without(@, ks),
                !.out = @ \o BuiltEvents(b, ks \ twice),
                !.dropped = @ \o BuiltEvents(b, twice)]

(* poll: in every epoch the events before the first one that is neither       *)
(* complete nor over its time.                                                *)
Emittable(b, k) ==
  \A l \in DOMAIN b.pending :
    l[1] = k[1] /\ l[2] <= k[2] => is_complete(b.pending[l]) \/ timed_out(b.pending[l])

Polled(b) == EmitAll(b, {k \in DOMAIN b.pending : Emittable(b, k)})

-----------------------------------------------------------------------------
(* Epochs                                                                     *)

EnterEpoch(e) == [NoSource EXCEPT !.epoch = e]

(* advance_run_epoch, retire_epoch: the run's epoch is the lowest of its      *)
(* expected sources; what waits in the epochs left behind is pushed out.      *)
AdvanceRunEpoch(b) ==
  LET epochs == {b.sources[k].epoch : k \in ExpectedKeys}
      lo == CHOOSE e \in epochs : \A x \in epochs : e <= x
  IN  IF lo = b.epoch THEN b
      ELSE [EmitAll(b, {k \in DOMAIN b.pending : k[1] < lo})
              EXCEPT !.epoch = lo]

(* Mutant: the fragments of a source that wait and are older in time than the *)
(* restarted one's are moved however far from the new acquisition they are.   *)
BelongsToNew_AnyOlder(b, from, k, f, floor_old, t0) ==
  /\ f.src # k /\ b.sources[f.src].epoch = from
  /\ f.time + kRestartMinTimeGap < floor_old
  /\ EpochOf(b, from + 1).upto < f.idx

(* The fragments waiting in epoch from that belong to the acquisition which   *)
(* source k has begun: of a source that is still there, nearer in time to the *)
(* new beginning t0 than to what is left of the old acquisition.              *)
BelongsToNew(b, from, k, f, floor_old, t0) ==
  /\ f.src # k /\ b.sources[f.src].epoch = from
  /\ f.time + kRestartMinTimeGap < floor_old
  /\ f.time < t0 + (floor_old - t0) \div 2
  /\ EpochOf(b, from + 1).upto < f.idx

(* reattach_new_acquisition: they go to the same index of the next epoch, and *)
(* their sources with them.                                                   *)
ReattachNewAcquisition(b, k, from, floor_old, t0) ==
  LET to == from + 1
      old == {key \in DOMAIN b.pending : key[1] = from}
      new(f) == BelongsToNew(b, from, k, f, floor_old, t0)
      moved(key) == SelectSeq(b.pending[key].fragments, new)
      kept(key) == SelectSeq(b.pending[key].fragments, LAMBDA f : ~new(f))
      from_idx == {key[2] : key \in {key \in old : moved(key) # << >>}}
      at(key) == IF key \in DOMAIN b.pending THEN b.pending[key].fragments ELSE << >>
      all == UNION {ToSet(moved(key)) : key \in old}
      times == {f.time : f \in all}
      mine(s) == {f \in all : f.src = s}
      least(T) == CHOOSE t \in T : \A u \in T : t <= u
      most(T) == CHOOSE t \in T : \A u \in T : u <= t
      pending ==
        [key \in {key \in DOMAIN b.pending : key \in old => kept(key) # << >>}
                   \cup {<<to, i>> : i \in from_idx} |->
           IF key \in old THEN [b.pending[key] EXCEPT !.fragments = kept(key)]
           ELSE IF key[1] = to /\ key[2] \in from_idx
           THEN [age |-> IF at(key) = << >> THEN b.pending[<<from, key[2]>>].age
                                            ELSE b.pending[key].age,
                 fragments |-> at(key) \o moved(<<from, key[2]>>)]
           ELSE b.pending[key]]
      es == EpochOf(b, to)
  IN  IF all = {} THEN SetEpoch(b, to, es)
      ELSE [SetEpoch(b, to, [es EXCEPT !.floor = Lower(@, least(times)), !.ceil = Higher(@, most(times))])
              EXCEPT !.pending = pending,
                     !.sources = [s \in SrcKeys |->
                        IF mine(s) = {} THEN @[s]
                        ELSE [epoch |-> to, max_seen |-> most({f.idx : f \in mine(s)}),
                              floor |-> least({f.time : f \in mine(s)})]],
                     !.joins = [s \in SrcKeys |-> IF mine(s) = {} THEN @[s] ELSE @[s] + 1]]

(* feed's first condition: index 0 after an index above kRestartMinIdx, and   *)
(* clearly before everything the source has sent in its epoch.                *)
SourceRestarts(b, f) ==
  /\ f.idx = 0 /\ b.sources[f.src].max_seen > kRestartMinIdx
  /\ b.sources[f.src].floor # NoTime
  /\ f.time + kRestartMinTimeGap < b.sources[f.src].floor

RestartSource(b, f) ==
  LET s == b.sources[f.src]
      c == [b EXCEPT !.sources[f.src] = EnterEpoch(s.epoch + 1),
                     !.max_epoch = Larger(@, s.epoch + 1),
                     !.source_restarts[f.src] = @ + 1]
  IN  AdvanceRunEpoch(ReattachNewAcquisition(c, f.src, s.epoch, s.floor, f.time))

(* in_epoch_band                                                              *)
InEpochBand(es, t) ==
  /\ es.floor # NoTime
  /\ t + kRestartMinTimeGap >= es.floor /\ t <= es.ceil + kRestartMinTimeGap

(* feed's second condition, and join_epoch                                    *)
Joins(b, f) ==
  b.max_epoch > b.sources[f.src].epoch /\ InEpochBand(EpochOf(b, b.max_epoch), f.time)

JoinEpoch(b, f) ==
  AdvanceRunEpoch([b EXCEPT !.sources[f.src] = EnterEpoch(b.max_epoch), !.joins[f.src] = @ + 1])

-----------------------------------------------------------------------------
(* feed, when the epoch of the source is settled: late when its epoch has     *)
(* emitted the index or a later one, else kept with its event.                *)
LateFragment(b, f) == f.idx <= EpochOf(b, b.sources[f.src].epoch).upto

KeepFragment(b, f) ==
  LET e == b.sources[f.src].epoch
      k == <<e, f.idx>>
      es == EpochOf(b, e)
      ev == IF k \in DOMAIN b.pending
            THEN [b.pending[k] EXCEPT !.fragments = Append(@, f)]
            ELSE [age |-> 0, fragments |-> <<f>>]
  IN  [SetEpoch(b, e, [es EXCEPT !.floor = Lower(@, f.time), !.ceil = Higher(@, f.time)])
         EXCEPT !.pending = [x \in DOMAIN @ \cup {k} |-> IF x = k THEN ev ELSE @[x]],
                !.sources[f.src].floor = Lower(@, f.time),
                !.sources[f.src].max_seen = Larger(@, f.idx)]

Settled(b, f) ==
  LET c == IF SourceRestarts(b, f) THEN RestartSource(b, f) ELSE b
  IN  IF Joins(c, f) THEN JoinEpoch(c, f) ELSE c

(* One fragment of a batch.  What a retired epoch pushes out is taken and     *)
(* written before anything else (take_restart_flush).                         *)
FeedFragment(s) ==
  /\ script[s] # << >> /\ ~flushed
  /\ LET f == [src |-> s] @@ Head(script[s])
         b == Settled(eb, f)
     IN  /\ eb' = IF LateFragment(b, f) THEN [b EXCEPT !.late = @ \cup {f}] ELSE KeepFragment(b, f)
         /\ fed' = fed \cup {f}
  /\ script' = [script EXCEPT ![s] = Tail(@)]
  /\ polled' = FALSE
  /\ UNCHANGED flushed

(* The end of the batch, still at the time the batch was taken up at.         *)
PollBatch ==
  /\ ~polled /\ polled' = TRUE
  /\ eb' = Polled(eb)
  /\ UNCHANGED <<script, fed, flushed>>

(* kBuilderTickMs without a message, or time that passes between messages.    *)
PollIdle ==
  /\ polled /\ ~flushed /\ Polled(eb) # eb
  /\ eb' = Polled(eb)
  /\ UNCHANGED <<script, fed, polled, flushed>>

BuilderClock ==
  /\ polled /\ ~flushed /\ \E k \in DOMAIN eb.pending : ~timed_out(eb.pending[k])
  /\ eb' = [eb EXCEPT !.pending = [k \in DOMAIN @ |->
               IF timed_out(@[k]) THEN @[k] ELSE [@[k] EXCEPT !.age = @ + 1]]]
  /\ UNCHANGED <<script, fed, polled, flushed>>

(* The decoder's EOS: flush, close_run.  The sources may have sent less than  *)
(* they meant to.                                                             *)
BuilderEos ==
  /\ polled /\ ~flushed /\ flushed' = TRUE
  /\ eb' = EmitAll(eb, DOMAIN eb.pending)
  /\ UNCHANGED <<script, fed, polled>>

BuilderNext ==
  \/ \E s \in SrcKeys : FeedFragment(s)
  \/ PollBatch \/ PollIdle \/ BuilderClock \/ BuilderEos

-----------------------------------------------------------------------------
(* The run's epoch is the lowest of its expected sources, none is above       *)
(* max_epoch, and no event waits without a fragment.                          *)
BuilderTypeOK ==
  /\ \A k \in SrcKeys : eb.sources[k].epoch \in 0 .. eb.max_epoch
  /\ \A k \in ExpectedKeys : eb.epoch <= eb.sources[k].epoch
  /\ \E k \in ExpectedKeys : eb.epoch = eb.sources[k].epoch
  /\ \A k \in DOMAIN eb.pending : eb.pending[k].fragments # << >>

(* Nothing is thrown away: every fragment fed is in exactly one event that    *)
(* waits, was written, or was put aside as a duplicate, or it was reported    *)
(* late, through restarts, joins and reattached events; and an event written  *)
(* as complete has a fragment of every expected source.                       *)
FragmentsAccounted ==
  LET waits(f) == {k \in DOMAIN eb.pending : f \in ToSet(eb.pending[k].fragments)}
      written(f) == {i \in DOMAIN eb.out : f \in eb.out[i].fragments}
      aside(f) == {i \in DOMAIN eb.dropped : f \in eb.dropped[i].fragments}
  IN  /\ \A f \in fed : Cardinality(waits(f)) + Cardinality(written(f)) + Cardinality(aside(f))
                           + (IF f \in eb.late THEN 1 ELSE 0) = 1
      /\ \A i \in DOMAIN eb.out :
           eb.out[i].incomplete = (\E k \in ExpectedKeys : \A f \in eb.out[i].fragments : f.src # k)

(* An event number is written once in a run, whatever restarts, and within an *)
(* epoch the numbers ascend: the recorder writes each entry for good.         *)
NumbersOnce ==
  \A i, j \in DOMAIN eb.out :
    i < j => /\ eb.out[i].idx # eb.out[j].idx
             /\ eb.out[i].epoch = eb.out[j].epoch => eb.out[i].idx < eb.out[j].idx

(* What the old acquisition left behind never gets into an event of a later   *)
(* epoch, whichever source restarts first, and whether a source gets there by *)
(* its own restart, by its times, or with the fragments that waited; and one  *)
(* new acquisition moves no source on twice.                                  *)
EpochsUnmixed ==
  /\ \A i \in DOMAIN eb.out : eb.out[i].epoch > 0 => \A f \in eb.out[i].fragments : f.acq = "new"
  /\ \A k \in SrcKeys : eb.source_restarts[k] + eb.joins[k] <= 1

(* Every fragment is in one place, every event number is written once, and  *)
(* no event mixes two acquisitions (eb_core.hpp).                           *)
EventsSound == BuilderTypeOK /\ FragmentsAccounted /\ NumbersOnce /\ EpochsUnmixed
=============================================================================
