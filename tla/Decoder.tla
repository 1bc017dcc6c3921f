------------------------------- MODULE Decoder -------------------------------
(* The decoder process (src/src/decoder.rs): one thread takes batches of raw   *)
(* frames of all sources off a PULL socket, decodes them and sends batches of  *)
(* fragments and, once every source has closed the run, its own EndOfStream.   *)
(* The thread holds the PULL port until it ends, so Arm, and with it Start,    *)
(* finds no thread of an earlier run.  A core (RunDecoder) lives until the     *)
(* next Start.  Times and indices are scaled down: see Gate and Gap.           *)
EXTENDS ComponentState, Sources, Integers, Sequences, FiniteSets, SequencesExt

CONSTANTS
  BatchFragments, \* params.batch_max_bytes, in fragments of unit length
  Gate,           \* RESTART_GATE_EVENT_IDX
  Gap,            \* RESTART_MIN_TIME_GAP
  StaleTime,      \* clock of an acquisition left running by an earlier run
  MaxStarted,     \* bound: Start commands
  MaxReceived,    \* bound: messages received after one Start
  MaxOddities     \* bound: skipped sequence numbers, frames that are no fragments,
                  \*   reconnections, stray sources, failing sends

ASSUME DecoderAssumption ==
  /\ BatchFragments \in Nat \ {0} /\ Gate \in Nat
  /\ Gap \in Nat \ {0}                            \* above the jitter of one tick
  /\ StaleTime \in Nat /\ StaleTime > Gap + 1       \* far enough back to be told apart
  /\ MaxStarted \in Nat /\ MaxReceived \in Nat /\ MaxOddities \in Nat

NoFloor == 2 * StaleTime + 99      \* u64::MAX, above every clock value

(* RunDecoder::new                                                             *)
NewSource == [epoch |-> 0, max_event_idx |-> 0, time_floor |-> NoFloor, data_frames |-> 0]

NewCore(r) ==
  [run |-> r, awaiting |-> FALSE, eos |-> {}, pending |-> << >>, out_seq |-> 0,
   next_seq |-> [s \in Expected |-> 0], source |-> [s \in Expected |-> NewSource],
   min_epoch |-> 0, acquisition_restarts |-> 0, before |-> [s \in Expected |-> -1],
   seq_gaps |-> 0, run_mismatches |-> 0, unsupported |-> 0, batches_out |-> 0,
   batches_abandoned |-> 0, eos_out |-> 0, eos_abandoned |-> 0, errored |-> FALSE]

VARIABLES
  dec,      \* the handler: state, joining, pull, started, fresh (no Start since Reset)
  work,     \* the thread: pc, stop, abandon, what it sends
  core,     \* the RunDecoder
  feed,     \* upstream, per source: run, next sequence number, clock, index ...
  decoded,  \* history: the fragments decoded since Start
  sent,     \* history: the outcome of every send since Start
  tally     \* history: messages, oddities, and per source EOS and restarts

decVars == <<dec, work, core, feed, decoded, sent, tally>>

Idle0 == [pc |-> "off", stop |-> FALSE, abandon |-> FALSE, eosNext |-> FALSE]

(* A source sends a fresh acquisition, or first the rest of a stale one.       *)
NewFeed(stale) == [run |-> 1, seq |-> 0, idx |-> IF stale THEN Gate ELSE 0,
                   time |-> IF stale THEN StaleTime ELSE 0, stale |-> stale, past |-> FALSE]

(* Bound: an upstream either restarts its acquisitions, fast enough that no   *)
(* deadline passes, or closes runs, so that the two do not multiply.          *)
Plans == {"restarts", "closes"}

NewTally(plan) ==
            [plan |-> plan, msgs |-> 0, odd |-> 0, eos |-> [s \in Expected |-> 0],
             restarts |-> [s \in Expected |-> 0], earlier |-> 0]

DecInit ==
  /\ dec = [state |-> "Idle", joining |-> FALSE, pull |-> FALSE, started |-> 0,
            fresh |-> TRUE, core |-> FALSE]
  /\ work = Idle0
  /\ core = NewCore(0)
  /\ feed = [s \in Expected |-> NewFeed(FALSE)]
  /\ decoded = << >> /\ sent = << >>
  /\ tally = NewTally("closes")

-----------------------------------------------------------------------------
(* RunDecoder                                                                 *)

(* check_run: after the own EndOfStream the next run number is adopted.       *)
CheckRun(c, r) ==
  IF c.awaiting THEN [c EXCEPT !.awaiting = FALSE, !.run = r]
  ELSE IF r = c.run THEN c
  ELSE [c EXCEPT !.run_mismatches = @ + 1, !.errored = TRUE]

MinOf(S) == CHOOSE x \in S : \A y \in S : x <= y

Restarted(e, ev) == /\ ev.idx = 0
                    /\ e.max_event_idx > Gate
                    /\ ev.time + Gap < e.time_floor

(* track_acquisition_restart: an epoch per source; a restart of the run is    *)
(* counted when the last expected source has made it.                         *)
TrackRestart(c, s, ev) ==
  LET e == [c.source[s] EXCEPT !.data_frames = @ + 1]
      again == [e EXCEPT !.epoch = @ + 1, !.max_event_idx = 0, !.time_floor = ev.time]
      same == [e EXCEPT !.max_event_idx = IF ev.idx > @ THEN ev.idx ELSE @,
                        !.time_floor = IF ev.time < @ THEN ev.time ELSE @]
      d == [c EXCEPT !.source[s] = again,
                     !.before[s] = IF @ = -1 THEN e.data_frames - 1 ELSE @]
      lowest == MinOf({d.source[x].epoch : x \in Expected})
  IN  IF ~Restarted(e, ev) THEN [c EXCEPT !.source[s] = same]
      ELSE IF lowest > c.min_epoch
           THEN [d EXCEPT !.min_epoch = lowest, !.acquisition_restarts = @ + 1]
           ELSE d

(* One frame: a fragment, a broken frame, or one that carries no event.       *)
DecodeFrame(c, kind, f, ev) ==
  CASE kind = "fragment"  -> LET d == TrackRestart(c, f.src, ev)
                             IN  [d EXCEPT !.pending = Append(@, f)]
    [] kind = "malformed" -> [c EXCEPT !.errored = TRUE]
    [] kind = "control"   -> [c EXCEPT !.unsupported = @ + 1]

DecodeBatch(c, s, r, seq, kind, f, ev) ==
  LET d == CheckRun(c, r)
      e == IF seq = d.next_seq[s] THEN d
           ELSE [d EXCEPT !.seq_gaps = @ + 1, !.errored = TRUE]
  IN  DecodeFrame([e EXCEPT !.next_seq[s] = seq + 1], kind, f, ev)

(* handle_eos.  An EndOfStream of another run is counted and taken.           *)
DecodeEos(c, s, r) == [CheckRun(c, r) EXCEPT !.eos = @ \cup {s}]

ClearPending(c) == [c EXCEPT !.pending = << >>]

(* Mutant: the numbering of the sources goes on over the barrier.             *)
Rearm_KeepsSeq(c) ==
  [c EXCEPT !.eos = {}, !.out_seq = 0, !.awaiting = TRUE,
            !.source = [s \in Expected |-> NewSource], !.min_epoch = 0, !.pending = << >>]

(* Mutant: the sources that closed the last run stay closed.                  *)
Rearm_KeepsEos(c) ==
  [c EXCEPT !.next_seq = [s \in Expected |-> 0], !.out_seq = 0,
            !.awaiting = TRUE, !.source = [s \in Expected |-> NewSource],
            !.min_epoch = 0, !.pending = << >>]

Rearm(c) ==
  [c EXCEPT !.eos = {}, !.next_seq = [s \in Expected |-> 0], !.out_seq = 0,
            !.awaiting = TRUE, !.source = [s \in Expected |-> NewSource],
            !.min_epoch = 0, !.pending = << >>]

(* eos_sent, eos_abandoned: the next run may begin in both cases.             *)
EosDone(c, ok) == Rearm(IF ok THEN [c EXCEPT !.eos_out = @ + 1]
                        ELSE [c EXCEPT !.eos_abandoned = @ + 1])

(* batch_sent, batch_abandoned: the number is used up in both cases.          *)
BatchSent(c) == ClearPending([c EXCEPT !.batches_out = @ + 1, !.out_seq = @ + 1])

BatchAbandoned(c) == ClearPending([c EXCEPT !.batches_abandoned = @ + 1, !.out_seq = @ + 1])

-----------------------------------------------------------------------------
(* The thread                                                                 *)

Slow == tally.plan = "closes"

(* The iteration of run_decoder_thread after a message: a full batch, or one  *)
(* whose deadline has passed, is sent; the last EndOfStream sends the rest    *)
(* and then the own one.                                                      *)
AfterMessage(c, full) ==
  LET closes == full = "eos" /\ Expected \subseteq c.eos
  IN  \E due \in BOOLEAN :
        /\ due => c.pending # << >> /\ Slow
        /\ work' = [work EXCEPT
             !.pc = IF c.pending # << >> /\ (closes \/ due \/ Len(c.pending) >= BatchFragments)
                    THEN "batch" ELSE IF closes THEN "eos" ELSE "loop",
             !.eosNext = closes]

Receiving == work.pc = "loop" /\ ~work.stop /\ tally.msgs < MaxReceived

(* The next event of a source: a later one, that of an AsAd which is one      *)
(* event behind, or the first one of a new acquisition, whose clock starts    *)
(* again.                                                                     *)
NextEvent(u, shape) ==
  CASE shape = "next"    -> [u EXCEPT !.idx = @ + 1, !.time = @ + 1,
                                      !.past = @ \/ u.idx >= Gate]
    [] shape = "behind"  -> u
    [] shape = "restart" -> [u EXCEPT !.idx = 0, !.time = 0, !.stale = FALSE, !.past = FALSE]

ReceiveData ==
  /\ Receiving
  /\ \E s \in Expected, shape \in {"next", "behind", "restart"},
        kind \in {"fragment", "malformed", "control"}, skip \in {0, 1} :
       LET u == feed[s]
           v == NextEvent(u, shape)
           f == [src |-> s, run |-> u.run, n |-> Len(decoded) + 1]
           ev == IF shape = "behind" /\ u.idx > 0
                 THEN [idx |-> u.idx - 1, time |-> u.time - 1]
                 ELSE [idx |-> v.idx, time |-> v.time]
           odd == skip + IF kind = "fragment" THEN 0 ELSE 1
           c == DecodeBatch(core, s, u.run, u.seq + skip, kind, f, ev)
       IN  /\ kind # "fragment" => shape = "behind"
           /\ shape = "restart" => u.idx > 0
           /\ IF tally.plan = "restarts" THEN kind = "fragment" /\ skip = 0
              ELSE shape = "next" \/ kind # "fragment"
           /\ tally.odd + odd <= MaxOddities
           /\ core' = c
           /\ AfterMessage(c, "data")
           /\ feed' = [feed EXCEPT ![s] = [v EXCEPT !.seq = u.seq + skip + 1]]
           /\ decoded' = IF kind = "fragment" THEN Append(decoded, f) ELSE decoded
           /\ tally' = [tally EXCEPT !.msgs = @ + 1, !.odd = @ + odd,
                          !.restarts[s] = IF shape = "restart" /\ u.stale /\ u.past
                                          THEN @ + 1 ELSE @]
  /\ UNCHANGED <<dec, sent>>

(* The end of a connection: the next one begins another run, or, when the     *)
(* CoBo only reconnects, goes on with this one.                               *)
ReceiveEos ==
  /\ Receiving /\ tally.plan = "closes"
  /\ \E s \in Expected, on \in BOOLEAN :
       LET c == DecodeEos(core, s, feed[s].run)
       IN  /\ on => feed[s].seq > 0 /\ tally.odd < MaxOddities
           /\ core' = c
           /\ AfterMessage(c, "eos")
           /\ feed' = [feed EXCEPT ![s] = IF on THEN @ ELSE [NewFeed(FALSE) EXCEPT !.run = feed[s].run + 1]]
           /\ tally' = [tally EXCEPT !.msgs = @ + 1, !.odd = IF on THEN @ + 1 ELSE @,
                          !.eos[s] = @ + 1]
  /\ UNCHANGED <<dec, decoded, sent>>

(* An EndOfStream of a source that is not expected.                           *)
ReceiveStray ==
  /\ Receiving /\ tally.plan = "closes" /\ tally.odd < MaxOddities
  /\ LET c == DecodeEos(core, Stray, core.run)
     IN  core' = c /\ AfterMessage(c, "data")
  /\ tally' = [tally EXCEPT !.msgs = @ + 1, !.odd = @ + 1]
  /\ UNCHANGED <<dec, feed, decoded, sent>>

(* No message: the deadline of the pending batch.                             *)
Tick ==
  /\ work.pc = "loop" /\ ~work.stop /\ core.pending # << >> /\ Slow
  /\ work' = [work EXCEPT !.pc = "batch", !.eosNext = FALSE]
  /\ UNCHANGED <<dec, core, feed, decoded, sent, tally>>

SendIdle ==
  /\ work.pc = "loop" /\ ~work.stop /\ core.pending = << >> /\ Slow
  /\ work' = [work EXCEPT !.pc = "hb"]
  /\ UNCHANGED <<dec, core, feed, decoded, sent, tally>>

(* Mutant: Stop ends the thread with fragments pending.                       *)
LeaveLoop_Drops ==
  /\ work.pc = "loop" /\ work.stop
  /\ work' = [work EXCEPT !.pc = "off"]
  /\ UNCHANGED <<dec, core, feed, decoded, sent, tally>>

(* Stop seen: what is pending is sent, then the thread ends.                  *)
LeaveLoop ==
  /\ work.pc = "loop" /\ work.stop
  /\ work' = [work EXCEPT !.pc = IF core.pending = << >> THEN "off" ELSE "last"]
  /\ UNCHANGED <<dec, core, feed, decoded, sent, tally>>

(* send_pending, send_own_eos and send_heartbeat: the message was encoded     *)
(* from the core before, and the core learns the outcome after the send.      *)
Outcome(ok, odd) ==
  /\ work' = [work EXCEPT !.pc = CASE work.pc = "last" -> "off"
                                   [] work.pc = "batch" /\ work.eosNext -> "eos"
                                   [] OTHER -> "loop",
                          !.eosNext = FALSE]
  /\ sent' = IF work.pc = "hb" THEN sent
             ELSE Append(sent, [kind |-> IF work.pc = "eos" THEN "eos" ELSE "data", ok |-> ok,
                                run |-> core.run, seq |-> core.out_seq, frags |-> core.pending])
  /\ core' = CASE work.pc = "hb" -> core
               [] work.pc = "eos" -> EosDone(core, ok)
               [] OTHER -> IF ok THEN BatchSent(core) ELSE BatchAbandoned(core)
  /\ tally' = LET t == [tally EXCEPT !.odd = @ + odd]
              IN  IF work.pc # "eos" THEN t
                  ELSE [t EXCEPT !.restarts = [s \in Expected |-> 0],
                                 !.earlier = @ + MinOf({t.restarts[s] : s \in Expected})]
  /\ UNCHANGED <<dec, feed, decoded>>

Sending == work.pc \in {"batch", "eos", "hb", "last"}

(* The downstream takes the message.                                          *)
SendOk == Sending /\ Outcome(TRUE, 0)

(* send_lossless gives up on a full downstream only when Reset asked for it.  *)
SendAbandon == Sending /\ work.abandon /\ Outcome(FALSE, 0)

(* A socket that fails for good.                                              *)
SendFails ==
  /\ Sending /\ tally.odd < MaxOddities
  /\ Outcome(FALSE, 1)

-----------------------------------------------------------------------------
(* The command handler                                                        *)

DecLatched == IF CanTransition(dec.state, "Error") /\ dec.core /\ core.errored
              THEN "Error" ELSE dec.state

Ready == ~dec.joining

(* metrics_json: the losses the controller and the operator can see.          *)
Lost(c) == c.batches_abandoned + c.eos_abandoned

DecStatus ==
  /\ Ready
  /\ dec' = [dec EXCEPT !.state = DecLatched]
  /\ UNCHANGED <<work, core, feed, decoded, sent, tally>>

DecConfigure ==
  /\ Ready /\ Accepts(DecLatched, "Configure")
  /\ dec' = [dec EXCEPT !.state = "Configured"]
  /\ UNCHANGED <<work, core, feed, decoded, sent, tally>>

(* The bind fails while a thread holds the port.                              *)
DecArm ==
  /\ Ready /\ Accepts(DecLatched, "Arm") /\ work.pc = "off"
  /\ dec' = [dec EXCEPT !.state = "Armed", !.pull = TRUE]
  /\ UNCHANGED <<work, core, feed, decoded, sent, tally>>

(* build_push fails: the PULL socket is kept and Start may be tried again.    *)
DecStartFails ==
  /\ Ready /\ Accepts(DecLatched, "Start") /\ dec.pull
  /\ UNCHANGED decVars

DecStart ==
  /\ Ready /\ Accepts(DecLatched, "Start") /\ dec.pull
  /\ dec.started < MaxStarted
  /\ dec' = [dec EXCEPT !.state = "Running", !.pull = FALSE, !.started = @ + 1,
                        !.fresh = FALSE, !.core = TRUE]
  /\ work' = [Idle0 EXCEPT !.pc = "loop"]
  /\ core' = NewCore(dec.started + 1)
  /\ decoded' = << >> /\ sent' = << >> /\ tally' \in {NewTally(p) : p \in Plans}
  /\ feed' \in [Expected -> {[NewFeed(x) EXCEPT !.run = dec.started + 1] :
                                x \in {tally'.plan = "restarts", FALSE}}]

DecStop ==
  /\ Ready /\ Accepts(DecLatched, "Stop")
  /\ dec' = [dec EXCEPT !.state = "Configured"]
  /\ work' = [work EXCEPT !.stop = TRUE]
  /\ UNCHANGED <<core, feed, decoded, sent, tally>>

(* Mutant: Reset waits for the thread without letting it give up.             *)
DecReset_NoAbandon ==
  /\ Ready /\ Accepts(DecLatched, "Reset")
  /\ dec' = [dec EXCEPT !.joining = TRUE, !.state = DecLatched]
  /\ work' = [work EXCEPT !.stop = TRUE]
  /\ UNCHANGED <<core, feed, decoded, sent, tally>>

DecReset ==
  /\ Ready /\ Accepts(DecLatched, "Reset")
  /\ dec' = [dec EXCEPT !.joining = TRUE, !.state = DecLatched]
  /\ work' = [work EXCEPT !.stop = TRUE, !.abandon = TRUE]
  /\ UNCHANGED <<core, feed, decoded, sent, tally>>

(* join_thread has returned.  The core, and with it a latched error, stays;   *)
(* the history of the run ends.                                               *)
DecResetJoined ==
  /\ dec.joining /\ work.pc = "off"
  /\ dec' = [dec EXCEPT !.joining = FALSE, !.state = "Idle", !.pull = FALSE, !.fresh = TRUE]
  /\ decoded' = << >> /\ sent' = << >> /\ tally' = NewTally("closes")
  /\ feed' = [s \in Expected |-> NewFeed(FALSE)]
  /\ UNCHANGED <<work, core>>

DecNext == \/ ReceiveData \/ ReceiveEos \/ ReceiveStray \/ Tick \/ SendIdle \/ LeaveLoop
           \/ SendOk \/ SendAbandon \/ SendFails
           \/ DecStatus \/ DecConfigure \/ DecArm \/ DecStart \/ DecStartFails
           \/ DecStop \/ DecReset \/ DecResetJoined

DecSpec == DecInit /\ [][DecNext]_decVars

-----------------------------------------------------------------------------
(* Properties                                                                 *)

DecTypeOK ==
  /\ dec \in [state : States, joining : BOOLEAN, pull : BOOLEAN, started : 0 .. MaxStarted,
              fresh : BOOLEAN, core : BOOLEAN]
  /\ work \in [pc : {"off", "loop", "batch", "eos", "hb", "last"}, stop : BOOLEAN,
               abandon : BOOLEAN, eosNext : BOOLEAN]
  /\ core.eos \subseteq Expected \cup {Stray} /\ core.out_seq \in Nat
  /\ core.next_seq \in [Expected -> Nat]

(* Every fragment decoded since Start is, in order and once, in a batch that  *)
(* was sent, in one that was abandoned and counted, or still pending; nothing *)
(* is pending when the thread has ended (send_pending, rearm, the last flush). *)
NoFragmentMislaid ==
  /\ FlattenSeq([i \in DOMAIN sent |-> sent[i].frags]) \o core.pending = decoded
  /\ ~dec.fresh => Lost(core) = Cardinality({i \in DOMAIN sent : ~sent[i].ok})
  /\ work.pc = "off" => core.pending = << >>

(* The numbers of the batches of one run count the abandoned ones, too: a     *)
(* downstream sees exactly the hole that was lost (batch_abandoned).          *)
HolesAreAbandoned ==
  \A i \in DOMAIN sent : sent[i].kind = "data" =>
    LET after == {j \in 1 .. i - 1 : sent[j].kind = "eos"}
        first == IF after = {} THEN 1 ELSE 1 + CHOOSE j \in after : \A k \in after : j >= k
    IN  sent[i].seq = i - first

(* The own EndOfStream goes out only when every expected source has closed    *)
(* the run once more since the last one: no source's EndOfStream serves two   *)
(* runs, and a stray source closes nothing (handle_eos, rearm).               *)
OwnEosNeedsAll ==
  LET own == Cardinality({i \in DOMAIN sent : sent[i].kind = "eos"})
  IN  \A s \in Expected : tally.eos[s] >= own + IF work.pc = "eos" THEN 1 ELSE 0

(* Without a latched error a batch is labelled with the run its fragments     *)
(* come from, and no batch of a run follows its EndOfStream: a source that    *)
(* reconnects behind the barrier is noticed (check_run, next_seq).            *)
RunsStaySeparate ==
  ~core.errored =>
    \A i \in DOMAIN sent :
      /\ \A k \in DOMAIN sent[i].frags : sent[i].frags[k].run = sent[i].run
      /\ \A j \in 1 .. i - 1 : sent[j].kind = "eos" /\ sent[i].kind = "data"
                               => sent[j].run # sent[i].run

(* A source enters a new epoch exactly when it leaves a stale acquisition,    *)
(* never for the mixed indices at the head of a run, and a restart of the run *)
(* is counted when the last source has made it (track_acquisition_restart).   *)
RestartsExact ==
  ~dec.fresh =>
    /\ \A s \in Expected : core.source[s].epoch = tally.restarts[s]
    /\ core.acquisition_restarts =
         tally.earlier + MinOf({tally.restarts[s] : s \in Expected})

(* Reset answers even when no downstream ever reads (send_lossless, abandon). *)
DecResetReturns == dec.joining ~> ~dec.joining

(* Reset is the way out of Error: src/docs/en/SPEC_en.md:405, "`Reset` is     *)
(* dedicated to Error recovery after the run is closed".  A component that    *)
(* was Reset and has not been started since is not in Error.                  *)
ResetRecovers == dec.fresh => dec.state # "Error"

(* Every fragment is in one batch, the numbers of the batches show what was *)
(* abandoned, and the epochs are the acquisitions (send_pending,            *)
(* batch_abandoned, track_acquisition_restart).                             *)
FragmentsSound ==
  /\ DecTypeOK /\ NoFragmentMislaid /\ HolesAreAbandoned /\ RestartsExact
==============================================================================
