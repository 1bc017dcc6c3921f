------------------------------ MODULE GrawWriter ------------------------------
(* The graw-writer process (src/src/graw_writer.rs).  Its command handler and  *)
(* one writer thread per Start share a RunWriter, which appends every frame to *)
(* the file of its key and rotates files by size.  Neither Stop nor Reset      *)
(* waits for the thread, so threads, their sockets and their RunWriters are    *)
(* indexed by the Start that made them and may outlive each other.             *)
EXTENDS ComponentState, Sources, Integers, Sequences, FiniteSets, SequencesExt

CONSTANTS
  MaxFileBytes,  \* params.max_file_bytes, in frames of unit length
  MaxStarts,     \* bound: Start commands
  MaxMessages,   \* bound: messages pulled by all threads together
  MaxFaults      \* bound: failing system calls and irregular messages

ASSUME GrawAssumption ==
  /\ MaxFileBytes \in Nat \ {0}
  /\ MaxStarts \in Nat /\ MaxMessages \in Nat /\ MaxFaults \in Nat

Starts == 1 .. MaxStarts

(* FileKey: the AsAd of a frame of type 1 or 2, or ctrl for any other frame,   *)
(* which peek_asad cannot place.                                               *)
Kinds == {"asad", "ctrl"}
Keys  == Expected \X Kinds

Frame == [key : Keys, run : Starts, n : Nat]

(* OutputFile; open = FALSE stands for a key without an entry in files.        *)
NoFile == [open |-> FALSE, idx |-> 0, data |-> << >>, torn |-> FALSE]
NewFile(i) == [NoFile EXCEPT !.open = TRUE, !.idx = i]

(* RunWriter::new                                                              *)
NewWriter ==
  [files |-> [k \in Keys |-> NoFile], closed |-> [k \in Keys |-> << >>],
   next_seq |-> [s \in Expected |-> 0], seq_gaps |-> 0, run_mismatches |-> 0,
   ctrl_frames |-> 0, write_errors |-> 0, unexpected_sources |-> 0,
   decode_errors |-> 0, heartbeats_in |-> 0, errored |-> FALSE, going |-> TRUE]

VARIABLES
  gw,       \* the handler: state, pull (bound socket), cur (its RunWriter), stop_tx
  starts,   \* Start commands so far; the n-th one starts run n
  thread,   \* each writer thread: pc, stop signal, eos_received, messages pulled
  writer,   \* each RunWriter
  pulled,   \* history: the data frames each thread took off its socket
  ended,    \* history: the sources whose EndOfStream of its run it took
  faults    \* history: failed system calls and irregular messages

grawVars == <<gw, starts, thread, writer, pulled, ended, faults>>

GrawInit ==
  /\ gw = [state |-> "Idle", pull |-> FALSE, cur |-> 0, stop_tx |-> 0]
  /\ starts = 0
  /\ thread = [i \in Starts |-> [pc |-> "off", stop |-> FALSE, eos |-> {}, msgs |-> 0]]
  /\ writer = [i \in Starts |-> NewWriter]
  /\ pulled = [i \in Starts |-> << >>] /\ ended = [i \in Starts |-> {}]
  /\ faults = 0

-----------------------------------------------------------------------------
(* RunWriter                                                                  *)

(* A failed system call: counted, latched, and the consumption ends.          *)
Failed(w) == [w EXCEPT !.write_errors = @ + 1, !.errored = TRUE, !.going = FALSE]

Report(w, k, synced) ==
  [idx |-> w.files[k].idx, data |-> w.files[k].data, torn |-> w.files[k].torn,
   synced |-> synced]

(* create_dir_all, File::create and the entry in files: open_new_file.        *)
OpenNewFile(w, k, idx, fault) ==
  IF fault = "create" THEN Failed(w) ELSE [w EXCEPT !.files[k] = NewFile(idx)]

(* Flush and fsync, move the file to closed_files, open the next index.  A    *)
(* failing fsync leaves the file open, a failing open leaves the key without  *)
(* a file; the consumption ends in both cases.                                *)
Rotate(w, k, fault) ==
  IF fault = "sync" THEN Failed(w)
  ELSE OpenNewFile([w EXCEPT !.closed[k] = Append(@, Report(w, k, TRUE)),
                             !.files[k] = NoFile],
                   k, w.files[k].idx + 1, IF fault = "next" THEN "create" ELSE "none")

(* handle_batch counts a control frame before it writes it.                   *)
CountCtrl(w, f) == IF f.key[2] = "ctrl" THEN [w EXCEPT !.ctrl_frames = @ + 1] ELSE w

(* One frame to the file of its key, made when there is none yet; the size is *)
(* looked at after the write, so that a file exceeds the limit by one frame.  *)
WriteTo(w, f, fault) ==
  LET v == IF w.files[f.key].open THEN w ELSE OpenNewFile(w, f.key, 0, fault)
      u == [v EXCEPT !.files[f.key].data = Append(@, f)]
  IN  CASE ~v.going -> v
        [] v.going /\ fault = "write" -> Failed([v EXCEPT !.files[f.key].torn = TRUE])
        [] v.going /\ fault # "write" ->
             IF Len(u.files[f.key].data) > MaxFileBytes THEN Rotate(u, f.key, fault) ELSE u

(* The frames of a batch in turn, up to the one that fails.                   *)
WriteAll(w, frames, fault) ==
  LET after[j \in 0 .. Len(frames)] ==
        IF j = 0 THEN w
        ELSE IF after[j - 1].going
             THEN WriteTo(CountCtrl(after[j - 1], frames[j]), frames[j],
                          IF frames[j].n = fault.at THEN fault.call ELSE "none")
             ELSE after[j - 1]
  IN  after[Len(frames)]

(* Mutant: frames of another run are written, too.                            *)
HandleBatch_AnyRun(i, w, s, run, seq, frames, fault) ==
  LET v == IF seq = w.next_seq[s] THEN w
           ELSE [w EXCEPT !.seq_gaps = @ + 1, !.errored = TRUE]
  IN  WriteAll([v EXCEPT !.next_seq[s] = seq + 1], frames, fault)

(* Mutant: the verdict on a batch replaces that on the ones before.           *)
HandleBatch_LastVerdict(i, w, s, run, seq, frames, fault) ==
  IF run # i THEN [w EXCEPT !.run_mismatches = @ + 1, !.errored = TRUE]
  ELSE WriteAll([w EXCEPT !.errored = seq # w.next_seq[s], !.next_seq[s] = seq + 1],
                frames, fault)

(* handle_batch: a batch of another run is dropped whole; a gap is counted    *)
(* and the frames are written all the same.                                   *)
HandleBatch(i, w, s, run, seq, frames, fault) ==
  IF run # i THEN [w EXCEPT !.run_mismatches = @ + 1, !.errored = TRUE]
  ELSE LET v == IF seq = w.next_seq[s] THEN w
                ELSE [w EXCEPT !.seq_gaps = @ + 1, !.errored = TRUE]
       IN  WriteAll([v EXCEPT !.next_seq[s] = seq + 1], frames, fault)

(* flush_all: a failing flush is counted and latched, the file stays open.    *)
FlushFailed(w) == [w EXCEPT !.write_errors = @ + 1, !.errored = TRUE]

(* close_file of one key, whose flush and fsync may fail.                     *)
CloseFile(w, k, bad) ==
  IF w.files[k].open THEN Append(w.closed[k], Report(w, k, k \notin bad)) ELSE w.closed[k]

(* Mutant: a file whose fsync failed is dropped without being counted.        *)
Finalized_SyncIgnored(w, bad) ==
  [w EXCEPT !.files = [k \in Keys |-> NoFile],
            !.closed = [k \in Keys |-> CloseFile(w, k, bad)]]

(* finalize: every open file is closed, the ones in bad without   *)
(* their flush or fsync; one failure does not keep the others open.           *)
Finalized(w, bad) ==
  [w EXCEPT !.files = [k \in Keys |-> NoFile],
            !.closed = [k \in Keys |-> CloseFile(w, k, bad)],
            !.write_errors = @ + Cardinality(bad),
            !.errored = @ \/ bad # {}]

-----------------------------------------------------------------------------
(* The writer thread                                                          *)

(* Ends an iteration of consume_until_done: a loop that goes on may flush all *)
(* files, and a failing flush is counted but stops nothing.                   *)
Iteration(i, w, eos, odd) ==
  LET leaves == ~w.going \/ Expected \subseteq eos
  IN  \E bad \in BOOLEAN :
        /\ bad => ~leaves
        /\ writer' = [writer EXCEPT ![i] =
             IF bad THEN FlushFailed(w) ELSE w]
        /\ faults' = faults + odd + IF bad \/ ~w.going THEN 1 ELSE 0
        /\ faults' <= MaxFaults
        /\ thread' = [thread EXCEPT ![i].eos = eos, ![i].msgs = @ + 1,
                        ![i].pc = IF leaves THEN "finalize" ELSE "consume"]

Consuming(i) == /\ thread[i].pc = "consume" /\ ~thread[i].stop
                /\ SumFunction([j \in Starts |-> thread[j].msgs]) < MaxMessages

(* The system call that fails, and for which frame.                           *)
FaultChoices(frames) ==
  {[at |-> 0, call |-> "none"]}
    \cup [at : {frames[j].n : j \in DOMAIN frames}, call : {"create", "write", "sync", "next"}]

(* Message::Data.  The upstream may skip a sequence number, and batches of    *)
(* another run arrive from a queue an earlier socket left full.               *)
ConsumeData(i) ==
  /\ Consuming(i)
  /\ \E s \in Expected, kinds \in {<<"ctrl">>, <<"asad", "asad">>},
        run \in 1 .. starts, skip \in {0, 1} :
       LET frames == [j \in DOMAIN kinds |-> [key |-> <<s, kinds[j]>>, run |-> run,
                                              n |-> Len(pulled[i]) + j]]
       IN  /\ run # i => skip = 0
           /\ pulled' = [pulled EXCEPT ![i] = @ \o frames]
           /\ \E fault \in FaultChoices(frames) :
                Iteration(i, HandleBatch(i, writer[i], s, run,
                               writer[i].next_seq[s] + skip, frames, fault),
                          thread[i].eos, IF run # i THEN 1 ELSE skip)
  /\ UNCHANGED <<gw, starts, ended>>

Ended(i, s, run) == [ended EXCEPT ![i] = IF run = i THEN @ \cup ({s} \cap Expected) ELSE @]

(* Message::EndOfStream: of another run or of an unknown source it is only    *)
(* counted; the last one expected ends the loop.                              *)
ConsumeEos(i) ==
  /\ Consuming(i)
  /\ \E s \in Expected \cup {Stray}, run \in 1 .. starts :
       /\ CASE run # i ->
                 Iteration(i, [writer[i] EXCEPT !.run_mismatches = @ + 1], thread[i].eos, 1)
            [] run = i /\ s \notin Expected ->
                 Iteration(i, [writer[i] EXCEPT !.unexpected_sources = @ + 1], thread[i].eos, 1)
            [] run = i /\ s \in Expected ->
                 Iteration(i, writer[i], thread[i].eos \cup {s}, 0)
       /\ ended' = Ended(i, s, run)
  /\ UNCHANGED <<gw, starts, pulled>>

(* Message::Heartbeat, and a message that does not decode: counted only.      *)
ConsumeOther(i) ==
  /\ Consuming(i)
  /\ \/ Iteration(i, [writer[i] EXCEPT !.heartbeats_in = @ + 1], thread[i].eos, 1)
     \/ Iteration(i, [writer[i] EXCEPT !.decode_errors = @ + 1], thread[i].eos, 1)
  /\ UNCHANGED <<gw, starts, pulled, ended>>

(* The stop signal, looked at at the top of the loop.                         *)
ConsumeStop(i) ==
  /\ thread[i].pc = "consume" /\ thread[i].stop
  /\ thread' = [thread EXCEPT ![i].pc = "finalize"]
  /\ UNCHANGED <<gw, starts, writer, pulled, ended, faults>>

(* The socket is dropped before finalize runs.                                *)
Finalize(i) ==
  /\ thread[i].pc = "finalize"
  /\ \E bad \in SUBSET {k \in Keys : writer[i].files[k].open} :
       /\ faults + Cardinality(bad) <= MaxFaults
       /\ faults' = faults + Cardinality(bad)
       /\ writer' = [writer EXCEPT ![i] = Finalized(@, bad)]
  /\ thread' = [thread EXCEPT ![i].pc = "done"]
  /\ UNCHANGED <<gw, starts, pulled, ended>>

-----------------------------------------------------------------------------
(* The command handler                                                        *)

(* latch_error, which every command runs first.                               *)
GrawLatched ==
  IF /\ CanTransition(gw.state, "Error")
     /\ gw.cur # 0 /\ writer[gw.cur].errored
  THEN "Error" ELSE gw.state

(* metrics_json: what the controller reads to tell whether a run is stored.   *)
FilesOpen(w) == Cardinality({k \in Keys : w.files[k].open})

(* GetStatus, or a command that is refused: only the latch shows.             *)
GrawStatus ==
  /\ gw' = [gw EXCEPT !.state = GrawLatched]
  /\ UNCHANGED <<starts, thread, writer, pulled, ended, faults>>

GrawConfigure ==
  /\ Accepts(GrawLatched, "Configure")
  /\ gw' = [gw EXCEPT !.state = "Configured"]
  /\ UNCHANGED <<starts, thread, writer, pulled, ended, faults>>

(* A thread keeps the port until it leaves its loop, and bind fails meanwhile. *)
PortTaken == gw.pull \/ \E i \in Starts : thread[i].pc = "consume"

GrawArm ==
  /\ Accepts(GrawLatched, "Arm")
  /\ ~PortTaken
  /\ gw' = [gw EXCEPT !.state = "Armed", !.pull = TRUE]
  /\ UNCHANGED <<starts, thread, writer, pulled, ended, faults>>

(* do_start: a RunWriter, a stop channel and a thread of its own.             *)
GrawStart ==
  /\ Accepts(GrawLatched, "Start")
  /\ gw.pull /\ starts < MaxStarts
  /\ starts' = starts + 1
  /\ gw' = [state |-> "Running", pull |-> FALSE, cur |-> starts + 1, stop_tx |-> starts + 1]
  /\ thread' = [thread EXCEPT ![starts + 1].pc = "consume"]
  /\ UNCHANGED <<writer, pulled, ended, faults>>

SignalWriter == IF gw.stop_tx = 0 THEN thread
                ELSE [thread EXCEPT ![gw.stop_tx].stop = TRUE]

GrawStop ==
  /\ Accepts(GrawLatched, "Stop")
  /\ gw' = [gw EXCEPT !.state = "Configured", !.stop_tx = 0]
  /\ thread' = SignalWriter
  /\ UNCHANGED <<starts, writer, pulled, ended, faults>>

GrawReset ==
  /\ Accepts(GrawLatched, "Reset")
  /\ gw' = [state |-> "Idle", pull |-> FALSE, cur |-> 0, stop_tx |-> 0]
  /\ thread' = SignalWriter
  /\ UNCHANGED <<starts, writer, pulled, ended, faults>>

GrawThread(i) == \/ ConsumeData(i) \/ ConsumeEos(i) \/ ConsumeOther(i)
                 \/ ConsumeStop(i) \/ Finalize(i)

GrawNext == \/ GrawStatus \/ GrawConfigure \/ GrawArm \/ GrawStart \/ GrawStop \/ GrawReset
            \/ \E i \in Starts : GrawThread(i)

GrawSpec == GrawInit /\ [][GrawNext]_grawVars

-----------------------------------------------------------------------------
(* Properties                                                                 *)

Counted == {"seq_gaps", "run_mismatches", "ctrl_frames", "write_errors",
            "unexpected_sources", "decode_errors", "heartbeats_in"}

GrawTypeOK ==
  /\ gw \in [state : States, pull : BOOLEAN, cur : {0} \cup Starts, stop_tx : {0} \cup Starts]
  /\ starts \in 0 .. MaxStarts
  /\ thread \in [Starts -> [pc : {"off", "consume", "finalize", "done"}, stop : BOOLEAN,
                            eos : SUBSET Expected, msgs : Nat]]
  /\ \A i \in Starts : /\ \A c \in Counted : writer[i][c] \in Nat
                       /\ writer[i].next_seq \in [Expected -> Nat]
                       /\ writer[i].errored \in BOOLEAN /\ writer[i].going \in BOOLEAN
  /\ faults \in 0 .. MaxFaults

(* What is in the files of a key, in the order of their indices.              *)
Written(i, k) == FlattenSeq([j \in DOMAIN writer[i].closed[k] |-> writer[i].closed[k][j].data])
                 \o writer[i].files[k].data

(* The files, their rotation and the threads implement the abstract archive:  *)
(* what was written is never rewritten, truncated or extended after close.    *)
Phase(i) == CASE thread[i].pc = "off"  -> "unborn"
              [] thread[i].pc = "done" -> "closed"
              [] OTHER                 -> "open"

Abstract == INSTANCE Archive WITH
  Runs <- Starts, LogKeys <- Keys,
  phase <- [i \in Starts |-> Phase(i)],
  offered <- pulled,
  log <- [i \in Starts |-> [k \in Keys |-> Written(i, k)]],
  flagged <- [i \in Starts |-> writer[i].errored]

(* The graw-writer implements Archive: rotation, flushes, failures and late   *)
(* threads are invisible in the logs of the runs.                             *)
ImplementsArchive == Abstract!ArchiveSpec

(* The frames of the run the thread pulled for a key.                         *)
OwnFrames(i, k) == Abstract!Mine(i, k, pulled[i])

(* Rotation, failures and late threads neither lose, repeat nor reorder what  *)
(* was pulled without the error latch showing it, and never let frames of     *)
(* another run into a run's files: the contract of write_to and rotate.       *)
FilesAreTheStream ==
  \A i \in Starts : \A k \in Keys :
    /\ IsPrefix(Written(i, k), OwnFrames(i, k))
    /\ writer[i].write_errors = 0 => Written(i, k) = OwnFrames(i, k)
    /\ \A n \in DOMAIN pulled[i] : pulled[i][n].run # i => writer[i].errored

(* The files of a key are numbered without a hole, each full one exceeds the  *)
(* limit by its last frame only, and only the last one may be short: the      *)
(* layout the offline tools read back (rotate, open_new_file).                *)
RotationLayout ==
  \A i \in Starts : \A k \in Keys :
    LET c == writer[i].closed[k]
        full == {j \in DOMAIN c : j < Len(c) \/ writer[i].files[k].open}
    IN  /\ \A j \in DOMAIN c : c[j].idx = j - 1
        /\ writer[i].files[k].open => writer[i].files[k].idx = Len(c)
        /\ \A j \in full : Len(c[j].data) = MaxFileBytes + 1

(* A thread that is done has left no file open, and a file that is torn or    *)
(* whose fsync failed is never reported closed without write_errors saying    *)
(* so: what the controller's wait for files_open = 0 builds on.               *)
ClosedMeansDurable ==
  \A i \in Starts : thread[i].pc = "done" =>
    /\ FilesOpen(writer[i]) = 0
    /\ (\E k \in Keys : \E j \in DOMAIN writer[i].closed[k] :
          writer[i].closed[k][j].torn \/ ~writer[i].closed[k][j].synced)
       => writer[i].errored /\ writer[i].write_errors > 0

(* A thread that was neither stopped nor failed is done only when every       *)
(* expected source has closed this run: an EndOfStream of an earlier run, or  *)
(* of a stray source, never closes the files early.                           *)
ClosedByOwnEos ==
  \A i \in Starts : thread[i].pc \in {"finalize", "done"} =>
    thread[i].stop \/ ~writer[i].going \/ ended[i] = Expected

(* The files are the stream: what was pulled of a run and key is in its     *)
(* files, in order and once, and the files follow each other as the offline *)
(* tools expect (write_to, rotate).                                         *)
FilesSound == GrawTypeOK /\ FilesAreTheStream /\ RotationLayout

(* Closed is what the controller takes it for: the run's own EndOfStreams   *)
(* closed it, and what is closed is on disk or reported (handle_eos,        *)
(* finalize).                                                               *)
ClosingSound == ClosedMeansDurable /\ ClosedByOwnEos
==============================================================================
