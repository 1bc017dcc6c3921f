------------------------------- MODULE Receiver -------------------------------
(* One receiver process (src/src/receiver.rs).  Three threads of control share *)
(* it: the command handler, and per run a drain task (TCP socket -> framer ->  *)
(* bounded queue) and a sender thread (bounded queue -> batches -> two PUSH    *)
(* links).  A run's queue, stop signal, abandon flag, links and threads are    *)
(* created by Start and are never those of another run, so every one of them   *)
(* is indexed by the run; a thread of an earlier run may outlive it.  The      *)
(* metrics are one object shared by all of them.                               *)
EXTENDS ComponentState, Integers, Sequences, FiniteSets

CONSTANTS
  QueueFrames,     \* params.queue_frames: capacity of the bounded queue
  BatchMax,        \* params.batch_max_bytes, in frames of unit length
  MaxRuns,         \* bound: Start commands
  MaxConns,        \* bound: connections accepted in one run
  MaxFrames,       \* bound: frames the framer cuts in one run
  MaxRead,         \* bound: frames completed by one socket read
  MaxHeartbeats,   \* bound: heartbeats of one run
  MaxFailures,     \* bound: send errors counted between two Starts
  AllowRearm       \* may Arm follow Stop without a Reset in between

ASSUME ReceiverAssumption ==
  /\ QueueFrames \in Nat \ {0}
  /\ BatchMax \in Nat \ {0}
  /\ MaxRuns \in Nat \ {0}
  /\ MaxConns \in Nat /\ MaxFrames \in Nat /\ MaxRead \in Nat
  /\ MaxHeartbeats \in Nat /\ MaxFailures \in Nat
  /\ AllowRearm \in BOOLEAN

Runs  == 1 .. MaxRuns
Links == {1, 2}                 \* 1 = graw-writer, 2 = decoder, in sending order
Frames == 1 .. MaxFrames        \* frames of a run, numbered as the framer cuts them

EndOfStream == 0                \* FrameMsg::EndOfStream, among the queued frames

(* What leaves on a link: a Data batch, an EndOfStream or a Heartbeat.         *)
Message == [kind : {"data", "eos", "hb"}, seq : Nat, frames : Seq(Frames)]
Data(n, fs) == [kind |-> "data", seq |-> n, frames |-> fs]
Eos == [kind |-> "eos", seq |-> 0, frames |-> << >>]
Heartbeat == [kind |-> "hb", seq |-> 0, frames |-> << >>]

(* SendOutcome of one message on one link: sent, lost to a failure of the      *)
(* socket (counted in send_errors), or abandoned (counted in                   *)
(* messages_abandoned).                                                        *)
Outcomes == {"sent", "failed", "abandoned"}

VARIABLES
  (* --- the handler ------------------------------------------------------- *)
  state,       \* ComponentState it reports
  hpc,         \* "ready" for a command, or "joining" the sender inside Reset
  listener,    \* Arm bound a listener that Start has not taken yet
  run,         \* runs started so far
  rearm,       \* a run was stopped and not Reset since
  run_stop, abandon_handle, sender_handle,  \* run each handle is for, 0 = None
  metrics,     \* the shared counters
  (* --- the drain task of each run ---------------------------------------- *)
  dpc, conns, carried, left, cut, owes_eos, stop,
  (* --- the queue and the sender of each run ------------------------------ *)
  queue, spc, batch, out, at, alive, seqno, eos_sent, beats, abandon,
  (* --- history: what the queue took, and what became of each message ----- *)
  accepted, wire

handlerVars == <<state, hpc, listener, run, rearm, run_stop, abandon_handle,
                 sender_handle>>
drainVars   == <<dpc, conns, carried, left, cut, owes_eos>>
senderVars  == <<spc, batch, out, at, alive, seqno, eos_sent, beats>>
vars == <<handlerVars, metrics, drainVars, stop, queue, senderVars, abandon,
          accepted, wire>>

ZeroMetrics == [overflowed |-> FALSE, overflow_frames |-> 0, messages_abandoned |-> 0,
                send_errors |-> 0, empty_connections |-> 0]

Metrics == [overflowed : BOOLEAN, overflow_frames : Nat, messages_abandoned : Nat,
            send_errors : Nat, empty_connections : Nat]

Init ==
  /\ state = "Idle" /\ hpc = "ready" /\ listener = FALSE /\ run = 0 /\ rearm = FALSE
  /\ run_stop = 0 /\ abandon_handle = 0 /\ sender_handle = 0
  /\ metrics = ZeroMetrics
  /\ dpc = [r \in Runs |-> "off"]
  /\ conns = [r \in Runs |-> 0]
  /\ carried = [r \in Runs |-> FALSE]
  /\ left = [r \in Runs |-> 0]
  /\ cut = [r \in Runs |-> 0]
  /\ owes_eos = [r \in Runs |-> TRUE]
  /\ stop = [r \in Runs |-> FALSE]
  /\ queue = [r \in Runs |-> << >>]
  /\ spc = [r \in Runs |-> "off"]
  /\ batch = [r \in Runs |-> << >>]
  /\ out = [r \in Runs |-> << >>]
  /\ at = [r \in Runs |-> 1]
  /\ alive = [r \in Runs |-> TRUE]
  /\ seqno = [r \in Runs |-> 0]
  /\ eos_sent = [r \in Runs |-> FALSE]
  /\ beats = [r \in Runs |-> 0]
  /\ abandon = [r \in Runs |-> FALSE]
  /\ accepted = [r \in Runs |-> {}]
  /\ wire = [r \in Runs |-> [l \in Links |-> << >>]]

-----------------------------------------------------------------------------
(* The drain task                                                             *)

(* accept a connection                                                        *)
DrainAccept(r) ==
  /\ dpc[r] = "accept" /\ ~stop[r]
  /\ conns[r] < MaxConns
  /\ dpc' = [dpc EXCEPT ![r] = "conn"]
  /\ conns' = [conns EXCEPT ![r] = @ + 1]
  /\ carried' = [carried EXCEPT ![r] = FALSE]
  /\ UNCHANGED <<handlerVars, metrics, left, cut, owes_eos, stop, queue, senderVars,
                 abandon, accepted, wire>>

(* A read of n > 0 bytes that completes some number of frames.  The first     *)
(* bytes of a connection make the run owe an EndOfStream.                     *)
DrainRead(r) ==
  /\ dpc[r] = "conn" /\ ~stop[r]
  /\ \E n \in 0 .. MaxRead :
        /\ cut[r] + n <= MaxFrames
        /\ left' = [left EXCEPT ![r] = n]
        /\ dpc' = [dpc EXCEPT ![r] = IF n = 0 THEN "conn" ELSE "frames"]
  /\ carried' = [carried EXCEPT ![r] = TRUE]
  /\ owes_eos' = [owes_eos EXCEPT ![r] = IF carried[r] THEN @ ELSE TRUE]
  /\ UNCHANGED <<handlerVars, metrics, conns, cut, stop, queue, senderVars, abandon,
                 accepted, wire>>

(* The bounded channel refuses a frame when it is full, or when the sender    *)
(* thread, which owns its other end, is gone.                                 *)
Refuses(r) == spc[r] = "done" \/ Len(queue[r]) >= QueueFrames

(* Mutant: a frame refused because the sender is gone is not counted.         *)
DrainFrame_UncountedWhenGone(r) ==
  /\ dpc[r] = "frames"
  /\ cut' = [cut EXCEPT ![r] = @ + 1]
  /\ left' = [left EXCEPT ![r] = @ - 1]
  /\ dpc' = [dpc EXCEPT ![r] = IF left[r] = 1 THEN "conn" ELSE "frames"]
  /\ \/ /\ Refuses(r)
        /\ metrics' = IF spc[r] = "done" THEN metrics
                      ELSE [metrics EXCEPT !.overflow_frames = @ + 1, !.overflowed = TRUE]
        /\ UNCHANGED <<queue, accepted>>
     \/ /\ ~Refuses(r)
        /\ queue' = [queue EXCEPT ![r] = Append(@, cut[r] + 1)]
        /\ accepted' = [accepted EXCEPT ![r] = @ \cup {cut[r] + 1}]
        /\ UNCHANGED metrics
  /\ UNCHANGED <<handlerVars, conns, carried, owes_eos, stop, senderVars, abandon, wire>>

(* One turn of the frame loop: try_send, and on refusal record_dropped_frame. *)
DrainFrame(r) ==
  /\ dpc[r] = "frames"
  /\ cut' = [cut EXCEPT ![r] = @ + 1]
  /\ left' = [left EXCEPT ![r] = @ - 1]
  /\ dpc' = [dpc EXCEPT ![r] = IF left[r] = 1 THEN "conn" ELSE "frames"]
  /\ \/ /\ Refuses(r)
        /\ metrics' = [metrics EXCEPT !.overflow_frames = @ + 1, !.overflowed = TRUE]
        /\ UNCHANGED <<queue, accepted>>
     \/ /\ ~Refuses(r)
        /\ queue' = [queue EXCEPT ![r] = Append(@, cut[r] + 1)]
        /\ accepted' = [accepted EXCEPT ![r] = @ \cup {cut[r] + 1}]
        /\ UNCHANGED metrics
  /\ UNCHANGED <<handlerVars, conns, carried, owes_eos, stop, senderVars, abandon, wire>>

(* Mutant: an empty connection is counted and closes the run all the same.    *)
DrainEof_EmptyCloses(r) ==
  /\ dpc[r] = "conn" /\ ~stop[r]
  /\ \/ /\ ~carried[r]
        /\ metrics' = [metrics EXCEPT !.empty_connections = @ + 1]
        /\ dpc' = [dpc EXCEPT ![r] = "closing"]
     \/ /\ carried[r]
        /\ dpc' = [dpc EXCEPT ![r] = "closing"]
        /\ UNCHANGED metrics
  /\ UNCHANGED <<handlerVars, conns, carried, left, cut, owes_eos, stop, queue,
                 senderVars, abandon, accepted, wire>>

(* EOF or a read error.  Only a connection that carried data is a boundary.   *)
DrainEof(r) ==
  /\ dpc[r] = "conn" /\ ~stop[r]
  /\ \/ /\ ~carried[r]
        /\ metrics' = [metrics EXCEPT !.empty_connections = @ + 1]
        /\ dpc' = [dpc EXCEPT ![r] = "accept"]
     \/ /\ carried[r]
        /\ dpc' = [dpc EXCEPT ![r] = "closing"]
        /\ UNCHANGED metrics
  /\ UNCHANGED <<handlerVars, conns, carried, left, cut, owes_eos, stop, queue,
                 senderVars, abandon, accepted, wire>>

(* Mutant: the stop ends the task without the EOS it owes.                    *)
DrainStop_NoForcedEos(r) ==
  /\ dpc[r] \in {"accept", "conn"} /\ stop[r]
  /\ dpc' = [dpc EXCEPT ![r] = "done"]
  /\ UNCHANGED <<handlerVars, metrics, conns, carried, left, cut, owes_eos, stop,
                 queue, senderVars, abandon, accepted, wire>>

(* Mutant: the stop signal is not looked at while a connection is up.         *)
DrainStop_OnlyInAccept(r) ==
  /\ dpc[r] = "accept" /\ stop[r]
  /\ dpc' = [dpc EXCEPT ![r] = IF owes_eos[r] THEN "exiting" ELSE "done"]
  /\ UNCHANGED <<handlerVars, metrics, conns, carried, left, cut, owes_eos, stop,
                 queue, senderVars, abandon, accepted, wire>>

(* The stop signal, looked at first whenever the task would wait.             *)
DrainStop(r) ==
  /\ dpc[r] \in {"accept", "conn"} /\ stop[r]
  /\ dpc' = [dpc EXCEPT ![r] = IF owes_eos[r] THEN "exiting" ELSE "done"]
  /\ UNCHANGED <<handlerVars, metrics, conns, carried, left, cut, owes_eos, stop,
                 queue, senderVars, abandon, accepted, wire>>

(* send_end_of_stream: EOS waits for room, and gives up only when the sender  *)
(* is gone.  After an EOF the task accepts again, after the stop it ends.     *)
DrainEos(r) ==
  /\ dpc[r] \in {"closing", "exiting"}
  /\ \/ /\ spc[r] = "done"
        /\ UNCHANGED queue
     \/ /\ ~Refuses(r)
        /\ queue' = [queue EXCEPT ![r] = Append(@, EndOfStream)]
  /\ dpc' = [dpc EXCEPT ![r] = IF @ = "closing" THEN "accept" ELSE "done"]
  /\ owes_eos' = [owes_eos EXCEPT ![r] = IF dpc[r] = "closing" THEN FALSE ELSE @]
  /\ UNCHANGED <<handlerVars, metrics, conns, carried, left, cut, stop, senderVars,
                 abandon, accepted, wire>>

-----------------------------------------------------------------------------
(* The sender thread                                                          *)

(* Top of the loop: leave when the sends are abandoned, else wait for input.  *)
SenderTop(r) ==
  /\ spc[r] = "top"
  /\ spc' = [spc EXCEPT ![r] = IF abandon[r] THEN "done" ELSE "recv"]
  /\ UNCHANGED <<handlerVars, metrics, drainVars, stop, queue, batch, out, at, alive,
                 seqno, eos_sent, beats, abandon, accepted, wire>>

(* Mutant: the number is advanced before it is used.                          *)
Outgoing_NumberedLate(r, fs, then) ==
  IF fs = << >> THEN then ELSE << Data(seqno[r] + 1, fs) >> \o then

(* flush: the batch fs becomes one Data message, followed by the messages in  *)
(* then.  Both links number their batches alike: each advances its own        *)
(* sequence_number at every flush, whether or not the send succeeds.          *)
Outgoing(r, fs, then) == IF fs = << >> THEN then ELSE << Data(seqno[r], fs) >> \o then

(* The messages are sent to the links in turn; then the thread goes to next.  *)
FlushThen(r, fs, then, next) ==
  /\ batch' = [batch EXCEPT ![r] = << >>]
  /\ seqno' = [seqno EXCEPT ![r] = IF fs = << >> THEN @ ELSE @ + 1]
  /\ out' = [out EXCEPT ![r] = Outgoing(r, fs, then)]
  /\ at' = [at EXCEPT ![r] = 1]
  /\ alive' = [alive EXCEPT ![r] = (next = "top")]
  /\ spc' = [spc EXCEPT ![r] = IF Outgoing(r, fs, then) # << >> THEN "send" ELSE next]

(* recv_timeout returns a frame: flush when the batch has reached its size.   *)
SenderFrame(r) ==
  /\ spc[r] = "recv" /\ queue[r] # << >> /\ Head(queue[r]) # EndOfStream
  /\ queue' = [queue EXCEPT ![r] = Tail(@)]
  /\ LET fs == Append(batch[r], Head(queue[r]))
     IN  \/ /\ Len(fs) >= BatchMax
            /\ FlushThen(r, fs, << >>, "top")
         \/ /\ Len(fs) < BatchMax
            /\ batch' = [batch EXCEPT ![r] = fs]
            /\ spc' = [spc EXCEPT ![r] = "top"]
            /\ UNCHANGED <<out, at, alive, seqno>>
  /\ UNCHANGED <<handlerVars, metrics, drainVars, stop, eos_sent, beats, abandon,
                 accepted, wire>>

(* recv_timeout returns EndOfStream: flush, then EOS on both links.           *)
SenderEos(r) ==
  /\ spc[r] = "recv" /\ queue[r] # << >> /\ Head(queue[r]) = EndOfStream
  /\ queue' = [queue EXCEPT ![r] = Tail(@)]
  /\ FlushThen(r, batch[r], << Eos >>, "top")
  /\ eos_sent' = [eos_sent EXCEPT ![r] = TRUE]
  /\ UNCHANGED <<handlerVars, metrics, drainVars, stop, beats, abandon, accepted, wire>>

(* recv_timeout times out: nothing is queued and the drain task still lives.  *)
Timeout(r) == spc[r] = "recv" /\ queue[r] = << >> /\ dpc[r] # "done"

(* The batch deadline has passed.                                             *)
SenderDeadline(r) ==
  /\ Timeout(r) /\ batch[r] # << >>
  /\ FlushThen(r, batch[r], << >>, "top")
  /\ UNCHANGED <<handlerVars, metrics, drainVars, stop, queue, eos_sent, beats,
                 abandon, accepted, wire>>

(* Mutant: a heartbeat interrupts a batch that is being filled.               *)
SenderHeartbeat_AnyBatch(r) ==
  /\ Timeout(r) /\ ~eos_sent[r]
  /\ beats[r] < MaxHeartbeats
  /\ beats' = [beats EXCEPT ![r] = @ + 1]
  /\ FlushThen(r, << >>, << Heartbeat >>, "top")
  /\ UNCHANGED <<handlerVars, metrics, drainVars, stop, queue, eos_sent, abandon,
                 accepted, wire>>

(* Idle for a heartbeat interval, and this run's EOS has not been sent.       *)
SenderHeartbeat(r) ==
  /\ Timeout(r) /\ batch[r] = << >> /\ ~eos_sent[r]
  /\ beats[r] < MaxHeartbeats
  /\ beats' = [beats EXCEPT ![r] = @ + 1]
  /\ FlushThen(r, << >>, << Heartbeat >>, "top")
  /\ UNCHANGED <<handlerVars, metrics, drainVars, stop, queue, eos_sent, abandon,
                 accepted, wire>>

(* The poll interval alone: no deadline reached, back to the top.             *)
SenderPoll(r) ==
  /\ Timeout(r)
  /\ spc' = [spc EXCEPT ![r] = "top"]
  /\ UNCHANGED <<handlerVars, metrics, drainVars, stop, queue, batch, out, at, alive,
                 seqno, eos_sent, beats, abandon, accepted, wire>>

(* The queue is empty and the drain task gone: flush the rest and end.        *)
SenderDisconnected(r) ==
  /\ spc[r] = "recv" /\ queue[r] = << >> /\ dpc[r] = "done"
  /\ FlushThen(r, batch[r], << >>, "done")
  /\ UNCHANGED <<handlerVars, metrics, drainVars, stop, queue, eos_sent, beats,
                 abandon, accepted, wire>>

(* send_on ends with the outcome o for the message at hand on link at[r]: on  *)
(* to the next link, then the next message, then the loop top or the end.     *)
SendEnds(r, o) ==
  /\ spc[r] = "send"
  /\ wire' = [wire EXCEPT ![r][at[r]] = Append(@, [msg |-> Head(out[r]), outcome |-> o])]
  /\ alive' = [alive EXCEPT ![r] = @ /\ o # "abandoned"]
  /\ at' = [at EXCEPT ![r] = IF @ = 1 THEN 2 ELSE 1]
  /\ out' = [out EXCEPT ![r] = IF at[r] = 1 THEN @ ELSE Tail(@)]
  /\ spc' = [spc EXCEPT ![r] = IF at[r] = 1 \/ Len(out[r]) > 1 THEN "send"
                               ELSE IF alive'[r] THEN "top" ELSE "done"]
  /\ UNCHANGED <<handlerVars, drainVars, stop, queue, batch, seqno, eos_sent, beats,
                 abandon, accepted>>

(* The socket takes the message.  While it does not (EAGAIN: the peer is full *)
(* or absent) the thread waits, and only the abandon flag ends the wait.      *)
SendSent(r) == ~abandon[r] /\ SendEnds(r, "sent") /\ UNCHANGED metrics

(* A socket error other than EAGAIN and ETERM (these messages do encode).     *)
SendFailed(r) ==
  /\ ~abandon[r] /\ metrics.send_errors < MaxFailures
  /\ SendEnds(r, "failed")
  /\ metrics' = [metrics EXCEPT !.send_errors = @ + 1]

SendAbandoned(r) ==
  /\ abandon[r]
  /\ SendEnds(r, "abandoned")
  /\ metrics' = [metrics EXCEPT !.messages_abandoned = @ + 1]

-----------------------------------------------------------------------------
(* The command handler.  Every command first latches an overload.             *)

Latched == IF metrics.overflowed /\ CanTransition(state, "Error") THEN "Error" ELSE state

HandlerAccepts(cmd) == hpc = "ready" /\ Accepts(Latched, cmd)

taskVars == <<drainVars, queue, senderVars, accepted, wire>>

(* GetStatus, and any command that is refused or fails: only the latch.       *)
OnlyLatch ==
  /\ hpc = "ready"
  /\ state' = Latched
  /\ UNCHANGED <<hpc, listener, run, rearm, run_stop, abandon_handle, sender_handle,
                 metrics, stop, abandon, taskVars>>

Configure ==
  /\ HandlerAccepts("Configure")
  /\ state' = "Configured"
  /\ UNCHANGED <<hpc, listener, run, rearm, run_stop, abandon_handle, sender_handle,
                 metrics, stop, abandon, taskVars>>

(* do_arm binds the configured port; the listener of an earlier run lives     *)
(* inside its drain task, and while it does the bind fails.                   *)
Arm ==
  /\ HandlerAccepts("Arm")
  /\ \A r \in Runs : dpc[r] \in {"off", "done"}
  /\ AllowRearm \/ ~rearm
  /\ state' = "Armed"
  /\ listener' = TRUE
  /\ UNCHANGED <<hpc, run, rearm, run_stop, abandon_handle, sender_handle, metrics, stop,
                 abandon, taskVars>>

(* do_start: new queue, abandon flag, links, sender thread and drain task.    *)
(* The handles of an earlier run are overwritten.                             *)
Start ==
  /\ HandlerAccepts("Start") /\ listener
  /\ run < MaxRuns
  /\ state' = "Running"
  /\ listener' = FALSE
  /\ run' = run + 1
  /\ metrics' = ZeroMetrics
  /\ run_stop' = run + 1 /\ abandon_handle' = run + 1 /\ sender_handle' = run + 1
  /\ dpc' = [dpc EXCEPT ![run + 1] = "accept"]
  /\ spc' = [spc EXCEPT ![run + 1] = "top"]
  /\ UNCHANGED <<hpc, rearm, conns, carried, left, cut, owes_eos, stop, queue, batch, out,
                 at, alive, seqno, eos_sent, beats, abandon, accepted, wire>>

(* do_start fails after it took the listener (the socket cannot be handed to  *)
(* the runtime): Armed without a listener, from which only Reset leads out.   *)
StartLosesListener ==
  /\ HandlerAccepts("Start") /\ listener
  /\ listener' = FALSE
  /\ state' = Latched
  /\ UNCHANGED <<hpc, run, rearm, run_stop, abandon_handle, sender_handle, metrics, stop,
                 abandon, taskVars>>

(* stop_run and abandon_sends: take the handle, if there is one, and signal.  *)
SignalStop == stop' = [r \in Runs |-> stop[r] \/ r = run_stop] /\ run_stop' = 0

SignalAbandon ==
  /\ abandon' = [r \in Runs |-> abandon[r] \/ r = abandon_handle]
  /\ abandon_handle' = 0

(* do_stop: tells the drain task to end.  The sends go on.                    *)
Stop ==
  /\ HandlerAccepts("Stop")
  /\ SignalStop
  /\ state' = "Configured"
  /\ rearm' = TRUE
  /\ UNCHANGED <<hpc, listener, run, abandon_handle, sender_handle, metrics, abandon,
                 taskVars>>

(* Mutant: the sends are not abandoned before the join.                       *)
Reset_NoAbandon ==
  /\ HandlerAccepts("Reset")
  /\ SignalStop
  /\ hpc' = "joining"
  /\ state' = Latched
  /\ UNCHANGED <<abandon, abandon_handle, listener, run, rearm, sender_handle, metrics, taskVars>>

(* do_reset: signal abandon and stop, then block until the sender has ended.  *)
Reset ==
  /\ HandlerAccepts("Reset")
  /\ SignalAbandon
  /\ SignalStop
  /\ hpc' = "joining"
  /\ state' = Latched
  /\ UNCHANGED <<listener, run, rearm, sender_handle, metrics, taskVars>>

(* Mutant: the sender thread is not joined.                                   *)
ResetJoined_NoJoin ==
  /\ hpc = "joining"
  /\ hpc' = "ready"
  /\ state' = "Idle"
  /\ listener' = FALSE
  /\ rearm' = FALSE
  /\ sender_handle' = 0
  /\ metrics' = [metrics EXCEPT !.overflowed = FALSE]
  /\ UNCHANGED <<run, run_stop, abandon_handle, stop, abandon, taskVars>>

(* ... the join has returned: drop the listener and the overload latch.  The  *)
(* counters are kept.                                                         *)
ResetJoined ==
  /\ hpc = "joining"
  /\ sender_handle # 0 => spc[sender_handle] = "done"
  /\ hpc' = "ready"
  /\ state' = "Idle"
  /\ listener' = FALSE
  /\ rearm' = FALSE
  /\ sender_handle' = 0
  /\ metrics' = [metrics EXCEPT !.overflowed = FALSE]
  /\ UNCHANGED <<run, run_stop, abandon_handle, stop, abandon, taskVars>>

-----------------------------------------------------------------------------
HandlerNext ==
  \/ OnlyLatch \/ Configure \/ Arm \/ Start \/ StartLosesListener
  \/ Stop \/ Reset \/ ResetJoined

DrainNext(r) ==
  \/ DrainAccept(r) \/ DrainRead(r) \/ DrainFrame(r)
  \/ DrainEof(r) \/ DrainStop(r) \/ DrainEos(r)

SenderNext(r) ==
  \/ SenderTop(r) \/ SenderFrame(r) \/ SenderEos(r) \/ SenderDeadline(r)
  \/ SenderHeartbeat(r) \/ SenderPoll(r) \/ SenderDisconnected(r)
  \/ SendSent(r) \/ SendFailed(r) \/ SendAbandoned(r)

Next == HandlerNext \/ \E r \in Runs : DrainNext(r) \/ SenderNext(r)

Spec == Init /\ [][Next]_vars

(* Fairness: the two threads and the join are scheduled.  Nothing is assumed  *)
(* of the downstream peers, so a send may wait for ever; what the thread does *)
(* about the abandon flag is its own step.                                    *)
ThreadFairness ==
  /\ WF_vars(ResetJoined)
  /\ \A r \in Runs :
       /\ WF_vars(DrainFrame(r)) /\ WF_vars(DrainStop(r)) /\ WF_vars(DrainEos(r))
       /\ WF_vars(SenderTop(r)) /\ WF_vars(SenderFrame(r)) /\ WF_vars(SenderEos(r))
       /\ WF_vars(SenderDeadline(r)) /\ WF_vars(SenderPoll(r))
       /\ WF_vars(SenderDisconnected(r)) /\ WF_vars(SendAbandoned(r))

(* The downstream peers keep reading: a send that waits is taken in the end.  *)
DownstreamFairness == \A r \in Runs : WF_vars(SendSent(r) \/ SendFailed(r))

FairSpec == Spec /\ ThreadFairness

-----------------------------------------------------------------------------
(* Properties                                                                 *)

DrainStates == {"off", "accept", "conn", "frames", "closing", "exiting", "done"}
SenderStates == {"off", "top", "recv", "send", "done"}
RangeOf(s) == {s[i] : i \in DOMAIN s}

FlagTypeOK == listener \in BOOLEAN /\ rearm \in BOOLEAN

HandlerTypeOK ==
  /\ state \in States /\ hpc \in {"ready", "joining"}
  /\ run \in 0 .. MaxRuns
  /\ run_stop \in 0 .. MaxRuns /\ abandon_handle \in 0 .. MaxRuns
  /\ sender_handle \in 0 .. MaxRuns
  /\ stop \in [Runs -> BOOLEAN] /\ abandon \in [Runs -> BOOLEAN]

DrainTypeOK ==
  /\ dpc \in [Runs -> DrainStates]
  /\ conns \in [Runs -> 0 .. MaxConns]
  /\ carried \in [Runs -> BOOLEAN]
  /\ left \in [Runs -> Nat]
  /\ cut \in [Runs -> 0 .. MaxFrames]
  /\ owes_eos \in [Runs -> BOOLEAN]
  /\ accepted \in [Runs -> SUBSET Frames]

QueueTypeOK == queue \in [Runs -> Seq(Frames \cup {EndOfStream})]

SenderTypeOK ==
  /\ spc \in [Runs -> SenderStates]
  /\ batch \in [Runs -> Seq(Frames)]
  /\ out \in [Runs -> Seq(Message)]
  /\ at \in [Runs -> Links]
  /\ alive \in [Runs -> BOOLEAN]
  /\ seqno \in [Runs -> Nat]
  /\ eos_sent \in [Runs -> BOOLEAN]
  /\ beats \in [Runs -> 0 .. MaxHeartbeats]

WireTypeOK ==
  wire \in [Runs -> [Links -> Seq([msg : Message, outcome : Outcomes])]]

(* Every variable of the three threads has its type, the counters included.   *)
TypeOK ==
  /\ FlagTypeOK /\ HandlerTypeOK /\ metrics \in Metrics
  /\ DrainTypeOK /\ QueueTypeOK /\ SenderTypeOK /\ WireTypeOK

(* Frames of run r that link l has been given, whatever became of them, that  *)
(* the message at hand holds for it, and that are queued.                     *)
OnWire(r, l)  == UNION { RangeOf(wire[r][l][i].msg.frames) : i \in DOMAIN wire[r][l] }
InHand(r, l)  == UNION { IF l >= at[r] \/ i > 1 THEN RangeOf(out[r][i].frames) ELSE {} :
                           i \in DOMAIN out[r] }
Queued(r)     == RangeOf(queue[r]) \ {EndOfStream}

(* A frame the queue has taken is never mislaid between the threads: for each *)
(* link it is on the wire with a recorded outcome, in the message at hand, in *)
(* the batch or still in the queue (flush, sender_loop, drain_task).          *)
NoFrameMislaid ==
  \A r \in Runs, l \in Links :
    accepted[r] = OnWire(r, l) \cup InHand(r, l) \cup RangeOf(batch[r]) \cup Queued(r)

(* The places of link l's data messages.                                      *)
DataOn(r, l) == {i \in DOMAIN wire[r][l] : wire[r][l][i].msg.kind = "data"}

Ascending(s) == \A i, j \in DOMAIN s : i < j => s[i] < s[j]

(* The data messages of a link carry the numbers 0, 1, 2, ... in the order    *)
(* they were tried and their frames ascend over the whole link, so the        *)
(* downstream sees a gap in the numbers exactly where a message was lost and  *)
(* never a frame twice or out of order (flush: the number advances even when  *)
(* the send fails).                                                           *)
GapsMarkLosses ==
  \A r \in Runs, l \in Links : \A i \in DataOn(r, l) :
    /\ wire[r][l][i].msg.seq = Cardinality({j \in DataOn(r, l) : j < i})
    /\ Ascending(wire[r][l][i].msg.frames)
    /\ \A j \in DataOn(r, l) : j < i =>
         \A x \in RangeOf(wire[r][l][j].msg.frames), y \in RangeOf(wire[r][l][i].msg.frames) :
           x < y

(* A run that ends without Reset ends every link with EndOfStream: when the   *)
(* sender thread has left and nobody abandoned its sends, the last message it *)
(* tried on each link is an EOS, whatever connections came and went           *)
(* (drain_task: owes_eos).                                                    *)
EosClosesRun ==
  \A r \in Runs, l \in Links :
    spc[r] = "done" /\ ~abandon[r] =>
      /\ wire[r][l] # << >>
      /\ wire[r][l][Len(wire[r][l])].msg = Eos
      /\ batch[r] = << >> /\ queue[r] = << >>

(* Once an EOS was sent on a link no Heartbeat follows it there, even when a  *)
(* later connection brings more data (sender_loop: eos_sent).                 *)
NoHeartbeatAfterEos ==
  \A r \in Runs, l \in Links : \A i, j \in DOMAIN wire[r][l] :
    i < j /\ wire[r][l][i].msg = Eos => wire[r][l][j].msg # Heartbeat

(* One EndOfStream per connection that carried data, or the forced one: the   *)
(* number of EOS a link is given never exceeds max(1, connections), and an    *)
(* empty connection adds none (drain_task, SPEC 1.4-6).                       *)
EosPerConnection ==
  \A r \in Runs, l \in Links :
    LET eos == Cardinality({i \in DOMAIN wire[r][l] : wire[r][l][i].msg = Eos})
    IN  /\ eos <= 1 \/ eos <= conns[r]
        /\ r = run => eos + metrics.empty_connections <= conns[r] + 1

(* The counters of the current run are exact: every frame the queue refused   *)
(* is in overflow_frames and every message that was tried and not sent is in  *)
(* send_errors or messages_abandoned, with the threads racing the Reset that  *)
(* ends them (Metrics, record_dropped_frame, record_abandoned).               *)
CountersExact ==
  run > 0 =>
    LET on(l, o) == Cardinality({i \in DOMAIN wire[run][l] : wire[run][l][i].outcome = o})
    IN  /\ metrics.overflow_frames = cut[run] - Cardinality(accepted[run])
        /\ metrics.send_errors = on(1, "failed") + on(2, "failed")
        /\ metrics.messages_abandoned = on(1, "abandoned") + on(2, "abandoned")

(* A run that lost a frame in front of the queue is never reported healthy:   *)
(* while it is the current run and not Reset, the overload latch is set, so   *)
(* the next command of any kind answers Error (latch_overload).               *)
OverloadReported ==
  run > 0 /\ state \in {"Running", "Error"} /\ hpc = "ready"
    /\ cut[run] > Cardinality(accepted[run]) => metrics.overflowed

(* Reset leaves no thread behind: when the receiver is Idle, every sender has *)
(* ended (join_sender: "no thread leaks").                                    *)
NoThreadLeak ==
  state = "Idle" /\ hpc = "ready" => \A r \in Runs : spc[r] \in {"off", "done"}

(* Reset always returns, whether or not the downstream peers are there.       *)
ResetReturns == hpc = "joining" ~> hpc = "ready"

EndsWithEos(r) ==
  spc[r] = "done" /\ \A l \in Links :
    wire[r][l] # << >> /\ wire[r][l][Len(wire[r][l])].msg = Eos

(* A stopped run is closed: when the peers keep reading and Stop has been     *)
(* signalled, the sender ends with an EOS as the last message it tried on     *)
(* both links, unless a Reset abandons the run (drain_task, do_stop).         *)
StopDeliversEos ==
  DownstreamFairness => \A r \in Runs : stop[r] ~> (abandon[r] \/ EndsWithEos(r))

(* EndOfStream stands where a downstream expects it: one for a connection   *)
(* that carried data, none for an empty one, and no Heartbeat behind it     *)
(* (drain_task, sender_loop).                                               *)
EosPlaced == EosPerConnection /\ NoHeartbeatAfterEos

(* Every loss is counted and an overload is told: the counters are exact    *)
(* while threads of an earlier run race the next one, and the latch stands  *)
(* until Reset.                                                             *)
LossesReported == CountersExact /\ OverloadReported
=============================================================================
