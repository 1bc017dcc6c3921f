---------------------------- MODULE ReceiverProofs ----------------------------
(* Proofs about Receiver, in three parts: types and the EndOfStream that ends  *)
(* a run; what happens to the stream of frames of a run; threads and counters  *)
(* over several runs.                                                          *)
EXTENDS Receiver, SequenceFacts, TLAPS

(* The frame loop only handles frames the read announced.                      *)
FrameLoop ==
  \A r \in Runs : dpc[r] = "frames" => left[r] >= 1 /\ cut[r] + left[r] <= MaxFrames

(* Threads exist for started runs only.                                        *)
Unstarted == \A r \in Runs : r > run => dpc[r] = "off" /\ spc[r] = "off" /\ owes_eos[r]

(* Messages are at hand exactly while the thread sends.                        *)
OutShape ==
  \A r \in Runs :
    /\ spc[r] = "send" <=> out[r] # << >>
    /\ spc[r] # "send" => at[r] = 1

(* A connection that carried data leaves an EOS owed until it is queued.       *)
OwesShape ==
  \A r \in Runs :
    /\ dpc[r] \in {"off", "frames", "closing", "exiting"} => owes_eos[r]
    /\ dpc[r] = "conn" /\ carried[r] => owes_eos[r]

(* The thread ends only because it was abandoned, or because the drain task    *)
(* is gone and the queue is empty.                                             *)
SenderEnd ==
  \A r \in Runs :
    spc[r] = "done" \/ ~alive[r] => abandon[r] \/ (dpc[r] = "done" /\ queue[r] = << >>)

(* The youngest thing under way from the queue to link l is an EOS.            *)
TailIsEos(r, l) ==
  IF queue[r] # << >> THEN queue[r][Len(queue[r])] = EndOfStream
  ELSE /\ batch[r] = << >> /\ eos_sent[r]
       /\ IF out[r] # << >> /\ (Len(out[r]) > 1 \/ l >= at[r])
          THEN out[r][Len(out[r])] = Eos
          ELSE wire[r][l] # << >> /\ wire[r][l][Len(wire[r][l])].msg = Eos

(* Nothing is owed: every connection that carried data has queued its EOS.     *)
Closed(r) == (dpc[r] \in {"accept", "conn"} /\ ~owes_eos[r]) \/ dpc[r] = "done"

ClosedByEos ==
  \A r \in Runs, l \in Links : Closed(r) => abandon[r] \/ TailIsEos(r, l)

IInv == TypeOK /\ FrameLoop /\ Unstarted /\ OutShape /\ OwesShape /\ SenderEnd /\ ClosedByEos

-------------------------------------------------------------------------------
(* The three kinds of message a sender builds are messages.                    *)
LEMMA MessageTypes ==
  /\ Eos \in Message /\ Heartbeat \in Message
  /\ \A n \in Nat, fs \in Seq(Frames) : Data(n, fs) \in Message
BY DEF Eos, Heartbeat, Data, Message

(* Counting one event leaves the shared counters well-typed.                   *)
LEMMA MetricsUpdates ==
  ASSUME metrics \in Metrics
  PROVE  /\ [metrics EXCEPT !.overflow_frames = @ + 1, !.overflowed = TRUE] \in Metrics
         /\ [metrics EXCEPT !.empty_connections = @ + 1] \in Metrics
         /\ [metrics EXCEPT !.send_errors = @ + 1] \in Metrics
         /\ [metrics EXCEPT !.messages_abandoned = @ + 1] \in Metrics
<1> DEFINE m == metrics
<1>1. /\ m.overflow_frames + 1 \in Nat /\ m.empty_connections + 1 \in Nat
      /\ m.send_errors + 1 \in Nat /\ m.messages_abandoned + 1 \in Nat
  BY DEF Metrics
<1>2. [metrics EXCEPT !.overflow_frames = @ + 1, !.overflowed = TRUE] \in Metrics
  BY <1>1, Zenon DEF Metrics
<1>3. [metrics EXCEPT !.empty_connections = @ + 1] \in Metrics
  BY <1>1 DEF Metrics
<1>4. [metrics EXCEPT !.send_errors = @ + 1] \in Metrics
  BY <1>1 DEF Metrics
<1>5. [metrics EXCEPT !.messages_abandoned = @ + 1] \in Metrics
  BY <1>1 DEF Metrics
<1> QED
  BY <1>2, <1>3, <1>4, <1>5

(* Queueing a frame or an EOS keeps the queue well-typed.                      *)
LEMMA AppendToQueue ==
  ASSUME QueueTypeOK, NEW r \in Runs, NEW x \in Frames \cup {EndOfStream}
  PROVE  [queue EXCEPT ![r] = Append(@, x)] \in [Runs -> Seq(Frames \cup {EndOfStream})]
<1>1. Append(queue[r], x) \in Seq(Frames \cup {EndOfStream})
  BY DEF QueueTypeOK
<1> QED
  BY <1>1 DEF QueueTypeOK

(* The invariant holds of a receiver process that has just started.            *)
LEMMA InitInv == Init => IInv
<1> SUFFICES ASSUME Init PROVE IInv
  OBVIOUS
<1> USE ReceiverAssumption DEF Init
<1>1. TypeOK
  <2>0. FlagTypeOK
    BY Zenon DEF FlagTypeOK
  <2>1. HandlerTypeOK
    BY DEF HandlerTypeOK, States
  <2>2. metrics \in Metrics
    BY DEF Metrics, ZeroMetrics
  <2>3. DrainTypeOK
    BY DEF DrainTypeOK, DrainStates
  <2>4. QueueTypeOK
    BY DEF QueueTypeOK
  <2>5. SenderTypeOK
    BY DEF SenderTypeOK, SenderStates, Links
  <2>6. WireTypeOK
    BY DEF WireTypeOK
  <2> QED
    BY <2>0, <2>1, <2>2, <2>3, <2>4, <2>5, <2>6 DEF TypeOK
<1>2. FrameLoop /\ Unstarted /\ OwesShape /\ SenderEnd
  BY DEF FrameLoop, Unstarted, OwesShape, SenderEnd
<1>3. OutShape
  BY DEF OutShape
<1>4. ClosedByEos
  BY DEF ClosedByEos, Closed
<1> QED
  BY <1>1, <1>2, <1>3, <1>4 DEF IInv

(* What the invariant says of the threads, unchanged by a step that changes    *)
(* neither the threads nor withdraws an abandon flag.                          *)
LEMMA TasksUnchanged ==
  ASSUME IInv, UNCHANGED <<run, taskVars>>,
         \A r \in Runs : abandon[r] => abandon'[r]
  PROVE  /\ DrainTypeOK' /\ QueueTypeOK' /\ SenderTypeOK' /\ WireTypeOK'
         /\ FrameLoop' /\ Unstarted' /\ OutShape' /\ OwesShape' /\ SenderEnd'
         /\ ClosedByEos'
<1>1. DrainTypeOK' /\ QueueTypeOK' /\ SenderTypeOK' /\ WireTypeOK'
  BY DEF IInv, TypeOK, DrainTypeOK, QueueTypeOK, SenderTypeOK, WireTypeOK, taskVars,
    drainVars, senderVars
<1>2. FrameLoop' /\ Unstarted' /\ OutShape' /\ OwesShape'
  BY DEF IInv, FrameLoop, Unstarted, OutShape, OwesShape, taskVars, drainVars, senderVars
<1>3. SenderEnd'
  BY DEF IInv, SenderEnd, taskVars, drainVars, senderVars
<1>4. ClosedByEos'
  <2>1. \A r \in Runs : Closed(r)' = Closed(r)
    BY DEF Closed, taskVars, drainVars
  <2>2. \A r \in Runs, l \in Links : TailIsEos(r, l)' = TailIsEos(r, l)
    BY DEF TailIsEos, taskVars, senderVars
  <2> QED
    BY <2>1, <2>2 DEF IInv, ClosedByEos
<1> QED
  BY <1>1, <1>2, <1>3, <1>4

(* A handler step changes no thread's state, except that Start creates the     *)
(* threads of the next run.                                                    *)
LEMMA HandlerInv == IInv /\ HandlerNext => IInv'
<1> SUFFICES ASSUME IInv, HandlerNext PROVE IInv'
  OBVIOUS
<1> USE ReceiverAssumption
<1>1. CASE OnlyLatch \/ Configure \/ Arm \/ StartLosesListener
  <2>1. UNCHANGED <<run, rearm, run_stop, abandon_handle, sender_handle, metrics, stop,
                    abandon, taskVars>>
    BY <1>1 DEF OnlyLatch, Configure, Arm, StartLosesListener
  <2>2. state' \in States /\ hpc' = hpc
    BY <1>1 DEF OnlyLatch, Configure, Arm, StartLosesListener, Latched, States, IInv,
      TypeOK, HandlerTypeOK
  <2>3. HandlerTypeOK' /\ metrics' \in Metrics
    BY <2>1, <2>2 DEF IInv, TypeOK, HandlerTypeOK
  <2>4. FlagTypeOK'
    BY <1>1, <2>1, Zenon DEF OnlyLatch, Configure, Arm, StartLosesListener, IInv, TypeOK,
      FlagTypeOK
  <2> QED
    BY <2>1, <2>3, <2>4, TasksUnchanged DEF IInv, TypeOK
<1>2. CASE Start
  <2> USE DEF IInv, TypeOK
  <2>1. run + 1 \in Runs /\ run' = run + 1
    BY <1>2 DEF Start, HandlerTypeOK, Runs
  <2>2. TypeOK'
    <3>1. HandlerTypeOK'
      BY <1>2, <2>1 DEF Start, HandlerTypeOK, Runs, States
    <3>2. metrics' \in Metrics
      BY <1>2 DEF Start, ZeroMetrics, Metrics
    <3>3. DrainTypeOK' /\ QueueTypeOK' /\ WireTypeOK'
      BY <1>2, <2>1 DEF Start, DrainTypeOK, QueueTypeOK, WireTypeOK, DrainStates
    <3>4. SenderTypeOK'
      BY <1>2, <2>1 DEF Start, SenderTypeOK, SenderStates
    <3>5. FlagTypeOK'
      BY <1>2, Zenon DEF Start, FlagTypeOK
    <3> QED
      BY <3>1, <3>2, <3>3, <3>4, <3>5
  <2>3. /\ dpc' = [dpc EXCEPT ![run + 1] = "accept"]
        /\ spc' = [spc EXCEPT ![run + 1] = "top"]
        /\ UNCHANGED <<carried, left, cut, owes_eos, queue, batch, out, at, alive, seqno,
                       eos_sent, abandon, wire>>
    BY <1>2, Zenon DEF Start
  <2>4. /\ run \in Nat /\ dpc[run + 1] = "off" /\ spc[run + 1] = "off" /\ owes_eos[run + 1]
        /\ dpc \in [Runs -> DrainStates] /\ spc \in [Runs -> SenderStates]
    BY <2>1 DEF Unstarted, HandlerTypeOK, DrainTypeOK, SenderTypeOK
  <2> HIDE DEF IInv, TypeOK
  <2>5. FrameLoop' /\ OwesShape'
    BY <2>1, <2>3, <2>4 DEF IInv, FrameLoop, OwesShape
  <2>6. Unstarted'
    BY <2>1, <2>3, <2>4 DEF IInv, Unstarted, Runs
  <2>7. OutShape'
    BY <2>1, <2>3, <2>4 DEF IInv, OutShape
  <2>8. SenderEnd'
    BY <2>1, <2>3, <2>4 DEF IInv, SenderEnd
  <2>9. ClosedByEos'
    <3> SUFFICES ASSUME NEW r \in Runs, NEW l \in Links, Closed(r)'
                 PROVE  abandon'[r] \/ TailIsEos(r, l)'
      BY DEF ClosedByEos
    <3>1. r # run + 1 /\ Closed(r)
      BY <2>1, <2>3, <2>4 DEF Closed
    <3>2. TailIsEos(r, l)' = TailIsEos(r, l)
      BY <2>3 DEF TailIsEos
    <3> QED
      BY <2>3, <3>1, <3>2 DEF IInv, ClosedByEos
  <2> QED
    BY <2>2, <2>5, <2>6, <2>7, <2>8, <2>9 DEF IInv
<1>3. CASE Stop \/ Reset
  <2>1. UNCHANGED <<run, metrics, taskVars>>
    BY <1>3 DEF Stop, Reset
  <2>2. \A r \in Runs : abandon[r] => abandon'[r]
    BY <1>3 DEF Stop, Reset, SignalAbandon, IInv, TypeOK, HandlerTypeOK
  <2>3. HandlerTypeOK'
    <3>1. state' \in States /\ hpc' \in {"ready", "joining"} /\ run' = run
          /\ sender_handle' = sender_handle /\ run_stop' = 0
          /\ abandon_handle' \in {0, abandon_handle}
      BY <1>3, <2>1 DEF Stop, Reset, SignalStop, SignalAbandon, IInv, TypeOK, HandlerTypeOK,
        States, Latched
    <3>2. stop' \in [Runs -> BOOLEAN] /\ abandon' \in [Runs -> BOOLEAN]
      BY <1>3, Zenon DEF Stop, Reset, SignalStop, SignalAbandon, IInv, TypeOK, HandlerTypeOK
    <3> QED
      BY <3>1, <3>2 DEF IInv, TypeOK, HandlerTypeOK
  <2>4. FlagTypeOK'
    BY <1>3, Zenon DEF Stop, Reset, FlagTypeOK, IInv, TypeOK
  <2> QED
    BY <2>1, <2>2, <2>3, <2>4, TasksUnchanged DEF IInv, TypeOK
<1>4. CASE ResetJoined
  <2>1. UNCHANGED <<run, abandon, taskVars>>
    BY <1>4 DEF ResetJoined
  <2>2. HandlerTypeOK'
    BY <1>4 DEF ResetJoined, IInv, TypeOK, HandlerTypeOK, States
  <2>3. metrics' \in Metrics
    BY <1>4 DEF ResetJoined, IInv, TypeOK, Metrics
  <2>4. FlagTypeOK'
    BY <1>4, Zenon DEF ResetJoined, FlagTypeOK
  <2> QED
    BY <2>1, <2>2, <2>3, <2>4, TasksUnchanged DEF IInv, TypeOK
<1> QED
  BY <1>1, <1>2, <1>3, <1>4 DEF HandlerNext

(* A drain step leaves the handler, the sender thread and the wire alone; it   *)
(* may append to the queue, where an EOS settles what the run owes.            *)
LEMMA DrainInv ==
  ASSUME IInv, NEW r \in Runs, DrainNext(r)
  PROVE  IInv'
<1> USE ReceiverAssumption
<1>0. UNCHANGED <<handlerVars, stop, senderVars, abandon, wire>>
  BY DEF DrainNext, DrainAccept, DrainRead, DrainFrame, DrainEof, DrainStop, DrainEos
<1>1. FlagTypeOK' /\ HandlerTypeOK' /\ SenderTypeOK' /\ WireTypeOK'
  BY <1>0 DEF IInv, TypeOK, FlagTypeOK, HandlerTypeOK, SenderTypeOK, WireTypeOK,
    handlerVars, senderVars
<1>2. metrics' \in Metrics
  <2>1. metrics \in Metrics
    BY DEF IInv, TypeOK
  <2>2. \/ metrics' = metrics
        \/ metrics' = [metrics EXCEPT !.overflow_frames = @ + 1, !.overflowed = TRUE]
        \/ metrics' = [metrics EXCEPT !.empty_connections = @ + 1]
    BY Zenon DEF DrainNext, DrainAccept, DrainRead, DrainFrame, DrainEof, DrainStop, DrainEos
  <2> QED
    BY <2>1, <2>2, MetricsUpdates
<1>3. DrainTypeOK'
  <2> USE DEF IInv, TypeOK, DrainTypeOK, DrainStates
  <2>1. CASE DrainAccept(r)
    BY <2>1 DEF DrainAccept
  <2>2. CASE DrainRead(r)
    <3>1. PICK n \in 0 .. MaxRead :
            /\ left' = [left EXCEPT ![r] = n]
            /\ dpc' = [dpc EXCEPT ![r] = IF n = 0 THEN "conn" ELSE "frames"]
      BY <2>2 DEF DrainRead
    <3>2. owes_eos' \in [Runs -> BOOLEAN] /\ carried' \in [Runs -> BOOLEAN]
      BY <2>2, Zenon DEF DrainRead
    <3>3. UNCHANGED <<conns, cut, accepted>>
      BY <2>2 DEF DrainRead
    <3>4. left' \in [Runs -> Nat] /\ dpc' \in [Runs -> DrainStates]
      BY <3>1
    <3> QED
      BY <3>2, <3>3, <3>4
  <2>3. CASE DrainFrame(r)
    <3>1. cut[r] + 1 \in Frames /\ left[r] - 1 \in Nat
      BY <2>3 DEF DrainFrame, FrameLoop, Frames
    <3>2. left' \in [Runs -> Nat] /\ cut' \in [Runs -> 0 .. MaxFrames]
      BY <2>3, <3>1 DEF DrainFrame, Frames
    <3>3. dpc' \in [Runs -> DrainStates]
      BY <2>3 DEF DrainFrame
    <3>4. accepted' \in [Runs -> SUBSET Frames]
      <4>1. accepted' = accepted \/ accepted' = [accepted EXCEPT ![r] = @ \cup {cut[r] + 1}]
        BY <2>3 DEF DrainFrame
      <4> QED
        BY <3>1, <4>1
    <3> QED
      BY <2>3, <3>2, <3>3, <3>4 DEF DrainFrame
  <2>4. CASE DrainEof(r) \/ DrainStop(r) \/ DrainEos(r)
    BY <2>4 DEF DrainEof, DrainStop, DrainEos
  <2> QED
    BY <2>1, <2>2, <2>3, <2>4 DEF DrainNext
<1>4. QueueTypeOK'
  <2>0. QueueTypeOK
    BY DEF IInv, TypeOK
  <2>1. CASE DrainFrame(r)
    <3>1. cut[r] + 1 \in Frames \cup {EndOfStream}
      BY <2>1 DEF DrainFrame, FrameLoop, Frames, IInv, TypeOK, DrainTypeOK
    <3>2. [queue EXCEPT ![r] = Append(@, cut[r] + 1)]
            \in [Runs -> Seq(Frames \cup {EndOfStream})]
      BY <2>0, <3>1, AppendToQueue
    <3> QED
      BY <2>0, <2>1, <3>2 DEF DrainFrame, QueueTypeOK
  <2>2. CASE DrainEos(r)
    <3>1. [queue EXCEPT ![r] = Append(@, EndOfStream)]
            \in [Runs -> Seq(Frames \cup {EndOfStream})]
      BY <2>0, AppendToQueue
    <3> QED
      BY <2>0, <2>2, <3>1 DEF DrainEos, QueueTypeOK
  <2>3. CASE DrainAccept(r) \/ DrainRead(r) \/ DrainEof(r) \/ DrainStop(r)
    BY <2>0, <2>3 DEF DrainAccept, DrainRead, DrainEof, DrainStop, QueueTypeOK
  <2> QED
    BY <2>1, <2>2, <2>3 DEF DrainNext
<1>5. FrameLoop'
  <2> USE DEF IInv, TypeOK, DrainTypeOK, FrameLoop
  <2>1. CASE DrainRead(r)
    <3>1. PICK n \in 0 .. MaxRead :
            /\ cut[r] + n <= MaxFrames
            /\ left' = [left EXCEPT ![r] = n]
            /\ dpc' = [dpc EXCEPT ![r] = IF n = 0 THEN "conn" ELSE "frames"]
      BY <2>1 DEF DrainRead
    <3>2. cut' = cut
      BY <2>1 DEF DrainRead
    <3> QED
      BY <3>1, <3>2
  <2>2. CASE DrainFrame(r)
    <3>1. /\ cut' = [cut EXCEPT ![r] = @ + 1]
          /\ left' = [left EXCEPT ![r] = @ - 1]
          /\ dpc' = [dpc EXCEPT ![r] = IF left[r] = 1 THEN "conn" ELSE "frames"]
          /\ dpc[r] = "frames"
      BY <2>2 DEF DrainFrame
    <3> QED
      BY <3>1
  <2>3. CASE DrainAccept(r) \/ DrainEof(r) \/ DrainStop(r) \/ DrainEos(r)
    BY <2>3 DEF DrainAccept, DrainEof, DrainStop, DrainEos
  <2> QED
    BY <2>1, <2>2, <2>3 DEF DrainNext
<1>6. Unstarted' /\ dpc[r] # "off"
  BY <1>0 DEF DrainNext, DrainAccept, DrainRead, DrainFrame, DrainEof, DrainStop, DrainEos,
    IInv, TypeOK, DrainTypeOK, Unstarted, handlerVars, senderVars
<1>7. OutShape'
  BY <1>0 DEF IInv, OutShape, senderVars
<1>8. OwesShape'
  BY ZenonT(30) DEF DrainNext, DrainAccept, DrainRead, DrainFrame, DrainEof, DrainStop, DrainEos,
    IInv, TypeOK, DrainTypeOK, OwesShape
<1>9. SenderEnd'
  <2>1. dpc[r] # "done"
    BY DEF DrainNext, DrainAccept, DrainRead, DrainFrame, DrainEof, DrainStop, DrainEos
  <2>2. \A q \in Runs \ {r} : dpc'[q] = dpc[q] /\ queue'[q] = queue[q]
    BY DEF DrainNext, DrainAccept, DrainRead, DrainFrame, DrainEof, DrainStop, DrainEos,
      IInv, TypeOK, DrainTypeOK, QueueTypeOK
  <2> QED
    BY <1>0, <2>1, <2>2 DEF IInv, SenderEnd, senderVars
<1>10. ClosedByEos'
  <2> SUFFICES ASSUME NEW q \in Runs, NEW l \in Links, Closed(q)'
               PROVE  abandon'[q] \/ TailIsEos(q, l)'
    BY DEF ClosedByEos
  <2>1. CASE q # r
    <3>1. /\ dpc'[q] = dpc[q] /\ queue'[q] = queue[q] /\ owes_eos'[q] = owes_eos[q]
      BY <2>1 DEF DrainNext, DrainAccept, DrainRead, DrainFrame, DrainEof, DrainStop, DrainEos,
        IInv, TypeOK, DrainTypeOK, QueueTypeOK
    <3> QED
      BY <1>0, <3>1 DEF IInv, ClosedByEos, Closed, TailIsEos, senderVars
  <2>2. CASE q = r /\ queue'[r] = queue[r] /\ Closed(r)
    BY <1>0, <2>2 DEF IInv, ClosedByEos, TailIsEos, senderVars
  <2>3. CASE q = r /\ DrainEos(r)
    <3>1. CASE spc[r] = "done"
      BY <1>0, <2>3, <3>1 DEF DrainEos, IInv, SenderEnd
    <3>2. CASE queue' = [queue EXCEPT ![r] = Append(@, EndOfStream)]
      <4>1. queue[r] \in Seq(Frames \cup {EndOfStream})
        BY DEF IInv, TypeOK, QueueTypeOK
      <4>2. queue'[r] = Append(queue[r], EndOfStream)
        BY <3>2 DEF IInv, TypeOK, QueueTypeOK
      <4>3. queue'[r] # << >> /\ queue'[r][Len(queue'[r])] = EndOfStream
        BY <4>1, <4>2
      <4> QED
        BY <2>3, <4>3 DEF TailIsEos
    <3> QED
      BY <2>3, <3>1, <3>2 DEF DrainEos
  <2>4. CASE q = r /\ ~DrainEos(r)
    <3>1. queue'[r] = queue[r] /\ Closed(r)
      BY <2>4 DEF DrainNext, DrainAccept, DrainRead, DrainFrame, DrainEof, DrainStop,
        IInv, TypeOK, DrainTypeOK, OwesShape, Closed
    <3> QED
      BY <2>2, <2>4, <3>1
  <2> QED
    BY <2>1, <2>3, <2>4
<1> QED
  BY <1>1, <1>2, <1>3, <1>4, <1>5, <1>6, <1>7, <1>8, <1>9, <1>10 DEF IInv, TypeOK

(* What a flush hands to the links: messages, the EOS last when one is due.    *)
LEMMA OutgoingShape ==
  ASSUME SenderTypeOK, NEW r \in Runs, NEW fs \in Seq(Frames),
         NEW then \in {<< >>, <<Eos>>, <<Heartbeat>>}
  PROVE  /\ Outgoing(r, fs, then) \in Seq(Message)
         /\ then = <<Eos>> =>
              /\ Outgoing(r, fs, then) # << >>
              /\ Outgoing(r, fs, then)[Len(Outgoing(r, fs, then))] = Eos
         /\ fs = << >> => Outgoing(r, fs, then) = then
<1> DEFINE msgs == Outgoing(r, fs, then)
<1>0. seqno[r] \in Nat
  BY DEF SenderTypeOK
<1>1. then \in Seq(Message) /\ Data(seqno[r], fs) \in Message
  <2>1. Data(seqno[r], fs) \in Message
    BY <1>0, MessageTypes
  <2>2. CASE then = << >>
    BY <2>1, <2>2
  <2>3. CASE then = <<Eos>>
    BY <2>1, <2>3, MessageTypes
  <2>4. CASE then = <<Heartbeat>>
    BY <2>1, <2>4, MessageTypes
  <2> QED
    BY <2>2, <2>3, <2>4
<1>2. msgs \in Seq(Message)
  BY <1>1 DEF Outgoing
<1>4. then = <<Eos>> => msgs # << >> /\ msgs[Len(msgs)] = Eos
  BY <1>1 DEF Outgoing
<1>5. fs = << >> => msgs = then
  BY DEF Outgoing
<1> QED
  BY <1>2, <1>4, <1>5

(* What flush leaves in hand.                                                  *)
LEMMA FlushShape ==
  ASSUME SenderTypeOK, NEW r \in Runs, NEW fs \in Seq(Frames),
         NEW then \in {<< >>, <<Eos>>, <<Heartbeat>>}, NEW next \in {"top", "done"},
         FlushThen(r, fs, then, next)
  PROVE  /\ batch' = [batch EXCEPT ![r] = << >>] /\ batch'[r] = << >>
         /\ alive' = [alive EXCEPT ![r] = (next = "top")]
         /\ at' = [at EXCEPT ![r] = 1] /\ at'[r] = 1
         /\ seqno' \in [Runs -> Nat]
         /\ out' = [out EXCEPT ![r] = Outgoing(r, fs, then)]
         /\ out'[r] = Outgoing(r, fs, then)
         /\ spc' = [spc EXCEPT ![r] = IF Outgoing(r, fs, then) # << >> THEN "send" ELSE next]
         /\ Outgoing(r, fs, then) \in Seq(Message)
         /\ then = <<Eos>> =>
              /\ Outgoing(r, fs, then) # << >>
              /\ Outgoing(r, fs, then)[Len(Outgoing(r, fs, then))] = Eos
         /\ fs = << >> => Outgoing(r, fs, then) = then
<1> DEFINE msgs == Outgoing(r, fs, then)
<1>1. /\ msgs \in Seq(Message)
      /\ then = <<Eos>> => msgs # << >> /\ msgs[Len(msgs)] = Eos
      /\ fs = << >> => msgs = then
  BY OutgoingShape
<1>6. seqno' \in [Runs -> Nat]
  BY DEF FlushThen, SenderTypeOK
<1>7. batch'[r] = << >> /\ at'[r] = 1 /\ out'[r] = msgs
  BY DEF FlushThen, SenderTypeOK
<1> QED
  BY <1>1, <1>6, <1>7 DEF FlushThen

(* A step that changes the sender and the queue of run r only.                 *)
SenderLocal(r) ==
  /\ UNCHANGED <<handlerVars, drainVars, stop, abandon, accepted>>
  /\ \A q \in Runs \ {r} :
       /\ queue'[q] = queue[q] /\ spc'[q] = spc[q] /\ batch'[q] = batch[q]
       /\ out'[q] = out[q] /\ at'[q] = at[q] /\ alive'[q] = alive[q]
       /\ eos_sent'[q] = eos_sent[q] /\ wire'[q] = wire[q]

(* What such a step has to keep for its own run.                               *)
LEMMA SenderLocalInv ==
  ASSUME IInv, NEW r \in Runs, SenderLocal(r),
         metrics' \in Metrics, QueueTypeOK', SenderTypeOK', WireTypeOK',
         spc[r] # "off",
         spc'[r] = "send" <=> out'[r] # << >>,
         spc'[r] # "send" => at'[r] = 1,
         spc'[r] = "done" \/ ~alive'[r] =>
            abandon[r] \/ (dpc[r] = "done" /\ queue'[r] = << >>),
         \A l \in Links : ~abandon[r] /\ TailIsEos(r, l) => TailIsEos(r, l)'
  PROVE  IInv'
<1>1. FlagTypeOK' /\ HandlerTypeOK' /\ DrainTypeOK'
  BY DEF SenderLocal, IInv, TypeOK, FlagTypeOK, HandlerTypeOK, DrainTypeOK, handlerVars,
    drainVars
<1>2. FrameLoop' /\ OwesShape'
  BY DEF SenderLocal, IInv, FrameLoop, OwesShape, drainVars
<1>3. Unstarted'
  BY DEF SenderLocal, IInv, Unstarted, drainVars, handlerVars
<1>4. OutShape'
  BY DEF SenderLocal, IInv, OutShape
<1>5. SenderEnd'
  BY DEF SenderLocal, IInv, SenderEnd, drainVars
<1>6. ClosedByEos'
  <2> SUFFICES ASSUME NEW q \in Runs, NEW l \in Links, Closed(q)'
               PROVE  abandon'[q] \/ TailIsEos(q, l)'
    BY DEF ClosedByEos
  <2>1. Closed(q) /\ abandon'[q] = abandon[q]
    BY DEF Closed, SenderLocal, drainVars
  <2>2. abandon[q] \/ TailIsEos(q, l)
    BY <2>1 DEF IInv, ClosedByEos
  <2>3. CASE q # r
    BY <2>1, <2>2, <2>3 DEF SenderLocal, TailIsEos
  <2>4. CASE q = r
    BY <2>1, <2>2, <2>4
  <2> QED
    BY <2>3, <2>4
<1> QED
  BY <1>1, <1>2, <1>3, <1>4, <1>5, <1>6 DEF IInv, TypeOK

(* The facts about its own run that every step of the sender starts from.      *)
LEMMA SenderFacts ==
  ASSUME IInv, NEW r \in Runs
  PROVE  /\ SenderTypeOK /\ QueueTypeOK /\ WireTypeOK /\ metrics \in Metrics
         /\ spc[r] \in {"top", "recv"} => out[r] = << >> /\ at[r] = 1
         /\ alive[r] \/ abandon[r] \/ (dpc[r] = "done" /\ queue[r] = << >>)
BY DEF IInv, TypeOK, OutShape, SenderEnd

(* Top of the loop and poll timeout: only the pc moves.                        *)
LEMMA SenderIdleInv ==
  ASSUME IInv, NEW r \in Runs, SenderTop(r) \/ SenderPoll(r)
  PROVE  IInv'
<1>1. /\ UNCHANGED <<handlerVars, metrics, drainVars, stop, queue, batch, out, at, alive,
                     seqno, eos_sent, beats, abandon, accepted, wire>>
      /\ spc[r] \in {"top", "recv"}
      /\ \E pc \in {"top", "recv", "done"} :
           spc' = [spc EXCEPT ![r] = pc] /\ (pc = "done" => abandon[r])
  BY DEF SenderTop, SenderPoll, Timeout
<1>2. SenderTypeOK' /\ QueueTypeOK' /\ WireTypeOK' /\ metrics' \in Metrics
  BY <1>1, SenderFacts DEF SenderTypeOK, QueueTypeOK, WireTypeOK, SenderStates
<1>3. spc \in [Runs -> SenderStates]
  BY SenderFacts DEF SenderTypeOK
<1>4. SenderLocal(r)
  BY <1>1, <1>3 DEF SenderLocal
<1>5. \A l \in Links : TailIsEos(r, l)' = TailIsEos(r, l)
  BY <1>1 DEF TailIsEos
<1>6. spc'[r] # "send" /\ (spc'[r] = "done" => abandon[r])
  BY <1>1, <1>3
<1> QED
  BY <1>1, <1>2, <1>4, <1>5, <1>6, SenderFacts, SenderLocalInv

(* A sequence that is not empty has an element.                                *)
LEMMA NonEmpty == ASSUME NEW S, NEW s \in Seq(S), s # << >> PROVE Len(s) >= 1
OBVIOUS

(* Taking the head of a queue leaves its last element in place.                *)
LEMMA TailLast ==
  ASSUME NEW S, NEW q \in Seq(S), q # << >>
  PROVE  /\ Tail(q) \in Seq(S) /\ Head(q) \in S
         /\ Tail(q) # << >> => Tail(q)[Len(Tail(q))] = q[Len(q)]
         /\ Tail(q) = << >> => q[Len(q)] = Head(q)
<1>1. Len(q) >= 1 /\ Head(q) = q[1] /\ q[1] \in S
  OBVIOUS
<1>2. Tail(q) \in Seq(S) /\ Len(Tail(q)) = Len(q) - 1
  OBVIOUS
<1>3. \A i \in 1 .. Len(Tail(q)) : Tail(q)[i] = q[i + 1]
  OBVIOUS
<1>4. Tail(q) # << >> => Len(Tail(q)) >= 1
  BY <1>2, NonEmpty
<1>5. Tail(q) = << >> => Len(q) = 1
  <2> DEFINE t == Tail(q)
  <2>2. Len(t) = Len(q) - 1 /\ Len(q) \in Nat
    BY <1>2
  <2> HIDE DEF t
  <2>1. t = << >> => Len(t) = 0
    OBVIOUS
  <2>3. t = << >> => Len(q) = 1
    BY <2>1, <2>2
  <2> QED
    BY <2>3 DEF t
<1> QED
  BY <1>1, <1>2, <1>3, <1>4, <1>5

(* A step that ends in flush.                                                  *)
LEMMA SenderFlushInv ==
  ASSUME IInv, NEW r \in Runs, NEW fs \in Seq(Frames),
         NEW then \in {<< >>, <<Eos>>, <<Heartbeat>>}, NEW next \in {"top", "done"},
         spc[r] = "recv", FlushThen(r, fs, then, next),
         UNCHANGED <<handlerVars, metrics, drainVars, stop, abandon, accepted, wire>>,
         QueueTypeOK', eos_sent' \in [Runs -> BOOLEAN],
         beats' \in [Runs -> 0 .. MaxHeartbeats],
         \A q \in Runs \ {r} : queue'[q] = queue[q] /\ eos_sent'[q] = eos_sent[q],
         next = "top" \/ (dpc[r] = "done" /\ queue'[r] = << >>),
         \A l \in Links : ~abandon[r] /\ TailIsEos(r, l) => TailIsEos(r, l)'
  PROVE  IInv'
<1>1. SenderTypeOK /\ WireTypeOK /\ metrics \in Metrics
  BY SenderFacts
<1> DEFINE msgs == Outgoing(r, fs, then)
<1>2. /\ out' = [out EXCEPT ![r] = msgs]
      /\ spc' = [spc EXCEPT ![r] = IF msgs # << >> THEN "send" ELSE next]
      /\ msgs \in Seq(Message)
  <2>1. msgs \in Seq(Message)
    BY <1>1, OutgoingShape
  <2> QED
    BY <2>1 DEF FlushThen
<1>3. /\ batch' = [batch EXCEPT ![r] = << >>] /\ alive' = [alive EXCEPT ![r] = (next = "top")]
      /\ at' = [at EXCEPT ![r] = 1] /\ seqno' \in [Runs -> Nat]
  BY <1>1 DEF FlushThen, SenderTypeOK
<1> HIDE DEF msgs
<1>4. SenderTypeOK'
  BY <1>1, <1>2, <1>3 DEF SenderTypeOK, SenderStates, Links
<1>5. SenderLocal(r)
  BY <1>1, <1>2, <1>3 DEF SenderLocal, SenderTypeOK
<1>6. /\ spc'[r] = "send" <=> out'[r] # << >>
      /\ at'[r] = 1
      /\ spc'[r] = "done" \/ ~alive'[r] => next = "done"
  BY <1>1, <1>2, <1>3 DEF SenderTypeOK
<1>7. WireTypeOK' /\ metrics' \in Metrics
  BY <1>1 DEF WireTypeOK
<1> QED
  BY <1>4, <1>5, <1>6, <1>7, SenderLocalInv

(* recv_timeout returned: a frame, an EOS, a timeout or the end.               *)
LEMMA SenderRecvInv ==
  ASSUME IInv, NEW r \in Runs,
         \/ SenderFrame(r) \/ SenderEos(r) \/ SenderDeadline(r)
         \/ SenderHeartbeat(r) \/ SenderDisconnected(r)
  PROVE  IInv'
<1>0. /\ SenderTypeOK /\ QueueTypeOK /\ WireTypeOK /\ metrics \in Metrics
      /\ queue[r] \in Seq(Frames \cup {EndOfStream})
      /\ batch[r] \in Seq(Frames)
      /\ queue \in [Runs -> Seq(Frames \cup {EndOfStream})]
      /\ batch \in [Runs -> Seq(Frames)]
      /\ eos_sent \in [Runs -> BOOLEAN] /\ beats \in [Runs -> 0 .. MaxHeartbeats]
  BY SenderFacts DEF QueueTypeOK, SenderTypeOK
<1>1. spc[r] = "recv" /\ out[r] = << >> /\ at[r] = 1
  BY SenderFacts DEF SenderFrame, SenderEos, SenderDeadline, SenderHeartbeat,
    SenderDisconnected, Timeout
<1>2. CASE SenderFrame(r)
  <2>1. /\ queue[r] # << >> /\ Head(queue[r]) # EndOfStream
        /\ queue' = [queue EXCEPT ![r] = Tail(@)] /\ queue'[r] = Tail(queue[r])
        /\ UNCHANGED <<handlerVars, metrics, drainVars, stop, eos_sent, beats, abandon,
                       accepted, wire>>
    BY <1>0, <1>2 DEF SenderFrame
  <2>2. QueueTypeOK' /\ Head(queue[r]) \in Frames
    BY <1>0, <2>1, TailLast DEF QueueTypeOK
  <2>3. Append(batch[r], Head(queue[r])) \in Seq(Frames)
    BY <1>0, <2>2
  <2>4. ASSUME NEW l \in Links, TailIsEos(r, l) PROVE TailIsEos(r, l)'
    BY <1>0, <2>1, <2>4, TailLast DEF TailIsEos
  <2>5. \A q \in Runs \ {r} : queue'[q] = queue[q]
    BY <1>0, <2>1
  <2>6. CASE FlushThen(r, Append(batch[r], Head(queue[r])), << >>, "top")
    BY <1>1, <1>0, <2>1, <2>2, <2>3, <2>4, <2>5, <2>6, SenderFlushInv
  <2>7. CASE /\ batch' = [batch EXCEPT ![r] = Append(batch[r], Head(queue[r]))]
             /\ spc' = [spc EXCEPT ![r] = "top"]
             /\ UNCHANGED <<out, at, alive, seqno>>
    <3>1. SenderTypeOK'
      BY <1>0, <2>1, <2>3, <2>7 DEF SenderTypeOK, SenderStates
    <3>2. SenderLocal(r)
      BY <1>0, <2>1, <2>5, <2>7 DEF SenderLocal, SenderTypeOK
    <3>3. WireTypeOK' /\ metrics' \in Metrics /\ spc'[r] = "top" /\ out'[r] = << >> /\ at'[r] = 1
      BY <1>0, <1>1, <2>1, <2>7 DEF WireTypeOK, SenderTypeOK
    <3>4. ~alive'[r] => abandon[r] \/ (dpc[r] = "done" /\ queue'[r] = << >>)
      BY <2>1, <2>7, SenderFacts
    <3> QED
      BY <1>1, <2>2, <2>4, <3>1, <3>2, <3>3, <3>4, SenderLocalInv
  <2> QED
    BY <1>2, <2>6, <2>7 DEF SenderFrame
<1>3. CASE SenderEos(r)
  <2>1. /\ queue[r] # << >> /\ Head(queue[r]) = EndOfStream
        /\ queue' = [queue EXCEPT ![r] = Tail(@)] /\ queue'[r] = Tail(queue[r])
        /\ eos_sent' = [eos_sent EXCEPT ![r] = TRUE]
        /\ FlushThen(r, batch[r], <<Eos>>, "top")
        /\ UNCHANGED <<handlerVars, metrics, drainVars, stop, beats, abandon, accepted, wire>>
    BY <1>0, <1>3 DEF SenderEos
  <2>2. QueueTypeOK' /\ eos_sent' \in [Runs -> BOOLEAN] /\ eos_sent'[r]
    BY <1>0, <2>1, TailLast DEF QueueTypeOK
  <2>3. batch'[r] = << >> /\ out'[r] # << >> /\ out'[r][Len(out'[r])] = Eos /\ at'[r] = 1
    <3>1. /\ batch'[r] = << >> /\ at'[r] = 1
          /\ out'[r] = Outgoing(r, batch[r], <<Eos>>)
      BY <1>0, <2>1 DEF FlushThen, SenderTypeOK
    <3>2. /\ Outgoing(r, batch[r], <<Eos>>) # << >>
          /\ Outgoing(r, batch[r], <<Eos>>)[Len(Outgoing(r, batch[r], <<Eos>>))] = Eos
      BY <1>0, OutgoingShape
    <3> QED
      BY <3>1, <3>2
  <2>4. ASSUME NEW l \in Links, TailIsEos(r, l) PROVE TailIsEos(r, l)'
    BY <1>0, <2>1, <2>2, <2>3, <2>4, TailLast DEF TailIsEos, Links
  <2>5. \A q \in Runs \ {r} : queue'[q] = queue[q] /\ eos_sent'[q] = eos_sent[q]
    BY <1>0, <2>1
  <2> QED
    BY <1>0, <1>1, <2>1, <2>2, <2>4, <2>5, SenderFlushInv
<1>4. CASE SenderDeadline(r) \/ SenderHeartbeat(r)
  <2>1. ASSUME NEW l \in Links, TailIsEos(r, l) PROVE FALSE
    BY <1>4, <2>1 DEF SenderDeadline, SenderHeartbeat, Timeout, TailIsEos
  <2>2. QueueTypeOK' /\ queue' = queue /\ eos_sent' = eos_sent
        /\ beats' \in [Runs -> 0 .. MaxHeartbeats]
    <3>1. CASE SenderDeadline(r)
      BY <1>0, <3>1 DEF SenderDeadline, QueueTypeOK
    <3>2. CASE SenderHeartbeat(r)
      <4>1. beats[r] + 1 \in 0 .. MaxHeartbeats
        BY <1>0, <3>2, ReceiverAssumption DEF SenderHeartbeat
      <4> QED
        BY <1>0, <3>2, <4>1 DEF SenderHeartbeat, QueueTypeOK
    <3> QED
      BY <1>4, <3>1, <3>2
  <2>3. UNCHANGED <<handlerVars, metrics, drainVars, stop, abandon, accepted, wire>>
    BY <1>4 DEF SenderDeadline, SenderHeartbeat
  <2>4. CASE SenderDeadline(r)
    <3>1. FlushThen(r, batch[r], << >>, "top")
      BY <2>4 DEF SenderDeadline
    <3> QED
      BY <1>0, <1>1, <2>1, <2>2, <2>3, <3>1, SenderFlushInv
  <2>5. CASE SenderHeartbeat(r)
    <3>1. FlushThen(r, << >>, <<Heartbeat>>, "top")
      BY <2>5 DEF SenderHeartbeat
    <3>2. << >> \in Seq(Frames)
      OBVIOUS
    <3> QED
      BY <1>0, <1>1, <2>1, <2>2, <2>3, <3>1, <3>2, SenderFlushInv, Zenon
  <2> QED
    BY <1>4, <2>4, <2>5
<1>5. CASE SenderDisconnected(r)
  <2>1. /\ queue[r] = << >> /\ dpc[r] = "done"
        /\ FlushThen(r, batch[r], << >>, "done")
        /\ UNCHANGED <<handlerVars, metrics, drainVars, stop, queue, eos_sent, beats,
                       abandon, accepted, wire>>
    BY <1>5 DEF SenderDisconnected
  <2>2. ASSUME NEW l \in Links, TailIsEos(r, l) PROVE TailIsEos(r, l)'
    <3>1. /\ batch[r] = << >> /\ eos_sent[r]
          /\ wire[r][l] # << >> /\ wire[r][l][Len(wire[r][l])].msg = Eos
      BY <1>1, <2>1, <2>2 DEF TailIsEos
    <3>2. out'[r] = << >> /\ batch'[r] = << >>
      BY <1>0, <2>1, <3>1, FlushShape DEF SenderTypeOK
    <3> QED
      BY <2>1, <3>1, <3>2 DEF TailIsEos
  <2>3. QueueTypeOK'
    BY <1>0, <2>1 DEF QueueTypeOK
  <2> QED
    BY <1>0, <1>1, <2>1, <2>2, <2>3, SenderFlushInv
<1> QED
  BY <1>2, <1>3, <1>4, <1>5

(* send_on ended for one message on one link.                                  *)
LEMMA SendEndsInv ==
  ASSUME IInv, NEW r \in Runs, NEW o \in Outcomes, SendEnds(r, o),
         o = "abandoned" => abandon[r], metrics' \in Metrics
  PROVE  IInv'
<1>0. /\ SenderTypeOK /\ QueueTypeOK /\ WireTypeOK
      /\ spc[r] = "send" /\ out[r] # << >> /\ out[r] \in Seq(Message) /\ at[r] \in {1, 2}
      /\ spc \in [Runs -> SenderStates] /\ out \in [Runs -> Seq(Message)]
      /\ at \in [Runs -> Links] /\ alive \in [Runs -> BOOLEAN]
  BY SenderFacts DEF IInv, OutShape, SendEnds, SenderTypeOK, Links
<1>1. UNCHANGED <<handlerVars, drainVars, stop, queue, batch, seqno, eos_sent, beats,
                  abandon, accepted>>
  BY DEF SendEnds
<1>2. /\ out'[r] = (IF at[r] = 1 THEN out[r] ELSE Tail(out[r]))
      /\ at'[r] = (IF at[r] = 1 THEN 2 ELSE 1)
      /\ alive'[r] = (alive[r] /\ o # "abandoned")
      /\ \A q \in Runs \ {r} : out'[q] = out[q] /\ at'[q] = at[q] /\ alive'[q] = alive[q]
      /\ out' \in [Runs -> Seq(Message)] /\ at' \in [Runs -> Links]
      /\ alive' \in [Runs -> BOOLEAN]
  <2>1. Tail(out[r]) \in Seq(Message)
    BY <1>0, TailLast
  <2>2. out' = [out EXCEPT ![r] = IF at[r] = 1 THEN @ ELSE Tail(@)]
    BY DEF SendEnds
  <2>3. at' = [at EXCEPT ![r] = IF @ = 1 THEN 2 ELSE 1]
    BY DEF SendEnds
  <2>4. alive' = [alive EXCEPT ![r] = @ /\ o # "abandoned"]
    BY DEF SendEnds
  <2>5. /\ out'[r] = (IF at[r] = 1 THEN out[r] ELSE Tail(out[r]))
        /\ \A q \in Runs \ {r} : out'[q] = out[q]
        /\ out' \in [Runs -> Seq(Message)]
    BY <1>0, <2>1, <2>2
  <2>6. /\ at'[r] = (IF at[r] = 1 THEN 2 ELSE 1)
        /\ \A q \in Runs \ {r} : at'[q] = at[q]
        /\ at' \in [Runs -> Links]
    BY <1>0, <2>3 DEF Links
  <2>7. /\ alive'[r] = (alive[r] /\ o # "abandoned")
        /\ \A q \in Runs \ {r} : alive'[q] = alive[q]
        /\ alive' \in [Runs -> BOOLEAN]
    BY <1>0, <2>4
  <2> QED
    BY <2>5, <2>6, <2>7
<1>3. /\ spc'[r] = (IF at[r] = 1 \/ Len(out[r]) > 1 THEN "send"
                    ELSE IF alive'[r] THEN "top" ELSE "done")
      /\ \A q \in Runs \ {r} : spc'[q] = spc[q]
      /\ spc' \in [Runs -> SenderStates]
  BY <1>0 DEF SendEnds, SenderStates
<1>4. Head(out[r]) \in Message
  BY <1>0, TailLast
<1>5. /\ \A q \in Runs \ {r} : wire'[q] = wire[q]
      /\ WireTypeOK'
      /\ \A l \in Links : l # at[r] => wire'[r][l] = wire[r][l]
      /\ wire'[r][at[r]] = Append(wire[r][at[r]], [msg |-> Head(out[r]), outcome |-> o])
  <2> DEFINE w == [msg |-> Head(out[r]), outcome |-> o]
  <2>1. w \in [msg : Message, outcome : Outcomes]
    BY <1>4
  <2>2. wire' = [wire EXCEPT ![r][at[r]] = Append(@, w)]
    BY DEF SendEnds
  <2> HIDE DEF w
  <2>3. wire[r] \in [Links -> Seq([msg : Message, outcome : Outcomes])]
    BY <1>0 DEF WireTypeOK
  <2>4. Append(wire[r][at[r]], w) \in Seq([msg : Message, outcome : Outcomes])
    BY <1>0, <2>1, <2>3 DEF Links
  <2>5. /\ WireTypeOK' /\ \A q \in Runs \ {r} : wire'[q] = wire[q]
        /\ \A l \in Links : l # at[r] => wire'[r][l] = wire[r][l]
        /\ wire'[r][at[r]] = Append(wire[r][at[r]], w)
    BY <1>0, <2>2, <2>3, <2>4 DEF WireTypeOK, Links
  <2> QED
    BY <2>5 DEF w
<1>6. SenderTypeOK'
  BY <1>0, <1>1, <1>2, <1>3 DEF SenderTypeOK
<1>7. QueueTypeOK'
  BY <1>0, <1>1 DEF QueueTypeOK
<1>8. SenderLocal(r)
  BY <1>1, <1>2, <1>3, <1>5 DEF SenderLocal
<1>9. (out'[r] # << >> <=> (at[r] = 1 \/ Len(out[r]) > 1))
  BY <1>0, <1>2, TailLast, NonEmpty
<1>10. spc'[r] = "send" <=> out'[r] # << >>
  BY <1>3, <1>9
<1>11. spc'[r] # "send" => at'[r] = 1
  BY <1>0, <1>2, <1>3
<1>12. spc'[r] = "done" \/ ~alive'[r] =>
         abandon[r] \/ (dpc[r] = "done" /\ queue'[r] = << >>)
  BY <1>1, <1>2, <1>3, SenderFacts
<1>13. ASSUME NEW l \in Links, TailIsEos(r, l) PROVE TailIsEos(r, l)'
  <2>1. CASE queue[r] # << >>
    BY <1>1, <1>13, <2>1 DEF TailIsEos
  <2>2. CASE queue[r] = << >> /\ at[r] = 1 /\ l = 2
    BY <1>0, <1>1, <1>2, <1>13, <2>2 DEF TailIsEos
  <2>3. CASE queue[r] = << >> /\ Len(out[r]) > 1
    <3>1. out[r][Len(out[r])] = Eos
      BY <1>0, <1>13, <2>3 DEF TailIsEos
    <3>2. out'[r] # << >> /\ out'[r][Len(out'[r])] = Eos
      BY <1>0, <1>2, <1>9, <2>3, <3>1, TailLast
    <3>3. at[r] = 1 => Len(out'[r]) > 1
      BY <1>2, <2>3
    <3>4. at[r] = 2 => at'[r] = 1
      BY <1>2
    <3> QED
      BY <1>0, <1>1, <1>13, <2>3, <3>2, <3>3, <3>4 DEF TailIsEos, Links
  <2>4. CASE queue[r] = << >> /\ Len(out[r]) <= 1 /\ at[r] = l
    <3>1. Len(out[r]) = 1 /\ out[r][1] = Eos /\ Head(out[r]) = Eos
      <4>1. Len(out[r]) >= 1 /\ Len(out[r]) \in Nat
        BY <1>0, NonEmpty
      <4>2. Len(out[r]) = 1
        <5> DEFINE n == Len(out[r])
        <5>1. n <= 1 /\ n >= 1 /\ n \in Nat
          BY <2>4, <4>1, Zenon
        <5> HIDE DEF n
        <5>2. n = 1
          BY <5>1
        <5> QED
          BY <5>2 DEF n
      <4>3. out[r][Len(out[r])] = Eos
        BY <1>0, <1>13, <2>4 DEF TailIsEos, Links
      <4> QED
        BY <1>0, <4>2, <4>3
    <3>2. out'[r] = << >> \/ at'[r] > l
      BY <1>0, <1>2, <1>9, <2>4
    <3>3. wire'[r][l] # << >> /\ wire'[r][l][Len(wire'[r][l])].msg = Eos
      BY <1>0, <1>5, <2>4, <3>1 DEF WireTypeOK
    <3>4. out'[r] # << >> => out'[r] = out[r]
      BY <1>0, <1>2, <1>9, <2>4
    <3>5. batch'[r] = << >> /\ eos_sent'[r] /\ queue'[r] = << >>
      BY <1>1, <1>13, <2>4 DEF TailIsEos
    <3>6. CASE out'[r] = << >>
      BY <3>3, <3>5, <3>6 DEF TailIsEos
    <3>7. CASE out'[r] # << >>
      <4>1. Len(out'[r]) = 1 /\ at'[r] > l
        BY <3>1, <3>2, <3>4, <3>7
      <4>2. ~(Len(out'[r]) > 1)
        BY <4>1
      <4>3. ~(l >= at'[r])
        <5>1. l \in Int /\ at'[r] \in Int
          BY <1>0, <1>2 DEF Links
        <5>2. at'[r] > l
          BY <4>1
        <5> QED
          BY <5>1, <5>2
      <4> QED
        BY <3>3, <3>5, <4>2, <4>3 DEF TailIsEos
    <3> QED
      BY <3>6, <3>7
  <2>5. CASE queue[r] = << >> /\ Len(out[r]) <= 1 /\ at[r] = 2 /\ l = 1
    <3>1. wire[r][l] # << >> /\ wire[r][l][Len(wire[r][l])].msg = Eos
      BY <1>0, <1>13, <2>5 DEF TailIsEos
    <3>2. out'[r] = << >>
      BY <1>9, <2>5
    <3>3. wire'[r][l] = wire[r][l]
      BY <1>5, <2>5 DEF Links
    <3> QED
      BY <1>0, <1>1, <1>13, <2>5, <3>1, <3>2, <3>3 DEF TailIsEos
  <2> QED
    BY <1>0, <2>1, <2>2, <2>3, <2>4, <2>5 DEF Links
<1> QED
  BY <1>0, <1>6, <1>7, <1>5, <1>8, <1>10, <1>11, <1>12, <1>13, SenderLocalInv

(* No step of the sender thread breaks the invariant.                          *)
LEMMA SenderInv ==
  ASSUME IInv, NEW r \in Runs, SenderNext(r)
  PROVE  IInv'
<1>1. CASE SenderTop(r) \/ SenderPoll(r)
  BY <1>1, SenderIdleInv
<1>2. CASE \/ SenderFrame(r) \/ SenderEos(r) \/ SenderDeadline(r)
           \/ SenderHeartbeat(r) \/ SenderDisconnected(r)
  BY <1>2, SenderRecvInv
<1>3. CASE SendSent(r) \/ SendFailed(r) \/ SendAbandoned(r)
  <2>1. metrics' \in Metrics
    BY <1>3, SenderFacts, MetricsUpdates DEF SendSent, SendFailed, SendAbandoned
  <2>2. \E o \in Outcomes : SendEnds(r, o) /\ (o = "abandoned" => abandon[r])
    BY <1>3 DEF SendSent, SendFailed, SendAbandoned, Outcomes
  <2> QED
    BY <2>1, <2>2, SendEndsInv
<1> QED
  BY <1>1, <1>2, <1>3 DEF SenderNext

(* No step of the receiver breaks the invariant.                               *)
LEMMA StepInv == IInv /\ [Next]_vars => IInv'
<1> SUFFICES ASSUME IInv, [Next]_vars PROVE IInv'
  OBVIOUS
<1>1. CASE HandlerNext
  BY <1>1, HandlerInv
<1>2. CASE \E r \in Runs : DrainNext(r)
  BY <1>2, DrainInv
<1>3. CASE \E r \in Runs : SenderNext(r)
  BY <1>3, SenderInv
<1>4. CASE UNCHANGED vars
  <2>1. /\ UNCHANGED <<run, taskVars, abandon, metrics, handlerVars, stop>>
    BY <1>4 DEF vars, taskVars, handlerVars
  <2>2. FlagTypeOK' /\ HandlerTypeOK' /\ metrics' \in Metrics
    BY <2>1 DEF IInv, TypeOK, FlagTypeOK, HandlerTypeOK, handlerVars
  <2> QED
    BY <2>1, <2>2, TasksUnchanged DEF IInv, TypeOK
<1> QED
  BY <1>1, <1>2, <1>3, <1>4 DEF Next

(* Every reachable state satisfies the inductive invariant.                    *)
THEOREM Invariance == Spec => []IInv
<1>1. Init => IInv
  BY InitInv
<1>2. IInv /\ [Next]_vars => IInv'
  BY StepInv
<1> QED
  BY <1>1, <1>2, PTL DEF Spec

(* The types of every thread's state, of the shared counters and of what is on *)
(* the links hold for any queue size, batch size and number of runs.           *)
THEOREM TypeCorrect == Spec => []TypeOK
<1>1. IInv => TypeOK
  BY DEF IInv
<1> QED
  BY <1>1, Invariance, PTL

(* A run that ends without Reset ends each of its links with EndOfStream and   *)
(* leaves no frame behind, for any queue size, batch size, number of           *)
(* connections and interleaving of the drain task, the sender and the handler. *)
THEOREM RunsEndWithEos == Spec => []EosClosesRun
<1>1. IInv => EosClosesRun
  <2> SUFFICES ASSUME IInv, NEW r \in Runs, NEW l \in Links, spc[r] = "done", ~abandon[r]
               PROVE  /\ wire[r][l] # << >>
                      /\ wire[r][l][Len(wire[r][l])].msg = Eos
                      /\ batch[r] = << >> /\ queue[r] = << >>
    BY DEF EosClosesRun
  <2>1. dpc[r] = "done" /\ queue[r] = << >>
    BY DEF IInv, SenderEnd
  <2>2. TailIsEos(r, l)
    BY <2>1 DEF IInv, ClosedByEos, Closed
  <2>3. out[r] = << >>
    BY DEF IInv, OutShape
  <2> QED
    BY <2>1, <2>2, <2>3 DEF TailIsEos
<1> QED
  BY <1>1, Invariance, PTL

-----------------------------------------------------------------------------
(* What a receiver does to the stream of frames of a run: no frame is mislaid  *)
(* on the way from the queue to a link, the numbers of the data messages show  *)
(* every loss, and EndOfStream stands where it belongs.                        *)
(*                                                                             *)
(* Every step is first reduced to what it does to the stream of one run (the   *)
(* forms below, lemma StreamSteps); each invariant is then proved against the  *)
(* forms.                                                                      *)

(* What may be at hand: nothing, a heartbeat, or what one flush has built.     *)
OutForm(o) ==
  \/ o = << >> \/ o = <<Eos>> \/ o = <<Heartbeat>>
  \/ \E n \in Nat, fs \in Seq(Frames) :
       fs # << >> /\ (o = <<Data(n, fs)>> \/ o = <<Data(n, fs), Eos>>)

SameSender(q) ==
  /\ batch'[q] = batch[q] /\ out'[q] = out[q] /\ at'[q] = at[q] /\ seqno'[q] = seqno[q]
  /\ eos_sent'[q] = eos_sent[q] /\ wire'[q] = wire[q]

SameDrain(q) == cut'[q] = cut[q] /\ accepted'[q] = accepted[q]

(* A step that does not touch the stream of run q.                             *)
Quiet(q) == SameSender(q) /\ SameDrain(q) /\ queue'[q] = queue[q]

(* The queue refuses a frame, takes one, takes an EOS.                         *)
Refused(q) ==
  /\ SameSender(q) /\ queue'[q] = queue[q]
  /\ cut'[q] = cut[q] + 1 /\ accepted'[q] = accepted[q]

Queues(q) ==
  /\ SameSender(q) /\ cut[q] + 1 \in Frames
  /\ queue'[q] = Append(queue[q], cut[q] + 1)
  /\ cut'[q] = cut[q] + 1 /\ accepted'[q] = accepted[q] \cup {cut[q] + 1}

QueuesEos(q) ==
  SameSender(q) /\ SameDrain(q) /\ queue'[q] = Append(queue[q], EndOfStream)

(* The sender moves the first frame of the queue to the batch.                 *)
Takes(q) ==
  /\ SameDrain(q) /\ queue[q] # << >> /\ Head(queue[q]) # EndOfStream
  /\ queue'[q] = Tail(queue[q]) /\ batch'[q] = Append(batch[q], Head(queue[q]))
  /\ out[q] = << >> /\ out'[q] = << >> /\ at'[q] = at[q] /\ seqno'[q] = seqno[q]
  /\ eos_sent'[q] = eos_sent[q] /\ wire'[q] = wire[q]

(* flush, with the frame that filled the batch, in front of an EOS, at the     *)
(* deadline or at the end; and a heartbeat.                                    *)
Flushed(q) ==
  /\ SameDrain(q) /\ wire'[q] = wire[q] /\ out[q] = << >>
  /\ at[q] = 1 /\ at'[q] = 1 /\ batch'[q] = << >>

FlushesFull(q) ==
  /\ Flushed(q) /\ queue[q] # << >> /\ Head(queue[q]) # EndOfStream
  /\ queue'[q] = Tail(queue[q]) /\ eos_sent'[q] = eos_sent[q]
  /\ out'[q] = <<Data(seqno[q], Append(batch[q], Head(queue[q])))>>
  /\ seqno'[q] = seqno[q] + 1

FlushesEos(q) ==
  /\ Flushed(q) /\ queue[q] # << >> /\ Head(queue[q]) = EndOfStream
  /\ queue'[q] = Tail(queue[q]) /\ eos_sent'[q] = TRUE
  /\ \/ batch[q] = << >> /\ out'[q] = <<Eos>> /\ seqno'[q] = seqno[q]
     \/ /\ batch[q] # << >> /\ out'[q] = <<Data(seqno[q], batch[q]), Eos>>
        /\ seqno'[q] = seqno[q] + 1

FlushesRest(q) ==
  /\ Flushed(q) /\ queue'[q] = queue[q] /\ eos_sent'[q] = eos_sent[q] /\ batch[q] # << >>
  /\ out'[q] = <<Data(seqno[q], batch[q])>> /\ seqno'[q] = seqno[q] + 1

Beats(q) ==
  /\ Flushed(q) /\ queue'[q] = queue[q] /\ batch[q] = << >> /\ ~eos_sent[q]
  /\ eos_sent'[q] = eos_sent[q] /\ out'[q] = <<Heartbeat>> /\ seqno'[q] = seqno[q]

(* send_on ends for the message at hand.                                       *)
Delivers(q) ==
  /\ SameDrain(q) /\ queue'[q] = queue[q] /\ batch'[q] = batch[q] /\ seqno'[q] = seqno[q]
  /\ eos_sent'[q] = eos_sent[q] /\ out[q] # << >>
  /\ \E o \in Outcomes :
       wire'[q][at[q]] = Append(wire[q][at[q]], [msg |-> Head(out[q]), outcome |-> o])
  /\ \/ at[q] = 1 /\ at'[q] = 2 /\ out'[q] = out[q] /\ wire'[q][2] = wire[q][2]
     \/ at[q] = 2 /\ at'[q] = 1 /\ out'[q] = Tail(out[q]) /\ wire'[q][1] = wire[q][1]

StreamStep(q) ==
  \/ Quiet(q) \/ Refused(q) \/ Queues(q) \/ QueuesEos(q) \/ Takes(q)
  \/ FlushesFull(q) \/ FlushesEos(q) \/ FlushesRest(q) \/ Beats(q) \/ Delivers(q)

-------------------------------------------------------------------------------
(* What the invariant says of the types of one run's stream.                   *)
LEMMA StreamTypes ==
  ASSUME IInv, NEW q \in Runs
  PROVE  /\ queue[q] \in Seq(Frames \cup {EndOfStream}) /\ batch[q] \in Seq(Frames)
         /\ out[q] \in Seq(Message) /\ at[q] \in {1, 2} /\ seqno[q] \in Nat
         /\ eos_sent[q] \in BOOLEAN /\ cut[q] \in Nat /\ accepted[q] \subseteq Frames
         /\ \A l \in Links : wire[q][l] \in Seq([msg : Message, outcome : Outcomes])
         /\ wire[q] \in [Links -> Seq([msg : Message, outcome : Outcomes])]
<1>1. eos_sent[q] \in BOOLEAN
  BY Zenon DEF IInv, TypeOK, SenderTypeOK
<1>2. queue[q] \in Seq(Frames \cup {EndOfStream})
  BY DEF IInv, TypeOK, QueueTypeOK
<1>3. batch[q] \in Seq(Frames) /\ out[q] \in Seq(Message) /\ at[q] \in {1, 2} /\ seqno[q] \in Nat
  BY DEF IInv, TypeOK, SenderTypeOK, Links
<1>4. cut[q] \in Nat /\ accepted[q] \subseteq Frames
  BY ReceiverAssumption DEF IInv, TypeOK, DrainTypeOK
<1>5. wire[q] \in [Links -> Seq([msg : Message, outcome : Outcomes])]
  BY DEF IInv, TypeOK, WireTypeOK
<1>6. \A l \in Links : wire[q][l] \in Seq([msg : Message, outcome : Outcomes])
  BY <1>5
<1> QED
  BY <1>1, <1>2, <1>3, <1>4, <1>5, <1>6

(* A step of the handler touches no stream.                                    *)
LEMMA HandlerQuiet ==
  ASSUME IInv, NEW q \in Runs, HandlerNext \/ UNCHANGED vars
  PROVE  Quiet(q)
<1>1. UNCHANGED <<queue, batch, out, at, seqno, eos_sent, wire, cut, accepted>>
  <2>1. CASE OnlyLatch \/ Configure \/ Arm \/ StartLosesListener \/ Stop \/ Reset \/ ResetJoined
    BY <2>1 DEF OnlyLatch, Configure, Arm, StartLosesListener, Stop, Reset, ResetJoined,
      taskVars, drainVars, senderVars
  <2>2. CASE Start
    BY <2>2 DEF Start
  <2>3. CASE UNCHANGED vars
    BY <2>3 DEF vars, drainVars, senderVars
  <2> QED
    BY <2>1, <2>2, <2>3 DEF HandlerNext
<1> QED
  BY <1>1 DEF Quiet, SameSender, SameDrain

(* A step of a drain task queues, or fails to.                                 *)
LEMMA DrainSteps ==
  ASSUME IInv, NEW q \in Runs, NEW r \in Runs, DrainNext(r)
  PROVE  Quiet(q) \/ Refused(q) \/ Queues(q) \/ QueuesEos(q)
<1>0. /\ UNCHANGED <<batch, out, at, seqno, eos_sent, wire>>
      /\ queue \in [Runs -> Seq(Frames \cup {EndOfStream})]
      /\ cut \in [Runs -> 0 .. MaxFrames] /\ accepted \in [Runs -> SUBSET Frames]
  <2>1. UNCHANGED <<senderVars, wire>>
    BY DEF DrainNext, DrainAccept, DrainRead, DrainFrame, DrainEof, DrainStop, DrainEos
  <2> QED
    BY <2>1 DEF senderVars, IInv, TypeOK, QueueTypeOK, DrainTypeOK
<1>1. SameSender(q)
  BY <1>0 DEF SameSender
<1>2. CASE DrainAccept(r) \/ DrainRead(r) \/ DrainEof(r) \/ DrainStop(r)
  <2>1. UNCHANGED <<queue, cut, accepted>>
    BY <1>2 DEF DrainAccept, DrainRead, DrainEof, DrainStop
  <2> QED
    BY <1>1, <2>1 DEF Quiet, SameDrain
<1>3. CASE DrainFrame(r)
  <2>1. cut[r] + 1 \in Frames
    BY <1>3, ReceiverAssumption, SMTT(30) DEF DrainFrame, FrameLoop, Frames, IInv, TypeOK, DrainTypeOK
  <2>2. CASE q = r
    BY <1>0, <1>1, <1>3, <2>1, <2>2 DEF DrainFrame, Refused, Queues
  <2>3. CASE q # r
    BY <1>0, <1>1, <1>3, <2>3 DEF DrainFrame, Quiet, SameDrain
  <2> QED
    BY <2>2, <2>3
<1>4. CASE DrainEos(r)
  BY <1>0, <1>1, <1>4 DEF DrainEos, Quiet, QueuesEos, SameDrain
<1> QED
  BY <1>2, <1>3, <1>4 DEF DrainNext

(* A step of a sender thread takes, flushes, beats or delivers.                *)
LEMMA SenderSteps ==
  ASSUME IInv, NEW q \in Runs, NEW r \in Runs, SenderNext(r)
  PROVE  \/ Quiet(q) \/ Takes(q) \/ FlushesFull(q) \/ FlushesEos(q) \/ FlushesRest(q)
         \/ Beats(q) \/ Delivers(q)
<1>0. /\ UNCHANGED <<cut, accepted>>
      /\ queue \in [Runs -> Seq(Frames \cup {EndOfStream})]
      /\ batch \in [Runs -> Seq(Frames)] /\ out \in [Runs -> Seq(Message)]
      /\ at \in [Runs -> Links] /\ seqno \in [Runs -> Nat]
      /\ eos_sent \in [Runs -> BOOLEAN]
      /\ wire \in [Runs -> [Links -> Seq([msg : Message, outcome : Outcomes])]]
  <2>1. UNCHANGED <<cut, accepted>>
    BY DEF SenderNext, SenderTop, SenderFrame, SenderEos, SenderDeadline, SenderHeartbeat,
      SenderPoll, SenderDisconnected, SendSent, SendFailed, SendAbandoned, SendEnds, drainVars
  <2> QED
    BY <2>1 DEF IInv, TypeOK, QueueTypeOK, SenderTypeOK, WireTypeOK
<1>1. SameDrain(q)
  BY <1>0 DEF SameDrain
<1>2. spc[r] = "recv" => out[r] = << >> /\ at[r] = 1
  BY SenderFacts
<1>3. CASE SenderTop(r) \/ SenderPoll(r)
  BY <1>1, <1>3 DEF SenderTop, SenderPoll, Quiet, SameSender
<1>4. CASE SenderFrame(r)
  <2> DEFINE fs == Append(batch[r], Head(queue[r]))
  <2>1. fs # << >>
    <3>1. batch[r] \in Seq(Frames)
      BY <1>0
    <3> QED
      BY <3>1, AppendShape
  <2> HIDE DEF fs
  <2>2. CASE q # r
    BY <1>0, <1>1, <1>4, <2>2 DEF SenderFrame, FlushThen, Quiet, SameSender
  <2>3. CASE q = r /\ FlushThen(r, fs, << >>, "top")
    <3>1. Outgoing(r, fs, << >>) = <<Data(seqno[r], fs)>>
      BY <2>1 DEF Outgoing
    <3>2. /\ out'[r] = <<Data(seqno[r], fs)>> /\ seqno'[r] = seqno[r] + 1
          /\ batch'[r] = << >> /\ at'[r] = 1
      BY <1>0, <2>1, <2>3, <3>1 DEF FlushThen
    <3>3. /\ queue'[r] = Tail(queue[r]) /\ UNCHANGED <<eos_sent, wire>>
          /\ queue[r] # << >> /\ Head(queue[r]) # EndOfStream /\ spc[r] = "recv"
      BY <1>0, <1>4 DEF SenderFrame
    <3>4. FlushesFull(r)
      BY <1>1, <1>2, <2>3, <3>2, <3>3 DEF FlushesFull, Flushed, fs
    <3> QED
      BY <2>3, <3>4
  <2>4. CASE q = r /\ batch' = [batch EXCEPT ![r] = fs] /\ UNCHANGED <<out, at, seqno>>
    <3>1. Takes(r)
      BY <1>0, <1>1, <1>2, <1>4, <2>4 DEF SenderFrame, Takes, fs
    <3> QED
      BY <2>4, <3>1
  <2> QED
    BY <1>4, <2>2, <2>3, <2>4 DEF SenderFrame, fs
<1>5. CASE SenderEos(r)
  <2>1. CASE q # r
    BY <1>0, <1>1, <1>5, <2>1 DEF SenderEos, FlushThen, Quiet, SameSender
  <2>2. CASE q = r
    <3>0. eos_sent'[r] = TRUE
      BY <1>0, <1>5, Zenon DEF SenderEos
    <3>1. /\ queue'[r] = Tail(queue[r]) /\ wire' = wire
          /\ queue[r] # << >> /\ Head(queue[r]) = EndOfStream /\ spc[r] = "recv"
          /\ FlushThen(r, batch[r], <<Eos>>, "top")
      BY <1>0, <1>5 DEF SenderEos
    <3>2. /\ out'[r] = Outgoing(r, batch[r], <<Eos>>) /\ batch'[r] = << >> /\ at'[r] = 1
          /\ seqno'[r] = (IF batch[r] = << >> THEN seqno[r] ELSE seqno[r] + 1)
      BY <1>0, <3>1 DEF FlushThen
    <3>3. /\ batch[r] = << >> => Outgoing(r, batch[r], <<Eos>>) = <<Eos>>
          /\ batch[r] # << >> =>
               Outgoing(r, batch[r], <<Eos>>) = <<Data(seqno[r], batch[r]), Eos>>
      <4>1. Data(seqno[r], batch[r]) \in Message /\ Eos \in Message
        BY <1>0, MessageTypes
      <4>2. <<Data(seqno[r], batch[r])>> \o <<Eos>> = <<Data(seqno[r], batch[r]), Eos>>
        BY <4>1, PairOfTwo
      <4> QED
        BY <4>2 DEF Outgoing
    <3>4. FlushesEos(r)
      BY <1>1, <1>2, <2>2, <3>0, <3>1, <3>2, <3>3 DEF FlushesEos, Flushed
    <3> QED
      BY <2>2, <3>4
  <2> QED
    BY <2>1, <2>2
<1>6. CASE SenderDeadline(r) \/ SenderDisconnected(r)
  <2>0. PICK next \in {"top", "done"} : FlushThen(r, batch[r], << >>, next)
    BY <1>6 DEF SenderDeadline, SenderDisconnected
  <2>1. UNCHANGED <<queue, eos_sent, wire>> /\ spc[r] = "recv"
    BY <1>6 DEF SenderDeadline, SenderDisconnected, Timeout
  <2>2. CASE q # r
    BY <1>0, <1>1, <2>0, <2>1, <2>2 DEF FlushThen, Quiet, SameSender
  <2>3. CASE q = r
    <3>1. /\ out'[r] = Outgoing(r, batch[r], << >>) /\ batch'[r] = << >> /\ at'[r] = 1
          /\ seqno'[r] = (IF batch[r] = << >> THEN seqno[r] ELSE seqno[r] + 1)
      BY <1>0, <2>0 DEF FlushThen
    <3>2. CASE batch[r] = << >>
      BY <1>1, <1>2, <2>1, <2>3, <3>1, <3>2 DEF Outgoing, Quiet, SameSender
    <3>3. CASE batch[r] # << >>
      <4>1. Outgoing(r, batch[r], << >>) = <<Data(seqno[r], batch[r])>>
        BY <3>3 DEF Outgoing
      <4>2. FlushesRest(r)
        BY <1>1, <1>2, <2>1, <2>3, <3>1, <3>3, <4>1 DEF FlushesRest, Flushed
      <4> QED
        BY <2>3, <4>2
    <3> QED
      BY <3>2, <3>3
  <2> QED
    BY <2>2, <2>3
<1>7. CASE SenderHeartbeat(r)
  <2>1. /\ FlushThen(r, << >>, <<Heartbeat>>, "top") /\ UNCHANGED <<queue, eos_sent, wire>>
        /\ spc[r] = "recv" /\ batch[r] = << >> /\ ~eos_sent[r]
    BY <1>7, Zenon DEF SenderHeartbeat, Timeout
  <2>2. CASE q # r
    BY <1>0, <1>1, <2>1, <2>2 DEF FlushThen, Quiet, SameSender
  <2>3. CASE q = r
    <3>1. /\ out'[r] = <<Heartbeat>> /\ batch'[r] = << >> /\ at'[r] = 1
          /\ seqno'[r] = seqno[r]
      BY <1>0, <2>1 DEF FlushThen, Outgoing
    <3>2. Beats(r)
      BY <1>1, <1>2, <2>1, <2>3, <3>1 DEF Beats, Flushed
    <3> QED
      BY <2>3, <3>2
  <2> QED
    BY <2>2, <2>3
<1>8. CASE SendSent(r) \/ SendFailed(r) \/ SendAbandoned(r)
  <2>1. PICK o \in Outcomes : SendEnds(r, o)
    BY <1>8 DEF SendSent, SendFailed, SendAbandoned, Outcomes
  <2>2. UNCHANGED <<queue, batch, seqno, eos_sent>> /\ spc[r] = "send"
    BY <2>1 DEF SendEnds
  <2>3. out[r] # << >>
    BY <2>2 DEF IInv, OutShape
  <2>4. /\ out' = [out EXCEPT ![r] = IF at[r] = 1 THEN @ ELSE Tail(@)]
        /\ at' = [at EXCEPT ![r] = IF @ = 1 THEN 2 ELSE 1]
        /\ wire' = [wire EXCEPT ![r][at[r]] =
                      Append(@, [msg |-> Head(out[r]), outcome |-> o])]
    BY <2>1 DEF SendEnds
  <2>5. CASE q # r
    BY <1>0, <1>1, <2>2, <2>4, <2>5 DEF Quiet, SameSender
  <2>6. CASE q = r
    <3> DEFINE w == [msg |-> Head(out[r]), outcome |-> o]
    <3>1. wire' = [wire EXCEPT ![r][at[r]] = Append(@, w)]
      BY <2>4
    <3> HIDE DEF w
    <3>2. at[r] \in {1, 2} /\ wire[r] \in [Links -> Seq([msg : Message, outcome : Outcomes])]
      BY <1>0 DEF Links
    <3>3. /\ wire'[r][at[r]] = Append(wire[r][at[r]], w)
          /\ \A l \in {1, 2} : l # at[r] => wire'[r][l] = wire[r][l]
      BY <1>0, <3>1, <3>2 DEF Links
    <3>4. /\ out'[r] = (IF at[r] = 1 THEN out[r] ELSE Tail(out[r]))
          /\ at'[r] = (IF at[r] = 1 THEN 2 ELSE 1)
      BY <1>0, <2>4
    <3>5. Delivers(r)
      BY <1>1, <2>2, <2>3, <2>6, <3>2, <3>3, <3>4 DEF Delivers, w
    <3> QED
      BY <2>6, <3>5
  <2> QED
    BY <2>5, <2>6
<1> QED
  BY <1>3, <1>4, <1>5, <1>6, <1>7, <1>8 DEF SenderNext

(* Every step has one of the forms for every run.                              *)
LEMMA StreamSteps ==
  ASSUME IInv, [Next]_vars, NEW q \in Runs
  PROVE  StreamStep(q)
BY HandlerQuiet, DrainSteps, SenderSteps DEF Next, StreamStep

-------------------------------------------------------------------------------
(* No frame is mislaid, and the frames stay in order                           *)

(* Only one message at hand can hold frames, the first; while one is at hand   *)
(* the batch is empty.                                                         *)
HandForm == \A r \in Runs : OutForm(out[r]) /\ (out[r] # << >> => batch[r] = << >>)

(* The frames of the message at hand that link l is still to be given.         *)
Hand(r, l) == IF out[r] # << >> /\ l >= at[r] THEN RangeOf(out[r][1].frames) ELSE {}

(* The frames of the messages of w.                                            *)
FramesOf(w) == UNION {RangeOf(w[i].msg.frames) : i \in DOMAIN w}

(* Behind the first message at hand there is at most an EOS.                   *)
LEMMA TailOfForm ==
  ASSUME NEW o, OutForm(o), o # << >>
  PROVE  Tail(o) = << >> \/ Tail(o) = <<Eos>>
<1>1. CASE o = <<Eos>> \/ o = <<Heartbeat>>
  BY <1>1, SmallTuples
<1>2. ASSUME NEW n, NEW fs, o = <<Data(n, fs)>> \/ o = <<Data(n, fs), Eos>>
      PROVE  Tail(o) = << >> \/ Tail(o) = <<Eos>>
  <2> DEFINE d == Data(n, fs)
  <2> HIDE DEF d
  <2>1. Tail(<<d>>) = << >> /\ Tail(<<d, Eos>>) = <<Eos>>
    BY SmallTuples
  <2> QED
    BY <1>2, <2>1 DEF d
<1> QED
  BY <1>1, <1>2 DEF OutForm

(* Every message at hand has one of the forms a flush or a heartbeat builds.   *)
LEMMA HandFormStep ==
  ASSUME IInv, HandForm, [Next]_vars
  PROVE  HandForm'
<1> SUFFICES ASSUME NEW q \in Runs
             PROVE  OutForm(out'[q]) /\ (out'[q] # << >> => batch'[q] = << >>)
  BY DEF HandForm, OutForm
<1>1. StreamStep(q)
  BY StreamSteps
<1>2. OutForm(out[q]) /\ (out[q] # << >> => batch[q] = << >>)
  BY DEF HandForm
<1>3. /\ batch[q] \in Seq(Frames) /\ seqno[q] \in Nat
      /\ queue[q] \in Seq(Frames \cup {EndOfStream})
  BY StreamTypes
<1>4. CASE Quiet(q) \/ Refused(q) \/ Queues(q) \/ QueuesEos(q)
  BY <1>2, <1>4 DEF Quiet, Refused, Queues, QueuesEos, SameSender
<1>5. CASE Takes(q)
  BY <1>5 DEF Takes, OutForm
<1>6. CASE FlushesFull(q)
  <2> DEFINE fs == Append(batch[q], Head(queue[q]))
  <2>1. Head(queue[q]) \in Frames
    BY <1>3, <1>6, TailLast DEF FlushesFull
  <2>2. fs \in Seq(Frames) /\ fs # << >>
    <3>1. batch[q] \in Seq(Frames)
      BY <1>3
    <3> QED
      BY <2>1, <3>1, AppendShape
  <2>3. out'[q] = <<Data(seqno[q], fs)>> /\ batch'[q] = << >>
    BY <1>6 DEF FlushesFull, Flushed
  <2> HIDE DEF fs
  <2> QED
    BY <1>3, <2>2, <2>3 DEF OutForm
<1>7. CASE FlushesEos(q) \/ FlushesRest(q) \/ Beats(q)
  BY <1>3, <1>7 DEF FlushesEos, FlushesRest, Beats, Flushed, OutForm
<1>8. CASE Delivers(q)
  <2>1. batch[q] = << >> /\ batch'[q] = batch[q] /\ (out'[q] = out[q] \/ out'[q] = Tail(out[q]))
    BY <1>2, <1>8 DEF Delivers
  <2>2. out[q] # << >>
    BY <1>8 DEF Delivers
  <2>3. Tail(out[q]) = << >> \/ Tail(out[q]) = <<Eos>>
    BY <1>2, <2>2, TailOfForm
  <2> QED
    BY <1>2, <2>1, <2>3 DEF OutForm
<1> QED
  BY <1>1, <1>4, <1>5, <1>6, <1>7, <1>8 DEF StreamStep

(* What the form of the messages at hand says.                                 *)
LEMMA HandFacts ==
  ASSUME IInv, HandForm, NEW q \in Runs, out[q] # << >>
  PROVE  /\ Head(out[q]) = out[q][1] /\ out[q][1] \in Message /\ batch[q] = << >>
         /\ Tail(out[q]) = << >> \/ Tail(out[q]) = <<Eos>>
         /\ \A i \in DOMAIN out[q] : i = 1 \/ (i = 2 /\ out[q][i] = Eos)
         /\ 1 \in DOMAIN out[q]
<1>1. OutForm(out[q]) /\ batch[q] = << >>
  BY DEF HandForm
<1>2. out[q] \in Seq(Message)
  BY StreamTypes
<1>3. Head(out[q]) = out[q][1] /\ out[q][1] \in Message /\ 1 \in DOMAIN out[q]
  BY <1>2
<1>4. Tail(out[q]) = << >> \/ Tail(out[q]) = <<Eos>>
  BY <1>1, TailOfForm
<1>5. \A i \in DOMAIN out[q] : i = 1 \/ (i = 2 /\ out[q][i] = Eos)
  BY <1>1 DEF OutForm
<1> QED
  BY <1>1, <1>3, <1>4, <1>5

(* The frames at hand are those of the first message.                          *)
LEMMA HandIsFirst ==
  ASSUME IInv, HandForm, NEW q \in Runs, NEW l \in Links
  PROVE  InHand(q, l) = Hand(q, l)
<1>0. at[q] \in {1, 2} /\ l \in {1, 2} /\ RangeOf(Eos.frames) = {}
  BY StreamTypes DEF Links, Eos, RangeOf
<1>1. CASE out[q] = << >>
  BY <1>1 DEF InHand, Hand
<1>2. CASE out[q] # << >>
  <2>1. /\ \A i \in DOMAIN out[q] : i = 1 \/ (i = 2 /\ out[q][i] = Eos)
        /\ 1 \in DOMAIN out[q]
    BY <1>2, HandFacts
  <2> QED
    BY <1>0, <1>2, <2>1 DEF InHand, Hand
<1> QED
  BY <1>1, <1>2

(* A message more on a link adds its frames.                                   *)
LEMMA FramesOfAppend ==
  ASSUME NEW S, NEW w \in Seq(S), NEW x
  PROVE  FramesOf(Append(w, x)) = FramesOf(w) \cup RangeOf(x.msg.frames)
<1> DEFINE t == Append(w, x)
           n == Len(w)
<1>1. /\ n \in Nat /\ DOMAIN w = 1 .. n /\ DOMAIN t = 1 .. n + 1
      /\ \A i \in 1 .. n : t[i] = w[i]
      /\ t[n + 1] = x
  BY AppendShape
<1> HIDE DEF t, n
<1>2. FramesOf(t) = FramesOf(w) \cup RangeOf(x.msg.frames)
  BY <1>1 DEF FramesOf
<1> QED
  BY <1>2 DEF t

(* What a step does to the frames on link l, at hand for it, in the batch and  *)
(* in the queue: nothing, or one of these.                                     *)
MoveSame(q, l) ==
  /\ OnWire(q, l)' = OnWire(q, l) /\ Hand(q, l)' = Hand(q, l)
  /\ RangeOf(batch'[q]) = RangeOf(batch[q]) /\ Queued(q)' = Queued(q)
  /\ accepted'[q] = accepted[q] /\ cut'[q] \in {cut[q], cut[q] + 1}

MoveIn(q, l) ==
  /\ OnWire(q, l)' = OnWire(q, l) /\ Hand(q, l)' = Hand(q, l)
  /\ RangeOf(batch'[q]) = RangeOf(batch[q])
  /\ cut[q] + 1 \in Frames /\ Queued(q)' = Queued(q) \cup {cut[q] + 1}
  /\ accepted'[q] = accepted[q] \cup {cut[q] + 1} /\ cut'[q] = cut[q] + 1

MoveToBatch(q, l) ==
  /\ SameDrain(q) /\ queue[q] # << >> /\ Head(queue[q]) # EndOfStream
  /\ OnWire(q, l)' = OnWire(q, l) /\ Hand(q, l) = {} /\ Hand(q, l)' = {}
  /\ RangeOf(batch'[q]) = RangeOf(batch[q]) \cup {Head(queue[q])}
  /\ Queued(q) = Queued(q)' \cup {Head(queue[q])}
  /\ queue'[q] = Tail(queue[q])

MoveToHand(q, l) ==
  /\ SameDrain(q)
  /\ OnWire(q, l)' = OnWire(q, l) /\ Hand(q, l) = {} /\ RangeOf(batch'[q]) = {}
  /\ \/ Hand(q, l)' = RangeOf(batch[q]) /\ Queued(q)' = Queued(q)
     \/ /\ Hand(q, l)' = RangeOf(batch[q]) \cup {Head(queue[q])}
        /\ Queued(q) = Queued(q)' \cup {Head(queue[q])} /\ queue[q] # << >>
        /\ Head(queue[q]) # EndOfStream /\ queue'[q] = Tail(queue[q])

MoveToWire(q, l) ==
  /\ SameDrain(q)
  /\ OnWire(q, l)' = OnWire(q, l) \cup Hand(q, l) /\ Hand(q, l)' = {}
  /\ RangeOf(batch'[q]) = RangeOf(batch[q]) /\ Queued(q)' = Queued(q)

Moves(q, l) ==
  \/ MoveSame(q, l) \/ MoveIn(q, l) \/ MoveToBatch(q, l) \/ MoveToHand(q, l)
  \/ MoveToWire(q, l)

(* Append adds its argument to the elements.                                   *)
LEMMA RangeAppend ==
  ASSUME NEW S, NEW s \in Seq(S), NEW x
  PROVE  RangeOf(Append(s, x)) = RangeOf(s) \cup {x}
<1>1. Elements(Append(s, x)) = Elements(s) \cup {x}
  BY ElementsAppend
<1> QED
  BY <1>1 DEF Elements, RangeOf

(* Taking the head of a queue of frames.                                       *)
LEMMA QueueHead ==
  ASSUME IInv, NEW q \in Runs, queue[q] # << >>
  PROVE  /\ RangeOf(queue[q]) = {Head(queue[q])} \cup RangeOf(Tail(queue[q]))
         /\ Head(queue[q]) \in Frames \cup {EndOfStream}
<1>1. queue[q] \in Seq(Frames \cup {EndOfStream})
  BY StreamTypes
<1>2. Elements(queue[q]) = {Head(queue[q])} \cup Elements(Tail(queue[q]))
  BY <1>1, ElementsTail
<1>3. Head(queue[q]) \in Frames \cup {EndOfStream}
  BY <1>1, TailLast
<1> QED
  BY <1>2, <1>3 DEF Elements, RangeOf

(* No frame is the EOS mark.                                                   *)
LEMMA NoFrameIsEos == EndOfStream \notin Frames
BY ReceiverAssumption DEF Frames, EndOfStream

(* Every step moves frames along the path in one of those ways.                *)
LEMMA FrameMoves ==
  ASSUME IInv, HandForm, [Next]_vars, NEW q \in Runs, NEW l \in Links
  PROVE  Moves(q, l)
<1>0. StreamStep(q)
  BY StreamSteps
<1>1. /\ queue[q] \in Seq(Frames \cup {EndOfStream}) /\ batch[q] \in Seq(Frames)
      /\ at[q] \in {1, 2} /\ l \in {1, 2} /\ seqno[q] \in Nat
      /\ wire[q][l] \in Seq([msg : Message, outcome : Outcomes])
  BY StreamTypes DEF Links
<1>2. ASSUME NEW x PROVE RangeOf(Append(queue[q], x)) = RangeOf(queue[q]) \cup {x}
  BY <1>1, RangeAppend
<1>3. ASSUME NEW x PROVE RangeOf(Append(batch[q], x)) = RangeOf(batch[q]) \cup {x}
  BY <1>1, RangeAppend
<1>4. RangeOf(<< >>) = {}
  BY DEF RangeOf
<1>5. wire'[q] = wire[q] => OnWire(q, l)' = OnWire(q, l)
  BY DEF OnWire
<1>6. CASE Quiet(q) \/ Refused(q)
  BY <1>5, <1>6 DEF Quiet, Refused, SameSender, SameDrain, Moves, MoveSame, Hand, Queued
<1>7. CASE Queues(q)
  <2>1. RangeOf(queue'[q]) = RangeOf(queue[q]) \cup {cut[q] + 1}
    BY <1>1, <1>2, <1>7 DEF Queues
  <2>2. Queued(q)' = Queued(q) \cup {cut[q] + 1}
    BY <1>7, <2>1, NoFrameIsEos DEF Queued, Queues
  <2> QED
    BY <1>5, <1>7, <2>2 DEF Queues, SameSender, Moves, MoveIn, Hand
<1>8. CASE QueuesEos(q)
  <2>1. RangeOf(queue'[q]) = RangeOf(queue[q]) \cup {EndOfStream}
    BY <1>1, <1>2, <1>8 DEF QueuesEos
  <2>2. Queued(q)' = Queued(q)
    BY <2>1 DEF Queued
  <2> QED
    BY <1>5, <1>8, <2>2 DEF QueuesEos, SameSender, SameDrain, Moves, MoveSame, Hand
<1>9. CASE Takes(q)
  <2>1. RangeOf(batch'[q]) = RangeOf(batch[q]) \cup {Head(queue[q])}
    BY <1>1, <1>3, <1>9 DEF Takes
  <2>2. Queued(q) = Queued(q)' \cup {Head(queue[q])}
    BY <1>9, QueueHead DEF Takes, Queued
  <2> QED
    BY <1>5, <1>9, <2>1, <2>2 DEF Takes, Moves, MoveToBatch, Hand
<1>10. ASSUME NEW fs, Flushed(q),
              out'[q] = <<Data(seqno[q], fs)>> \/ out'[q] = <<Data(seqno[q], fs), Eos>>
       PROVE  Hand(q, l)' = RangeOf(fs) /\ Hand(q, l) = {} /\ RangeOf(batch'[q]) = {}
  <2>1. out'[q] # << >> /\ out'[q][1] = Data(seqno[q], fs)
    BY <1>10, SmallTuples
  <2>2. out'[q][1].frames = fs
    BY <2>1 DEF Data
  <2> QED
    BY <1>1, <1>4, <1>10, <2>1, <2>2 DEF Hand, Flushed
<1>11. CASE FlushesFull(q)
  <2>1. RangeOf(Append(batch[q], Head(queue[q]))) = RangeOf(batch[q]) \cup {Head(queue[q])}
    BY <1>1, <1>3
  <2>2. Queued(q) = Queued(q)' \cup {Head(queue[q])}
    BY <1>11, QueueHead DEF FlushesFull, Queued
  <2>3. /\ Hand(q, l)' = RangeOf(batch[q]) \cup {Head(queue[q])}
        /\ Hand(q, l) = {} /\ RangeOf(batch'[q]) = {}
    BY <1>10, <1>11, <2>1 DEF FlushesFull
  <2>4. /\ wire'[q] = wire[q] /\ SameDrain(q) /\ queue[q] # << >>
        /\ Head(queue[q]) # EndOfStream /\ queue'[q] = Tail(queue[q])
    BY <1>11 DEF FlushesFull, Flushed
  <2> QED
    BY <1>5, <2>2, <2>3, <2>4 DEF Moves, MoveToHand
<1>12. CASE FlushesRest(q)
  <2>1. Hand(q, l)' = RangeOf(batch[q]) /\ Hand(q, l) = {} /\ RangeOf(batch'[q]) = {}
    BY <1>10, <1>12 DEF FlushesRest
  <2>2. wire'[q] = wire[q] /\ Queued(q)' = Queued(q) /\ SameDrain(q)
    BY <1>12 DEF FlushesRest, Flushed, Queued
  <2> QED
    BY <1>5, <2>1, <2>2 DEF Moves, MoveToHand
<1>13. CASE FlushesEos(q)
  <2>1. wire'[q] = wire[q] /\ SameDrain(q)
    BY <1>13 DEF FlushesEos, Flushed
  <2>2. Queued(q)' = Queued(q)
    BY <1>13, QueueHead DEF FlushesEos, Queued
  <2>3. Hand(q, l)' = RangeOf(batch[q]) /\ Hand(q, l) = {} /\ RangeOf(batch'[q]) = {}
    <3>1. CASE batch[q] # << >>
      BY <1>10, <1>13, <3>1 DEF FlushesEos
    <3>2. CASE batch[q] = << >>
      BY <1>4, <1>13, <3>2 DEF FlushesEos, Flushed, Hand, Eos
    <3> QED
      BY <3>1, <3>2
  <2> QED
    BY <1>5, <2>1, <2>2, <2>3 DEF Moves, MoveToHand
<1>14. CASE Beats(q)
  BY <1>4, <1>5, <1>14 DEF Beats, Flushed, Moves, MoveToHand, Hand, Heartbeat, Queued
<1>15. CASE Delivers(q)
  <2>1. /\ RangeOf(batch'[q]) = RangeOf(batch[q]) /\ Queued(q)' = Queued(q) /\ out[q] # << >>
        /\ SameDrain(q)
    BY <1>15 DEF Delivers, Queued
  <2>2. Head(out[q]) = out[q][1] /\ (Tail(out[q]) = << >> \/ Tail(out[q]) = <<Eos>>)
    BY <2>1, HandFacts
  <2>3. at'[q] = 1 => Hand(q, l)' = {}
    <3>1. at'[q] = 1 => out'[q] = << >> \/ out'[q] = <<Eos>>
      <4>1. at'[q] = 1 => out'[q] = Tail(out[q])
        BY <1>15 DEF Delivers
      <4> QED
        BY <2>2, <4>1
    <3>2. out'[q] = <<Eos>> => RangeOf(out'[q][1].frames) = {}
      BY <1>4 DEF Eos
    <3> QED
      BY <3>1, <3>2 DEF Hand
  <2>4. at[q] = 1 => at'[q] = 2 /\ out'[q] = out[q]
    BY <1>15 DEF Delivers
  <2>5. at[q] = 2 => at'[q] = 1
    BY <1>15 DEF Delivers
  <2>6. CASE l = at[q]
    <3>1. PICK o \in Outcomes :
            wire'[q][l] = Append(wire[q][l], [msg |-> Head(out[q]), outcome |-> o])
      BY <1>15, <2>6 DEF Delivers
    <3>2. FramesOf(wire'[q][l]) = FramesOf(wire[q][l]) \cup RangeOf(out[q][1].frames)
      BY <1>1, <2>2, <3>1, FramesOfAppend
    <3>3. OnWire(q, l)' = OnWire(q, l) \cup Hand(q, l)
      <4>1. OnWire(q, l)' = FramesOf(wire'[q][l]) /\ OnWire(q, l) = FramesOf(wire[q][l])
        BY DEF OnWire, FramesOf
      <4>2. Hand(q, l) = RangeOf(out[q][1].frames)
        BY <1>1, <2>1, <2>6 DEF Hand
      <4> QED
        BY <3>2, <4>1, <4>2
    <3>4. Hand(q, l)' = {}
      BY <1>1, <2>3, <2>4, <2>5, <2>6 DEF Hand
    <3> QED
      BY <2>1, <3>3, <3>4 DEF Moves, MoveToWire
  <2>7. CASE l # at[q]
    <3>1. wire'[q][l] = wire[q][l]
      BY <1>1, <1>15, <2>7 DEF Delivers
    <3>2. OnWire(q, l)' = OnWire(q, l)
      BY <3>1 DEF OnWire
    <3>3. Hand(q, l)' = Hand(q, l)
      <4>1. CASE at[q] = 1
        BY <1>1, <2>1, <2>4, <2>7, <4>1 DEF Hand
      <4>2. CASE at[q] = 2
        <5>1. l = 1 /\ Hand(q, l) = {}
          BY <1>1, <2>7, <4>2 DEF Hand
        <5> QED
          BY <2>3, <2>5, <4>2, <5>1
      <4> QED
        BY <1>1, <4>1, <4>2
    <3> QED
      BY <2>1, <3>2, <3>3 DEF Moves, MoveSame, SameDrain
  <2> QED
    BY <2>6, <2>7
<1> QED
  BY <1>0, <1>6, <1>7, <1>8, <1>9, <1>11, <1>12, <1>13, <1>14, <1>15 DEF StreamStep

(* Each frame the queue took is in one of the four places.                     *)
Accounted(r, l) ==
  accepted[r] = OnWire(r, l) \cup Hand(r, l) \cup RangeOf(batch[r]) \cup Queued(r)

(* What is nearer to the link was cut earlier, and nothing is younger than the *)
(* newest frame cut.                                                           *)
InOrder(r, l) ==
  /\ Below(OnWire(r, l), Hand(r, l) \cup RangeOf(batch[r]) \cup Queued(r))
  /\ Below(Hand(r, l) \cup RangeOf(batch[r]), Queued(r))
  /\ accepted[r] \subseteq 1 .. cut[r]

(* The frames in the queue, in the batch and in the message at hand ascend.    *)
StagesAscend(r) ==
  /\ Ascends(queue[r]) /\ Ascends(batch[r])
  /\ out[r] # << >> => Ascends(out[r][1].frames)

FrameInv ==
  /\ HandForm
  /\ \A r \in Runs : StagesAscend(r)
  /\ \A r \in Runs, l \in Links : Accounted(r, l) /\ InOrder(r, l)

(* Before the first run nothing is anywhere.                                   *)
LEMMA FrameInit == Init => FrameInv
<1> SUFFICES ASSUME Init PROVE FrameInv
  OBVIOUS
<1>1. HandForm
  BY DEF Init, HandForm, OutForm
<1>2. ASSUME NEW r \in Runs PROVE StagesAscend(r)
  BY DEF Init, StagesAscend, Ascends
<1>3. ASSUME NEW r \in Runs, NEW l \in Links PROVE Accounted(r, l) /\ InOrder(r, l)
  <2>1. /\ OnWire(r, l) = {} /\ Hand(r, l) = {} /\ RangeOf(batch[r]) = {} /\ Queued(r) = {}
        /\ accepted[r] = {}
    BY DEF Init, OnWire, Hand, RangeOf, Queued
  <2> QED
    BY <2>1 DEF Accounted, InOrder, Below
<1> QED
  BY <1>1, <1>2, <1>3 DEF FrameInv

(* Frames are natural numbers, and so is the EOS mark among them.              *)
LEMMA FramesAreNumbers ==
  /\ Frames \subseteq Nat /\ Frames \cup {EndOfStream} \subseteq Nat
  /\ Seq(Frames) \subseteq Seq(Nat) /\ Seq(Frames \cup {EndOfStream}) \subseteq Seq(Nat)
<1>1. Frames \subseteq Nat /\ Frames \cup {EndOfStream} \subseteq Nat
  BY ReceiverAssumption DEF Frames, EndOfStream
<1> QED
  BY <1>1

(* The head of the queue is older than what is behind it.                      *)
LEMMA HeadIsOldest ==
  ASSUME IInv, NEW q \in Runs, Ascends(queue[q]), queue[q] # << >>,
         Head(queue[q]) # EndOfStream
  PROVE  /\ Ascends(Tail(queue[q]))
         /\ Below({Head(queue[q])}, RangeOf(Tail(queue[q])) \ {EndOfStream})
<1>1. queue[q] \in Seq(Nat)
  BY StreamTypes, FramesAreNumbers
<1> QED
  BY <1>1, AscendsTail DEF Elements, RangeOf, EndOfStream

(* No step leaves the order of the frames.                                     *)
LEMMA OrderStep ==
  ASSUME IInv, FrameInv, [Next]_vars, NEW r \in Runs, NEW l \in Links
  PROVE  Accounted(r, l)' /\ InOrder(r, l)'
<1> DEFINE W == OnWire(r, l)
           H == Hand(r, l)
           B == RangeOf(batch[r])
           Q == Queued(r)
<1>0. /\ Accounted(r, l) /\ InOrder(r, l) /\ StagesAscend(r) /\ HandForm
      /\ Moves(r, l) /\ cut[r] \in Nat
  BY FrameMoves, StreamTypes DEF FrameInv
<1>1. accepted[r] = W \cup H \cup B \cup Q
  BY <1>0 DEF Accounted
<1>2. Below(W, H \cup B \cup Q) /\ Below(H \cup B, Q) /\ accepted[r] \subseteq 1 .. cut[r]
  BY <1>0 DEF InOrder
<1>3. H # {} => B = {}
  <2>1. out[r] # << >> => batch[r] = << >>
    BY <1>0 DEF HandForm
  <2> QED
    BY <2>1 DEF Hand, RangeOf
<1>4. ASSUME queue[r] # << >>, Head(queue[r]) # EndOfStream, queue'[r] = Tail(queue[r])
      PROVE  Below({Head(queue[r])}, Queued(r)')
  <2>1. Queued(r)' = RangeOf(Tail(queue[r])) \ {EndOfStream}
    BY <1>4 DEF Queued
  <2> QED
    BY <1>0, <1>4, <2>1, HeadIsOldest DEF StagesAscend
<1>5. SUFFICES
        /\ accepted'[r] = W' \cup H' \cup B' \cup Q'
        /\ Below(W', H' \cup B' \cup Q') /\ Below(H' \cup B', Q')
        /\ accepted'[r] \subseteq 1 .. cut'[r]
  BY DEF Accounted, InOrder, Below
<1> HIDE DEF W, H, B, Q
<1>6. CASE MoveSame(r, l)
  <2>1. /\ W' = W /\ H' = H /\ B' = B /\ Q' = Q /\ accepted'[r] = accepted[r]
        /\ cut'[r] \in {cut[r], cut[r] + 1}
    BY <1>6 DEF MoveSame, W, H, B, Q
  <2> QED
    BY <1>0, <1>1, <1>2, <2>1
<1>7. CASE MoveIn(r, l)
  <2>1. /\ W' = W /\ H' = H /\ B' = B /\ Q' = Q \cup {cut[r] + 1}
        /\ accepted'[r] = accepted[r] \cup {cut[r] + 1} /\ cut'[r] = cut[r] + 1
    BY <1>7 DEF MoveIn, W, H, B, Q
  <2>2. \A x \in accepted[r] : x < cut[r] + 1
    BY <1>0, <1>2
  <2>3. Below(W', H' \cup B' \cup Q') /\ Below(H' \cup B', Q')
    BY <1>1, <1>2, <2>1, <2>2 DEF Below
  <2>4. accepted'[r] \subseteq 1 .. cut'[r]
    BY <1>0, <1>2, <2>1
  <2> QED
    BY <1>1, <2>1, <2>3, <2>4
<1>8. CASE MoveToBatch(r, l)
  <2> DEFINE h == Head(queue[r])
  <2>1. /\ W' = W /\ H = {} /\ H' = {} /\ B' = B \cup {h} /\ Q = Q' \cup {h}
        /\ accepted'[r] = accepted[r] /\ cut'[r] = cut[r]
    BY <1>8 DEF MoveToBatch, SameDrain, W, H, B, Q
  <2>2. Below({h}, Q')
    BY <1>4, <1>8 DEF MoveToBatch, Q
  <2> HIDE DEF h
  <2>3. Below(W', H' \cup B' \cup Q') /\ Below(H' \cup B', Q')
    BY <1>2, <2>1, <2>2 DEF Below
  <2> QED
    BY <1>1, <1>2, <2>1, <2>3
<1>9. CASE MoveToHand(r, l)
  <2> DEFINE h == Head(queue[r])
  <2>1. /\ W' = W /\ H = {} /\ B' = {} /\ accepted'[r] = accepted[r] /\ cut'[r] = cut[r]
        /\ \/ H' = B /\ Q' = Q
           \/ H' = B \cup {h} /\ Q = Q' \cup {h} /\ Below({h}, Q')
    BY <1>4, <1>9 DEF MoveToHand, SameDrain, W, H, B, Q
  <2> HIDE DEF h
  <2>2. Below(W', H' \cup B' \cup Q') /\ Below(H' \cup B', Q')
    BY <1>2, <2>1 DEF Below
  <2> QED
    BY <1>1, <1>2, <2>1, <2>2
<1>10. CASE MoveToWire(r, l)
  <2>1. /\ W' = W \cup H /\ H' = {} /\ B' = B /\ Q' = Q
        /\ accepted'[r] = accepted[r] /\ cut'[r] = cut[r]
    BY <1>10 DEF MoveToWire, SameDrain, W, H, B, Q
  <2>2. H # {} => B = {}
    BY <1>3 DEF H, B
  <2>3. Below(W', H' \cup B' \cup Q') /\ Below(H' \cup B', Q')
    BY <1>2, <2>1, <2>2 DEF Below
  <2> QED
    BY <1>1, <1>2, <2>1, <2>3
<1> QED
  BY <1>0, <1>6, <1>7, <1>8, <1>9, <1>10 DEF Moves

(* No step disturbs the order inside the queue, the batch or the message.      *)
LEMMA StagesStep ==
  ASSUME IInv, FrameInv, [Next]_vars, NEW r \in Runs
  PROVE  StagesAscend(r)'
<1>0. StreamStep(r) /\ StagesAscend(r) /\ HandForm /\ 1 \in Links
  BY StreamSteps DEF FrameInv, Links
<1>1. /\ queue[r] \in Seq(Nat) /\ batch[r] \in Seq(Nat) /\ batch[r] \in Seq(Frames)
      /\ cut[r] \in Nat /\ queue[r] \in Seq(Frames \cup {EndOfStream})
  BY StreamTypes, FramesAreNumbers
<1>2. accepted[r] \subseteq 1 .. cut[r] /\ Queued(r) \subseteq accepted[r]
      /\ Below(RangeOf(batch[r]), Queued(r))
  BY <1>0 DEF FrameInv, Accounted, InOrder, Below
<1>3. Ascends(queue[r]) /\ Ascends(batch[r]) /\ (out[r] # << >> => Ascends(out[r][1].frames))
  BY <1>0 DEF StagesAscend
<1>4. SUFFICES Ascends(queue'[r]) /\ Ascends(batch'[r])
               /\ (out'[r] # << >> => Ascends(out'[r][1].frames))
  BY DEF StagesAscend, Ascends
<1>5. CASE Quiet(r) \/ Refused(r)
  BY <1>3, <1>5 DEF Quiet, Refused, SameSender
<1>6. CASE Queues(r)
  <2>1. Below(Elements(queue[r]), {cut[r] + 1})
    <3>1. \A x \in RangeOf(queue[r]) : x = 0 \/ x \in 1 .. cut[r]
      BY <1>2 DEF Queued, EndOfStream
    <3>2. \A x \in RangeOf(queue[r]) : x < cut[r] + 1
      BY <1>1, <3>1
    <3>3. RangeOf(queue[r]) = Elements(queue[r])
      BY DEF RangeOf, Elements
    <3> QED
      BY <3>2, <3>3 DEF Below
  <2>2. Ascends(Append(queue[r], cut[r] + 1))
    <3>1. cut[r] + 1 \in Nat
      BY <1>1
    <3> QED
      BY <1>1, <1>3, <2>1, <3>1, AscendsAppend
  <2> QED
    BY <1>3, <1>6, <2>2 DEF Queues, SameSender
<1>7. CASE QueuesEos(r)
  <2>1. Ascends(Append(queue[r], EndOfStream))
    BY <1>1, <1>3, AscendsAppend DEF EndOfStream
  <2> QED
    BY <1>3, <1>7, <2>1 DEF QueuesEos, SameSender
<1>8. ASSUME queue[r] # << >>, Head(queue[r]) # EndOfStream
      PROVE  Ascends(Tail(queue[r])) /\ Ascends(Append(batch[r], Head(queue[r])))
  <2>1. Ascends(Tail(queue[r]))
    BY <1>3, <1>8, HeadIsOldest
  <2>2. Head(queue[r]) \in Queued(r) /\ Head(queue[r]) \in Nat
    BY <1>8, QueueHead, FramesAreNumbers DEF Queued
  <2>3. Below(Elements(batch[r]), {Head(queue[r])})
    BY <1>2, <2>2 DEF Below, Elements, RangeOf
  <2> QED
    BY <1>1, <1>3, <2>1, <2>2, <2>3, AscendsAppend
<1>9. CASE Takes(r)
  BY <1>8, <1>9 DEF Takes
<1>10. Ascends(<< >>)
  BY DEF Ascends
<1>11. ASSUME NEW fs, Ascends(fs),
              out'[r] = <<Data(seqno[r], fs)>> \/ out'[r] = <<Data(seqno[r], fs), Eos>>
       PROVE  Ascends(out'[r][1].frames)
  <2>1. out'[r][1] = Data(seqno[r], fs)
    BY <1>11, SmallTuples
  <2>2. out'[r][1].frames = fs
    BY <2>1 DEF Data
  <2> QED
    BY <1>11, <2>2
<1>12. out'[r] = <<Eos>> \/ out'[r] = <<Heartbeat>> => Ascends(out'[r][1].frames)
  BY <1>10 DEF Eos, Heartbeat
<1>13. CASE FlushesFull(r)
  BY <1>8, <1>10, <1>11, <1>13 DEF FlushesFull, Flushed
<1>14. CASE FlushesRest(r)
  BY <1>3, <1>10, <1>11, <1>14 DEF FlushesRest, Flushed
<1>15. CASE FlushesEos(r)
  <2>1. Ascends(Tail(queue[r])) /\ queue'[r] = Tail(queue[r])
    BY <1>1, <1>3, <1>15, AscendsTail DEF FlushesEos
  <2>2. Ascends(out'[r][1].frames)
    BY <1>3, <1>11, <1>12, <1>15 DEF FlushesEos
  <2> QED
    BY <1>10, <1>15, <2>1, <2>2 DEF FlushesEos, Flushed
<1>16. CASE Beats(r)
  BY <1>3, <1>10, <1>12, <1>16 DEF Beats, Flushed
<1>17. CASE Delivers(r)
  <2>1. out'[r] = out[r] \/ out'[r] = Tail(out[r])
    BY <1>17 DEF Delivers
  <2>2. out[r] # << >> /\ (Tail(out[r]) = << >> \/ Tail(out[r]) = <<Eos>>)
    BY <1>0, <1>17, HandFacts DEF Delivers
  <2> QED
    BY <1>3, <1>12, <1>17, <2>1, <2>2 DEF Delivers
<1> QED
  BY <1>0, <1>5, <1>6, <1>7, <1>9, <1>13, <1>14, <1>15, <1>16, <1>17 DEF StreamStep

(* No step of the receiver mislays a frame or brings it out of order.          *)
LEMMA FrameStep == IInv /\ FrameInv /\ [Next]_vars => FrameInv'
<1> SUFFICES ASSUME IInv, FrameInv, [Next]_vars PROVE FrameInv'
  OBVIOUS
<1>1. HandForm'
  BY HandFormStep DEF FrameInv
<1> QED
  BY <1>1, OrderStep, StagesStep DEF FrameInv

(* The frames keep their order and their account in every reachable state.     *)
THEOREM FramesInOrder == Spec => []FrameInv
<1>1. Init => FrameInv
  BY FrameInit
<1>2. IInv /\ FrameInv /\ [Next]_vars => FrameInv'
  BY FrameStep
<1> QED
  BY <1>1, <1>2, Invariance, PTL DEF Spec

(* A frame the queue has taken is on each link with its outcome, in the        *)
(* message at hand, in the batch or in the queue, whatever the sizes of queue  *)
(* and batch and however the threads interleave with Stop and Reset.           *)
THEOREM FramesNeverMislaid == Spec => []NoFrameMislaid
<1>1. IInv /\ FrameInv => NoFrameMislaid
  BY HandIsFirst DEF FrameInv, Accounted, NoFrameMislaid
<1> QED
  BY <1>1, Invariance, FramesInOrder, PTL

-------------------------------------------------------------------------------
(* The numbers of the data messages show every loss                            *)

DataIn(w) == {i \in DOMAIN w : w[i].msg.kind = "data"}

(* A data message is numbered by the data messages before it.                  *)
Numbered(w) == \A i \in DataIn(w) : w[i].msg.seq = Cardinality({j \in DataIn(w) : j < i})

(* The frames of w ascend, within a message and from one to the next.          *)
FramesAscend(w) ==
  /\ \A i \in DOMAIN w : Ascends(w[i].msg.frames)
  /\ \A i, j \in DOMAIN w : j < i =>
       Below(RangeOf(w[j].msg.frames), RangeOf(w[i].msg.frames))

(* A data message is at hand, and link l is still to be given it.              *)
DataAtHand(r) == out[r] # << >> /\ out[r][1].kind = "data"
ToGive(r, l) == IF DataAtHand(r) /\ l >= at[r] THEN 1 ELSE 0

(* The sequence number runs ahead of a link by the message at hand for it.     *)
NumberInv ==
  /\ \A r \in Runs : DataAtHand(r) => out[r][1].seq + 1 = seqno[r]
  /\ \A r \in Runs, l \in Links :
       /\ Numbered(wire[r][l]) /\ FramesAscend(wire[r][l])
       /\ Cardinality(DataIn(wire[r][l])) + ToGive(r, l) = seqno[r]

(* The data messages of a link are finitely many.                              *)
LEMMA DataFinite ==
  ASSUME NEW S, NEW w \in Seq(S)
  PROVE  /\ IsFiniteSet(DataIn(w)) /\ Cardinality(DataIn(w)) \in Nat
         /\ DataIn(w) \subseteq 1 .. Len(w)
<1>1. DOMAIN w = 1 .. Len(w) /\ Len(w) \in Nat
  OBVIOUS
<1>2. IsFiniteSet(1 .. Len(w))
  BY <1>1, FS_Interval
<1>3. DataIn(w) \subseteq 1 .. Len(w)
  BY <1>1 DEF DataIn
<1> QED
  BY <1>2, <1>3, FS_Subset, FS_CardinalityType

(* One message more, and its number is how many data messages there were.      *)
LEMMA NumberedAppend ==
  ASSUME NEW S, NEW w \in Seq(S), NEW x, Numbered(w),
         x.msg.kind = "data" => x.msg.seq = Cardinality(DataIn(w))
  PROVE  /\ Numbered(Append(w, x))
         /\ Cardinality(DataIn(Append(w, x))) =
              Cardinality(DataIn(w)) + (IF x.msg.kind = "data" THEN 1 ELSE 0)
<1> DEFINE t == Append(w, x)
           n == Len(w)
<1>1. /\ n \in Nat /\ DOMAIN w = 1 .. n /\ DOMAIN t = 1 .. n + 1
      /\ \A i \in 1 .. n : t[i] = w[i]
      /\ t[n + 1] = x
  BY AppendShape
<1>2. IsFiniteSet(DataIn(w)) /\ Cardinality(DataIn(w)) \in Nat /\ DataIn(w) \subseteq 1 .. n
  BY DataFinite
<1> HIDE DEF t, n
<1>3. DataIn(t) = (IF x.msg.kind = "data" THEN DataIn(w) \cup {n + 1} ELSE DataIn(w))
  BY <1>1 DEF DataIn
<1>4. n + 1 \notin DataIn(w)
  BY <1>1, <1>2
<1>5. Cardinality(DataIn(t)) =
        Cardinality(DataIn(w)) + (IF x.msg.kind = "data" THEN 1 ELSE 0)
  <2>1. CASE x.msg.kind = "data"
    BY <1>2, <1>3, <1>4, <2>1, FS_AddElement
  <2>2. CASE x.msg.kind # "data"
    BY <1>2, <1>3, <2>2
  <2> QED
    BY <2>1, <2>2
<1>6. ASSUME NEW i \in DataIn(t) PROVE t[i].msg.seq = Cardinality({j \in DataIn(t) : j < i})
  <2>1. CASE i \in DataIn(w)
    <3>1. {j \in DataIn(t) : j < i} = {j \in DataIn(w) : j < i}
      BY <1>1, <1>2, <1>3, <2>1
    <3>2. t[i] = w[i]
      BY <1>1, <1>2, <2>1
    <3> QED
      BY <2>1, <3>1, <3>2 DEF Numbered
  <2>2. CASE i \notin DataIn(w)
    <3>1. i = n + 1 /\ x.msg.kind = "data" /\ t[i] = x
      BY <1>1, <1>3, <2>2
    <3>2. {j \in DataIn(t) : j < i} = DataIn(w)
      BY <1>1, <1>2, <1>3, <3>1
    <3> QED
      BY <3>1, <3>2
  <2> QED
    BY <2>1, <2>2
<1> QED
  BY <1>5, <1>6 DEF Numbered, t

(* One message more, of younger frames.                                        *)
LEMMA AscendMore ==
  ASSUME NEW S, NEW w \in Seq(S), NEW x, FramesAscend(w), Ascends(x.msg.frames),
         Below(FramesOf(w), RangeOf(x.msg.frames))
  PROVE  FramesAscend(Append(w, x))
<1> DEFINE t == Append(w, x)
           n == Len(w)
<1>1. /\ n \in Nat /\ DOMAIN w = 1 .. n /\ DOMAIN t = 1 .. n + 1
      /\ \A i \in 1 .. n : t[i] = w[i]
      /\ t[n + 1] = x
  BY AppendShape
<1> HIDE DEF t, n
<1>2. \A i \in DOMAIN t : Ascends(t[i].msg.frames)
  BY <1>1 DEF FramesAscend
<1>3. ASSUME NEW i \in DOMAIN t, NEW j \in DOMAIN t, j < i
      PROVE  Below(RangeOf(t[j].msg.frames), RangeOf(t[i].msg.frames))
  <2>1. j \in 1 .. n /\ t[j] = w[j]
    BY <1>1, <1>3
  <2>2. CASE i \in 1 .. n
    BY <1>1, <1>3, <2>1, <2>2 DEF FramesAscend
  <2>3. CASE i = n + 1
    <3>1. RangeOf(w[j].msg.frames) \subseteq FramesOf(w)
      BY <1>1, <2>1 DEF FramesOf
    <3> QED
      BY <1>1, <2>1, <2>3, <3>1 DEF Below
  <2> QED
    BY <1>1, <2>2, <2>3
<1> QED
  BY <1>2, <1>3 DEF FramesAscend, t

(* Nothing is numbered before the first run.                                   *)
LEMMA NumberInit == Init => NumberInv
<1> SUFFICES ASSUME Init PROVE NumberInv
  OBVIOUS
<1>1. ASSUME NEW r \in Runs PROVE ~DataAtHand(r)
  BY DEF Init, DataAtHand
<1>2. ASSUME NEW r \in Runs, NEW l \in Links
      PROVE  /\ Numbered(wire[r][l]) /\ FramesAscend(wire[r][l])
             /\ Cardinality(DataIn(wire[r][l])) + ToGive(r, l) = seqno[r]
  <2>1. wire[r][l] = << >> /\ seqno[r] = 0
    BY DEF Init
  <2>2. DataIn(<< >>) = {} /\ Numbered(<< >>) /\ FramesAscend(<< >>)
    BY DEF DataIn, Numbered, FramesAscend
  <2>3. Cardinality({}) = 0
    BY FS_EmptySet
  <2> QED
    <3>1. Cardinality(DataIn(wire[r][l])) = 0 /\ ToGive(r, l) = 0
      BY <1>1, <2>1, <2>2, <2>3 DEF ToGive
    <3> QED
      BY <2>1, <2>2, <3>1
<1> QED
  BY <1>1, <1>2 DEF NumberInv

(* What a step does to the number and to the message at hand.                  *)
LEMMA NumberMoves ==
  ASSUME IInv, HandForm, NEW r \in Runs, StreamStep(r), ~Delivers(r)
  PROVE  \/ DataAtHand(r)' = DataAtHand(r) /\ out'[r] = out[r] /\ at'[r] = at[r]
            /\ seqno'[r] = seqno[r] /\ wire'[r] = wire[r]
         \/ ~DataAtHand(r) /\ ~DataAtHand(r)' /\ seqno'[r] = seqno[r] /\ wire'[r] = wire[r]
         \/ ~DataAtHand(r) /\ DataAtHand(r)' /\ seqno'[r] = seqno[r] + 1
            /\ out'[r][1].seq = seqno[r] /\ at'[r] = 1 /\ wire'[r] = wire[r]
<1>1. CASE Quiet(r) \/ Refused(r) \/ Queues(r) \/ QueuesEos(r)
  BY <1>1 DEF Quiet, Refused, Queues, QueuesEos, SameSender, DataAtHand
<1>2. CASE Takes(r)
  BY <1>2 DEF Takes, DataAtHand
<1>3. ASSUME NEW fs,
             out'[r] = <<Data(seqno[r], fs)>> \/ out'[r] = <<Data(seqno[r], fs), Eos>>
      PROVE  DataAtHand(r)' /\ out'[r][1].seq = seqno[r]
  <2>1. out'[r][1] = Data(seqno[r], fs) /\ out'[r] # << >>
    BY <1>3, SmallTuples
  <2> QED
    BY <2>1 DEF DataAtHand, Data
<1>4. out'[r] = <<Eos>> \/ out'[r] = <<Heartbeat>> => ~DataAtHand(r)'
  BY DEF DataAtHand, Eos, Heartbeat
<1>5. Flushed(r) => ~DataAtHand(r) /\ wire'[r] = wire[r] /\ at'[r] = 1
  BY DEF Flushed, DataAtHand
<1>6. CASE FlushesFull(r) \/ FlushesRest(r)
  BY <1>3, <1>5, <1>6 DEF FlushesFull, FlushesRest
<1>7. CASE FlushesEos(r)
  BY <1>3, <1>4, <1>5, <1>7 DEF FlushesEos
<1>8. CASE Beats(r)
  BY <1>4, <1>5, <1>8 DEF Beats
<1> QED
  BY <1>1, <1>2, <1>6, <1>7, <1>8 DEF StreamStep

(* No step breaks the numbering.                                               *)
LEMMA NumberStep == IInv /\ FrameInv /\ NumberInv /\ [Next]_vars => NumberInv'
<1> SUFFICES ASSUME IInv, FrameInv, NumberInv, [Next]_vars,
                    NEW r \in Runs, NEW l \in Links
             PROVE  /\ (DataAtHand(r) => out[r][1].seq + 1 = seqno[r])'
                    /\ Numbered(wire'[r][l]) /\ FramesAscend(wire'[r][l])
                    /\ Cardinality(DataIn(wire'[r][l])) + ToGive(r, l)' = seqno'[r]
  <2>1. 1 \in Links
    BY DEF Links
  <2> QED
    BY <2>1, ZenonT(30) DEF NumberInv, Numbered, FramesAscend, DataIn, Links
<1>0. /\ StreamStep(r) /\ HandForm /\ at[r] \in {1, 2} /\ l \in {1, 2} /\ seqno[r] \in Nat
      /\ wire[r][l] \in Seq([msg : Message, outcome : Outcomes])
  BY StreamSteps, StreamTypes DEF FrameInv, Links
<1>1. /\ DataAtHand(r) => out[r][1].seq + 1 = seqno[r]
      /\ Numbered(wire[r][l]) /\ FramesAscend(wire[r][l])
      /\ Cardinality(DataIn(wire[r][l])) + ToGive(r, l) = seqno[r]
  BY DEF NumberInv
<1>2. Cardinality(DataIn(wire[r][l])) \in Nat
  BY <1>0, DataFinite
<1>3. CASE ~Delivers(r)
  <2>1. CASE DataAtHand(r)' = DataAtHand(r) /\ out'[r] = out[r] /\ at'[r] = at[r]
             /\ seqno'[r] = seqno[r] /\ wire'[r] = wire[r]
    <3>1. ToGive(r, l)' = ToGive(r, l)
      BY <2>1 DEF ToGive, DataAtHand
    <3> QED
      BY <1>1, <2>1, <3>1 DEF DataAtHand
  <2>2. CASE ~DataAtHand(r) /\ ~DataAtHand(r)' /\ seqno'[r] = seqno[r] /\ wire'[r] = wire[r]
    BY <1>1, <2>2 DEF ToGive
  <2>3. CASE ~DataAtHand(r) /\ DataAtHand(r)' /\ seqno'[r] = seqno[r] + 1
             /\ out'[r][1].seq = seqno[r] /\ at'[r] = 1 /\ wire'[r] = wire[r]
    <3>1. ToGive(r, l) = 0 /\ ToGive(r, l)' = 1
      BY <1>0, <2>3 DEF ToGive
    <3> QED
      BY <1>0, <1>1, <1>2, <2>3, <3>1
  <2> QED
    BY <1>0, <1>3, <2>1, <2>2, <2>3, NumberMoves
<1>4. CASE Delivers(r)
  <2>0. /\ out[r] # << >> /\ seqno'[r] = seqno[r]
        /\ Head(out[r]) = out[r][1] /\ out[r][1] \in Message
        /\ Tail(out[r]) = << >> \/ Tail(out[r]) = <<Eos>>
    BY <1>0, <1>4, HandFacts DEF Delivers
  <2>1. /\ at[r] = 1 => at'[r] = 2 /\ out'[r] = out[r] /\ wire'[r][2] = wire[r][2]
        /\ at[r] = 2 => at'[r] = 1 /\ out'[r] = Tail(out[r]) /\ wire'[r][1] = wire[r][1]
    BY <1>4 DEF Delivers
  <2>2. at[r] = 2 => ~DataAtHand(r)'
    <3>1. at[r] = 2 => out'[r] = << >> \/ out'[r] = <<Eos>>
      BY <2>0, <2>1
    <3>2. out'[r] = <<Eos>> => out'[r][1].kind # "data"
      BY DEF Eos
    <3> QED
      BY <3>1, <3>2 DEF DataAtHand
  <2>3. (DataAtHand(r) => out[r][1].seq + 1 = seqno[r])'
    BY <1>0, <1>1, <2>0, <2>1, <2>2 DEF DataAtHand
  <2>4. CASE l = at[r]
    <3>1. PICK o \in Outcomes :
            wire'[r][l] = Append(wire[r][l], [msg |-> out[r][1], outcome |-> o])
      BY <1>4, <2>0, <2>4 DEF Delivers
    <3> DEFINE x == [msg |-> out[r][1], outcome |-> o]
    <3>2. x.msg = out[r][1]
      OBVIOUS
    <3>3. wire'[r][l] = Append(wire[r][l], x)
      BY <3>1
    <3> HIDE DEF x
    <3>4. ToGive(r, l) = (IF x.msg.kind = "data" THEN 1 ELSE 0) /\ ToGive(r, l)' = 0
      BY <1>0, <2>0, <2>1, <2>2, <2>4, <3>2 DEF ToGive, DataAtHand
    <3>5. x.msg.kind = "data" => x.msg.seq = Cardinality(DataIn(wire[r][l]))
      <4>1. out[r][1].seq \in Nat
        BY <2>0 DEF Message
      <4> QED
        BY <1>0, <1>1, <1>2, <2>0, <3>2, <3>4, <4>1 DEF DataAtHand
    <3>6. /\ Numbered(Append(wire[r][l], x))
          /\ Cardinality(DataIn(Append(wire[r][l], x))) =
               Cardinality(DataIn(wire[r][l])) + (IF x.msg.kind = "data" THEN 1 ELSE 0)
      BY <1>0, <1>1, <3>5, NumberedAppend
    <3>7. Below(FramesOf(wire[r][l]), RangeOf(x.msg.frames)) /\ Ascends(x.msg.frames)
      <4>1. Hand(r, l) = RangeOf(x.msg.frames) /\ OnWire(r, l) = FramesOf(wire[r][l])
        BY <1>0, <2>0, <2>4, <3>2 DEF Hand, OnWire, FramesOf
      <4>2. Below(OnWire(r, l), Hand(r, l)) /\ Ascends(out[r][1].frames)
        BY <2>0 DEF FrameInv, InOrder, StagesAscend, Below
      <4> QED
        BY <3>2, <4>1, <4>2
    <3>8. FramesAscend(Append(wire[r][l], x))
      BY <1>0, <1>1, <3>7, AscendMore
    <3> QED
      BY <1>0, <1>1, <1>2, <2>0, <2>3, <3>3, <3>4, <3>6, <3>8
  <2>5. CASE l # at[r]
    <3>1. wire'[r][l] = wire[r][l]
      BY <1>0, <2>1, <2>5
    <3>2. ToGive(r, l)' = ToGive(r, l)
      <4>1. CASE at[r] = 1
        BY <1>0, <2>0, <2>1, <2>5, <4>1 DEF ToGive, DataAtHand
      <4>2. CASE at[r] = 2
        BY <1>0, <2>2, <2>5, <4>2 DEF ToGive
      <4> QED
        BY <1>0, <4>1, <4>2
    <3> QED
      BY <1>1, <2>0, <2>3, <3>1, <3>2
  <2> QED
    BY <2>4, <2>5
<1> QED
  BY <1>3, <1>4

(* The data messages tried on a link carry 0, 1, 2, ... without a hole and     *)
(* their frames ascend: a hole in what arrives is a message that was lost.     *)
THEOREM LossesLeaveGaps == Spec => []GapsMarkLosses
<1>1. Init => NumberInv
  BY NumberInit
<1>2. IInv /\ FrameInv /\ NumberInv /\ [Next]_vars => NumberInv'
  BY NumberStep
<1>3. IInv /\ NumberInv => GapsMarkLosses
  <2> SUFFICES ASSUME IInv, NumberInv, NEW r \in Runs, NEW l \in Links, NEW i \in DataOn(r, l)
               PROVE  /\ wire[r][l][i].msg.seq = Cardinality({j \in DataOn(r, l) : j < i})
                      /\ Ascending(wire[r][l][i].msg.frames)
                      /\ \A j \in DataOn(r, l) : j < i =>
                           \A x \in RangeOf(wire[r][l][j].msg.frames),
                              y \in RangeOf(wire[r][l][i].msg.frames) : x < y
    BY DEF GapsMarkLosses
  <2>1. DataOn(r, l) = DataIn(wire[r][l]) /\ i \in DOMAIN wire[r][l]
    BY DEF DataOn, DataIn
  <2>2. Numbered(wire[r][l]) /\ FramesAscend(wire[r][l])
    BY DEF NumberInv
  <2>3. wire[r][l][i].msg.seq = Cardinality({j \in DataOn(r, l) : j < i})
    BY <2>1, <2>2 DEF Numbered
  <2>4. wire[r][l][i].msg.frames \in Seq(Frames)
    <3>1. wire[r][l] \in Seq([msg : Message, outcome : Outcomes])
      BY StreamTypes
    <3>2. wire[r][l][i] \in [msg : Message, outcome : Outcomes]
      <4> DEFINE w == wire[r][l]
                 S == [msg : Message, outcome : Outcomes]
      <4>1. w \in Seq(S) /\ i \in DOMAIN w
        BY <2>1, <3>1
      <4> HIDE DEF w, S
      <4>2. w[i] \in S
        BY <4>1
      <4> QED
        BY <4>2 DEF w, S
    <3> QED
      BY <3>2 DEF Message
  <2>5. Ascending(wire[r][l][i].msg.frames)
    <3> DEFINE f == wire[r][l][i].msg.frames
    <3>1. \A k \in DOMAIN f : f[k] \in Frames
      BY <2>4
    <3>2. Ascends(f)
      BY <2>1, <2>2 DEF FramesAscend
    <3> HIDE DEF f
    <3>3. Ascending(f)
      BY <3>1, <3>2, NoFrameIsEos DEF Ascends, Ascending, EndOfStream
    <3> QED
      BY <3>3 DEF f
  <2>6. \A j \in DataOn(r, l) : j < i =>
          Below(RangeOf(wire[r][l][j].msg.frames), RangeOf(wire[r][l][i].msg.frames))
    BY <2>1, <2>2 DEF FramesAscend, DataOn
  <2> QED
    BY <2>3, <2>5, <2>6 DEF Below
<1> QED
  BY <1>1, <1>2, <1>3, Invariance, FramesInOrder, PTL DEF Spec

-------------------------------------------------------------------------------
(* EndOfStream stands where it belongs                                         *)

(* What eos_sent says: an EOS is on a link or at hand only when it is set, and *)
(* a heartbeat is at hand only while it is not.                                *)
BeatInv ==
  \A r \in Runs :
    /\ \A i \in DOMAIN out[r] : out[r][i] = Eos => eos_sent[r]
    /\ \A i \in DOMAIN out[r] : out[r][i] = Heartbeat => ~eos_sent[r]
    /\ \A l \in Links : \A i \in DOMAIN wire[r][l] : wire[r][l][i].msg = Eos => eos_sent[r]

(* The three kinds of message are told apart.                                  *)
LEMMA KindsDiffer ==
  /\ Eos # Heartbeat
  /\ \A n, fs : Data(n, fs) # Eos /\ Data(n, fs) # Heartbeat
BY DEF Eos, Heartbeat, Data

(* What a step leaves at hand is what was there, or new and as eos_sent says.  *)
LEMMA BeatAtHand ==
  ASSUME IInv, HandForm, BeatInv, NEW r \in Runs, StreamStep(r)
  PROVE  /\ \A i \in DOMAIN out'[r] : out'[r][i] = Eos => eos_sent'[r]
         /\ \A i \in DOMAIN out'[r] : out'[r][i] = Heartbeat => ~eos_sent'[r]
         /\ eos_sent[r] => eos_sent'[r]
<1>0. /\ \A i \in DOMAIN out[r] : out[r][i] = Eos => eos_sent[r]
      /\ \A i \in DOMAIN out[r] : out[r][i] = Heartbeat => ~eos_sent[r]
  BY Zenon DEF BeatInv
<1>1. CASE Quiet(r) \/ Refused(r) \/ Queues(r) \/ QueuesEos(r)
  BY <1>0, <1>1 DEF Quiet, Refused, Queues, QueuesEos, SameSender
<1>2. CASE Takes(r)
  BY <1>2 DEF Takes
<1>3. ASSUME NEW d, NEW i \in DOMAIN out'[r], d # Eos, d # Heartbeat,
             out'[r] = <<d>> \/ out'[r] = <<d, Eos>>
      PROVE  out'[r][i] # Heartbeat /\ (out'[r] = <<d>> => out'[r][i] # Eos)
  BY <1>3, KindsDiffer
<1>4. CASE FlushesFull(r) \/ FlushesRest(r)
  <2>1. \E fs : out'[r] = <<Data(seqno[r], fs)>>
    BY <1>4 DEF FlushesFull, FlushesRest
  <2>2. eos_sent'[r] = eos_sent[r]
    BY <1>4 DEF FlushesFull, FlushesRest
  <2> QED
    BY <1>3, <2>1, <2>2, KindsDiffer
<1>5. CASE FlushesEos(r)
  <2>1. eos_sent'[r]
    BY <1>5 DEF FlushesEos
  <2>2. CASE out'[r] = <<Eos>>
    BY <2>1, <2>2, KindsDiffer
  <2>3. CASE out'[r] = <<Data(seqno[r], batch[r]), Eos>>
    BY <1>3, <2>1, <2>3, KindsDiffer
  <2> QED
    BY <1>5, <2>2, <2>3 DEF FlushesEos
<1>6. CASE Beats(r)
  <2>1. out'[r] = <<Heartbeat>> /\ ~eos_sent'[r] /\ eos_sent'[r] = eos_sent[r]
    BY <1>6 DEF Beats
  <2> QED
    BY <2>1, KindsDiffer
<1>7. CASE Delivers(r)
  <2>1. eos_sent'[r] = eos_sent[r] /\ (out'[r] = out[r] \/ out'[r] = Tail(out[r])) /\ out[r] # << >>
    BY <1>7 DEF Delivers
  <2>2. CASE out'[r] = out[r]
    BY <1>0, <2>1, <2>2
  <2>3. CASE out'[r] = Tail(out[r])
    <3>1. out[r] \in Seq(Message)
      BY StreamTypes
    <3>2. \A i \in DOMAIN Tail(out[r]) : i + 1 \in DOMAIN out[r] /\ Tail(out[r])[i] = out[r][i + 1]
      BY <2>1, <3>1
    <3> QED
      BY <1>0, <2>1, <2>3, <3>2
  <2> QED
    BY <2>1, <2>2, <2>3
<1> QED
  BY <1>1, <1>2, <1>4, <1>5, <1>6, <1>7 DEF StreamStep

(* What a step does to a link: nothing, or one message more.                   *)
LEMMA WireMoves ==
  ASSUME IInv, NEW r \in Runs, NEW l \in Links, StreamStep(r)
  PROVE  \/ wire'[r][l] = wire[r][l]
         \/ /\ Delivers(r) /\ l = at[r] /\ out[r] # << >> /\ Head(out[r]) = out[r][1]
            /\ 1 \in DOMAIN out[r]
            /\ \E o \in Outcomes :
                 wire'[r][l] = Append(wire[r][l], [msg |-> out[r][1], outcome |-> o])
<1>1. CASE ~Delivers(r)
  <2>1. wire'[r] = wire[r]
    BY <1>1 DEF StreamStep, Quiet, Refused, Queues, QueuesEos, SameSender, Takes,
      FlushesFull, FlushesEos, FlushesRest, Beats, Flushed
  <2> QED
    BY <2>1
<1>2. CASE Delivers(r)
  <2>1. at[r] \in {1, 2} /\ l \in {1, 2} /\ out[r] \in Seq(Message) /\ out[r] # << >>
    BY <1>2, StreamTypes DEF Links, Delivers
  <2>2. Head(out[r]) = out[r][1] /\ 1 \in DOMAIN out[r]
    BY <2>1
  <2>3. CASE l = at[r]
    BY <1>2, <2>1, <2>2, <2>3 DEF Delivers
  <2>4. CASE l # at[r]
    BY <1>2, <2>1, <2>4 DEF Delivers
  <2> QED
    BY <2>3, <2>4
<1> QED
  BY <1>1, <1>2

(* No step breaks what eos_sent says.                                          *)
LEMMA BeatStep == IInv /\ HandForm /\ BeatInv /\ [Next]_vars => BeatInv'
<1> SUFFICES ASSUME IInv, HandForm, BeatInv, [Next]_vars, NEW r \in Runs
             PROVE  /\ \A i \in DOMAIN out'[r] : out'[r][i] = Eos => eos_sent'[r]
                    /\ \A i \in DOMAIN out'[r] : out'[r][i] = Heartbeat => ~eos_sent'[r]
                    /\ \A l \in Links : \A i \in DOMAIN wire'[r][l] :
                         wire'[r][l][i].msg = Eos => eos_sent'[r]
  BY DEF BeatInv, Eos, Heartbeat, Links
<1>1. StreamStep(r)
  BY StreamSteps
<1>2. /\ \A i \in DOMAIN out'[r] : out'[r][i] = Eos => eos_sent'[r]
      /\ \A i \in DOMAIN out'[r] : out'[r][i] = Heartbeat => ~eos_sent'[r]
      /\ eos_sent[r] => eos_sent'[r]
  BY <1>1, BeatAtHand
<1>3. ASSUME NEW l \in Links, NEW i \in DOMAIN wire'[r][l], wire'[r][l][i].msg = Eos
      PROVE  eos_sent'[r]
  <2>1. CASE wire'[r][l] = wire[r][l]
    BY <1>2, <1>3, <2>1 DEF BeatInv
  <2>2. ASSUME NEW o, 1 \in DOMAIN out[r],
               wire'[r][l] = Append(wire[r][l], [msg |-> out[r][1], outcome |-> o])
        PROVE  eos_sent'[r]
    <3> DEFINE x == [msg |-> out[r][1], outcome |-> o]
               n == Len(wire[r][l])
    <3>1. wire[r][l] \in Seq([msg : Message, outcome : Outcomes])
      BY StreamTypes
    <3>2. /\ n \in Nat /\ DOMAIN wire[r][l] = 1 .. n /\ DOMAIN wire'[r][l] = 1 .. n + 1
          /\ \A k \in 1 .. n : wire'[r][l][k] = wire[r][l][k]
          /\ wire'[r][l][n + 1] = x
      BY <2>2, <3>1, AppendShape
    <3>3. x.msg = out[r][1]
      OBVIOUS
    <3> HIDE DEF x, n
    <3>4. CASE i \in 1 .. n
      BY <1>2, <1>3, <3>2, <3>4 DEF BeatInv
    <3>5. CASE i = n + 1
      BY <1>2, <1>3, <2>2, <3>2, <3>3, <3>5 DEF BeatInv
    <3> QED
      BY <3>2, <3>4, <3>5
  <2> QED
    BY <1>1, <2>1, <2>2, WireMoves
<1> QED
  BY <1>2, <1>3

(* No heartbeat is given to a link after an EOS.                               *)
LEMMA NoHeartbeatStep ==
  ASSUME IInv, HandForm, BeatInv, NoHeartbeatAfterEos, [Next]_vars
  PROVE  NoHeartbeatAfterEos'
<1> SUFFICES ASSUME NEW r \in Runs, NEW l \in Links,
                    NEW i \in DOMAIN wire'[r][l], NEW j \in DOMAIN wire'[r][l],
                    i < j, wire'[r][l][i].msg = Eos, wire'[r][l][j].msg = Heartbeat
             PROVE  FALSE
  BY DEF NoHeartbeatAfterEos, Eos, Heartbeat, Links
<1>1. StreamStep(r)
  BY StreamSteps
<1>2. CASE wire'[r][l] = wire[r][l]
  BY <1>2 DEF NoHeartbeatAfterEos
<1>3. ASSUME NEW o, 1 \in DOMAIN out[r],
             wire'[r][l] = Append(wire[r][l], [msg |-> out[r][1], outcome |-> o])
      PROVE  FALSE
  <2> DEFINE x == [msg |-> out[r][1], outcome |-> o]
             n == Len(wire[r][l])
  <2>1. wire[r][l] \in Seq([msg : Message, outcome : Outcomes])
    BY StreamTypes
  <2>2. /\ n \in Nat /\ DOMAIN wire[r][l] = 1 .. n /\ DOMAIN wire'[r][l] = 1 .. n + 1
        /\ \A k \in 1 .. n : wire'[r][l][k] = wire[r][l][k]
        /\ wire'[r][l][n + 1] = x
    BY <1>3, <2>1, AppendShape
  <2>3. x.msg = out[r][1]
    OBVIOUS
  <2> HIDE DEF x, n
  <2>4. i \in 1 .. n /\ wire[r][l][i].msg = Eos
    BY <2>2
  <2>5. CASE j \in 1 .. n
    BY <2>2, <2>4, <2>5 DEF NoHeartbeatAfterEos
  <2>6. CASE j = n + 1
    BY <1>3, <2>2, <2>3, <2>4, <2>6 DEF BeatInv
  <2> QED
    BY <2>2, <2>5, <2>6
<1> QED
  BY <1>1, <1>2, <1>3, WireMoves

(* The EOS messages on a link, the one at hand for it, and those queued.       *)
EosIn(w) == {i \in DOMAIN w : w[i].msg = Eos}
EosToGive(r, l) ==
  IF \E i \in DOMAIN out[r] : out[r][i] = Eos /\ (i > 1 \/ l >= at[r]) THEN 1 ELSE 0
EosCount(r, l) ==
  Cardinality(EosIn(wire[r][l])) + EosToGive(r, l) + Cardinality(Places(queue[r], EndOfStream))

(* The connections of the run that stayed empty, while they are counted.       *)
Empty(r) == IF r = run THEN metrics.empty_connections ELSE 0

(* Only the newest run has a drain task, and none while a listener waits.      *)
OneDrain ==
  /\ \A r \in Runs : dpc[r] \in {"off", "done"} \/ r = run
  /\ listener => \A r \in Runs : dpc[r] \in {"off", "done"}
  /\ \A r \in Runs : r = run => dpc[r] # "off"

(* How many EOS a run may have brought on its way when its drain task is       *)
(* where it is.                                                                *)
EosBound(r, l) ==
  LET n == EosCount(r, l)
  IN  /\ dpc[r] = "off" => n = 0 /\ conns[r] = 0
      /\ dpc[r] = "accept" => n + Empty(r) <= conns[r]
      /\ dpc[r] \in {"conn", "frames", "closing"} => n + Empty(r) + 1 <= conns[r]
      /\ dpc[r] = "exiting" => n + Empty(r) <= conns[r] /\ (n = 0 \/ n + 1 <= conns[r])
      /\ dpc[r] = "done" => n + Empty(r) <= conns[r] + 1 /\ (n <= 1 \/ n <= conns[r])
      /\ dpc[r] = "accept" /\ owes_eos[r] => n = 0
      /\ dpc[r] = "conn" /\ ~carried[r] /\ owes_eos[r] => n = 0
      /\ dpc[r] = "frames" => carried[r]

EosInv == OneDrain /\ \A r \in Runs, l \in Links : EosBound(r, l)

(* The EOS messages on a link are finitely many, and one more adds one.        *)
LEMMA EosAppend ==
  ASSUME NEW S, NEW w \in Seq(S), NEW x
  PROVE  /\ Cardinality(EosIn(w)) \in Nat
         /\ Cardinality(EosIn(Append(w, x))) =
              Cardinality(EosIn(w)) + (IF x.msg = Eos THEN 1 ELSE 0)
<1> DEFINE t == Append(w, x)
           n == Len(w)
<1>1. /\ n \in Nat /\ DOMAIN w = 1 .. n /\ DOMAIN t = 1 .. n + 1
      /\ \A i \in 1 .. n : t[i] = w[i]
      /\ t[n + 1] = x
  BY AppendShape
<1> HIDE DEF t, n
<1>2. EosIn(w) \subseteq 1 .. n /\ IsFiniteSet(1 .. n)
  BY <1>1, FS_Interval DEF EosIn
<1>3. IsFiniteSet(EosIn(w)) /\ Cardinality(EosIn(w)) \in Nat
  BY <1>2, FS_Subset, FS_CardinalityType
<1>4. EosIn(t) = (IF x.msg = Eos THEN EosIn(w) \cup {n + 1} ELSE EosIn(w))
  BY <1>1 DEF EosIn
<1>5. n + 1 \notin EosIn(w)
  BY <1>1, <1>2
<1>6. CASE x.msg = Eos
  BY <1>3, <1>4, <1>5, <1>6, FS_AddElement DEF t
<1>7. CASE x.msg # Eos
  BY <1>3, <1>4, <1>7 DEF t
<1> QED
  BY <1>3, <1>6, <1>7

(* The numbers the count is made of.                                           *)
LEMMA EosTypes ==
  ASSUME IInv, NEW r \in Runs, NEW l \in Links
  PROVE  /\ Cardinality(EosIn(wire[r][l])) \in Nat /\ EosToGive(r, l) \in {0, 1}
         /\ Cardinality(Places(queue[r], EndOfStream)) \in Nat
         /\ EosCount(r, l) \in Nat /\ Empty(r) \in Nat
         /\ conns[r] \in Nat
<1>1. wire[r][l] \in Seq([msg : Message, outcome : Outcomes])
      /\ queue[r] \in Seq(Frames \cup {EndOfStream})
  BY StreamTypes
<1>2. Cardinality(EosIn(wire[r][l])) \in Nat /\ Cardinality(Places(queue[r], EndOfStream)) \in Nat
  BY <1>1, EosAppend, PlacesFinite
<1>3. EosToGive(r, l) \in {0, 1}
  BY DEF EosToGive
<1>4. Empty(r) \in Nat
  BY DEF Empty, IInv, TypeOK, Metrics
<1>5. conns[r] \in Nat
  BY ReceiverAssumption DEF IInv, TypeOK, DrainTypeOK
<1> QED
  BY <1>2, <1>3, <1>4, <1>5 DEF EosCount

(* A step that leaves the sender's side alone changes the count by what it     *)
(* queues.                                                                     *)
LEMMA EosQueued ==
  ASSUME IInv, NEW r \in Runs, NEW l \in Links, SameSender(r)
  PROVE  /\ queue'[r] = queue[r] => EosCount(r, l)' = EosCount(r, l)
         /\ \A x \in Frames : queue'[r] = Append(queue[r], x) => EosCount(r, l)' = EosCount(r, l)
         /\ queue'[r] = Append(queue[r], EndOfStream) => EosCount(r, l)' = EosCount(r, l) + 1
<1>1. queue[r] \in Seq(Frames \cup {EndOfStream})
  BY StreamTypes
<1>2. EosToGive(r, l)' = EosToGive(r, l) /\ EosIn(wire'[r][l]) = EosIn(wire[r][l])
  BY DEF SameSender, EosToGive
<1> DEFINE p == Cardinality(Places(queue[r], EndOfStream))
           q == Cardinality(Places(queue'[r], EndOfStream))
<1>3. \A x \in Frames : queue'[r] = Append(queue[r], x) => q = p
  <2> TAKE x \in Frames
  <2>1. Cardinality(Places(Append(queue[r], x), EndOfStream)) = p + (IF x = EndOfStream THEN 1 ELSE 0)
    BY <1>1, CountAppend
  <2>2. x # EndOfStream
    BY NoFrameIsEos
  <2>3. p \in Nat
    BY EosTypes
  <2> HIDE DEF p
  <2> QED
    BY <2>1, <2>2, <2>3
<1>4. queue'[r] = Append(queue[r], EndOfStream) => q = p + 1
  BY <1>1, CountAppend
<1>5. p \in Nat /\ EosToGive(r, l) \in {0, 1} /\ Cardinality(EosIn(wire[r][l])) \in Nat
  BY EosTypes
<1>6. queue'[r] = queue[r] => q = p
  OBVIOUS
<1>7. EosCount(r, l) = Cardinality(EosIn(wire[r][l])) + EosToGive(r, l) + p
  BY DEF EosCount
<1>8. EosCount(r, l)' = Cardinality(EosIn(wire[r][l])) + EosToGive(r, l) + q
  BY <1>2 DEF EosCount, EosIn, Places
<1> HIDE DEF p, q
<1> QED
  BY <1>3, <1>4, <1>5, <1>6, <1>7, <1>8

(* The sender passes every EOS on: the count stays.                            *)
LEMMA EosPassedOn ==
  ASSUME IInv, HandForm, NEW r \in Runs, NEW l \in Links,
         \/ Quiet(r) \/ Takes(r) \/ FlushesFull(r) \/ FlushesEos(r) \/ FlushesRest(r)
         \/ Beats(r) \/ Delivers(r)
  PROVE  EosCount(r, l)' = EosCount(r, l)
<1> DEFINE p == Cardinality(Places(queue[r], EndOfStream))
           q == Cardinality(Places(queue'[r], EndOfStream))
           w == Cardinality(EosIn(wire[r][l]))
           v == Cardinality(EosIn(wire'[r][l]))
           g == EosToGive(r, l)
           h == EosToGive(r, l)'
<1>0. /\ queue[r] \in Seq(Frames \cup {EndOfStream}) /\ at[r] \in {1, 2} /\ l \in {1, 2}
      /\ wire[r][l] \in Seq([msg : Message, outcome : Outcomes])
  BY StreamTypes DEF Links
<1>1. p \in Nat /\ w \in Nat /\ g \in {0, 1}
  BY EosTypes
<1>2. EosCount(r, l) = w + g + p
  BY DEF EosCount
<1>3. EosCount(r, l)' = v + h + q
  BY DEF EosCount, EosIn, Places
<1>4. SUFFICES v + h + q = w + g + p
  BY <1>2, <1>3
<1>5. wire'[r][l] = wire[r][l] => v = w
  OBVIOUS
<1>6. queue'[r] = queue[r] => q = p
  OBVIOUS
<1>7. ASSUME queue[r] # << >>, queue'[r] = Tail(queue[r])
      PROVE  p = q + (IF Head(queue[r]) = EndOfStream THEN 1 ELSE 0) /\ q \in Nat
  <2>1. Tail(queue[r]) \in Seq(Frames \cup {EndOfStream})
    BY <1>0, <1>7, TailLast
  <2> QED
    BY <1>0, <1>7, <2>1, CountTail, PlacesFinite
<1>8. out[r] = << >> => g = 0
  BY DEF EosToGive
<1>9. out'[r] = << >> => h = 0
  BY DEF EosToGive
<1>10. ASSUME NEW fs, out'[r] = <<Data(seqno[r], fs)>> PROVE h = 0
  BY <1>10, KindsDiffer DEF EosToGive
<1>11. ASSUME NEW fs, out'[r] = <<Data(seqno[r], fs), Eos>> PROVE h = 1
  BY <1>11 DEF EosToGive
<1>12. out'[r] = <<Heartbeat>> => h = 0
  BY KindsDiffer DEF EosToGive
<1>13. out'[r] = <<Eos>> /\ at'[r] = 1 => h = 1
  BY <1>0 DEF EosToGive
<1> HIDE DEF p, q, w, v, g, h
<1>14. CASE Quiet(r)
  <2>1. EosCount(r, l)' = EosCount(r, l)
    BY <1>14, EosQueued DEF Quiet
  <2> QED
    BY <1>2, <1>3, <2>1
<1>15. CASE Takes(r)
  BY <1>1, <1>5, <1>7, <1>8, <1>9, <1>15 DEF Takes
<1>16. CASE FlushesFull(r)
  BY <1>1, <1>5, <1>7, <1>8, <1>10, <1>16 DEF FlushesFull, Flushed
<1>17. CASE FlushesRest(r)
  BY <1>1, <1>5, <1>6, <1>8, <1>10, <1>17 DEF FlushesRest, Flushed
<1>18. CASE Beats(r)
  BY <1>1, <1>5, <1>6, <1>8, <1>12, <1>18 DEF Beats, Flushed
<1>19. CASE FlushesEos(r)
  BY <1>1, <1>5, <1>7, <1>8, <1>11, <1>13, <1>19 DEF FlushesEos, Flushed
<1>20. CASE Delivers(r)
  <2>1. /\ queue'[r] = queue[r] /\ out[r] # << >>
        /\ at[r] = 1 => at'[r] = 2 /\ out'[r] = out[r]
        /\ at[r] = 2 => at'[r] = 1 /\ out'[r] = Tail(out[r])
    BY <1>20 DEF Delivers
  <2>2. /\ \A i \in DOMAIN out[r] : i = 1 \/ (i = 2 /\ out[r][i] = Eos)
        /\ 1 \in DOMAIN out[r] /\ out[r] \in Seq(Message)
    BY <2>1, HandFacts, StreamTypes
  <2>3. \A i : i \in DOMAIN Tail(out[r]) <=> i = 1 /\ 2 \in DOMAIN out[r]
    <3>1. \A i : i \in DOMAIN Tail(out[r]) <=> i \in Nat /\ i >= 1 /\ i + 1 \in DOMAIN out[r]
      BY <2>1, <2>2
    <3>2. \A i \in DOMAIN out[r] : i = 1 \/ i = 2
      BY <2>2
    <3>3. \A i \in Nat : i >= 1 /\ i + 1 \in DOMAIN out[r] => i = 1
      BY <3>2
    <3> QED
      BY <3>1, <3>3
  <2>4. 2 \in DOMAIN out[r] => Tail(out[r])[1] = Eos
    BY <2>1, <2>2
  <2>5. g = (IF 2 \in DOMAIN out[r] \/ (out[r][1] = Eos /\ l >= at[r]) THEN 1 ELSE 0)
    BY <1>0, <2>2 DEF g, EosToGive
  <2>6. at[r] = 2 => h = (IF 2 \in DOMAIN out[r] THEN 1 ELSE 0)
    <3>1. at[r] = 2 /\ 2 \in DOMAIN out[r] => h = 1
      <4> SUFFICES ASSUME at[r] = 2, 2 \in DOMAIN out[r] PROVE h = 1
        OBVIOUS
      <4>1. 1 \in DOMAIN out'[r] /\ out'[r][1] = Eos /\ at'[r] = 1
        BY <2>1, <2>3, <2>4
      <4> QED
        BY <1>0, <4>1 DEF h, EosToGive
    <3>2. at[r] = 2 /\ 2 \notin DOMAIN out[r] => h = 0
      BY <1>0, <2>1, <2>3 DEF h, EosToGive
    <3> QED
      BY <3>1, <3>2
  <2>7. at[r] = 1 => h = (IF 2 \in DOMAIN out[r] \/ (out[r][1] = Eos /\ l >= 2) THEN 1 ELSE 0)
    BY <1>0, <2>1, <2>2 DEF h, EosToGive
  <2>8. 2 \in DOMAIN out[r] => out[r][1] # Eos
    <3>1. OutForm(out[r])
      BY DEF HandForm
    <3> QED
      BY <3>1, KindsDiffer DEF OutForm
  <2>9. CASE l = at[r]
    <3>1. PICK o \in Outcomes :
            wire'[r][l] = Append(wire[r][l], [msg |-> Head(out[r]), outcome |-> o])
      BY <1>20, <2>9 DEF Delivers
    <3>2. Head(out[r]) = out[r][1]
      BY <2>1, HandFacts
    <3> DEFINE x == [msg |-> out[r][1], outcome |-> o]
    <3>3. x.msg = out[r][1] /\ wire'[r][l] = Append(wire[r][l], x)
      BY <3>1, <3>2
    <3> HIDE DEF x
    <3>4. v = w + (IF x.msg = Eos THEN 1 ELSE 0)
      BY <1>0, <3>3, EosAppend DEF v, w
    <3> QED
      BY <1>0, <1>1, <1>6, <2>1, <2>5, <2>6, <2>7, <2>8, <2>9, <3>3, <3>4
  <2>10. CASE l # at[r]
    <3>1. wire'[r][l] = wire[r][l]
      BY <1>0, <1>20, <2>10 DEF Delivers
    <3> QED
      BY <1>0, <1>1, <1>5, <1>6, <2>1, <2>5, <2>6, <2>7, <2>10, <3>1
  <2> QED
    BY <2>9, <2>10
<1> QED
  BY <1>14, <1>15, <1>16, <1>17, <1>18, <1>19, <1>20

(* Nothing is counted before the first run.                                    *)
LEMMA EosInit == Init => BeatInv /\ NoHeartbeatAfterEos /\ EosInv
<1> SUFFICES ASSUME Init PROVE BeatInv /\ NoHeartbeatAfterEos /\ EosInv
  OBVIOUS
<1>1. BeatInv /\ NoHeartbeatAfterEos
  BY DEF Init, BeatInv, NoHeartbeatAfterEos
<1>2. OneDrain
  BY DEF Init, OneDrain, Runs
<1>3. ASSUME NEW r \in Runs, NEW l \in Links PROVE EosBound(r, l)
  <2>1. dpc[r] = "off" /\ conns[r] = 0 /\ wire[r][l] = << >> /\ out[r] = << >> /\ queue[r] = << >>
    BY DEF Init
  <2>2. EosIn(wire[r][l]) = {} /\ Cardinality({}) = 0
    BY <2>1, FS_EmptySet DEF EosIn
  <2>3. EosToGive(r, l) = 0
    BY <2>1 DEF EosToGive
  <2>4. Cardinality(Places(queue[r], EndOfStream)) = 0
    BY <2>1, NoPlaces
  <2>5. EosCount(r, l) = 0
    BY <2>2, <2>3, <2>4 DEF EosCount
  <2> QED
    BY <2>1, <2>5 DEF EosBound
<1> QED
  BY <1>1, <1>2, <1>3 DEF EosInv

(* A step that moves no drain task and counts no connection keeps the bounds.  *)
LEMMA BoundKept ==
  ASSUME IInv, EosInv, NEW r \in Runs, NEW l \in Links,
         dpc'[r] = dpc[r], conns'[r] = conns[r], carried'[r] = carried[r],
         owes_eos'[r] = owes_eos[r], EosCount(r, l)' = EosCount(r, l), Empty(r)' <= Empty(r),
         Empty(r)' \in Nat
  PROVE  EosBound(r, l)'
<1>1. EosBound(r, l) /\ EosCount(r, l) \in Nat /\ Empty(r) \in Nat /\ conns[r] \in Nat
  BY EosTypes DEF EosInv
<1> QED
  BY <1>1 DEF EosBound

(* The handler and the sender threads keep them.                               *)
LEMMA EosBySender ==
  ASSUME IInv, HandForm, EosInv,
         HandlerNext \/ (\E q \in Runs : SenderNext(q)) \/ UNCHANGED vars
  PROVE  EosInv'
<1>1. CASE Start
  <2>1. /\ run \in Nat /\ run + 1 \in Runs /\ run' = run + 1 /\ metrics' = ZeroMetrics
        /\ listener /\ listener' = FALSE
        /\ dpc' = [dpc EXCEPT ![run + 1] = "accept"] /\ dpc \in [Runs -> DrainStates]
        /\ UNCHANGED <<conns, carried, owes_eos>>
    <3>1. run \in Nat /\ run + 1 \in Runs
      BY <1>1, ReceiverAssumption DEF Start, IInv, TypeOK, HandlerTypeOK, Runs
    <3>2. dpc \in [Runs -> DrainStates]
      BY DEF IInv, TypeOK, DrainTypeOK
    <3> QED
      BY <1>1, <3>1, <3>2, Zenon DEF Start
  <2>2. OneDrain'
    BY <2>1 DEF EosInv, OneDrain
  <2>3. ASSUME NEW r \in Runs, NEW l \in Links PROVE EosBound(r, l)'
    <3>1. EosCount(r, l)' = EosCount(r, l)
      <4>1. Quiet(r)
        BY <1>1, HandlerQuiet DEF HandlerNext
      <4> QED
        BY <4>1, EosPassedOn
    <3>2. Empty(r)' = 0
      BY <2>1 DEF Empty, ZeroMetrics
    <3>3. CASE r # run + 1
      <4>1. Empty(r)' <= Empty(r) /\ Empty(r)' \in Nat
        BY <3>2, EosTypes
      <4>2. dpc'[r] = dpc[r]
        BY <2>1, <3>3
      <4> QED
        BY <2>1, <3>1, <4>1, <4>2, BoundKept
    <3>4. CASE r = run + 1
      <4>1. dpc[r] = "off" /\ dpc'[r] = "accept"
        BY <2>1, <3>4 DEF IInv, Unstarted
      <4>2. EosCount(r, l) = 0 /\ conns[r] = 0
        BY <4>1 DEF EosInv, EosBound
      <4>3. EosCount(r, l)' = 0 /\ conns'[r] = 0
        BY <2>1, <3>1, <4>2
      <4> QED
        BY <3>2, <4>1, <4>3 DEF EosBound
    <3> QED
      BY <3>3, <3>4
  <2> QED
    BY <2>2, <2>3 DEF EosInv
<1>2. CASE (HandlerNext /\ ~Start) \/ (\E q \in Runs : SenderNext(q)) \/ UNCHANGED vars
  <2>1. /\ UNCHANGED <<dpc, conns, carried, owes_eos, run>>
        /\ metrics'.empty_connections = metrics.empty_connections
    <3>0. metrics \in Metrics
      BY DEF IInv, TypeOK
    <3>1. CASE OnlyLatch \/ Configure \/ Arm \/ StartLosesListener \/ Stop \/ Reset \/ ResetJoined
      <4>1. UNCHANGED <<run, taskVars>>
        BY <3>1 DEF OnlyLatch, Configure, Arm, StartLosesListener, Stop, Reset, ResetJoined
      <4>2. metrics' = metrics \/ metrics' = [metrics EXCEPT !.overflowed = FALSE]
        BY <3>1 DEF OnlyLatch, Configure, Arm, StartLosesListener, Stop, Reset, ResetJoined
      <4> QED
        BY <3>0, <4>1, <4>2 DEF taskVars, drainVars, Metrics
    <3>2. ASSUME NEW q \in Runs, SenderNext(q)
          PROVE  /\ UNCHANGED <<dpc, conns, carried, owes_eos, run>>
                 /\ metrics'.empty_connections = metrics.empty_connections
      <4>1. UNCHANGED <<handlerVars, drainVars>>
        BY <3>2 DEF SenderNext, SenderTop, SenderFrame, SenderEos, SenderDeadline,
          SenderHeartbeat, SenderPoll, SenderDisconnected, SendSent, SendFailed,
          SendAbandoned, SendEnds
      <4>2. \/ metrics' = metrics
            \/ metrics' = [metrics EXCEPT !.send_errors = @ + 1]
            \/ metrics' = [metrics EXCEPT !.messages_abandoned = @ + 1]
        BY <3>2 DEF SenderNext, SenderTop, SenderFrame, SenderEos, SenderDeadline,
          SenderHeartbeat, SenderPoll, SenderDisconnected, SendSent, SendFailed,
          SendAbandoned
      <4> QED
        BY <3>0, <4>1, <4>2 DEF handlerVars, drainVars, Metrics
    <3>3. CASE UNCHANGED vars
      BY <3>3 DEF vars, handlerVars, drainVars
    <3> QED
      BY <1>2, <3>1, <3>2, <3>3 DEF HandlerNext
  <2>2. OneDrain'
    <3>1. listener' => listener \/ \A r \in Runs : dpc[r] \in {"off", "done"}
      <4>1. CASE OnlyLatch \/ Configure \/ StartLosesListener \/ Stop \/ Reset \/ ResetJoined
        BY <4>1 DEF OnlyLatch, Configure, StartLosesListener, Stop, Reset, ResetJoined
      <4>2. CASE Arm
        BY <4>2 DEF Arm
      <4>3. ASSUME NEW q \in Runs, SenderNext(q) PROVE listener' = listener
        BY <4>3 DEF SenderNext, SenderTop, SenderFrame, SenderEos, SenderDeadline,
          SenderHeartbeat, SenderPoll, SenderDisconnected, SendSent, SendFailed,
          SendAbandoned, SendEnds, handlerVars
      <4>4. CASE UNCHANGED vars
        BY <4>4 DEF vars, handlerVars
      <4> QED
        BY <1>2, <4>1, <4>2, <4>3, <4>4 DEF HandlerNext
    <3> QED
      BY <2>1, <3>1 DEF EosInv, OneDrain
  <2>3. ASSUME NEW r \in Runs, NEW l \in Links PROVE EosBound(r, l)'
    <3>1. EosCount(r, l)' = EosCount(r, l)
      BY <1>2, HandlerQuiet, SenderSteps, EosPassedOn
    <3>2. Empty(r)' = Empty(r) /\ Empty(r) \in Nat
      BY <2>1, EosTypes DEF Empty
    <3> QED
      BY <2>1, <3>1, <3>2, BoundKept
  <2> QED
    BY <2>2, <2>3 DEF EosInv
<1> QED
  BY <1>1, <1>2

(* The drain task keeps them: an EOS is queued for a connection that carried   *)
(* data, or once at the end.                                                   *)
LEMMA EosByDrain ==
  ASSUME IInv, EosInv, NEW q \in Runs, DrainNext(q)
  PROVE  EosInv'
<1>0. /\ UNCHANGED <<handlerVars, senderVars, wire>>
      /\ dpc \in [Runs -> DrainStates] /\ conns \in [Runs -> 0 .. MaxConns]
      /\ queue \in [Runs -> Seq(Frames \cup {EndOfStream})]
      /\ carried \in [Runs -> BOOLEAN] /\ owes_eos \in [Runs -> BOOLEAN]
      /\ metrics \in Metrics
  <2>1. UNCHANGED <<handlerVars, senderVars, wire>>
    BY DEF DrainNext, DrainAccept, DrainRead, DrainFrame, DrainEof, DrainStop, DrainEos
  <2> QED
    BY <2>1 DEF IInv, TypeOK, DrainTypeOK, QueueTypeOK
<1>1. dpc[q] \notin {"off", "done"} /\ q = run /\ run' = run
  <2>1. dpc[q] \notin {"off", "done"}
    BY DEF DrainNext, DrainAccept, DrainRead, DrainFrame, DrainEof, DrainStop, DrainEos
  <2> QED
    BY <1>0, <2>1 DEF EosInv, OneDrain, handlerVars
<1>2. \A r \in Runs : SameSender(r)
  BY <1>0 DEF SameSender, senderVars
<1>3. \A r \in Runs \ {q} :
        /\ dpc'[r] = dpc[r] /\ conns'[r] = conns[r] /\ carried'[r] = carried[r]
        /\ owes_eos'[r] = owes_eos[r] /\ queue'[r] = queue[r]
  <2>1. CASE DrainAccept(q) \/ DrainRead(q) \/ DrainFrame(q)
    BY <1>0, <2>1 DEF DrainAccept, DrainRead, DrainFrame
  <2>2. CASE DrainEof(q) \/ DrainStop(q) \/ DrainEos(q)
    BY <1>0, <2>2 DEF DrainEof, DrainStop, DrainEos
  <2> QED
    BY <2>1, <2>2 DEF DrainNext
<1>4. OneDrain'
  <2>1. dpc'[q] # "off"
    BY <1>0, <1>1 DEF DrainNext, DrainAccept, DrainRead, DrainFrame, DrainEof, DrainStop, DrainEos
  <2> QED
    BY <1>0, <1>1, <1>3, <2>1 DEF EosInv, OneDrain, handlerVars
<1>5. ASSUME NEW r \in Runs, r # q, NEW l \in Links PROVE EosBound(r, l)'
  <2>1. EosCount(r, l)' = EosCount(r, l)
    BY <1>2, <1>3, <1>5, EosQueued
  <2>2. Empty(r) = 0 /\ Empty(r)' = 0
    BY <1>1, <1>5 DEF Empty
  <2> QED
    BY <1>3, <1>5, <2>1, <2>2, BoundKept
<1>6. ASSUME NEW l \in Links PROVE EosBound(q, l)'
  <2> DEFINE n == EosCount(q, l)
             m == EosCount(q, l)'
             e == Empty(q)
             f == Empty(q)'
             c == conns[q]
             d == conns'[q]
  <2>1. /\ n \in Nat /\ e \in Nat /\ c \in Nat
        /\ e = metrics.empty_connections /\ f = metrics'.empty_connections
    BY <1>1, EosTypes DEF Empty
  <2>2. /\ dpc[q] = "accept" => n + e <= c
        /\ dpc[q] \in {"conn", "frames", "closing"} => n + e + 1 <= c
        /\ dpc[q] = "exiting" => n + e <= c /\ (n = 0 \/ n + 1 <= c)
        /\ dpc[q] = "accept" /\ owes_eos[q] => n = 0
        /\ dpc[q] = "conn" /\ ~carried[q] /\ owes_eos[q] => n = 0
        /\ dpc[q] = "frames" => carried[q]
    BY DEF EosInv, EosBound
  <2>3. SUFFICES
          /\ dpc'[q] # "off"
          /\ dpc'[q] = "accept" => m + f <= d
          /\ dpc'[q] \in {"conn", "frames", "closing"} => m + f + 1 <= d
          /\ dpc'[q] = "exiting" => m + f <= d /\ (m = 0 \/ m + 1 <= d)
          /\ dpc'[q] = "done" => m + f <= d + 1 /\ (m <= 1 \/ m <= d)
          /\ dpc'[q] = "accept" /\ owes_eos'[q] => m = 0
          /\ dpc'[q] = "conn" /\ ~carried'[q] /\ owes_eos'[q] => m = 0
          /\ dpc'[q] = "frames" => carried'[q]
    BY DEF EosBound
  <2>4. queue'[q] = queue[q] => m = n
    BY <1>2, EosQueued
  <2>5. /\ \A x \in Frames : queue'[q] = Append(queue[q], x) => m = n
        /\ queue'[q] = Append(queue[q], EndOfStream) => m = n + 1
    BY <1>2, EosQueued
  <2>6. metrics' = metrics => f = e
    BY <2>1
  <2> HIDE DEF n, m, e, f, c, d
  <2>7. CASE DrainAccept(q)
    <3>1. /\ dpc[q] = "accept" /\ dpc'[q] = "conn" /\ d = c + 1 /\ queue'[q] = queue[q]
          /\ metrics' = metrics /\ owes_eos'[q] = owes_eos[q]
      BY <1>0, <2>7 DEF DrainAccept, c, d
    <3> QED
      BY <2>1, <2>2, <2>4, <2>6, <3>1
  <2>8. CASE DrainRead(q)
    <3>1. /\ dpc[q] = "conn" /\ dpc'[q] \in {"conn", "frames"} /\ d = c
          /\ queue'[q] = queue[q] /\ metrics' = metrics
      BY <1>0, <2>8 DEF DrainRead, c, d
    <3>2. carried'[q]
      BY <1>0, <2>8, Zenon DEF DrainRead
    <3> QED
      BY <2>1, <2>2, <2>4, <2>6, <3>1, <3>2
  <2>9. CASE DrainFrame(q)
    <3>1. cut[q] + 1 \in Frames
      BY <2>9, ReceiverAssumption DEF DrainFrame, FrameLoop, Frames, IInv, TypeOK, DrainTypeOK
    <3>2. m = n
      <4>1. queue'[q] = queue[q] \/ queue'[q] = Append(queue[q], cut[q] + 1)
        BY <1>0, <2>9 DEF DrainFrame
      <4> QED
        BY <2>4, <2>5, <3>1, <4>1
    <3>3. dpc[q] = "frames" /\ dpc'[q] \in {"conn", "frames"} /\ d = c
      BY <1>0, <2>9 DEF DrainFrame, c, d
    <3>4. f = e
      <4>1. metrics' = metrics
            \/ metrics' = [metrics EXCEPT !.overflow_frames = @ + 1, !.overflowed = TRUE]
        BY <2>9 DEF DrainFrame
      <4>2. metrics'.empty_connections = metrics.empty_connections
        BY <1>0, <4>1, Zenon DEF Metrics
      <4> QED
        BY <2>1, <4>2
    <3>5. owes_eos'[q] = owes_eos[q] /\ carried'[q] = carried[q]
      BY <2>9 DEF DrainFrame
    <3>6. carried[q]
      BY <2>2, <3>3
    <3> QED
      BY <2>1, <2>2, <3>2, <3>3, <3>4, <3>5, <3>6
  <2>10. CASE DrainEof(q)
    <3>1. dpc[q] = "conn" /\ d = c /\ m = n /\ owes_eos'[q] = owes_eos[q]
      BY <2>4, <2>10 DEF DrainEof, c, d
    <3>2. CASE ~carried[q] /\ dpc'[q] = "accept"
               /\ metrics' = [metrics EXCEPT !.empty_connections = @ + 1]
      <4>1. f = e + 1
        BY <1>0, <2>1, <3>2 DEF Metrics
      <4> QED
        BY <2>1, <2>2, <3>1, <3>2, <4>1
    <3>3. CASE dpc'[q] = "closing" /\ metrics' = metrics
      BY <2>1, <2>2, <2>6, <3>1, <3>3
    <3> QED
      BY <1>0, <2>10, <3>2, <3>3 DEF DrainEof
  <2>11. CASE DrainStop(q)
    <3>1. dpc[q] \in {"accept", "conn"} /\ d = c /\ m = n /\ f = e
      BY <2>4, <2>6, <2>11 DEF DrainStop, c, d
    <3>2. dpc'[q] = (IF owes_eos[q] THEN "exiting" ELSE "done")
      BY <1>0, <2>11 DEF DrainStop
    <3> QED
      BY <2>1, <2>2, <3>1, <3>2
  <2>12. CASE DrainEos(q)
    <3>1. dpc[q] \in {"closing", "exiting"} /\ d = c /\ f = e
      BY <2>6, <2>12 DEF DrainEos, c, d
    <3>2. m = n \/ m = n + 1
      BY <1>0, <2>4, <2>5, <2>12 DEF DrainEos
    <3>3. /\ dpc'[q] = (IF dpc[q] = "closing" THEN "accept" ELSE "done")
          /\ dpc[q] = "closing" => ~owes_eos'[q]
      BY <1>0, <2>12 DEF DrainEos
    <3> QED
      BY <2>1, <2>2, <3>1, <3>2, <3>3
  <2> QED
    BY <2>7, <2>8, <2>9, <2>10, <2>11, <2>12 DEF DrainNext
<1> QED
  BY <1>4, <1>5, <1>6 DEF EosInv

(* No step breaks the bounds.                                                  *)
LEMMA EosStep == IInv /\ HandForm /\ EosInv /\ [Next]_vars => EosInv'
BY EosBySender, EosByDrain DEF Next

(* The bounds hold, and no heartbeat follows an EOS, in every state.           *)
THEOREM EosBounded == Spec => [](BeatInv /\ NoHeartbeatAfterEos /\ EosInv)
<1>1. Init => BeatInv /\ NoHeartbeatAfterEos /\ EosInv
  BY EosInit
<1>2. IInv /\ FrameInv /\ BeatInv /\ NoHeartbeatAfterEos /\ EosInv /\ [Next]_vars
        => BeatInv' /\ NoHeartbeatAfterEos' /\ EosInv'
  BY BeatStep, NoHeartbeatStep, EosStep DEF FrameInv
<1> QED
  BY <1>1, <1>2, Invariance, FramesInOrder, PTL DEF Spec

(* A link is given one EOS for a connection that carried data, or the one the  *)
(* stop forces, none for an empty connection, and no heartbeat behind one.     *)
THEOREM EosWellPlaced == Spec => []EosPlaced
<1>1. IInv /\ EosInv => EosPerConnection
  <2> SUFFICES ASSUME IInv, EosInv, NEW r \in Runs, NEW l \in Links
               PROVE  LET eos == Cardinality({i \in DOMAIN wire[r][l] : wire[r][l][i].msg = Eos})
                      IN  /\ eos <= 1 \/ eos <= conns[r]
                          /\ r = run => eos + metrics.empty_connections <= conns[r] + 1
    BY DEF EosPerConnection
  <2> DEFINE eos == Cardinality(EosIn(wire[r][l]))
             n == EosCount(r, l)
             e == Empty(r)
             c == conns[r]
  <2>1. eos \in Nat /\ n \in Nat /\ e \in Nat /\ c \in Nat /\ eos <= n
    BY EosTypes DEF EosCount
  <2>2. /\ dpc[r] = "off" => n = 0 /\ c = 0
        /\ dpc[r] = "accept" => n + e <= c
        /\ dpc[r] \in {"conn", "frames", "closing"} => n + e + 1 <= c
        /\ dpc[r] = "exiting" => n + e <= c /\ (n = 0 \/ n + 1 <= c)
        /\ dpc[r] = "done" => n + e <= c + 1 /\ (n <= 1 \/ n <= c)
    BY DEF EosInv, EosBound
  <2>3. dpc[r] \in DrainStates
    BY DEF IInv, TypeOK, DrainTypeOK
  <2>4. eos <= 1 \/ eos <= c
    <3> HIDE DEF eos, n, e, c
    <3> QED
      BY <2>1, <2>2, <2>3 DEF DrainStates
  <2>5. r = run => eos + e <= c + 1
    <3>1. dpc[r] # "off" => n + e <= c + 1
      <4> HIDE DEF eos, n, e, c
      <4> QED
        BY <2>1, <2>2, <2>3 DEF DrainStates
    <3>2. r = run => dpc[r] # "off"
      BY DEF EosInv, OneDrain
    <3> HIDE DEF eos, n, e, c
    <3> QED
      BY <2>1, <3>1, <3>2
  <2>6. r = run => e = metrics.empty_connections
    BY DEF Empty
  <2> HIDE DEF n, e
  <2> QED
    BY <2>4, <2>5, <2>6 DEF EosIn
<1> QED
  BY <1>1, Invariance, EosBounded, PTL DEF EosPlaced

-----------------------------------------------------------------------------
(* A receiver that is Reset between a Stop and the next Arm, as the controller *)
(* does: Reset leaves no sender thread behind, the counters of the current run *)
(* are exact, and an overload stays reported until Reset.                      *)

SendersEnded == \A r \in Runs : spc[r] \in {"off", "done"}

(* Only the current run may have a sender thread, and Reset knows it.          *)
OneSender ==
  \A r \in Runs : spc[r] \in {"off", "done"} \/ (r = run /\ sender_handle = run)

(* An Idle or an Armed receiver has none.                                      *)
NoneBetweenRuns == state \in {"Idle", "Armed"} => ~rearm /\ SendersEnded

(* A drain task ends only when its run was told to stop, and a run whose       *)
(* sender lives is told so only by Stop, or by a Reset that waits for the      *)
(* sender.  (Configure takes a Running receiver to Configured and stops        *)
(* nothing, so Configured says nothing about the threads.)                     *)
StopSignals ==
  /\ run_stop <= run
  /\ \A r \in Runs :
       /\ r > run => ~stop[r]
       /\ dpc[r] \in {"exiting", "done"} => stop[r]
       /\ hpc = "ready" /\ ~rearm /\ stop[r] => spc[r] \in {"off", "done"}

ThreadInv == OneSender /\ NoneBetweenRuns /\ StopSignals

(* The places of the messages of a link that ended with outcome o.             *)
Ended(w, o) == {i \in DOMAIN w : w[i].outcome = o}

Tried(r, o) == Cardinality(Ended(wire[r][1], o)) + Cardinality(Ended(wire[r][2], o))

(* A run that was not started has done nothing.                                *)
Untouched ==
  \A r \in Runs : r > run =>
    cut[r] = 0 /\ accepted[r] = {} /\ \A l \in Links : wire[r][l] = << >>

AcceptedWereCut == \A r \in Runs : accepted[r] \subseteq 1 .. cut[r]

Counted ==
  \A r \in Runs : r = run =>
    /\ metrics.overflow_frames = cut[r] - Cardinality(accepted[r])
    /\ metrics.send_errors = Tried(r, "failed")
    /\ metrics.messages_abandoned = Tried(r, "abandoned")

Latch ==
  state \in {"Running", "Error"} /\ hpc = "ready" /\ metrics.overflow_frames > 0
    => metrics.overflowed

CountInv == Untouched /\ AcceptedWereCut /\ Counted /\ Latch

-------------------------------------------------------------------------------
(* One more message ends with one more outcome.                                *)
LEMMA EndedAppend ==
  ASSUME NEW S, NEW w \in Seq(S), NEW x, NEW o
  PROVE  /\ Cardinality(Ended(w, o)) \in Nat
         /\ Cardinality(Ended(Append(w, x), o)) =
              Cardinality(Ended(w, o)) + (IF x.outcome = o THEN 1 ELSE 0)
<1> DEFINE t == Append(w, x)
           n == Len(w)
<1>1. /\ n \in Nat /\ DOMAIN w = 1 .. n /\ DOMAIN t = 1 .. n + 1
      /\ \A i \in 1 .. n : t[i] = w[i]
      /\ t[n + 1] = x
  BY AppendShape
<1> HIDE DEF t, n
<1>2. Ended(w, o) \subseteq 1 .. n /\ IsFiniteSet(1 .. n)
  BY <1>1, FS_Interval DEF Ended
<1>3. IsFiniteSet(Ended(w, o)) /\ Cardinality(Ended(w, o)) \in Nat
  BY <1>2, FS_Subset, FS_CardinalityType
<1>4. Ended(t, o) = (IF x.outcome = o THEN Ended(w, o) \cup {n + 1} ELSE Ended(w, o))
  BY <1>1 DEF Ended
<1>5. n + 1 \notin Ended(w, o)
  BY <1>1, <1>2
<1>6. CASE x.outcome = o
  BY <1>3, <1>4, <1>5, <1>6, FS_AddElement DEF t
<1>7. CASE x.outcome # o
  BY <1>3, <1>4, <1>7 DEF t
<1> QED
  BY <1>6, <1>7, <1>3

(* A receiver that has just started has no thread.                             *)
LEMMA ThreadInit == Init => ThreadInv
<1> SUFFICES ASSUME Init PROVE ThreadInv
  OBVIOUS
<1>1. OneSender /\ NoneBetweenRuns
  BY Zenon DEF Init, OneSender, NoneBetweenRuns, SendersEnded
<1>2. StopSignals
  BY DEF Init, StopSignals
<1> QED
  BY <1>1, <1>2 DEF ThreadInv

(* With Reset in front of every new Arm, the handler keeps one sender thread   *)
(* alive at a time: Arm finds none, because it needs the last drain task gone. *)
LEMMA ThreadsByHandler ==
  ASSUME ~AllowRearm, IInv, OneDrain, ThreadInv, HandlerNext
  PROVE  ThreadInv'
<1>0. /\ spc \in [Runs -> SenderStates] /\ dpc \in [Runs -> DrainStates]
      /\ run \in Nat /\ run_stop \in Nat
  BY DEF IInv, TypeOK, SenderTypeOK, DrainTypeOK, HandlerTypeOK
<1>1. CASE OnlyLatch \/ Configure \/ StartLosesListener
  <2>1. UNCHANGED <<run, hpc, rearm, run_stop, stop, sender_handle, spc, dpc>>
    BY <1>1 DEF OnlyLatch, Configure, StartLosesListener, taskVars, senderVars, drainVars
  <2>2. state' \in {"Idle", "Armed"} => state' = state
    BY <1>1 DEF OnlyLatch, Configure, StartLosesListener, Latched
  <2> QED
    BY <2>1, <2>2 DEF ThreadInv, OneSender, NoneBetweenRuns, StopSignals, SendersEnded
<1>2. CASE Arm
  <2>1. /\ UNCHANGED <<run, hpc, rearm, run_stop, stop, sender_handle, spc, dpc>>
        /\ ~rearm /\ hpc = "ready" /\ \A r \in Runs : dpc[r] \in {"off", "done"}
    BY <1>2 DEF Arm, HandlerAccepts, taskVars, senderVars, drainVars
  <2>2. SendersEnded
    <3> SUFFICES ASSUME NEW r \in Runs, spc[r] \notin {"off", "done"} PROVE FALSE
      BY DEF SendersEnded
    <3>1. r = run
      BY DEF ThreadInv, OneSender
    <3>2. dpc[r] = "done"
      BY <2>1, <3>1 DEF OneDrain
    <3> QED
      BY <2>1, <3>2 DEF ThreadInv, StopSignals
  <2> QED
    BY <2>1, <2>2 DEF ThreadInv, OneSender, NoneBetweenRuns, StopSignals, SendersEnded
<1>3. CASE Start
  <2>1. state = "Armed"
    BY <1>3 DEF Start, Latched, HandlerAccepts, Accepts, TargetState, CanTransition,
      LegalTransitions
  <2>2. SendersEnded
    BY <2>1 DEF ThreadInv, NoneBetweenRuns
  <2>3. /\ run' = run + 1 /\ sender_handle' = run + 1 /\ state' = "Running"
        /\ run_stop' = run + 1 /\ UNCHANGED <<hpc, rearm, stop>>
        /\ spc' = [spc EXCEPT ![run + 1] = "top"]
        /\ dpc' = [dpc EXCEPT ![run + 1] = "accept"]
    BY <1>3, Zenon DEF Start
  <2>4. OneSender' /\ NoneBetweenRuns'
    BY <1>0, <2>2, <2>3 DEF OneSender, NoneBetweenRuns, SendersEnded
  <2>5. StopSignals'
    <3>1. run + 1 \in Runs => ~stop[run + 1]
      BY <1>0 DEF ThreadInv, StopSignals
    <3>2. ASSUME NEW r \in Runs, r # run + 1
          PROVE  spc'[r] = spc[r] /\ dpc'[r] = dpc[r] /\ (r > run + 1 => r > run)
      BY <1>0, <2>3, <3>2 DEF Runs
    <3>3. run + 1 \in Runs => dpc'[run + 1] = "accept"
      BY <1>0, <2>3
    <3> QED
      BY <1>0, <2>3, <3>1, <3>2, <3>3 DEF ThreadInv, StopSignals, Runs
  <2> QED
    BY <2>4, <2>5 DEF ThreadInv
<1>4. CASE Stop \/ Reset
  <2>1. /\ UNCHANGED <<run, sender_handle, spc, dpc>> /\ run_stop' = 0
        /\ stop' = [r \in Runs |-> stop[r] \/ r = run_stop]
    BY <1>4, Zenon DEF Stop, Reset, SignalStop, taskVars, senderVars, drainVars
  <2>2. rearm' \/ hpc' = "joining"
    BY <1>4, Zenon DEF Stop, Reset
  <2>3. state' \in {"Idle", "Armed"} => state' = state /\ rearm' = rearm
    BY <1>4 DEF Stop, Reset, Latched
  <2>4. OneSender' /\ NoneBetweenRuns'
    BY <2>1, <2>3 DEF ThreadInv, OneSender, NoneBetweenRuns, SendersEnded
  <2>5. \A r \in Runs : stop'[r] <=> stop[r] \/ r = run_stop
    BY <2>1, Zenon
  <2>6. StopSignals'
    BY <1>0, <2>1, <2>2, <2>5 DEF ThreadInv, StopSignals, Runs
  <2> QED
    BY <2>4, <2>6 DEF ThreadInv
<1>5. CASE ResetJoined
  <2>1. /\ UNCHANGED <<run, run_stop, stop, spc, dpc>> /\ rearm' = FALSE
        /\ (sender_handle # 0 => spc[sender_handle] = "done")
    BY <1>5, Zenon DEF ResetJoined, taskVars, senderVars, drainVars
  <2>2. SendersEnded
    <3> SUFFICES ASSUME NEW r \in Runs, spc[r] \notin {"off", "done"} PROVE FALSE
      BY DEF SendersEnded
    <3>1. r = run /\ sender_handle = run
      BY DEF ThreadInv, OneSender
    <3>2. r # 0
      BY ReceiverAssumption DEF Runs
    <3> QED
      BY <2>1, <3>1, <3>2
  <2> QED
    BY <2>1, <2>2 DEF ThreadInv, OneSender, NoneBetweenRuns, StopSignals, SendersEnded
<1> QED
  BY <1>1, <1>2, <1>3, <1>4, <1>5 DEF HandlerNext

(* A drain task or a sender thread that takes a step belongs to the current    *)
(* run, and starts no other.                                                   *)
LEMMA ThreadsByTasks ==
  ASSUME IInv, ThreadInv, NEW q \in Runs, DrainNext(q) \/ SenderNext(q)
  PROVE  ThreadInv'
<1>0. spc \in [Runs -> SenderStates] /\ dpc \in [Runs -> DrainStates]
  BY DEF IInv, TypeOK, SenderTypeOK, DrainTypeOK
<1>1. CASE DrainNext(q)
  <2>1. UNCHANGED <<handlerVars, senderVars, stop>>
    BY <1>1 DEF DrainNext, DrainAccept, DrainRead, DrainFrame, DrainEof, DrainStop, DrainEos
  <2>2. \A r \in Runs : dpc'[r] \in {"exiting", "done"} => dpc[r] \in {"exiting", "done"} \/ stop[r]
    BY <1>0, <1>1 DEF DrainNext, DrainAccept, DrainRead, DrainFrame, DrainEof, DrainStop, DrainEos
  <2> QED
    BY <2>1, <2>2 DEF ThreadInv, OneSender, NoneBetweenRuns, StopSignals, SendersEnded,
      handlerVars, senderVars
<1>2. CASE SenderNext(q)
  <2>1. UNCHANGED <<handlerVars, drainVars, stop>>
    BY <1>2 DEF SenderNext, SenderTop, SenderFrame, SenderEos, SenderDeadline,
      SenderHeartbeat, SenderPoll, SenderDisconnected, SendSent, SendFailed,
      SendAbandoned, SendEnds
  <2>2. spc[q] \notin {"off", "done"}
    BY <1>2 DEF SenderNext, SenderTop, SenderFrame, SenderEos, SenderDeadline,
      SenderHeartbeat, SenderPoll, SenderDisconnected, SendSent, SendFailed,
      SendAbandoned, SendEnds, Timeout
  <2>3. \A r \in Runs \ {q} : spc'[r] = spc[r]
    <3>1. CASE SenderFrame(q) \/ SenderEos(q) \/ SenderDeadline(q) \/ SenderHeartbeat(q)
               \/ SenderDisconnected(q)
      BY <1>0, <3>1 DEF SenderFrame, SenderEos, SenderDeadline, SenderHeartbeat,
        SenderDisconnected, FlushThen
    <3>2. CASE SenderTop(q) \/ SenderPoll(q)
      BY <1>0, <3>2 DEF SenderTop, SenderPoll
    <3>3. CASE SendSent(q) \/ SendFailed(q) \/ SendAbandoned(q)
      BY <1>0, <3>3 DEF SendSent, SendFailed, SendAbandoned, SendEnds
    <3> QED
      BY <1>2, <3>1, <3>2, <3>3 DEF SenderNext
  <2> QED
    BY <2>1, <2>2, <2>3 DEF ThreadInv, OneSender, NoneBetweenRuns, StopSignals, SendersEnded,
      handlerVars, drainVars
<1> QED
  BY <1>1, <1>2

(* No step breaks it.                                                          *)
LEMMA ThreadStep ==
  ASSUME ~AllowRearm, IInv, OneDrain, ThreadInv, [Next]_vars
  PROVE  ThreadInv'
<1>1. CASE UNCHANGED vars
  BY <1>1 DEF vars, handlerVars, senderVars, drainVars, ThreadInv, OneSender,
    NoneBetweenRuns, StopSignals, SendersEnded
<1> QED
  BY <1>1, ThreadsByHandler, ThreadsByTasks DEF Next

(* The threads of a receiver that is Reset between a Stop and the next Arm.    *)
THEOREM ThreadsAreKnown == ~AllowRearm => (Spec => []ThreadInv)
<1> SUFFICES ASSUME ~AllowRearm PROVE Spec => []ThreadInv
  OBVIOUS
<1>1. Init => ThreadInv
  BY ThreadInit
<1>2. IInv /\ EosInv /\ ThreadInv /\ [Next]_vars => ThreadInv'
  BY ThreadStep DEF EosInv
<1> QED
  BY <1>1, <1>2, Invariance, EosBounded, PTL DEF Spec

(* Reset leaves no thread behind, if every new Arm follows a Reset: an Idle    *)
(* receiver has no sender thread (do_reset, join_sender).                      *)
THEOREM ResetLeavesNoThread == ~AllowRearm => (Spec => []NoThreadLeak)
<1>1. ThreadInv => NoThreadLeak
  BY DEF ThreadInv, NoneBetweenRuns, SendersEnded, NoThreadLeak
<1> QED
  BY <1>1, ThreadsAreKnown, PTL

-------------------------------------------------------------------------------
(* The counts of a run are those of a link's messages.                         *)
LEMMA CountTypes ==
  ASSUME IInv, CountInv, NEW r \in Runs
  PROVE  /\ cut[r] \in Nat /\ IsFiniteSet(accepted[r]) /\ Cardinality(accepted[r]) \in Nat
         /\ cut[r] + 1 \notin accepted[r]
         /\ Cardinality(accepted[r]) <= cut[r]
<1>1. cut[r] \in Nat
  BY StreamTypes
<1>2. accepted[r] \subseteq 1 .. cut[r]
  BY DEF CountInv, AcceptedWereCut
<1>3. IsFiniteSet(1 .. cut[r]) /\ Cardinality(1 .. cut[r]) = cut[r]
  BY <1>1, FS_Interval
<1>4. IsFiniteSet(accepted[r]) /\ Cardinality(accepted[r]) <= Cardinality(1 .. cut[r])
  BY <1>2, <1>3, FS_Subset
<1>5. cut[r] + 1 \notin accepted[r]
  BY <1>1, <1>2
<1> QED
  BY <1>1, <1>3, <1>4, <1>5, FS_CardinalityType

(* Nothing is counted before the first run.                                    *)
LEMMA CountInit == Init => CountInv
<1> SUFFICES ASSUME Init PROVE CountInv
  OBVIOUS
<1>1. Untouched /\ AcceptedWereCut
  BY DEF Init, Untouched, AcceptedWereCut
<1>2. Counted
  BY DEF Init, Counted, Runs
<1>3. Latch
  BY DEF Init, Latch
<1> QED
  BY <1>1, <1>2, <1>3 DEF CountInv

(* The handler only clears the counters with Start, and the latch with Reset.  *)
LEMMA CountByHandler ==
  ASSUME IInv, CountInv, HandlerNext \/ UNCHANGED vars
  PROVE  CountInv'
<1>0. metrics \in Metrics /\ run \in Nat
  BY DEF IInv, TypeOK, HandlerTypeOK
<1>1. UNCHANGED <<cut, accepted, wire>>
  <2>1. CASE Start
    BY <2>1 DEF Start
  <2>2. CASE OnlyLatch \/ Configure \/ Arm \/ StartLosesListener \/ Stop \/ Reset \/ ResetJoined
    BY <2>2 DEF OnlyLatch, Configure, Arm, StartLosesListener, Stop, Reset, ResetJoined,
      taskVars, drainVars
  <2>3. CASE UNCHANGED vars
    BY <2>3 DEF vars, drainVars
  <2> QED
    BY <2>1, <2>2, <2>3 DEF HandlerNext
<1>2. AcceptedWereCut'
  BY <1>1 DEF CountInv, AcceptedWereCut
<1>3. CASE Start
  <2>1. run' = run + 1 /\ metrics' = ZeroMetrics
    BY <1>3, Zenon DEF Start
  <2>2. Untouched'
    BY <1>0, <1>1, <2>1 DEF CountInv, Untouched, Runs
  <2>3. Counted'
    <3> SUFFICES ASSUME NEW r \in Runs, r = run + 1
                 PROVE  /\ metrics'.overflow_frames = cut'[r] - Cardinality(accepted'[r])
                        /\ metrics'.send_errors = Tried(r, "failed")'
                        /\ metrics'.messages_abandoned = Tried(r, "abandoned")'
      BY <2>1 DEF Counted
    <3>1. cut[r] = 0 /\ accepted[r] = {} /\ wire[r][1] = << >> /\ wire[r][2] = << >>
      BY <1>0 DEF CountInv, Untouched, Links
    <3>2. Cardinality({}) = 0
      BY FS_EmptySet
    <3>3. \A o : Ended(<< >>, o) = {}
      BY DEF Ended
    <3>4. ASSUME NEW o PROVE Tried(r, o)' = 0
      <4>1. wire'[r][1] = << >> /\ wire'[r][2] = << >>
        BY <1>1, <3>1
      <4>2. Cardinality(Ended(<< >>, o)) = 0
        BY <3>2, <3>3
      <4> QED
        BY <4>1, <4>2 DEF Tried
    <3>5. cut'[r] - Cardinality(accepted'[r]) = 0
      BY <1>1, <3>1, <3>2
    <3> QED
      BY <2>1, <3>4, <3>5 DEF ZeroMetrics
  <2>4. Latch'
    BY <2>1 DEF Latch, ZeroMetrics
  <2> QED
    BY <1>2, <2>2, <2>3, <2>4 DEF CountInv
<1>4. CASE OnlyLatch \/ Configure \/ Arm \/ StartLosesListener \/ Stop \/ Reset \/ ResetJoined
           \/ UNCHANGED vars
  <2>1. run' = run
    BY <1>4 DEF OnlyLatch, Configure, Arm, StartLosesListener, Stop, Reset, ResetJoined,
      vars, handlerVars
  <2>2. /\ metrics'.overflow_frames = metrics.overflow_frames
        /\ metrics'.send_errors = metrics.send_errors
        /\ metrics'.messages_abandoned = metrics.messages_abandoned
    <3>1. metrics' = metrics \/ metrics' = [metrics EXCEPT !.overflowed = FALSE]
      BY <1>4 DEF OnlyLatch, Configure, Arm, StartLosesListener, Stop, Reset, ResetJoined, vars
    <3> QED
      BY <1>0, <3>1 DEF Metrics
  <2>3. Untouched' /\ Counted'
    BY <1>1, <2>1, <2>2 DEF CountInv, Untouched, Counted, Tried
  <2>4. Latch'
    <3>1. CASE ResetJoined
      BY <3>1 DEF ResetJoined, Latch
    <3>2. CASE Reset
      BY <3>2 DEF Reset, Latch
    <3>3. CASE OnlyLatch \/ Configure \/ Arm \/ StartLosesListener \/ Stop \/ UNCHANGED vars
      <4>1. UNCHANGED <<metrics, hpc>>
        BY <3>3 DEF OnlyLatch, Configure, Arm, StartLosesListener, Stop, vars, handlerVars
      <4>2. state' \in {"Running", "Error"} =>
              state' = state \/ (state' = "Error" /\ metrics.overflowed)
        BY <3>3 DEF OnlyLatch, Configure, Arm, StartLosesListener, Stop, vars, handlerVars, Latched
      <4> QED
        BY <4>1, <4>2 DEF CountInv, Latch
    <3> QED
      BY <1>4, <3>1, <3>2, <3>3
  <2> QED
    BY <1>2, <2>3, <2>4 DEF CountInv
<1> QED
  BY <1>3, <1>4 DEF HandlerNext

(* A drain task counts a frame it cuts once: as accepted, or as overflowed.    *)
LEMMA CountByDrain ==
  ASSUME IInv, OneDrain, CountInv, NEW q \in Runs, DrainNext(q)
  PROVE  CountInv'
<1>0. metrics \in Metrics /\ run \in Nat
      /\ cut \in [Runs -> 0 .. MaxFrames] /\ accepted \in [Runs -> SUBSET Frames]
  BY DEF IInv, TypeOK, HandlerTypeOK, DrainTypeOK
<1>1. UNCHANGED <<handlerVars, wire>>
  BY DEF DrainNext, DrainAccept, DrainRead, DrainFrame, DrainEof, DrainStop, DrainEos
<1>2. q = run /\ run' = run /\ state' = state /\ hpc' = hpc
  <2>1. dpc[q] \notin {"off", "done"}
    BY DEF DrainNext, DrainAccept, DrainRead, DrainFrame, DrainEof, DrainStop, DrainEos
  <2> QED
    BY <1>1, <2>1 DEF OneDrain, handlerVars
<1>3. \A r \in Runs \ {q} : cut'[r] = cut[r] /\ accepted'[r] = accepted[r]
  BY <1>0 DEF DrainNext, DrainAccept, DrainRead, DrainFrame, DrainEof, DrainStop, DrainEos
<1>4. Untouched'
  BY <1>0, <1>1, <1>2, <1>3 DEF CountInv, Untouched, Runs
<1>5. \A o : Tried(q, o)' = Tried(q, o)
  BY <1>1 DEF Tried
<1>6. /\ cut[q] \in Nat /\ IsFiniteSet(accepted[q]) /\ Cardinality(accepted[q]) \in Nat
      /\ cut[q] + 1 \notin accepted[q] /\ Cardinality(accepted[q]) <= cut[q]
  BY CountTypes
<1>7. /\ metrics.overflow_frames = cut[q] - Cardinality(accepted[q])
      /\ metrics.send_errors = Tried(q, "failed")
      /\ metrics.messages_abandoned = Tried(q, "abandoned")
      /\ accepted[q] \subseteq 1 .. cut[q]
  BY <1>2 DEF CountInv, Counted, AcceptedWereCut
<1>8. SUFFICES /\ accepted'[q] \subseteq 1 .. cut'[q]
               /\ metrics'.overflow_frames = cut'[q] - Cardinality(accepted'[q])
               /\ metrics'.send_errors = metrics.send_errors
               /\ metrics'.messages_abandoned = metrics.messages_abandoned
               /\ Latch'
  <2>1. AcceptedWereCut'
    BY <1>3, <1>8 DEF CountInv, AcceptedWereCut
  <2>2. Counted'
    BY <1>2, <1>5, <1>7, <1>8 DEF Counted
  <2> QED
    BY <1>4, <1>8, <2>1, <2>2 DEF CountInv
<1>9. CASE DrainFrame(q) /\ Refuses(q)
           /\ metrics' = [metrics EXCEPT !.overflow_frames = @ + 1, !.overflowed = TRUE]
           /\ UNCHANGED accepted
  <2>1. cut'[q] = cut[q] + 1 /\ accepted'[q] = accepted[q]
    BY <1>0, <1>9 DEF DrainFrame
  <2>2. /\ metrics'.overflow_frames = metrics.overflow_frames + 1
        /\ metrics'.send_errors = metrics.send_errors
        /\ metrics'.messages_abandoned = metrics.messages_abandoned
    BY <1>0, <1>9 DEF Metrics
  <2>3. metrics'.overflowed
    BY <1>0, <1>9, Zenon DEF Metrics
  <2>4. accepted'[q] \subseteq 1 .. cut'[q]
    BY <1>6, <1>7, <2>1
  <2> QED
    BY <1>6, <1>7, <2>1, <2>2, <2>3, <2>4 DEF Latch
<1>10. CASE DrainFrame(q) /\ UNCHANGED metrics
            /\ accepted' = [accepted EXCEPT ![q] = @ \cup {cut[q] + 1}]
  <2>1. cut'[q] = cut[q] + 1 /\ accepted'[q] = accepted[q] \cup {cut[q] + 1}
    BY <1>0, <1>10 DEF DrainFrame
  <2>2. Cardinality(accepted'[q]) = Cardinality(accepted[q]) + 1
    BY <1>6, <2>1, FS_AddElement, ZenonT(30)
  <2>3. accepted'[q] \subseteq 1 .. cut'[q]
    BY <1>6, <1>7, <2>1
  <2>4. Latch'
    BY <1>2, <1>10 DEF CountInv, Latch
  <2>5. metrics' = metrics
    BY <1>10
  <2> QED
    BY <1>6, <1>7, <2>1, <2>2, <2>3, <2>4, <2>5
<1>11. CASE UNCHANGED <<cut, accepted>>
            /\ (metrics' = metrics \/ metrics' = [metrics EXCEPT !.empty_connections = @ + 1])
  <2>1. /\ metrics'.overflow_frames = metrics.overflow_frames
        /\ metrics'.send_errors = metrics.send_errors
        /\ metrics'.messages_abandoned = metrics.messages_abandoned
    BY <1>0, <1>11 DEF Metrics
  <2>2. metrics'.overflowed = metrics.overflowed
    BY <1>0, <1>11, Zenon DEF Metrics
  <2>3. Latch'
    BY <1>2, <2>1, <2>2 DEF CountInv, Latch
  <2> QED
    BY <1>7, <1>11, <2>1, <2>3
<1>12. CASE DrainFrame(q)
  BY <1>9, <1>10, <1>12 DEF DrainFrame
<1>13. CASE DrainAccept(q) \/ DrainRead(q) \/ DrainEof(q) \/ DrainStop(q) \/ DrainEos(q)
  BY <1>11, <1>13 DEF DrainAccept, DrainRead, DrainEof, DrainStop, DrainEos
<1> QED
  BY <1>12, <1>13 DEF DrainNext

(* A sender thread counts every message it could not send.                     *)
LEMMA CountBySender ==
  ASSUME IInv, OneSender, CountInv, NEW q \in Runs, SenderNext(q)
  PROVE  CountInv'
<1>0. /\ metrics \in Metrics /\ run \in Nat /\ at[q] \in {1, 2}
      /\ wire \in [Runs -> [Links -> Seq([msg : Message, outcome : Outcomes])]]
  <2>1. metrics \in Metrics /\ run \in Nat
    BY DEF IInv, TypeOK, HandlerTypeOK
  <2>2. wire \in [Runs -> [Links -> Seq([msg : Message, outcome : Outcomes])]]
    BY DEF IInv, TypeOK, WireTypeOK
  <2> QED
    BY <2>1, <2>2, StreamTypes
<1>1. UNCHANGED <<handlerVars, drainVars, accepted>>
  BY DEF SenderNext, SenderTop, SenderFrame, SenderEos, SenderDeadline,
    SenderHeartbeat, SenderPoll, SenderDisconnected, SendSent, SendFailed,
    SendAbandoned, SendEnds
<1>2. q = run /\ run' = run /\ state' = state /\ hpc' = hpc /\ cut' = cut /\ accepted' = accepted
  <2>1. spc[q] \notin {"off", "done"}
    BY DEF SenderNext, SenderTop, SenderFrame, SenderEos, SenderDeadline,
      SenderHeartbeat, SenderPoll, SenderDisconnected, SendSent, SendFailed,
      SendAbandoned, SendEnds, Timeout
  <2> QED
    BY <1>1, <2>1 DEF OneSender, handlerVars, drainVars
<1>3. /\ metrics.overflow_frames = cut[q] - Cardinality(accepted[q])
      /\ metrics.send_errors = Tried(q, "failed")
      /\ metrics.messages_abandoned = Tried(q, "abandoned")
  BY <1>2 DEF CountInv, Counted
<1>4. SUFFICES /\ \A r \in Runs \ {q} : wire'[r] = wire[r]
               /\ metrics'.overflow_frames = metrics.overflow_frames
               /\ metrics'.overflowed = metrics.overflowed
               /\ metrics'.send_errors = Tried(q, "failed")'
               /\ metrics'.messages_abandoned = Tried(q, "abandoned")'
  <2>1. Untouched' /\ AcceptedWereCut'
    BY <1>0, <1>2, <1>4 DEF CountInv, Untouched, AcceptedWereCut, Runs
  <2>2. Counted'
    BY <1>2, <1>3, <1>4 DEF Counted
  <2>3. Latch'
    BY <1>2, <1>4 DEF CountInv, Latch
  <2> QED
    BY <2>1, <2>2, <2>3 DEF CountInv
<1>5. CASE UNCHANGED <<metrics, wire>>
  BY <1>3, <1>5 DEF Tried
<1>6. ASSUME NEW o \in Outcomes, SendEnds(q, o)
      PROVE  /\ \A r \in Runs \ {q} : wire'[r] = wire[r]
             /\ \A p \in Outcomes :
                  /\ Tried(q, p) \in Nat
                  /\ Tried(q, p)' = Tried(q, p) + (IF o = p THEN 1 ELSE 0)
  <2> DEFINE x == [msg |-> Head(out[q]), outcome |-> o]
  <2>1. wire' = [wire EXCEPT ![q][at[q]] = Append(@, x)]
    BY <1>6, Zenon DEF SendEnds
  <2>2. /\ wire'[q][at[q]] = Append(wire[q][at[q]], x)
        /\ \A l \in Links : l # at[q] => wire'[q][l] = wire[q][l]
        /\ \A r \in Runs \ {q} : wire'[r] = wire[r]
    <3> HIDE DEF x
    <3> QED
      BY <1>0, <2>1 DEF Links
  <2>3. /\ wire[q][1] \in Seq([msg : Message, outcome : Outcomes])
        /\ wire[q][2] \in Seq([msg : Message, outcome : Outcomes])
    BY <1>0 DEF Links
  <2>4. ASSUME NEW p \in Outcomes
        PROVE  /\ Tried(q, p) \in Nat
               /\ Tried(q, p)' = Tried(q, p) + (IF o = p THEN 1 ELSE 0)
    <3> DEFINE a == Cardinality(Ended(wire[q][1], p))
               b == Cardinality(Ended(wire[q][2], p))
               c == Cardinality(Ended(wire'[q][1], p))
               d == Cardinality(Ended(wire'[q][2], p))
               i == IF o = p THEN 1 ELSE 0
    <3>1. a \in Nat /\ b \in Nat
      BY <2>3, EndedAppend
    <3>2. x.outcome = o
      OBVIOUS
    <3> HIDE DEF x
    <3>3. CASE at[q] = 1
      <4>1. wire'[q][1] = Append(wire[q][1], x) /\ wire'[q][2] = wire[q][2]
        BY <2>2, <3>3 DEF Links
      <4>2. Cardinality(Ended(Append(wire[q][1], x), p)) = a + i
        BY <2>3, <3>2, EndedAppend
      <4>3. c = a + i /\ d = b
        BY <4>1, <4>2
      <4> HIDE DEF a, b, c, d
      <4>4. Tried(q, p) = a + b /\ Tried(q, p)' = c + d
        BY DEF Tried, a, b, c, d
      <4> QED
        BY <3>1, <4>3, <4>4
    <3>4. CASE at[q] = 2
      <4>1. wire'[q][2] = Append(wire[q][2], x) /\ wire'[q][1] = wire[q][1]
        BY <2>2, <3>4 DEF Links
      <4>2. Cardinality(Ended(Append(wire[q][2], x), p)) = b + i
        BY <2>3, <3>2, EndedAppend
      <4>3. d = b + i /\ c = a
        BY <4>1, <4>2
      <4> HIDE DEF a, b, c, d
      <4>4. Tried(q, p) = a + b /\ Tried(q, p)' = c + d
        BY DEF Tried, a, b, c, d
      <4> QED
        BY <3>1, <4>3, <4>4
    <3> QED
      BY <1>0, <3>3, <3>4
  <2> QED
    BY <2>2, <2>4
<1>7. CASE SendSent(q)
  <2>1. SendEnds(q, "sent") /\ metrics' = metrics /\ "sent" \in Outcomes
    BY <1>7 DEF SendSent, Outcomes
  <2>2. /\ \A r \in Runs \ {q} : wire'[r] = wire[r]
        /\ Tried(q, "failed")' = Tried(q, "failed")
        /\ Tried(q, "abandoned")' = Tried(q, "abandoned")
    BY <1>6, <2>1 DEF Outcomes
  <2> QED
    BY <1>3, <2>1, <2>2
<1>8. CASE SendFailed(q)
  <2>1. SendEnds(q, "failed") /\ metrics' = [metrics EXCEPT !.send_errors = @ + 1]
    BY <1>8 DEF SendFailed
  <2>2. /\ \A r \in Runs \ {q} : wire'[r] = wire[r]
        /\ Tried(q, "failed")' = Tried(q, "failed") + 1
        /\ Tried(q, "abandoned")' = Tried(q, "abandoned")
    BY <1>6, <2>1 DEF Outcomes
  <2>3. /\ metrics'.overflow_frames = metrics.overflow_frames
        /\ metrics'.send_errors = metrics.send_errors + 1
        /\ metrics'.messages_abandoned = metrics.messages_abandoned
    BY <1>0, <2>1 DEF Metrics
  <2>4. metrics'.overflowed = metrics.overflowed
    BY <1>0, <2>1, Zenon DEF Metrics
  <2> QED
    BY <1>3, <2>2, <2>3, <2>4
<1>9. CASE SendAbandoned(q)
  <2>1. SendEnds(q, "abandoned") /\ metrics' = [metrics EXCEPT !.messages_abandoned = @ + 1]
    BY <1>9 DEF SendAbandoned
  <2>2. /\ \A r \in Runs \ {q} : wire'[r] = wire[r]
        /\ Tried(q, "failed")' = Tried(q, "failed")
        /\ Tried(q, "abandoned")' = Tried(q, "abandoned") + 1
    BY <1>6, <2>1 DEF Outcomes
  <2>3. /\ metrics'.overflow_frames = metrics.overflow_frames
        /\ metrics'.send_errors = metrics.send_errors
        /\ metrics'.messages_abandoned = metrics.messages_abandoned + 1
    BY <1>0, <2>1 DEF Metrics
  <2>4. metrics'.overflowed = metrics.overflowed
    BY <1>0, <2>1, Zenon DEF Metrics
  <2> QED
    BY <1>3, <2>2, <2>3, <2>4
<1>10. CASE SenderTop(q) \/ SenderFrame(q) \/ SenderEos(q) \/ SenderDeadline(q)
            \/ SenderHeartbeat(q) \/ SenderPoll(q) \/ SenderDisconnected(q)
  BY <1>5, <1>10 DEF SenderTop, SenderFrame, SenderEos, SenderDeadline, SenderHeartbeat,
    SenderPoll, SenderDisconnected
<1> QED
  BY <1>7, <1>8, <1>9, <1>10 DEF SenderNext

(* No step breaks the counts.                                                  *)
LEMMA CountStep ==
  ASSUME IInv, OneDrain, OneSender, CountInv, [Next]_vars
  PROVE  CountInv'
BY CountByHandler, CountByDrain, CountBySender DEF Next

(* Every loss is counted and an overload is told, if every new Arm follows a   *)
(* Reset: overflow_frames, send_errors and messages_abandoned are exact for    *)
(* the current run, and the latch stands until Reset (Metrics,                 *)
(* latch_overload).                                                            *)
THEOREM LossesAreReported == ~AllowRearm => (Spec => []LossesReported)
<1> SUFFICES ASSUME ~AllowRearm PROVE Spec => []LossesReported
  OBVIOUS
<1>1. Init => CountInv
  BY CountInit
<1>2. IInv /\ EosInv /\ ThreadInv /\ CountInv /\ [Next]_vars => CountInv'
  BY CountStep DEF EosInv, ThreadInv
<1>3. IInv /\ CountInv => CountersExact
  <2> SUFFICES ASSUME IInv, CountInv, run > 0
               PROVE  /\ metrics.overflow_frames = cut[run] - Cardinality(accepted[run])
                      /\ metrics.send_errors = Tried(run, "failed")
                      /\ metrics.messages_abandoned = Tried(run, "abandoned")
    BY DEF CountersExact, Tried, Ended
  <2>1. run \in Runs
    BY DEF IInv, TypeOK, HandlerTypeOK, Runs
  <2> QED
    BY <2>1 DEF CountInv, Counted
<1>4. IInv /\ CountInv => OverloadReported
  <2> SUFFICES ASSUME IInv, CountInv, run > 0, state \in {"Running", "Error"}, hpc = "ready",
                      cut[run] > Cardinality(accepted[run])
               PROVE  metrics.overflowed
    BY DEF OverloadReported
  <2>1. run \in Runs
    BY DEF IInv, TypeOK, HandlerTypeOK, Runs
  <2>2. /\ cut[run] \in Nat /\ Cardinality(accepted[run]) \in Nat
        /\ metrics.overflow_frames = cut[run] - Cardinality(accepted[run])
    BY <2>1, CountTypes DEF CountInv, Counted
  <2>3. metrics.overflow_frames > 0
    BY <2>2
  <2> QED
    BY <2>3 DEF CountInv, Latch
<1> QED
  BY <1>1, <1>2, <1>3, <1>4, Invariance, EosBounded, ThreadsAreKnown, PTL DEF Spec, LossesReported
===============================================================================
