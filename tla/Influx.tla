-------------------------------- MODULE Influx --------------------------------
(* The InfluxDB writer of slowctl (src/src/slowctl/influx.rs).  The device    *)
(* threads offer the samples of every poll without waiting; one thread        *)
(* buffers them, posts them in batches, keeps a batch that failed and backs   *)
(* off.  A post that failed for slowctl may have been stored all the same.    *)
EXTENDS Integers, Sequences, FiniteSets, SequencesExt

CONSTANTS
  IxQueue,      \* INFLUX_QUEUE, in polls
  IxBatch,      \* BATCH_MAX_POINTS
  IxBufferMax,  \* buffer_max_points
  MaxIxPolls,   \* bound: polls offered
  MaxIxFaults   \* bound: posts that fail

ASSUME InfluxAssumption ==
  /\ IxQueue \in Nat /\ IxBatch \in Nat \ {0} /\ IxBufferMax \in Nat \ {0}
  /\ MaxIxPolls \in Nat /\ MaxIxFaults \in Nat

(* A poll has two samples of one device, node and time: one line.             *)
Samples == 1 .. 2
Point == [poll : 1 .. MaxIxPolls, param : Samples, alarm : BOOLEAN, finite : BOOLEAN]

VARIABLES
  ixQueue,     \* the channel: polls, each a sequence of points
  ixPoints,    \* Buffer.points
  ixPhase,     \* "run", "drain" after the channel closed, "done"
  ixOpen,      \* some sender is alive
  backingOff,  \* now < retry_at
  ixWritten, ixDropped,     \* points_written, points_dropped
  stored,      \* the database: points it holds
  storedAlarm, \* the database: the alarm field of each line
  acked,       \* history: points counted as written, in order
  cut,         \* history: lines a batch, a drop or a buffer limit cut in two
  offered, ixFaults

ixVars == <<ixQueue, ixPoints, ixPhase, ixOpen, backingOff, ixWritten, ixDropped, stored,
            storedAlarm, acked, cut, offered, ixFaults>>

InfluxInit ==
  /\ ixQueue = << >> /\ ixPoints = << >> /\ ixPhase = "run" /\ ixOpen = TRUE
  /\ backingOff = FALSE /\ ixWritten = 0 /\ ixDropped = 0
  /\ stored = {} /\ storedAlarm = [p \in 1 .. MaxIxPolls |-> FALSE]
  /\ acked = << >> /\ cut = {} /\ offered = << >> /\ ixFaults = 0

(* InfluxSink::offer: never waits.  A full channel costs the whole poll.      *)
Offer(points) ==
  /\ offered' = offered \o points
  /\ IF Len(ixQueue) < IxQueue
     THEN ixQueue' = Append(ixQueue, points) /\ UNCHANGED ixDropped
     ELSE ixDropped' = ixDropped + Len(points) /\ UNCHANGED ixQueue
  /\ UNCHANGED <<ixPoints, ixPhase, ixOpen, backingOff, ixWritten, stored, storedAlarm,
                 acked, cut, ixFaults>>

OfferPoll ==
  /\ ixOpen /\ Len(offered) < 2 * MaxIxPolls
  /\ \E alarm, finite \in BOOLEAN :
       Offer([i \in Samples |-> [poll |-> Len(offered) \div 2 + 1, param |-> i,
                                 alarm |-> alarm /\ i = 1, finite |-> finite \/ i = 2]])

(* What line protocol can hold: no NaN, no infinity.                          *)
Finite(points) ==
  LET kept[i \in 0 .. Len(points)] ==
        IF i = 0 THEN << >>
        ELSE IF points[i].finite THEN Append(kept[i - 1], points[i]) ELSE kept[i - 1]
  IN  kept[Len(points)]

(* Buffer::admit: what is not finite is dropped, then the oldest over max.    *)
Admit(points) ==
  LET all    == ixPoints \o Finite(points)
      excess == IF Len(all) > IxBufferMax THEN Len(all) - IxBufferMax ELSE 0
  IN  /\ ixPoints' = SubSeq(all, excess + 1, Len(all))
      /\ ixDropped' = ixDropped + Len(ixPoints) + Len(points) - Len(ixPoints')

(* The lines of which only one half is in the buffer after a change.          *)
Halves(points) ==
  {p.poll : p \in {q \in ToSet(points) :
     Cardinality({i \in DOMAIN points : points[i].poll = q.poll}) = 1}}

(* receive: all there is in the channel.                                      *)
Receive ==
  /\ ixPhase = "run" /\ ixQueue # << >>
  /\ Admit(FlattenSeq(ixQueue))
  /\ cut' = cut \cup Halves(ixPoints')
  /\ ixQueue' = << >>
  /\ ixPhase' = IF ixOpen THEN "run" ELSE "drain"
  /\ UNCHANGED <<ixOpen, backingOff, ixWritten, stored, storedAlarm, acked, offered, ixFaults>>

(* The channel is empty and closed.                                           *)
Disconnected ==
  /\ ixPhase = "run" /\ ixQueue = << >> /\ ~ixOpen
  /\ ixPhase' = "drain"
  /\ UNCHANGED <<ixQueue, ixPoints, ixOpen, backingOff, ixWritten, ixDropped, stored,
                 storedAlarm, acked, cut, offered, ixFaults>>

(* line_protocol: one line for each device, node and time; its alarm field is *)
(* set when a sample of it has an alarm.                                      *)
LineAlarm(batch, poll) == \E i \in DOMAIN batch : batch[i].poll = poll /\ batch[i].alarm

(* The server stores the lines; a line replaces the fields it has.            *)
Stores(batch) ==
  /\ stored' = stored \cup ToSet(batch)
  /\ storedAlarm' = [p \in 1 .. MaxIxPolls |->
       IF \E i \in DOMAIN batch : batch[i].poll = p THEN LineAlarm(batch, p)
       ELSE storedAlarm[p]]

TheBatch == SubSeq(ixPoints, 1, IF Len(ixPoints) < IxBatch THEN Len(ixPoints) ELSE IxBatch)

(* Mutant: the batch leaves the buffer before the server has answered.        *)
WriteFails_Drains ==
  /\ ixPoints # << >> /\ ixPhase = "run" /\ ~backingOff
  /\ ixFaults < MaxIxFaults /\ ixFaults' = ixFaults + 1
  /\ Stores(TheBatch) \/ UNCHANGED <<stored, storedAlarm>>
  /\ ixPoints' = SubSeq(ixPoints, Len(TheBatch) + 1, Len(ixPoints))
  /\ backingOff' = TRUE
  /\ UNCHANGED <<ixQueue, ixPhase, ixOpen, ixWritten, ixDropped, acked, cut, offered>>

(* write_batch: points leave the buffer when the server said it has them.     *)
WriteSucceeds ==
  /\ ixPoints # << >> /\ (ixPhase = "drain" \/ (ixPhase = "run" /\ ~backingOff))
  /\ Stores(TheBatch)
  /\ ixPoints' = SubSeq(ixPoints, Len(TheBatch) + 1, Len(ixPoints))
  /\ ixWritten' = ixWritten + Len(TheBatch)
  /\ acked' = acked \o TheBatch
  /\ cut' = cut \cup Halves(ixPoints') \cup Halves(TheBatch)
  /\ UNCHANGED <<ixQueue, ixPhase, ixOpen, backingOff, ixDropped, offered, ixFaults>>

(* The server refuses, or the connection breaks or times out, before or after *)
(* the lines were stored.  While running: back off, and keep the points.      *)
WriteFails ==
  /\ ixPoints # << >> /\ ixPhase = "run" /\ ~backingOff
  /\ ixFaults < MaxIxFaults /\ ixFaults' = ixFaults + 1
  /\ Stores(TheBatch) \/ UNCHANGED <<stored, storedAlarm>>
  /\ cut' = cut \cup Halves(TheBatch)
  /\ backingOff' = TRUE
  /\ UNCHANGED <<ixQueue, ixPoints, ixPhase, ixOpen, ixWritten, ixDropped, acked, offered>>

RetryTime ==
  /\ backingOff /\ backingOff' = FALSE
  /\ UNCHANGED <<ixQueue, ixPoints, ixPhase, ixOpen, ixWritten, ixDropped, stored,
                 storedAlarm, acked, cut, offered, ixFaults>>

(* writer_loop after the channel closed: the first failure gives the rest up. *)
DrainFails ==
  /\ ixPhase = "drain" /\ ixPoints # << >>
  /\ ixFaults < MaxIxFaults /\ ixFaults' = ixFaults + 1
  /\ Stores(TheBatch) \/ UNCHANGED <<stored, storedAlarm>>
  /\ cut' = cut \cup Halves(TheBatch)
  /\ ixDropped' = ixDropped + Len(ixPoints)
  /\ ixPoints' = << >> /\ ixPhase' = "done"
  /\ UNCHANGED <<ixQueue, ixOpen, backingOff, ixWritten, acked, offered>>

DrainEnds ==
  /\ ixPhase = "drain" /\ ixPoints = << >>
  /\ ixPhase' = "done"
  /\ UNCHANGED <<ixQueue, ixPoints, ixOpen, backingOff, ixWritten, ixDropped, stored,
                 storedAlarm, acked, cut, offered, ixFaults>>

(* The device threads are joined, the sink is dropped: finish waits.          *)
CloseChannel ==
  /\ ixOpen /\ ixOpen' = FALSE
  /\ UNCHANGED <<ixQueue, ixPoints, ixPhase, backingOff, ixWritten, ixDropped, stored,
                 storedAlarm, acked, cut, offered, ixFaults>>

WriterStep ==
  Receive \/ Disconnected \/ WriteSucceeds \/ WriteFails \/ DrainFails \/ DrainEnds

InfluxNext == OfferPoll \/ CloseChannel \/ RetryTime \/ WriterStep

InfluxSpec == InfluxInit /\ [][InfluxNext]_ixVars

-----------------------------------------------------------------------------
(* Every variable has its type and the buffers keep their limits.             *)
InfluxTypeOK ==
  /\ Len(ixQueue) <= IxQueue /\ Len(ixPoints) <= IxBufferMax
  /\ ToSet(ixPoints) \subseteq Point /\ stored \subseteq Point
  /\ ixPhase \in {"run", "drain", "done"} /\ ixOpen \in BOOLEAN /\ backingOff \in BOOLEAN

(* Every sample offered is written, counted as dropped, or still under way:   *)
(* influx_points_written and influx_points_dropped account for all of them,   *)
(* through full queues, outages and the end (Buffer::admit, offer, finish).   *)
PointsAccounted ==
  Len(offered) = ixWritten + ixDropped + Len(ixPoints) + 2 * Len(ixQueue)

(* What is counted as written is in the database, in the order it was         *)
(* measured and once each, whatever posts failed or were repeated.            *)
WrittenIsStored ==
  /\ ToSet(acked) \subseteq stored
  /\ Len(acked) = ixWritten
  /\ \A i, j \in DOMAIN acked :
       i < j => 2 * acked[i].poll + acked[i].param < 2 * acked[j].poll + acked[j].param
  /\ \A i \in DOMAIN acked : acked[i].finite

(* The alarm field in the database is that of the samples, unless a line was  *)
(* cut: half of it in another batch replaces the field (line_protocol).       *)
AlarmFieldRight ==
  \A p \in ToSet(acked) : p.poll \notin cut =>
    (storedAlarm[p.poll] <=> \E i \in DOMAIN acked : acked[i].poll = p.poll /\ acked[i].alarm)

(* finish returns, however the server behaves (InfluxWriter::finish).         *)
InfluxFinishes == ~ixOpen ~> ixPhase = "done"

(* Every sample is written, dropped and counted, or on its way, and what is *)
(* counted as written is in the database as measured (influx.rs).           *)
PointsSound == InfluxTypeOK /\ PointsAccounted /\ WrittenIsStored /\ AlarmFieldRight
=============================================================================
