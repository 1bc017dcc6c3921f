-------------------------------- MODULE Replay --------------------------------
(* graw_replay (src/src/bin/graw_replay.rs): recorded files sent to a             *)
(* receiver over TCP.  One file goes out byte for byte; several are merged    *)
(* frame by frame in the order of their event indices, as the router sent         *)
(* them; in lap mode they go out again and again, each lap with its event     *)
(* indices moved past those of the laps before.                               *)
EXTENDS Integers, Sequences, SequencesExt, FiniteSetsExt

CONSTANTS
  CommandLines,   \* command lines
  IdxMod,     \* 2^32, the values of an event index
  MaxSends,   \* bound: frames sent
  MaxChunks,  \* bound: chunks of a single file sent
  MaxLaps,    \* bound: laps begun
  MaxTime     \* bound: ticks

(* An option that is absent, and one whose value is missing, zero, negative   *)
(* or no number.                                                              *)
NotGiven == 0
Bad == -1

(* A frame without an event index (peek_event_idx is NotGiven) has Control.  tail *)
(* is what follows the last complete frame of a file.                         *)
Control == -1

VARIABLES
  cmd,      \* the command line: files, rate (bytes a tick), loop, chunk, laps, until
  phase,    \* "start", "lap" (files to be opened), "sending", "done", "failed", "usage"
  heads,    \* the frame at the head of each source, 0 when it is used up
  offset,   \* bytes of the single file read since its start
  lap,      \* laps sent
  maxIdx,   \* max_idx
  lapMax,   \* lap_max_idx
  total,    \* bytes of the earlier laps
  lapBytes, \* bytes of this lap
  now,      \* ticks since the start
  peer      \* what the receiver got, in order

rpVars == <<cmd, phase, heads, offset, lap, maxIdx, lapMax, total, lapBytes, now, peer>>

FrameBytes(f) == FoldSeq(LAMBDA frame, n : frame.len + n, 0, f.frames)
FileBytes(f) == FrameBytes(f) + f.tail

LapMode == cmd.laps # NotGiven \/ cmd.until # NotGiven
Single == ~LapMode /\ Len(cmd.files) = 1
Sources == DOMAIN cmd.files

ReplayInit ==
  /\ cmd \in CommandLines /\ phase = "start" /\ heads = << >> /\ offset = 0 /\ lap = 0
  /\ maxIdx = 0 /\ lapMax = 0 /\ total = 0 /\ lapBytes = 0 /\ now = 0 /\ peer = << >>

(* args::parse                                                                *)
ParseAccepts(c) ==
  /\ Bad \notin {c.rate, c.chunk, c.laps, c.until} /\ c.files # << >>
  /\ ~(c.loop /\ (c.laps # NotGiven \/ c.until # NotGiven))

(* main and run: the command line, then the connection.                       *)
Start ==
  /\ phase = "start"
  /\ IF ParseAccepts(cmd) THEN phase' \in {"lap", "failed"} ELSE phase' = "usage"
  /\ UNCHANGED <<cmd, heads, offset, lap, maxIdx, lapMax, total, lapBytes, now, peer>>

(* A file that is not there, that cannot be read, a receiver that is gone.    *)
Fails ==
  /\ phase \in {"lap", "sending"} /\ phase' = "failed"
  /\ UNCHANGED <<cmd, heads, offset, lap, maxIdx, lapMax, total, lapBytes, now, peer>>

(* is_empty_graw with run_single's early return: it ends before the loop.     *)
SingleStarts ==
  /\ phase = "lap" /\ Single
  /\ phase' = IF FileBytes(cmd.files[1]) = 0 THEN "done" ELSE "sending"
  /\ UNCHANGED <<cmd, heads, offset, lap, maxIdx, lapMax, total, lapBytes, now, peer>>

(* replay_once opens the files that are not empty and reads a frame of each.  *)
LapStarts ==
  /\ phase = "lap" /\ ~Single /\ lap < MaxLaps
  /\ heads' = [i \in Sources |-> IF cmd.files[i].frames = << >> THEN 0 ELSE 1]
  /\ lapBytes' = 0 /\ lapMax' = 0 /\ phase' = "sending"
  /\ UNCHANGED <<cmd, offset, lap, maxIdx, total, now, peer>>

-----------------------------------------------------------------------------

(* pace::sleep_for, called after a write: sleep until bytes are due.          *)
Paced(bytes) ==
  now' = IF cmd.rate = NotGiven THEN now ELSE Max({now, (bytes + cmd.rate - 1) \div cmd.rate})

(* run_single: read returns up to chunk bytes of the file; at its end the     *)
(* loop seeks to the start or ends.                                           *)
SendChunk ==
  /\ phase = "sending" /\ Single /\ Len(peer) < MaxChunks
  /\ offset < FileBytes(cmd.files[1])
  /\ \E n \in 1 .. Min({cmd.chunk, FileBytes(cmd.files[1]) - offset}) :
       /\ peer' = Append(peer, [from |-> offset, len |-> n])
       /\ offset' = offset + n /\ lapBytes' = lapBytes + n /\ Paced(lapBytes + n)
  /\ UNCHANGED <<cmd, phase, heads, lap, maxIdx, lapMax, total>>

SingleEnds ==
  /\ phase = "sending" /\ Single /\ offset = FileBytes(cmd.files[1])
  /\ IF cmd.loop THEN offset' = 0 /\ UNCHANGED phase ELSE phase' = "done" /\ UNCHANGED offset
  /\ UNCHANGED <<cmd, heads, lap, maxIdx, lapMax, total, lapBytes, now, peer>>

-----------------------------------------------------------------------------
HeadFrame(i) == cmd.files[i].frames[heads[i]]
Waiting == {i \in DOMAIN heads : heads[i] # 0}

(* Mutant: the sources take turns by their position.                          *)
Pick_First ==
  LET controls == {i \in Waiting : HeadFrame(i).ev = Control}
  IN IF controls # {} THEN Min(controls) ELSE Min(Waiting)

(* The source to send from: one with a control frame, else the least event    *)
(* index, the first of the files that have it.                                *)
Pick ==
  LET controls == {i \in Waiting : HeadFrame(i).ev = Control}
      least == Min({HeadFrame(i).ev : i \in Waiting})
  IN IF controls # {} THEN Min(controls) ELSE Min({i \in Waiting : HeadFrame(i).ev = least})

(* run_laps: from the second lap on the event index moves by the laps before. *)
Patched(ev) ==
  IF ev = Control \/ lap = 0 \/ ~LapMode THEN ev ELSE (ev + lap * (maxIdx + 1)) % IdxMod

(* FrameSource::next_frame: the next frame of the file; bytes that form none  *)
(* are reported and left out.                                                 *)
Advance(i) == IF heads[i] < Len(cmd.files[i].frames) THEN heads[i] + 1 ELSE 0

SendFrame ==
  /\ phase = "sending" /\ ~Single /\ Waiting # {} /\ Len(peer) < MaxSends
  /\ LET i == Pick
         frame == HeadFrame(i)
     IN /\ peer' = Append(peer, [file |-> i, frame |-> heads[i], lap |-> lap,
                                 ev |-> Patched(frame.ev)])
        /\ lapMax' = IF lap = 0 /\ LapMode THEN Max({lapMax, frame.ev}) ELSE lapMax
        /\ heads' = [heads EXCEPT ![i] = Advance(i)]
        /\ lapBytes' = lapBytes + frame.len /\ Paced(total + lapBytes + frame.len)
  /\ UNCHANGED <<cmd, phase, offset, lap, maxIdx, total>>

LapsDone == cmd.laps # NotGiven /\ lap + 1 >= cmd.laps
TimeDone == cmd.until # NotGiven /\ now + 1 >= cmd.until

(* The sources are used up: run_merged goes round with --loop, run_laps until *)
(* the laps are sent or the time is over.  A lap takes a tick at least.       *)
LapEnds ==
  /\ phase = "sending" /\ ~Single /\ Waiting = {}
  /\ total' = total + lapBytes /\ lapBytes' = 0 /\ lap' = lap + 1 /\ now' = now + 1
  /\ maxIdx' = IF lap = 0 THEN lapMax ELSE maxIdx
  /\ phase' = IF (LapMode /\ ~(LapsDone \/ TimeDone)) \/ cmd.loop THEN "lap" ELSE "done"
  /\ UNCHANGED <<cmd, heads, offset, lapMax, peer>>

(* Writes and reads take time.                                                *)
TimePasses ==
  /\ phase = "sending" /\ now < MaxTime /\ now' = now + 1
  /\ UNCHANGED <<cmd, phase, heads, offset, lap, maxIdx, lapMax, total, lapBytes, peer>>

ReplayStep == Start \/ SingleStarts \/ LapStarts \/ SendChunk \/ SingleEnds \/ SendFrame \/ LapEnds
ReplayNext == ReplayStep \/ Fails \/ TimePasses

-----------------------------------------------------------------------------
ReplayTypeOK ==
  /\ phase \in {"start", "lap", "sending", "done", "failed", "usage"}
  /\ lap \in 0 .. MaxLaps /\ total \in Nat /\ lapBytes \in Nat
  /\ Len(peer) <= Max({MaxSends, MaxChunks})
  /\ maxIdx \in 0 .. IdxMod - 1
  /\ \A i \in DOMAIN heads : heads[i] \in 0 .. Len(cmd.files[i].frames)

Got(i, l) == SelectSeq(peer, LAMBDA p : p.file = i /\ p.lap = l)

(* Nothing is lost, repeated or reordered: of every file the receiver gets    *)
(* the frames up to its head in every lap, all of them in the laps that       *)
(* ended; a single file arrives byte for byte (graw_replay.rs:307 and 97).    *)
NothingMislaid ==
  IF Single
  THEN \A k \in 1 .. Len(peer) :
         peer[k].from = (FoldSeq(LAMBDA p, n : p.len + n, 0, SubSeq(peer, 1, k - 1)))
                          % FileBytes(cmd.files[1])
  ELSE \A i \in Sources : \A l \in 0 .. lap :
         LET frames == Len(cmd.files[i].frames)
             upTo == IF l < lap THEN frames
                     ELSE IF phase # "sending" THEN Len(Got(i, l))
                     ELSE IF heads[i] = 0 THEN frames ELSE heads[i] - 1
         IN [k \in 1 .. Len(Got(i, l)) |-> Got(i, l)[k].frame] = [k \in 1 .. upTo |-> k]

Ascends(f) ==
  \A j, k \in DOMAIN f.frames : j < k /\ f.frames[j].ev # Control /\ f.frames[k].ev # Control
                                  => f.frames[j].ev <= f.frames[k].ev

(* Files whose events ascend are merged into a stream whose events do, from   *)
(* one file after the other within an event: what the event builder's         *)
(* timeouts need (graw_replay.rs:333).                                        *)
EventsTogether ==
  ~Single /\ (\A i \in Sources : Ascends(cmd.files[i])) =>
    \A j, k \in DOMAIN peer :
      (j < k /\ peer[j].lap = peer[k].lap /\ peer[j].ev # Control /\ peer[k].ev # Control) =>
        \/ lap * (maxIdx + 1) + maxIdx >= IdxMod
        \/ peer[j].ev < peer[k].ev
        \/ peer[j].ev = peer[k].ev /\ peer[j].file <= peer[k].file

(* No event of a lap is taken for one of another: while the indices fit, a    *)
(* later lap's are greater than all of the earlier ones, also when the files  *)
(* do not begin at 0 or do not ascend (graw_replay.rs:207).                   *)
LapsApart ==
  LapMode /\ lap * (maxIdx + 1) + maxIdx < IdxMod =>
    \A j, k \in DOMAIN peer :
      (peer[j].lap < peer[k].lap /\ peer[j].ev # Control /\ peer[k].ev # Control)
        => peer[j].ev < peer[k].ev

(* With --rate-mbps the bytes sent so far are never ahead of the rate, over   *)
(* all laps together (graw_replay.rs:546).                                    *)
NeverAheadOfRate ==
  phase \in {"sending", "lap", "done"} /\ cmd.rate > 0 => total + lapBytes <= cmd.rate * now

(* Without --loop a replay comes to its end (graw_replay.rs:226): laps are    *)
(* counted, and --laps-until-s ends after the lap in which time is up.        *)
ReplayEnds == (phase = "sending" /\ ~cmd.loop) ~> (phase \in {"done", "failed"})

(* A replay is the recorded run: whole, its events together and its laps    *)
(* apart, at the rate asked for (graw_replay.rs:307, 333, 207, 546).        *)
ReplaySound ==
  /\ ReplayTypeOK /\ NothingMislaid /\ EventsTogether /\ LapsApart
  /\ NeverAheadOfRate
===============================================================================
