------------------------------ MODULE MCPipeline ------------------------------
(* The receiver's framing, the two consumers of the receivers' streams, and   *)
(* the replay of recorded files for TLC.  They share nothing but the streams, *)
(* so a behaviour follows one.                                                *)
EXTENDS GrawWriter, Decoder, Mfm, Replay

CONSTANT Parts   \* of "graw", "decoder", "mfm", "replay"

VARIABLE part

pipelineVars == <<part, grawVars, decVars, mfmVars, rpVars>>

(* Recorded files of up to three frames, alone and together.                  *)
Rec(frames, tail) == [frames |-> frames, tail |-> tail]
Dat(ev) == [ev |-> ev, len |-> 2]
Ctl == [ev |-> Control, len |-> 1]
Empty == Rec(<< >>, 0)
FileSets == {<< >>, <<Empty>>, <<Empty, Empty>>, <<Rec(<< >>, 1)>>, <<Rec(<<Ctl, Dat(1)>>, 1)>>,
             <<Rec(<<Dat(1), Dat(1), Dat(3)>>, 0), Rec(<<Ctl, Dat(1), Dat(2)>>, 1)>>,
             <<Rec(<<Dat(0), Ctl, Dat(2)>>, 0), Empty, Rec(<<Dat(0), Dat(1)>>, 0)>>,
             <<Rec(<<Dat(2), Dat(0)>>, 0), Rec(<<Dat(1)>>, 0)>>}

(* Streams of up to three frames of each byte order and block size and of     *)
(* headers that announce less than a header or more than the limit.  The      *)
(* bytes after the size tell the frames of a stream apart.                    *)
MakeFrame(meta, size, tag, len) == <<meta>> \o size \o [i \in 1 .. len - 4 |-> tag]

Shapes == {"little", "big", "short", "huge"}

FrameOf(shape, tag) ==
  CASE shape = "little" -> MakeFrame(128, <<9, 0, 0>>, tag, 9)
    [] shape = "big"    -> MakeFrame(1, <<0, 0, 5>>, tag, 10)
    [] shape = "short"  -> MakeFrame(129, <<3, 0, 0>>, tag, 8)
    [] shape = "huge"   -> MakeFrame(0, <<0, 1, 0>>, tag, 8)

MCStreams ==
  {[i \in DOMAIN shapes |-> FrameOf(shapes[i], i)] :
     shapes \in [1 .. 1 -> Shapes] \cup [1 .. 2 -> Shapes] \cup [1 .. 3 -> Shapes \ {"huge"}]}

CommandLine(files, rate, loop, chunk, laps, until) ==
  [files |-> files, rate |-> rate, loop |-> loop, chunk |-> chunk, laps |-> laps, until |-> until]

MCCommands ==
  {CommandLine(f, rate, loop, 2, laps, until) :
     f \in FileSets, rate \in {NotGiven, 1, 3}, loop \in BOOLEAN, laps \in {NotGiven, 1, 3},
     until \in {NotGiven, 2}}
    \cup {CommandLine(<<Empty>>, rate, FALSE, chunk, laps, NotGiven) :
            rate \in {NotGiven, Bad}, chunk \in {2, Bad}, laps \in {NotGiven, Bad}}

(* A part that is not followed keeps its first state.                         *)
Init ==
  /\ part \in Parts
  /\ GrawInit /\ DecInit
  /\ MfmInit
  /\ part # "mfm" => sentFrames = (CHOOSE fs \in Streams : TRUE)
  /\ ReplayInit
  /\ part # "replay" => cmd = CommandLine(<< >>, NotGiven, FALSE, 2, NotGiven, NotGiven)

Thread(A) == part = "decoder" /\ A /\ UNCHANGED <<part, grawVars, mfmVars, rpVars>>
Tool(A) == part = "replay" /\ A /\ UNCHANGED <<part, grawVars, decVars, mfmVars>>

Next == \/ part = "graw" /\ GrawNext /\ UNCHANGED <<part, decVars, mfmVars, rpVars>>
        \/ Thread(DecNext)
        \/ part = "mfm" /\ MfmNext /\ UNCHANGED <<part, grawVars, decVars, rpVars>>
        \/ Tool(ReplayNext)

(* The decoder's thread goes on when it can, and gives up a send once told    *)
(* to; that a downstream reads is not assumed.  The replay tool runs on, and  *)
(* a write of it ends or fails.                                               *)
Spec ==
  /\ Init /\ [][Next]_pipelineVars
  /\ WF_pipelineVars(Thread(LeaveLoop)) /\ WF_pipelineVars(Thread(SendAbandon))
  /\ WF_pipelineVars(Thread(DecResetJoined)) /\ WF_pipelineVars(Tool(ReplayStep))

(* What is told to end does: the decoder's Reset when nobody reads, a       *)
(* replay without --loop (send_lossless, graw_replay.rs:226).               *)
PipelineEnds == DecResetReturns /\ ReplayEnds
==============================================================================
