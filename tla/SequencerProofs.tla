--------------------------- MODULE SequencerProofs ---------------------------
(* Proofs about Sequencer: what start_run, rollback, the walk-back and         *)
(* stop_run leave behind, for any chain and any number of lost, late or failed *)
(* commands, restarts and deaths.                                              *)
EXTENDS Sequencer, FiniteSetTheorems, WellFoundedInduction, TLAPS

EccStateSet == {"Off", "Idle", "Described", "Prepared", "Ready", "Running"}

CountType == [stops : Nat, lost : Nat, errors : Nat, restarts : Nat, crashes : Nat, operator : Nat]

CommandSet == [name : Commands, run : Nat]
RequestSet == [name : {"status", "describe", "prepare", "configure", "start", "stop", "breakup", "reset"},
               run : Nat]
Reported   == [state : States, run : Nat]

LocalsType ==
  [touched : SUBSET Components, before : [Components -> Reported], seen : EccStateSet,
   steps : 0 .. EccWalkBackMaxSteps, tries : 0 .. ArmAttempts - 1, abort : BOOLEAN,
   forced : BOOLEAN, closed : BOOLEAN, poll : {"none", "no", "graw"}, walked : Nat]

GrawType == [writer : BOOLEAN, thread : BOOLEAN, data : SUBSET Receivers,
             eos : SUBSET Receivers, open : BOOLEAN]
DecType  == [thread : BOOLEAN, eos : SUBSET Receivers, out : BOOLEAN, errored : BOOLEAN]

(* The chain, the ECC and the controller have their types.                     *)
ChainTypes ==
  /\ comp \in [Components -> Reported] /\ late \in [Components -> Seq(CommandSet)]
  /\ fed \subseteq Receivers /\ eos \subseteq Receivers
  /\ graw \in GrawType /\ dec \in DecType

EccTypes == ecc \in EccStateSet /\ ecc_late \in Seq(RequestSet)

ControlTypes ==
  /\ phase \in {"Idle", "Starting", "Running", "Stopping"}
  /\ stage \in Stages /\ (stage = "off") = (phase \in {"Idle", "Running"})
  /\ todo \subseteq Components /\ seq \in LocalsType
  /\ run \in Nat /\ next_run \in Nat /\ count \in CountType

(* No command of that name is in the queue.                                    *)
Lacks(s, name) == \A k \in DOMAIN s : s[k].name # name

(* The request of the ECC that is next.                                        *)
EccSteps == stage = "ecc" => seq.steps \in 1 .. 4

(* What a rollback has folded stays folded: it is Idle and no command of an    *)
(* earlier attempt waits for it.                                               *)
Rolled ==
  /\ stage = "failed" => todo = {}
  /\ stage \in {"rbStop", "rbReset", "failed"} /\ ~missed
       => \A i \in seq.touched \ todo : comp[i].state = "Idle" /\ late[i] = << >>

WalkBackStages == {"wbWait", "wbForce", "wbWait2", "wbStop", "wbReset"}

(* A component that answered the survey had executed all it was sent, so that  *)
(* none begins to run behind the walk-back's back.                             *)
Surveyed ==
  \A i \in Components :
    stage \in WalkBackStages \/ (stage = "survey" /\ i \notin todo)
      => late[i] = << >> /\ (comp[i].state = "Running" => seq.before[i].state = "Running")

(* What the walk-back has stopped does not run.                                *)
Halted ==
  \A i \in Components :
    (\/ stage = "wbForce" /\ i \in Receivers \ todo
     \/ stage = "wbWait2" /\ i \in Receivers
     \/ stage = "wbStop" /\ i \notin todo
     \/ stage = "wbReset")
    => comp[i].state # "Running"

ClosedStages == {"wbStop", "wbReset", "foldStop", "foldReset"}
BeforeClosing == {"off", "eccStatus", "eccWalk", "survey", "wbForce", "status", "force"} \cup Waits

(* Nothing is taken for closed before it was asked, and no Start is under way  *)
(* that would make the decoder forget what it has sent.                        *)
Closing ==
  /\ stage \in BeforeClosing => ~seq.closed
  /\ stage \in ClosedStages /\ seq.closed /\ Decoder \notin failed
       => /\ dec.out /\ dec.eos = Receivers
          /\ Lacks(late[Decoder], "Start")

UndoInv ==
  /\ ChainTypes /\ EccTypes /\ ControlTypes /\ EccSteps
  /\ Rolled /\ Surveyed /\ Halted /\ Closing

-------------------------------------------------------------------------------
StartStages == WalkBackStages \cup {"survey", "Configure", "Arm", "Start"}

(* Without requests of the operator, the ECC is where the sequence took it.    *)
EccKnown ==
  /\ stage \in StartStages \cup {"eccWalk", "ecc", "started"} => ecc_late = << >>
  /\ stage = "eccWalk" => seq.seen = ecc
  /\ stage \in StartStages => ecc \in {"Idle", "Off"}
  /\ stage = "ecc" =>
       \/ seq.steps = 1 /\ ecc \in {"Idle", "Off"}
       \/ seq.steps = 2 /\ ecc = "Described"
       \/ seq.steps = 3 /\ ecc = "Prepared"
       \/ seq.steps = 4 /\ ecc = "Ready" /\ link = run
  /\ stage = "started" => ecc = "Running" /\ link = run

(* The CoBos are connected, or will be by a request that is under way.         *)
Stirred == ecc \in {"Ready", "Running"} \/ ~Lacks(ecc_late, "configure")

(* Then no component listens, or will by a command that is under way.          *)
NoneListens ==
  Stirred => \A i \in Components : comp[i].state # "Armed" /\ Lacks(late[i], "Arm")

(* What has answered the Start of this run runs it, unless it failed since.    *)
Taking ==
  \A i \in Components :
    stage \in {"ecc", "started"} \/ (stage = "Start" /\ i \notin todo)
      => /\ late[i] = << >> /\ comp[i].state # "Armed"
         /\ i \notin failed => comp[i] = [state |-> "Running", run |-> run]

StartInv == EccKnown /\ NoneListens /\ Taking

-------------------------------------------------------------------------------
(* Queues of commands                                                          *)

(* A command of another name joins the queue.                                 *)
LEMMA LacksAppend ==
  ASSUME NEW S, NEW s \in Seq(S), NEW c, NEW name, Lacks(s, name), c.name # name
  PROVE  Lacks(Append(s, c), name)
<1>1. /\ Len(s) \in Nat /\ DOMAIN s = 1 .. Len(s)
      /\ DOMAIN Append(s, c) = 1 .. Len(s) + 1
      /\ \A k \in 1 .. Len(s) : Append(s, c)[k] = s[k]
      /\ Append(s, c)[Len(s) + 1] = c
  OBVIOUS
<1> QED
  BY <1>1 DEF Lacks

(* The head of the queue is executed.                                         *)
LEMMA LacksTail ==
  ASSUME NEW S, NEW s \in Seq(S), s # << >>
  PROVE  /\ \A name : Lacks(s, name) => Lacks(Tail(s), name) /\ Head(s).name # name
         /\ Tail(s) \in Seq(S) /\ Head(s) \in S
<1>1. /\ Len(s) \in Nat \ {0} /\ DOMAIN s = 1 .. Len(s)
      /\ DOMAIN Tail(s) = 1 .. Len(s) - 1
      /\ \A k \in 1 .. Len(s) - 1 : Tail(s)[k] = s[k + 1]
      /\ Head(s) = s[1] /\ Tail(s) \in Seq(S) /\ Head(s) \in S
  OBVIOUS
<1>2. ASSUME NEW name, Lacks(s, name) PROVE Lacks(Tail(s), name) /\ Head(s).name # name
  BY <1>1, <1>2 DEF Lacks
<1> QED
  BY <1>1, <1>2

(* An empty queue holds no command of any name.                               *)
LEMMA LacksEmpty == \A name : Lacks(<< >>, name)
BY DEF Lacks

-------------------------------------------------------------------------------
(* A component executes a command                                              *)

(* What every command may do to the component it reaches: it begins to run or  *)
(* to listen only by Start or Arm, and Reset leaves it Idle.                   *)
Obeys(j, c, ok) ==
  /\ comp'[j].state = "Running" => comp[j].state = "Running" \/ c.name = "Start"
  /\ comp'[j].state = "Armed" => comp[j].state = "Armed" \/ c.name = "Arm"
  /\ c.name = "Reset" => comp'[j].state = "Idle"
  /\ ok /\ c.name = "Stop" => comp'[j].state = "Configured"
  /\ ok /\ c.name = "Start" => comp'[j] = [state |-> "Running", run |-> c.run]

FlowTypes == fed' \subseteq Receivers /\ eos' \subseteq Receivers /\ graw' \in GrawType /\ dec' \in DecType

(* The data plane keeps its types, and only Start makes the decoder forget.    *)
LEMMA FlowEffect ==
  ASSUME ChainTypes, NEW i, NEW name \in Commands, FlowAfter(i, name)
  PROVE  FlowTypes /\ ((i = Decoder /\ name = "Start") \/ (dec'.eos = dec.eos /\ dec'.out = dec.out))
<1>1. fed' \subseteq Receivers /\ eos' \subseteq Receivers
  BY DEF ChainTypes, FlowAfter, Commands
<1>2. graw' \in GrawType
  BY DEF ChainTypes, FlowAfter, Commands, GrawType, NoGraw
<1>3. dec' \in DecType
  BY DEF ChainTypes, FlowAfter, Commands, DecType, NoDec
<1>4. (i = Decoder /\ name = "Start") \/ (dec'.eos = dec.eos /\ dec'.out = dec.out)
  BY DEF ChainTypes, FlowAfter, Commands, DecType, NoDec
<1> QED
  BY <1>1, <1>2, <1>3, <1>4 DEF FlowTypes

(* A command, accepted or refused, reaches one component only.                *)
LEMMA ExecEffect ==
  ASSUME ChainTypes, NEW i, NEW c \in CommandSet, NEW ok \in BOOLEAN, Exec(i, c, ok)
  PROVE  /\ comp' \in [Components -> Reported] /\ FlowTypes
         /\ \A j \in Components : j # i => comp'[j] = comp[j]
         /\ \A j \in Components : j = i => Obeys(j, c, ok)
         /\ (i = Decoder /\ c.name = "Start") \/ (dec'.eos = dec.eos /\ dec'.out = dec.out)
<1>0. c.name \in Commands /\ c.run \in Nat
  BY DEF CommandSet
<1>1. CASE /\ Accepts(comp[i].state, c.name) /\ ok
           /\ comp' = [comp EXCEPT ![i] = [state |-> StateAfter(i, c), run |-> RunAfter(i, c)]]
           /\ FlowAfter(i, c.name)
  <2>1. StateAfter(i, c) \in States
    BY <1>0 DEF StateAfter, TargetState, States, Commands
  <2>2. i \in Components => RunAfter(i, c) \in Nat
    BY <1>0 DEF RunAfter, ChainTypes, Reported
  <2>3. comp' \in [Components -> Reported]
    <3>1. \A j \in Components : comp'[j] \in Reported
      BY <1>1, <2>1, <2>2 DEF ChainTypes, Reported
    <3> QED
      BY <1>1, <3>1 DEF ChainTypes
  <2>4. \A j \in Components : j # i => comp'[j] = comp[j]
    BY <1>1 DEF ChainTypes
  <2>5. ASSUME NEW j \in Components, j = i PROVE Obeys(j, c, ok)
    <3>1. comp'[j] = [state |-> StateAfter(i, c), run |-> RunAfter(i, c)]
      BY <1>1, <2>5 DEF ChainTypes
    <3>2. StateAfter(i, c) = TargetState(c.name) \/ (c.name = "Configure" /\ StateAfter(i, c) = "Error")
      BY DEF StateAfter
    <3>3. c.name = "Start" => RunAfter(i, c) = c.run
      BY DEF RunAfter
    <3> QED
      BY <1>0, <3>1, <3>2, <3>3 DEF Obeys, TargetState, Commands
  <2> QED
    BY <1>0, <1>1, <2>3, <2>4, <2>5, FlowEffect
<1>2. CASE /\ ~Accepts(comp[i].state, c.name) \/ c.name = "Arm"
           /\ ~ok /\ UNCHANGED <<comp, flowVars>>
  <2>1. /\ comp' = comp /\ FlowTypes /\ dec' = dec
    BY <1>2 DEF flowVars, FlowTypes, ChainTypes
  <2>2. ASSUME NEW j \in Components, j = i PROVE Obeys(j, c, ok)
    <3>1. comp[j].state \in States
      BY DEF ChainTypes, Reported
    <3>2. c.name = "Reset" => comp[j].state = "Idle"
      BY <1>2, <2>2, <3>1 DEF Accepts, CanTransition, LegalTransitions, TargetState, States
    <3> QED
      BY <1>2, <2>1, <3>2 DEF Obeys
  <2> QED
    BY <2>1, <2>2 DEF ChainTypes
<1> QED
  BY <1>1, <1>2 DEF Exec

(* A command of the controller is executed and answered, refused, lost, or     *)
(* left in the queue.                                                          *)
LEMMA CallEffect ==
  ASSUME ChainTypes, count \in CountType, NEW i, NEW c \in CommandSet, NEW ok \in BOOLEAN,
         Call(i, c, ok)
  PROVE  /\ ChainTypes' /\ count' \in CountType
         /\ \A j \in Components : j # i => comp'[j] = comp[j] /\ late'[j] = late[j]
         /\ \A j \in Components : j = i => \/ late'[j] = late[j] /\ late[j] = << >> /\ Obeys(j, c, ok)
                                           \/ /\ ~ok /\ ~Answered(i) /\ comp'[j] = comp[j]
                                              /\ late'[j] \in {late[j], Append(late[j], c)}
         /\ (i = Decoder /\ c.name = "Start") \/ (dec'.eos = dec.eos /\ dec'.out = dec.out)
<1>1. CASE late[i] = << >> /\ Exec(i, c, ok) /\ UNCHANGED late
  <2>1. count' \in CountType
    BY <1>1 DEF Exec, Lose, CountType
  <2>2. ChainTypes'
    BY <1>1, ExecEffect DEF ChainTypes, FlowTypes
  <2>3. /\ \A j \in Components : j # i => comp'[j] = comp[j]
        /\ \A j \in Components : j = i => Obeys(j, c, ok)
        /\ (i = Decoder /\ c.name = "Start") \/ (dec'.eos = dec.eos /\ dec'.out = dec.out)
    BY <1>1, ExecEffect, SMTT(30)
  <2>4. late' = late /\ late[i] = << >>
    BY <1>1
  <2> QED
    BY <2>1, <2>2, <2>3, <2>4
<1>2. CASE ~ok /\ NoReply(i, c)
  <2>1. /\ count' = [count EXCEPT !.lost = @ + 1] /\ count' \in CountType /\ count' # count
    BY <1>2 DEF NoReply, Lose, CountType
  <2>2. UNCHANGED <<comp, fed, eos, graw, dec>> /\ late' \in {late, [late EXCEPT ![i] = Append(@, c)]}
    BY <1>2 DEF NoReply, flowVars
  <2>3. \A j \in Components : /\ late[j] \in Seq(CommandSet) /\ Append(late[j], c) \in Seq(CommandSet)
    BY DEF ChainTypes
  <2>4. \A j \in Components : /\ late'[j] \in {late[j], Append(late[j], c)}
                              /\ j # i => late'[j] = late[j]
    BY <2>2 DEF ChainTypes
  <2>5. late' \in [Components -> Seq(CommandSet)]
    BY <2>2, <2>3, <2>4 DEF ChainTypes
  <2>6. ChainTypes'
    BY <2>2, <2>5 DEF ChainTypes
  <2> QED
    BY <1>2, <2>1, <2>2, <2>4, <2>6 DEF Answered
<1> QED
  BY <1>1, <1>2 DEF Call

-------------------------------------------------------------------------------
(* The chain without the controller                                            *)

(* A component gets on with its queue, fails or is restarted: with an empty    *)
(* queue it only fails, and it begins to listen, and the decoder to forget,    *)
(* only by a command that was left in the queue.                               *)
Drift ==
  /\ ChainTypes' /\ count' \in CountType /\ failed \subseteq failed'
  /\ \A j \in Components :
       /\ \/ late'[j] = late[j]
          \/ late'[j] = << >>
          \/ late[j] # << >> /\ late'[j] = Tail(late[j])
       /\ late[j] = << >> => \/ comp'[j] = comp[j]
                             \/ /\ j \in failed' /\ comp'[j].state \in {"Idle", "Error"}
                                /\ comp[j].state = "Idle" => comp'[j].state = "Idle"
       /\ comp'[j].state = "Armed" => comp[j].state = "Armed" \/ ~Lacks(late[j], "Arm")
  /\ \/ Decoder \in failed' \/ ~Lacks(late[Decoder], "Start")
     \/ dec.out /\ dec.eos = Receivers => dec'.out /\ dec'.eos = Receivers

(* A command that was left in the queue is executed at last.                  *)
LEMMA LateExecDrifts ==
  ASSUME ChainTypes, count \in CountType, NEW i \in Components, LateExec(i)
  PROVE  Drift
<1>1. PICK ok \in BOOLEAN : Exec(i, Head(late[i]), ok)
  BY DEF LateExec
<1>2. /\ late[i] # << >> /\ late' = [late EXCEPT ![i] = Tail(@)]
      /\ UNCHANGED failed
  BY DEF LateExec
<1>3. late[i] \in Seq(CommandSet)
  BY DEF ChainTypes
<1> DEFINE c == Head(late[i])
<1>4. /\ c \in CommandSet /\ Tail(late[i]) \in Seq(CommandSet)
      /\ \A name : Lacks(late[i], name) => c.name # name
  BY <1>2, <1>3, LacksTail
<1>5. Exec(i, c, ok)
  BY <1>1
<1> HIDE DEF c
<1>6. /\ comp' \in [Components -> Reported] /\ FlowTypes
      /\ \A j \in Components : j # i => comp'[j] = comp[j]
      /\ \A j \in Components : j = i => Obeys(j, c, ok)
      /\ (i = Decoder /\ c.name = "Start") \/ (dec'.eos = dec.eos /\ dec'.out = dec.out)
  BY <1>4, <1>5, ExecEffect
<1>7. count' \in CountType
  BY <1>5 DEF Exec, Lose, CountType
<1>8. ChainTypes'
  BY <1>2, <1>4, <1>6 DEF ChainTypes, FlowTypes
<1>9. late'[i] = Tail(late[i]) /\ \A j \in Components : j # i => late'[j] = late[j]
  BY <1>2 DEF ChainTypes
<1>10. comp'[i].state = "Armed" => comp[i].state = "Armed" \/ ~Lacks(late[i], "Arm")
  BY <1>4, <1>6 DEF Obeys
<1>11. \/ ~Lacks(late[Decoder], "Start")
       \/ dec.out /\ dec.eos = Receivers => dec'.out /\ dec'.eos = Receivers
  BY <1>4, <1>6
<1> QED
  BY <1>2, <1>6, <1>7, <1>8, <1>9, <1>10, <1>11 DEF Drift

(* A component goes to Error, or dies and is started again.                   *)
LEMMA FailureDrifts ==
  ASSUME ChainTypes, count \in CountType, NEW i \in Components,
         ComponentErrs(i) \/ ComponentRestarts(i)
  PROVE  Drift
<1>1. CASE ComponentErrs(i)
  <2>1. count' \in CountType
    BY <1>1 DEF ComponentErrs, CountType
  <2>2. /\ comp' = [comp EXCEPT ![i].state = "Error"] /\ late' = late /\ failed' = failed \cup {i}
        /\ comp[i].state # "Idle" /\ fed' = fed /\ eos' = eos
    BY <1>1 DEF ComponentErrs, CanTransition, LegalTransitions
  <2>3. /\ comp' \in [Components -> Reported] /\ comp'[i].state = "Error"
        /\ \A j \in Components : j # i => comp'[j] = comp[j]
    BY <2>2 DEF ChainTypes, Reported, States
  <2>4. graw' \in GrawType
    BY <1>1 DEF ComponentErrs, ChainTypes, GrawType
  <2>5. dec' \in DecType /\ dec'.out = dec.out /\ dec'.eos = dec.eos
    <3>1. dec' = [dec EXCEPT !.errored = @ \/ i = Decoder]
      BY <1>1 DEF ComponentErrs
    <3> QED
      BY <3>1 DEF ChainTypes, DecType
  <2> QED
    BY <2>1, <2>2, <2>3, <2>4, <2>5 DEF Drift, ChainTypes
<1>2. CASE ComponentRestarts(i)
  <2>1. count' \in CountType
    BY <1>2 DEF ComponentRestarts, CountType
  <2>2. /\ comp' = [comp EXCEPT ![i] = Blank] /\ late' = [late EXCEPT ![i] = << >>]
        /\ failed' = failed \cup {i} /\ fed' \subseteq fed /\ eos' \subseteq eos
        /\ i # Decoder => dec' = dec
    BY <1>2 DEF ComponentRestarts
  <2>3. /\ comp' \in [Components -> Reported] /\ comp'[i].state = "Idle"
        /\ \A j \in Components : j # i => comp'[j] = comp[j]
    BY <2>2 DEF ChainTypes, Reported, States, Blank
  <2>4. /\ late' \in [Components -> Seq(CommandSet)] /\ late'[i] = << >>
        /\ \A j \in Components : j # i => late'[j] = late[j]
    BY <2>2 DEF ChainTypes
  <2>5. graw' \in GrawType /\ dec' \in DecType
    BY <1>2 DEF ComponentRestarts, ChainTypes, GrawType, DecType, NoGraw, NoDec
  <2> QED
    BY <2>1, <2>2, <2>3, <2>4, <2>5 DEF Drift, ChainTypes
<1> QED
  BY <1>1, <1>2

(* Frames and end-of-streams pass through the chain.                          *)
LEMMA DataDrifts ==
  ASSUME ChainTypes, count \in CountType,
         DecoderReads \/ \E r \in Receivers : Feed(r) \/ Eof(r) \/ GrawReads(r)
  PROVE  Drift
<1>1. UNCHANGED <<comp, late, count, failed>>
  BY DEF DecoderReads, Feed, Eof, GrawReads, dataOnly
<1>2. fed' \subseteq Receivers /\ eos' \subseteq Receivers
  BY DEF DecoderReads, Feed, Eof, GrawReads, ChainTypes
<1>3. graw' \in GrawType
  <2>1. ASSUME NEW r \in Receivers, graw' = [graw EXCEPT !.data = @ \cup {r}, !.open = TRUE]
        PROVE  graw' \in GrawType
    BY <2>1 DEF ChainTypes, GrawType
  <2>2. ASSUME NEW r \in Receivers, NEW all \in BOOLEAN,
               graw' = [graw EXCEPT !.eos = @ \cup {r}, !.thread = ~all,
                                    !.open = IF all THEN FALSE ELSE @]
        PROVE  graw' \in GrawType
    <3>1. CASE all
      BY <2>2, <3>1 DEF ChainTypes, GrawType
    <3>2. CASE ~all
      BY <2>2, <3>2 DEF ChainTypes, GrawType
    <3> QED
      BY <3>1, <3>2
  <2>3. ASSUME NEW r \in Receivers, GrawReads(r)
        PROVE  graw' \in GrawType
    <3>1. (graw.eos \cup {r} = Receivers) \in BOOLEAN
      OBVIOUS
    <3> QED
      BY <2>1, <2>2, <2>3, <3>1 DEF GrawReads
  <2>4. ASSUME graw' = graw PROVE graw' \in GrawType
    BY <2>4 DEF ChainTypes
  <2> QED
    BY <2>3, <2>4 DEF DecoderReads, Feed, Eof
<1>4. dec' \in DecType /\ (dec.out /\ dec.eos = Receivers => dec'.out /\ dec'.eos = Receivers)
  BY DEF DecoderReads, Feed, Eof, GrawReads, ChainTypes, DecType
<1> QED
  BY <1>1, <1>2, <1>3, <1>4 DEF Drift, ChainTypes

(* None of this disturbs what a walk-back, a rollback or a closed run rests on. *)
LEMMA DriftKeepsUndo ==
  ASSUME UndoInv, Drift, UNCHANGED <<stage, todo, seq, missed>>
  PROVE  Rolled' /\ Surveyed' /\ Halted' /\ Closing'
<1>0. \A j \in Components : late[j] = << >> => late'[j] = << >>
  BY DEF Drift
<1>1. Rolled'
  BY <1>0 DEF UndoInv, Drift, Rolled, ControlTypes, LocalsType
<1>2. Surveyed'
  BY <1>0 DEF UndoInv, Drift, Surveyed
<1>3. Halted'
  BY DEF UndoInv, Drift, Surveyed, Halted, WalkBackStages
<1>4. Closing'
  <2>1. stage \in BeforeClosing => ~seq'.closed
    BY DEF UndoInv, Closing
  <2> SUFFICES ASSUME stage \in ClosedStages, seq.closed, Decoder \notin failed'
               PROVE  dec'.out /\ dec'.eos = Receivers /\ Lacks(late'[Decoder], "Start")
    BY <2>1 DEF Closing
  <2>2. dec.out /\ dec.eos = Receivers /\ Lacks(late[Decoder], "Start")
    BY DEF UndoInv, Closing, Drift
  <2>3. dec'.out /\ dec'.eos = Receivers
    BY <2>2 DEF Drift
  <2>4. Decoder \in Components /\ late[Decoder] \in Seq(CommandSet)
    <3>1. Decoder \in Components
      BY SequencerAssumption DEF Decoder, Components
    <3> QED
      BY <3>1 DEF UndoInv, ChainTypes
  <2>5. Lacks(late'[Decoder], "Start")
    <3>1. CASE late'[Decoder] = late[Decoder]
      BY <2>2, <3>1
    <3>2. CASE late'[Decoder] = << >>
      BY <3>2, LacksEmpty
    <3>3. CASE late[Decoder] # << >> /\ late'[Decoder] = Tail(late[Decoder])
      BY <2>2, <2>4, <3>3, LacksTail
    <3> QED
      BY <2>4, <3>1, <3>2, <3>3 DEF Drift
  <2> QED
    BY <2>3, <2>5
<1> QED
  BY <1>1, <1>2, <1>3, <1>4

(* Nor what a start rests on.                                                  *)
LEMMA DriftKeepsStart ==
  ASSUME ChainTypes, StartInv, Drift, UNCHANGED <<stage, todo, seq, run, ecc, ecc_late, link>>
  PROVE  StartInv'
<1>1. EccKnown'
  BY DEF StartInv, EccKnown
<1>2. NoneListens'
  <2> SUFFICES ASSUME Stirred', NEW i \in Components
               PROVE  comp'[i].state # "Armed" /\ Lacks(late'[i], "Arm")
    BY DEF NoneListens
  <2>1. comp[i].state # "Armed" /\ Lacks(late[i], "Arm")
    BY DEF StartInv, NoneListens, Stirred
  <2>2. late[i] \in Seq(CommandSet)
    BY DEF ChainTypes
  <2>3. Lacks(late'[i], "Arm")
    <3>1. CASE late'[i] = << >>
      BY <3>1, LacksEmpty
    <3>2. CASE late[i] # << >> /\ late'[i] = Tail(late[i])
      BY <2>1, <2>2, <3>2, LacksTail
    <3> QED
      BY <2>1, <3>1, <3>2 DEF Drift
  <2> QED
    BY <2>1, <2>3 DEF Drift
<1>3. Taking'
  <2> SUFFICES ASSUME NEW i \in Components,
                      stage \in {"ecc", "started"} \/ (stage = "Start" /\ i \notin todo)
               PROVE  /\ late'[i] = << >> /\ comp'[i].state # "Armed"
                      /\ i \notin failed' => comp'[i] = [state |-> "Running", run |-> run]
    BY DEF Taking
  <2>1. /\ late[i] = << >> /\ comp[i].state # "Armed"
        /\ i \notin failed => comp[i] = [state |-> "Running", run |-> run]
    BY DEF StartInv, Taking
  <2> QED
    BY <2>1 DEF Drift
<1> QED
  BY <1>1, <1>2, <1>3 DEF StartInv

-------------------------------------------------------------------------------
(* The ECC                                                                     *)

(* Only configure connects the CoBos.                                         *)
LEMMA EccExecEffect ==
  ASSUME ecc \in EccStateSet, NEW c, EccExec(c)
  PROVE  /\ ecc' \in EccStateSet /\ ecc' = EccNext(ecc, c.name)
         /\ ecc' \in {"Ready", "Running"} => ecc \in {"Ready", "Running"} \/ c.name = "configure"
BY DEF EccExec, EccNext, EccStateSet

(* A request to the ECC is answered, lost, or left in its queue.               *)
LEMMA EccCallEffect ==
  ASSUME EccTypes, count \in CountType, NEW c \in RequestSet, NEW ok \in BOOLEAN,
         EccCall(c, ok)
  PROVE  /\ EccTypes' /\ count' \in CountType
         /\ ok => ecc_late = << >> /\ ecc_late' = << >> /\ EccExec(c)
         /\ ~ok => /\ ecc' = ecc /\ link' = link
                   /\ ecc_late' = ecc_late \/ ecc_late' = Append(ecc_late, c)
<1>1. CASE ok
  <2>1. EccExec(c) /\ ecc_late = << >> /\ ecc_late' = ecc_late /\ count' = count
    BY <1>1 DEF EccCall
  <2>2. ecc' \in EccStateSet
    BY <2>1, EccExecEffect DEF EccTypes
  <2> QED
    BY <1>1, <2>1, <2>2 DEF EccTypes
<1>2. CASE ~ok
  <2>1. /\ count' = [count EXCEPT !.lost = @ + 1] /\ ecc' = ecc /\ link' = link
        /\ ecc_late' = ecc_late \/ ecc_late' = Append(ecc_late, c)
    BY <1>2 DEF EccCall, Lose
  <2>2. count' \in CountType
    BY <2>1 DEF CountType
  <2>3. EccTypes'
    BY <2>1 DEF EccTypes
  <2> QED
    BY <1>2, <2>1, <2>2, <2>3
<1> QED
  BY <1>1, <1>2

UndoRest == Rolled /\ Surveyed /\ Halted /\ Closing

(* The start is given up: the rollback has everything still to do.             *)
LEMMA RollbackBegins ==
  ASSUME ControlTypes, Rollback, stage # "off", UNCHANGED <<seq, phase, run, next_run>>,
         count' \in CountType
  PROVE  ControlTypes' /\ UndoRest'
<1>1. stage' = "rbStop" /\ todo' = seq.touched /\ seq' = seq
  BY DEF Rollback, Goto
<1>2. ControlTypes'
  BY <1>1 DEF ControlTypes, LocalsType, Stages
<1>3. Rolled' /\ Surveyed' /\ Halted' /\ Closing'
  BY <1>1 DEF Rolled, Surveyed, Halted, Closing, WalkBackStages, BeforeClosing, ClosedStages, Waits
<1> QED
  BY <1>2, <1>3 DEF UndoRest

(* Stages that none of this is about.                                          *)
LEMMA UndoElsewhere ==
  ASSUME stage' \in {"Configure", "Arm", "Start", "ecc", "started"}
  PROVE  UndoRest'
BY DEF UndoRest, Rolled, Surveyed, Halted, Closing, WalkBackStages, BeforeClosing, ClosedStages, Waits

(* Stages before a run may be taken for closed.                                *)
LEMMA UndoBefore ==
  ASSUME stage' \in {"off", "eccStatus", "eccWalk", "wait", "wait2", "status", "force"}, ~seq'.closed
  PROVE  UndoRest'
BY DEF UndoRest, Rolled, Surveyed, Halted, Closing, WalkBackStages, BeforeClosing, ClosedStages, Waits

ChainStill == UNCHANGED <<comp, late, fed, eos, graw, dec>>

(* A status request changes nothing.                                           *)
LEMMA AskEffect ==
  ASSUME count \in CountType, NEW i, NEW ok \in BOOLEAN, Ask(i, ok)
  PROVE  count' \in CountType /\ ChainStill /\ (ok => late[i] = << >>)
BY DEF Ask, Lose, CountType, ChainStill, chainVars, flowVars

(* A sequence starts with nothing touched and nothing taken for closed.       *)
LEMMA LocalsTyped == Locals \in LocalsType /\ Locals.closed = FALSE /\ Locals.touched = {}
BY SequencerAssumption DEF Locals, LocalsType, Blank, Reported, States, EccStateSet,
  EccWalkBackMaxSteps

(* walk_ecc_back_to_idle and the survey.                                       *)
LEMMA SurveySteps ==
  ASSUME UndoInv, EccStatus \/ EccWalk \/ EccWalked \/ Survey \/ SurveyDone
  PROVE  ControlTypes' /\ UndoRest'
<1>0. /\ ChainTypes /\ EccTypes /\ ControlTypes
      /\ UNCHANGED <<phase, run, next_run, missed, failed>> /\ ChainStill
  BY DEF UndoInv, EccStatus, EccWalk, EccWalked, Survey, SurveyDone, Ask, chainVars, flowVars, runVars,
    ctlVars, ChainStill
<1>1. CASE EccStatus
  <2>1. PICK ok \in BOOLEAN :
          /\ EccCall(Cmd("status", 0), ok)
          /\ IF ok THEN Goto("eccWalk", {}) /\ seq' = [seq EXCEPT !.seen = ecc]
             ELSE Rollback /\ UNCHANGED seq
    BY <1>1 DEF EccStatus
  <2>2. count' \in CountType /\ stage = "eccStatus"
    <3>1. Cmd("status", 0) \in RequestSet
      BY DEF Cmd, RequestSet
    <3> QED
      BY <1>0, <1>1, <2>1, <3>1, EccCallEffect DEF ControlTypes, EccStatus
  <2>3. CASE ok
    <3>1. stage' = "eccWalk" /\ todo' = {} /\ seq' = [seq EXCEPT !.seen = ecc]
      BY <2>1, <2>3 DEF Goto
    <3>2. ControlTypes' /\ seq'.closed = seq.closed
      BY <1>0, <2>2, <3>1 DEF ControlTypes, LocalsType, EccTypes, Stages
    <3> QED
      BY <2>2, <3>1, <3>2, UndoBefore DEF UndoInv, Closing, BeforeClosing
  <2>4. CASE ~ok
    BY <1>0, <2>1, <2>2, <2>4, RollbackBegins
  <2> QED
    BY <2>3, <2>4
<1>2. CASE EccWalk
  <2>0. stage = "eccWalk"
    BY <1>2 DEF EccWalk
  <2>1. CASE Rollback /\ UNCHANGED <<eccVars, seq, count>>
    BY <1>0, <2>0, <2>1, RollbackBegins DEF ControlTypes
  <2>2. ASSUME seq.steps # EccWalkBackMaxSteps, NEW ok \in BOOLEAN,
               EccCall(Cmd(WalkBackAction, 0), ok),
               IF ok /\ ecc' # seq.seen
               THEN Stay /\ seq' = [seq EXCEPT !.seen = ecc', !.steps = @ + 1]
               ELSE Rollback /\ UNCHANGED seq
        PROVE  ControlTypes' /\ UndoRest'
    <3>1. Cmd(WalkBackAction, 0) \in RequestSet
      BY DEF Cmd, WalkBackAction, RequestSet
    <3>2. EccTypes' /\ count' \in CountType
      BY <1>0, <2>2, <3>1, EccCallEffect DEF ControlTypes
    <3>3. CASE Stay /\ seq' = [seq EXCEPT !.seen = ecc', !.steps = @ + 1]
      <4>0. seq.steps + 1 \in 0 .. EccWalkBackMaxSteps
        BY <1>0, <2>2 DEF ControlTypes, LocalsType, EccWalkBackMaxSteps
      <4>1. seq' \in LocalsType /\ seq'.closed = seq.closed
        BY <1>0, <3>2, <3>3, <4>0 DEF ControlTypes, LocalsType, EccTypes
      <4>2. ControlTypes'
        BY <1>0, <2>0, <3>2, <3>3, <4>1 DEF ControlTypes, Stay
      <4> QED
        BY <2>0, <3>3, <4>1, <4>2, UndoBefore DEF Stay, UndoInv, Closing, BeforeClosing
    <3>4. CASE Rollback /\ UNCHANGED seq
      BY <1>0, <2>0, <3>2, <3>4, RollbackBegins
    <3> QED
      BY <2>2, <3>3, <3>4
  <2> QED
    BY <1>2, <2>1, <2>2 DEF EccWalk
<1>3. CASE EccWalked
  <2>1. stage = "eccWalk" /\ stage' = "survey" /\ todo' = Components /\ UNCHANGED <<seq, count>>
    BY <1>3 DEF EccWalked, Goto, ctlVars
  <2>2. ControlTypes'
    BY <1>0, <2>1 DEF ControlTypes, Stages
  <2>3. UndoRest'
    BY <2>1 DEF UndoInv, UndoRest, Rolled, Surveyed, Halted, Closing, WalkBackStages, BeforeClosing,
      ClosedStages
  <2> QED
    BY <2>2, <2>3
<1>4. CASE Survey
  <2>1. PICK ok \in BOOLEAN :
          /\ Ask(Highest, ok)
          /\ IF ok THEN /\ Goto("survey", todo \ {Highest})
                        /\ seq' = [seq EXCEPT !.before[Highest] = comp[Highest]]
             ELSE Rollback /\ UNCHANGED seq
    BY <1>4 DEF Survey
  <2> DEFINE h == Highest
  <2>2. stage = "survey" /\ count' \in CountType
    BY <1>0, <1>4, <2>1 DEF Survey, Ask, Lose, ControlTypes, CountType
  <2>3. CASE ok
    <3>1. /\ late[h] = << >> /\ stage' = "survey" /\ todo' = todo \ {h}
          /\ seq' = [seq EXCEPT !.before[h] = comp[h]]
      BY <2>1, <2>3 DEF Ask, Goto
    <3> HIDE DEF h
    <3>2. \A j \in Components : seq'.before[j] = IF j = h THEN comp[j] ELSE seq.before[j]
      BY <1>0, <3>1 DEF ControlTypes, LocalsType
    <3>3. seq' \in LocalsType /\ seq'.closed = seq.closed
      <4>1. [seq.before EXCEPT ![h] = comp[h]] \in [Components -> Reported]
        BY <1>0 DEF ControlTypes, LocalsType, ChainTypes
      <4>2. seq' = [seq EXCEPT !.before = [seq.before EXCEPT ![h] = comp[h]]]
        BY <3>1
      <4> QED
        BY <1>0, <4>1, <4>2 DEF ControlTypes, LocalsType
    <3>4. ControlTypes'
      BY <1>0, <2>2, <3>1, <3>3 DEF ControlTypes
    <3>5. Rolled' /\ Halted' /\ Closing'
      BY <2>2, <3>1, <3>3 DEF UndoInv, Rolled, Halted, Closing, BeforeClosing, ClosedStages
    <3>6. Surveyed'
      BY <1>0, <2>2, <3>1, <3>2 DEF UndoInv, Surveyed, ChainStill, WalkBackStages
    <3> QED
      BY <3>4, <3>5, <3>6 DEF UndoRest
  <2>4. CASE ~ok
    BY <1>0, <2>1, <2>2, <2>4, RollbackBegins
  <2> QED
    BY <2>3, <2>4
<1>5. CASE SurveyDone
  <2>1. stage = "survey" /\ todo = {} /\ count' = count
    BY <1>5 DEF SurveyDone
  <2>2. \A i \in Components : late[i] = << >> /\ (comp[i].state = "Running" => i \in WasRunning)
    BY <2>1 DEF UndoInv, Surveyed, WasRunning
  <2>3. WasRunning \subseteq Components
    BY DEF WasRunning
  <2>4. CASE stage' = "wbWait" /\ todo' = {} /\ seq' = seq
    <3>1. ControlTypes'
      BY <1>0, <2>1, <2>4 DEF ControlTypes, Stages, Waits
    <3>2. UndoRest'
      BY <1>0, <2>1, <2>4 DEF UndoInv, UndoRest, Rolled, Surveyed, Halted, Closing, WalkBackStages,
        BeforeClosing, ClosedStages, Waits, ChainStill
    <3> QED
      BY <3>1, <3>2
  <2>5. CASE /\ stage' = "wbStop" /\ todo' = WasRunning
             /\ seq' = [seq EXCEPT !.forced = WasRunning \cap Receivers # {}]
    <3>1. /\ seq' \in LocalsType /\ seq'.closed = seq.closed /\ seq'.before = seq.before
      BY <1>0, <2>5 DEF ControlTypes, LocalsType
    <3>2. ControlTypes'
      BY <1>0, <2>1, <2>3, <2>5, <3>1 DEF ControlTypes, Stages
    <3>3. Rolled' /\ Closing'
      BY <2>1, <2>5, <3>1 DEF UndoInv, Rolled, Closing, BeforeClosing, ClosedStages, Waits
    <3>4. Surveyed'
      BY <1>0, <2>1, <2>5, <3>1 DEF UndoInv, Surveyed, ChainStill, WalkBackStages
    <3>5. Halted'
      BY <1>0, <2>2, <2>5 DEF Halted, ChainStill
    <3> QED
      BY <3>2, <3>3, <3>4, <3>5 DEF UndoRest
  <2> QED
    BY <1>5, <2>4, <2>5 DEF SurveyDone, Goto
<1> QED
  BY <1>1, <1>2, <1>3, <1>4, <1>5

(* previous_run_number is a run number, or none.                               *)
LEMMA PreviousRunTyped ==
  ASSUME ControlTypes
  PROVE  PreviousRun \in Nat
<1> DEFINE reported == {seq.before[i].run : i \in Components} \ {0}
<1>1. reported \subseteq Nat
  BY DEF ControlTypes, LocalsType, Reported
<1>2. CASE Cardinality(reported) = 1
  <2>1. reported # {}
    BY <1>2, FS_EmptySet
  <2>2. (CHOOSE n \in reported : TRUE) \in reported
    BY <2>1
  <2> QED
    BY <1>1, <1>2, <2>2 DEF PreviousRun
<1>3. CASE Cardinality(reported) # 1
  BY <1>3 DEF PreviousRun
<1> QED
  BY <1>2, <1>3

(* From one stage of the walk-back to the next.                                *)
LEMMA WalkBackDoneStep ==
  ASSUME UndoInv, WalkBackDone
  PROVE  ControlTypes' /\ UndoRest'
<1>0. /\ ChainTypes /\ ControlTypes /\ todo = {}
      /\ UNCHANGED <<phase, run, next_run, missed, failed, count>> /\ ChainStill
  BY DEF UndoInv, WalkBackDone, chainVars, flowVars, runVars, ChainStill
<1>1. CASE stage = "wbForce" /\ Goto("wbWait2", {}) /\ seq' = [seq EXCEPT !.poll = "none"]
  <2>1. stage' = "wbWait2" /\ todo' = {}
    BY <1>1 DEF Goto
  <2>2. seq' \in LocalsType /\ seq'.closed = seq.closed /\ seq'.before = seq.before
    BY <1>0, <1>1 DEF ControlTypes, LocalsType
  <2>3. ControlTypes'
    BY <1>0, <1>1, <2>1, <2>2 DEF ControlTypes, Stages, Waits
  <2>4. Rolled' /\ Closing'
    BY <1>1, <2>1, <2>2 DEF UndoInv, Rolled, Closing, BeforeClosing, ClosedStages, Waits
  <2>5. Surveyed' /\ Halted'
    BY <1>0, <1>1, <2>1, <2>2 DEF UndoInv, Surveyed, Halted, ChainStill, WalkBackStages
  <2> QED
    BY <2>3, <2>4, <2>5 DEF UndoRest
<1>2. CASE /\ stage = "wbStop" /\ Goto("wbReset", WasActive)
           /\ seq' = [seq EXCEPT !.walked = IF WasRunning = {} THEN 0 ELSE PreviousRun]
  <2>1. stage' = "wbReset" /\ todo' = WasActive /\ WasActive \subseteq Components
    BY <1>2 DEF Goto, WasActive
  <2>2. seq' \in LocalsType /\ seq'.closed = seq.closed /\ seq'.before = seq.before
    <3>1. PICK n \in Nat : n = IF WasRunning = {} THEN 0 ELSE PreviousRun
      BY <1>0, PreviousRunTyped
    <3> QED
      BY <1>0, <1>2, <3>1 DEF ControlTypes, LocalsType
  <2>3. ControlTypes'
    BY <1>0, <1>2, <2>1, <2>2 DEF ControlTypes, Stages
  <2>4. Rolled' /\ Closing'
    BY <1>0, <1>2, <2>1, <2>2 DEF UndoInv, Rolled, Closing, BeforeClosing, ClosedStages, Waits, ChainStill
  <2>5. Surveyed' /\ Halted'
    BY <1>0, <1>2, <2>1, <2>2 DEF UndoInv, Surveyed, Halted, ChainStill, WalkBackStages
  <2> QED
    BY <2>3, <2>4, <2>5 DEF UndoRest
<1>3. CASE stage = "wbReset" /\ Goto("Configure", Components) /\ UNCHANGED seq
  <2>1. stage' = "Configure" /\ todo' = Components
    BY <1>3 DEF Goto
  <2>2. ControlTypes'
    BY <1>0, <1>3, <2>1 DEF ControlTypes, Stages
  <2> QED
    BY <2>1, <2>2, UndoElsewhere
<1> QED
  BY <1>1, <1>2, <1>3 DEF WalkBackDone

(* A wait ends: the run is taken for closed only when the decoder has sent all *)
(* it owes.                                                                    *)
LEMMA WaitEndsStep ==
  ASSUME UndoInv, stage \in Waits, NEW closed \in BOOLEAN, WaitEnds(closed), ChainStill,
         UNCHANGED <<phase, run, next_run, missed, failed>>, count' \in CountType,
         closed => dec.out /\ dec.eos = Receivers /\ Lacks(late[Decoder], "Start")
  PROVE  ControlTypes' /\ UndoRest'
<1>0. ControlTypes /\ Surveyed /\ Halted
  BY DEF UndoInv
<1>1. \/ stage = "wbWait" /\ closed /\ stage' = "wbStop" /\ todo' = Components
      \/ stage = "wbWait" /\ ~closed /\ stage' = "wbForce" /\ todo' = Receivers
      \/ stage = "wbWait2" /\ stage' = "wbStop" /\ todo' = Components \ Receivers
      \/ stage = "wait" /\ closed /\ stage' = "foldStop" /\ todo' = Components
      \/ stage = "wait" /\ ~closed /\ stage' = "force" /\ todo' = Receivers
      \/ stage = "wait2" /\ stage' = "foldStop" /\ todo' = Components
  BY DEF WaitEnds, Waits, Goto
<1>2. seq' = [seq EXCEPT !.forced = ~closed \/ seq.forced, !.closed = closed, !.poll = "none"]
  BY DEF WaitEnds
<1>3. seq' \in LocalsType /\ seq'.closed = closed /\ seq'.before = seq.before
  BY <1>0, <1>2 DEF ControlTypes, LocalsType
<1>4. Receivers \subseteq Components
  BY SequencerAssumption DEF Receivers, Components
<1>5. ControlTypes'
  BY <1>0, <1>1, <1>3, <1>4 DEF ControlTypes, Stages, Waits
<1>6. Rolled' /\ Closing'
  BY <1>1, <1>3 DEF Rolled, Closing, BeforeClosing, ClosedStages, Waits, ChainStill
<1>7. Surveyed'
  BY <1>0, <1>1, <1>3 DEF Surveyed, ChainStill, WalkBackStages
<1>8. Halted'
  BY <1>0, <1>1, <1>3 DEF Halted, ChainStill
<1> QED
  BY <1>5, <1>6, <1>7, <1>8 DEF UndoRest

(* wait_eos: the polls and the deadline.                                      *)
LEMMA WaitSteps ==
  ASSUME UndoInv, PollGraw \/ PollDecoder \/ GiveUp
  PROVE  ControlTypes' /\ UndoRest'
<1>0. /\ ControlTypes /\ stage \in Waits
      /\ UNCHANGED <<phase, run, next_run, missed, failed>> /\ ChainStill
  BY DEF UndoInv, PollGraw, PollDecoder, GiveUp, Ask, chainVars, flowVars, runVars, ChainStill
<1>1. count' \in CountType
  <2>1. count \in CountType
    BY <1>0 DEF ControlTypes
  <2>2. CASE PollGraw \/ PollDecoder
    BY <2>1, <2>2, AskEffect DEF PollGraw, PollDecoder
  <2>3. CASE GiveUp
    BY <2>1, <2>3 DEF GiveUp
  <2> QED
    BY <2>2, <2>3
<1>2. ASSUME Stay, NEW p \in {"none", "no", "graw"}, seq' = [seq EXCEPT !.poll = p]
      PROVE  ControlTypes' /\ UndoRest'
  <2>1. seq' \in LocalsType /\ seq'.closed = seq.closed /\ seq'.before = seq.before
    BY <1>0, <1>2 DEF ControlTypes, LocalsType
  <2>2. ControlTypes'
    BY <1>0, <1>1, <1>2, <2>1 DEF ControlTypes, Stay
  <2>3. Rolled' /\ Closing'
    BY <1>0, <1>2, <2>1 DEF UndoInv, Rolled, Closing, BeforeClosing, ClosedStages, Waits, Stay
  <2>4. Surveyed' /\ Halted'
    BY <1>0, <1>2, <2>1 DEF UndoInv, Surveyed, Halted, ChainStill, Stay
  <2> QED
    BY <2>2, <2>3, <2>4 DEF UndoRest
<1>3. CASE PollGraw
  BY <1>2, <1>3 DEF PollGraw
<1>4. CASE PollDecoder
  <2>1. PICK ok \in BOOLEAN :
          /\ Ask(Decoder, ok)
          /\ IF ok /\ dec.eos = Receivers /\ dec.out THEN WaitEnds(TRUE)
             ELSE Stay /\ seq' = [seq EXCEPT !.poll = "no"]
    BY <1>4 DEF PollDecoder
  <2>2. CASE ok /\ dec.eos = Receivers /\ dec.out
    <3>1. late[Decoder] = << >> /\ WaitEnds(TRUE)
      BY <2>1, <2>2 DEF Ask
    <3> QED
      BY <1>0, <1>1, <2>2, <3>1, LacksEmpty, WaitEndsStep
  <2>3. CASE ~(ok /\ dec.eos = Receivers /\ dec.out)
    BY <1>2, <2>1, <2>3
  <2> QED
    BY <2>2, <2>3
<1>5. CASE GiveUp
  BY <1>0, <1>1, <1>5, WaitEndsStep DEF GiveUp
<1> QED
  BY <1>3, <1>4, <1>5

(* A start that goes on, and its end.                                          *)
LEMMA StartSteps ==
  ASSUME UndoInv,
         ChainDone \/ EccStart \/ RecordWalkedBack \/ RunStarted \/ RunFailed \/ RunStart
  PROVE  ControlTypes' /\ UndoRest'
<1>0. /\ ControlTypes /\ EccTypes /\ Rolled /\ ChainStill
  BY DEF UndoInv, ChainDone, EccStart, RecordWalkedBack, RunStarted, RunFailed, RunStart,
    chainVars, flowVars, ChainStill
<1>1. CASE ChainDone
  <2>1. /\ stage \in {"Configure", "Arm", "Start"} /\ stage' \in {"Arm", "Start", "ecc"}
        /\ todo' \in {Components, {}} /\ (seq' = seq \/ seq' = [seq EXCEPT !.steps = 1])
        /\ UNCHANGED <<phase, run, next_run, count>>
    BY <1>1 DEF ChainDone, Goto, runVars
  <2>2. seq' \in LocalsType
    BY <1>0, <2>1 DEF ControlTypes, LocalsType, EccWalkBackMaxSteps
  <2>3. ControlTypes'
    BY <1>0, <2>1, <2>2 DEF ControlTypes, Stages
  <2> QED
    BY <2>1, <2>3, UndoElsewhere
<1>2. CASE EccStart
  <2>1. PICK ok \in BOOLEAN :
          /\ EccCall(Cmd(EccRequests[seq.steps], run), ok)
          /\ IF ~ok THEN Rollback /\ UNCHANGED seq
             ELSE IF seq.steps < Len(EccRequests)
                  THEN Stay /\ seq' = [seq EXCEPT !.steps = @ + 1]
                  ELSE Goto("started", {}) /\ UNCHANGED seq
    BY <1>2 DEF EccStart
  <2>2. stage = "ecc" /\ UNCHANGED <<phase, run, next_run>>
    BY <1>2 DEF EccStart, runVars
  <2>3. count' \in CountType
    <3>1. CASE ok
      BY <1>0, <2>1, <3>1 DEF EccCall, ControlTypes
    <3>2. CASE ~ok
      BY <1>0, <2>1, <3>2 DEF EccCall, Lose, ControlTypes, CountType
    <3> QED
      BY <3>1, <3>2
  <2>4. CASE Rollback /\ UNCHANGED seq
    BY <1>0, <2>2, <2>3, <2>4, RollbackBegins
  <2>5. CASE seq.steps < Len(EccRequests) /\ Stay /\ seq' = [seq EXCEPT !.steps = @ + 1]
    <3>1. seq.steps + 1 \in 0 .. EccWalkBackMaxSteps
      BY <1>0, <2>5 DEF ControlTypes, LocalsType, EccWalkBackMaxSteps, EccRequests
    <3>2. seq' \in LocalsType
      BY <1>0, <2>5, <3>1 DEF ControlTypes, LocalsType
    <3>3. ControlTypes' /\ stage' = "ecc"
      BY <1>0, <2>2, <2>3, <2>5, <3>2 DEF ControlTypes, Stay
    <3> QED
      BY <3>3, UndoElsewhere
  <2>6. CASE Goto("started", {}) /\ UNCHANGED seq
    <3>1. ControlTypes' /\ stage' = "started"
      BY <1>0, <2>2, <2>3, <2>6 DEF ControlTypes, Goto, Stages
    <3> QED
      BY <3>1, UndoElsewhere
  <2> QED
    BY <2>1, <2>4, <2>5, <2>6
<1>3. CASE RecordWalkedBack
  <2>1. /\ stage \in {"started", "failed"} /\ seq' = [seq EXCEPT !.walked = 0]
        /\ UNCHANGED <<phase, run, next_run, missed, stage, todo, count>>
    BY <1>3 DEF RecordWalkedBack
  <2>2. seq' \in LocalsType /\ seq'.touched = seq.touched
    BY <1>0, <2>1 DEF ControlTypes, LocalsType
  <2>3. ControlTypes'
    BY <1>0, <2>1, <2>2 DEF ControlTypes
  <2>4. Rolled'
    BY <1>0, <2>1, <2>2 DEF Rolled, ChainStill
  <2>5. Surveyed' /\ Halted' /\ Closing'
    BY <2>1 DEF Surveyed, Halted, Closing, WalkBackStages, BeforeClosing, ClosedStages, Waits
  <2> QED
    BY <2>3, <2>4, <2>5 DEF UndoRest
<1>4. CASE RunStarted \/ RunFailed \/ RunStart
  <2>1. /\ \/ stage' = "off" /\ phase' \in {"Idle", "Running"}
           \/ stage' = "eccStatus" /\ phase' = "Starting"
        /\ todo' = {} /\ seq' = Locals /\ run' \in {run, next_run}
        /\ next_run' \in {run, next_run, next_run + 1} /\ count' = count
    BY <1>4 DEF RunStarted, RunFailed, RunStart, Goto
  <2>2. ControlTypes'
    BY <1>0, <2>1, LocalsTyped DEF ControlTypes, Stages
  <2> QED
    BY <2>1, <2>2, LocalsTyped, UndoBefore
<1> QED
  BY <1>1, <1>2, <1>3, <1>4

(* A stop, and the death of the controller.                                    *)
LEMMA StopSteps ==
  ASSUME UndoInv, StopStatus \/ EccStop \/ FoldDone \/ RunStop \/ Crash
  PROVE  ControlTypes' /\ UndoRest'
<1>0. /\ ControlTypes /\ EccTypes /\ Rolled /\ ChainStill
      /\ stage \in {"off", "status"} => ~seq.closed
  BY DEF UndoInv, StopStatus, EccStop, FoldDone, RunStop, Crash, Ask, chainVars, flowVars, ChainStill,
    Closing, BeforeClosing
<1>1. CASE StopStatus
  <2>1. PICK ok \in BOOLEAN : /\ Ask(Lowest, ok)
                              /\ seq' = [seq EXCEPT !.abort = @ \/ ~ok \/ comp[Lowest].state = "Error"]
    BY <1>1 DEF StopStatus
  <2>2. /\ stage = "status" /\ stage' = "status" /\ todo' \subseteq todo
        /\ UNCHANGED <<phase, run, next_run>>
    BY <1>1 DEF StopStatus, Goto, runVars
  <2>3. seq' \in LocalsType /\ seq'.closed = seq.closed
    BY <1>0, <2>1 DEF ControlTypes, LocalsType
  <2>4. count' \in CountType
    BY <1>0, <2>1, AskEffect DEF ControlTypes
  <2>5. ControlTypes'
    BY <1>0, <2>2, <2>3, <2>4 DEF ControlTypes
  <2> QED
    BY <1>0, <2>2, <2>3, <2>5, UndoBefore
<1>2. CASE EccStop
  <2>1. PICK ok \in BOOLEAN : EccCall(Cmd("stop", 0), ok)
    BY <1>2 DEF EccStop
  <2>2. /\ stage = "status" /\ UNCHANGED <<phase, run, next_run>>
        /\ \/ stage' = "force" /\ todo' = Receivers /\ seq' = [seq EXCEPT !.forced = TRUE]
           \/ stage' = "wait" /\ todo' = {} /\ seq' = seq
    BY <1>2 DEF EccStop, Goto, runVars
  <2>3. Receivers \subseteq Components
    BY SequencerAssumption DEF Receivers, Components
  <2>4. seq' \in LocalsType /\ seq'.closed = seq.closed
    BY <1>0, <2>2 DEF ControlTypes, LocalsType
  <2>5. count' \in CountType
    <3>1. Cmd("stop", 0) \in RequestSet
      BY DEF Cmd, RequestSet
    <3> QED
      BY <1>0, <2>1, <3>1, EccCallEffect DEF ControlTypes
  <2>6. ControlTypes'
    BY <1>0, <2>2, <2>3, <2>4, <2>5 DEF ControlTypes, Stages, Waits
  <2> QED
    BY <1>0, <2>2, <2>4, <2>6, UndoBefore
<1>3. CASE FoldDone
  <2>1. todo = {} /\ UNCHANGED <<run, next_run, missed, count>>
    BY <1>3 DEF FoldDone
  <2>2. CASE stage = "rbStop" /\ stage' = "failed" /\ todo' = {} /\ UNCHANGED <<phase, seq>>
    <3>1. ControlTypes'
      BY <1>0, <2>1, <2>2 DEF ControlTypes, Stages
    <3>2. Rolled'
      BY <1>0, <2>1, <2>2 DEF Rolled, ChainStill
    <3>3. Surveyed' /\ Halted' /\ Closing'
      BY <2>2 DEF Surveyed, Halted, Closing, WalkBackStages, BeforeClosing, ClosedStages, Waits
    <3> QED
      BY <3>1, <3>2, <3>3 DEF UndoRest
  <2>3. CASE stage' = "off" /\ todo' = {} /\ phase' = "Idle" /\ seq' = Locals
    <3>1. ControlTypes'
      BY <1>0, <2>1, <2>3, LocalsTyped DEF ControlTypes, Stages
    <3> QED
      BY <2>3, <3>1, LocalsTyped, UndoBefore
  <2> QED
    BY <1>3, <2>2, <2>3 DEF FoldDone, Goto
<1>4. CASE RunStop
  <2>1. /\ stage = "off" /\ stage' = "status" /\ todo' = Components /\ phase' = "Stopping"
        /\ UNCHANGED <<run, next_run, seq>>
    BY <1>0, <1>4 DEF RunStop, Goto, ControlTypes
  <2>2. count' \in CountType
    BY <1>0, <1>4 DEF RunStop, ControlTypes, CountType
  <2>3. ControlTypes'
    BY <1>0, <2>1, <2>2 DEF ControlTypes, Stages
  <2> QED
    BY <1>0, <2>1, <2>3, UndoBefore
<1>5. CASE Crash
  <2>1. /\ stage' = "off" /\ todo' = {} /\ phase' = "Idle" /\ seq' = Locals
        /\ run' = 0 /\ next_run' = next_run
    BY <1>5 DEF Crash
  <2>2. count' \in CountType
    BY <1>0, <1>5 DEF Crash, ControlTypes, CountType
  <2>3. ControlTypes'
    BY <1>0, <2>1, <2>2, LocalsTyped DEF ControlTypes, Stages
  <2> QED
    BY <2>1, <2>3, LocalsTyped, UndoBefore
<1> QED
  BY <1>1, <1>2, <1>3, <1>4, <1>5

-------------------------------------------------------------------------------
(* The stages that send commands to the chain                                  *)

(* Natural numbers have a least one.                                           *)
LEMMA LeastNatural ==
  ASSUME NEW T, T \subseteq Nat, T # {}
  PROVE  \E x \in T : \A y \in T : x <= y
<1>1. PICK x \in T : \A y \in T : ~(<<y, x>> \in OpToRel(<, Nat))
  BY NatLessThanWellFounded, WFMin
<1>2. ASSUME NEW y \in T PROVE x <= y
  <2>1. x \in Nat /\ y \in Nat /\ <<y, x>> \in Nat \X Nat
    OBVIOUS
  <2>2. ~(y < x)
    BY <1>1, <2>1 DEF OpToRel
  <2> QED
    BY <2>1, <2>2
<1> QED
  BY <1>2

(* A stage with something left to visit visits one of these.                   *)
LEMMA SomethingLeft ==
  ASSUME ControlTypes, todo # {}
  PROVE  Lowest \in todo /\ Highest \in todo
<1> DEFINE n == NReceivers + 2
<1>1. n \in Nat /\ \A i \in todo : i \in Nat /\ i <= n
  BY SequencerAssumption DEF ControlTypes, Components
<1> HIDE DEF n
<1>2. \E i \in todo : \A j \in todo : i <= j
  BY <1>1, LeastNatural
<1>3. \E i \in todo : \A j \in todo : i >= j
  <2> DEFINE T == {k \in Nat : \E i \in todo : k = n - i}
  <2>1. T \subseteq Nat /\ T # {}
    <3>1. PICK i \in todo : TRUE
      OBVIOUS
    <3>2. n - i \in Nat
      BY <1>1
    <3> QED
      BY <3>2
  <2>2. PICK x \in T : \A y \in T : x <= y
    <3> HIDE DEF T
    <3> QED
      BY <2>1, LeastNatural
  <2>3. PICK i \in todo : x = n - i
    OBVIOUS
  <2>4. ASSUME NEW j \in todo PROVE i >= j
    <3>1. n - j \in T
      BY <1>1
    <3>2. x <= n - j
      BY <2>2, <3>1
    <3> QED
      BY <1>1, <2>3, <3>2
  <2> QED
    BY <2>4
<1> QED
  BY <1>2, <1>3 DEF Lowest, Highest

(* A command of the walk-back is answered: what it went to runs no more, and   *)
(* the others are as they were.                                                *)
LEMMA WalkBackSteps ==
  ASSUME UndoInv, WalkBackStep
  PROVE  ChainTypes' /\ ControlTypes' /\ UndoRest'
<1>0. /\ ChainTypes /\ ControlTypes /\ Surveyed /\ Halted /\ Closing
      /\ stage \in {"wbForce", "wbStop", "wbReset"}
      /\ UNCHANGED <<phase, run, next_run, seq, missed, failed>>
  BY DEF UndoInv, WalkBackStep, ctlVars, runVars
<1> DEFINE h == Highest
           c == Cmd(IF stage = "wbReset" THEN "Reset" ELSE "Stop", 0)
<1>1. PICK ok \in BOOLEAN : /\ Call(h, c, ok)
                            /\ IF ok THEN Goto(stage, todo \ {h}) ELSE Rollback
  BY DEF WalkBackStep
<1>2. c \in CommandSet /\ c.name = IF stage = "wbReset" THEN "Reset" ELSE "Stop"
  BY DEF Cmd, CommandSet, Commands
<1> HIDE DEF h, c
<1>3. count \in CountType
  BY <1>0 DEF ControlTypes
<1>4. /\ ChainTypes' /\ count' \in CountType
      /\ \A j \in Components : j # h => comp'[j] = comp[j] /\ late'[j] = late[j]
      /\ \A j \in Components : j = h => \/ late'[j] = late[j] /\ late[j] = << >> /\ Obeys(j, c, ok)
                                        \/ ~ok
      /\ (h = Decoder /\ c.name = "Start") \/ (dec'.eos = dec.eos /\ dec'.out = dec.out)
  BY <1>0, <1>1, <1>2, <1>3, CallEffect
<1>5. CASE ok
  <2>1. stage' = stage /\ todo' = todo \ {h}
    BY <1>1, <1>5 DEF Goto
  <2>2. ControlTypes'
    BY <1>0, <1>4, <2>1 DEF ControlTypes
  <2>3. \A j \in Components : /\ late'[j] = late[j]
                              /\ comp'[j].state = "Running" => comp[j].state = "Running"
                              /\ j = h /\ stage # "wbReset" => comp'[j].state # "Running"
    BY <1>2, <1>4, <1>5 DEF Obeys
  <2>4. Rolled'
    BY <1>0, <2>1 DEF Rolled
  <2>5. Surveyed'
    BY <1>0, <2>1, <2>3 DEF Surveyed, WalkBackStages
  <2>6. Halted'
    BY <1>0, <2>1, <2>3 DEF Halted
  <2>7. Closing'
    <3>1. Decoder \in Components
      BY SequencerAssumption DEF Decoder, Components
    <3>2. late'[Decoder] = late[Decoder] /\ dec'.eos = dec.eos /\ dec'.out = dec.out
      BY <1>2, <1>4, <2>3, <3>1
    <3> QED
      BY <1>0, <2>1, <3>2 DEF Closing, BeforeClosing, ClosedStages, Waits
  <2> QED
    BY <1>4, <2>2, <2>4, <2>5, <2>6, <2>7 DEF UndoRest
<1>6. CASE ~ok
  BY <1>0, <1>1, <1>4, <1>6, RollbackBegins
<1> QED
  BY <1>5, <1>6

(* Configure, Arm and Start go on or are rolled back; the forced EOS goes on   *)
(* whatever the receivers answer.                                              *)
LEMMA ChainSteps ==
  ASSUME UndoInv, ChainStep \/ ArmStep \/ ForceEos
  PROVE  ChainTypes' /\ ControlTypes' /\ UndoRest'
<1>0. /\ ChainTypes /\ ControlTypes /\ count \in CountType /\ run \in Nat
      /\ UNCHANGED <<phase, run, next_run, missed>>
  BY DEF UndoInv, ControlTypes, ChainStep, ArmStep, ForceEos, ctlVars, runVars
<1> DEFINE i == Lowest
<1>1. ASSUME NEW c \in CommandSet, NEW ok \in BOOLEAN, Call(i, c, ok)
      PROVE  ChainTypes' /\ count' \in CountType
  BY <1>0, <1>1, CallEffect
<1>2. todo # {} => i \in todo
  BY <1>0, SomethingLeft
<1> HIDE DEF i
<1>3. ASSUME todo # {}, stage \in {"Configure", "Arm", "Start"}, Goto(stage, todo \ {i}), Touch(i),
             count' \in CountType
      PROVE  ControlTypes' /\ UndoRest'
  <2>1. seq' = [seq EXCEPT !.touched = @ \cup {i}, !.tries = 0]
    BY <1>3 DEF Touch
  <2>2. i \in Components /\ 0 \in 0 .. ArmAttempts - 1
    BY <1>0, <1>2, <1>3, SequencerAssumption DEF ControlTypes
  <2>3. seq' \in LocalsType
    BY <1>0, <2>1, <2>2 DEF ControlTypes, LocalsType
  <2>4. stage' = stage /\ todo' = todo \ {i}
    BY <1>3 DEF Goto
  <2>5. ControlTypes'
    BY <1>0, <1>3, <2>3, <2>4 DEF ControlTypes
  <2> QED
    BY <1>3, <2>4, <2>5, UndoElsewhere
<1>4. ASSUME stage # "off", Rollback, UNCHANGED seq, count' \in CountType
      PROVE  ControlTypes' /\ UndoRest'
  BY <1>0, <1>4, RollbackBegins
<1>5. CASE ChainStep
  <2>1. PICK ok \in BOOLEAN : /\ Call(i, Cmd(stage, run), ok)
                              /\ IF ok THEN Goto(stage, todo \ {i}) /\ Touch(i)
                                 ELSE Rollback /\ UNCHANGED seq
    BY <1>5 DEF ChainStep, i
  <2>2. stage \in {"Configure", "Start"} /\ todo # {} /\ Cmd(stage, run) \in CommandSet
    BY <1>0, <1>5 DEF ChainStep, Cmd, CommandSet, Commands
  <2> QED
    BY <1>1, <1>3, <1>4, <2>1, <2>2
<1>6. CASE ArmStep
  <2>1. PICK ok \in BOOLEAN :
          /\ Call(i, Cmd("Arm", 0), ok)
          /\ IF ok THEN Goto("Arm", todo \ {i}) /\ Touch(i)
             ELSE IF seq.tries + 1 < ArmAttempts
                  THEN Stay /\ seq' = [seq EXCEPT !.tries = @ + 1]
                  ELSE Rollback /\ UNCHANGED seq
    BY <1>6 DEF ArmStep, i
  <2>2. stage = "Arm" /\ todo # {} /\ Cmd("Arm", 0) \in CommandSet
    BY <1>6 DEF ArmStep, Cmd, CommandSet, Commands
  <2>3. ChainTypes' /\ count' \in CountType
    BY <1>1, <2>1, <2>2
  <2>4. CASE seq.tries + 1 < ArmAttempts /\ Stay /\ seq' = [seq EXCEPT !.tries = @ + 1]
    <3>1. seq.tries + 1 \in 0 .. ArmAttempts - 1
      BY <1>0, <2>4, SequencerAssumption DEF ControlTypes, LocalsType
    <3>2. seq' \in LocalsType
      BY <1>0, <2>4, <3>1 DEF ControlTypes, LocalsType
    <3>3. ControlTypes' /\ stage' = "Arm"
      BY <1>0, <2>2, <2>3, <2>4, <3>2 DEF ControlTypes, Stay
    <3> QED
      BY <2>3, <3>3, UndoElsewhere
  <2>5. CASE Goto("Arm", todo \ {i}) /\ Touch(i)
    BY <1>3, <2>2, <2>3, <2>5
  <2>6. CASE Rollback /\ UNCHANGED seq
    BY <1>4, <2>2, <2>3, <2>6
  <2> QED
    BY <2>1, <2>4, <2>5, <2>6
<1>7. CASE ForceEos
  <2>1. /\ stage = "force" /\ stage' \in {"force", "wait2"} /\ todo' \subseteq todo /\ seq' = seq
    BY <1>7 DEF ForceEos, Goto, ctlVars
  <2>2. ChainTypes' /\ count' \in CountType
    <3>1. CASE UNCHANGED <<chainVars, count>>
      BY <1>0, <3>1 DEF ChainTypes, chainVars, flowVars
    <3>2. ASSUME NEW ok \in BOOLEAN, Call(i, Cmd("Stop", 0), ok) PROVE ChainTypes' /\ count' \in CountType
      <4>1. Cmd("Stop", 0) \in CommandSet
        BY DEF Cmd, CommandSet, Commands
      <4> QED
        BY <1>1, <3>2, <4>1
    <3> QED
      BY <1>7, <3>1, <3>2 DEF ForceEos, i
  <2>3. ControlTypes'
    BY <1>0, <2>1, <2>2 DEF ControlTypes, Stages, Waits
  <2>4. ~seq'.closed
    BY <2>1 DEF UndoInv, Closing, BeforeClosing
  <2> QED
    BY <2>1, <2>2, <2>3, <2>4, UndoBefore
<1> QED
  BY <1>5, <1>6, <1>7

(* Rollback and stop fold the chain: what has been folded is Idle, unless an   *)
(* answer was missed; and a closed run stays closed.                           *)
LEMMA FoldSteps ==
  ASSUME UndoInv, FoldStop \/ FoldReset
  PROVE  ChainTypes' /\ ControlTypes' /\ UndoRest'
<1>0. /\ ChainTypes /\ ControlTypes /\ Rolled /\ Closing /\ count \in CountType
      /\ UNCHANGED <<phase, run, next_run, seq, failed>>
  BY DEF UndoInv, ControlTypes, FoldStop, FoldReset, runVars
<1> DEFINE h == Highest
<1>1. todo # {} => h \in todo
  BY <1>0, SomethingLeft
<1>2. PICK c \in CommandSet :
        /\ \/ UNCHANGED <<chainVars, count>> /\ stage = "foldStop"
           \/ \E ok \in BOOLEAN : Call(h, c, ok)
        /\ \/ /\ stage = "rbStop" /\ stage' = "rbReset" /\ todo' = todo /\ todo # {} /\ c.name = "Stop"
           \/ /\ stage = "foldStop" /\ stage' = "foldReset" /\ todo' = todo /\ c.name = "Stop"
           \/ /\ stage = "rbReset" /\ stage' = "rbStop" /\ todo' = todo \ {h} /\ c.name = "Reset"
           \/ /\ stage = "foldReset" /\ stage' = "foldStop" /\ todo' = todo \ {h} /\ c.name = "Reset"
        /\ missed' = (missed \/ ~Answered(h))
  <2>1. CASE FoldStop
    <3> Cmd("Stop", 0) \in CommandSet
      BY DEF Cmd, CommandSet, Commands
    <3> WITNESS Cmd("Stop", 0) \in CommandSet
    <3> QED
      BY <2>1 DEF FoldStop, Goto, Cmd
  <2>2. CASE FoldReset
    <3> Cmd("Reset", 0) \in CommandSet
      BY DEF Cmd, CommandSet, Commands
    <3> WITNESS Cmd("Reset", 0) \in CommandSet
    <3> QED
      BY <2>2 DEF FoldReset, Goto, Cmd
  <2> QED
    BY <2>1, <2>2
<1> HIDE DEF h
<1>3. /\ ChainTypes' /\ count' \in CountType
      /\ \A j \in Components : j # h => comp'[j] = comp[j] /\ late'[j] = late[j]
      /\ \A j \in Components : j = h /\ stage # "foldStop" /\ Answered(h) =>
           late'[j] = << >> /\ (c.name = "Reset" => comp'[j].state = "Idle")
      /\ \A j \in Components : late'[j] \in {late[j], Append(late[j], c)}
      /\ dec'.eos = dec.eos /\ dec'.out = dec.out
  <2>1. CASE UNCHANGED <<chainVars, count>> /\ stage = "foldStop"
    BY <1>0, <2>1 DEF ChainTypes, chainVars, flowVars
  <2>2. ASSUME NEW ok \in BOOLEAN, Call(h, c, ok)
        PROVE  /\ ChainTypes' /\ count' \in CountType
               /\ \A j \in Components : j # h => comp'[j] = comp[j] /\ late'[j] = late[j]
               /\ \A j \in Components : j = h /\ stage # "foldStop" /\ Answered(h) =>
                    late'[j] = << >> /\ (c.name = "Reset" => comp'[j].state = "Idle")
               /\ \A j \in Components : late'[j] \in {late[j], Append(late[j], c)}
               /\ dec'.eos = dec.eos /\ dec'.out = dec.out
    <3>1. /\ ChainTypes' /\ count' \in CountType
          /\ \A j \in Components : j # h => comp'[j] = comp[j] /\ late'[j] = late[j]
          /\ \A j \in Components : j = h => \/ late'[j] = late[j] /\ late[j] = << >> /\ Obeys(j, c, ok)
                                            \/ /\ ~ok /\ ~Answered(h) /\ comp'[j] = comp[j]
                                               /\ late'[j] \in {late[j], Append(late[j], c)}
          /\ (h = Decoder /\ c.name = "Start") \/ (dec'.eos = dec.eos /\ dec'.out = dec.out)
      BY <1>0, <2>2, CallEffect
    <3>2. \A j \in Components : Obeys(j, c, ok) => (c.name = "Reset" => comp'[j].state = "Idle")
      BY DEF Obeys
    <3>3. c.name # "Start"
      BY <1>2
    <3> QED
      BY <3>1, <3>2, <3>3
  <2> QED
    BY <1>2, <2>1, <2>2
<1>4. ControlTypes'
  BY <1>0, <1>2, <1>3 DEF ControlTypes, Stages
<1>5. Rolled'
  <2> SUFFICES ASSUME stage' \in {"rbStop", "rbReset"}, ~missed', NEW i \in seq.touched \ todo'
               PROVE  comp'[i].state = "Idle" /\ late'[i] = << >>
    BY <1>0, <1>2 DEF Rolled
  <2>1. ~missed /\ Answered(h) /\ i \in Components
    BY <1>0, <1>2 DEF ControlTypes, LocalsType
  <2>2. CASE i = h
    <3>1. stage = "rbReset" /\ c.name = "Reset"
      BY <1>1, <1>2, <2>2
    <3> QED
      BY <1>3, <2>1, <2>2, <3>1
  <2>3. CASE i # h
    <3>1. i \in seq.touched \ todo /\ stage \in {"rbStop", "rbReset"}
      BY <1>2, <2>3
    <3>2. comp[i].state = "Idle" /\ late[i] = << >>
      BY <1>0, <2>1, <3>1 DEF Rolled
    <3> QED
      BY <1>3, <2>1, <2>3, <3>2
  <2> QED
    BY <2>2, <2>3
<1>6. Surveyed' /\ Halted'
  BY <1>2 DEF Surveyed, Halted, WalkBackStages
<1>7. Closing'
  <2> SUFFICES ASSUME stage \in {"foldStop", "foldReset"}, seq.closed, Decoder \notin failed
               PROVE  dec'.out /\ dec'.eos = Receivers /\ Lacks(late'[Decoder], "Start")
    BY <1>0, <1>2 DEF Closing, BeforeClosing, ClosedStages, Waits
  <2>1. dec.out /\ dec.eos = Receivers /\ Lacks(late[Decoder], "Start")
    BY <1>0 DEF Closing, ClosedStages
  <2>2. Decoder \in Components /\ late[Decoder] \in Seq(CommandSet) /\ c.name # "Start"
    <3>1. Decoder \in Components
      BY SequencerAssumption DEF Decoder, Components
    <3> QED
      BY <1>0, <1>2, <3>1 DEF ChainTypes
  <2>3. Lacks(late'[Decoder], "Start")
    <3>1. Lacks(Append(late[Decoder], c), "Start")
      BY <2>1, <2>2, LacksAppend
    <3> QED
      BY <1>3, <2>1, <2>2, <3>1
  <2> QED
    BY <1>3, <2>1, <2>3
<1> QED
  BY <1>3, <1>4, <1>5, <1>6, <1>7 DEF UndoRest

-------------------------------------------------------------------------------
(* The invariant of walk-back, rollback and stop                               *)

(* A freshly started controller has nothing to undo.                          *)
LEMMA UndoInit == Init => UndoInv
<1> SUFFICES ASSUME Init PROVE UndoInv
  OBVIOUS
<1>1. ChainTypes
  BY DEF Init, ChainTypes, Blank, Reported, States, NoGraw, GrawType, NoDec, DecType
<1>2. EccTypes /\ ControlTypes
  BY LocalsTyped DEF Init, EccTypes, EccStateSet, ControlTypes, Stages, CountType
<1>3. EccSteps /\ Rolled /\ Surveyed /\ Halted /\ Closing
  BY LocalsTyped DEF Init, EccSteps, Rolled, Surveyed, Halted, Closing, WalkBackStages, BeforeClosing, ClosedStages,
    Waits
<1> QED
  BY <1>1, <1>2, <1>3 DEF UndoInv

EnvironmentStep ==
  \/ LateEcc \/ OperatorEcc \/ DecoderReads
  \/ \E i \in Components : LateExec(i) \/ ComponentErrs(i) \/ ComponentRestarts(i)
  \/ \E r \in Receivers : Feed(r) \/ Eof(r) \/ GrawReads(r)

(* The environment moves nothing of the controller.                            *)
LEMMA ControllerStill ==
  ASSUME EnvironmentStep
  PROVE  UNCHANGED <<phase, run, next_run, seq, missed, stage, todo>>
BY DEF EnvironmentStep, LateEcc, OperatorEcc, DecoderReads, LateExec, ComponentErrs, ComponentRestarts,
  Feed, Eof, GrawReads, dataOnly, ctlVars, runVars

(* The requests of a start are made one after the other, from the first on.    *)
LEMMA StepsCounted ==
  ASSUME ControlTypes, EccSteps, Next
  PROVE  EccSteps'
<1>1. CASE EnvironmentStep
  BY <1>1, ControllerStill DEF EccSteps
<1>2. CASE ChainDone
  <2>1. stage' = "ecc" => seq' = [seq EXCEPT !.steps = 1]
    BY <1>2 DEF ChainDone, Goto
  <2> QED
    BY <2>1 DEF ControlTypes, LocalsType, EccSteps
<1>3. CASE EccStart
  <2>1. /\ stage = "ecc"
        /\ stage' = "ecc" => seq.steps < Len(EccRequests) /\ seq' = [seq EXCEPT !.steps = @ + 1]
    BY <1>3 DEF EccStart, Rollback, Goto, Stay
  <2>2. Len(EccRequests) = 4
    BY DEF EccRequests
  <2> QED
    BY <2>1, <2>2 DEF ControlTypes, LocalsType, EccSteps
<1>4. CASE EccStatus \/ EccWalk \/ EccWalked \/ Survey \/ SurveyDone
  BY <1>4 DEF EccSteps, EccStatus, EccWalk, EccWalked, Survey, SurveyDone, Goto, Stay, Rollback
<1>5. CASE WalkBackStep \/ WalkBackDone \/ ChainStep \/ ArmStep
  BY <1>5 DEF EccSteps, WalkBackStep, WalkBackDone, ChainStep, ArmStep, Goto, Stay, Rollback
<1>6. CASE PollGraw \/ PollDecoder \/ GiveUp
  BY <1>6 DEF EccSteps, PollGraw, PollDecoder, GiveUp, WaitEnds, Waits, Goto, Stay
<1>7. CASE RecordWalkedBack \/ RunStarted \/ RunFailed \/ RunStart \/ RunStop \/ Crash
  BY <1>7 DEF EccSteps, RecordWalkedBack, RunStarted, RunFailed, RunStart, RunStop, Crash, Goto
<1>8. CASE StopStatus \/ EccStop \/ ForceEos \/ FoldStop \/ FoldReset \/ FoldDone
  BY <1>8 DEF EccSteps, StopStatus, EccStop, ForceEos, FoldStop, FoldReset, FoldDone, Goto
<1> QED
  BY <1>1, <1>2, <1>3, <1>4, <1>5, <1>6, <1>7, <1>8 DEF Next, Controller, EnvironmentStep

(* The steps that make no request of the ECC.                                  *)
EccStill == UNCHANGED <<ecc, ecc_late, link>>

(* The actions that reach the ECC are these.                                  *)
LEMMA EccUntouched ==
  ASSUME Next
  PROVE  EccStill \/ EccStatus \/ EccWalk \/ EccStart \/ EccStop \/ LateEcc \/ OperatorEcc
<1>1. ASSUME UNCHANGED eccVars PROVE EccStill
  BY <1>1 DEF eccVars, EccStill
<1>2. CASE EccWalked \/ Survey \/ SurveyDone \/ WalkBackStep \/ WalkBackDone \/ ChainStep \/ ArmStep
           \/ ChainDone
  BY <1>1, <1>2 DEF EccWalked, Survey, SurveyDone, WalkBackStep, WalkBackDone, ChainStep, ArmStep, ChainDone
<1>3. CASE PollGraw \/ PollDecoder \/ GiveUp \/ RecordWalkedBack \/ RunStarted \/ RunFailed \/ RunStart
           \/ RunStop \/ Crash
  BY <1>1, <1>3 DEF PollGraw, PollDecoder, GiveUp, RecordWalkedBack, RunStarted, RunFailed, RunStart,
    RunStop, Crash
<1>4. CASE StopStatus \/ ForceEos \/ FoldStop \/ FoldReset \/ FoldDone
  BY <1>1, <1>4 DEF StopStatus, ForceEos, FoldStop, FoldReset, FoldDone
<1>5. CASE \/ DecoderReads
           \/ \E i \in Components : LateExec(i) \/ ComponentErrs(i) \/ ComponentRestarts(i)
           \/ \E r \in Receivers : Feed(r) \/ Eof(r) \/ GrawReads(r)
  BY <1>1, <1>5 DEF DecoderReads, LateExec, ComponentErrs, ComponentRestarts, Feed, Eof, GrawReads, dataOnly
<1> QED
  BY <1>2, <1>3, <1>4, <1>5 DEF Next, Controller

(* Its requests keep the types of the ECC.                                     *)
LEMMA EccTyped ==
  ASSUME EccTypes, ControlTypes, EccSteps, Next
  PROVE  EccTypes'
<1>1. CASE EccStill
  BY <1>1 DEF EccStill, EccTypes
<1>2. ASSUME NEW c \in RequestSet, NEW ok \in BOOLEAN, EccCall(c, ok) PROVE EccTypes'
  BY <1>2, EccCallEffect DEF ControlTypes
<1>3. CASE EccStatus
  <2>1. Cmd("status", 0) \in RequestSet
    BY DEF Cmd, RequestSet
  <2> QED
    BY <1>2, <1>3, <2>1 DEF EccStatus
<1>4. CASE EccWalk
  <2>1. Cmd(WalkBackAction, 0) \in RequestSet
    BY DEF Cmd, WalkBackAction, RequestSet
  <2>2. CASE UNCHANGED eccVars
    BY <2>2 DEF eccVars, EccTypes
  <2> QED
    BY <1>2, <1>4, <2>1, <2>2 DEF EccWalk
<1>5. CASE EccStart
  <2>1. Cmd(EccRequests[seq.steps], run) \in RequestSet
    BY <1>5 DEF EccStart, EccSteps, ControlTypes, Cmd, RequestSet, EccRequests
  <2> QED
    BY <1>2, <1>5, <2>1 DEF EccStart
<1>6. CASE EccStop
  <2>1. Cmd("stop", 0) \in RequestSet
    BY DEF Cmd, RequestSet
  <2> QED
    BY <1>2, <1>6, <2>1 DEF EccStop
<1>7. CASE LateEcc
  <2>1. ecc_late \in Seq(RequestSet) /\ ecc_late # << >>
    BY <1>7 DEF EccTypes, LateEcc
  <2>2. Tail(ecc_late) \in Seq(RequestSet)
    BY <2>1, LacksTail
  <2>3. ecc' \in EccStateSet
    BY <1>7, EccExecEffect DEF EccTypes, LateEcc
  <2> QED
    BY <1>7, <2>2, <2>3 DEF EccTypes, LateEcc
<1>8. CASE OperatorEcc
  <2>1. ecc' \in EccStateSet
    BY <1>8, EccExecEffect DEF EccTypes, OperatorEcc
  <2> QED
    BY <1>8, <2>1 DEF EccTypes, OperatorEcc
<1> QED
  BY <1>1, <1>3, <1>4, <1>5, <1>6, <1>7, <1>8, EccUntouched

(* Every step keeps the invariant.                                             *)
LEMMA UndoStep == UndoInv /\ [Next]_vars => UndoInv'
<1> SUFFICES ASSUME UndoInv, [Next]_vars PROVE UndoInv'
  OBVIOUS
<1>0. ChainTypes /\ EccTypes /\ ControlTypes /\ EccSteps /\ count \in CountType
  BY DEF UndoInv, ControlTypes
<1>1. ASSUME Next, ChainTypes', ControlTypes', UndoRest' PROVE UndoInv'
  BY <1>0, <1>1, EccTyped, StepsCounted DEF UndoInv, UndoRest
<1>2. ASSUME ChainStill PROVE ChainTypes'
  BY <1>0, <1>2 DEF ChainStill, ChainTypes
<1>3. ASSUME Next, Drift, UNCHANGED <<phase, run, next_run, seq, missed, stage, todo>> PROVE UndoInv'
  <2>1. ChainTypes' /\ count' \in CountType
    BY <1>3 DEF Drift
  <2>2. ControlTypes'
    BY <1>0, <1>3, <2>1 DEF ControlTypes
  <2> QED
    BY <1>1, <1>3, <2>1, <2>2, DriftKeepsUndo DEF UndoRest
<1>4. CASE \/ DecoderReads
           \/ \E i \in Components : LateExec(i) \/ ComponentErrs(i) \/ ComponentRestarts(i)
           \/ \E r \in Receivers : Feed(r) \/ Eof(r) \/ GrawReads(r)
  <2>1. Next /\ EnvironmentStep
    BY <1>4 DEF Next, EnvironmentStep
  <2>2. Drift
    BY <1>0, <1>4, LateExecDrifts, FailureDrifts, DataDrifts
  <2> QED
    BY <1>3, <2>1, <2>2, ControllerStill
<1>5. CASE LateEcc \/ OperatorEcc
  <2>1. Next /\ EnvironmentStep
    BY <1>5 DEF Next, EnvironmentStep
  <2>2. ChainStill /\ failed' = failed /\ count' \in CountType
    BY <1>0, <1>5 DEF LateEcc, OperatorEcc, chainVars, flowVars, ChainStill, CountType
  <2>3. Drift
    BY <1>0, <1>2, <2>2 DEF Drift, ChainStill
  <2> QED
    BY <1>3, <2>1, <2>3, ControllerStill
<1>6. CASE EccStatus \/ EccWalk \/ EccWalked \/ Survey \/ SurveyDone
  <2>1. Next /\ ChainStill
    BY <1>6 DEF Next, Controller, EccStatus, EccWalk, EccWalked, Survey, SurveyDone, Ask, chainVars,
      flowVars, ChainStill
  <2> QED
    BY <1>1, <1>2, <1>6, <2>1, SurveySteps
<1>7. CASE WalkBackDone \/ PollGraw \/ PollDecoder \/ GiveUp
  <2>1. Next /\ ChainStill
    BY <1>7 DEF Next, Controller, WalkBackDone, PollGraw, PollDecoder, GiveUp, Ask, chainVars, flowVars,
      ChainStill
  <2> QED
    BY <1>1, <1>2, <1>7, <2>1, WalkBackDoneStep, WaitSteps
<1>8. CASE ChainDone \/ EccStart \/ RecordWalkedBack \/ RunStarted \/ RunFailed \/ RunStart
  <2>1. Next /\ ChainStill
    BY <1>8 DEF Next, Controller, ChainDone, EccStart, RecordWalkedBack, RunStarted, RunFailed, RunStart,
      chainVars, flowVars, ChainStill
  <2> QED
    BY <1>1, <1>2, <1>8, <2>1, StartSteps
<1>9. CASE StopStatus \/ EccStop \/ FoldDone \/ RunStop \/ Crash
  <2>1. Next /\ ChainStill
    BY <1>9 DEF Next, Controller, StopStatus, EccStop, FoldDone, RunStop, Crash, Ask, chainVars, flowVars,
      ChainStill
  <2> QED
    BY <1>1, <1>2, <1>9, <2>1, StopSteps
<1>10. CASE WalkBackStep \/ ChainStep \/ ArmStep \/ ForceEos \/ FoldStop \/ FoldReset
  <2>1. Next
    BY <1>10 DEF Next, Controller
  <2> QED
    BY <1>1, <1>10, <2>1, WalkBackSteps, ChainSteps, FoldSteps
<1>11. CASE UNCHANGED vars
  <2>1. /\ ChainStill /\ EccStill
        /\ UNCHANGED <<phase, run, next_run, seq, missed, stage, todo, count, failed>>
    BY <1>11 DEF vars, chainVars, flowVars, eccVars, ctlVars, runVars, ChainStill, EccStill
  <2>2. Drift /\ ControlTypes' /\ EccTypes' /\ EccSteps'
    BY <1>0, <1>2, <2>1 DEF Drift, ChainStill, ControlTypes, EccTypes, EccSteps, EccStill
  <2> QED
    BY <1>2, <2>1, <2>2, DriftKeepsUndo DEF UndoInv
<1> QED
  BY <1>4, <1>5, <1>6, <1>7, <1>8, <1>9, <1>10, <1>11 DEF Next, Controller

(* The controller never resets a component that runs, and a rollback all of    *)
(* whose commands were answered leaves every component it touched Idle, over   *)
(* lost and late commands, failures, restarts, deaths and requests of the      *)
(* operator (walk_components_back_to_idle, rollback).                          *)
THEOREM UndoingIsSound == Spec => []UndoSound
<1>1. UndoInv => UndoSound
  <2> SUFFICES ASSUME UndoInv PROVE UndoSound
    OBVIOUS
  <2>1. WalkBackNeverCutsRunning
    BY DEF UndoInv, Halted, ControlTypes, WalkBackNeverCutsRunning
  <2>2. RollbackUndoes
    BY DEF UndoInv, Rolled, RollbackUndoes
  <2> QED
    BY <2>1, <2>2 DEF UndoSound
<1> QED
  BY <1>1, UndoInit, UndoStep, PTL DEF Spec

(* A run that stop_run or the walk-back takes for closed has its EOS at the    *)
(* root-sink, whatever answers of the two polls were lost or came late         *)
(* (eos_complete).                                                             *)
THEOREM ClosedRunsAreSent == Spec => []EosClosedMeansSent
<1>1. UndoInv => EosClosedMeansSent
  BY DEF UndoInv, Closing, ClosedStages, EosClosedMeansSent
<1> QED
  BY <1>1, UndoInit, UndoStep, PTL DEF Spec
-------------------------------------------------------------------------------
(* The invariant of a start, when the operator makes no requests of the ECC     *)

OtherStages == {"off", "eccStatus", "failed", "rbStop", "rbReset", "status", "force", "wait", "wait2",
                "foldStop", "foldReset"}

(* Outside of a start nothing is known of the ECC.                             *)
LEMMA StartElsewhere ==
  ASSUME stage' \in OtherStages
  PROVE  EccKnown' /\ Taking'
BY DEF OtherStages, EccKnown, Taking, StartStages, WalkBackStages

(* Nothing begins to listen.                                                   *)
LEMMA ListenKept ==
  ASSUME NoneListens, Stirred' => Stirred,
         \A j \in Components : /\ comp'[j].state = "Armed" => comp[j].state = "Armed"
                               /\ Lacks(late[j], "Arm") => Lacks(late'[j], "Arm")
  PROVE  NoneListens'
BY DEF NoneListens

(* In the stages that send Arm, the CoBos are not connected.                   *)
LEMMA NotStirred ==
  ASSUME EccKnown, stage \in StartStages
  PROVE  ~Stirred
<1>1. ecc_late = << >> /\ ecc \in {"Idle", "Off"}
  BY DEF EccKnown
<1> QED
  BY <1>1, LacksEmpty DEF Stirred

(* A request other than configure connects nothing.                            *)
LEMMA StirredKept ==
  ASSUME EccTypes, NEW c \in RequestSet, c.name # "configure", NEW ok \in BOOLEAN,
         ok => ecc_late = << >> /\ ecc_late' = << >> /\ EccExec(c),
         ~ok => ecc' = ecc /\ (ecc_late' = ecc_late \/ ecc_late' = Append(ecc_late, c)),
         Stirred'
  PROVE  Stirred
<1>1. CASE ok
  <2>1. ecc' \in {"Ready", "Running"}
    BY <1>1, LacksEmpty DEF Stirred
  <2>2. ecc \in {"Ready", "Running"}
    BY <1>1, <2>1, EccExecEffect DEF EccTypes
  <2> QED
    BY <2>2 DEF Stirred
<1>2. CASE ~ok
  <2>1. Lacks(ecc_late, "configure") => Lacks(ecc_late', "configure")
    BY <1>2, LacksAppend DEF EccTypes
  <2> QED
    BY <1>2, <2>1 DEF Stirred
<1> QED
  BY <1>1, <1>2

(* walk_ecc_back_to_idle: what was seen is where the ECC is.                   *)
LEMMA EccWalkSteps ==
  ASSUME UndoInv, StartInv, EccStatus \/ EccWalk \/ EccWalked
  PROVE  StartInv'
<1>0. /\ EccTypes /\ ControlTypes /\ count \in CountType
      /\ EccKnown /\ NoneListens /\ ChainStill
  BY DEF UndoInv, StartInv, ControlTypes, EccStatus, EccWalk, EccWalked, chainVars, flowVars, ChainStill
<1>1. ASSUME Stirred' => Stirred PROVE NoneListens'
  BY <1>0, <1>1, ListenKept DEF ChainStill
<1>2. ASSUME Rollback PROVE EccKnown' /\ Taking'
  BY <1>2, StartElsewhere DEF Rollback, Goto, OtherStages
<1>3. ASSUME NEW c \in RequestSet, c.name # "configure", NEW ok \in BOOLEAN, EccCall(c, ok)
      PROVE  /\ NoneListens' /\ (ok => ecc_late' = << >> /\ ecc' = EccNext(ecc, c.name))
  <2>1. /\ ok => ecc_late = << >> /\ ecc_late' = << >> /\ EccExec(c)
        /\ ~ok => ecc' = ecc /\ (ecc_late' = ecc_late \/ ecc_late' = Append(ecc_late, c))
    BY <1>0, <1>3, EccCallEffect
  <2>2. Stirred' => Stirred
    BY <1>0, <1>3, <2>1, StirredKept
  <2>3. ok => ecc' = EccNext(ecc, c.name)
    BY <2>1 DEF EccExec
  <2> QED
    BY <1>1, <2>1, <2>2, <2>3
<1>4. CASE EccStatus
  <2>1. PICK ok \in BOOLEAN :
          /\ EccCall(Cmd("status", 0), ok)
          /\ IF ok THEN Goto("eccWalk", {}) /\ seq' = [seq EXCEPT !.seen = ecc]
             ELSE Rollback /\ UNCHANGED seq
    BY <1>4 DEF EccStatus
  <2>2. Cmd("status", 0) \in RequestSet /\ Cmd("status", 0).name = "status"
    BY DEF Cmd, RequestSet
  <2>3. NoneListens' /\ (ok => ecc_late' = << >> /\ ecc' = EccNext(ecc, "status"))
    BY <1>3, <2>1, <2>2
  <2>4. CASE ok
    <3>1. stage' = "eccWalk" /\ seq'.seen = ecc
      BY <1>0, <2>1, <2>4 DEF Goto, ControlTypes, LocalsType
    <3>2. ecc' = ecc
      BY <2>3, <2>4 DEF EccNext
    <3>3. EccKnown'
      BY <2>3, <2>4, <3>1, <3>2 DEF EccKnown, StartStages, WalkBackStages
    <3>4. Taking'
      BY <3>1 DEF Taking
    <3> QED
      BY <2>3, <3>3, <3>4 DEF StartInv
  <2>5. CASE ~ok
    BY <1>2, <2>1, <2>3, <2>5 DEF StartInv
  <2> QED
    BY <2>4, <2>5
<1>5. CASE EccWalk
  <2>1. CASE Rollback /\ UNCHANGED <<eccVars, seq, count>>
    <3>1. Stirred' => Stirred
      BY <2>1 DEF Stirred, eccVars
    <3> QED
      BY <1>1, <1>2, <2>1, <3>1 DEF StartInv
  <2>2. ASSUME NEW ok \in BOOLEAN, EccCall(Cmd(WalkBackAction, 0), ok),
               IF ok /\ ecc' # seq.seen
               THEN Stay /\ seq' = [seq EXCEPT !.seen = ecc', !.steps = @ + 1]
               ELSE Rollback /\ UNCHANGED seq
        PROVE  StartInv'
    <3>1. Cmd(WalkBackAction, 0) \in RequestSet /\ Cmd(WalkBackAction, 0).name # "configure"
      BY DEF Cmd, WalkBackAction, RequestSet
    <3>2. NoneListens' /\ (ok => ecc_late' = << >>)
      BY <1>3, <2>2, <3>1
    <3>3. CASE ok /\ Stay /\ seq' = [seq EXCEPT !.seen = ecc', !.steps = @ + 1]
      <4>1. stage' = "eccWalk" /\ seq'.seen = ecc'
        BY <1>0, <1>5, <3>3 DEF EccWalk, Stay, ControlTypes, LocalsType
      <4>2. EccKnown' /\ Taking'
        BY <3>2, <3>3, <4>1 DEF EccKnown, Taking, StartStages, WalkBackStages
      <4> QED
        BY <3>2, <4>2 DEF StartInv
    <3>4. CASE Rollback
      BY <1>2, <3>2, <3>4 DEF StartInv
    <3> QED
      BY <2>2, <3>3, <3>4
  <2> QED
    BY <1>5, <2>1, <2>2 DEF EccWalk
<1>6. CASE EccWalked
  <2>1. /\ stage = "eccWalk" /\ seq.seen \in {"Idle", "Off"} /\ stage' = "survey" /\ todo' = Components
        /\ UNCHANGED <<ecc, ecc_late, link>>
    BY <1>6 DEF EccWalked, Goto, eccVars
  <2>2. EccKnown'
    BY <1>0, <2>1 DEF EccKnown, StartStages, WalkBackStages
  <2>3. Taking'
    BY <2>1 DEF Taking
  <2>4. NoneListens'
    BY <1>1, <2>1 DEF Stirred
  <2> QED
    BY <2>2, <2>3, <2>4 DEF StartInv
<1> QED
  BY <1>4, <1>5, <1>6

(* From the survey to Start the ECC is left alone, Idle or Off.                *)
LEMMA ChainStartSteps ==
  ASSUME UndoInv, StartInv,
         \/ Survey \/ SurveyDone \/ WalkBackStep \/ WalkBackDone
         \/ ChainStep \/ ArmStep \/ ChainDone
  PROVE  StartInv'
<1>0. /\ ChainTypes /\ ControlTypes /\ count \in CountType /\ run \in Nat
      /\ EccKnown /\ Taking
  BY DEF UndoInv, StartInv, ControlTypes
<1>1. stage \in StartStages /\ EccStill /\ UNCHANGED <<run, failed>>
  BY DEF Survey, SurveyDone, WalkBackStep, WalkBackDone, ChainStep, ArmStep, ChainDone, eccVars, EccStill,
    runVars, ctlVars, StartStages, WalkBackStages
<1>2. ecc \in {"Idle", "Off"} /\ ecc_late = << >>
  BY <1>0, <1>1 DEF EccKnown
<1>3. NoneListens'
  <2>1. ~Stirred'
    BY <1>1, <1>2, LacksEmpty DEF Stirred, EccStill
  <2> QED
    BY <2>1 DEF NoneListens
<1>4. stage' \in StartStages \cup {"rbStop"} => EccKnown'
  BY <1>1, <1>2 DEF EccKnown, StartStages, WalkBackStages, EccStill
<1>5. CASE Survey \/ SurveyDone \/ WalkBackStep \/ WalkBackDone \/ ArmStep
  <2>1. stage' \in (StartStages \ {"Start"}) \cup {"rbStop"}
    BY <1>5 DEF Survey, SurveyDone, WalkBackStep, WalkBackDone, ArmStep, Goto, Stay, Rollback,
      StartStages, WalkBackStages
  <2>2. Taking'
    BY <2>1 DEF Taking, StartStages, WalkBackStages
  <2> QED
    BY <1>3, <1>4, <2>1, <2>2 DEF StartInv
<1>6. CASE ChainStep
  <2> DEFINE i == Lowest
             c == Cmd(stage, run)
  <2>1. PICK ok \in BOOLEAN : /\ Call(i, c, ok)
                              /\ IF ok THEN Goto(stage, todo \ {i}) /\ Touch(i)
                                 ELSE Rollback /\ UNCHANGED seq
    BY <1>6 DEF ChainStep
  <2>2. /\ stage \in {"Configure", "Start"} /\ c \in CommandSet /\ c.run = run
        /\ stage = "Start" => c.name = "Start"
    BY <1>0, <1>6 DEF ChainStep, Cmd, CommandSet, Commands
  <2> HIDE DEF i, c
  <2>3. CASE ok /\ stage = "Start"
    <3>1. stage' = "Start" /\ todo' = todo \ {i}
      BY <2>1, <2>3 DEF Goto
    <3>2. /\ \A j \in Components : j # i => comp'[j] = comp[j] /\ late'[j] = late[j]
          /\ \A j \in Components : j = i => late'[j] = << >> /\ Obeys(j, c, ok)
      BY <1>0, <2>1, <2>2, <2>3, CallEffect
    <3>3. \A j \in Components : j = i =>
            late'[j] = << >> /\ comp'[j] = [state |-> "Running", run |-> run]
      BY <2>2, <2>3, <3>2 DEF Obeys
    <3>4. Taking'
      BY <1>0, <1>1, <2>3, <3>1, <3>2, <3>3 DEF Taking
    <3> QED
      BY <1>3, <1>4, <3>1, <3>4 DEF StartInv, StartStages
  <2>4. CASE ~(ok /\ stage = "Start")
    <3>1. stage' \in {"Configure", "rbStop"}
      BY <2>1, <2>2, <2>4 DEF Goto, Rollback
    <3>2. Taking'
      BY <3>1 DEF Taking
    <3> QED
      BY <1>3, <1>4, <3>1, <3>2 DEF StartInv, StartStages
  <2> QED
    BY <2>3, <2>4
<1>7. CASE ChainDone
  <2>0. /\ ChainStill /\ todo = {}
    BY <1>7 DEF ChainDone, chainVars, flowVars, ChainStill
  <2>1. CASE stage' \in {"Arm", "Start"} /\ todo' = Components
    <3>1. Taking'
      BY <2>1 DEF Taking
    <3> QED
      BY <1>3, <1>4, <2>1, <3>1 DEF StartInv, StartStages
  <2>2. CASE stage = "Start" /\ stage' = "ecc" /\ seq' = [seq EXCEPT !.steps = 1]
    <3>1. seq'.steps = 1
      BY <1>0, <2>2 DEF ControlTypes, LocalsType
    <3>2. EccKnown'
      BY <1>1, <1>2, <2>2, <3>1 DEF EccKnown, EccStill, StartStages, WalkBackStages
    <3>3. Taking'
      BY <1>0, <1>1, <2>0, <2>2 DEF Taking, ChainStill
    <3> QED
      BY <1>3, <3>2, <3>3 DEF StartInv
  <2> QED
    BY <1>7, <2>1, <2>2 DEF ChainDone, Goto
<1> QED
  BY <1>5, <1>6, <1>7

(* The four requests of a start, each from where the last one left the ECC.    *)
LEMMA EccStartSteps ==
  ASSUME UndoInv, StartInv, EccStart \/ RecordWalkedBack
  PROVE  StartInv'
<1>0. /\ EccTypes /\ ControlTypes /\ count \in CountType /\ run \in Nat
      /\ EccKnown /\ NoneListens /\ Taking /\ ChainStill /\ UNCHANGED <<run, failed>>
  BY DEF UndoInv, StartInv, ControlTypes, EccStart, RecordWalkedBack, chainVars, flowVars, ChainStill, runVars
<1>1. CASE EccStart
  <2> DEFINE c == Cmd(EccRequests[seq.steps], run)
  <2>1. PICK ok \in BOOLEAN :
          /\ EccCall(c, ok)
          /\ IF ~ok THEN Rollback /\ UNCHANGED seq
             ELSE IF seq.steps < Len(EccRequests)
                  THEN Stay /\ seq' = [seq EXCEPT !.steps = @ + 1]
                  ELSE Goto("started", {}) /\ UNCHANGED seq
    BY <1>1 DEF EccStart
  <2>2. stage = "ecc"
    BY <1>1 DEF EccStart
  <2>3. NoneListens'
    <3>1. \A j \in Components : comp[j].state # "Armed" /\ late[j] = << >>
      BY <1>0, <2>2 DEF Taking
    <3> QED
      BY <1>0, <3>1, LacksEmpty DEF NoneListens, ChainStill
  <2>4. CASE ~ok
    <3>1. stage' = "rbStop"
      BY <2>1, <2>4 DEF Rollback, Goto
    <3> QED
      BY <2>3, <3>1, StartElsewhere DEF StartInv, OtherStages
  <2>5. CASE ok
    <3>1. ecc_late' = << >> /\ EccExec(c) /\ ecc_late = << >>
      BY <2>1, <2>5 DEF EccCall
    <3>2. ecc' = EccNext(ecc, c.name) /\ c.run = run
      BY <3>1 DEF EccExec, Cmd
    <3>3. \/ /\ seq.steps = 1 /\ ecc \in {"Idle", "Off"} /\ c.name = "describe"
          \/ /\ seq.steps = 2 /\ ecc = "Described" /\ c.name = "prepare"
          \/ /\ seq.steps = 3 /\ ecc = "Prepared" /\ c.name = "configure"
          \/ /\ seq.steps = 4 /\ ecc = "Ready" /\ link = run /\ c.name = "start"
      BY <1>0, <2>2 DEF EccKnown, Cmd, EccRequests
    <3>4. \/ seq.steps = 1 /\ ecc' = "Described"
          \/ seq.steps = 2 /\ ecc' = "Prepared"
          \/ seq.steps = 3 /\ ecc' = "Ready" /\ link' = run
          \/ seq.steps = 4 /\ ecc' = "Running" /\ link' = run
      BY <3>1, <3>2, <3>3 DEF EccNext, EccExec
    <3>5. Len(EccRequests) = 4
      BY DEF EccRequests
    <3> HIDE DEF c
    <3>6. CASE seq.steps < 4
      <4>1. stage' = "ecc" /\ todo' = todo /\ seq' = [seq EXCEPT !.steps = @ + 1]
        BY <2>1, <2>2, <2>5, <3>5, <3>6 DEF Stay
      <4>2. seq'.steps = seq.steps + 1
        BY <1>0, <4>1 DEF ControlTypes, LocalsType
      <4>3. \/ seq'.steps = 2 /\ ecc' = "Described"
            \/ seq'.steps = 3 /\ ecc' = "Prepared"
            \/ seq'.steps = 4 /\ ecc' = "Ready" /\ link' = run
        BY <3>4, <3>6, <4>2
      <4>4. EccKnown'
        BY <1>0, <3>1, <4>1, <4>3 DEF EccKnown, StartStages, WalkBackStages
      <4>5. Taking'
        BY <1>0, <2>2, <4>1 DEF Taking, ChainStill
      <4> QED
        BY <2>3, <4>4, <4>5 DEF StartInv
    <3>7. CASE ~(seq.steps < 4)
      <4>1. stage' = "started"
        BY <2>1, <2>5, <3>5, <3>7 DEF Goto
      <4>2. ecc' = "Running" /\ link' = run
        BY <3>4, <3>7
      <4>3. EccKnown'
        BY <1>0, <3>1, <4>1, <4>2 DEF EccKnown, StartStages, WalkBackStages
      <4>4. Taking'
        BY <1>0, <2>2, <4>1 DEF Taking, ChainStill
      <4> QED
        BY <2>3, <4>3, <4>4 DEF StartInv
    <3> QED
      BY <3>6, <3>7
  <2> QED
    BY <2>4, <2>5
<1>2. CASE RecordWalkedBack
  <2>1. EccStill /\ UNCHANGED <<stage, todo>> /\ stage \in {"started", "failed"}
    BY <1>2 DEF RecordWalkedBack, eccVars, EccStill
  <2>2. EccKnown'
    BY <1>0, <2>1 DEF EccKnown, EccStill, StartStages, WalkBackStages
  <2>3. Taking'
    BY <1>0, <2>1 DEF Taking, ChainStill
  <2>4. NoneListens'
    BY <1>0, <2>1, ListenKept DEF Stirred, ChainStill, EccStill
  <2> QED
    BY <2>2, <2>3, <2>4 DEF StartInv
<1> QED
  BY <1>1, <1>2

(* The waits, and all that is not part of a start.                             *)
LEMMA OtherSteps ==
  ASSUME UndoInv, StartInv,
         \/ PollGraw \/ PollDecoder \/ GiveUp \/ RunStarted \/ RunFailed \/ RunStart
         \/ StopStatus \/ EccStop \/ FoldDone \/ RunStop \/ Crash
  PROVE  StartInv'
<1>0. /\ EccTypes /\ ControlTypes /\ count \in CountType
      /\ EccKnown /\ NoneListens
  BY DEF UndoInv, StartInv, ControlTypes
<1>1. ChainStill
  BY DEF PollGraw, PollDecoder, GiveUp, RunStarted, RunFailed, RunStart, StopStatus, EccStop, FoldDone,
    RunStop, Crash, Ask, chainVars, flowVars, ChainStill
<1>2. ASSUME Stirred' => Stirred PROVE NoneListens'
  BY <1>0, <1>1, <1>2, ListenKept DEF ChainStill
<1>3. CASE EccStop
  <2>1. PICK ok \in BOOLEAN : EccCall(Cmd("stop", 0), ok)
    BY <1>3 DEF EccStop
  <2>2. Cmd("stop", 0) \in RequestSet /\ Cmd("stop", 0).name = "stop"
    BY DEF Cmd, RequestSet
  <2>3. /\ ok => ecc_late = << >> /\ ecc_late' = << >> /\ EccExec(Cmd("stop", 0))
        /\ ~ok => ecc' = ecc /\ (ecc_late' = ecc_late \/ ecc_late' = Append(ecc_late, Cmd("stop", 0)))
    BY <1>0, <2>1, <2>2, EccCallEffect
  <2>4. Stirred' => Stirred
    BY <1>0, <2>2, <2>3, StirredKept
  <2>5. stage' \in OtherStages
    BY <1>3 DEF EccStop, Goto, OtherStages
  <2> QED
    BY <1>2, <2>4, <2>5, StartElsewhere DEF StartInv
<1>4. ASSUME EccStill PROVE NoneListens'
  BY <1>2, <1>4 DEF Stirred, EccStill
<1>5. CASE RunStarted \/ RunFailed \/ RunStart \/ StopStatus \/ FoldDone \/ RunStop \/ Crash
  <2>1. EccStill /\ stage' \in OtherStages
    BY <1>5 DEF RunStarted, RunFailed, RunStart, StopStatus, FoldDone, RunStop, Crash, Goto, eccVars,
      EccStill, OtherStages
  <2> QED
    BY <1>4, <2>1, StartElsewhere DEF StartInv
<1>6. CASE PollGraw \/ PollDecoder \/ GiveUp
  <2>1. EccStill /\ stage \in Waits
    BY <1>6 DEF PollGraw, PollDecoder, GiveUp, eccVars, EccStill
  <2>2. \/ stage' \in OtherStages
        \/ stage \in WalkBackStages /\ stage' \in WalkBackStages
    BY <1>6 DEF PollGraw, PollDecoder, GiveUp, WaitEnds, Waits, Goto, Stay, OtherStages, WalkBackStages
  <2>3. CASE stage \in WalkBackStages /\ stage' \in WalkBackStages
    <3>1. EccKnown'
      BY <1>0, <2>1, <2>3 DEF EccKnown, StartStages, WalkBackStages, EccStill
    <3>2. Taking'
      BY <2>3 DEF Taking, WalkBackStages
    <3> QED
      BY <1>4, <2>1, <3>1, <3>2 DEF StartInv
  <2>4. CASE stage' \in OtherStages
    BY <1>4, <2>1, <2>4, StartElsewhere DEF StartInv
  <2> QED
    BY <2>2, <2>3, <2>4
<1> QED
  BY <1>3, <1>5, <1>6

(* Stop and Reset make nothing listen, now or later.                           *)
LEMMA FoldingSteps ==
  ASSUME UndoInv, StartInv, ForceEos \/ FoldStop \/ FoldReset
  PROVE  StartInv'
<1>0. /\ ChainTypes /\ count \in CountType /\ NoneListens
  BY DEF UndoInv, StartInv, ControlTypes
<1>1. EccStill /\ stage' \in OtherStages
  BY DEF ForceEos, FoldStop, FoldReset, Goto, eccVars, EccStill, OtherStages
<1>2. Stirred' => Stirred
  BY <1>1 DEF Stirred, EccStill
<1>3. CASE ChainStill
  <2>1. NoneListens'
    BY <1>0, <1>2, <1>3, ListenKept DEF ChainStill
  <2> QED
    BY <1>1, <2>1, StartElsewhere DEF StartInv
<1>4. ASSUME NEW i, NEW name \in {"Stop", "Reset"}, NEW ok \in BOOLEAN, Call(i, Cmd(name, 0), ok)
      PROVE  StartInv'
  <2> DEFINE c == Cmd(name, 0)
  <2>1. c \in CommandSet /\ c.name # "Arm"
    BY DEF Cmd, CommandSet, Commands
  <2> HIDE DEF c
  <2>2. /\ \A j \in Components : j # i => comp'[j] = comp[j] /\ late'[j] = late[j]
        /\ \A j \in Components : j = i => \/ late'[j] = late[j] /\ late[j] = << >> /\ Obeys(j, c, ok)
                                          \/ /\ comp'[j] = comp[j]
                                             /\ late'[j] \in {late[j], Append(late[j], c)}
    BY <1>0, <1>4, <2>1, CallEffect, ZenonT(30) DEF c
  <2>3. ASSUME NEW j \in Components
        PROVE  /\ comp'[j].state = "Armed" => comp[j].state = "Armed"
               /\ Lacks(late[j], "Arm") => Lacks(late'[j], "Arm")
    <3>1. late[j] \in Seq(CommandSet)
      BY <1>0 DEF ChainTypes
    <3>2. Lacks(late[j], "Arm") => Lacks(Append(late[j], c), "Arm")
      BY <2>1, <3>1, LacksAppend
    <3>3. Obeys(j, c, ok) => (comp'[j].state = "Armed" => comp[j].state = "Armed")
      BY <2>1 DEF Obeys
    <3> QED
      BY <2>2, <3>2, <3>3
  <2>4. NoneListens'
    BY <1>0, <1>2, <2>3, ListenKept
  <2> QED
    BY <1>1, <2>4, StartElsewhere DEF StartInv
<1>5. CASE ForceEos
  BY <1>3, <1>4, <1>5 DEF ForceEos, chainVars, flowVars, ChainStill
<1>6. CASE FoldStop
  BY <1>3, <1>4, <1>6 DEF FoldStop, chainVars, flowVars, ChainStill
<1>7. CASE FoldReset
  BY <1>4, <1>7 DEF FoldReset
<1> QED
  BY <1>5, <1>6, <1>7

(* A request left over is executed: then no start is under way.                *)
LEMMA LateEccStep ==
  ASSUME UndoInv, StartInv, LateEcc
  PROVE  StartInv'
<1>0. /\ EccTypes /\ ChainStill /\ EccKnown /\ NoneListens
      /\ UNCHANGED <<stage, todo, seq, run, failed>>
  BY DEF UndoInv, StartInv, LateEcc, chainVars, flowVars, ctlVars, runVars, ChainStill
<1> DEFINE c == Head(ecc_late)
<1>1. ecc_late # << >> /\ EccExec(c) /\ ecc_late' = Tail(ecc_late)
  BY DEF LateEcc
<1>2. /\ \A name : Lacks(ecc_late, name) => Lacks(Tail(ecc_late), name) /\ c.name # name
  BY <1>0, <1>1, LacksTail DEF EccTypes
<1> HIDE DEF c
<1>3. ecc' \in {"Ready", "Running"} => ecc \in {"Ready", "Running"} \/ c.name = "configure"
  BY <1>0, <1>1, EccExecEffect DEF EccTypes
<1>4. Stirred' => Stirred
  BY <1>1, <1>2, <1>3 DEF Stirred
<1>5. NoneListens'
  BY <1>0, <1>4, ListenKept DEF ChainStill
<1>6. stage \notin StartStages \cup {"eccWalk", "ecc", "started"}
  BY <1>0, <1>1 DEF EccKnown
<1>7. EccKnown' /\ Taking'
  BY <1>0, <1>6 DEF EccKnown, Taking, StartStages
<1> QED
  BY <1>5, <1>7 DEF StartInv

(* A freshly started controller has nothing under way.                        *)
LEMMA StartInit == Init => StartInv
<1> SUFFICES ASSUME Init PROVE StartInv
  OBVIOUS
<1>1. EccKnown /\ Taking
  BY DEF Init, EccKnown, Taking, StartStages, WalkBackStages
<1>2. NoneListens
  BY LacksEmpty DEF Init, NoneListens, Stirred
<1> QED
  BY <1>1, <1>2 DEF StartInv

(* Without requests of the operator every step keeps the invariant.            *)
LEMMA StartStep ==
  ASSUME MaxOperator = 0
  PROVE  UndoInv /\ StartInv /\ [Next]_vars => StartInv'
<1> SUFFICES ASSUME UndoInv, StartInv, [Next]_vars PROVE StartInv'
  OBVIOUS
<1>0. ChainTypes /\ count \in CountType
  BY DEF UndoInv, ControlTypes
<1>1. CASE \/ DecoderReads
           \/ \E i \in Components : LateExec(i) \/ ComponentErrs(i) \/ ComponentRestarts(i)
           \/ \E r \in Receivers : Feed(r) \/ Eof(r) \/ GrawReads(r)
  <2>1. EnvironmentStep
    BY <1>1 DEF EnvironmentStep
  <2>2. Drift
    BY <1>0, <1>1, LateExecDrifts, FailureDrifts, DataDrifts
  <2>3. UNCHANGED <<ecc, ecc_late, link>>
    <3>1. ASSUME UNCHANGED eccVars PROVE UNCHANGED <<ecc, ecc_late, link>>
      BY <3>1 DEF eccVars
    <3> QED
      BY <1>1, <3>1 DEF DecoderReads, LateExec, ComponentErrs, ComponentRestarts, Feed, Eof, GrawReads,
        dataOnly
  <2> QED
    BY <1>0, <2>1, <2>2, <2>3, ControllerStill, DriftKeepsStart
<1>2. CASE LateEcc
  BY <1>2, LateEccStep
<1>3. ~OperatorEcc
  BY <1>0 DEF OperatorEcc, CountType
<1>4. CASE EccStatus \/ EccWalk \/ EccWalked
  BY <1>4, EccWalkSteps
<1>5. CASE \/ Survey \/ SurveyDone \/ WalkBackStep \/ WalkBackDone
           \/ ChainStep \/ ArmStep \/ ChainDone
  BY <1>5, ChainStartSteps
<1>6. CASE EccStart \/ RecordWalkedBack
  BY <1>6, EccStartSteps
<1>7. CASE \/ PollGraw \/ PollDecoder \/ GiveUp \/ RunStarted \/ RunFailed \/ RunStart
           \/ StopStatus \/ EccStop \/ FoldDone \/ RunStop \/ Crash
  BY <1>7, OtherSteps
<1>8. CASE ForceEos \/ FoldStop \/ FoldReset
  BY <1>8, FoldingSteps
<1>9. CASE UNCHANGED vars
  <2>1. /\ ChainStill /\ EccStill /\ UNCHANGED <<run, seq, stage, todo, failed>>
    BY <1>9 DEF vars, chainVars, flowVars, eccVars, ctlVars, runVars, ChainStill, EccStill
  <2>2. EccKnown' /\ Taking'
    BY <2>1 DEF StartInv, EccKnown, Taking, ChainStill, EccStill
  <2>3. NoneListens'
    BY <2>1 DEF StartInv, NoneListens, Stirred, ChainStill, EccStill
  <2> QED
    BY <2>2, <2>3 DEF StartInv
<1> QED
  BY <1>1, <1>2, <1>3, <1>4, <1>5, <1>6, <1>7, <1>8, <1>9 DEF Next, Controller

(* A start that reports success takes data, with the ECC running into the      *)
(* listeners of this very run, and no receiver ever listens while the CoBos of *)
(* an earlier run are connected: for any chain and any faults, as long as the  *)
(* operator does not drive the ECC himself (start_run, walk_ecc_back_to_idle). *)
THEOREM StartsTakeData == MaxOperator = 0 => (Spec => []TakingSound)
<1> SUFFICES ASSUME MaxOperator = 0 PROVE Spec => []TakingSound
  OBVIOUS
<1>1. UndoInv /\ StartInv => TakingSound
  <2> SUFFICES ASSUME UndoInv, StartInv PROVE TakingSound
    OBVIOUS
  <2>1. TypeOK
    <3>1. /\ comp \in [Components -> [state : States, run : Nat]]
          /\ graw.eos \subseteq Receivers /\ dec.eos \subseteq Receivers
      BY DEF UndoInv, ChainTypes, Reported, GrawType, DecType
    <3>2. /\ seq.touched \subseteq Components /\ seq.steps \in 0 .. EccWalkBackMaxSteps
          /\ seq.tries \in 0 .. ArmAttempts - 1
      BY DEF UndoInv, ControlTypes, LocalsType
    <3> QED
      BY <3>1, <3>2 DEF UndoInv, EccTypes, EccStateSet, ControlTypes, TypeOK
  <2>2. StartedMeansTaking
    BY DEF StartInv, EccKnown, Taking, StartedMeansTaking
  <2>3. NoListenOnOldStream
    <3>1. Receivers \subseteq Components
      BY SequencerAssumption DEF Receivers, Components
    <3> QED
      BY <3>1 DEF StartInv, NoneListens, Stirred, NoListenOnOldStream
  <2> QED
    BY <2>1, <2>2, <2>3 DEF TakingSound
<1>2. UndoInv /\ StartInv /\ [Next]_vars => StartInv'
  BY StartStep
<1> QED
  BY <1>1, <1>2, UndoInit, UndoStep, StartInit, PTL DEF Spec

-------------------------------------------------------------------------------
(* A run that is logged is closed                                             *)

(* A record of the logbook.                                                    *)
LogRecord == [kind : {"run_start", "run_stop", "restart_stop"}, run : Nat, closed : BOOLEAN]

(* No fault but at most one death of the controller, and no run/stop.         *)
Calm == /\ count.lost = 0 /\ count.errors = 0 /\ count.restarts = 0 /\ count.stops = 0
        /\ count.crashes <= 1

(* The stages of a stop.                                                       *)
StopStages == {"status", "force", "wait", "wait2", "foldStop", "foldReset"}
(* The stages after the walk-back has noted the run it closed.                 *)
AfterWalk == {"wbReset", "Configure", "Arm", "Start", "ecc", "started", "failed", "rbStop", "rbReset"}

(* Every component runs run r.                                                 *)
RunsIn(r) == \A i \in Components : comp[i] = [state |-> "Running", run |-> r]

(* A calm start: its commands are answered at once, and what has answered     *)
(* Start runs.                                                                *)
Smooth ==
  /\ phase # "Stopping" /\ stage \notin StopStages
  /\ \A i \in Components : late[i] = << >>
  /\ \A i \in Components :
       stage \in {"ecc", "started"} \/ (stage = "Start" /\ i \notin todo)
         => comp[i] = [state |-> "Running", run |-> run]

(* Run numbers begin at 1.                                                    *)
Numbered ==
  /\ logbook \in Seq(LogRecord) /\ next_run >= 1
  /\ phase \in {"Starting", "Running"} => run >= 1

(* Record k is a run_start.                                                    *)
HasStart(k) == k \in DOMAIN logbook /\ logbook[k].kind = "run_start"

(* The run of record k has its run_stop after it.                              *)
ClosedAfter(k) ==
  \E n \in DOMAIN logbook :
    n >= k /\ logbook[n].kind = "restart_stop" /\ logbook[n].run = logbook[k].run

(* Run r runs on, and no walk-back has begun.                                 *)
RunsOn(r) ==
  /\ stage \in {"off", "eccStatus", "eccWalk", "survey", "wbWait", "rbStop", "failed"}
  /\ RunsIn(r) /\ seq.walked = 0 /\ seq.touched = {}
  /\ stage \in {"rbStop", "failed"} => todo = {}

(* The walk-back stops it.                                                    *)
IsStopped ==
  /\ stage \in {"wbForce", "wbWait2", "wbStop"}
  /\ stage = "wbForce" => todo \subseteq Receivers
  /\ \A i \in Components :
       i \in todo \/ (stage # "wbStop" /\ i \notin Receivers) => comp[i].state = "Running"

(* The survey has found it.                                                   *)
Found(r) ==
  \A i \in Components :
    (stage = "survey" /\ i \notin todo) \/ stage \in {"wbWait", "wbForce", "wbWait2", "wbStop"}
      => seq.before[i] = [state |-> "Running", run |-> r]

(* Run r has no run_stop yet, but is sure to get it.                           *)
Unclosed(r) ==
  \/ (RunsOn(r) \/ IsStopped) /\ Found(r)
  \/ stage \in AfterWalk /\ seq.walked = r

(* What the logbook tells.                                                    *)
Tale ==
  \/ \A k : ~HasStart(k)
  \/ \E k \in DOMAIN logbook :
       /\ HasStart(k) /\ logbook[k].run >= 1
       /\ \A j \in DOMAIN logbook : HasStart(j) => j = k
       /\ \/ phase = "Running" /\ RunsIn(logbook[k].run)
          \/ phase # "Running" /\ count.crashes = 1 /\ (Unclosed(logbook[k].run) \/ ClosedAfter(k))
  \/ /\ phase = "Running" /\ count.crashes = 1
     /\ \A k, m \in DOMAIN logbook :
          k < m /\ HasStart(k) /\ HasStart(m)
          => \E n \in k .. m : logbook[n].kind = "restart_stop" /\ logbook[n].run = logbook[k].run

(* What is counted grows one by one.                                          *)
LEMMA CountGrows ==
  ASSUME Next
  PROVE  \/ count' = count \/ Lose
         \/ count' = [count EXCEPT !.errors = @ + 1]
         \/ count' = [count EXCEPT !.restarts = @ + 1]
         \/ count' = [count EXCEPT !.stops = @ + 1]
         \/ count' = [count EXCEPT !.operator = @ + 1]
         \/ count' = [count EXCEPT !.crashes = @ + 1] /\ Crash
<1>1. ASSUME NEW i, NEW c, NEW ok, Call(i, c, ok) PROVE count' = count \/ Lose
  BY <1>1 DEF Call, Exec, NoReply
<1>2. ASSUME NEW c, NEW ok, EccCall(c, ok) PROVE count' = count \/ Lose
  BY <1>2 DEF EccCall
<1>3. ASSUME NEW i, NEW ok, Ask(i, ok) PROVE count' = count \/ Lose
  BY <1>3 DEF Ask
<1>4. CASE EccStatus \/ EccWalk \/ EccWalked \/ Survey \/ SurveyDone \/ EccStart \/ EccStop
  BY <1>2, <1>3, <1>4 DEF EccStatus, EccWalk, EccWalked, Survey, SurveyDone, EccStart, EccStop
<1>5. CASE WalkBackStep \/ WalkBackDone \/ PollGraw \/ PollDecoder \/ GiveUp \/ ChainStep
           \/ ArmStep \/ ChainDone
  BY <1>1, <1>3, <1>5 DEF WalkBackStep, WalkBackDone, PollGraw, PollDecoder, GiveUp, ChainStep,
     ArmStep, ChainDone
<1>6. CASE RecordWalkedBack \/ RunStarted \/ RunFailed \/ StopStatus \/ ForceEos \/ FoldStop
           \/ FoldReset \/ FoldDone
  BY <1>1, <1>3, <1>6 DEF RecordWalkedBack, RunStarted, RunFailed, StopStatus, ForceEos, FoldStop,
     FoldReset, FoldDone
<1>7. CASE RunStart \/ RunStop \/ Crash \/ LateEcc \/ OperatorEcc \/ DecoderReads
  BY <1>7 DEF RunStart, RunStop, Crash, LateEcc, OperatorEcc, DecoderReads, dataOnly
<1>8. CASE \E i \in Components : LateExec(i) \/ ComponentErrs(i) \/ ComponentRestarts(i)
  BY <1>8 DEF LateExec, ComponentErrs, ComponentRestarts, Exec
<1>9. CASE \E r \in Receivers : Feed(r) \/ Eof(r) \/ GrawReads(r)
  BY <1>9 DEF Feed, Eof, GrawReads, dataOnly
<1> QED
  BY <1>4, <1>5, <1>6, <1>7, <1>8, <1>9 DEF Next, Controller

(* Every other fault, and a run/stop, ends the calm.                           *)
LEMMA NotCalm ==
  ASSUME count \in CountType,
         \/ Lose
         \/ count' = [count EXCEPT !.errors = @ + 1]
         \/ count' = [count EXCEPT !.restarts = @ + 1]
         \/ count' = [count EXCEPT !.stops = @ + 1]
  PROVE  ~Calm'
BY DEF Calm, Lose, CountType

(* What was calm before stays calm, but for a first death.                    *)
LEMMA CalmBefore ==
  ASSUME count \in CountType, Next, Calm'
  PROVE  /\ Calm
         /\ \/ count'.crashes = count.crashes
            \/ Crash /\ count.crashes = 0 /\ count'.crashes = 1
<1>1. \/ count' = count \/ count' = [count EXCEPT !.operator = @ + 1]
      \/ count' = [count EXCEPT !.crashes = @ + 1] /\ Crash
  BY CountGrows, NotCalm
<1> QED
  BY <1>1 DEF CountType, Calm

(* A command of a calm start is answered by the component itself.             *)
LEMMA CalmCall ==
  ASSUME ChainTypes, count \in CountType, Calm', NEW i \in Components, NEW c \in CommandSet,
         NEW ok \in BOOLEAN, Call(i, c, ok)
  PROVE  /\ late' = late
         /\ ok = TRUE => /\ \A j \in Components : j # i => comp'[j] = comp[j]
                         /\ c.name = "Start" => comp'[i] = [state |-> "Running", run |-> c.run]
         /\ ok = FALSE => comp' = comp /\ ~Accepts(comp[i].state, c.name)
<1>1. ~Lose
  BY NotCalm
<1>2. late[i] = << >> /\ Exec(i, c, ok) /\ UNCHANGED late
  BY <1>1, Zenon DEF Call, NoReply
<1>3. /\ \A j \in Components : j # i => comp'[j] = comp[j] /\ late'[j] = late[j]
      /\ \A j \in Components : j = i => \/ late'[j] = late[j] /\ late[j] = << >> /\ Obeys(j, c, ok)
                                        \/ ~ok
  BY ChainTypes, count \in CountType, Call(i, c, ok), CallEffect
<1>4. ok = TRUE /\ c.name = "Start" => comp'[i] = [state |-> "Running", run |-> c.run]
  BY <1>3 DEF Obeys
<1>5. ok = FALSE => comp' = comp /\ ~Accepts(comp[i].state, c.name)
  BY <1>1, <1>2 DEF Exec
<1> QED
  BY <1>2, <1>3, <1>4, <1>5

(* A request of a calm start is answered by the ECC.                           *)
LEMMA CalmEccCall ==
  ASSUME count \in CountType, Calm', NEW c, NEW ok \in BOOLEAN, EccCall(c, ok)
  PROVE  ok = TRUE
BY NotCalm DEF EccCall

(* A question of a calm start is answered.                                     *)
LEMMA CalmAsk ==
  ASSUME count \in CountType, Calm', NEW i, NEW ok \in BOOLEAN, Ask(i, ok)
  PROVE  ok = TRUE
BY NotCalm DEF Ask

(* A step of the start that writes nothing into the logbook.                  *)
LEMMA TaleGoesOn ==
  ASSUME Tale, phase = "Starting", phase' = phase, logbook' = logbook,
         count'.crashes = count.crashes, logbook \in Seq(LogRecord),
         \A r \in Nat : r >= 1 /\ Unclosed(r) => Unclosed(r)'
  PROVE  Tale'
<1>1. CASE \A k : ~HasStart(k)
  BY <1>1, Zenon DEF Tale, HasStart
<1>2. CASE \E k \in DOMAIN logbook :
       /\ HasStart(k) /\ logbook[k].run >= 1
       /\ \A j \in DOMAIN logbook : HasStart(j) => j = k
       /\ count.crashes = 1 /\ (Unclosed(logbook[k].run) \/ ClosedAfter(k))
  <2>1. PICK k \in DOMAIN logbook :
       /\ HasStart(k) /\ logbook[k].run >= 1
       /\ \A j \in DOMAIN logbook : HasStart(j) => j = k
       /\ count.crashes = 1 /\ (Unclosed(logbook[k].run) \/ ClosedAfter(k))
    BY <1>2
  <2>2. logbook[k].run \in Nat
    <3>1. logbook[k] \in LogRecord
      BY <2>1
    <3> QED
      BY <3>1 DEF LogRecord
  <2>3. PICK r \in Nat : r = logbook[k].run
    BY <2>2
  <2>4. Unclosed(r)' \/ ClosedAfter(k)
    BY <2>1, <2>3
  <2>5. \/ Unclosed(logbook[k].run)' \/ ClosedAfter(k)'
    <3>1. CASE ClosedAfter(k)
      BY <3>1 DEF ClosedAfter
    <3>2. CASE Unclosed(r)'
      <4>1. r = (logbook[k].run)'
        BY <2>3
      <4> QED
        BY <3>2, <4>1 DEF Unclosed, RunsOn, RunsIn, Found
    <3> QED
      BY <2>4, <3>1, <3>2
  <2>6. /\ k \in DOMAIN logbook' /\ HasStart(k)' /\ (logbook[k].run >= 1)'
        /\ (\A j \in DOMAIN logbook : HasStart(j) => j = k)'
        /\ (phase # "Running")' /\ (count.crashes = 1)'
    BY <2>1 DEF HasStart
  <2> QED
    BY <2>5, <2>6, Zenon DEF Tale
<1> QED
  BY <1>1, <1>2, phase # "Running" DEF Tale

(* The invariant of a calm life of the controller.                             *)
CalmInv == Numbered /\ Smooth /\ Tale

(* A calm step of a start.                                                    *)
LEMMA StartGoesOn ==
  ASSUME CalmInv, phase = "Starting", UNCHANGED <<phase, run, next_run, logbook>>,
         count'.crashes = count.crashes, Smooth', \A r \in Nat : r >= 1 /\ Unclosed(r) => Unclosed(r)'
  PROVE  CalmInv'
<1>1. Numbered'
  BY DEF CalmInv, Numbered
<1>2. Tale'
  BY TaleGoesOn DEF CalmInv, Numbered
<1> QED
  BY <1>1, <1>2 DEF CalmInv

(* Before Start nothing has to run.                                           *)
LEMMA SmoothBefore ==
  ASSUME Smooth, late' = late, phase' = phase,
         stage' \notin {"ecc", "started", "Start"} \cup StopStages
  PROVE  Smooth'
BY DEF Smooth

(* A sequence that is under way without a run/stop is a start.                *)
LEMMA InAStart ==
  ASSUME ControlTypes, Smooth, stage # "off"
  PROVE  phase = "Starting"
BY DEF ControlTypes, Smooth

(* What the steps up to the end of the survey find.                           *)
LEMMA CalmSurvey ==
  ASSUME UndoInv, CalmInv, Calm', count'.crashes = count.crashes,
         EccStatus \/ EccWalk \/ EccWalked \/ Survey \/ SurveyDone
  PROVE  CalmInv'
<1>1. /\ ControlTypes /\ Smooth /\ count \in CountType /\ seq \in LocalsType
      /\ comp \in [Components -> Reported]
  BY DEF UndoInv, CalmInv, ControlTypes, ChainTypes
<1>2. stage \in {"eccStatus", "eccWalk", "survey"}
  BY DEF EccStatus, EccWalk, EccWalked, Survey, SurveyDone
<1>3. phase = "Starting"
  BY <1>1, <1>2, InAStart
<1>4. UNCHANGED <<phase, run, next_run, logbook, comp, late>>
  BY DEF EccStatus, EccWalk, EccWalked, Survey, SurveyDone, Ask, chainVars, ctlVars, runVars
<1>5. stage' \in {"eccWalk", "rbStop", "survey", "wbWait", "wbStop"}
  BY DEF EccStatus, EccWalk, EccWalked, Survey, SurveyDone, Goto, Stay, Rollback
<1>6. Smooth'
  BY <1>1, <1>4, <1>5, SmoothBefore DEF StopStages
<1>7. ASSUME NEW r \in Nat, r >= 1, Unclosed(r) PROVE Unclosed(r)'
  <2>1. RunsOn(r) /\ Found(r)
    BY <1>2, <1>7 DEF Unclosed, IsStopped, AfterWalk
  <2>2. RunsIn(r)' /\ RunsIn(r)
    BY <1>4, <2>1 DEF RunsOn, RunsIn
  <2>3. seq.walked = 0 /\ seq.touched = {}
    BY <2>1 DEF RunsOn
  <2>4. CASE EccStatus \/ EccWalk \/ EccWalked
    <3>1. /\ stage' \in {"eccWalk", "rbStop", "survey"}
          /\ stage' = "rbStop" => todo' = {} 
          /\ stage' = "survey" => todo' = Components
      BY <2>3, <2>4 DEF EccStatus, EccWalk, EccWalked, Goto, Stay, Rollback
    <3>2. seq'.walked = 0 /\ seq'.touched = {}
      BY <1>1, <2>3, <2>4 DEF EccStatus, EccWalk, EccWalked, LocalsType, ctlVars
    <3>3. RunsOn(r)' /\ Found(r)'
      BY <2>2, <3>1, <3>2 DEF RunsOn, RunsIn, Found
    <3> QED
      BY <3>3 DEF Unclosed
  <2>5. CASE Survey
    <3>1. Highest \in todo /\ todo \subseteq Components
      BY <1>1, <2>5, SomethingLeft DEF Survey, ControlTypes
    <3>2. PICK ok \in BOOLEAN :
            /\ Ask(Highest, ok)
            /\ IF ok THEN /\ Goto("survey", todo \ {Highest})
                          /\ seq' = [seq EXCEPT !.before[Highest] = comp[Highest]]
               ELSE Rollback /\ UNCHANGED seq
      BY <2>5 DEF Survey
    <3>3. ok = TRUE
      BY <1>1, <3>2, CalmAsk
    <3>4. /\ stage = "survey" /\ stage' = "survey" /\ todo' = todo \ {Highest}
          /\ seq' = [seq EXCEPT !.before[Highest] = comp[Highest]]
      BY <2>5, <3>2, <3>3 DEF Survey, Goto
    <3>5. seq'.walked = 0 /\ seq'.touched = {}
      BY <1>1, <2>3, <3>4 DEF LocalsType
    <3>6. \A i \in Components : seq'.before[i] = IF i = Highest THEN comp[i] ELSE seq.before[i]
      BY <1>1, <3>1, <3>4 DEF LocalsType
    <3>7. comp[Highest] = [state |-> "Running", run |-> r]
      BY <2>2, <3>1 DEF RunsIn
    <3>8. \A i \in Components : i \notin todo => seq.before[i] = [state |-> "Running", run |-> r]
      BY <2>1, <3>4 DEF Found
    <3>9. Found(r)'
      BY <3>4, <3>6, <3>7, <3>8 DEF Found
    <3>10. RunsOn(r)'
      BY <2>2, <3>4, <3>5 DEF RunsOn, RunsIn
    <3> QED
      BY <3>9, <3>10 DEF Unclosed
  <2>6. CASE SurveyDone
    <3>1. \A i \in Components : seq.before[i] = [state |-> "Running", run |-> r]
      BY <2>1, <2>6 DEF SurveyDone, Found
    <3>2. WasRunning = Components
      BY <3>1 DEF WasRunning
    <3>3. stage' = "wbWait" /\ todo' = {} /\ seq' = seq
      BY <2>6, <3>2 DEF SurveyDone, Goto
    <3>4. RunsOn(r)' /\ Found(r)'
      BY <2>2, <2>3, <3>1, <3>3 DEF RunsOn, RunsIn, Found
    <3> QED
      BY <3>4 DEF Unclosed
  <2> QED
    BY <2>4, <2>5, <2>6
<1> QED
  BY <1>3, <1>4, <1>6, <1>7, StartGoesOn

(* The waits for the EOS.                                                     *)
LEMMA CalmWait ==
  ASSUME UndoInv, CalmInv, Calm', count'.crashes = count.crashes,
         PollGraw \/ PollDecoder \/ GiveUp
  PROVE  CalmInv'
<1>1. /\ ControlTypes /\ Smooth /\ count \in CountType /\ seq \in LocalsType
      /\ comp \in [Components -> Reported]
  BY DEF UndoInv, CalmInv, ControlTypes, ChainTypes
<1>2. stage \in {"wbWait", "wbWait2"}
  BY <1>1 DEF PollGraw, PollDecoder, GiveUp, Waits, Smooth, StopStages
<1>3. phase = "Starting"
  BY <1>1, <1>2, InAStart
<1>4. UNCHANGED <<phase, run, next_run, logbook, comp, late>>
  BY DEF PollGraw, PollDecoder, GiveUp, Ask, chainVars, runVars
<1>5. /\ \/ stage' = stage /\ todo' = todo
         \/ stage = "wbWait" /\ stage' = "wbStop" /\ todo' = Components
         \/ stage = "wbWait" /\ stage' = "wbForce" /\ todo' = Receivers
         \/ stage = "wbWait2" /\ stage' = "wbStop" /\ todo' = Components \ Receivers
      /\ seq'.walked = seq.walked /\ seq'.touched = seq.touched /\ seq'.before = seq.before
  <2>1. \/ Stay /\ \E p \in {"none", "no", "graw"} : seq' = [seq EXCEPT !.poll = p]
        \/ \E closed \in BOOLEAN : WaitEnds(closed)
    BY DEF PollGraw, PollDecoder, GiveUp
  <2>2. CASE Stay /\ \E p \in {"none", "no", "graw"} : seq' = [seq EXCEPT !.poll = p]
    BY <1>1, <2>2 DEF Stay, LocalsType
  <2>3. CASE \E closed \in BOOLEAN : WaitEnds(closed)
    <3>1. PICK closed \in BOOLEAN : WaitEnds(closed)
      BY <2>3
    <3>2. seq' = [seq EXCEPT !.forced = ~closed \/ seq.forced, !.closed = closed, !.poll = "none"]
      BY <3>1 DEF WaitEnds
    <3>3. seq'.walked = seq.walked /\ seq'.touched = seq.touched /\ seq'.before = seq.before
      BY <1>1, <3>2 DEF LocalsType
    <3> QED
      BY <1>2, <3>1, <3>3 DEF WaitEnds, Goto
  <2> QED
    BY <2>1, <2>2, <2>3
<1>6. Smooth'
  BY <1>1, <1>2, <1>4, <1>5, SmoothBefore DEF StopStages
<1>7. ASSUME NEW r \in Nat, r >= 1, Unclosed(r) PROVE Unclosed(r)'
  <2>1. (RunsOn(r) \/ IsStopped) /\ Found(r)
    BY <1>2, <1>7 DEF Unclosed, AfterWalk
  <2>2. \A i \in Components : seq.before[i] = [state |-> "Running", run |-> r]
    BY <1>2, <2>1 DEF Found
  <2>3. Found(r)'
    BY <1>5, <2>2 DEF Found
  <2>4. RunsOn(r)' \/ IsStopped'
    <3>1. CASE stage = "wbWait"
      <4>1. RunsIn(r) /\ seq.walked = 0 /\ seq.touched = {}
        BY <2>1, <3>1 DEF RunsOn, IsStopped
      <4>2. CASE stage' = stage /\ todo' = todo
        BY <1>4, <1>5, <3>1, <4>1, <4>2 DEF RunsOn, RunsIn
      <4>3. CASE stage' \in {"wbStop", "wbForce"}
        <5>1. \A i \in Components : comp'[i].state = "Running"
          BY <1>4, <4>1 DEF RunsIn
        <5> QED
          BY <1>5, <3>1, <4>3, <5>1 DEF IsStopped
      <4> QED
        BY <1>5, <3>1, <4>2, <4>3
    <3>2. CASE stage = "wbWait2"
      <4>1. \A i \in Components : i \in todo \/ i \notin Receivers => comp[i].state = "Running"
        BY <2>1, <3>2 DEF RunsOn, IsStopped
      <4> QED
        BY <1>4, <1>5, <3>2, <4>1 DEF IsStopped
    <3> QED
      BY <1>2, <3>1, <3>2
  <2> QED
    BY <2>3, <2>4 DEF Unclosed
<1> QED
  BY <1>3, <1>4, <1>6, <1>7, StartGoesOn

(* The walk-back stops and resets.                                            *)
LEMMA CalmWalkBack ==
  ASSUME UndoInv, CalmInv, Calm', count'.crashes = count.crashes, WalkBackStep
  PROVE  CalmInv'
<1>1. /\ ControlTypes /\ Smooth /\ ChainTypes /\ count \in CountType
      /\ stage \in {"wbForce", "wbStop", "wbReset"} /\ todo # {} /\ todo \subseteq Components
  BY DEF UndoInv, CalmInv, ControlTypes, WalkBackStep
<1>2. phase = "Starting"
  BY <1>1, InAStart
<1>3. UNCHANGED <<phase, run, next_run, logbook, seq>>
  BY DEF WalkBackStep, ctlVars, runVars
<1> DEFINE h == Highest
           c == Cmd(IF stage = "wbReset" THEN "Reset" ELSE "Stop", 0)
<1>4. h \in todo
  BY <1>1, SomethingLeft
<1>5. PICK ok \in BOOLEAN : /\ Call(h, c, ok)
                            /\ IF ok THEN Goto(stage, todo \ {h}) ELSE Rollback
  BY DEF WalkBackStep
<1>6. c \in CommandSet /\ c.name = IF stage = "wbReset" THEN "Reset" ELSE "Stop"
  BY DEF Cmd, CommandSet, Commands
<1> HIDE DEF h, c
<1>7. /\ late' = late
      /\ ok = TRUE => \A j \in Components : j # h => comp'[j] = comp[j]
      /\ ok = FALSE => ~Accepts(comp[h].state, c.name)
  BY <1>1, <1>4, <1>5, <1>6, CalmCall
<1>8. /\ ok = TRUE => stage' = stage /\ todo' = todo \ {h}
      /\ ok = FALSE => stage' = "rbStop"
  BY <1>5 DEF Goto, Rollback
<1>9. Smooth'
  BY <1>1, <1>3, <1>7, <1>8, SmoothBefore DEF StopStages
<1>10. ASSUME NEW r \in Nat, r >= 1, Unclosed(r) PROVE Unclosed(r)'
  <2>1. CASE stage = "wbReset"
    <3>1. seq.walked = r
      BY <1>10, <2>1 DEF Unclosed, RunsOn, IsStopped
    <3> QED
      BY <1>3, <1>8, <2>1, <3>1 DEF Unclosed, AfterWalk
  <2>2. CASE stage \in {"wbForce", "wbStop"}
    <3>1. IsStopped /\ Found(r)
      BY <1>10, <2>2 DEF Unclosed, RunsOn, AfterWalk
    <3>2. comp[h].state = "Running" /\ c.name = "Stop"
      BY <1>1, <1>4, <1>6, <2>2, <3>1 DEF IsStopped
    <3>3. Accepts(comp[h].state, c.name)
      BY <3>2 DEF Accepts, CanTransition, LegalTransitions, TargetState
    <3>4. ok = TRUE
      BY <1>7, <3>3
    <3>5. stage = "wbForce" => h \in Receivers
      BY <1>4, <3>1 DEF IsStopped
    <3>6. /\ \A j \in Components : j # h => comp'[j] = comp[j]
          /\ stage' = stage /\ todo' = todo \ {h}
      BY <1>7, <1>8, <3>4
    <3>7. IsStopped'
      BY <2>2, <3>1, <3>5, <3>6 DEF IsStopped
    <3>8. Found(r)'
      BY <1>3, <2>2, <3>1, <3>6 DEF Found
    <3> QED
      BY <3>7, <3>8 DEF Unclosed
  <2> QED
    BY <1>1, <2>1, <2>2
<1> QED
  BY <1>2, <1>3, <1>9, <1>10, StartGoesOn

(* previous_run_number of a chain that ran as one.                            *)
LEMMA PreviousRunIs ==
  ASSUME NEW r \in Nat, r >= 1,
         \A i \in Components : seq.before[i] = [state |-> "Running", run |-> r]
  PROVE  PreviousRun = r /\ WasRunning # {}
<1>1. 1 \in Components
  BY SequencerAssumption DEF Components
<1>2. {seq.before[i].run : i \in Components} \ {0} = {r}
  BY <1>1
<1>3. Cardinality({r}) = 1
  BY FS_Singleton
<1>4. (CHOOSE n \in {r} : TRUE) = r
  OBVIOUS
<1> QED
  BY <1>1, <1>2, <1>3, <1>4 DEF PreviousRun, WasRunning

(* From one stage of the walk-back to the next: the run is noted between the   *)
(* Stops and the Resets.                                                       *)
LEMMA CalmWalkBackDone ==
  ASSUME UndoInv, CalmInv, Calm', count'.crashes = count.crashes, WalkBackDone
  PROVE  CalmInv'
<1>1. /\ ControlTypes /\ Smooth /\ seq \in LocalsType /\ todo = {}
      /\ stage \in {"wbForce", "wbStop", "wbReset"}
  BY DEF UndoInv, CalmInv, ControlTypes, WalkBackDone
<1>2. phase = "Starting"
  BY <1>1, InAStart
<1>3. UNCHANGED <<phase, run, next_run, logbook, comp, late>>
  BY DEF WalkBackDone, chainVars, runVars
<1>4. \/ /\ stage = "wbForce" /\ stage' = "wbWait2" /\ todo' = {}
         /\ seq' = [seq EXCEPT !.poll = "none"]
      \/ /\ stage = "wbStop" /\ stage' = "wbReset"
         /\ seq' = [seq EXCEPT !.walked = IF WasRunning = {} THEN 0 ELSE PreviousRun]
      \/ stage = "wbReset" /\ stage' = "Configure" /\ seq' = seq
  BY DEF WalkBackDone, Goto
<1>5. Smooth'
  BY <1>1, <1>3, <1>4, SmoothBefore DEF StopStages
<1>6. ASSUME NEW r \in Nat, r >= 1, Unclosed(r) PROVE Unclosed(r)'
  <2>1. CASE stage = "wbForce"
    <3>1. IsStopped /\ Found(r)
      BY <1>6, <2>1 DEF Unclosed, RunsOn, AfterWalk
    <3>2. stage' = "wbWait2" /\ todo' = {} /\ seq'.before = seq.before
      BY <1>1, <1>4, <2>1 DEF LocalsType
    <3>3. IsStopped'
      BY <1>3, <2>1, <3>1, <3>2 DEF IsStopped
    <3>4. Found(r)'
      BY <2>1, <3>1, <3>2 DEF Found
    <3> QED
      BY <3>3, <3>4 DEF Unclosed
  <2>2. CASE stage = "wbStop"
    <3>1. Found(r)
      BY <1>6, <2>2 DEF Unclosed, AfterWalk
    <3>2. \A i \in Components : seq.before[i] = [state |-> "Running", run |-> r]
      BY <2>2, <3>1 DEF Found
    <3>3. PreviousRun = r /\ WasRunning # {}
      BY <1>6, <3>2, PreviousRunIs
    <3>4. seq'.walked = r /\ stage' = "wbReset"
      BY <1>1, <1>4, <2>2, <3>3 DEF LocalsType
    <3> QED
      BY <3>4 DEF Unclosed, AfterWalk
  <2>3. CASE stage = "wbReset"
    <3>1. seq.walked = r
      BY <1>6, <2>3 DEF Unclosed, RunsOn, IsStopped
    <3> QED
      BY <1>4, <2>3, <3>1 DEF Unclosed, AfterWalk
  <2> QED
    BY <1>1, <2>1, <2>2, <2>3
<1> QED
  BY <1>2, <1>3, <1>5, <1>6, StartGoesOn

(* After the walk-back the run it closed waits for its record.                *)
LEMMA WalkedWaits ==
  ASSUME NEW r \in Nat, Unclosed(r), stage \in AfterWalk,
         stage \in {"rbStop", "failed"} => todo # {} \/ seq.walked # 0,
         stage' \in AfterWalk, seq'.walked = seq.walked
  PROVE  Unclosed(r)'
<1>1. seq.walked = r
  BY DEF Unclosed, RunsOn, IsStopped, AfterWalk
<1> QED
  BY <1>1 DEF Unclosed

(* Configure, Arm, Start and the requests of the ECC.                         *)
LEMMA CalmChain ==
  ASSUME UndoInv, CalmInv, Calm', count'.crashes = count.crashes,
         ChainStep \/ ArmStep \/ ChainDone \/ EccStart
  PROVE  CalmInv'
<1>1. /\ ControlTypes /\ Smooth /\ ChainTypes /\ count \in CountType /\ seq \in LocalsType
      /\ todo \subseteq Components /\ run \in Nat
  BY DEF UndoInv, CalmInv, ControlTypes
<1>2. stage \in {"Configure", "Arm", "Start", "ecc"}
  BY DEF ChainStep, ArmStep, ChainDone, EccStart
<1>3. phase = "Starting"
  BY <1>1, <1>2, InAStart
<1>4. UNCHANGED <<phase, run, next_run, logbook>>
  BY DEF ChainStep, ArmStep, ChainDone, EccStart, runVars
<1>5. /\ seq'.walked = seq.walked
      /\ stage' \in {"Configure", "Arm", "Start", "ecc", "started", "rbStop"}
  <2>1. CASE ChainStep \/ ArmStep
    <3>1. \/ seq' = seq \/ \E n : seq' = [seq EXCEPT !.tries = n]
          \/ \E t : seq' = [seq EXCEPT !.touched = t, !.tries = 0]
      BY <2>1 DEF ChainStep, ArmStep, Touch
    <3> QED
      BY <1>1, <2>1, <3>1 DEF ChainStep, ArmStep, Goto, Stay, Rollback, LocalsType
  <2>2. CASE ChainDone \/ EccStart
    <3>1. seq' = seq \/ \E n : seq' = [seq EXCEPT !.steps = n]
      BY <2>2 DEF ChainDone, EccStart
    <3> QED
      BY <1>1, <2>2, <3>1 DEF ChainDone, EccStart, Goto, Stay, Rollback, LocalsType
  <2> QED
    BY <2>1, <2>2
<1>6. Smooth'
  <2>1. CASE ChainStep \/ ArmStep
    <3> DEFINE i == Lowest
               c == IF stage = "Arm" THEN Cmd("Arm", 0) ELSE Cmd(stage, run)
    <3>1. i \in todo
      BY <1>1, <2>1, SomethingLeft DEF ChainStep, ArmStep
    <3>2. PICK ok \in BOOLEAN :
            /\ Call(i, c, ok)
            /\ ok = TRUE => stage' = stage /\ todo' = todo \ {i}
            /\ ok = FALSE => stage' \in {"Arm", "rbStop"}
      <4>1. CASE ChainStep
        BY <4>1 DEF ChainStep, Goto, Rollback
      <4>2. CASE ArmStep
        BY <4>2 DEF ArmStep, Goto, Stay, Rollback
      <4> QED
        BY <2>1, <4>1, <4>2
    <3>3. c \in CommandSet /\ (stage = "Start" => c.name = "Start" /\ c.run = run)
      BY <1>1, <1>2, <2>1 DEF Cmd, CommandSet, Commands, ChainStep, ArmStep
    <3> HIDE DEF i, c
    <3>4. /\ late' = late
          /\ ok = TRUE => /\ \A j \in Components : j # i => comp'[j] = comp[j]
                          /\ c.name = "Start" => comp'[i] = [state |-> "Running", run |-> c.run]
      BY <1>1, <3>1, <3>2, <3>3, CalmCall
    <3>5. CASE stage' = "Start"
      <4>1. ok = TRUE /\ stage = "Start" /\ todo' = todo \ {i}
        BY <3>2, <3>5
      <4>2. \A j \in Components : j \notin todo => comp[j] = [state |-> "Running", run |-> run]
        BY <1>1, <4>1 DEF Smooth
      <4>3. \A j \in Components : j \notin todo' => comp'[j] = [state |-> "Running", run |-> run]
        BY <3>3, <3>4, <4>1, <4>2
      <4> QED
        BY <1>1, <1>4, <3>4, <3>5, <4>3 DEF Smooth, StopStages
    <3>6. CASE stage' # "Start"
      <4>1. stage' \in {"Configure", "Arm", "rbStop"}
        BY <1>2, <2>1, <3>2, <3>6 DEF ChainStep, ArmStep
      <4> QED
        BY <1>1, <1>4, <3>4, <4>1, SmoothBefore DEF StopStages
    <3> QED
      BY <3>5, <3>6
  <2>2. CASE ChainDone
    <3>1. /\ UNCHANGED <<comp, late>>
          /\ \/ stage' = "Arm"
             \/ stage' = "Start" /\ todo' = Components
             \/ stage = "Start" /\ todo = {} /\ stage' = "ecc"
      BY <2>2 DEF ChainDone, Goto, chainVars
    <3> QED
      BY <1>1, <1>4, <3>1 DEF Smooth, StopStages
  <2>3. CASE EccStart
    <3>1. UNCHANGED <<comp, late>> /\ stage = "ecc"
      BY <2>3 DEF EccStart, chainVars
    <3> QED
      BY <1>1, <1>4, <1>5, <3>1 DEF Smooth, StopStages
  <2> QED
    BY <2>1, <2>2, <2>3
<1>7. ASSUME NEW r \in Nat, r >= 1, Unclosed(r) PROVE Unclosed(r)'
  BY <1>2, <1>5, <1>7, WalkedWaits DEF AfterWalk
<1> QED
  BY <1>3, <1>4, <1>6, <1>7, StartGoesOn

(* A rollback.                                                                *)
LEMMA CalmRollback ==
  ASSUME UndoInv, CalmInv, Calm', count'.crashes = count.crashes,
         FoldStop \/ FoldReset \/ FoldDone
  PROVE  CalmInv'
<1>1. /\ ControlTypes /\ Smooth /\ ChainTypes /\ count \in CountType /\ todo \subseteq Components
  BY DEF UndoInv, CalmInv, ControlTypes
<1>2. stage \in {"rbStop", "rbReset"}
  BY <1>1 DEF FoldStop, FoldReset, FoldDone, Smooth, StopStages
<1>3. phase = "Starting"
  BY <1>1, <1>2, InAStart
<1>4. UNCHANGED <<phase, run, next_run, logbook, seq>>
  BY <1>2 DEF FoldStop, FoldReset, FoldDone, runVars
<1>5. stage' \in {"rbStop", "rbReset", "failed"}
  BY <1>2 DEF FoldStop, FoldReset, FoldDone, Goto
<1>6. late' = late
  <2>1. CASE FoldDone
    BY <2>1 DEF FoldDone, chainVars
  <2>2. CASE FoldStop \/ FoldReset
    <3>1. \E ok \in BOOLEAN : Call(Highest, Cmd("Stop", 0), ok) \/ Call(Highest, Cmd("Reset", 0), ok)
      BY <1>2, <2>2 DEF FoldStop, FoldReset
    <3>2. ~Lose
      BY <1>1, NotCalm
    <3>3. ASSUME NEW c, NEW ok \in BOOLEAN, Call(Highest, c, ok) PROVE late' = late
      BY <3>2, <3>3, Zenon DEF Call, NoReply
    <3> QED
      BY <3>1, <3>3
  <2> QED
    BY <2>1, <2>2
<1>7. Smooth'
  BY <1>1, <1>4, <1>5, <1>6, SmoothBefore DEF StopStages
<1>8. ASSUME NEW r \in Nat, r >= 1, Unclosed(r) PROVE Unclosed(r)'
  <2>1. CASE stage \in AfterWalk /\ seq.walked = r
    BY <1>4, <1>5, <2>1 DEF Unclosed, AfterWalk
  <2>2. CASE RunsOn(r)
    <3>1. stage = "rbStop" /\ todo = {}
      BY <1>2, <2>2 DEF RunsOn
    <3>2. FoldDone
      BY <3>1 DEF FoldStop, FoldReset
    <3>3. stage' = "failed" /\ todo' = {} /\ comp' = comp
      BY <3>1, <3>2 DEF FoldDone, Goto, chainVars
    <3>4. RunsOn(r)' /\ Found(r)'
      BY <1>4, <2>2, <3>3 DEF RunsOn, RunsIn, Found
    <3> QED
      BY <3>4 DEF Unclosed
  <2> QED
    BY <1>2, <1>8, <2>1, <2>2 DEF Unclosed, IsStopped
<1> QED
  BY <1>3, <1>4, <1>7, <1>8, StartGoesOn

(* Nothing the invariant speaks of moves.                                     *)
LEMMA CalmUnmoved ==
  ASSUME CalmInv, UNCHANGED <<comp, late, stage, todo, seq, phase, run, next_run, logbook>>,
         count'.crashes = count.crashes
  PROVE  CalmInv'
<1>1. Numbered' /\ Smooth'
  BY DEF CalmInv, Numbered, Smooth
<1>2. \A k : HasStart(k)' <=> HasStart(k)
  BY DEF HasStart
<1>3. \A k : ClosedAfter(k)' <=> ClosedAfter(k)
  BY DEF ClosedAfter
<1>4. \A r : Unclosed(r)' <=> Unclosed(r)
  BY DEF Unclosed, RunsOn, RunsIn, IsStopped, Found
<1>5. \A r : RunsIn(r)' <=> RunsIn(r)
  BY DEF RunsIn
<1>6. Tale'
  <2>1. CASE \A k : ~HasStart(k)
    BY <1>2, <2>1 DEF Tale
  <2>2. CASE \E k \in DOMAIN logbook :
         /\ HasStart(k) /\ logbook[k].run >= 1
         /\ \A j \in DOMAIN logbook : HasStart(j) => j = k
         /\ \/ phase = "Running" /\ RunsIn(logbook[k].run)
            \/ phase # "Running" /\ count.crashes = 1 /\ (Unclosed(logbook[k].run) \/ ClosedAfter(k))
    <3>1. PICK k \in DOMAIN logbook :
         /\ HasStart(k) /\ logbook[k].run >= 1
         /\ \A j \in DOMAIN logbook : HasStart(j) => j = k
         /\ \/ phase = "Running" /\ RunsIn(logbook[k].run)
            \/ phase # "Running" /\ count.crashes = 1 /\ (Unclosed(logbook[k].run) \/ ClosedAfter(k))
      BY <2>2
    <3>2. PICK r : r = logbook[k].run
      OBVIOUS
    <3>3. /\ HasStart(k)' /\ (\A j \in DOMAIN logbook : HasStart(j) => j = k)'
          /\ \/ phase' = "Running" /\ RunsIn(r)'
             \/ phase' # "Running" /\ count'.crashes = 1 /\ (Unclosed(r)' \/ ClosedAfter(k)')
      BY <1>2, <1>3, <1>4, <1>5, <3>1, <3>2
    <3>4. RunsIn(r)' => RunsIn(logbook[k].run)'
      BY <3>2 DEF RunsIn
    <3>5. Unclosed(r)' => Unclosed(logbook[k].run)'
      BY <3>2 DEF Unclosed, RunsOn, RunsIn, Found
    <3>6. k \in DOMAIN logbook' /\ logbook'[k].run >= 1
      BY <3>1
    <3> QED
      BY <3>3, <3>4, <3>5, <3>6, Zenon DEF Tale
  <2>3. CASE /\ phase = "Running" /\ count.crashes = 1
             /\ \A k, m \in DOMAIN logbook :
                  k < m /\ HasStart(k) /\ HasStart(m)
                  => \E n \in k .. m :
                       logbook[n].kind = "restart_stop" /\ logbook[n].run = logbook[k].run
    BY <1>2, <2>3 DEF Tale
  <2> QED
    BY <2>1, <2>2, <2>3 DEF CalmInv, Tale
<1> QED
  BY <1>1, <1>6 DEF CalmInv

(* The chain and the operator.                                                *)
LEMMA CalmEnvironment ==
  ASSUME UndoInv, CalmInv, Calm', count'.crashes = count.crashes, EnvironmentStep
  PROVE  CalmInv'
<1>1. count \in CountType /\ \A i \in Components : late[i] = << >>
  BY DEF UndoInv, ControlTypes, CalmInv, Smooth
<1>2. UNCHANGED <<comp, late>>
  <2>1. CASE LateEcc \/ OperatorEcc \/ DecoderReads
    BY <2>1 DEF LateEcc, OperatorEcc, DecoderReads, dataOnly, chainVars
  <2>2. CASE \E r \in Receivers : Feed(r) \/ Eof(r) \/ GrawReads(r)
    BY <2>2 DEF Feed, Eof, GrawReads, dataOnly
  <2>3. CASE \E i \in Components : LateExec(i)
    BY <1>1, <2>3 DEF LateExec
  <2>4. CASE \E i \in Components : ComponentErrs(i) \/ ComponentRestarts(i)
    <3>1. \/ count' = [count EXCEPT !.errors = @ + 1]
          \/ count' = [count EXCEPT !.restarts = @ + 1]
      BY <2>4 DEF ComponentErrs, ComponentRestarts
    <3> QED
      BY <1>1, <3>1, NotCalm
  <2> QED
    BY <2>1, <2>2, <2>3, <2>4 DEF EnvironmentStep
<1>3. UNCHANGED <<phase, run, next_run, seq, stage, todo>>
  BY ControllerStill
<1>4. logbook' = logbook
  BY DEF EnvironmentStep, LateEcc, OperatorEcc, DecoderReads, LateExec, ComponentErrs,
     ComponentRestarts, Feed, Eof, GrawReads, dataOnly, ctlVars, runVars
<1> QED
  BY <1>2, <1>3, <1>4, CalmUnmoved

(* One more record.                                                           *)
LEMMA OneMoreRecord ==
  ASSUME NEW rec \in LogRecord, logbook \in Seq(LogRecord), logbook' = Append(logbook, rec)
  PROVE  /\ logbook' \in Seq(LogRecord) /\ Len(logbook) \in Nat
         /\ DOMAIN logbook = 1 .. Len(logbook)
         /\ DOMAIN logbook' = 1 .. Len(logbook) + 1
         /\ \A k \in DOMAIN logbook : k \in DOMAIN logbook' /\ logbook'[k] = logbook[k]
         /\ logbook'[Len(logbook) + 1] = rec /\ Len(logbook) + 1 \in DOMAIN logbook'
         /\ \A k : HasStart(k)' <=> HasStart(k) \/ (k = Len(logbook) + 1 /\ rec.kind = "run_start")
         /\ \A k \in DOMAIN logbook : ClosedAfter(k) => ClosedAfter(k)'
<1>1. /\ logbook' \in Seq(LogRecord) /\ Len(logbook) \in Nat
      /\ DOMAIN logbook = 1 .. Len(logbook)
      /\ DOMAIN logbook' = 1 .. Len(logbook) + 1
      /\ \A k \in DOMAIN logbook : k \in DOMAIN logbook' /\ logbook'[k] = logbook[k]
      /\ logbook'[Len(logbook) + 1] = rec /\ Len(logbook) + 1 \in DOMAIN logbook'
  OBVIOUS
<1>2. \A k : k \in DOMAIN logbook' <=> k \in DOMAIN logbook \/ k = Len(logbook) + 1
  BY <1>1
<1>3. Len(logbook) + 1 \notin DOMAIN logbook
  BY <1>1
<1>4. \A k : HasStart(k)' <=> HasStart(k) \/ (k = Len(logbook) + 1 /\ rec.kind = "run_start")
  BY <1>1, <1>2, <1>3 DEF HasStart
<1>5. \A k \in DOMAIN logbook : ClosedAfter(k) => ClosedAfter(k)'
  BY <1>1 DEF ClosedAfter
<1> QED
  BY <1>1, <1>4, <1>5

(* The two cases in which one run is in the logbook.                          *)
Single(k) ==
  /\ k \in DOMAIN logbook /\ HasStart(k) /\ logbook[k].run >= 1
  /\ \A j \in DOMAIN logbook : HasStart(j) => j = k

(* The tale of one run.                                                        *)
LEMMA TaleOfOne ==
  ASSUME NEW k, Single(k)', NEW r, r = logbook'[k].run,
         \/ phase' = "Running" /\ RunsIn(r)'
         \/ phase' # "Running" /\ count'.crashes = 1 /\ (Unclosed(r)' \/ ClosedAfter(k)')
  PROVE  Tale'
<1>1. RunsIn(r)' => RunsIn(logbook[k].run)'
  BY DEF RunsIn
<1>2. Unclosed(r)' => Unclosed(logbook[k].run)'
  BY DEF Unclosed, RunsOn, RunsIn, Found
<1> QED
  BY <1>1, <1>2, Zenon DEF Tale, Single

(* The tale while no run is on.                                               *)
LEMMA TaleCases ==
  ASSUME CalmInv
  PROVE  \/ \A k : ~HasStart(k)
         \/ \E k, r : /\ Single(k) /\ r = logbook[k].run /\ r \in Nat /\ r >= 1
                      /\ \/ phase = "Running" /\ RunsIn(r)
                         \/ phase # "Running" /\ count.crashes = 1 /\ (Unclosed(r) \/ ClosedAfter(k))
         \/ phase = "Running" /\ count.crashes = 1
<1>1. \A k \in DOMAIN logbook : logbook[k].run \in Nat
  <2>1. \A k \in DOMAIN logbook : logbook[k] \in LogRecord
    BY DEF CalmInv, Numbered
  <2> QED
    BY <2>1 DEF LogRecord
<1> QED
  BY <1>1 DEF CalmInv, Tale, Single

(* The run that was walked back gets its record.                              *)
LEMMA CalmRecord ==
  ASSUME UndoInv, CalmInv, count'.crashes = count.crashes, RecordWalkedBack
  PROVE  CalmInv'
<1>1. /\ ControlTypes /\ Smooth /\ Numbered /\ seq \in LocalsType
      /\ stage \in {"started", "failed"} /\ seq.walked # 0
  BY DEF UndoInv, CalmInv, ControlTypes, RecordWalkedBack
<1>2. phase = "Starting"
  BY <1>1, InAStart
<1>3. UNCHANGED <<comp, late, stage, todo, phase, run, next_run>>
  BY DEF RecordWalkedBack, chainVars
<1> DEFINE rec == [kind |-> "restart_stop", run |-> seq.walked, closed |-> seq.closed]
           n == Len(logbook) + 1
<1>4. rec \in LogRecord /\ rec.kind = "restart_stop" /\ rec.run = seq.walked
  BY <1>1 DEF LogRecord, LocalsType
<1>5. logbook' = Append(logbook, rec)
  BY DEF RecordWalkedBack, Record
<1> HIDE DEF rec
<1>6. /\ logbook' \in Seq(LogRecord) /\ Len(logbook) \in Nat
      /\ DOMAIN logbook = 1 .. Len(logbook)
      /\ DOMAIN logbook' = 1 .. Len(logbook) + 1
      /\ \A k \in DOMAIN logbook : k \in DOMAIN logbook' /\ logbook'[k] = logbook[k]
      /\ logbook'[n] = rec /\ n \in DOMAIN logbook'
      /\ \A k : HasStart(k)' <=> HasStart(k)
      /\ \A k \in DOMAIN logbook : ClosedAfter(k) => ClosedAfter(k)'
  BY <1>1, <1>4, <1>5, OneMoreRecord DEF Numbered
<1>7. Numbered' /\ Smooth'
  BY <1>1, <1>3, <1>6 DEF Numbered, Smooth
<1>8. Tale'
  <2>1. CASE \A k : ~HasStart(k)
    BY <1>6, <2>1, Zenon DEF Tale
  <2>2. ASSUME NEW k, NEW r, Single(k), r = logbook[k].run, r >= 1, count.crashes = 1,
               Unclosed(r) \/ ClosedAfter(k)
        PROVE  Tale'
    <3>1. k \in DOMAIN logbook
      BY <2>2 DEF Single
    <3>2. Single(k)' /\ r = logbook'[k].run
      BY <1>6, <2>2 DEF Single, HasStart
    <3>3. ClosedAfter(k)'
      <4>1. CASE ClosedAfter(k)
        BY <1>6, <3>1, <4>1
      <4>2. CASE Unclosed(r)
        <5>1. seq.walked = r
          BY <1>1, <4>2 DEF Unclosed, RunsOn, IsStopped
        <5>2. n >= k /\ logbook'[n].kind = "restart_stop" /\ logbook'[n].run = r
          BY <1>4, <1>6, <3>1, <5>1
        <5> QED
          BY <1>6, <3>2, <5>2 DEF ClosedAfter
      <4> QED
        BY <2>2, <4>1, <4>2
    <3> QED
      BY <1>2, <1>3, <2>2, <3>2, <3>3, TaleOfOne
  <2> QED
    BY <1>2, <2>1, <2>2, TaleCases
<1> QED
  BY <1>7, <1>8 DEF CalmInv

(* The run is on and gets its record.                                         *)
LEMMA CalmStarted ==
  ASSUME UndoInv, CalmInv, count'.crashes = count.crashes, RunStarted
  PROVE  CalmInv'
<1>1. /\ ControlTypes /\ Smooth /\ Numbered /\ run \in Nat
      /\ stage = "started" /\ seq.walked = 0
  BY DEF UndoInv, CalmInv, ControlTypes, RunStarted
<1>2. phase = "Starting"
  BY <1>1, InAStart
<1>3. /\ UNCHANGED <<comp, late, run, next_run>>
      /\ phase' = "Running" /\ stage' = "off" /\ todo' = {} /\ seq' = Locals
  BY DEF RunStarted, chainVars, Goto
<1> DEFINE rec == [kind |-> "run_start", run |-> run, closed |-> FALSE]
           m == Len(logbook) + 1
<1>4. rec \in LogRecord /\ rec.kind = "run_start" /\ rec.run = run
  BY <1>1 DEF LogRecord
<1>5. logbook' = Append(logbook, rec)
  BY DEF RunStarted, Record
<1> HIDE DEF rec
<1>6. /\ logbook' \in Seq(LogRecord) /\ Len(logbook) \in Nat
      /\ DOMAIN logbook = 1 .. Len(logbook)
      /\ DOMAIN logbook' = 1 .. Len(logbook) + 1
      /\ \A k \in DOMAIN logbook : k \in DOMAIN logbook' /\ logbook'[k] = logbook[k]
      /\ logbook'[m] = rec /\ m \in DOMAIN logbook'
      /\ \A k : HasStart(k)' <=> HasStart(k) \/ k = m
  BY <1>1, <1>4, <1>5, OneMoreRecord DEF Numbered
<1>7. run >= 1
  BY <1>1, <1>2 DEF Numbered
<1>8. Numbered' /\ Smooth'
  BY <1>1, <1>3, <1>6, <1>7 DEF Numbered, Smooth, StopStages
<1>9. Tale'
  <2>1. CASE \A k : ~HasStart(k)
    <3>1. PICK r : r = run
      OBVIOUS
    <3>2. RunsIn(r)'
      BY <1>1, <1>3, <3>1 DEF RunsIn, Smooth
    <3>3. PICK k : k = m
      OBVIOUS
    <3>4. Single(k)' /\ r = logbook'[k].run
      BY <1>4, <1>6, <1>7, <2>1, <3>1, <3>3 DEF Single, HasStart
    <3> QED
      BY <1>3, <3>2, <3>4, TaleOfOne
  <2>2. ASSUME NEW k, NEW r, Single(k), r = logbook[k].run, r \in Nat, r >= 1, count.crashes = 1,
               Unclosed(r) \/ ClosedAfter(k)
        PROVE  Tale'
    <3>1. ~Unclosed(r)
      BY <1>1, <2>2 DEF Unclosed, RunsOn, IsStopped
    <3>2. k \in DOMAIN logbook /\ \A j : HasStart(j) => j = k
      BY <2>2 DEF Single, HasStart
    <3>3. PICK n \in DOMAIN logbook :
            n >= k /\ logbook[n].kind = "restart_stop" /\ logbook[n].run = logbook[k].run
      BY <2>2, <3>1 DEF ClosedAfter
    <3>4. ASSUME NEW a \in DOMAIN logbook', NEW b \in DOMAIN logbook', a < b, HasStart(a)',
                 HasStart(b)'
          PROVE  \E x \in a .. b :
                   logbook'[x].kind = "restart_stop" /\ logbook'[x].run = logbook'[a].run
      <4>1. a = k /\ b = m
        BY <1>6, <3>2, <3>4
      <4>2. n \in a .. b
        BY <1>6, <3>2, <3>3, <4>1
      <4>3. logbook'[n] = logbook[n] /\ logbook'[a] = logbook[a]
        BY <1>6, <3>2, <4>1
      <4> QED
        BY <3>3, <4>1, <4>2, <4>3
    <3> QED
      BY <1>3, <2>2, <3>4 DEF Tale
  <2> QED
    BY <1>2, <2>1, <2>2, TaleCases
<1> QED
  BY <1>8, <1>9 DEF CalmInv

(* A start begins, fails, or is lost with the controller.                     *)
LEMMA CalmTurn ==
  ASSUME UndoInv, CalmInv,
         \/ RunStart /\ count'.crashes = count.crashes
         \/ RunFailed /\ count'.crashes = count.crashes
         \/ Crash /\ count.crashes = 0 /\ count'.crashes = 1
  PROVE  CalmInv'
<1>1. /\ ControlTypes /\ Smooth /\ Numbered /\ run \in Nat /\ next_run \in Nat
  BY DEF UndoInv, CalmInv, ControlTypes
<1>2. /\ UNCHANGED <<comp, late, logbook>> /\ seq' = Locals /\ todo' = {}
      /\ stage' \in {"off", "eccStatus"} /\ phase' \in {"Idle", "Starting"}
  BY DEF RunStart, RunFailed, Crash, chainVars, runVars, Goto
<1>3. Smooth'
  BY <1>1, <1>2 DEF Smooth, StopStages
<1>4. Numbered'
  <2>1. CASE RunStart
    BY <1>1, <1>2, <2>1 DEF RunStart, Numbered
  <2>2. CASE RunFailed
    <3>1. phase = "Starting"
      BY <1>1, <2>2, InAStart DEF RunFailed
    <3> QED
      BY <1>1, <1>2, <2>2, <3>1 DEF RunFailed, Numbered
  <2>3. CASE Crash
    BY <1>1, <1>2, <2>3 DEF Crash, Numbered
  <2> QED
    BY <2>1, <2>2, <2>3
<1>5. seq'.walked = 0 /\ seq'.touched = {}
  BY <1>2 DEF Locals
<1>6. ASSUME NEW r, RunsIn(r) PROVE Unclosed(r)'
  <2>1. RunsOn(r)' /\ Found(r)'
    BY <1>2, <1>5, <1>6 DEF RunsOn, RunsIn, Found
  <2> QED
    BY <2>1 DEF Unclosed
<1>7. /\ \A k : HasStart(k)' <=> HasStart(k)
      /\ \A k : ClosedAfter(k)' <=> ClosedAfter(k)
      /\ \A k : Single(k)' <=> Single(k)
  BY <1>2 DEF HasStart, ClosedAfter, Single
<1>8. Tale'
  <2>1. CASE \A k : ~HasStart(k)
    BY <1>7, <2>1 DEF Tale
  <2>2. ASSUME NEW k, NEW r, Single(k), r = logbook[k].run, r \in Nat, r >= 1,
               \/ phase = "Running" /\ RunsIn(r)
               \/ phase # "Running" /\ count.crashes = 1 /\ (Unclosed(r) \/ ClosedAfter(k))
        PROVE  Tale'
    <3>1. count'.crashes = 1 /\ (RunsIn(r) \/ ClosedAfter(k))
      <4>1. CASE RunStart
        <5>1. phase = "Idle" /\ stage = "off"
          BY <1>1, <4>1 DEF RunStart, ControlTypes
        <5> QED
          BY <2>2, <4>1, <5>1 DEF Unclosed, RunsOn, IsStopped, AfterWalk, Crash, RunFailed
      <4>2. CASE RunFailed
        <5>1. stage = "failed" /\ seq.walked = 0 /\ phase = "Starting"
          BY <1>1, <4>2, InAStart DEF RunFailed
        <5> QED
          BY <2>2, <4>2, <5>1 DEF Unclosed, RunsOn, IsStopped, Crash, RunStart
      <4>3. CASE Crash /\ count.crashes = 0 /\ count'.crashes = 1
        BY <2>2, <4>3
      <4> QED
        BY <4>1, <4>2, <4>3
    <3>2. Unclosed(r)' \/ ClosedAfter(k)'
      BY <1>6, <1>7, <3>1
    <3>3. Single(k)' /\ r = logbook'[k].run /\ phase' # "Running"
      BY <1>2, <1>7, <2>2
    <3> QED
      BY <3>1, <3>2, <3>3, TaleOfOne
  <2>3. ~(phase = "Running" /\ count.crashes = 1)
    <3>1. CASE RunFailed
      BY <1>1, <3>1, InAStart DEF RunFailed
    <3>2. CASE RunStart
      BY <3>2 DEF RunStart
    <3>3. CASE count.crashes = 0
      BY <3>3
    <3> QED
      BY <3>1, <3>2, <3>3
  <2> QED
    BY <2>1, <2>2, <2>3, TaleCases
<1> QED
  BY <1>3, <1>4, <1>8 DEF CalmInv

(* The invariant of every life of the controller.                             *)
CalmLife == Calm => CalmInv

(* The invariant holds at the start.                                           *)
LEMMA CalmInit == Init => CalmLife
<1> SUFFICES ASSUME Init PROVE CalmInv
  BY DEF CalmLife
<1>1. Numbered /\ Smooth
  BY DEF Init, Numbered, Smooth, StopStages
<1>2. Tale
  BY DEF Init, Tale, HasStart
<1> QED
  BY <1>1, <1>2 DEF CalmInv

(* Every step keeps it.                                                        *)
LEMMA CalmStep == UndoInv /\ CalmLife /\ [Next]_vars => CalmLife'
<1> SUFFICES ASSUME UndoInv, CalmLife, [Next]_vars, Calm' PROVE CalmInv'
  BY DEF CalmLife
<1>0. count \in CountType
  BY DEF UndoInv, ControlTypes
<1>1. CASE UNCHANGED vars
  <2>1. UNCHANGED <<comp, late, stage, todo, seq, phase, run, next_run, logbook, count>>
    BY <1>1 DEF vars, chainVars, ctlVars, runVars
  <2>2. CalmInv
    BY <2>1 DEF CalmLife, Calm
  <2> QED
    BY <2>1, <2>2, CalmUnmoved
<1>2. CASE Next
  <2>1. /\ Calm
        /\ \/ count'.crashes = count.crashes
           \/ Crash /\ count.crashes = 0 /\ count'.crashes = 1
    BY <1>0, <1>2, CalmBefore
  <2>2. CalmInv /\ stage \notin StopStages
    BY <2>1 DEF CalmLife, CalmInv, Smooth
  <2>3. ~RunStop
    BY <1>0, NotCalm DEF RunStop
  <2>4. ~(StopStatus \/ EccStop \/ ForceEos)
    BY <2>2 DEF StopStatus, EccStop, ForceEos, StopStages
  <2>5. CASE Crash /\ count.crashes = 0 /\ count'.crashes = 1
    BY <2>2, <2>5, CalmTurn
  <2>6. CASE count'.crashes = count.crashes
    <3>1. ~Crash
      BY <1>0, <2>6 DEF Crash, CountType
    <3>2. CASE EnvironmentStep
      BY <2>2, <2>6, <3>2, CalmEnvironment
    <3>3. CASE RunStart \/ RunFailed
      BY <2>2, <2>6, <3>3, CalmTurn
    <3> QED
      BY <1>2, <2>2, <2>3, <2>4, <2>6, <3>1, <3>2, <3>3, CalmSurvey, CalmWait, CalmWalkBack,
         CalmWalkBackDone, CalmChain, CalmRollback, CalmRecord, CalmStarted
         DEF Next, Controller, EnvironmentStep
  <2> QED
    BY <2>1, <2>5, <2>6
<1> QED
  BY <1>1, <1>2

(* The invariant implies StartedRunsAreClosed, by Tale.                        *)
LEMMA CalmClosed == UndoInv /\ CalmLife => StartedRunsAreClosed
<1> SUFFICES ASSUME UndoInv, CalmLife, NEW k \in DOMAIN logbook, NEW m \in DOMAIN logbook, k < m,
                    count.lost + count.errors + count.restarts + count.stops = 0,
                    count.crashes <= 1, logbook[k].kind = "run_start", logbook[m].kind = "run_start"
             PROVE  \E n \in k .. m :
                      logbook[n].kind = "restart_stop" /\ logbook[n].run = logbook[k].run
  BY DEF StartedRunsAreClosed
<1>1. count \in CountType
  BY DEF UndoInv, ControlTypes
<1>2. Calm
  BY <1>1 DEF Calm, CountType
<1>3. Tale /\ logbook \in Seq(LogRecord)
  BY <1>2 DEF CalmLife, CalmInv, Numbered
<1>4. k # m
  BY <1>3
<1>5. HasStart(k) /\ HasStart(m)
  BY DEF HasStart
<1> QED
  BY <1>3, <1>4, <1>5, Zenon DEF Tale

(* No run is left open in the logbook when the next one starts: the run the    *)
(* controller died in gets its run_stop by the walk-back of the next           *)
(* run/start, even when that start fails or is disturbed by requests of the    *)
(* operator (append_walked_back_run_stop), for any chain.                      *)
THEOREM LoggedRunsAreClosed == Spec => []StartedRunsAreClosed
<1>1. UndoInv /\ UndoInv' /\ CalmLife /\ [Next]_vars => CalmLife'
  BY CalmStep
<1> QED
  BY <1>1, UndoInit, UndoStep, CalmInit, CalmClosed, PTL DEF Spec
===============================================================================
