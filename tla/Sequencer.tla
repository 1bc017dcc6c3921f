------------------------------ MODULE Sequencer ------------------------------
(* The run sequencer of the controller (src/src/controller/sequencer.rs) and  *)
(* the two REST handlers that drive it (rest.rs: run/start, run/stop), against *)
(* a chain of components and an ECC that can lose commands, answer too late,  *)
(* fail and restart.  A command that timed out may still sit in the REP       *)
(* socket of its component, which executes it before any later command.       *)
EXTENDS ComponentState, Integers, Sequences, FiniteSets

CONSTANTS
  NReceivers,   \* receivers in the chain
  ArmAttempts,  \* ARM_MAX_ATTEMPTS
  MaxStops,     \* bound: run/stop requests taken up
  MaxLost,      \* bound: commands that get no answer, binds that fail
  MaxErrors,    \* bound: components that enter Error
  MaxRestarts,  \* bound: component processes that die and come back
  MaxCrashes,   \* bound: deaths of the controller
  MaxFaults,    \* bound: lost commands, errors, restarts and deaths together
  MaxOperator   \* bound: POST /api/ecc/<action> requests of the operator

ASSUME SequencerAssumption ==
  /\ NReceivers \in Nat \ {0} /\ ArmAttempts \in Nat \ {0}
  /\ MaxStops \in Nat /\ MaxLost \in Nat /\ MaxErrors \in Nat
  /\ MaxRestarts \in Nat /\ MaxCrashes \in Nat
  /\ MaxFaults \in Nat /\ MaxOperator \in Nat

(* params.components, from downstream to upstream.                            *)
Graw       == 1
Decoder    == 2
Receivers  == 3 .. NReceivers + 2
Components == 1 .. NReceivers + 2

EccWalkBackMaxSteps == 4

VARIABLES
  (* --- the chain --------------------------------------------------------- *)
  comp,      \* per component: its state and run number (0 = None)
  late,      \* per component: commands it has not executed yet, unanswered
  ecc,       \* state of the ECC
  ecc_late,  \* requests the ECC has not executed yet, unanswered
  link,      \* run whose listeners the CoBos are connected to
  fed,       \* receivers that forwarded data of their run
  eos,       \* receivers that forwarded EndOfStream of their run
  graw, dec, \* what the two consumers have read
  (* --- the controller ---------------------------------------------------- *)
  phase,     \* Controller.run.phase
  stage,     \* what the sequence is doing
  todo,      \* components the stage has still to visit
  run,       \* number of the run being started, taken or stopped
  next_run,  \* the state file
  seq,       \* the locals of start_run and stop_run
  logbook,
  (* --- bounds and history ------------------------------------------------ *)
  count,     \* stops, lost commands, errors, restarts, crashes, operator requests
  failed,    \* components that failed since the last run/start
  missed     \* a rollback command of this start was not answered

flowVars  == <<fed, eos, graw, dec>>
chainVars == <<comp, late, flowVars>>
eccVars   == <<ecc, ecc_late, link>>
runVars   == <<phase, run, next_run, logbook>>
ctlVars   == <<runVars, seq, missed>>
vars == <<chainVars, eccVars, ctlVars, stage, todo, count, failed>>

Blank == [state |-> "Idle", run |-> 0]
NoGraw == [writer |-> FALSE, thread |-> FALSE, data |-> {}, eos |-> {}, open |-> FALSE]
NoDec  == [thread |-> FALSE, eos |-> {}, out |-> FALSE, errored |-> FALSE]

(* touched: components a rollback has to fold.  before: what the survey found. *)
(* seen, steps: the ECC's answer and the requests made.  tries: of one Arm.   *)
(* poll: the last answer to eos_complete.  walked: run the walk-back closed.  *)
Locals == [touched |-> {}, before |-> [i \in Components |-> Blank], seen |-> "Off",
           steps |-> 0, tries |-> 0, abort |-> FALSE, forced |-> FALSE,
           closed |-> FALSE, poll |-> "none", walked |-> 0]

Init ==
  /\ comp = [i \in Components |-> Blank]
  /\ late = [i \in Components |-> << >>]
  /\ ecc = "Off" /\ ecc_late = << >> /\ link = 0
  /\ fed = {} /\ eos = {} /\ graw = NoGraw /\ dec = NoDec
  /\ phase = "Idle" /\ stage = "off" /\ todo = {}
  /\ run = 0 /\ next_run = 1 /\ seq = Locals
  /\ logbook = << >> /\ missed = FALSE /\ failed = {}
  /\ count = [stops |-> 0, lost |-> 0, errors |-> 0, restarts |-> 0, crashes |-> 0,
              operator |-> 0]

MayFail == count.lost + count.errors + count.restarts + count.crashes < MaxFaults

Lose == MayFail /\ count.lost < MaxLost /\ count' = [count EXCEPT !.lost = @ + 1]

-----------------------------------------------------------------------------
(* A component executes a command                                             *)

Cmd(name, n) == [name |-> name, run |-> n]

(* What a command does to the data plane.  A receiver's Stop puts the EOS it  *)
(* owes on the links and its Reset abandons what is left; Stop and Reset end  *)
(* the consumers' threads, which read nothing more and send no EOS of their   *)
(* own; Start begins afresh.                                                  *)
FlowAfter(i, name) ==
  /\ fed' = IF i \in Receivers /\ name \in {"Start", "Reset"} THEN fed \ {i} ELSE fed
  /\ eos' = IF i \notin Receivers THEN eos
            ELSE CASE name = "Stop" -> eos \cup {i}
                   [] name \in {"Start", "Reset"} -> eos \ {i}
                   [] OTHER -> eos
  /\ graw' = IF i # Graw THEN graw
             ELSE CASE name = "Start" -> [NoGraw EXCEPT !.writer = TRUE, !.thread = TRUE]
                    [] name = "Stop"  -> [graw EXCEPT !.thread = FALSE, !.open = FALSE]
                    [] name = "Reset" -> NoGraw
                    [] OTHER -> graw
  /\ dec' = IF i # Decoder THEN dec
            ELSE CASE name = "Start" -> [NoDec EXCEPT !.thread = TRUE]
                   [] name \in {"Stop", "Reset"} -> [dec EXCEPT !.thread = FALSE]
                   [] OTHER -> dec

RunAfter(i, c) ==
  CASE c.name \in {"Configure", "Start"} -> c.run
    [] c.name = "Reset" -> 0
    [] OTHER -> comp[i].run

(* The decoder keeps its core over a Reset: one that met a violation puts it  *)
(* back into Error at the first command after Configure (latch_error).        *)
StateAfter(i, c) ==
  IF i = Decoder /\ dec.errored /\ c.name = "Configure" THEN "Error" ELSE TargetState(c.name)

(* Success, or a refusal: an illegal transition, or an Arm that cannot bind.  *)
Exec(i, c, ok) ==
  \/ /\ Accepts(comp[i].state, c.name) /\ ok
     /\ comp' = [comp EXCEPT ![i] = [state |-> StateAfter(i, c), run |-> RunAfter(i, c)]]
     /\ FlowAfter(i, c.name)
     /\ UNCHANGED count
  \/ /\ ~Accepts(comp[i].state, c.name) /\ ~ok
     /\ UNCHANGED <<comp, flowVars, count>>
  \/ /\ c.name = "Arm" /\ ~ok /\ Lose
     /\ UNCHANGED <<comp, flowVars>>

(* request: a REQ socket of its own for each round trip, closed when the      *)
(* timeout is over.  The command is lost, or executed later, its answer then  *)
(* goes nowhere.                                                              *)
NoReply(i, c) ==
  /\ Lose
  /\ late' \in {late, [late EXCEPT ![i] = Append(@, c)]}
  /\ UNCHANGED <<comp, flowVars>>

(* apply: the answer comes after everything that was sent before has been     *)
(* executed, or not in time.                                                  *)
Call(i, c, ok) ==
  \/ late[i] = << >> /\ Exec(i, c, ok) /\ UNCHANGED late
  \/ ~ok /\ NoReply(i, c)

(* GetStatus changes nothing.                                                 *)
Ask(i, ok) ==
  /\ IF ok THEN late[i] = << >> /\ UNCHANGED count ELSE Lose
  /\ UNCHANGED chainVars

(* run_command_task: one command after the other, in the order of arrival.    *)
LateExec(i) ==
  /\ late[i] # << >>
  /\ \E ok \in BOOLEAN : Exec(i, Head(late[i]), ok)
  /\ late' = [late EXCEPT ![i] = Tail(@)]
  /\ UNCHANGED <<eccVars, ctlVars, stage, todo, failed>>

-----------------------------------------------------------------------------
(* The real ECC, as ecc/core.rs records it: an undefined transition is ignored *)
(* without an error (the table kept there for tests denies some of them).     *)

EccNext(from, action) ==
  CASE action = "describe"  /\ from \in {"Off", "Idle", "Described"} -> "Described"
    [] action = "prepare"   /\ from \in {"Described", "Prepared"}    -> "Prepared"
    [] action = "configure" /\ from = "Prepared"                     -> "Ready"
    [] action = "start"     /\ from = "Ready"                        -> "Running"
    [] action = "stop"      /\ from = "Running"                      -> "Ready"
    [] action = "breakup"   /\ from \in {"Ready", "Running"}         -> "Prepared"
    [] action = "reset"     /\ from = "Prepared"                     -> "Described"
    [] action = "reset"     /\ from = "Described"                    -> "Idle"
    [] OTHER -> from

(* configure makes the CoBos connect, breakup makes them disconnect.          *)
EccExec(c) ==
  /\ ecc' = EccNext(ecc, c.name)
  /\ link' = CASE c.name = "configure" /\ ecc = "Prepared" -> c.run
               [] c.name = "breakup" /\ ecc \in {"Ready", "Running"} -> 0
               [] OTHER -> link

(* apply_ecc: like apply; the answer carries the state the ECC is in.         *)
EccCall(c, ok) ==
  \/ ok /\ ecc_late = << >> /\ EccExec(c) /\ UNCHANGED <<ecc_late, count>>
  \/ /\ ~ok /\ Lose
     /\ ecc_late' \in {ecc_late, Append(ecc_late, c)}
     /\ UNCHANGED <<ecc, link>>

LateEcc ==
  /\ ecc_late # << >>
  /\ EccExec(Head(ecc_late))
  /\ ecc_late' = Tail(ecc_late)
  /\ UNCHANGED <<chainVars, ctlVars, stage, todo, count, failed>>

(* post_ecc: the operator's own request, in any phase; configure needs the    *)
(* port of every receiver, which Arm has bound.                               *)
Bound(r) == late[r] = << >> /\ comp[r].state \in {"Armed", "Running", "Error"}

OperatorEcc ==
  /\ count.operator < MaxOperator /\ ecc_late = << >>
  /\ count' = [count EXCEPT !.operator = @ + 1]
  /\ \E a \in {"describe", "prepare", "configure", "start", "stop", "breakup", "reset"} :
       /\ a = "configure" => \A r \in Receivers : Bound(r)
       /\ EccExec(Cmd(a, comp[NReceivers + 2].run))
  /\ UNCHANGED <<ecc_late, chainVars, ctlVars, stage, todo, failed>>

-----------------------------------------------------------------------------
(* Data plane and failures                                                    *)

dataOnly == <<comp, late, eccVars, ctlVars, stage, todo, count, failed>>

SameRun(i, r) == comp[i].run = comp[r].run

(* Data of the run passes receiver r; its link is closed by the CoBo.         *)
Feed(r) ==
  /\ comp[r].state = "Running" /\ r \notin eos
  /\ ecc = "Running" /\ link = comp[r].run
  /\ fed' = fed \cup {r}
  /\ UNCHANGED <<dataOnly, eos, graw, dec>>

Eof(r) ==
  /\ comp[r].state \in {"Running", "Error"} /\ r \in fed
  /\ eos' = eos \cup {r}
  /\ UNCHANGED <<dataOnly, fed, graw, dec>>

(* The first frame of a source opens its files; the EOS of every source       *)
(* closes them and ends the thread.                                           *)
GrawReads(r) ==
  /\ graw.thread /\ SameRun(Graw, r)
  /\ \/ /\ r \in fed \ graw.data
        /\ graw' = [graw EXCEPT !.data = @ \cup {r}, !.open = TRUE]
     \/ /\ r \in eos \ graw.eos /\ (r \in fed => r \in graw.data)
        /\ LET all == graw.eos \cup {r} = Receivers
           IN  graw' = [graw EXCEPT !.eos = @ \cup {r}, !.thread = ~all,
                                    !.open = IF all THEN FALSE ELSE @]
  /\ UNCHANGED <<dataOnly, fed, eos, dec>>

(* The decoder sends its own EOS once it has that of every receiver.          *)
DecoderReads ==
  /\ dec.thread
  /\ \/ \E r \in eos \ dec.eos :
          SameRun(Decoder, r) /\ dec' = [dec EXCEPT !.eos = @ \cup {r}]
     \/ dec.eos = Receivers /\ ~dec.out /\ dec' = [dec EXCEPT !.out = TRUE]
  /\ UNCHANGED <<dataOnly, fed, eos, graw>>

(* A queue overflow, a protocol violation, after which the threads go on, or  *)
(* a write error, which ends the graw-writer's thread.  The decoder's are     *)
(* those of its thread.                                                       *)
ComponentErrs(i) ==
  /\ CanTransition(comp[i].state, "Error") /\ count.errors < MaxErrors /\ MayFail
  /\ count' = [count EXCEPT !.errors = @ + 1]
  /\ comp' = [comp EXCEPT ![i].state = "Error"]
  /\ \/ UNCHANGED graw
     \/ i = Graw /\ graw.thread /\ graw' = [graw EXCEPT !.thread = FALSE, !.open = FALSE]
  /\ i = Decoder => dec.thread
  /\ dec' = [dec EXCEPT !.errored = @ \/ i = Decoder]
  /\ failed' = failed \cup {i}
  /\ UNCHANGED <<late, fed, eos, eccVars, ctlVars, stage, todo>>

ComponentRestarts(i) ==
  /\ count.restarts < MaxRestarts /\ MayFail
  /\ count' = [count EXCEPT !.restarts = @ + 1]
  /\ comp' = [comp EXCEPT ![i] = Blank]
  /\ late' = [late EXCEPT ![i] = << >>]
  /\ fed' = fed \ {i} /\ eos' = eos \ {i}
  /\ graw' = IF i = Graw THEN NoGraw ELSE graw
  /\ dec' = IF i = Decoder THEN NoDec ELSE dec
  /\ failed' = failed \cup {i}
  /\ UNCHANGED <<eccVars, ctlVars, stage, todo>>

(* The controller dies: everything but the logbook and the counter is gone.   *)
Crash ==
  /\ count.crashes < MaxCrashes /\ MayFail
  /\ count' = [count EXCEPT !.crashes = @ + 1]
  /\ phase' = "Idle" /\ stage' = "off" /\ todo' = {} /\ seq' = Locals
  /\ missed' = FALSE /\ run' = 0
  /\ UNCHANGED <<chainVars, eccVars, next_run, logbook, failed>>

-----------------------------------------------------------------------------
(* The stages of a sequence.  A stage works through the components in todo,   *)
(* from the downstream end (Lowest) or from the upstream end (Highest).       *)

Lowest  == CHOOSE i \in todo : \A j \in todo : i <= j
Highest == CHOOSE i \in todo : \A j \in todo : i >= j

Goto(s, set) == stage' = s /\ todo' = set
Stay == UNCHANGED <<stage, todo>>

(* rollback: the components touched so far, from upstream.                    *)
Rollback == Goto("rbStop", seq.touched)

Touch(i) == seq' = [seq EXCEPT !.touched = @ \cup {i}, !.tries = 0]

(* post_run_start and take_next_run.                                          *)
RunStart ==
  /\ phase = "Idle"
  /\ phase' = "Starting" /\ Goto("eccStatus", {})
  /\ run' = next_run /\ next_run' = next_run + 1
  /\ seq' = Locals /\ missed' = FALSE /\ failed' = {}
  /\ UNCHANGED <<chainVars, eccVars, logbook, count>>

(* walk_ecc_back_to_idle: look, then step back until Idle or Off.  A step     *)
(* that leaves the state as it was, or too many of them, end the start.       *)
EccStatus ==
  /\ stage = "eccStatus"
  /\ \E ok \in BOOLEAN :
       /\ EccCall(Cmd("status", 0), ok)
       /\ IF ok THEN Goto("eccWalk", {}) /\ seq' = [seq EXCEPT !.seen = ecc]
          ELSE Rollback /\ UNCHANGED seq
  /\ UNCHANGED <<chainVars, runVars, missed, failed>>

WalkBackAction ==
  CASE seq.seen = "Running" -> "stop" [] seq.seen = "Ready" -> "breakup" [] OTHER -> "reset"

EccWalk ==
  /\ stage = "eccWalk" /\ seq.seen \notin {"Idle", "Off"}
  /\ IF seq.steps = EccWalkBackMaxSteps
     THEN Rollback /\ UNCHANGED <<eccVars, seq, count>>
     ELSE \E ok \in BOOLEAN :
            /\ EccCall(Cmd(WalkBackAction, 0), ok)
            /\ IF ok /\ ecc' # seq.seen
               THEN Stay /\ seq' = [seq EXCEPT !.seen = ecc', !.steps = @ + 1]
               ELSE Rollback /\ UNCHANGED seq
  /\ UNCHANGED <<chainVars, runVars, missed, failed>>

(* walk_components_back_to_idle: the survey, from upstream.                   *)
EccWalked ==
  /\ stage = "eccWalk" /\ seq.seen \in {"Idle", "Off"}
  /\ Goto("survey", Components)
  /\ UNCHANGED <<chainVars, eccVars, ctlVars, count, failed>>

Survey ==
  /\ stage = "survey" /\ todo # {}
  /\ \E ok \in BOOLEAN :
       /\ Ask(Highest, ok)
       /\ IF ok THEN /\ Goto("survey", todo \ {Highest})
                     /\ seq' = [seq EXCEPT !.before[Highest] = comp[Highest]]
          ELSE Rollback /\ UNCHANGED seq
  /\ UNCHANGED <<eccVars, runVars, missed, failed>>

WasRunning == {i \in Components : seq.before[i].state = "Running"}

(* Mutant: only what was Running is walked back.                              *)
WasActive_RunningOnly == WasRunning

WasActive == {i \in Components : seq.before[i].state # "Idle"}

(* An intact chain is closed by EOS as in a stop; a broken one is stopped.    *)
SurveyDone ==
  /\ stage = "survey" /\ todo = {}
  /\ IF WasRunning = Components
     THEN Goto("wbWait", {}) /\ UNCHANGED seq
     ELSE /\ Goto("wbStop", WasRunning)
          /\ seq' = [seq EXCEPT !.forced = WasRunning \cap Receivers # {}]
  /\ UNCHANGED <<chainVars, eccVars, runVars, missed, count, failed>>

(* A walk-back stage sends its command to all of todo; any failure ends the   *)
(* start.                                                                     *)
WalkBackStep ==
  /\ stage \in {"wbForce", "wbStop", "wbReset"} /\ todo # {}
  /\ \E ok \in BOOLEAN :
       /\ Call(Highest, Cmd(IF stage = "wbReset" THEN "Reset" ELSE "Stop", 0), ok)
       /\ IF ok THEN Goto(stage, todo \ {Highest}) ELSE Rollback
  /\ UNCHANGED <<eccVars, ctlVars, failed>>

(* previous_run_number: the number all that report one agree on, or none.     *)
PreviousRun ==
  LET reported == {seq.before[i].run : i \in Components} \ {0}
  IN  IF Cardinality(reported) = 1 THEN CHOOSE n \in reported : TRUE ELSE 0

(* Mutant: the run is noted only when its EOS had to be forced.               *)
WalkBackDone_ForcedOnly ==
  /\ todo = {}
  /\ \/ stage = "wbForce" /\ Goto("wbWait2", {}) /\ seq' = [seq EXCEPT !.poll = "none"]
     \/ /\ stage = "wbStop" /\ Goto("wbReset", WasActive)
        /\ seq' = [seq EXCEPT !.walked = IF seq.forced THEN PreviousRun ELSE 0]
     \/ stage = "wbReset" /\ Goto("Configure", Components) /\ UNCHANGED seq
  /\ UNCHANGED <<chainVars, eccVars, runVars, missed, count, failed>>

(* Between the stages: wait for the forced EOS; note the run that was closed, *)
(* between the Stops and the Resets; go on to Configure.                      *)
WalkBackDone ==
  /\ todo = {}
  /\ \/ stage = "wbForce" /\ Goto("wbWait2", {}) /\ seq' = [seq EXCEPT !.poll = "none"]
     \/ /\ stage = "wbStop" /\ Goto("wbReset", WasActive)
        /\ seq' = [seq EXCEPT !.walked = IF WasRunning = {} THEN 0 ELSE PreviousRun]
     \/ stage = "wbReset" /\ Goto("Configure", Components) /\ UNCHANGED seq
  /\ UNCHANGED <<chainVars, eccVars, runVars, missed, count, failed>>

-----------------------------------------------------------------------------
(* wait_for_eos_or_quiesce (first stage) and wait_for_eos (after the forced   *)
(* EOS): polls of eos_complete until it holds, the receivers are quiet (first *)
(* stage only), or the time is up.                                            *)

Waits == {"wbWait", "wbWait2", "wait", "wait2"}

(* The wait ends: the forced EOS is next, or the fold.  A receiver that was   *)
(* stopped to force the EOS is not stopped again.                             *)
WaitEnds(closed) ==
  LET forced == ~closed \/ seq.forced
  IN  /\ CASE stage = "wbWait" -> IF closed THEN Goto("wbStop", Components)
                                  ELSE Goto("wbForce", Receivers)
           [] stage = "wbWait2" -> Goto("wbStop", Components \ Receivers)
           [] stage = "wait" -> IF closed THEN Goto("foldStop", Components)
                                ELSE Goto("force", Receivers)
           [] stage = "wait2" -> Goto("foldStop", Components)
      /\ seq' = [seq EXCEPT !.forced = forced, !.closed = closed, !.poll = "none"]

(* eos_complete asks the graw-writer first (files_open, which it reports once *)
(* it has a RunWriter), then the decoder (eos_in and eos_out).                *)
PollGraw ==
  /\ stage \in Waits /\ seq.poll \in {"none", "no"}
  /\ \E ok \in BOOLEAN :
       /\ Ask(Graw, ok)
       /\ seq' = [seq EXCEPT !.poll = IF ok /\ graw.writer /\ ~graw.open THEN "graw" ELSE "no"]
  /\ Stay
  /\ UNCHANGED <<eccVars, runVars, missed, failed>>

(* Mutant: the decoder has received every EOS, sent or not its own.           *)
PollDecoder_EosInOnly ==
  /\ stage \in Waits /\ seq.poll = "graw"
  /\ \E ok \in BOOLEAN :
       /\ Ask(Decoder, ok)
       /\ IF ok /\ dec.eos = Receivers THEN WaitEnds(TRUE)
          ELSE Stay /\ seq' = [seq EXCEPT !.poll = "no"]
  /\ UNCHANGED <<eccVars, runVars, missed, failed>>

PollDecoder ==
  /\ stage \in Waits /\ seq.poll = "graw"
  /\ \E ok \in BOOLEAN :
       /\ Ask(Decoder, ok)
       /\ IF ok /\ dec.eos = Receivers /\ dec.out THEN WaitEnds(TRUE)
          ELSE Stay /\ seq' = [seq EXCEPT !.poll = "no"]
  /\ UNCHANGED <<eccVars, runVars, missed, failed>>

(* After a poll that said no: eos_quiesce or eos_timeout has passed.          *)
GiveUp ==
  /\ stage \in Waits /\ seq.poll = "no"
  /\ WaitEnds(FALSE)
  /\ UNCHANGED <<chainVars, eccVars, runVars, missed, count, failed>>

-----------------------------------------------------------------------------
(* Configure, Arm, Start: from downstream, all or nothing                     *)

ChainStep ==
  /\ stage \in {"Configure", "Start"} /\ todo # {}
  /\ \E ok \in BOOLEAN :
       /\ Call(Lowest, Cmd(stage, run), ok)
       /\ IF ok THEN Goto(stage, todo \ {Lowest}) /\ Touch(Lowest)
          ELSE Rollback /\ UNCHANGED seq
  /\ UNCHANGED <<eccVars, runVars, missed, failed>>

(* arm_with_retry: the listening sockets of the last run may not be free yet. *)
ArmStep ==
  /\ stage = "Arm" /\ todo # {}
  /\ \E ok \in BOOLEAN :
       /\ Call(Lowest, Cmd("Arm", 0), ok)
       /\ IF ok THEN Goto("Arm", todo \ {Lowest}) /\ Touch(Lowest)
          ELSE IF seq.tries + 1 < ArmAttempts
               THEN Stay /\ seq' = [seq EXCEPT !.tries = @ + 1]
               ELSE Rollback /\ UNCHANGED seq
  /\ UNCHANGED <<eccVars, runVars, missed, failed>>

ChainDone ==
  /\ todo = {}
  /\ \/ stage = "Configure" /\ Goto("Arm", Components) /\ UNCHANGED seq
     \/ stage = "Arm" /\ Goto("Start", Components) /\ UNCHANGED seq
     \/ stage = "Start" /\ Goto("ecc", {}) /\ seq' = [seq EXCEPT !.steps = 1]
  /\ UNCHANGED <<chainVars, eccVars, runVars, missed, count, failed>>

(* The ECC last, when every receiver listens.  Of the answer only ok counts.  *)
EccRequests == <<"describe", "prepare", "configure", "start">>

(* Mutant: a failed request does not end the start.                           *)
EccStart_Tolerates ==
  /\ stage = "ecc"
  /\ \E ok \in BOOLEAN : EccCall(Cmd(EccRequests[seq.steps], run), ok)
  /\ IF seq.steps < Len(EccRequests)
     THEN Stay /\ seq' = [seq EXCEPT !.steps = @ + 1]
     ELSE Goto("started", {}) /\ UNCHANGED seq
  /\ UNCHANGED <<chainVars, runVars, missed, failed>>

EccStart ==
  /\ stage = "ecc"
  /\ \E ok \in BOOLEAN :
       /\ EccCall(Cmd(EccRequests[seq.steps], run), ok)
       /\ IF ~ok THEN Rollback /\ UNCHANGED seq
          ELSE IF seq.steps < Len(EccRequests)
               THEN Stay /\ seq' = [seq EXCEPT !.steps = @ + 1]
               ELSE Goto("started", {}) /\ UNCHANGED seq
  /\ UNCHANGED <<chainVars, runVars, missed, failed>>

-----------------------------------------------------------------------------
(* The end of a start, in start_run_blocking                                  *)

Record(kind, n, closed) == logbook' = Append(logbook, [kind |-> kind, run |-> n, closed |-> closed])

(* append_walked_back_run_stop: the run the walk-back closed gets its run_stop *)
(* (reason abort:controller-restart), whatever became of the start.           *)
RecordWalkedBack ==
  /\ stage \in {"started", "failed"} /\ seq.walked # 0
  /\ Record("restart_stop", seq.walked, seq.closed)
  /\ seq' = [seq EXCEPT !.walked = 0]
  /\ UNCHANGED <<chainVars, eccVars, phase, run, next_run, missed, stage, todo, count, failed>>

RunStarted ==
  /\ stage = "started" /\ seq.walked = 0
  /\ Record("run_start", run, FALSE)
  /\ phase' = "Running" /\ Goto("off", {}) /\ seq' = Locals
  /\ UNCHANGED <<chainVars, eccVars, run, next_run, missed, count, failed>>

(* The number was not used: the next start takes it again.                    *)
RunFailed ==
  /\ stage = "failed" /\ seq.walked = 0
  /\ next_run' = run
  /\ phase' = "Idle" /\ Goto("off", {}) /\ seq' = Locals
  /\ UNCHANGED <<chainVars, eccVars, run, logbook, missed, count, failed>>

-----------------------------------------------------------------------------
(* run/stop                                                                   *)

RunStop ==
  /\ phase = "Running" /\ count.stops < MaxStops
  /\ count' = [count EXCEPT !.stops = @ + 1]
  /\ phase' = "Stopping" /\ Goto("status", Components)
  /\ UNCHANGED <<chainVars, eccVars, run, next_run, logbook, seq, missed, failed>>

(* stop_run_blocking: a component in Error or out of reach makes it an abort. *)
StopStatus ==
  /\ stage = "status" /\ todo # {}
  /\ Goto("status", todo \ {Lowest})
  /\ \E ok \in BOOLEAN :
       /\ Ask(Lowest, ok)
       /\ seq' = [seq EXCEPT !.abort = @ \/ ~ok \/ comp[Lowest].state = "Error"]
  /\ UNCHANGED <<eccVars, runVars, missed, failed>>

(* ecc stop, which may fail; an abort does not wait for the natural EOS.      *)
EccStop ==
  /\ stage = "status" /\ todo = {}
  /\ \E ok \in BOOLEAN : EccCall(Cmd("stop", 0), ok)
  /\ IF seq.abort THEN Goto("force", Receivers) /\ seq' = [seq EXCEPT !.forced = TRUE]
     ELSE Goto("wait", {}) /\ UNCHANGED seq
  /\ UNCHANGED <<chainVars, runVars, missed, failed>>

(* Forced EOS: Stop to every receiver, whatever they answer.                  *)
ForceEos ==
  /\ stage = "force"
  /\ IF todo = {} THEN Goto("wait2", {}) /\ UNCHANGED <<chainVars, count>>
     ELSE /\ Goto("force", todo \ {Lowest})
          /\ \E ok \in BOOLEAN : Call(Lowest, Cmd("Stop", 0), ok)
  /\ UNCHANGED <<eccVars, ctlVars, failed>>

(* The components are folded from upstream, by a rollback and by a stop: Stop *)
(* and then Reset, whatever they answer.                                      *)
Answered(i) == late[i] = << >> /\ late' = late /\ count' = count

(* Mutant: a refused Stop is the end of it, no Reset follows.                 *)
FoldStop_EndsOnRefusal ==
  /\ stage \in {"rbStop", "foldStop"} /\ todo # {}
  /\ \E ok \in BOOLEAN :
       /\ Call(Highest, Cmd("Stop", 0), ok)
       /\ IF ok THEN Goto(IF stage = "rbStop" THEN "rbReset" ELSE "foldReset", todo)
          ELSE Goto(stage, todo \ {Highest})
  /\ missed' = (missed \/ ~Answered(Highest))
  /\ UNCHANGED <<eccVars, runVars, seq, failed>>

FoldStop ==
  /\ stage \in {"rbStop", "foldStop"} /\ todo # {}
  /\ Goto(IF stage = "rbStop" THEN "rbReset" ELSE "foldReset", todo)
  /\ IF stage = "foldStop" /\ seq.forced /\ Highest \in Receivers
     THEN UNCHANGED <<chainVars, count>>
     ELSE \E ok \in BOOLEAN : Call(Highest, Cmd("Stop", 0), ok)
  /\ missed' = (missed \/ ~Answered(Highest))
  /\ UNCHANGED <<eccVars, runVars, seq, failed>>

FoldReset ==
  /\ stage \in {"rbReset", "foldReset"}
  /\ Goto(IF stage = "rbReset" THEN "rbStop" ELSE "foldStop", todo \ {Highest})
  /\ \E ok \in BOOLEAN : Call(Highest, Cmd("Reset", 0), ok)
  /\ missed' = (missed \/ ~Answered(Highest))
  /\ UNCHANGED <<eccVars, runVars, seq, failed>>

(* The end: a failed start, or the run_stop record of a run.                  *)
FoldDone ==
  /\ todo = {}
  /\ \/ /\ stage = "rbStop" /\ Goto("failed", {})
        /\ UNCHANGED <<phase, seq, logbook>>
     \/ /\ stage = "foldStop" /\ Goto("off", {})
        /\ Record("run_stop", run, seq.closed)
        /\ phase' = "Idle" /\ seq' = Locals
  /\ UNCHANGED <<chainVars, eccVars, run, next_run, missed, count, failed>>

-----------------------------------------------------------------------------
Controller ==
  \/ EccStatus \/ EccWalk \/ EccWalked \/ Survey \/ SurveyDone
  \/ WalkBackStep \/ WalkBackDone \/ PollGraw \/ PollDecoder \/ GiveUp
  \/ ChainStep \/ ArmStep \/ ChainDone \/ EccStart
  \/ RecordWalkedBack \/ RunStarted \/ RunFailed
  \/ StopStatus \/ EccStop \/ ForceEos \/ FoldStop \/ FoldReset \/ FoldDone

Next ==
  \/ Controller \/ RunStart \/ RunStop \/ Crash
  \/ LateEcc \/ OperatorEcc \/ DecoderReads
  \/ \E i \in Components : LateExec(i) \/ ComponentErrs(i) \/ ComponentRestarts(i)
  \/ \E r \in Receivers : Feed(r) \/ Eof(r) \/ GrawReads(r)

Spec == Init /\ [][Next]_vars

-----------------------------------------------------------------------------
(* Properties                                                                 *)

Stages == {"off", "eccStatus", "eccWalk", "survey", "wbStop", "wbForce", "wbReset",
           "Configure", "Arm", "Start", "ecc", "started", "failed", "rbStop", "rbReset",
           "status", "force", "foldStop", "foldReset"} \cup Waits

(* Types; the phase of the controller and the stage of its sequence agree, and *)
(* the retries of arm_with_retry and the steps of the ECC walk stay in bounds. *)
TypeOK ==
  /\ comp \in [Components -> [state : States, run : Nat]]
  /\ phase \in {"Idle", "Starting", "Running", "Stopping"}
  /\ stage \in Stages /\ (stage = "off") = (phase \in {"Idle", "Running"})
  /\ todo \subseteq Components /\ seq.touched \subseteq Components
  /\ seq.steps \in 0 .. EccWalkBackMaxSteps /\ seq.tries \in 0 .. ArmAttempts - 1
  /\ graw.eos \subseteq Receivers /\ dec.eos \subseteq Receivers
  /\ ecc \in {"Off", "Idle", "Described", "Prepared", "Ready", "Running"}

(* When start_run reports success the run is really being taken: the ECC is   *)
(* Running, its CoBos are connected to the listeners of this very run, and    *)
(* every component that did not fail meanwhile is Running with this number.   *)
(* start_run only checks that each request was answered ok, and the ECC       *)
(* ignores what it cannot do: the walk back to Idle is what carries this.     *)
StartedMeansTaking ==
  stage = "started" =>
    /\ ecc = "Running" /\ link = run
    /\ \A i \in Components \ failed : comp[i] = [state |-> "Running", run |-> run]

(* No receiver listens while the CoBos of an earlier run are still connected   *)
(* or sending (the reason start_run gives for walking the ECC back first), not *)
(* even through a command that was executed after its timeout.                *)
NoListenOnOldStream ==
  \A r \in Receivers : comp[r].state = "Armed" => ecc \notin {"Ready", "Running"}

(* rollback, once all its commands were answered, has brought every component *)
(* the start had touched back to Idle, although it sends Stop to components   *)
(* that refuse it and late commands are executed in between.                  *)
RollbackUndoes ==
  stage = "failed" /\ ~missed => \A i \in seq.touched : comp[i].state = "Idle"

(* The walk-back never resets a component that is Running: Reset would abandon *)
(* its EOS with what is still to be sent.                                     *)
WalkBackNeverCutsRunning ==
  stage = "wbReset" => \A i \in todo : comp[i].state # "Running"

(* When stop_run or the walk-back takes the run for closed, the decoder has   *)
(* the EOS of every receiver and has sent its own to the root-sink (unless it *)
(* failed since), whatever answers were lost between the two polls.           *)
EosClosedMeansSent ==
  stage \in {"wbStop", "wbReset", "foldStop", "foldReset"} /\ seq.closed
    /\ Decoder \notin failed => dec.out /\ Receivers \subseteq dec.eos

(* The logbook is not left with an open run when the next one starts: after   *)
(* the death of a controller that was in a run, the walk-back of the next     *)
(* run/start writes the run_stop, whether that start succeeds or fails, as    *)
(* long as no other fault comes in between (start_run_blocking,               *)
(* append_walked_back_run_stop).                                              *)
StartedRunsAreClosed ==
  \A k, m \in DOMAIN logbook :
    /\ k < m
    /\ count.lost + count.errors + count.restarts + count.stops = 0 /\ count.crashes <= 1
    /\ logbook[k].kind = "run_start" /\ logbook[m].kind = "run_start"
    => \E n \in k .. m : logbook[n].kind = "restart_stop" /\ logbook[n].run = logbook[k].run

(* The controller's thread goes on, its waits end at eos_timeout, components  *)
(* and ECC get to the commands in their queues, and the operator repeats a    *)
(* run/start that failed.                                                     *)
FairSpec ==
  /\ Spec
  /\ WF_vars(Controller \/ RunStart) /\ SF_vars(GiveUp)
  /\ WF_vars(LateEcc) /\ \A i \in Components : WF_vars(LateExec(i))

(* Whatever a lost or late command, a failed component, a death of the        *)
(* controller or a stray ECC request left behind, a run starts again by       *)
(* run/start alone, without any component being restarted by hand: unless it  *)
(* is the decoder that met a protocol violation, which no Reset undoes.       *)
StartRecovers == []<>(phase = "Running" \/ dec.errored)

(* A run that is reported started is being taken, from listeners that were  *)
(* never open to the stream of the run before (start_run).                  *)
TakingSound == TypeOK /\ StartedMeansTaking /\ NoListenOnOldStream

(* Undoing does what it says: no running component is reset with its EOS,   *)
(* and a rollback leaves nothing of the start behind (walk_back, rollback). *)
UndoSound == WalkBackNeverCutsRunning /\ RollbackUndoes
=============================================================================
