----------------------------- MODULE Instruments -----------------------------
(* The request and reply protocols of the instruments slowctl talks to        *)
(* (src/src/slowctl/hivolta*.rs, hmp*.rs, bronkhorst.rs, propar.rs, link.rs). *)
(* A driver writes a request and reads the next line; no reply names its      *)
(* request.  A reply that comes after the read timeout stays on the link and  *)
(* is read as the answer to the next request: from then on every answer is    *)
(* one behind, until the fifth poll failure in a row opens the link anew.     *)
EXTENDS Integers, Sequences, FiniteSets

CONSTANTS
  InMaxErrors,  \* MAX_CONSECUTIVE_POLL_ERRORS
  InTries,      \* POWER_CHECK_TRIES of the hivolta
  Lossy,        \* instruments that may leave a request unanswered
  MaxLate,      \* bound: replies that come late or never, of a behaviour
  MaxOps        \* bound: polls and power commands

(* bronkhorst with one node on the bus, bronkhorst2 with two.                 *)
Instrument == {"hivolta", "hmp2020", "bronkhorst", "bronkhorst2"}
PowerSwitches == {"hivolta", "hmp2020"}

VARIABLES
  instr,     \* the instrument of this behaviour
  on,        \* the output switched by the power commands is on
  remote,    \* it obeys commands (not in LOCAL mode, not locked)
  wire,      \* replies on their way to the driver
  job,       \* what the driver does: "ident", "poll", "on", "off" or "idle"
  step,      \* the request it is at
  got,       \* the replies it took in this job
  found,     \* bronkhorst: nodes that were identified
  failures,  \* consecutive_errors of the session
  polledNow, \* a poll has come since the last power command
  behind,    \* replies on the way when the power command began
  outcome,   \* how the last job ended
  ops, lates

inVars == <<instr, on, remote, wire, job, step, got, found, failures, polledNow, behind,
            outcome, ops, lates>>

(* A request: what is asked, and of which channel or node.                    *)
Ask(what, node) == [what |-> what, node |-> node]
Ask2(a, b, node) == <<Ask(a, node), Ask(b, node)>>

(* HiVoltaDriver::poll: bulk reads of every channel, then two of the board.   *)
HvPoll == <<Ask("VMON", 8), Ask("IMON", 8), Ask("STATUS", 8), Ask("VSET", 8), Ask("ISET", 8),
            Ask("BDALARM", 0), Ask("BDILK", 0)>>

(* HiVoltaDriver::set_power: STATUS, SET, STATUS until it shows the switch.   *)
HvPower == <<Ask("STATUS", 1), Ask("SET", 1)>> \o [i \in 1 .. InTries |-> Ask("STATUS", 1)]

(* HmpDriver::poll: each channel selected, read and checked, then SYST:ERR.   *)
HmpChannel(ch) == <<Ask("NSEL", ch), Ask("VOLT", ch), Ask("CURR", ch), Ask("OUTP", ch),
                    Ask("VSET", ch), Ask("ISET", ch)>>
HmpPoll == HmpChannel(1) \o HmpChannel(2) \o <<Ask("ERR", 0)>>

(* HmpDriver::read_outputs                                                    *)
HmpOutputs == Ask2("NSEL", "OUTP", 1) \o Ask2("NSEL", "OUTP", 2)

(* HmpDriver::set_power on channel 1: read, select, switch, read back twice   *)
(* at most, SYST:ERR.  OUTP ON and OFF have no reply and go out with the      *)
(* selection after them (NSEL!).                                              *)
HmpPower == HmpOutputs \o <<Ask("NSEL", 1), Ask("NSEL!", 1), Ask("OUTP", 1)>>
              \o Ask2("NSEL", "OUTP", 2) \o HmpOutputs \o <<Ask("ERR", 0)>>

Nodes == IF instr = "bronkhorst2" THEN <<3, 4>> ELSE <<3>>

(* BronkhorstDriver::ident: each node asked for its identity and capacity.    *)
BronkIdent == Ask2("IDENT", "CAPACITY", 3)
                \o (IF instr = "bronkhorst2" THEN Ask2("IDENT", "CAPACITY", 4) ELSE << >>)
BronkPoll == [i \in 1 .. Len(found) |-> Ask("MEASURE", found[i])]

(* HiVoltaDriver::ident, HmpDriver::ident: the questions as one; whichever    *)
(* fails, the link is opened anew.                                            *)
SwitchIdent == <<Ask("NAME", 0)>>

Program ==
  CASE job = "ident" -> IF instr \in PowerSwitches THEN SwitchIdent ELSE BronkIdent
    [] job = "poll"  -> (CASE instr = "hivolta" -> HvPoll [] instr = "hmp2020" -> HmpPoll
                           [] OTHER -> BronkPoll)
    [] job \in {"on", "off"} -> IF instr = "hivolta" THEN HvPower ELSE HmpPower
    [] OTHER -> << >>

-----------------------------------------------------------------------------
(* The instrument's reply: the request it answers, its job, and its form on   *)
(* the wire: a decimal, a whole number, YES or NO, or none of them.           *)
Form(request) ==
  CASE request.what \in {"VMON", "IMON", "VSET", "ISET", "VOLT", "CURR"} -> "decimal"
    [] request.what \in {"STATUS", "BDALARM", "NSEL", "NSEL!", "OUTP"} -> "whole"
    [] OTHER -> request.what

Value(request) ==
  CASE request.what = "STATUS" -> IF on THEN 1 ELSE 0
    [] request.what = "OUTP" -> IF on /\ request.node = 1 THEN 1 ELSE 0
    [] request.what \in {"NSEL", "NSEL!"} -> request.node
    [] request.what = "SET" -> IF remote THEN 0 ELSE -1   \* LOC:ERR
    [] OTHER -> 0

(* Taken after the request took effect.                                       *)
InstrReply(request) ==
  [what |-> request.what, node |-> request.node, form |-> Form(request),
   value |-> Value(request), job |-> ops]

(* SET and OUTP are obeyed by an instrument in remote mode.                   *)
Obeys(request) ==
  on' = IF request.what \in {"SET", "NSEL!"} /\ remote THEN job = "on" ELSE on

Number(reply) == reply.form \in {"decimal", "whole"}

(* hivolta: a bulk reply has a value for every channel; the numbers of the    *)
(* five bulk reads are parsed when the last has come.                         *)
HvAccepts(request, reply) ==
  CASE request.node = 8 -> /\ reply.node = 8
                           /\ request.what = "ISET" => got[3].form = "whole"
    [] request.what \in {"STATUS", "BDALARM"} -> reply.node # 8 /\ reply.form = "whole"
    [] request.what = "BDILK" -> reply.node # 8 /\ reply.form = "BDILK"
    [] request.what = "SET" -> reply.value # -1
    [] OTHER -> reply.node # 8

(* hmp2020: the selection is read back and must be the channel.               *)
HmpAccepts(request, reply) ==
  CASE request.what \in {"NSEL", "NSEL!"} -> reply.form = "whole" /\ reply.value = request.node
    [] request.what = "OUTP" -> reply.form = "whole" /\ reply.value \in {0, 1}
    [] request.what \in {"ERR", "NAME"} -> reply.form = request.what
    [] OTHER -> Number(reply)

(* Mutant: the reply's node is not looked at.                                 *)
ProparAccepts_AnyNode(request, reply) == reply.form = request.what

(* propar::parse_reply and decode_items: the node and the types of the values *)
(* must be those of the request; the parameters' numbers are not looked at.   *)
ProparAccepts(request, reply) == reply.node = request.node /\ reply.form = request.what

Accepts(request, reply) ==
  CASE instr = "hivolta" -> HvAccepts(request, reply)
    [] instr = "hmp2020" -> HmpAccepts(request, reply)
    [] OTHER -> ProparAccepts(request, reply)

-----------------------------------------------------------------------------
InstrInit ==
  /\ instr \in Instrument /\ on \in BOOLEAN /\ remote \in BOOLEAN
  /\ wire = << >> /\ job = "ident" /\ step = 1 /\ got = << >> /\ found = << >>
  /\ failures = 0 /\ polledNow = FALSE /\ behind = 0 /\ outcome = [job |-> "none", op |-> 0, ok |-> TRUE, got |-> << >>]
  /\ ops = 0 /\ lates = 0

(* The job ends; a poll counts its failures, and the fifth in a row (or an    *)
(* ident that failed) opens the link anew, which empties it.                  *)
Ends(ok, replies) ==
  LET errors == IF job # "poll" THEN failures ELSE IF ok THEN 0 ELSE failures + 1
      reopen == (job = "poll" /\ errors >= InMaxErrors) \/ (job = "ident" /\ ~ok)
  IN  /\ outcome' = [job |-> job, op |-> ops, ok |-> ok, got |-> replies]
      /\ got' = << >> /\ step' = 1
      /\ job' = IF reopen THEN "ident" ELSE "idle"
      /\ failures' = IF reopen THEN 0 ELSE errors
      /\ polledNow' = (job = "poll" /\ ~reopen)

(* What the next request finds on the link.                                   *)
Emptied(replies) == IF job' = "ident" THEN << >> ELSE replies

(* The request is sent; its reply joins the line, or is lost.                 *)
OnLine(answered) ==
  IF answered THEN Append(wire, InstrReply(Program[step])) ELSE wire

(* The switching jobs are done when the state read back is the one wanted.    *)
Confirms(reply) == reply.value = (IF job = "on" THEN 1 ELSE 0)

(* The replies say what the job needs to end well.                            *)
Finished(reply) ==
  \/ step = Len(Program) /\ ~(job \in {"on", "off"} /\ instr = "hivolta")
  \/ job \in {"on", "off"} /\ instr = "hivolta" /\ step > 2 /\ Confirms(reply)

(* After SYST:ERR, HmpDriver::switch looks at what OUTP read back last.       *)
ReadBack(replies) == replies[IF instr = "hmp2020" THEN Len(replies) - 3 ELSE Len(replies)]
EndsWell(replies) == job \in {"on", "off"} => Confirms(ReadBack(replies))

(* The first reading of the outputs that shows the switch is the last.        *)
NextStep ==
  IF job \in {"on", "off"} /\ instr = "hmp2020" /\ step = 9 /\ Confirms(got[7])
  THEN Len(Program) ELSE step + 1

(* A bronkhorst scan takes a node whose identity cannot be read for absent.   *)
SkipsNode == job = "ident" /\ instr \notin PowerSwitches /\ Program[step].what = "IDENT"

(* An exchange that brings a reply.                                           *)
Exchange ==
  /\ job # "idle" /\ step <= Len(Program)
  /\ Obeys(Program[step])
  /\ \E answered \in BOOLEAN :
       /\ answered \/ (lates < MaxLate /\ wire # << >> /\ instr \in Lossy)
       /\ lates' = IF answered THEN lates ELSE lates + 1
       /\ LET line == OnLine(answered)
              reply == Head(line)
              all   == Append(got, reply)
          IN  \/ /\ Accepts(Program[step], reply) /\ Finished(reply)
                 /\ Ends(EndsWell(all), all) /\ wire' = Emptied(Tail(line))
                 /\ found' = IF Program[step].what = "CAPACITY"
                             THEN Append(found, Program[step].node) ELSE found
              \/ /\ Accepts(Program[step], reply) /\ ~Finished(reply)
                 /\ IF step = Len(Program) THEN Ends(FALSE, all)
                    ELSE step' = NextStep /\ got' = all
                         /\ UNCHANGED <<job, failures, polledNow, outcome>>
                 /\ wire' = Tail(line)
                 /\ found' = IF Program[step].what = "CAPACITY"
                             THEN Append(found, Program[step].node) ELSE found
              \/ /\ ~Accepts(Program[step], reply) /\ SkipsNode
                 /\ IF step + 1 = Len(Program) THEN Ends(TRUE, got)
                    ELSE step' = step + 2 /\ UNCHANGED <<got, job, failures, polledNow, outcome>>
                 /\ wire' = Tail(line) /\ UNCHANGED found
              \/ /\ ~Accepts(Program[step], reply) /\ ~SkipsNode
                 /\ Ends(FALSE, got) /\ wire' = Emptied(Tail(line))
                 /\ found' = IF job = "ident" THEN << >> ELSE found
  /\ UNCHANGED <<instr, remote, behind, ops>>

(* The read times out: the reply is late, or will never come.                 *)
TimesOut ==
  /\ job # "idle" /\ step <= Len(Program) /\ lates < MaxLate
  /\ lates' = lates + 1
  /\ Obeys(Program[step])
  /\ \E answered \in {TRUE, instr \notin Lossy} :
       \/ /\ SkipsNode
          /\ IF step + 1 = Len(Program) THEN Ends(TRUE, got)
             ELSE step' = step + 2 /\ UNCHANGED <<got, job, failures, polledNow, outcome>>
          /\ wire' = OnLine(answered) /\ UNCHANGED found
       \/ /\ ~SkipsNode
          /\ Ends(FALSE, got) /\ wire' = Emptied(OnLine(answered))
          /\ found' = IF job = "ident" THEN << >> ELSE found
  /\ UNCHANGED <<instr, remote, behind, ops>>

(* run_one_session: poll by poll; a scan that found nothing polls nothing.    *)
StartPoll ==
  /\ job = "idle" /\ ops < MaxOps
  /\ ops' = ops + 1
  /\ job' = IF instr \in PowerSwitches \/ found # << >> THEN "poll" ELSE "idle"
  /\ UNCHANGED <<instr, on, remote, wire, step, got, found, failures, polledNow, behind, outcome, lates>>

(* A power command, which comes only after a poll (wait_or_command).          *)
StartPower ==
  /\ job = "idle" /\ ops < MaxOps /\ polledNow /\ instr \in PowerSwitches
  /\ ops' = ops + 1
  /\ job' \in {"on", "off"}
  /\ polledNow' = FALSE /\ behind' = Len(wire)
  /\ UNCHANGED <<instr, on, remote, wire, step, got, found, failures, outcome, lates>>

(* The output trips, or somebody switches it off at the front panel.          *)
Trips ==
  /\ on /\ on' = FALSE /\ remote' \in {remote, FALSE}
  /\ UNCHANGED <<instr, wire, job, step, got, found, failures, polledNow, behind, outcome, ops, lates>>

InstrNext == Exchange \/ TimesOut \/ StartPoll \/ StartPower \/ Trips

-----------------------------------------------------------------------------
(* Every variable has its type.                                               *)
InstrTypeOK ==
  /\ instr \in Instrument /\ job \in {"ident", "poll", "on", "off", "idle"}
  /\ step \in 1 .. Len(HmpPower) /\ failures \in 0 .. InMaxErrors - 1
  /\ Len(wire) <= MaxLate + 1 /\ lates \in 0 .. MaxLate /\ ops \in 0 .. MaxOps

(* What a poll that succeeded was given: the requests it made.                *)
Polled == CASE instr = "hivolta" -> HvPoll [] instr = "hmp2020" -> HmpPoll [] OTHER -> BronkPoll

(* A poll that succeeds reports no value under the name of another parameter, *)
(* channel or node, however many replies came late before it                  *)
(* (MAX_CONSECUTIVE_POLL_ERRORS, the checks of form, NSEL and node).          *)
NoMislabelled ==
  outcome.job = "poll" /\ outcome.ok =>
    \A i \in DOMAIN outcome.got : /\ outcome.got[i].what = Polled[i].what
                                  /\ outcome.got[i].node = Polled[i].node

(* A power command that is answered ok was confirmed by a reading that this   *)
(* command asked for (HiVoltaDriver::switch, HmpDriver::switch).  With four   *)
(* replies under way when it began, three of them STATUS and VMON in turn,    *)
(* the readings of earlier commands would do.                                 *)
PowerConfirmed ==
  outcome.job \in {"on", "off"} /\ outcome.ok /\ behind < 4 =>
    ReadBack(outcome.got).job = outcome.op
=============================================================================
