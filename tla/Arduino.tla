------------------------------- MODULE Arduino -------------------------------
(* The environment sensor (src/src/slowctl/arduino.rs).  The sketch pushes a  *)
(* line of JSON every second, asked or not; ident reads lines one by one, a   *)
(* poll reads until a read times out and uses the last complete line.  Time   *)
(* is counted in ticks; a line arrives in two pieces, the second with the     *)
(* terminator, and noise is a piece without one.                              *)
EXTENDS Integers, Sequences

CONSTANTS
  LinePeriod,     \* delay(1000) of the sketch, in ticks
  ReadTimeout,    \* READ_TIMEOUT_MS, in ticks
  MaxIdentLines,  \* MAX_IDENT_LINES
  MaxLine,        \* MAX_LINE_BYTES, in pieces
  EnvErrors,      \* MAX_CONSECUTIVE_POLL_ERRORS
  EnvSeqs,        \* bound: values of the line's sequence number
  MaxWire,        \* bound: pieces on the line before the driver reads
  MaxUpsets       \* bound: noise and stalls of a behaviour

ASSUME ArduinoAssumption ==
  /\ {LinePeriod, ReadTimeout, MaxIdentLines, MaxLine, EnvErrors, EnvSeqs} \subseteq Nat \ {0}
  /\ MaxWire > 1 /\ MaxUpsets \in Nat

(* What the lines say: every field, that the shield is missing, another       *)
(* device's name, or a field less.                                            *)
LineKind == {"env", "error", "other", "short"}

VARIABLES
  says,     \* the kind of the sketch's lines
  seq,      \* its sequence number
  midLine,  \* half of a line is out
  since,    \* ticks since the last line
  stalled,  \* nothing comes for now
  pieces,   \* bytes on the line, not yet read
  call,     \* the driver's call: "none", "ident", "poll"
  text,     \* buf: bytes read since the last terminator
  line,     \* lines.last() of this poll
  tries,    \* lines ident has read
  quiet,    \* ticks this read has waited
  named,    \* ident succeeded on this port
  lastSeq,  \* last_seq, -1 for None
  errors,   \* polls failed in a row
  result,   \* of the last call
  upsets

envVars == <<says, seq, midLine, since, stalled, pieces, call, text, line, tries, quiet, named,
             lastSeq, errors, result, upsets>>

sketchVars == <<says, seq, midLine, since, stalled, upsets>>
driverVars == <<call, text, line, tries, quiet, named, lastSeq, errors, result>>

NoLine == [kind |-> "none", seq |-> -1]
Garbage == [kind |-> "malformed", seq |-> -1]

Piece(part) == [part |-> part, seq |-> seq]

EnvInit ==
  /\ says \in LineKind /\ seq = 0 /\ midLine \in BOOLEAN /\ since = 0 /\ stalled = FALSE
  /\ pieces = << >> /\ call = "none" /\ text = << >> /\ line = NoLine /\ tries = 0 /\ quiet = 0
  /\ named = FALSE /\ lastSeq = -1 /\ errors = 0
  /\ result = [call |-> "none", ok |-> TRUE, seq |-> -1] /\ upsets = 0

-----------------------------------------------------------------------------
(* The sketch (tools/arduino_env/env_json.ino): a line, seq++, delay(1000).   *)
SketchPrints ==
  /\ ~stalled /\ since >= LinePeriod /\ ~midLine /\ Len(pieces) < MaxWire
  /\ pieces' = Append(pieces, Piece("head")) /\ midLine' = TRUE
  /\ UNCHANGED <<says, seq, since, stalled, upsets, driverVars>>

SketchEndsLine ==
  /\ ~stalled /\ midLine /\ Len(pieces) < MaxWire
  /\ pieces' = Append(pieces, Piece("tail")) /\ midLine' = FALSE
  /\ seq' = (seq + 1) % EnvSeqs /\ since' = 0
  /\ UNCHANGED <<says, stalled, upsets, driverVars>>

(* The USB link: bytes that are no line, a pause at any byte, its end.        *)
Noise ==
  /\ upsets < MaxUpsets /\ Len(pieces) < MaxWire
  /\ pieces' = Append(pieces, Piece("noise")) /\ upsets' = upsets + 1
  /\ UNCHANGED <<says, seq, midLine, since, stalled, driverVars>>

Stall ==
  /\ upsets < MaxUpsets /\ ~stalled
  /\ stalled' = TRUE /\ upsets' = upsets + 1
  /\ UNCHANGED <<says, seq, midLine, since, pieces, driverVars>>

Resume ==
  /\ stalled /\ stalled' = FALSE
  /\ UNCHANGED <<says, seq, midLine, since, pieces, upsets, driverVars>>

(* A tick passes when the sketch has nothing due and the driver waits.        *)
Tick ==
  /\ stalled \/ (~midLine /\ since < LinePeriod)
  /\ call # "none" => pieces = << >> /\ quiet < ReadTimeout
  /\ since' = IF since < LinePeriod THEN since + 1 ELSE since
  /\ quiet' = IF call # "none" THEN quiet + 1 ELSE quiet
  /\ UNCHANGED <<says, seq, midLine, stalled, upsets, pieces, call, text, line, tries, named,
                 lastSeq, errors, result>>

-----------------------------------------------------------------------------
(* decode_line and serde_json: only a whole line reads as one.                *)
Decoded(bytes) ==
  IF /\ Len(bytes) = 2 /\ bytes[1].part = "head" /\ bytes[2].part = "tail"
     /\ bytes[1].seq = bytes[2].seq
  THEN [kind |-> says, seq |-> bytes[1].seq] ELSE Garbage

Terminated(bytes) == bytes[Len(bytes)].part = "tail"

(* A call ends: the device thread counts the polls that failed in a row, and  *)
(* at the limit, or when ident failed, opens the port anew.                   *)
Returns(ok, value) ==
  /\ result' = [call |-> call, ok |-> ok, seq |-> value]
  /\ call' = "none" /\ text' = << >> /\ line' = NoLine /\ tries' = 0 /\ quiet' = 0
  /\ errors' = IF call = "poll" /\ ~ok THEN errors + 1 ELSE 0
  /\ named' = (ok \/ (call = "poll" /\ errors + 1 < EnvErrors))
  /\ lastSeq' = IF ~named' THEN -1 ELSE IF value >= 0 THEN value ELSE lastSeq

Reads(bytes) ==
  /\ text' = bytes /\ quiet' = 0
  /\ UNCHANGED <<call, named, lastSeq, errors, result>>

Calls(c) ==
  /\ call = "none" /\ call' = c
  /\ UNCHANGED <<sketchVars, pieces, text, line, tries, quiet, named, lastSeq, errors, result>>

EnvIdent == ~named /\ Calls("ident")
EnvPoll == named /\ Calls("poll")

(* ident with read_one_line: a line that does not parse gives way to the next *)
(* one, MaxIdentLines at most; an overlong one fails.                         *)
IdentReads ==
  /\ call = "ident" /\ pieces # << >>
  /\ pieces' = Tail(pieces)
  /\ LET bytes == Append(text, Head(pieces))
         read == Decoded(bytes)
     IN CASE Terminated(bytes) /\ read = Garbage /\ tries + 1 < MaxIdentLines ->
               tries' = tries + 1 /\ UNCHANGED line /\ Reads(<< >>)
          [] Terminated(bytes) /\ ~(read = Garbage /\ tries + 1 < MaxIdentLines) ->
               LET good == read.kind \in {"env", "short"} IN
               Returns(good, IF good THEN read.seq ELSE -1)
          [] ~Terminated(bytes) /\ Len(bytes) > MaxLine -> Returns(FALSE, -1)
          [] OTHER -> UNCHANGED <<tries, line>> /\ Reads(bytes)
  /\ UNCHANGED sketchVars

IdentTimesOut ==
  /\ call = "ident" /\ pieces = << >> /\ quiet >= ReadTimeout
  /\ Returns(FALSE, -1) /\ UNCHANGED <<sketchVars, pieces>>

(* poll with drain_lines: every line replaces the one before it.              *)
DrainReads ==
  /\ call = "poll" /\ pieces # << >>
  /\ pieces' = Tail(pieces)
  /\ LET bytes == Append(text, Head(pieces)) IN
     IF Terminated(bytes)
     THEN line' = Decoded(bytes) /\ Reads(<< >>)
     ELSE UNCHANGED line /\ Reads(IF Len(bytes) > MaxLine THEN << >> ELSE bytes)
  /\ UNCHANGED <<tries, sketchVars>>

(* The read that times out ends the poll; a fragment is dropped.  The name is *)
(* not looked at; last_seq is set before a missing field is noticed.          *)
DrainTimesOut ==
  /\ call = "poll" /\ pieces = << >> /\ quiet >= ReadTimeout
  /\ Returns(line.kind \in {"env", "other"},
             IF line.kind \in {"env", "other", "short"} THEN line.seq ELSE -1)
  /\ UNCHANGED <<sketchVars, pieces>>

SketchStep == SketchPrints \/ SketchEndsLine
DriverStep ==
  EnvIdent \/ EnvPoll \/ IdentReads \/ IdentTimesOut \/ DrainReads \/ DrainTimesOut

EnvNext == SketchStep \/ Noise \/ Stall \/ Resume \/ Tick \/ DriverStep

-----------------------------------------------------------------------------
EnvTypeOK ==
  /\ says \in LineKind /\ seq \in 0 .. EnvSeqs - 1 /\ midLine \in BOOLEAN /\ stalled \in BOOLEAN
  /\ Len(pieces) <= MaxWire /\ call \in {"none", "ident", "poll"} /\ Len(text) <= MaxLine
  /\ tries \in 0 .. MaxIdentLines - 1 /\ quiet \in 0 .. ReadTimeout
  /\ since \in 0 .. LinePeriod /\ errors \in 0 .. EnvErrors /\ named \in BOOLEAN

(* A poll never reports an old reading: what it returns is the line the       *)
(* sketch finished last, and nothing is left unread behind it (arduino.rs:208 *)
(* with drain_lines).                                                         *)
NewestIsUsed ==
  [][call = "poll" /\ call' = "none" /\ result'.ok =>
       /\ result'.seq = (seq - 1) % EnvSeqs /\ pieces = << >>]_envVars

(* ident answers within three lines or a read timeout, whatever the port      *)
(* brings (arduino.rs:159).                                                   *)
IdentEnds == (call = "ident") ~> (call # "ident")

(* A poll returns when the sketch stays silent (arduino.rs:143).              *)
SilentPollEnds == (call = "poll" /\ stalled) ~> (call # "poll" \/ ~stalled)

(* A poll returns: drain_lines reads what is there and stops at the timeout   *)
(* (arduino.rs:121).                                                          *)
PollEnds == (call = "poll") ~> (call # "poll")
==============================================================================
