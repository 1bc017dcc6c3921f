------------------------------- MODULE Logbook -------------------------------
(* The run logbook: LogbookWriter and read_since (src/src/logbook.rs), the     *)
(* controller's log post thread (src/src/controller/logpost.rs), and           *)
(* logbook2runs, which turns the file into runs.yaml (src/src/runs_yaml.rs).   *)
(* The REST handlers and the log post thread append under one mutex; readers   *)
(* take no lock.  A record's JSON is one piece of a line; a line parses when   *)
(* it is exactly one whole piece.                                              *)
EXTENDS Integers, Sequences, FiniteSets, SequencesExt, TLC

CONSTANTS
  RunNumbers,   \* run numbers of run_start and run_stop records
  MaxAppends,   \* bound: records handed to append or posted
  MaxTorn       \* bound: writes cut short by a crash or an error

ASSUME LogbookAssumption ==
  /\ RunNumbers \subseteq Nat /\ MaxAppends \in Nat /\ MaxTorn \in Nat

(* LogbookRecord, as far as readers tell records apart.  A run_stop carries    *)
(* events_built (NoCount when there is no event builder), the frames counted   *)
(* and whether an AsAd file is among its files.                                *)
NoCount == -1
StartRecords == [type : {"run_start"}, run : RunNumbers]
StopRecords  == [type : {"run_stop"}, run : RunNumbers, events_built : {5}, frames : {7},
                 graw : {TRUE}, reason : {"normal"}]
                \cup [type : {"run_stop"}, run : RunNumbers, events_built : {NoCount},
                      frames : {7}, graw : {FALSE}, reason : {"abort"}]
Comments     == {[type |-> "comment"]}
SlowRecords  == {[type |-> "slow", event |-> "VALUE", value |-> 1],
                 [type |-> "slow", event |-> "ALARM", value |-> 2],
                 [type |-> "slow", event |-> "ERROR", value |-> 0]}
RestRecords  == StartRecords \cup StopRecords \cup Comments

VARIABLES
  lines,       \* the lines of the file that end in a newline: sequences of pieces
  tail,        \* the pieces after the last newline
  book,        \* LogbookWriter: up, next_seq; writing = the record in write(2), from whom
  acked,       \* history: the pieces append returned Ok for, in order
  torn,        \* history: writes cut short
  asked,       \* history: records handed over
  logPosts,    \* LogPostCounters, and the posts taken
  slowLatest   \* slow_latest: the value a run_start would carry; posted = the last one (history)

lbVars == <<lines, tail, book, acked, torn, asked, logPosts, slowLatest>>

Nothing == [from |-> "nobody", rec |-> <<>>]

LogbookInit ==
  /\ lines = << >> /\ tail = << >>
  /\ book = [up |-> TRUE, next_seq |-> 1, writing |-> Nothing]
  /\ acked = << >> /\ torn = 0 /\ asked = 0
  /\ logPosts = [taken |-> 0, accepted |-> 0, rejected |-> 0, slow_values_not_logged |-> 0]
  /\ slowLatest = [kept |-> 0, posted |-> 0]

-----------------------------------------------------------------------------
(* Reading.  content.lines() also yields an unfinished last line.              *)
Content == IF tail = << >> THEN lines ELSE Append(lines, tail)

(* parse_line                                                                  *)
Parses(line) == Len(line) = 1 /\ line[1].whole

(* The records of the lines that parse, in their order.                        *)
Parsed(ls) ==
  LET got[i \in 0 .. Len(ls)] ==
        IF i = 0 THEN << >>
        ELSE IF Parses(ls[i]) THEN Append(got[i - 1], ls[i][1]) ELSE got[i - 1]
  IN  got[Len(ls)]

ParsedLines == Parsed(Content)

(* Mutant: the number of the first record that parses.                         *)
RecoverNextSeq_First == IF ParsedLines = << >> THEN 1 ELSE ParsedLines[1].seq + 1

(* recover_next_seq: the last line that parses, however many do not.           *)
RecoverNextSeq == IF ParsedLines = << >> THEN 1 ELSE Last(ParsedLines).seq + 1

(* What of the records ps comes after a number.                                *)
After(since, ps) ==
  LET got[i \in 0 .. Len(ps)] ==
        IF i = 0 THEN << >>
        ELSE IF ps[i].seq > since THEN Append(got[i - 1], ps[i]) ELSE got[i - 1]
  IN  got[Len(ps)]

(* read_since: only the last line may fail to parse.                           *)
ReadSince(since) ==
  LET bad == {i \in DOMAIN Content : ~Parses(Content[i])}
  IN  [ok |-> bad \subseteq {Len(Content)}, tail_corrupt |-> bad # {},
       records |-> After(since, ParsedLines)]

-----------------------------------------------------------------------------
(* LogbookWriter                                                               *)
Quiet == book.up /\ book.writing = Nothing

(* append, up to the write: a reader that comes now may see part of the line.  *)
BeginAppend(from, rec) ==
  /\ tail' = Append(tail, [seq |-> book.next_seq, rec |-> rec, whole |-> FALSE])
  /\ book' = [book EXCEPT !.writing = [from |-> from, rec |-> rec]]

RestAppends(rec) ==
  /\ Quiet /\ asked < MaxAppends
  /\ asked' = asked + 1
  /\ BeginAppend("rest", rec)
  /\ UNCHANGED <<lines, acked, torn, logPosts, slowLatest>>

(* apply_slow_record: VALUE, ALARM and RECOVER carry a current value.          *)
Applies(rec) == rec.type = "slow" /\ rec.event \in {"VALUE", "ALARM", "RECOVER"}

(* The log post thread is at its socket, not in an append of its own.          *)
PostFree == book.up /\ book.writing.from # "post" /\ asked < MaxAppends

(* The log post thread takes a record: the current value is kept before it is  *)
(* logged; a VALUE is not logged at all.                                       *)
PostTaken(rec) ==
  /\ PostFree /\ (rec.event = "VALUE" \/ Quiet)
  /\ asked' = asked + 1
  /\ slowLatest' = IF Applies(rec) THEN [kept |-> rec.value, posted |-> rec.value]
                   ELSE slowLatest
  /\ IF rec.event = "VALUE"
     THEN /\ logPosts' = [logPosts EXCEPT !.taken = @ + 1, !.slow_values_not_logged = @ + 1]
          /\ UNCHANGED <<tail, book>>
     ELSE /\ logPosts' = [logPosts EXCEPT !.taken = @ + 1]
          /\ BeginAppend("post", rec)
  /\ UNCHANGED <<lines, acked, torn>>

(* A post that is not a logbook record is counted and dropped.                 *)
PostRejected ==
  /\ PostFree
  /\ asked' = asked + 1
  /\ logPosts' = [logPosts EXCEPT !.taken = @ + 1, !.rejected = @ + 1]
  /\ UNCHANGED <<lines, tail, book, acked, torn, slowLatest>>

(* next_seq advances by n, and the mutex is released.                          *)
Written(n) == [book EXCEPT !.next_seq = @ + n, !.writing = Nothing]

(* accepted or rejected, for a post.                                         *)
Counted(ok) ==
  logPosts' = CASE book.writing.from # "post" -> logPosts
                [] book.writing.from = "post" /\ ok -> [logPosts EXCEPT !.accepted = @ + 1]
                [] book.writing.from = "post" /\ ~ok -> [logPosts EXCEPT !.rejected = @ + 1]

(* The write and the flush succeed.                                            *)
EndAppend ==
  /\ book.up /\ book.writing # Nothing
  /\ LET piece == [Last(tail) EXCEPT !.whole = TRUE]
     IN  /\ lines' = Append(lines, Append(Front(tail), piece))
         /\ acked' = Append(acked, piece)
  /\ tail' = << >>
  /\ book' = Written(1)
  /\ Counted(TRUE)
  /\ UNCHANGED <<torn, asked, slowLatest>>

(* The bytes an interrupted write leaves: part of the JSON, none of it, or all *)
(* of it without the newline.                                                  *)
Left == {tail, Front(tail), Append(Front(tail), [Last(tail) EXCEPT !.whole = TRUE])}

(* write_all fails half way (a full disk): append returns the error and keeps  *)
(* next_seq.                                                                   *)
FailAppend ==
  /\ book.up /\ book.writing # Nothing
  /\ torn < MaxTorn
  /\ torn' = torn + 1
  /\ tail' \in Left
  /\ book' = Written(0)
  /\ Counted(FALSE)
  /\ UNCHANGED <<lines, acked, asked, slowLatest>>

(* The controller dies, perhaps during a write.                                *)
Crash ==
  /\ book.up /\ torn < MaxTorn
  /\ torn' = torn + 1
  /\ IF book.writing = Nothing THEN UNCHANGED tail
     ELSE tail' \in Left
  /\ book' = [book EXCEPT !.up = FALSE, !.writing = Nothing]
  /\ UNCHANGED <<lines, acked, asked, logPosts, slowLatest>>

(* LogbookWriter::open of the next controller: append mode, so what the last   *)
(* write left stays at the end; counters and current values start afresh.      *)
OpenBook ==
  /\ ~book.up
  /\ book' = [up |-> TRUE, next_seq |-> RecoverNextSeq, writing |-> Nothing]
  /\ logPosts' = [taken |-> 0, accepted |-> 0, rejected |-> 0, slow_values_not_logged |-> 0]
  /\ slowLatest' = [kept |-> 0, posted |-> 0]
  /\ UNCHANGED <<lines, tail, acked, torn, asked>>

LogbookNext ==
  \/ \E rec \in RestRecords : RestAppends(rec)
  \/ \E rec \in SlowRecords : PostTaken(rec)
  \/ PostRejected
  \/ EndAppend \/ FailAppend \/ Crash \/ OpenBook

LogbookSpec == LogbookInit /\ [][LogbookNext]_lbVars

-----------------------------------------------------------------------------
(* runs.yaml.  An entry of accs: stop = NoStop until a run_stop of the run.    *)
NoStop == [type |-> "none"]

(* Mutant: a run_stop does not end the current run, so that a later comment    *)
(* still goes to it.                                                           *)
AddLine_StaysCurrent(doc, rec) ==
  LET accs == doc.accs
  IN  CASE rec.type = "run_start" ->
             [accs |-> (rec.run :> [comments |-> 0, stop |-> NoStop]) @@ accs,
              current |-> {rec.run},
              warned |-> doc.warned \cup {r \in doc.current : r # rec.run /\ accs[r].stop = NoStop}]
        [] rec.type = "run_stop" ->
             [accs |-> [r \in DOMAIN accs |->
                          IF r = rec.run THEN [accs[r] EXCEPT !.stop = rec] ELSE accs[r]],
              current |-> doc.current,
              warned |-> doc.warned \cup IF rec.run \notin DOMAIN accs \/ ~rec.graw
                                         THEN {rec.run} ELSE {}]
        [] rec.type = "comment" ->
             [doc EXCEPT !.accs = [r \in DOMAIN accs |->
                                     IF r \in doc.current
                                     THEN [accs[r] EXCEPT !.comments = @ + 1] ELSE accs[r]]]
        [] OTHER -> doc

(* build_runs_doc, one line: the file order alone tells which run is open.  A  *)
(* comment belongs to the current run.  warned is the set of runs warned of.   *)
AddLine(doc, rec) ==
  LET accs == doc.accs
      open(r) == r \in DOMAIN accs /\ accs[r].stop = NoStop
  IN  CASE rec.type = "run_start" ->
             [accs |-> (rec.run :> [comments |-> 0, stop |-> NoStop]) @@ accs,
              current |-> {rec.run},
              warned |-> doc.warned \cup {r \in doc.current : r # rec.run /\ open(r)}]
        [] rec.type = "run_stop" ->
             [accs |-> [r \in DOMAIN accs |->
                          IF r = rec.run THEN [accs[r] EXCEPT !.stop = rec] ELSE accs[r]],
              current |-> doc.current \ {rec.run},
              warned |-> doc.warned \cup IF rec.run \notin DOMAIN accs \/ ~rec.graw
                                         THEN {rec.run} ELSE {}]
        [] rec.type = "comment" ->
             [doc EXCEPT !.accs = [r \in DOMAIN accs |->
                                     IF r \in doc.current
                                     THEN [accs[r] EXCEPT !.comments = @ + 1] ELSE accs[r]]]
        [] OTHER -> doc   \* audit, slow

(* runs_defaults.toml as it is written: the gas, and per [runs.N] what the     *)
(* logbook does not hold.                                                      *)
NoText == "none"
NoValue == -1
DefaultsFiles ==
  {[gas |-> g, runs |-> t] : g \in {"CO2", NoText},
     t \in {1 :> [pressure |-> 100, hv |-> 1600, source |-> [flat |-> "a"]],
            1 :> [pressure |-> 100, hv |-> NoValue, source |-> [primary |-> NoText, background |-> "b"]]
              @@ 2 :> [pressure |-> 50, hv |-> 1600, source |-> [primary |-> "a", background |-> "b"]]}}

(* A source written as a bare string is the primary one.                       *)
SourceToml(raw) ==
  IF "flat" \in DOMAIN raw THEN [primary |-> raw.flat, background |-> NoText] ELSE raw

Nowhere == [pressure |-> NoValue, hv |-> NoValue,
            source |-> [primary |-> NoText, background |-> NoText]]

(* defaults.runs.get(&run)                                                     *)
Override(file, run) ==
  IF run \in DOMAIN file.runs THEN [file.runs[run] EXCEPT !.source = SourceToml(@)] ELSE Nowhere

(* compute_drift_velocity_cm_us, in units of 0.0001 cm/us: 0.7233 * (hv / 20)  *)
(* / pressure rounded to four digits, where all of it is known.                *)
DriftVelocity(gas, pressure, hv) ==
  IF gas = "CO2" /\ pressure # NoValue /\ hv # NoValue
  THEN (2 * 7233 * hv + 20 * pressure) \div (40 * pressure)
  ELSE NoValue

(* asad_graw_ts_and_run_dir_name: the first of the run's files that is one of  *)
(* an AsAd names the run and its directory; else the name is the time of       *)
(* run_start, and the files are looked for by it.                              *)
EntryName(acc) ==
  IF acc.stop # NoStop /\ acc.stop.graw THEN [run_id |-> "file", glob |-> "directory"]
                                        ELSE [run_id |-> "run_start", glob |-> "run_start"]

(* build_entry: n_events is what the event builder built, or the frames; the   *)
(* reason of a stop that was not normal, or its absence, goes into the notes.  *)
BuildEntry(acc, file, run) ==
  LET over == Override(file, run)
  IN  EntryName(acc) @@
      [comments |-> acc.comments,
       n_events |-> IF acc.stop = NoStop THEN 0
                    ELSE IF acc.stop.events_built # NoCount THEN acc.stop.events_built
                    ELSE acc.stop.frames,
       note |-> IF acc.stop = NoStop THEN "no run_stop"
                ELSE IF acc.stop.reason = "normal" THEN "" ELSE acc.stop.reason,
       source |-> over.source,
       velocity |-> DriftVelocity(file.gas, over.pressure, over.hv)]

(* parse_logbook_lines skips every line that does not parse, wherever it is.   *)
BuildRunsDoc(file) ==
  LET doc == FoldLeft(LAMBDA d, p : AddLine(d, p.rec),
                      [accs |-> << >>, current |-> {}, warned |-> {}], ParsedLines)
  IN  [runs |-> [r \in DOMAIN doc.accs |-> BuildEntry(doc.accs[r], file, r)],
       warned |-> doc.warned]

-----------------------------------------------------------------------------
(* The counters keep their bounds: a record takes one number, however its      *)
(* writing ends (next_seq), and no line of the file is empty.                  *)
LogbookTypeOK ==
  /\ book.next_seq \in 1 .. MaxAppends + 1
  /\ torn \in 0 .. MaxTorn /\ asked \in 0 .. MaxAppends
  /\ (book.writing # Nothing) => tail # << >>
  /\ \A i \in DOMAIN lines : lines[i] # << >>

(* The numbers of the readable records ascend, over crashes, failed writes and *)
(* restarts, so a reader that asks for what follows the last number it saw     *)
(* (read_since, GET /api/logbook) misses no readable record and gets none      *)
(* twice: LogbookWriter::open takes its number from the last line that parses. *)
SeqAscends ==
  \A i, j \in DOMAIN ParsedLines : i < j => ParsedLines[i].seq < ParsedLines[j].seq

(* While no write was cut short a reader always gets every acknowledged record *)
(* in order, and the only line it may find unreadable is the one being         *)
(* written.  Each write cut short costs at most one acknowledged record: the   *)
(* one that is glued to what it left.                                          *)
ReadsBack ==
  LET got == ReadSince(0)
      lost == {i \in DOMAIN acked : acked[i] \notin ToSet(ParsedLines)}
  IN  /\ torn = 0 => /\ got.ok /\ got.records = acked
                     /\ got.tail_corrupt = (book.writing # Nothing)
      /\ Cardinality(lost) <= torn

(* Every post the thread took is in the logbook, rejected, or a VALUE, and     *)
(* counted once as what it is; the current value is the last one posted, also  *)
(* when logging it failed.                                                     *)
PostsAccounted ==
  book.up =>
    /\ logPosts.taken = logPosts.accepted + logPosts.rejected + logPosts.slow_values_not_logged
                         + (IF book.writing.from = "post" THEN 1 ELSE 0)
    /\ logPosts.accepted <= Cardinality({i \in DOMAIN acked : acked[i].rec.type = "slow"})
    /\ slowLatest.kept = slowLatest.posted

(* runs.yaml says of every run what its readable records say: the last         *)
(* run_start of the number opens it, the last run_stop after that closes it,   *)
(* its comments are those in between up to the next run_start, and a run that  *)
(* another one overtook without a run_stop is warned of (build_runs_doc).  Its *)
(* files are found by directory only when the stop names them, and its         *)
(* conditions are those of its own table, with the drift velocity where both   *)
(* are known: 0.5786 at 100 mbar and 1600 V.                                   *)
RunsDocRight ==
  \A file \in DefaultsFiles :
  LET L == ParsedLines
      doc == BuildRunsDoc(file)
      is(i, type, r) == L[i].rec.type = type /\ L[i].rec.run = r
      starts(r) == {i \in DOMAIN L : is(i, "run_start", r)}
      first(r) == CHOOSE i \in starts(r) : \A j \in starts(r) : j <= i
      stops(r) == {i \in DOMAIN L : i > first(r) /\ is(i, "run_stop", r)}
      comments(r) == {i \in DOMAIN L :
                        /\ i > first(r) /\ L[i].rec.type = "comment"
                        /\ \A j \in first(r) + 1 .. i : L[j].rec.type # "run_start" /\ ~is(j, "run_stop", r)}
  IN  /\ DOMAIN doc.runs = {r \in RunNumbers : starts(r) # {}}
      /\ \A r \in DOMAIN doc.runs :
           LET e == doc.runs[r]
           IN  /\ e.comments = Cardinality(comments(r))
               /\ (e.note = "no run_stop") = (stops(r) = {})
               /\ stops(r) # {} =>
                    \E i \in stops(r) :
                      /\ \A j \in stops(r) : j <= i
                      /\ e.n_events = IF L[i].rec.events_built = NoCount THEN L[i].rec.frames
                                      ELSE L[i].rec.events_built
                      /\ (e.glob = "directory") = L[i].rec.graw
               /\ r \notin DOMAIN file.runs => e.velocity = NoValue /\ e.source.primary = NoText
               /\ e.velocity # NoValue =>
                    /\ file.gas = "CO2" /\ file.runs[r].hv = 1600
                    /\ e.velocity = IF file.runs[r].pressure = 100 THEN 5786 ELSE 11573
               /\ stops(r) = {} /\ (\E i \in DOMAIN L : i > first(r) /\ L[i].rec.type = "run_start")
                    => r \in doc.warned

(* What was acknowledged can be read, by number and in order, over crashes  *)
(* and failed writes, and every post is counted as what became of it        *)
(* (LogbookWriter, read_since, logpost).                                    *)
LogbookSound == LogbookTypeOK /\ SeqAscends /\ ReadsBack /\ PostsAccounted
==============================================================================
