------------------------------- MODULE Slowctl -------------------------------
(* slowctl without its power commands (src/src/slowctl/component.rs, mod.rs): *)
(* a thread per instrument opens it, identifies it and polls it; the main     *)
(* loop turns what the threads send into logbook records (alarm edges, values *)
(* worth a record, error sums) and posts them to a controller that may be     *)
(* away; on SIGINT everything is folded up.                                   *)
EXTENDS Integers, Sequences, FiniteSets, SequencesExt

CONSTANTS
  ScValues,      \* per device: sample values, in percent of nominal
  EventQueue,    \* EVENT_QUEUE
  RetryLimit,    \* RETRY_QUEUE_LIMIT
  MaxPollErrors, \* MAX_CONSECUTIVE_POLL_ERRORS
  LogEvery,      \* log_every_s
  ScSetups,      \* bounds: the devices configured, the attempts to open one and
                 \* the polls of a behaviour
  MaxScClock,    \* bound: time stamps
  MaxReports     \* bound: ERROR reports

ASSUME ScAssumption ==
  /\ ScValues \in [{"flow", "env"} -> SUBSET Int]
  /\ EventQueue \in Nat /\ RetryLimit \in Nat \ {0} /\ MaxPollErrors \in Nat \ {0}
  /\ LogEvery \in Int /\ MaxScClock \in Nat /\ MaxReports \in Nat

(* Two instruments: one with two nodes and limits on its values, one without  *)
(* nodes that flags alarms itself.                                            *)
ScDevices == {"flow", "env"}
ScNodes == [flow |-> <<1, 2>>, env |-> <<0>>]
ScRules == <<[device |-> "flow", node |-> 1], [device |-> "flow", node |-> 0]>>
ScHi == 101
Keys == {<<"flow", 1>>, <<"flow", 2>>, <<"env", 0>>}

(* poll_err, parse_err and identity_mismatch are counted alike: one counter.  *)
ErrorKinds == {"failed", "reconnects"}

VARIABLES
  dev,        \* per device: where its thread is
  pollErrs,   \* per device: consecutive_errors
  opened,     \* per device: opened_once
  pending,    \* per device: the event its thread is sending
  scCounters, \* per device: Counters
  events,     \* the queue from the threads to the main loop
  scMain, scStop,
  firing, latest, logged,   \* Aggregator
  made,       \* history: the records made
  retry,      \* LogPoster.retry, as positions in made
  scDropped,  \* LogPoster.dropped
  posted,     \* records the controller has, as positions in made
  previous,   \* per device: counters at the last ERROR report
  opens, polls,   \* bound: what is left of the setup's attempts and polls
  scClock, reports

scThreads == <<dev, pollErrs, opened, pending, scCounters, opens, polls, scClock>>
scMainVars == <<firing, latest, logged, made, retry, scDropped, posted, previous, reports>>
scVars == <<scThreads, events, scMain, scStop, scMainVars>>

NoEvent == [kind |-> "none", device |-> "", values |-> << >>, alarm |-> FALSE, ts |-> 0]
NoSample == [value |-> 0, alarm |-> FALSE, ts |-> -1]
ZeroCounts == [k \in ErrorKinds |-> 0]

ScInit ==
  /\ \E setup \in ScSetups :
       /\ dev = [d \in ScDevices |-> IF d \in setup.devices THEN "open" ELSE "done"]
       /\ opens = setup.opens /\ polls = setup.polls
  /\ pollErrs = [d \in ScDevices |-> 0]
  /\ opened = [d \in ScDevices |-> FALSE] /\ pending = [d \in ScDevices |-> NoEvent]
  /\ scCounters = [d \in ScDevices |-> ZeroCounts] /\ previous = scCounters
  /\ events = << >> /\ scMain = "run" /\ scStop = FALSE
  /\ firing = [r \in DOMAIN ScRules |-> FALSE]
  /\ latest = [k \in Keys |-> NoSample] /\ logged = [k \in Keys |-> NoSample]
  /\ made = << >> /\ retry = << >> /\ scDropped = 0 /\ posted = << >>
  /\ scClock = 0 /\ reports = 0

-----------------------------------------------------------------------------
(* Device threads                                                             *)

Count(d, kind) == scCounters' = [scCounters EXCEPT ![d][kind] = @ + 1]

Goes(d, where) == dev' = [dev EXCEPT ![d] = where]

(* device_loop: every attempt but the first is a reconnection.  A driver that *)
(* opens goes on to be identified, one that does not waits its backoff out.   *)
OpenDevice(d) ==
  /\ dev[d] = "open" /\ ~scStop
  /\ opens > 0 /\ opens' = opens - 1
  /\ \E where \in {"ident", "backoff"} : Goes(d, where)
  /\ IF opened[d] THEN Count(d, "reconnects") ELSE UNCHANGED scCounters
  /\ opened' = [opened EXCEPT ![d] = TRUE]
  /\ UNCHANGED <<pollErrs, pending, polls, scClock, events, scMain, scStop, scMainVars>>

(* backoff_sleep: until the time is over or the stop signal.                  *)
EndBackoff(d) ==
  /\ dev[d] = "backoff"
  /\ Goes(d, "open")
  /\ UNCHANGED <<pollErrs, opened, pending, scCounters, opens, polls, scClock, events, scMain,
                 scStop, scMainVars>>

(* run_one_session: the instrument says who it is, or the link is given up.   *)
Identify(d) ==
  /\ dev[d] = "ident"
  /\ pollErrs' = [pollErrs EXCEPT ![d] = 0]
  /\ \/ /\ Goes(d, "send")
        /\ pending' = [pending EXCEPT ![d] = [NoEvent EXCEPT !.kind = "ident", !.device = d]]
        /\ UNCHANGED scCounters
     \/ /\ Goes(d, "backoff")
        /\ Count(d, "failed")
        /\ UNCHANGED pending
  /\ UNCHANGED <<opened, opens, polls, scClock, events, scMain, scStop, scMainVars>>

PollSucceeds(d) ==
  /\ dev[d] = "poll" /\ ~scStop
  /\ polls > 0 /\ polls' = polls - 1
  /\ \E values \in [1 .. Len(ScNodes[d]) -> ScValues[d]], alarm \in BOOLEAN,
        ts \in scClock .. scClock + 1 :
       /\ ts <= MaxScClock /\ (alarm => d = "env")
       /\ scClock' = ts
       /\ pending' = [pending EXCEPT ![d] = [kind |-> "samples", device |-> d,
                                             values |-> values, alarm |-> alarm, ts |-> ts]]
  /\ pollErrs' = [pollErrs EXCEPT ![d] = 0]
  /\ Goes(d, "send")
  /\ UNCHANGED <<opened, opens, scCounters, events, scMain, scStop, scMainVars>>

(* The fifth failure in a row gives the link up.                              *)
PollFails(d) ==
  /\ dev[d] = "poll" /\ ~scStop
  /\ polls > 0 /\ polls' = polls - 1
  /\ Count(d, "failed")
  /\ pollErrs' = [pollErrs EXCEPT ![d] = @ + 1]
  /\ Goes(d, IF pollErrs[d] + 1 >= MaxPollErrors THEN "backoff" ELSE "poll")
  /\ UNCHANGED <<opened, opens, pending, scClock, events, scMain, scStop, scMainVars>>

(* tx.send: waits while the queue is full.                                    *)
SendEvent(d) ==
  /\ dev[d] = "send" /\ Len(events) < EventQueue
  /\ events' = Append(events, pending[d])
  /\ pending' = [pending EXCEPT ![d] = NoEvent]
  /\ Goes(d, "poll")
  /\ UNCHANGED <<pollErrs, opened, scCounters, opens, polls, scClock, scMain, scStop, scMainVars>>

(* Mutant: only device_loop looks at the stop signal.                         *)
ThreadStops_OnlyOpen(d) ==
  /\ dev[d] = "open" /\ scStop
  /\ Goes(d, "done")
  /\ UNCHANGED <<pollErrs, opened, pending, scCounters, opens, polls, scClock, events, scMain,
                 scStop, scMainVars>>

(* The loops look at the stop signal before every attempt and every poll.     *)
ThreadStops(d) ==
  /\ dev[d] \in {"open", "poll"} /\ scStop
  /\ Goes(d, "done")
  /\ UNCHANGED <<pollErrs, opened, pending, scCounters, opens, polls, scClock, events, scMain,
                 scStop, scMainVars>>

-----------------------------------------------------------------------------
(* Aggregator                                                                 *)

(* AlarmRule: node 0 stands for a rule without node, which matches every one. *)
Matches(rule, s) == rule.device = s.key[1] /\ rule.node \in {0, s.key[2]}

(* Mutant: an alarm is recorded for as long as it lasts.                      *)
Edges_NoState(was, s, r) ==
  IF ~Matches(ScRules[r], s) \/ (~was[r] /\ s.value <= ScHi) THEN << >>
  ELSE <<IF s.value > ScHi THEN "ALARM" ELSE "RECOVER">>

(* AlarmRule::evaluate: the record a rule that is or is not firing makes.     *)
Edges(was, s, r) ==
  IF ~Matches(ScRules[r], s) \/ was[r] = (s.value > ScHi) THEN << >>
  ELSE <<IF s.value > ScHi THEN "ALARM" ELSE "RECOVER">>

(* The alarm bit the instrument sets itself, against the sample before.       *)
FlagEdges(before, s) ==
  IF before.alarm = s.alarm THEN << >> ELSE <<IF s.alarm THEN "ALARM" ELSE "RECOVER">>

(* LogPolicy: 2 percent from the last record, or log_every_s after it.        *)
ShouldLog(last, s) ==
  LET step == IF s.value > last.value THEN s.value - last.value ELSE last.value - s.value
  IN  last.ts = -1 \/ (step > 0 /\ 50 * step >= last.value) \/ s.ts - last.ts >= LogEvery

(* The last record of the sample's key.                                       *)
LastLogged(agg, s) == agg.logged[s.key]

(* The edges of the rules and of the flag; a record of an edge counts as      *)
(* logged, so a VALUE record follows only without one.                        *)
IngestSample(agg, s) ==
  LET edges == Edges(agg.firing, s, 1) \o Edges(agg.firing, s, 2)
                 \o FlagEdges(agg.latest[s.key], s)
      said  == IF edges = << >> /\ ShouldLog(LastLogged(agg, s), s) THEN <<"VALUE">> ELSE edges
      now   == [value |-> s.value, alarm |-> s.alarm, ts |-> s.ts]
  IN  [firing  |-> [r \in DOMAIN ScRules |->
                      IF Matches(ScRules[r], s) THEN s.value > ScHi ELSE agg.firing[r]],
       latest  |-> [agg.latest EXCEPT ![s.key] = now],
       logged  |-> IF said = << >> THEN agg.logged ELSE [agg.logged EXCEPT ![s.key] = now],
       records |-> agg.records \o [i \in DOMAIN said |->
                     [device |-> s.key[1], node |-> s.key[2], event |-> said[i],
                      value |-> s.value]]]

(* Aggregator::ingest: the samples of one poll, in their order.               *)
Ingest(event) ==
  LET nodes == ScNodes[event.device]
      Sample(i) == [key |-> <<event.device, nodes[i]>>, value |-> event.values[i],
                    alarm |-> event.alarm, ts |-> event.ts]
      after[i \in 0 .. Len(nodes)] ==
        IF i = 0
        THEN [firing |-> firing, latest |-> latest, logged |-> logged, records |-> << >>]
        ELSE IngestSample(after[i - 1], Sample(i))
  IN  after[Len(nodes)]

(* counter_delta and error_record: nothing to say, nothing said.              *)
ErrorRecord(d) ==
  LET delta == [k \in ErrorKinds |-> scCounters[d][k] - previous[d][k]]
  IN  IF delta = ZeroCounts THEN << >>
      ELSE <<[device |-> d, node |-> 0, event |-> "ERROR", value |-> delta]>>

-----------------------------------------------------------------------------
(* LogPoster                                                                  *)

(* is_retryable: events that happen once.                                     *)
Retryable(record) == record.event \in {"IDENT", "ALARM", "RECOVER"}

(* RetryQueue::push of a record that could not be sent: one that happens once *)
(* is queued, the oldest makes room for it.                                   *)
Push(queue, i, all) ==
  IF ~Retryable(all[i]) THEN queue
  ELSE Append(IF Len(queue) >= RetryLimit THEN Tail(queue) ELSE queue, i)

(* RetryQueue after a turn: what is left of it and of the new records.        *)
Keep(ids, all) ==
  LET queue[k \in 0 .. Len(ids)] == IF k = 0 THEN << >> ELSE Push(queue[k - 1], ids[k], all)
  IN  queue[Len(ids)]

(* flush, then post for each new record: in order until the socket refuses    *)
(* one; after that nothing more is tried until the next turn.                 *)
Post(records) ==
  /\ made' = made \o records
  /\ \E out \in {retry \o [i \in 1 .. Len(records) |-> Len(made) + i]}, n \in 0 .. Len(retry) + Len(records) :
       LET left == SubSeq(out, n + 1, Len(out))
       IN  /\ posted' = posted \o SubSeq(out, 1, n)
           /\ retry' = Keep(left, made')
           /\ scDropped' = scDropped + Len(left) - Len(retry')

IdentRecords(d) ==
  [i \in 1 .. Len(ScNodes[d]) |-> [device |-> d, node |-> ScNodes[d][i], event |-> "IDENT",
                                   value |-> 0]]

(* main_loop, one turn: what was kept, an event if there is one.              *)
MainTurn ==
  /\ scMain = "run" /\ ~scStop
  /\ events # << >> \/ retry # << >>
  /\ events' = IF events = << >> THEN events ELSE Tail(events)
  /\ LET e == IF events = << >> THEN NoEvent ELSE Head(events)
     IN  \/ /\ e.kind = "samples"
            /\ \E agg \in {Ingest(e)} :
                 /\ Post(agg.records)
                 /\ firing' = agg.firing /\ latest' = agg.latest /\ logged' = agg.logged
         \/ /\ e.kind = "ident"
            /\ Post(IdentRecords(e.device))
            /\ UNCHANGED <<firing, latest, logged>>
         \/ /\ e.kind = "none"
            /\ Post(<< >>)
            /\ UNCHANGED <<firing, latest, logged>>
  /\ UNCHANGED <<scThreads, scMain, scStop, previous, reports>>

(* Every ERROR_REPORT_INTERVAL, in a turn without event.                      *)
ErrorReport ==
  /\ scMain = "run" /\ ~scStop /\ reports < MaxReports
  /\ reports' = reports + 1
  /\ Post(ErrorRecord("flow") \o ErrorRecord("env"))
  /\ previous' = scCounters
  /\ UNCHANGED <<scThreads, events, scMain, scStop, firing, latest, logged>>

-----------------------------------------------------------------------------
(* run_slowctl                                                                *)

Sigint == ~scStop /\ scStop' = TRUE /\ UNCHANGED <<scThreads, events, scMain, scMainVars>>

MainStops ==
  /\ scMain = "run" /\ scStop
  /\ scMain' = "joining"
  /\ UNCHANGED <<scThreads, events, scStop, scMainVars>>

MainJoins ==
  /\ scMain = "joining" /\ \A d \in ScDevices : dev[d] = "done"
  /\ scMain' = "stopped"
  /\ UNCHANGED <<scThreads, events, scStop, scMainVars>>

DeviceStep(d) ==
  \/ OpenDevice(d) \/ EndBackoff(d) \/ Identify(d) \/ PollSucceeds(d) \/ PollFails(d)
  \/ SendEvent(d) \/ ThreadStops(d)

ScNext ==
  \/ \E d \in ScDevices : DeviceStep(d)
  \/ MainTurn \/ ErrorReport \/ Sigint \/ MainStops \/ MainJoins

ScSpec == ScInit /\ [][ScNext]_scVars

-----------------------------------------------------------------------------
(* Every variable has its type.                                               *)
ScTypeOK ==
  /\ dev \in [ScDevices -> {"open", "backoff", "ident", "send", "poll", "done"}]
  /\ pollErrs \in [ScDevices -> 0 .. MaxPollErrors]
  /\ scCounters \in [ScDevices -> [ErrorKinds -> Nat]]
  /\ Len(events) <= EventQueue /\ Len(retry) <= RetryLimit
  /\ scMain \in {"run", "joining", "stopped"}

(* Every record made is with the controller, kept for it, or counted as       *)
(* dropped, and the controller gets them in the order they were made, none    *)
(* twice (LogPoster::flush, post: the `down` mark).                           *)
RecordsInOrder ==
  /\ Len(made) = Len(posted) + Len(retry) + scDropped
  /\ \A i, j \in DOMAIN posted : i < j => posted[i] < posted[j]

(* Of the records of events that happen once, only one with RETRY_QUEUE_LIMIT *)
(* newer ones is ever lost (component.rs: "the oldest first").                *)
OnlyOldestLost ==
  LET once == {i \in DOMAIN made : Retryable(made[i])}
  IN  \A i \in once \ (ToSet(posted) \cup ToSet(retry)) :
        Cardinality({j \in once : j > i}) >= RetryLimit

(* How often the key's records say ALARM more than RECOVER.                   *)
Balance(k) ==
  LET Of(event) == Cardinality({i \in DOMAIN made : made[i].event = event
                                  /\ <<made[i].device, made[i].node>> = k})
  IN  Of("ALARM") - Of("RECOVER")

(* The alarm records tell the present state: over the keys a rule or a flag   *)
(* watches, ALARM was said once more than RECOVER for each condition that     *)
(* holds now, through reconnections, jumps and values inside the log policy.  *)
(* (A rule without node keeps one state for all its nodes, so only their sum  *)
(* is claimed.)                                                               *)
AlarmsBalance ==
  /\ Balance(<<"env", 0>>) = IF latest[<<"env", 0>>].alarm THEN 1 ELSE 0
  /\ Balance(<<"flow", 1>>) + Balance(<<"flow", 2>>)
       = Cardinality({r \in DOMAIN ScRules : firing[r]})
  /\ firing[1] <=> latest[<<"flow", 1>>].value > ScHi

(* The record gives a value of key k.                                         *)
Tells(record, k) ==
  <<record.device, record.node>> = k /\ record.event \in {"ALARM", "RECOVER", "VALUE"}

(* The last record of a key is never 2 percent or more away from its latest   *)
(* value, however slowly it drifts (LogPolicy::should_log).                   *)
LoggedIsCurrent ==
  \A k \in Keys : latest[k].ts # -1 =>
    \E i \in DOMAIN made :
      /\ Tells(made[i], k) /\ \A j \in DOMAIN made : Tells(made[j], k) => j <= i
      /\ \A n \in {latest[k].value - made[i].value, made[i].value - latest[k].value} :
           n <= 0 \/ 50 * n < made[i].value

(* The sum of the ERROR records of d in log.                                  *)
Reported(log, d, k) ==
  LET sum[i \in 0 .. Len(log)] ==
        IF i = 0 THEN 0
        ELSE sum[i - 1] + (IF log[i].event = "ERROR" /\ log[i].device = d
                           THEN log[i].value[k] ELSE 0)
  IN  sum[Len(log)]

(* The ERROR records made add up to the counters at the last report, so every *)
(* failure is reported once (counter_delta, previous).                        *)
ErrorsReportedOnce ==
  \A d \in ScDevices, k \in ErrorKinds :
    /\ previous[d][k] <= scCounters[d][k]
    /\ Reported(made, d, k) = previous[d][k]

(* SIGINT ends slowctl, unless a thread is left in front of a full event      *)
(* queue, which nobody reads any more (run_slowctl joins with rx alive).      *)
SlowctlStops == scStop ~> (scMain = "stopped" \/ Len(events) = EventQueue)

(* The records in the logbook tell what the devices did: in order, alarms   *)
(* in pairs, no value gone stale, every error once, and under pressure the  *)
(* oldest are given up (component.rs).                                      *)
RecordsSound ==
  /\ ScTypeOK /\ RecordsInOrder /\ OnlyOldestLost /\ AlarmsBalance
  /\ LoggedIsCurrent /\ ErrorsReportedOnce
=============================================================================
