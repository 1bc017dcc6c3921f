------------------------------ MODULE MCMonitor ------------------------------
(* What is behind the decoder, for TLC: a behaviour follows root-sink's event *)
(* builder, the monitor's hub and its clients, what its SUB thread counts,    *)
(* what is made of one event or histogram, or the calibration tool.           *)
EXTENDS EventBuilder, Calib, Monitor, Feed, Display, TLC

VARIABLE part

monitorVars == <<part, ebVars, hubVars, feedVars, displayVars, calibVars>>

MCStatuses == {[run |-> 1, state |-> "Running"], [run |-> 2, state |-> "Running"]}
MCHubSetups == {[statuses |-> 2, frames |-> 0, subscribes |-> 0],
                [statuses |-> 1, frames |-> 0, subscribes |-> 1],
                [statuses |-> 0, frames |-> 2, subscribes |-> 2],
                [statuses |-> 0, frames |-> 3, subscribes |-> 0]}

(* What is left of an old acquisition, with high indices and times, and then  *)
(* what a new one sends; any of it may not be sent before the EOS.  The       *)
(* source that is not expected sends one fragment, or none.                   *)
Fragment(idx, time, acq) == [idx |-> idx, time |-> time, acq |-> acq]
OldOnes == {<< >>, <<2>>, <<3>>, <<2, 3>>}
NewOnes == {<<0, 1>>, <<0, 2>>}
MCScripts ==
  {[i \in DOMAIN o |-> Fragment(o[i], 20 + 5 * o[i], "old")]
     \o [i \in DOMAIN n |-> Fragment(n[i], n[i], "new")] : o \in OldOnes, n \in NewOnes}
MCIdle == <<Fragment(0, 0, "new"), Fragment(1, 1, "new")>>
MCStrays == {<< >>, <<Fragment(0, 0, "new")>>, <<Fragment(2, 30, "old")>>}

(* Recorded frames of two AsAds: read out in full, with an item outside of    *)
(* the arrays, of one channel, with holes in the baseline and without one,    *)
(* and one that cannot be decoded.                                            *)
Hole == -1
WaveItems(k, w) ==
  {[aget |-> k \div 2, chan |-> k % 2, bucket |-> b, adc |-> w[b + 1]] : b \in {b \in 0 .. 2 : w[b + 1] # Hole}}
Frame(asad, ev, waves) ==
  [ok |-> TRUE, asad |-> asad, ev |-> ev, items |-> UNION {WaveItems(k, waves[k]) : k \in DOMAIN waves}]
Outside == [aget |-> 1, chan |-> 2, bucket |-> 0, adc |-> 3]
MCFrames ==
  LET whole == Frame(0, 0, [k \in 0 .. 2 |-> <<<<1, 1, 3>>, <<1, 1, 2>>, <<2, 2, 2>>>>[k + 1]])
  IN  {whole, [whole EXCEPT !.ev = 1, !.items = @ \cup {Outside}],
       Frame(0, 1, [k \in {0} |-> <<1, 2, 2>>]),
       Frame(0, 1, [k \in {0, 2} |-> IF k = 0 THEN <<1, Hole, 2>> ELSE <<Hole, Hole, 3>>]),
       Frame(1, 0, [k \in {0} |-> <<1, 1, 2>>]),
       [whole EXCEPT !.ok = FALSE]}
Recorded == {<< >>} \cup {<<f>> : f \in MCFrames} \cup {<<f, g>> : f, g \in MCFrames}

(* Tables to merge: three signal channels and one without a signal.           *)
Keys4 == {<<0, 0, 0>>, <<0, 1, 0>>, <<1, 0, 0>>, <<0, 0, 1>>}
Pedestals(K) ==
  {[key \in K |-> [mean |-> Whole(10), rms |-> f[key]]] : f \in [K -> {Whole(0), Whole(1), Whole(3)}]}
Pulsers(K) ==
  {[key \in K |-> [relative_gain |-> RelativeGains(f)[key],
                   saturated |-> <<IF f[key] = Whole(3) THEN 1 ELSE 0, 1>>]] :
     f \in [K -> {Whole(0), Whole(1), Whole(3)}]}
MCJobs ==
  [cmd : {"pedestal", "pulser"}, files : {<< >>} \cup {<<a>> : a \in Recorded} \cup {<<a, b>> : a, b \in Recorded}]
   \cup [cmd : {"scan"}, files : {<<a, b>> : a, b \in Recorded}, amps : {<<-1, -2>>, <<-1, -1>>}]
   \cup [cmd : {"scan"}, files : {<<<<a>>, <<b>>, <<c>>>> : a, b, c \in MCFrames}, amps : {<<-1, -2, -5>>}]
   \cup [cmd : {"merge"}, ped : Pedestals(Keys4), pul : Pulsers(Keys4), k : {1}]
   \cup [cmd : {"merge"}, ped : Pedestals(Keys4 \ {<<0, 0, 0>>}), pul : Pulsers(Keys4 \ {<<0, 1, 0>>}), k : {1}]

(* A part that is not followed keeps its first state.                         *)
Init ==
  /\ part \in {"builder", "hub", "feed", "display", "calib"}
  /\ HubInit /\ FeedInit /\ DisplayInit
  /\ part # "hub" => budget.statuses = 2
  /\ part # "display" => hist.nx = 1 /\ hist.ny = 1 /\ Len(hist.bins) = 1
  /\ part = "calib" \/ job = [cmd |-> "pulser", files |-> << >>]
  /\ CalibInit
  /\ part = "builder" \/ script = [k \in SrcKeys |-> IF k \in ExpectedKeys THEN MCIdle ELSE << >>]
  /\ BuilderInit
  /\ \A k \in UnexpectedKeys : script[k] # << >> => \A s \in ExpectedKeys : Len(script[s]) <= 3

Next ==
  \/ part = "builder" /\ BuilderNext /\ UNCHANGED <<part, hubVars, feedVars, displayVars, calibVars>>
  \/ part = "hub" /\ HubNext /\ UNCHANGED <<part, ebVars, feedVars, displayVars, calibVars>>
  \/ part = "feed" /\ FeedNext /\ UNCHANGED <<part, ebVars, hubVars, displayVars, calibVars>>
  \/ part = "display" /\ DisplayNext /\ UNCHANGED <<part, ebVars, hubVars, feedVars, calibVars>>
  \/ part = "calib" /\ CalibNext /\ UNCHANGED <<part, ebVars, hubVars, feedVars, displayVars>>

Spec == Init /\ [][Next]_monitorVars

Alike == Permutations(Clients)

(* What is computed from the samples is theirs: the cells and histograms that *)
(* are shown and the tables of the calibration, unaffected by suppressed      *)
(* zeros, missing entries and arrays used again (display.rs, ws.rs, calib).   *)
DerivedDataSound == ShownSound /\ TablesSound
==============================================================================
