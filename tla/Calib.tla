------------------------------- MODULE Calib -------------------------------
(* The calibration tool (src/src/calib, src/src/bin/calib.rs): the samples of *)
(* recorded files are gathered per channel, frame by frame, into a table of   *)
(* pedestals, of pulser amplitudes, or of a ladder of amplitudes (one file    *)
(* per pulser setting); merge joins the first two and marks the channels that *)
(* stand out.                                                                 *)
(*                                                                            *)
(* Numbers are exact here, <<numerator, denominator>>; what floating point    *)
(* rounds is left out, what it cannot represent (0/0, x/0) is NotFinite.      *)
EXTENDS Integers, Sequences, FiniteSets, SequencesExt, FiniteSetsExt

CONSTANTS
  AGET_PER_ASAD, RAW_CH_PER_AGET,
  FpnChannels,              \* the raw channels that carry no signal
  WAVEFORM_LEN,             \* buckets of a waveform
  BASELINE_END,             \* the baseline is taken before this bucket
  WAVEFORM_BASELINE_CELLS,  \* and that of the mean waveform before this one
  ADC_FULL_SCALE,
  FIT_MAX_ABS_AMP_MV,       \* settings above it are not fitted
  Jobs                      \* what calib is called with

ASSUME CalibAssumption ==
  /\ AGET_PER_ASAD \in Nat \ {0} /\ RAW_CH_PER_AGET \in Nat \ {0}
  /\ WAVEFORM_BASELINE_CELLS \in 1 .. BASELINE_END /\ BASELINE_END \in 1 .. WAVEFORM_LEN

VARIABLES
  job,      \* the subcommand and its arguments
  file,     \* the file that is being read
  left,     \* what is left of it
  scratch,  \* the arrays made once and used for every frame
  accum,    \* what has been gathered, per channel
  ladders,  \* scan: per channel, what each file gave
  events,   \* seen_events
  stage,    \* "between" files, "reading" one, "written", "failed"
  made     \* the table that is written

calibVars == <<job, file, left, scratch, accum, ladders, events, stage, made>>

-----------------------------------------------------------------------------
(* Numbers                                                                    *)

NotFinite == <<0, 0>>
Finite(x) == x[2] # 0
Whole(n) == <<n, 1>>
Gcd[ab \in Nat \X Nat] == IF ab[2] = 0 THEN ab[1] ELSE Gcd[<<ab[2], ab[1] % ab[2]>>]
Lowest(p, q) ==
  LET g == Gcd[<<IF p < 0 THEN -p ELSE p, IF q < 0 THEN -q ELSE q>>]
  IN  IF q = 0 THEN NotFinite
      ELSE IF q < 0 THEN <<(-p) \div g, (-q) \div g>> ELSE <<p \div g, q \div g>>
Ratio(x, y) == Lowest(x[1] * y[2], x[2] * y[1])
Plus(x, y) == Lowest(x[1] * y[2] + y[1] * x[2], x[2] * y[2])
Minus(x, y) == Lowest(x[1] * y[2] - y[1] * x[2], x[2] * y[2])
Times(x, y) == Lowest(x[1] * y[1], x[2] * y[2])
Less(x, y) == Finite(x) /\ Finite(y) /\ x[1] * y[2] < y[1] * x[2]
Same(x, y) == Finite(x) /\ Finite(y) /\ x[1] * y[2] = y[1] * x[2]
Abs(x) == IF x[1] < 0 THEN <<-x[1], x[2]>> ELSE x
Total(xs) == FoldLeft(Plus, Whole(0), xs)

(* median: of the finite values                                               *)
Median(values) ==
  LET v == SortSeq(SelectSeq(values, Finite), Less)
      n == Len(v)
  IN  IF n = 0 THEN NotFinite
      ELSE IF n % 2 = 1 THEN v[n \div 2 + 1]
      ELSE Ratio(Plus(v[n \div 2], v[n \div 2 + 1]), Whole(2))

(* mad                                                                        *)
Mad(values, med) == Median([i \in DOMAIN SelectSeq(values, Finite) |-> Abs(Minus(SelectSeq(values, Finite)[i], med))])

SumOver(S, f(_)) == MapThenSumSet(f, S)

-----------------------------------------------------------------------------
(* Frames: [ok, asad, ev, items], an item [aget, chan, bucket, adc]; ok is    *)
(* FALSE when the Decoder makes no Fragment of it.                            *)

PER_FRAME == AGET_PER_ASAD * RAW_CH_PER_AGET
Slots == 0 .. PER_FRAME - 1
Buckets == 0 .. WAVEFORM_LEN - 1

Slot(it) == it.aget * RAW_CH_PER_AGET + it.chan
ChKey(asad, k) == <<asad, k \div RAW_CH_PER_AGET, k % RAW_CH_PER_AGET>>
is_fpn(key) == key[3] \in FpnChannels
In(f, k) == {it \in f.items : Slot(it) = k}

NoSlot == [seen |-> FALSE, base_sum |-> 0, base_n |-> 0, peak |-> 0,
           wave |-> [b \in Buckets |-> 0], n25 |-> 0]

(* Extends acc by the keys K and applies f to each of them.                   *)
Gather(acc, K, none, f(_, _)) ==
  [k \in DOMAIN acc \cup K |->
     IF k \notin K THEN acc[k] ELSE f(k, IF k \in DOMAIN acc THEN acc[k] ELSE none)]

(* pedestal: Accum::add for every item, under its own aget and channel        *)
AddPedestal(acc, fi, f) ==
  LET of(key) == {it \in f.items : <<f.asad, it.aget, it.chan>> = key}
      add(key, a) ==
        [n |-> a.n + Cardinality(of(key)),
         sum |-> a.sum + SumOver(of(key), LAMBDA it : it.adc),
         sum_sq |-> a.sum_sq + SumOver(of(key), LAMBDA it : it.adc * it.adc),
         files |-> a.files \cup {fi}]
  IN  Gather(acc, {<<f.asad, it.aget, it.chan>> : it \in f.items},
             [n |-> 0, sum |-> 0, sum_sq |-> 0, files |-> {}], add)

(* Mutant: the peaks of the last frame stay in the scratch array.             *)
Cleared_KeepsPeaks(scr) == [k \in Slots |-> [NoSlot EXCEPT !.peak = scr[k].peak]]

(* The scratch arrays are cleared at the beginning of a frame.                *)
Cleared(scr) == [k \in Slots |-> NoSlot]

(* pulser: the arrays after the items of a frame; those that fall outside of  *)
(* the arrays are skipped.                                                    *)
PulserFills(scr, f) ==
  [k \in Slots |->
     LET base == {it \in In(f, k) : it.bucket < BASELINE_END}
     IN  [scr[k] EXCEPT !.seen = @ \/ In(f, k) # {},
                        !.base_sum = @ + SumOver(base, LAMBDA it : it.adc),
                        !.base_n = @ + Cardinality(base),
                        !.peak = Max({@} \cup {it.adc : it \in In(f, k)})]]

(* The channels of a frame that have a baseline                               *)
Measured(scr) == {k \in Slots : scr[k].seen /\ scr[k].base_n # 0}

(* pulser: what a frame adds                                                  *)
AddPulser(acc, fi, asad, scr) ==
  LET slot(key) == CHOOSE k \in Slots : ChKey(asad, k) = key
      amp(k) == Minus(Whole(scr[k].peak), Ratio(Whole(scr[k].base_sum), Whole(scr[k].base_n)))
      add(key, a) ==
        [amps |-> Append(a.amps, amp(slot(key))),
         saturated |-> a.saturated + IF scr[slot(key)].peak >= ADC_FULL_SCALE THEN 1 ELSE 0,
         files |-> a.files \cup {fi}]
  IN  Gather(acc, {ChKey(asad, k) : k \in Measured(scr)},
             [amps |-> << >>, saturated |-> 0, files |-> {}], add)

(* scan: the arrays after the items of a frame                                *)
ScanFills(scr, f) ==
  [k \in Slots |->
     LET its == In(f, k)
         at(b) == {it.adc : it \in {it \in its : it.bucket = b}}
     IN  [scr[k] EXCEPT !.seen = @ \/ its # {},
                        !.wave = [b \in Buckets |-> IF at(b) = {} THEN @[b] ELSE CHOOSE v \in at(b) : TRUE],
                        !.base_n = @ + Cardinality({it \in its : it.bucket < BASELINE_END}),
                        !.n25 = @ + Cardinality({it \in its : it.bucket < WAVEFORM_BASELINE_CELLS})]]

(* scan: what a frame adds.  The baseline is the sum of the window's cells    *)
(* over its length, also where cells are missing.  wave_sum counts in         *)
(* fractions of WAVEFORM_BASELINE_CELLS.                                      *)
AddScan(acc, asad, scr) ==
  LET slot(key) == CHOOSE k \in Slots : ChKey(asad, k) = key
      cells(w, n) == SumOver(0 .. n - 1, LAMBDA b : w[b])
      amp(w) == Minus(Whole(Max({w[b] : b \in Buckets})), <<cells(w, BASELINE_END), BASELINE_END>>)
      add(key, a) ==
        LET s == scr[slot(key)]
            ped == cells(s.wave, WAVEFORM_BASELINE_CELLS)
            b == [a EXCEPT !.amps = Append(@, amp(s.wave))]
        IN  IF s.n25 = 0 THEN b
            ELSE [b EXCEPT !.wave_sum = [i \in Buckets |-> @[i] + s.wave[i] * WAVEFORM_BASELINE_CELLS - ped],
                           !.wave_events = @ + 1]
  IN  Gather(acc, {ChKey(asad, k) : k \in Measured(scr)},
             [amps |-> << >>, wave_sum |-> [b \in Buckets |-> 0], wave_events |-> 0], add)

-----------------------------------------------------------------------------
(* Tables                                                                     *)

(* pedestal::compute; rms is kept as its square.                              *)
PedestalTable(acc) ==
  [key \in DOMAIN acc |->
     [mean |-> <<acc[key].sum, acc[key].n>>,
      var |-> <<acc[key].n * acc[key].sum_sq - acc[key].sum * acc[key].sum, acc[key].n * acc[key].n>>,
      runs |-> Cardinality(acc[key].files), is_fpn |-> is_fpn(key)]]

Values(K, f(_)) == LET ks == SetToSeq(K) IN [i \in DOMAIN ks |-> f(ks[i])]
Signals(K) == {key \in K : ~is_fpn(key)}

(* relative_gain: the amplitude over the median of all signal channels; null  *)
(* for the others, and in the file also when it is not finite.                *)
RelativeGains(amp) ==
  LET all == Median(Values(Signals(DOMAIN amp), LAMBDA key : amp[key]))
  IN  [key \in DOMAIN amp |-> IF is_fpn(key) THEN NotFinite ELSE Ratio(amp[key], all)]

(* pulser::compute                                                            *)
PulserTable(acc) ==
  LET amp == [key \in DOMAIN acc |-> Median(acc[key].amps)]
  IN  [key \in DOMAIN acc |->
         [amplitude_median |-> amp[key], relative_gain |-> RelativeGains(amp)[key],
          saturated |-> <<acc[key].saturated, Len(acc[key].amps)>>,
          runs |-> Cardinality(acc[key].files)]]

(* compute_one_run: what a file gives for a channel                           *)
Rung(a) ==
  [amp |-> Median(a.amps),
   wave |-> [b \in Buckets |-> IF a.wave_events = 0 THEN NotFinite
                               ELSE <<a.wave_sum[b], WAVEFORM_BASELINE_CELLS * a.wave_events>>]]

(* compute_fit: the points the line is fitted to                              *)
InWindow(amps) ==
  SelectSeq([i \in DOMAIN amps |-> i],
            LAMBDA i : -FIT_MAX_ABS_AMP_MV <= amps[i] /\ amps[i] <= FIT_MAX_ABS_AMP_MV)

(* least_squares: <<slope, intercept>>                                        *)
LeastSquares(xs, ys) ==
  LET n == Whole(Len(xs))
      total(f(_)) == Total([i \in DOMAIN xs |-> f(i)])
      sx == total(LAMBDA i : xs[i])
      sy == total(LAMBDA i : ys[i])
      sxy == total(LAMBDA i : Times(xs[i], ys[i]))
      sx2 == total(LAMBDA i : Times(xs[i], xs[i]))
      denom == Minus(Times(n, sx2), Times(sx, sx))
      slope == Ratio(Minus(Times(n, sxy), Times(sx, sy)), denom)
  IN  IF Len(xs) < 2 \/ denom[1] = 0 THEN <<NotFinite, NotFinite>>
      ELSE <<slope, Ratio(Minus(sy, Times(slope, sx)), n)>>

(* compute_fit; max_resid_frac is over all the points.                        *)
ComputeFit(amps, ys) ==
  LET w == InWindow(amps)
      fit == LeastSquares([i \in DOMAIN w |-> Whole(amps[w[i]])], [i \in DOMAIN w |-> ys[w[i]]])
      pred(i) == Plus(Times(fit[1], Whole(amps[i])), fit[2])
      resid == {Abs(Ratio(Minus(ys[i], pred(i)), pred(i))) :
                  i \in {i \in DOMAIN amps : Finite(pred(i)) /\ pred(i)[1] # 0}} \cup {Whole(0)}
  IN  [slope |-> fit[1], intercept |-> fit[2],
       max_resid_frac |-> CHOOSE r \in resid : \A x \in resid : ~Less(r, x)]

(* Only the channels that every file has are kept: their ladders are aligned  *)
(* with the settings.                                                         *)
OnAllRungs(lads, n) == {key \in DOMAIN lads : Len(lads[key]) = n}

(* scan::compute                                                              *)
ScanTable(lads, amps) ==
  [key \in OnAllRungs(lads, Len(amps)) |->
     LET ys == [i \in DOMAIN lads[key] |-> lads[key][i].amp]
     IN  [amplitude |-> ys, waveform |-> [i \in DOMAIN ys |-> lads[key][i].wave],
          fit |-> ComputeFit(amps, ys)]]

(* merge: rms and relative gain of a channel against those of the others.     *)
(* DEAD_RMS_THRESHOLD is 1/2, GAIN_OUT_MAD_K is 2.                            *)
MergeTables(ped, pul, k) ==
  LET both == DOMAIN ped \cap DOMAIN pul
      rms(K) == Values(K, LAMBDA key : ped[key].rms)
      alike(key) == {l \in both : is_fpn(l) = is_fpn(key)}
      med(key) == Median(rms(alike(key)))
      noisy(key) == Less(Plus(med(key), Times(Whole(k), Mad(rms(alike(key)), med(key)))), ped[key].rms)
      given == {key \in both : Finite(pul[key].relative_gain)}
      gains == Values(given, LAMBDA key : pul[key].relative_gain)
      gain_mad == Mad(gains, Median(gains))
      gain_out(key) ==
        key \in given /\ Less(Times(Whole(2), gain_mad), Abs(Minus(pul[key].relative_gain, Whole(1))))
      threshold(key) == Plus(ped[key].mean, Times(Whole(5), ped[key].rms))
  IN  [key \in both |->
         [noisy |-> noisy(key), dead |-> Less(ped[key].rms, <<1, 2>>), gain_out |-> gain_out(key),
          saturated |-> Less(<<1, 2>>, pul[key].saturated),
          threshold_suggest |-> (2 * threshold(key)[1] + threshold(key)[2]) \div (2 * threshold(key)[2])]]

-----------------------------------------------------------------------------
CalibInit ==
  /\ job \in Jobs
  /\ file = 1 /\ left = << >> /\ events = {}
  /\ scratch = [k \in Slots |-> NoSlot]
  /\ accum = << >> /\ ladders = << >>
  /\ stage = "between" /\ made = << >>

(* A missing argument, or no files                                            *)
UsageError ==
  /\ stage = "between" /\ file = 1 /\ job.cmd # "merge" /\ job.files = << >>
  /\ stage' = "failed"
  /\ UNCHANGED <<job, file, left, scratch, accum, ladders, events, made>>

(* File::open; a scan begins every file with an empty accum.                  *)
OpenFile ==
  /\ stage = "between" /\ job.cmd # "merge" /\ file <= Len(job.files)
  /\ \/ /\ stage' = "reading" /\ left' = job.files[file]
        /\ accum' = IF job.cmd = "scan" THEN << >> ELSE accum
     \/ stage' = "failed" /\ UNCHANGED <<left, accum>>
  /\ UNCHANGED <<job, file, scratch, ladders, events, made>>

(* The next frame of the file, and what the subcommand makes of it            *)
TakeFrame ==
  /\ stage = "reading" /\ left # << >>
  /\ left' = Tail(left)
  /\ LET f == Head(left)
     IN  \/ /\ ~f.ok
            /\ UNCHANGED <<scratch, accum, events>>
         \/ /\ f.ok
            /\ events' = events \cup {<<IF job.cmd = "scan" THEN file ELSE 0, f.ev>>}
            /\ \/ /\ job.cmd = "pedestal" /\ accum' = AddPedestal(accum, file, f)
                  /\ UNCHANGED scratch
               \/ /\ job.cmd = "pulser" /\ scratch' = PulserFills(Cleared(scratch), f)
                  /\ accum' = AddPulser(accum, file, f.asad, scratch')
               \/ /\ job.cmd = "scan" /\ scratch' = ScanFills(Cleared(scratch), f)
                  /\ accum' = AddScan(accum, f.asad, scratch')
  /\ UNCHANGED <<job, file, ladders, stage, made>>

FileEnds ==
  /\ stage = "reading" /\ left = << >>
  /\ stage' = "between" /\ file' = file + 1
  /\ ladders' = IF job.cmd # "scan" THEN ladders
                ELSE Gather(ladders, DOMAIN accum, << >>, LAMBDA key, l : Append(l, Rung(accum[key])))
  /\ UNCHANGED <<job, left, scratch, accum, events, made>>

(* The table is computed, and written or not.                                 *)
WriteTable ==
  /\ stage = "between"
  /\ job.cmd # "merge" => job.files # << >> /\ file > Len(job.files)
  /\ \/ stage' = "failed" /\ UNCHANGED made
     \/ /\ stage' = "written"
        /\ made' =
             CASE job.cmd = "pedestal" -> PedestalTable(accum)
               [] job.cmd = "pulser" -> PulserTable(accum)
               [] job.cmd = "scan" -> ScanTable(ladders, job.amps)
               [] job.cmd = "merge" -> MergeTables(job.ped, job.pul, job.k)
  /\ UNCHANGED <<job, file, left, scratch, accum, ladders, events>>

CalibNext == UsageError \/ OpenFile \/ TakeFrame \/ FileEnds \/ WriteTable

-----------------------------------------------------------------------------
(* A table is built from whole files, and no ladder has more rungs than files *)
(* have been read.                                                            *)
CalibTypeOK ==
  /\ stage \in {"between", "reading", "written", "failed"}
  /\ left # << >> => stage = "reading"
  /\ \A key \in DOMAIN ladders : Len(ladders[key]) < file

(* The reference: the samples of a channel, straight from the frames          *)
Good(fs) == SelectSeq(fs, LAMBDA f : f.ok)
Of(f, key) == {it \in f.items : <<f.asad, it.aget, it.chan>> = key}
InBaseline(f, key) == {it \in Of(f, key) : it.bucket < BASELINE_END}
Amplitude(f, key) ==
  Minus(Whole(Max({it.adc : it \in Of(f, key)})),
        <<SumOver(InBaseline(f, key), LAMBDA it : it.adc), Cardinality(InBaseline(f, key))>>)
Pulses(fs, key) == SelectSeq(Good(fs), LAMBDA f : InBaseline(f, key) # {})

(* As many amplitudes below m as above it                                     *)
InTheMiddle(m, ps, key) ==
  /\ Finite(m) /\ ps # << >>
  /\ 2 * Cardinality({i \in DOMAIN ps : Less(Amplitude(ps[i], key), m)}) <= Len(ps)
  /\ 2 * Cardinality({i \in DOMAIN ps : Less(m, Amplitude(ps[i], key))}) <= Len(ps)

(* The pedestal of a channel is the mean of its samples in all good frames of *)
(* all files, its pulser amplitude the middle one of its pulses: nothing of   *)
(* another frame, file, board or channel, and nothing of a damaged frame,     *)
(* gets into it by way of the arrays that are used again.                     *)
TablesExact ==
  stage = "written" =>
    LET all == FlattenSeq(job.files)
        sums(key, f(_)) == SumOver(DOMAIN Good(all), LAMBDA i : SumOver(Of(Good(all)[i], key), f))
    IN  /\ job.cmd = "pedestal" => \A key \in DOMAIN made :
             /\ Same(made[key].mean, <<sums(key, LAMBDA it : it.adc), sums(key, LAMBDA it : 1)>>)
             /\ made[key].runs = Cardinality({i \in DOMAIN job.files :
                    \E f \in ToSet(Good(job.files[i])) : Of(f, key) # {}})
        /\ job.cmd = "pulser" => \A key \in DOMAIN made :
             LET ps == Pulses(all, key)
             IN  /\ InTheMiddle(made[key].amplitude_median, ps, key)
                 /\ Same(made[key].saturated, <<Cardinality({i \in DOMAIN ps :
                       \E it \in Of(ps[i], key) : it.adc = ADC_FULL_SCALE}), Len(ps)>>)

(* pedestal.json and pulser.json can be read again by merge and the monitor:  *)
(* a number that is not finite would be written as null.                      *)
TablesReadBack ==
  stage = "written" => \A key \in DOMAIN made :
    /\ job.cmd = "pedestal" => Finite(made[key].mean) /\ Finite(made[key].var) /\ made[key].var[1] >= 0
    /\ job.cmd = "pulser" => Finite(made[key].amplitude_median) /\ Finite(made[key].saturated)

(* The i-th value of a channel's ladder is of the i-th setting's file, also   *)
(* when the channel is missing in others, and it is what calib pulser would   *)
(* say of that file, provided the baseline is read out in full.               *)
LaddersAligned ==
  stage = "written" /\ job.cmd = "scan" =>
    \A key \in DOMAIN made : \A i \in DOMAIN job.amps :
      LET ps == Pulses(job.files[i], key)
      IN  (\A j \in DOMAIN ps : Cardinality(InBaseline(ps[j], key)) = BASELINE_END)
            => InTheMiddle(made[key].amplitude[i], ps, key)

(* Two settings below the limit determine the line, whatever the others say.  *)
FitThroughPoints ==
  stage = "written" /\ job.cmd = "scan" =>
    LET low == {i \in DOMAIN job.amps : job.amps[i] \in -FIT_MAX_ABS_AMP_MV .. FIT_MAX_ABS_AMP_MV}
    IN  Cardinality(low) = 2 /\ Cardinality({job.amps[i] : i \in low}) = 2 =>
          \A key \in DOMAIN made : \A i \in low :
            Same(made[key].amplitude[i],
                 Plus(Times(made[key].fit.slope, Whole(job.amps[i])), made[key].fit.intercept))

(* A channel is marked because it stands out: of the signal channels at most  *)
(* half are noisy, and at most half have a gain that is out, when both tables *)
(* are of the same channels.                                                  *)
MajorityClean ==
  stage = "written" /\ job.cmd = "merge" /\ DOMAIN job.ped = DOMAIN job.pul =>
    LET signals == Signals(DOMAIN made)
    IN  /\ 2 * Cardinality({key \in signals : made[key].noisy}) <= Cardinality(signals)
        /\ 2 * Cardinality({key \in signals : made[key].gain_out}) <= Cardinality(signals)

(* The tables hold what the recorded frames hold, channel by channel and    *)
(* file by file, can be read again, and mark what stands out (pedestal.rs,  *)
(* pulser.rs, scan.rs, table.rs).                                           *)
TablesSound ==
  /\ CalibTypeOK /\ TablesExact /\ TablesReadBack /\ LaddersAligned
  /\ FitThroughPoints /\ MajorityClean
=============================================================================
