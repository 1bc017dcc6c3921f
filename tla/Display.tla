------------------------------- MODULE Display -------------------------------
(* What the monitor makes of an event and of a histogram snapshot for its     *)
(* clients (src/src/monitor/{display,ws,http,json}.rs): strip planes with the *)
(* cells that zero suppression left out restored from the pedestal table, raw *)
(* waveforms, the last event, histograms.  An event is of two AsAds, which    *)
(* share a strip; a mean is the rounded one of the table.                     *)
EXTENDS Integers, Sequences, FiniteSets, SequencesExt

CONSTANTS
  NBuckets,   \* N_BUCKETS
  PedLo, PedHi,   \* the buckets a pedestal is taken from
  Adc,        \* sample values
  Means       \* pedestal means

(* The geometry: the strip of a channel, 0 for one that has none (FPN).       *)
Asads == 0 .. 1
Chans == [a \in Asads |-> IF a = 0 THEN 0 .. 2 ELSE 0 .. 0]
StripOf(asad, chan) ==
  CASE asad = 0 -> (CASE chan = 0 -> 1 [] chan = 1 -> 2 [] OTHER -> 0)
    [] OTHER -> 1
Strips == 1 .. 2
Bucket == 0 .. NBuckets - 1
U16 == 65535
Missing == -1

VARIABLES
  full,    \* per AsAd: the samples before zero suppression, chan and bucket
  keep,    \* per AsAd: the cells that were read out
  table,   \* per AsAd: the channels in the pedestal table, with their means
  hist     \* a histogram: its axes and its bins

displayVars == <<full, keep, table, hist>>

Cells(asad) == Chans[asad] \X Bucket

(* The items of a fragment, in the order of readout.                          *)
Items(asad, kept) ==
  LET all   == [k \in 1 .. Cardinality(Cells(asad)) |->
                  <<(k - 1) \div NBuckets, (k - 1) % NBuckets>>]
      order == SelectSeq(all, LAMBDA c : c \in kept[asad])
  IN  [i \in DOMAIN order |-> [chan |-> order[i][1], bucket |-> order[i][2],
                               adc |-> full[asad][order[i]]]]

-----------------------------------------------------------------------------
(* looks_zero_suppressed: more than half of the channels with samples lack    *)
(* some in the pedestal window.                                               *)
LooksZeroSuppressed(asad, items) ==
  LET Has(ch) == \E i \in DOMAIN items : items[i].chan = ch
      InWindow(ch) == Cardinality({i \in DOMAIN items : items[i].chan = ch
                                     /\ items[i].bucket \in PedLo .. PedHi})
      with  == {ch \in Chans[asad] : Has(ch)}
      short == {ch \in with : InWindow(ch) < PedHi - PedLo + 1}
  IN  2 * Cardinality(short) > Cardinality(with)

ClampU16(n) == IF n < 0 THEN 0 ELSE IF n > U16 THEN U16 ELSE n

EmptyGrid == [c \in Strips \X Bucket |-> 0]

(* with_pedestal_table, base: the means of the channels of each strip.        *)
Base(asad, strip) ==
  LET of == {ch \in Chans[asad] : StripOf(asad, ch) = strip /\ table[asad][ch] # Missing}
      sum[S \in SUBSET of] == IF S = {} THEN 0
                              ELSE LET ch == CHOOSE x \in S : TRUE
                                   IN  table[asad][ch] + sum[S \ {ch}]
  IN  sum[of]

(* add_base                                                                   *)
AddBase(asad, grid) == [c \in DOMAIN grid |-> ClampU16(grid[c] + Base(asad, c[1]))]

(* What an item adds to its cell; below -U16: nothing, the table lacks it.    *)
Delta(asad, item, restoring) ==
  IF ~restoring THEN item.adc
  ELSE IF table[asad][item.chan] = Missing THEN Missing - U16
  ELSE item.adc - table[asad][item.chan]

(* accumulate_uvw, one item.                                                  *)
AddItem(asad, grid, item, restoring) ==
  LET strip == StripOf(asad, item.chan)
      delta == Delta(asad, item, restoring)
  IN  IF strip \notin Strips \/ delta < -U16 THEN grid
      ELSE [grid EXCEPT ![<<strip, item.bucket>>] = ClampU16(@ + delta)]

(* accumulate_uvw: a fragment that looks zero suppressed starts from the base *)
(* of its AsAd; zs_restore_index: there is a table.                           *)
AccumulateUvw(asad, grid, items) ==
  LET restoring == LooksZeroSuppressed(asad, items)
      added[i \in 0 .. Len(items)] ==
        IF i = 0 THEN (IF restoring THEN AddBase(asad, grid) ELSE grid)
        ELSE AddItem(asad, added[i - 1], items[i], restoring)
  IN  added[Len(items)]

(* DisplayConverter::uvw: a clean grid, fragment by fragment.                 *)
Uvw(kept) == AccumulateUvw(1, AccumulateUvw(0, EmptyGrid, Items(0, kept)), Items(1, kept))

(* count_table_missing: channels with samples and a strip and no mean.        *)
TableMissing(asad, items) ==
  IF ~LooksZeroSuppressed(asad, items) THEN {}
  ELSE {ch \in Chans[asad] : /\ table[asad][ch] = Missing /\ StripOf(asad, ch) \in Strips
                             /\ \E i \in DOMAIN items : items[i].chan = ch}

(* waveforms, last_event_json: the raw samples of one AsAd, the last one of a *)
(* cell, and what stands for none.                                            *)
RawGrid(asad, items, none) ==
  LET Of(c) == {i \in DOMAIN items : <<items[i].chan, items[i].bucket>> = c}
  IN  [c \in Cells(asad) |-> IF Of(c) = {} THEN none ELSE items[CHOOSE i \in Of(c) :
                                                              \A j \in Of(c) : j <= i].adc]

LastEventGrid(asad, items) == RawGrid(asad, items, -1)
Waveforms(asad, items) == RawGrid(asad, items, 0)

-----------------------------------------------------------------------------
(* HistPayload::is_consistent                                                 *)
IsConsistent(h) == Len(h.bins) = h.nx * h.ny

(* ws::histo2d: sent row by row, while they come column by column.            *)
Histo2D(h) ==
  [k \in 1 .. h.nx * h.ny |-> LET iy == (k - 1) \div h.nx
                                  ix == (k - 1) % h.nx
                              IN  h.bins[ix * h.ny + iy + 1]]

(* DisplayConverter::histos                                                   *)
Histos(h) ==
  IF ~IsConsistent(h) THEN << >>
  ELSE IF h.ny > 1 THEN <<[type |-> "histo2d", nx |-> h.nx, bins |-> Histo2D(h)]>>
  ELSE <<[type |-> "histo1d", nx |-> Len(h.bins), bins |-> h.bins]>>

-----------------------------------------------------------------------------
(* An event with any samples of two values, of which any cells were kept.     *)
DisplayInit ==
  /\ hist \in {[nx |-> x, ny |-> y, bins |-> [i \in 1 .. n |-> i]] :
                 x \in 1 .. 3, y \in 1 .. 3, n \in {1, 3, 6, 9}}
  /\ full = [a \in Asads |-> [c \in Cells(a) |-> 0]]
  /\ keep = [a \in Asads |-> {}]
  /\ table = [a \in Asads |-> [ch \in Chans[a] |-> Missing]]

NextEvent ==
  /\ hist.nx = 1 /\ hist.ny = 1 /\ hist.bins = <<1>>
  /\ keep = [a \in Asads |-> {}]
  /\ \E high \in SUBSET Cells(0), m0, m1 \in Means \cup {Missing}, a1, mean1 \in Adc,
        rest \in BOOLEAN :
       /\ table' = [a \in Asads |-> IF a = 0 THEN (0 :> m0 @@ 1 :> m1 @@ 2 :> Missing)
                                    ELSE (0 :> mean1)]
       /\ full' = [a \in Asads |-> [c \in Cells(a) |->
                     IF a = 1 THEN a1
                     ELSE IF c \in high THEN 9
                     ELSE IF table'[0][c[1]] = Missing THEN 0 ELSE table'[0][c[1]]]]
       /\ keep' = [a \in Asads |-> IF a = 1 THEN Cells(1)
                                   ELSE IF rest THEN Cells(0) ELSE high]
  /\ UNCHANGED hist

DisplayNext == NextEvent

-----------------------------------------------------------------------------
Shown == \E a \in Asads : keep[a] # {}
InTable(asad) == \A ch \in Chans[asad] : StripOf(asad, ch) \in Strips => table[asad][ch] # Missing

(* Zero suppression does not show: when what was left out is what the table   *)
(* says and the fragment is seen to be suppressed, the planes are those of    *)
(* the full readout, also where another AsAd adds to the same strip; and a    *)
(* full readout is never taken for a suppressed one.                          *)
SuppressionInvisible ==
  Shown =>
  LET all == [a \in Asads |-> Cells(a)]
  IN  /\ \A a \in Asads : ~LooksZeroSuppressed(a, Items(a, all))
      /\ InTable(0) /\ LooksZeroSuppressed(0, Items(0, keep)) => Uvw(keep) = Uvw(all)

(* A channel the table lacks adds nothing to a restored plane, and is         *)
(* counted; every other one shows its sample, or its mean (accumulate_uvw).   *)
RestoredCells ==
  Shown =>
  LET items == Items(0, keep)
      gone  == TableMissing(0, items)
  IN  LooksZeroSuppressed(0, items) =>
        \A ch \in 0 .. 1, b \in Bucket :
          LET other == IF StripOf(0, ch) = 1 THEN full[1][<<0, b>>] ELSE 0
              own   == CASE table[0][ch] = Missing -> 0
                         [] <<ch, b>> \in keep[0] -> full[0][<<ch, b>>]
                         [] OTHER -> table[0][ch]
          IN  /\ Uvw(keep)[<<StripOf(0, ch), b>>] = own + other
              /\ ch \in gone <=> table[0][ch] = Missing /\ \E k \in keep[0] : k[1] = ch

(* The waveform of a cell is its raw sample; the last event tells a cell that *)
(* was not read out from one that read 0 (http.rs: -1).                       *)
RawIsRaw ==
  Shown =>
  \A a \in Asads : \A c \in Cells(a) :
    /\ LastEventGrid(a, Items(a, keep))[c] = IF c \in keep[a] THEN full[a][c] ELSE -1
    /\ Waveforms(a, Items(a, keep))[c] = IF c \in keep[a] THEN full[a][c] ELSE 0

(* Bin (ix, iy) of a histogram, which root-sink sends column by column, is    *)
(* where the client looks for it, row by row; a histogram with the wrong      *)
(* number of bins is not sent (ws::histo2d, is_consistent).                   *)
HistoBinsInPlace ==
  LET sent == Histos(hist)
  IN  IF Len(hist.bins) # hist.nx * hist.ny THEN sent = << >>
      ELSE /\ (sent[1].type = "histo2d") = (hist.ny > 1)
           /\ \A ix \in 0 .. hist.nx - 1, iy \in 0 .. hist.ny - 1 :
                sent[1].bins[iy * hist.nx + ix + 1] = hist.bins[ix * hist.ny + iy + 1]

(* What is shown is what was recorded: zero suppression, missing table      *)
(* entries and the layout of histograms change nothing that they should not *)
(* (display.rs, ws.rs).                                                     *)
ShownSound == SuppressionInvisible /\ RestoredCells /\ RawIsRaw /\ HistoBinsInPlace
=============================================================================
