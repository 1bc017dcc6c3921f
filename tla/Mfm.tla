--------------------------------- MODULE Mfm ---------------------------------
(* MFM framing and decoding: Framer (src/src/framer.rs) cuts a CoBo byte       *)
(* stream, read in arbitrary chunks, into frames; Decoder (src/src/decode.rs)  *)
(* turns one frame into a Fragment; src/src/msg.rs packs samples into 32 bits. *)
(* Bytes are numbers; a frame to decode is the record of the fields its header *)
(* holds.  The 68 channels and 512 buckets of an AGET are scaled down.         *)
EXTENDS Integers, Sequences, FiniteSets, SequencesExt, FiniteSetsExt

CONSTANTS
  MaxFrameBytes,  \* max_frame_bytes
  RawCh,          \* RAW_CH_PER_AGET (68)
  ItemBucketMax,  \* ITEM_BUCKET_MAX (511); COMPACT_BUCKETS is one more
  Streams,        \* what a CoBo may send: sequences of frames
  MaxItems        \* bound: items of a frame to decode

ASSUME MfmAssumption ==
  /\ MaxFrameBytes \in Nat /\ MaxFrameBytes >= 8
  /\ RawCh \in 1 .. 68 /\ ItemBucketMax \in 0 .. 511
  /\ MaxItems \in Nat

Header == 8       \* PRIMARY_HEADER_SIZE
HeaderMin == 88   \* HEADER_MIN_BYTES
Aget == 0 .. 3
None == -1         \* Option::None of a number
NoWord == << >>    \* a field that does not fit its bits

Byte == 0 .. 255

(* Mutant: the size is always read in network order.                           *)
ParseFrameSize_Big(h) ==
  LET n == (65536 * h[2] + 256 * h[3] + h[4]) * 2 ^ (h[1] % 16)
  IN  IF n < Header THEN None ELSE n

(* parse_frame_size: bit 7 of byte 0 is the byte order, its low four bits the  *)
(* binary logarithm of the block size, bytes 1 to 3 the number of blocks.      *)
ParseFrameSize(h) ==
  LET blocks == IF h[1] >= 128 THEN h[2] + 256 * h[3] + 65536 * h[4]
                               ELSE 65536 * h[2] + 256 * h[3] + h[4]
      n == blocks * 2 ^ (h[1] % 16)
  IN  IF n < Header THEN None ELSE n

(* The header of the MFM format announces n bytes: a number of blocks, as the  *)
(* CoBo writes it into bytes 1 to 3.                                           *)
Announces(f, n) ==
  \E blocks \in 0 .. n :
    LET low == blocks % 256  mid == (blocks \div 256) % 256  high == blocks \div 65536
    IN  /\ n = blocks * 2 ^ (f[1] % 16)
        /\ f[3] = mid
        /\ f[1] >= 128 => f[2] = low /\ f[4] = high
        /\ f[1] < 128 => f[2] = high /\ f[4] = low

(* A frame that is as long as its header announces, and one whose header       *)
(* announces less than a header or more than the limit.                        *)
Plausible(f) == Announces(f, Len(f)) /\ Len(f) <= MaxFrameBytes
Implausible(f) == \A n \in Header .. MaxFrameBytes : ~Announces(f, n)

(* A CoBo sends frames of one kind and, when it fails, of the other, in any    *)
(* order.                                                                      *)
ASSUME StreamsAssumption ==
  \A fs \in Streams :
    /\ fs \in Seq(Seq(Byte))
    /\ \A i \in DOMAIN fs : Len(fs[i]) >= Header /\ (Plausible(fs[i]) \/ Implausible(fs[i]))

-----------------------------------------------------------------------------
(* decode.rs                                                                   *)
PeekAsad(f) == IF f.len < 28 \/ f.type \notin {1, 2} THEN None ELSE f.asad

PeekEventIdx(f) == IF f.len < 28 \/ f.type \notin {1, 2} THEN None ELSE f.event

ParseTopology(f) == IF f.len < 12 \/ f.type # 7 THEN None ELSE f.topology

(* pack_item: the bytes of the word, least significant first, or NoWord when a *)
(* field does not fit.                                                         *)
PackItem(it) ==
  IF it.aget > 3 \/ it.chan > 127 \/ it.bucket > ItemBucketMax \/ it.adc > 4095
    THEN NoWord
    ELSE LET hi == it.aget * 2 ^ 14 + it.chan * 2 ^ 7 + it.bucket \div 4
             lo == (it.bucket % 4) * 2 ^ 14 + it.adc
         IN  <<lo % 256, lo \div 256, hi % 256, hi \div 256>>

(* unpack_item: shifts and masks; the reserved bits 12 and 13 are ignored.     *)
UnpackItem(w) ==
  LET lo == w[1] + 256 * w[2]  hi == w[3] + 256 * w[4]
  IN  [aget |-> hi \div 2 ^ 14, chan |-> (hi \div 2 ^ 7) % 128,
       bucket |-> 4 * (hi % 128) + lo \div 2 ^ 14, adc |-> lo % 4096]

(* Mutant: the cursor leaves a bucket one channel late.                        *)
PlaceCompact_Late(acc, it) ==
  LET a == it.aget
      c == IF acc.chan[a] > RawCh
             THEN [acc EXCEPT !.chan[a] = 0, !.buck[a] = @ + 1] ELSE acc
      w == PackItem([aget |-> a, chan |-> c.chan[a], bucket |-> c.buck[a], adc |-> it.adc])
  IN  [c EXCEPT !.out = Append(@, w),
                !.chan[a] = @ + 1]

(* decode_items.  An item of type 1 names its cell; items of type 2 are placed *)
(* by one cursor per AGET that runs over the channels of a bucket.             *)
PlaceCompact(acc, it) ==
  LET a == it.aget
      c == IF acc.chan[a] >= RawCh
             THEN [acc EXCEPT !.chan[a] = 0, !.buck[a] = @ + 1] ELSE acc
      w == PackItem([aget |-> a, chan |-> c.chan[a], bucket |-> c.buck[a], adc |-> it.adc])
  IN  [c EXCEPT !.out = Append(@, w),
                !.chan[a] = @ + 1]

DecodeItems(type, items) ==
  IF type = 1
    THEN [i \in DOMAIN items |-> PackItem(items[i])]
    ELSE FoldLeft(PlaceCompact,
                  [chan |-> [a \in Aget |-> 0], buck |-> [a \in Aget |-> 0], out |-> << >>],
                  items).out

(* Decoder::decode: the class a frame is counted in, with its packed items.    *)
DecodeMfm(f) ==
  LET expected == IF f.type = 1 THEN 4 ELSE 2
      items == DecodeItems(f.type, f.items)
  IN  CASE f.len < Header -> [class |-> "malformed", items |-> << >>]
        [] f.len >= Header /\ f.type \notin {1, 2} -> [class |-> "unsupported", items |-> << >>]
        [] f.len >= Header /\ f.type \in {1, 2} ->
             IF \/ f.len < HeaderMin
                \/ f.item_size # expected \/ f.item_start < HeaderMin
                \/ f.item_start + f.item_count * f.item_size > f.len
                \/ NoWord \in ToSet(items)
               THEN [class |-> "malformed", items |-> << >>]
               ELSE [class |-> "frames", items |-> items]

(* The size check of a decoded compact frame.                                  *)
SizeMismatch(f) ==
  LET per_aget == RawCh * (ItemBucketMax + 1)
  IN  f.item_count = 0 \/ f.item_count % per_aget # 0 \/ f.item_count \div per_aget > 4

Count(counters, f) ==
  LET d == DecodeMfm(f)
      ok == d.class = "frames"
      add(n, b) == IF b THEN n + 1 ELSE n
  IN  [counters EXCEPT
         ![d.class] = @ + 1, !.items = @ + Len(d.items),
         !.topology = add(@, d.class = "unsupported" /\ f.type = 7),
         !.type1 = add(@, ok /\ f.type = 1), !.type2 = add(@, ok /\ f.type = 2),
         !.mismatch = add(@, ok /\ f.type = 2 /\ SizeMismatch(f))]

-----------------------------------------------------------------------------
VARIABLES
  sentFrames,  \* the frames the CoBo sends
  got,      \* bytes of it that were read from the socket
  framer,   \* buf, head, reset_count; lost = bytes dropped by reset (history)
  reading,  \* the drain loop after a push has ended
  emitted,  \* the frames next returned
  frame,    \* the frame decoded last
  counters  \* the Decoder's counters

mfmVars == <<sentFrames, got, framer, reading, emitted, frame, counters>>

Stream == FlattenSeq(sentFrames)

NoFrame == [len |-> 0, type |-> 0, item_start |-> 0, item_size |-> 0, item_count |-> 0,
            asad |-> 0, event |-> 0, topology |-> 0, items |-> << >>]

MfmInit ==
  /\ sentFrames \in Streams
  /\ got = 0
  /\ framer = [buf |-> << >>, head |-> 0, reset_count |-> 0, lost |-> 0]
  /\ reading = TRUE
  /\ emitted = << >>
  /\ frame = NoFrame
  /\ counters = [c \in {"frames", "malformed", "unsupported", "topology", "items",
                        "type1", "type2", "mismatch"} |-> 0]

(* Framer::push of the n bytes of one read; compact first drops what next has  *)
(* consumed.                                                                   *)
Push(n) ==
  /\ reading
  /\ framer' = [framer EXCEPT
                  !.buf = SubSeq(framer.buf, framer.head + 1, Len(framer.buf))
                          \o SubSeq(Stream, got + 1, got + n),
                  !.head = 0]
  /\ got' = got + n
  /\ reading' = FALSE
  /\ UNCHANGED <<sentFrames, emitted, frame, counters>>

(* Framer::next, called by the reader thread until it returns None.  A header  *)
(* that is not plausible clears the whole buffer.                              *)
Avail == Len(framer.buf) - framer.head

Size == ParseFrameSize(SubSeq(framer.buf, framer.head + 1, framer.head + Header))

Broken == Avail >= Header /\ (Size = None \/ Size > MaxFrameBytes)

NextNone ==
  /\ ~reading
  /\ ~Broken
  /\ Avail >= Header => Avail < Size
  /\ reading' = TRUE
  /\ UNCHANGED <<sentFrames, got, framer, emitted, frame, counters>>

NextReset ==
  /\ ~reading /\ Broken
  /\ framer' = [buf |-> << >>, head |-> 0, reset_count |-> framer.reset_count + 1,
                lost |-> framer.lost + Avail]
  /\ reading' = TRUE
  /\ UNCHANGED <<sentFrames, got, emitted, frame, counters>>

NextFrame ==
  /\ ~reading /\ ~Broken /\ Avail >= Header
  /\ Avail >= Size
  /\ emitted' = Append(emitted, SubSeq(framer.buf, framer.head + 1, framer.head + Size))
  /\ framer' = [framer EXCEPT !.head = @ + Size]
  /\ UNCHANGED <<sentFrames, got, reading, frame, counters>>

(* A frame is decoded.  The frames are those of every class the code tells     *)
(* apart: each length at which a check bites, and the items of each AGET in    *)
(* any order.                                                                  *)
Compact == UNION {[1 .. n -> [aget : {0, 1}, adc : {7}]] : n \in 0 .. MaxItems}
Partial == UNION {[1 .. n -> [aget : {0, 3}, chan : {0, 127}, bucket : {0, ItemBucketMax},
                              adc : {0, 4095}]] : n \in 0 .. 2}

Decode ==
  \E type \in {1, 2, 7}, short \in {0, 1}, start \in {HeaderMin - 8, HeaderMin}, size \in {2, 4} :
    \E items \in CASE type = 1 -> Partial [] type = 2 -> Compact [] OTHER -> {<< >>} :
      \E len \in {7, 12, 28, 87, start + size * Len(items) - short} :
        LET f == [len |-> len, type |-> type, item_start |-> start, item_size |-> size,
                  item_count |-> Len(items), asad |-> 2, event |-> 5, topology |-> 15,
                  items |-> items]
        IN  frame' = f /\ counters' = Count(counters, f)
  /\ UNCHANGED <<sentFrames, got, framer, reading, emitted>>

(* The framer runs over every stream; frames are decoded apart from it.        *)
MfmNext ==
  \/ reading /\ \E n \in 1 .. Len(Stream) - got : Push(n)
  \/ NextNone \/ NextReset \/ NextFrame
  \/ got = 0 /\ frame = NoFrame /\ sentFrames = (CHOOSE fs \in Streams : TRUE) /\ Decode

MfmSpec == MfmInit /\ [][MfmNext]_mfmVars

-----------------------------------------------------------------------------
MfmTypeOK ==
  /\ sentFrames \in Streams
  /\ got \in 0 .. Len(Stream)
  /\ framer.head \in 0 .. Len(framer.buf)
  /\ framer.reset_count \in Nat /\ framer.lost \in Nat
  /\ reading \in BOOLEAN

(* The first k frames are plausible and were read.                             *)
Came(k) ==
  /\ \A i \in 1 .. k : Plausible(sentFrames[i])
  /\ Len(FlattenSeq(SubSeq(sentFrames, 1, k))) <= got

(* However the stream is cut into reads, once a read is drained the frames     *)
(* that arrived whole before the first implausible header have come out, in    *)
(* order and byte for byte (Framer::push, next, compact); nothing else has     *)
(* unless a header was implausible, and that is counted.                       *)
FramesExact ==
  reading =>
    /\ \A k \in 0 .. Len(sentFrames) : Came(k) => IsPrefix(SubSeq(sentFrames, 1, k), emitted)
    /\ framer.reset_count = 0 =>
         \E k \in 0 .. Len(sentFrames) : Came(k) /\ emitted = SubSeq(sentFrames, 1, k)

(* Every byte read is in a returned frame, still buffered, or was dropped by a *)
(* counted reset; what stays buffered between reads is less than one frame, so *)
(* a stream of any length is framed in bounded memory.                         *)
BytesAccounted ==
  /\ got = Len(FlattenSeq(emitted)) + framer.lost + Avail
  /\ (framer.lost > 0) = (framer.reset_count > 0)
  /\ reading => Avail < MaxFrameBytes

(* A frame that decodes is routed by the graw-writer to an AsAd file           *)
(* (peek_asad), its samples survive packing, and no cell of it is filled       *)
(* twice: the k-th compact sample of an AGET is channel k mod 68 of bucket     *)
(* k div 68 however the AGETs interleave.  A compact frame that is not made of *)
(* whole AGETs is counted.                                                     *)
SamplesInPlace ==
  LET d == DecodeMfm(frame)
      cells == [i \in DOMAIN d.items |-> UnpackItem(d.items[i])]
      rank(i) == Cardinality({j \in 1 .. i - 1 : frame.items[j].aget = frame.items[i].aget})
  IN  d.class = "frames" =>
        /\ PeekAsad(frame) = frame.asad /\ PeekEventIdx(frame) = frame.event
        /\ ParseTopology(frame) = None
        /\ counters.items = Len(frame.items) /\ Len(cells) = Len(frame.items)
        /\ frame.type = 1 => cells = frame.items
        /\ frame.type = 2 =>
             \A i \in DOMAIN cells :
                cells[i] = [aget |-> frame.items[i].aget, adc |-> frame.items[i].adc,
                            chan |-> rank(i) % RawCh, bucket |-> rank(i) \div RawCh]
        /\ (counters.mismatch = 1)
             = (frame.type = 2 /\ Len(cells) \notin {k * RawCh * (ItemBucketMax + 1) : k \in 1 .. 4})

(* Every frame comes out however the stream was cut, and every byte is         *)
(* accounted for (Framer).                                                     *)
FramingSound == MfmTypeOK /\ FramesExact /\ BytesAccounted
==============================================================================
