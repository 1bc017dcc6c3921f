-------------------------- MODULE GrawWriterProofs --------------------------
(* Proofs about the graw-writer: its inductive invariant, the properties of   *)
(* its files and of their closing, and that it implements Archive.            *)
EXTENDS GrawWriter, SequenceFacts

(* An open file, and what is reported of a closed one.                        *)
FileType == [open : BOOLEAN, idx : Nat, data : Seq(Frame), torn : BOOLEAN]

(* A closed file: what finish reports of it and whether its fsync went        *)
(* through.                                                                   *)
ReportType == [idx : Nat, data : Seq(Frame), torn : BOOLEAN, synced : BOOLEAN]

(* The state of the writer of one run.                                        *)
WriterType ==
  [files : [Keys -> FileType], closed : [Keys -> Seq(ReportType)],
   next_seq : [Expected -> Nat], seq_gaps : Nat, run_mismatches : Nat, ctrl_frames : Nat,
   write_errors : Nat, unexpected_sources : Nat, decode_errors : Nat, heartbeats_in : Nat,
   errored : BOOLEAN, going : BOOLEAN]

(* One step of picking the frames of run r and key k out of fs.               *)
MineStep(r, k, fs) ==
  [p \in Seq(Frame) \X (Nat \ {0}) |->
     IF p[2] \in 1 .. Len(fs) /\ fs[p[2]].key = k /\ fs[p[2]].run = r
     THEN Append(p[1], fs[p[2]]) ELSE p[1]]

(* s, with f at its end when f is a frame of run r and key k.                 *)
Keep(r, k, f, s) == IF f.key = k /\ f.run = r THEN Append(s, f) ELSE s

(* Mine goes through the frames from the left.                                *)
LEMMA MineFollows ==
  ASSUME NEW r, NEW k, NEW fs \in Seq(Frame)
  PROVE  \E g \in [0 .. Len(fs) -> Seq(Frame)] :
           /\ Follows(g, Len(fs), << >>, MineStep(r, k, fs))
           /\ Abstract!Mine(r, k, fs) = g[Len(fs)]
<1> DEFINE n == Len(fs)
           step == MineStep(r, k, fs)
           e == << >>
<1>0. n \in Nat
  OBVIOUS
<1>1. \A j \in 1 .. n : fs[j] \in Frame
  OBVIOUS
<1>2. step \in [Seq(Frame) \X (Nat \ {0}) -> Seq(Frame)]
  <2> HIDE DEF n
  <2> SUFFICES ASSUME NEW p \in Seq(Frame) \X (Nat \ {0})
               PROVE  (IF p[2] \in 1 .. n /\ fs[p[2]].key = k /\ fs[p[2]].run = r
                       THEN Append(p[1], fs[p[2]]) ELSE p[1]) \in Seq(Frame)
    BY DEF MineStep, n
  <2> QED
    BY <1>1
<1>3. e \in Seq(Frame)
  OBVIOUS
<1>4. PICK g \in [0 .. n -> Seq(Frame)] : Follows(g, n, e, step)
  <2> HIDE DEF step, n, e
  <2> QED
    BY <1>0, <1>2, <1>3, Recursion
<1>5. ASSUME NEW j \in 1 .. n
      PROVE  g[j] = Keep(r, k, fs[j], g[j - 1])
  <2>1. j - 1 \in 0 .. n /\ j \in Nat \ {0}
    <3> HIDE DEF n
    <3> QED
      BY <1>0
  <2>2. g[j - 1] \in Seq(Frame)
    BY <2>1
  <2>3. step[<<g[j - 1], j>>] = Keep(r, k, fs[j], g[j - 1])
    BY <2>1, <2>2 DEF MineStep, Keep
  <2> HIDE DEF step
  <2> QED
    BY <1>4, <2>3 DEF Follows
<1>6. Abstract!Mine(r, k, fs) = g[n]
  <2> DEFINE F(f) == [j \in 0 .. n |->
                        IF j = 0 THEN << >>
                        ELSE IF fs[j].key = k /\ fs[j].run = r THEN Append(f[j - 1], fs[j])
                        ELSE f[j - 1]]
             c == CHOOSE f : f = F(f)
  <2>1. ASSUME NEW j \in 1 .. n, NEW f PROVE F(f)[j] = Keep(r, k, fs[j], f[j - 1])
    <3>1. j \in 0 .. n /\ j # 0
      <4> HIDE DEF n
      <4> QED
        BY <1>0
    <3> QED
      BY <3>1 DEF Keep
  <2>2. ASSUME NEW f PROVE F(f)[0] = << >>
    <3>1. 0 \in 0 .. n
      <4> HIDE DEF n
      <4> QED
        BY <1>0
    <3> QED
      BY <3>1
  <2>3. \A f : F(f) = [j \in 0 .. n |-> F(f)[j]]
    OBVIOUS
  <2>4. Abstract!Mine(r, k, fs) = c[n]
    BY DEF Abstract!Mine
  <2> HIDE DEF F, n
  <2>5. g = F(g)
    <3>1. \A j \in 0 .. n : g[j] = F(g)[j]
      <4> SUFFICES ASSUME NEW j \in 0 .. n PROVE g[j] = F(g)[j]
        OBVIOUS
      <4>1. CASE j = 0
        BY <1>4, <2>2, <4>1 DEF Follows
      <4>2. CASE j # 0
        <5>1. j \in 1 .. n
          BY <1>0, <4>2
        <5> QED
          BY <1>5, <2>1, <5>1
      <4> QED
        BY <4>1, <4>2
    <3> QED
      BY <2>3, <3>1
  <2>6. c = F(c)
    BY <2>5
  <2> HIDE DEF c
  <2> DEFINE T == {m \in Nat : m <= n => c[m] = g[m]}
  <2>7. 0 \in T
    <3>1. c[0] = g[0]
      BY <1>4, <2>2, <2>6 DEF Follows
    <3> QED
      BY <3>1
  <2>8. ASSUME NEW m \in Nat, m \in T PROVE m + 1 \in T
    <3> SUFFICES ASSUME m + 1 <= n PROVE c[m + 1] = g[m + 1]
      OBVIOUS
    <3>1. c[m] = g[m] /\ m + 1 \in 1 .. n /\ (m + 1) - 1 = m
      BY <1>0, <2>8
    <3>2. c[m + 1] = Keep(r, k, fs[m + 1], c[m])
      BY <2>1, <2>6, <3>1
    <3>3. g[m + 1] = Keep(r, k, fs[m + 1], g[m])
      BY <1>5, <3>1
    <3> QED
      BY <3>1, <3>2, <3>3
  <2>9. Nat \subseteq T
    <3> HIDE DEF T
    <3> QED
      BY <2>7, <2>8, NatSetInduction
  <2>10. n \in T
    BY <1>0, <2>9
  <2> QED
    BY <1>0, <2>4, <2>10
<1> QED
  BY <1>4, <1>6

(* Mine looks at the frames one by one.                                       *)
LEMMA MineAppend ==
  ASSUME NEW r, NEW k, NEW fs \in Seq(Frame), NEW f \in Frame
  PROVE  /\ Abstract!Mine(r, k, fs) \in Seq(Frame)
         /\ Abstract!Mine(r, k, Append(fs, f)) = Keep(r, k, f, Abstract!Mine(r, k, fs))
<1> DEFINE n == Len(fs)
           gs == Append(fs, f)
           e == << >>
           st == MineStep(r, k, fs)
<1>0. n \in Nat
  OBVIOUS
<1>1. /\ gs \in Seq(Frame) /\ Len(gs) = n + 1
      /\ \A j \in 1 .. n : gs[j] = fs[j]
      /\ gs[n + 1] = f
  OBVIOUS
<1>2. PICK g \in [0 .. n -> Seq(Frame)] :
        Follows(g, n, e, st) /\ Abstract!Mine(r, k, fs) = g[n]
  BY MineFollows
<1>3. PICK h \in [0 .. n + 1 -> Seq(Frame)] :
        Follows(h, n + 1, e, MineStep(r, k, gs)) /\ Abstract!Mine(r, k, gs) = h[n + 1]
  <2> HIDE DEF gs, n
  <2>1. \E h \in [0 .. Len(gs) -> Seq(Frame)] :
           Follows(h, Len(gs), e, MineStep(r, k, gs)) /\ Abstract!Mine(r, k, gs) = h[Len(gs)]
    BY <1>1, MineFollows
  <2> QED
    BY <1>1, <2>1
<1> HIDE DEF gs, n
<1>4. ASSUME NEW j \in 1 .. n + 1
      PROVE  h[j] = Keep(r, k, gs[j], h[j - 1])
  <2>1. j - 1 \in 0 .. n + 1 /\ j \in Nat \ {0} /\ j \in 1 .. n + 1
    BY <1>0
  <2>2. h[j - 1] \in Seq(Frame) /\ Len(gs) = n + 1
    BY <1>1, <2>1
  <2>3. MineStep(r, k, gs)[<<h[j - 1], j>>] = Keep(r, k, gs[j], h[j - 1])
    BY <2>1, <2>2 DEF MineStep, Keep
  <2> QED
    BY <1>3, <2>3 DEF Follows
<1>5. ASSUME NEW j \in 1 .. n PROVE h[j] = st[<<h[j - 1], j>>]
  <2>1. j - 1 \in 0 .. n + 1 /\ j \in Nat \ {0} /\ j \in 1 .. n + 1
    BY <1>0
  <2>2. h[j - 1] \in Seq(Frame) /\ j \in 1 .. Len(fs)
    BY <2>1 DEF n
  <2>3. st[<<h[j - 1], j>>] = Keep(r, k, fs[j], h[j - 1])
    BY <2>1, <2>2 DEF MineStep, Keep
  <2>4. gs[j] = fs[j]
    BY <1>1
  <2> QED
    BY <1>4, <2>1, <2>3, <2>4
<1> HIDE DEF st, e
<1>6. Follows(h, n, e, st)
  BY <1>3, <1>5 DEF Follows
<1>7. h[n] = g[n]
  <2>1. Agree(g, h, n)
    BY <1>0, <1>2, <1>6, RecursionUnique
  <2> QED
    BY <1>0, <2>1 DEF Agree
<1>8. h[n + 1] = Keep(r, k, f, h[n]) /\ g[n] \in Seq(Frame)
  <2>1. n + 1 \in 1 .. n + 1 /\ (n + 1) - 1 = n /\ n \in 0 .. n
    BY <1>0
  <2>2. gs[n + 1] = f
    BY <1>1
  <2> QED
    BY <1>4, <2>1, <2>2
<1> QED
  BY <1>2, <1>3, <1>7, <1>8 DEF gs

(* Out of no frames nothing is picked.                                        *)
LEMMA MineEmpty ==
  ASSUME NEW r, NEW k
  PROVE  Abstract!Mine(r, k, << >>) = << >>
<1> DEFINE fs == << >>
<1>1. fs \in Seq(Frame) /\ Len(fs) = 0
  OBVIOUS
<1>2. PICK g : /\ Follows(g, Len(fs), << >>, MineStep(r, k, fs))
               /\ Abstract!Mine(r, k, fs) = g[Len(fs)]
  <2> HIDE DEF fs
  <2> QED
    BY <1>1, MineFollows
<1> HIDE DEF fs
<1>3. Abstract!Mine(r, k, fs) = << >>
  BY <1>1, <1>2 DEF Follows
<1> QED
  BY <1>3 DEF fs

(* What the closed files c and the data d of the open one hold together.      *)
Text(c, d) == FlattenSeq([j \in DOMAIN c |-> c[j].data]) \o d

(* What the files of key k hold, the oldest first.                            *)
Contents(w, k) == Text(w.closed[k], w.files[k].data)

(* The rotation of a key: the files are numbered from 0 without a hole, the   *)
(* open one comes last, and every file but the last is full.                  *)
Layout(c, o) ==
  /\ \A j \in DOMAIN c : c[j].idx = j - 1
  /\ o.open => o.idx = Len(c)
  /\ ~o.open => o = NoFile
  /\ \A j \in DOMAIN c : j < Len(c) \/ o.open => Len(c[j].data) = MaxFileBytes + 1

(* A key never hides a failure: an open file of a going writer is below the   *)
(* limit and not torn, and a torn or unsynced file is counted as a write      *)
(* error.                                                                     *)
Healthy(w, k) ==
  LET c == w.closed[k]
      o == w.files[k]
  IN  /\ w.going /\ o.open => Len(o.data) <= MaxFileBytes /\ ~o.torn
      /\ \A j \in DOMAIN c : c[j].torn \/ ~c[j].synced => w.write_errors > 0
      /\ o.torn => w.write_errors > 0

(* What holds of the files of a key.                                          *)
KeyGood(w, k) == Layout(w.closed[k], w.files[k]) /\ Healthy(w, k)

(* A writer that gave up counted a write error, and a counted write error has *)
(* latched the component (errored).                                           *)
Verdict(w) == /\ ~w.going => w.write_errors > 0
              /\ w.write_errors > 0 => w.errored

(* What holds of the writer of one run, whatever its thread is doing.         *)
WriterGood(w) == w \in WriterType /\ Verdict(w) /\ \A k \in Keys : KeyGood(w, k)

(* Until the thread finalizes, a key without an open file has no file at all. *)
Live(w) == \A k \in Keys : w.going /\ ~w.files[k].open => w.closed[k] = << >>

(* Finalize left no file open.                                                *)
AllClosed(w) == \A k \in Keys : w.files[k] = NoFile

(* The files of a run hold its own frames in the order they were pulled, all  *)
(* of them as long as no write has failed.                                    *)
Streams(i) ==
  \A k \in Keys :
    /\ IsPrefix(Contents(writer[i], k), Abstract!Mine(i, k, pulled[i]))
    /\ writer[i].going = TRUE => Contents(writer[i], k) = Abstract!Mine(i, k, pulled[i])

(* A frame of another run has latched the error of the run that pulled it.    *)
Foreign(i) == \A n \in DOMAIN pulled[i] : pulled[i][n].run # i => writer[i].errored

(* What holds of one run: its writer by itself, its writer against what was   *)
(* pulled, and why its thread left the loop if it did.                        *)
ThreadGood(i) ==
  /\ WriterGood(writer[i])
  /\ thread[i].pc # "done" => Live(writer[i])
  /\ thread[i].pc = "done" => AllClosed(writer[i])
  /\ thread[i].pc \in {"off", "consume"} => writer[i].going = TRUE
  /\ Streams(i) /\ Foreign(i)
  /\ thread[i].eos = ended[i]
  /\ i > starts => thread[i].pc = "off"
  /\ thread[i].pc \in {"finalize", "done"} =>
       thread[i].stop = TRUE \/ writer[i].going = FALSE \/ ended[i] = Expected

(* The types of the variables.                                                *)
GTypes ==
  /\ gw \in [state : States, pull : BOOLEAN, cur : {0} \cup Starts, stop_tx : {0} \cup Starts]
  /\ starts \in 0 .. MaxStarts
  /\ thread \in [Starts -> [pc : {"off", "consume", "finalize", "done"}, stop : BOOLEAN,
                            eos : SUBSET Expected, msgs : Nat]]
  /\ writer \in [Starts -> WriterType]
  /\ pulled \in [Starts -> Seq(Frame)]
  /\ ended \in [Starts -> SUBSET Expected]
  /\ faults \in 0 .. MaxFaults

(* The inductive invariant of the graw-writer.                                *)
GInv == GTypes /\ \A i \in Starts : ThreadGood(i)

(* A failed write touches no file; it counts, latches and gives up.           *)
LEMMA FailedFacts ==
  ASSUME NEW w \in WriterType
  PROVE  /\ Failed(w) \in WriterType
         /\ Failed(w).files = w.files /\ Failed(w).closed = w.closed
         /\ Failed(w).write_errors = w.write_errors + 1
         /\ Failed(w).errored = TRUE /\ Failed(w).going = FALSE
<1> DEFINE c == w.write_errors + 1
<1>1. c \in Nat
  BY DEF WriterType
<1> HIDE DEF c
<1>2. LET u == [w EXCEPT !.write_errors = c, !.errored = TRUE, !.going = FALSE]
      IN  /\ u \in WriterType /\ u.files = w.files /\ u.closed = w.closed
          /\ u.write_errors = c /\ u.errored = TRUE /\ u.going = FALSE
  BY <1>1 DEF WriterType
<1> QED
  BY <1>2 DEF Failed, c

(* Counting a control frame touches no file and no verdict.                   *)
LEMMA CountFacts ==
  ASSUME NEW w \in WriterType, NEW f
  PROVE  /\ CountCtrl(w, f) \in WriterType
         /\ CountCtrl(w, f).files = w.files /\ CountCtrl(w, f).closed = w.closed
         /\ CountCtrl(w, f).write_errors = w.write_errors
         /\ CountCtrl(w, f).errored = w.errored /\ CountCtrl(w, f).going = w.going
<1>1. CASE f.key[2] = "ctrl"
  <2> DEFINE c == w.ctrl_frames + 1
  <2>1. CountCtrl(w, f) = [w EXCEPT !.ctrl_frames = c]
    BY <1>1 DEF CountCtrl
  <2>3. c \in Nat
    BY DEF WriterType
  <2> HIDE DEF c
  <2>2. LET u == [w EXCEPT !.ctrl_frames = c]
        IN  /\ u \in WriterType /\ u.files = w.files /\ u.closed = w.closed
            /\ u.write_errors = w.write_errors
            /\ u.errored = w.errored /\ u.going = w.going
    BY <2>3 DEF WriterType
  <2> QED
    BY <2>1, <2>2
<1>2. CASE f.key[2] # "ctrl"
  BY <1>2 DEF CountCtrl
<1> QED
  BY <1>1, <1>2

(* No file, and a file just created.                                          *)
LEMMA NewFileType ==
  /\ NoFile \in FileType
  /\ NoFile.open = FALSE /\ NoFile.idx = 0 /\ NoFile.data = << >> /\ NoFile.torn = FALSE
  /\ \A n \in Nat : /\ NewFile(n) \in FileType
                     /\ NewFile(n).open = TRUE /\ NewFile(n).idx = n
                     /\ NewFile(n).data = << >> /\ NewFile(n).torn = FALSE
<1>1. NoFile \in FileType
  BY DEF NoFile, FileType
<1>2. NoFile.open = FALSE /\ NoFile.idx = 0 /\ NoFile.data = << >> /\ NoFile.torn = FALSE
  BY DEF NoFile
<1>3. ASSUME NEW n \in Nat
      PROVE  /\ NewFile(n) \in FileType
             /\ NewFile(n).open = TRUE /\ NewFile(n).idx = n
             /\ NewFile(n).data = NoFile.data /\ NewFile(n).torn = NoFile.torn
  BY <1>1 DEF NewFile, FileType
<1> QED
  BY <1>1, <1>2, <1>3

(* Putting an open file in its place changes nothing else.                    *)
LEMMA PutFile ==
  ASSUME NEW w \in WriterType, NEW k \in Keys, NEW o \in FileType
  PROVE  LET u == [w EXCEPT !.files[k] = o]
         IN  /\ u \in WriterType
             /\ u.files = [w.files EXCEPT ![k] = o] /\ u.closed = w.closed
             /\ u.write_errors = w.write_errors
             /\ u.errored = w.errored /\ u.going = w.going
BY DEF WriterType

(* Moving an open file to the closed ones changes nothing else.               *)
LEMMA PutClosed ==
  ASSUME NEW w \in WriterType, NEW k \in Keys, NEW r \in ReportType
  PROVE  LET u == [w EXCEPT !.closed[k] = Append(@, r), !.files[k] = NoFile]
         IN  /\ u \in WriterType
             /\ u.files = [w.files EXCEPT ![k] = NoFile]
             /\ u.closed = [w.closed EXCEPT ![k] = Append(@, r)]
             /\ u.write_errors = w.write_errors
             /\ u.errored = w.errored /\ u.going = w.going
<1> DEFINE c == [w.closed EXCEPT ![k] = Append(@, r)]
           o == [w.files EXCEPT ![k] = NoFile]
<1>1. c \in [Keys -> Seq(ReportType)]
  <2>1. w.closed \in [Keys -> Seq(ReportType)]
    BY DEF WriterType
  <2>2. Append(w.closed[k], r) \in Seq(ReportType)
    BY <2>1
  <2> QED
    BY <2>1, <2>2
<1>2. o \in [Keys -> FileType]
  BY NewFileType DEF WriterType
<1> DEFINE u == [w EXCEPT !.closed[k] = Append(@, r), !.files[k] = NoFile]
<1>3. u = [w EXCEPT !.closed = c, !.files = o]
  BY DEF WriterType
<1> HIDE DEF c, o
<1>4. LET v == [w EXCEPT !.closed = c, !.files = o]
      IN  /\ v \in WriterType /\ v.files = o /\ v.closed = c
          /\ v.write_errors = w.write_errors
          /\ v.errored = w.errored /\ v.going = w.going
  BY <1>1, <1>2 DEF WriterType
<1> QED
  BY <1>3, <1>4 DEF c, o

(* What finish reports of a file.                                             *)
LEMMA ReportFacts ==
  ASSUME NEW w \in WriterType, NEW k \in Keys, NEW b \in BOOLEAN
  PROVE  /\ Report(w, k, b) \in ReportType
         /\ Report(w, k, b).idx = w.files[k].idx /\ Report(w, k, b).data = w.files[k].data
         /\ Report(w, k, b).torn = w.files[k].torn /\ Report(w, k, b).synced = b
<1>1. w.files[k] \in FileType
  BY DEF WriterType
<1> QED
  BY <1>1 DEF Report, ReportType, FileType

(* open_new_file either fails or puts an empty file in place.                 *)
LEMMA OpenFacts ==
  ASSUME NEW w \in WriterType, NEW k \in Keys, NEW n \in Nat, NEW x
  PROVE  LET u == OpenNewFile(w, k, n, x)
         IN  /\ u \in WriterType /\ u.closed = w.closed
             /\ x = "create" => u = Failed(w)
             /\ x # "create" => /\ u.files = [w.files EXCEPT ![k] = NewFile(n)]
                                /\ u.write_errors = w.write_errors
                                /\ u.errored = w.errored /\ u.going = w.going
<1>1. CASE x = "create"
  BY <1>1, FailedFacts DEF OpenNewFile
<1>2. CASE x # "create"
  <2>1. OpenNewFile(w, k, n, x) = [w EXCEPT !.files[k] = NewFile(n)]
    BY <1>2 DEF OpenNewFile
  <2>2. NewFile(n) \in FileType
    BY NewFileType
  <2> QED
    BY <1>2, <2>1, <2>2, PutFile
<1> QED
  BY <1>1, <1>2


(* The closed files of a key, one by one.                                     *)
LEMMA ReportsTyped ==
  ASSUME NEW c \in Seq(ReportType)
  PROVE  \A j \in 1 .. Len(c) : c[j] \in ReportType /\ c[j].data \in Seq(Frame)
<1> TAKE j \in 1 .. Len(c)
<1> DEFINE r == c[j]
<1>1. r \in ReportType
  BY ElementOfSeq
<1> HIDE DEF r
<1>2. r.data \in Seq(Frame)
  BY <1>1 DEF ReportType
<1> QED
  BY <1>1, <1>2 DEF r

(* A frame written to the open file goes to the end of what the files hold.   *)
LEMMA TextGrow ==
  ASSUME NEW c \in Seq(ReportType), NEW d \in Seq(Frame), NEW f \in Frame
  PROVE  /\ Text(c, d) \in Seq(Frame)
         /\ Text(c, Append(d, f)) = Append(Text(c, d), f)
<1> DEFINE ds == [j \in DOMAIN c |-> c[j].data]
           x == FlattenSeq(ds)
<1>1. ds \in Seq(Seq(Frame))
  <2>1. \A j \in 1 .. Len(c) : c[j].data \in Seq(Frame)
    BY ReportsTyped
  <2>2. ds = [j \in 1 .. Len(c) |-> c[j].data] /\ Len(c) \in Nat
    OBVIOUS
  <2> QED
    BY <2>1, <2>2
<1>2. x \in Seq(Frame)
  <2> HIDE DEF ds
  <2>1. << >> \in Seq(Frame)
    OBVIOUS
  <2> QED
    BY <1>1, <2>1, FlattenAppend
<1>3. Text(c, d) = x \o d /\ Text(c, Append(d, f)) = x \o Append(d, f)
  BY DEF Text
<1> HIDE DEF x
<1>4. x \o d \in Seq(Frame) /\ x \o Append(d, f) = Append(x \o d, f)
  BY <1>2
<1> QED
  BY <1>3, <1>4

(* Closing the open file leaves what the files hold together.                 *)
LEMMA TextClose ==
  ASSUME NEW c \in Seq(ReportType), NEW r \in ReportType
  PROVE  Text(Append(c, r), << >>) = Text(c, r.data)
<1> DEFINE ds == [j \in DOMAIN c |-> c[j].data]
           e == Append(c, r)
           es == [j \in DOMAIN e |-> e[j].data]
<1>1. ds \in Seq(Seq(Frame)) /\ r.data \in Seq(Frame)
  <2>1. \A j \in 1 .. Len(c) : c[j].data \in Seq(Frame)
    BY ReportsTyped
  <2>2. ds = [j \in 1 .. Len(c) |-> c[j].data] /\ Len(c) \in Nat
    OBVIOUS
  <2>3. r.data \in Seq(Frame)
    BY DEF ReportType
  <2> QED
    BY <2>1, <2>2, <2>3
<1>2. es = Append(ds, r.data)
  <2> DEFINE n == Len(c)
  <2>1. /\ n \in Nat /\ DOMAIN c = 1 .. n /\ DOMAIN e = 1 .. n + 1
        /\ \A j \in 1 .. n : e[j] = c[j]
        /\ e[n + 1] = r
    BY AppendShape
  <2>2. Len(ds) = n /\ DOMAIN ds = 1 .. n
    <3>1. DOMAIN ds = 1 .. n
      BY <2>1
    <3> HIDE DEF ds, n
    <3> QED
      BY <1>1, <2>1, <3>1
  <2> HIDE DEF e, n
  <2>3. /\ DOMAIN Append(ds, r.data) = 1 .. n + 1
        /\ \A j \in 1 .. n : Append(ds, r.data)[j] = ds[j]
        /\ Append(ds, r.data)[n + 1] = r.data
        /\ Append(ds, r.data) \in Seq(Seq(Frame))
    <3> HIDE DEF ds
    <3>1. Append(ds, r.data) \in Seq(Seq(Frame))
      BY <1>1
    <3> QED
      BY <1>1, <2>2, <3>1, AppendShape
  <2>4. ASSUME NEW j \in 1 .. n + 1 PROVE es[j] = Append(ds, r.data)[j]
    <3>1. CASE j = n + 1
      BY <2>1, <2>3, <3>1
    <3>2. CASE j # n + 1
      <4>1. j \in 1 .. n
        BY <2>1, <3>2
      <4> QED
        BY <2>1, <2>3, <4>1
    <3> QED
      BY <3>1, <3>2
  <2>5. es = [j \in 1 .. n + 1 |-> es[j]]
    BY <2>1
  <2>6. Append(ds, r.data) = [j \in 1 .. n + 1 |-> Append(ds, r.data)[j]]
    <3> DEFINE t == Append(ds, r.data)
    <3>1. t \in Seq(Seq(Frame)) /\ DOMAIN t = 1 .. n + 1
      BY <2>3
    <3> HIDE DEF t
    <3>2. t = [j \in DOMAIN t |-> t[j]]
      BY <3>1
    <3> QED
      BY <3>1, <3>2 DEF t
  <2> HIDE DEF es, ds
  <2> QED
    BY <2>4, <2>5, <2>6
<1> HIDE DEF ds
<1>3. FlattenSeq(es) = FlattenSeq(ds) \o r.data /\ FlattenSeq(ds) \in Seq(Frame)
  BY <1>1, <1>2, FlattenAppend
<1>4. Text(e, << >>) = FlattenSeq(es) \o << >> /\ Text(c, r.data) = FlattenSeq(ds) \o r.data
  BY DEF Text, ds
<1> HIDE DEF es
<1>5. FlattenSeq(es) \in Seq(Frame)
  <2> DEFINE a == FlattenSeq(ds)
             b == r.data
  <2>1. a \in Seq(Frame) /\ b \in Seq(Frame) /\ FlattenSeq(es) = a \o b
    BY <1>1, <1>3
  <2> HIDE DEF a, b
  <2> QED
    BY <2>1
<1>6. FlattenSeq(es) \o << >> = FlattenSeq(es)
  <2> DEFINE a == FlattenSeq(es)
  <2> HIDE DEF a
  <2>1. a \in Seq(Frame)
    BY <1>5 DEF a
  <2>2. a \o << >> = a
    BY <2>1, ConcatEmptySeq
  <2> QED
    BY <2>2 DEF a
<1> QED
  BY <1>3, <1>4, <1>6

(* No file holds nothing.                                                     *)
LEMMA TextEmpty == Text(<< >>, << >>) = << >>
<1>1. [j \in DOMAIN << >> |-> << >>[j].data] = << >>
  OBVIOUS
<1>2. << >> \o << >> = << >>
  OBVIOUS
<1> QED
  BY <1>1, <1>2, FlattenEmpty DEF Text

(* The rotation survives closing a file, and creating the next one when the   *)
(* closed one is full.                                                        *)
LEMMA LayoutClose ==
  ASSUME NEW c \in Seq(ReportType), NEW o \in FileType, Layout(c, o), o.open = TRUE,
         NEW r \in ReportType, r.idx = o.idx, r.data = o.data
  PROVE  /\ Layout(Append(c, r), NoFile)
         /\ Len(o.data) = MaxFileBytes + 1 => Layout(Append(c, r), NewFile(o.idx + 1))
<1> DEFINE n == Len(c)
           e == Append(c, r)
<1>1. /\ n \in Nat /\ DOMAIN c = 1 .. n /\ DOMAIN e = 1 .. n + 1 /\ Len(e) = n + 1
      /\ \A j \in 1 .. n : e[j] = c[j]
      /\ e[n + 1] = r
  BY AppendShape
<1>2. o.idx = n /\ \A j \in 1 .. n : c[j].idx = j - 1 /\ Len(c[j].data) = MaxFileBytes + 1
  BY <1>1 DEF Layout
<1> HIDE DEF n, e
<1>3. ASSUME NEW j \in DOMAIN e PROVE e[j].idx = j - 1
  <2>1. CASE j = n + 1
    BY <1>1, <1>2, <2>1
  <2>2. CASE j # n + 1
    <3>1. j \in 1 .. n
      BY <1>1, <2>2
    <3> QED
      BY <1>1, <1>2, <3>1
  <2> QED
    BY <2>1, <2>2
<1>4. ASSUME NEW j \in DOMAIN e, j < Len(e) PROVE Len(e[j].data) = MaxFileBytes + 1
  <2>1. j \in 1 .. n
    BY <1>1, <1>4
  <2> QED
    BY <1>1, <1>2, <2>1
<1>5. NoFile.open = FALSE
  BY NewFileType
<1>6. Layout(e, NoFile)
  BY <1>3, <1>4, <1>5 DEF Layout
<1>7. ASSUME Len(o.data) = MaxFileBytes + 1 PROVE Layout(e, NewFile(o.idx + 1))
  <2> DEFINE p == NewFile(o.idx + 1)
  <2>1. p.open = TRUE /\ p.idx = n + 1
    <3>1. o.idx + 1 \in Nat
      BY <1>1, <1>2
    <3> QED
      BY <1>2, <3>1, NewFileType
  <2> HIDE DEF p
  <2>2. ASSUME NEW j \in DOMAIN e PROVE Len(e[j].data) = MaxFileBytes + 1
    <3>1. CASE j = n + 1
      BY <1>1, <1>7, <3>1
    <3>2. CASE j # n + 1
      BY <1>1, <1>4, <3>2
    <3> QED
      BY <3>1, <3>2
  <2>3. Layout(e, p)
    BY <1>1, <1>3, <2>1, <2>2 DEF Layout
  <2> QED
    BY <2>3 DEF p
<1> QED
  BY <1>6, <1>7 DEF e

(* The first file of a key, and no file.                                      *)
LEMMA LayoutFirst == Layout(<< >>, NewFile(0)) /\ Layout(<< >>, NoFile)
<1>1. 0 \in Nat /\ Len(<< >>) = 0 /\ DOMAIN << >> = {}
  OBVIOUS
<1> DEFINE p == NewFile(0)
<1>2. p.open = TRUE /\ p.idx = 0 /\ NoFile.open = FALSE
  BY <1>1, NewFileType
<1> HIDE DEF p
<1>3. Layout(<< >>, p) /\ Layout(<< >>, NoFile)
  BY <1>1, <1>2 DEF Layout
<1> QED
  BY <1>3 DEF p

(* The rotation does not depend on what the open file holds.                  *)
LEMMA LayoutSame ==
  ASSUME NEW c, NEW o, NEW p, Layout(c, o), o.open = TRUE, p.open = TRUE, p.idx = o.idx
  PROVE  Layout(c, p)
BY DEF Layout

(* file with one more frame.                                                  *)
LEMMA GrownFile ==
  ASSUME NEW o \in FileType, NEW f \in Frame
  PROVE  LET p == [o EXCEPT !.data = Append(@, f)]
         IN  /\ p \in FileType /\ p.data = Append(o.data, f) /\ p.idx = o.idx
             /\ p.open = o.open /\ p.torn = o.torn
<1> DEFINE d == Append(o.data, f)
<1>1. d \in Seq(Frame)
  BY DEF FileType
<1> HIDE DEF d
<1>2. LET p == [o EXCEPT !.data = d]
      IN  /\ p \in FileType /\ p.data = d /\ p.idx = o.idx
          /\ p.open = o.open /\ p.torn = o.torn
  BY <1>1 DEF FileType
<1> QED
  BY <1>2 DEF d

(* A torn file differs from what it was in being torn.                        *)
LEMMA TornFile ==
  ASSUME NEW o \in FileType
  PROVE  LET p == [o EXCEPT !.torn = TRUE]
         IN  /\ p \in FileType /\ p.data = o.data /\ p.idx = o.idx
             /\ p.open = o.open /\ p.torn = TRUE
BY DEF FileType

(* w with another file                                                        *)
LEMMA ChangedFile ==
  ASSUME NEW w \in WriterType, NEW k \in Keys, NEW f \in Frame
  PROVE  /\ LET u == [w EXCEPT !.files[k].data = Append(@, f)]
                p == [w.files[k] EXCEPT !.data = Append(@, f)]
            IN  u = [w EXCEPT !.files[k] = p]
         /\ LET u == [w EXCEPT !.files[k].torn = TRUE]
                p == [w.files[k] EXCEPT !.torn = TRUE]
            IN  u = [w EXCEPT !.files[k] = p]
OBVIOUS

(* u differs from w in the files of key k only.                               *)
Elsewhere(w, u, k) ==
  \A q \in Keys \ {k} : u.files[q] = w.files[q] /\ u.closed[q] = w.closed[q]

(* The files of the keys other than k hold what they held.                    *)
Kept(w, u, k) == \A q \in Keys \ {k} : Contents(u, q) = Contents(w, q)

(* A change to one key that leaves that key good leaves the writer good.      *)
LEMMA Assemble ==
  ASSUME NEW w, WriterGood(w), Live(w), w.going = TRUE,
         NEW u \in WriterType, NEW k \in Keys, Elsewhere(w, u, k),
         Verdict(u), u.write_errors >= w.write_errors, KeyGood(u, k),
         u.going /\ ~u.files[k].open => u.closed[k] = << >>
  PROVE  WriterGood(u) /\ Live(u) /\ Kept(w, u, k)
<1>1. ASSUME NEW q \in Keys \ {k}
      PROVE  /\ KeyGood(u, q) /\ Contents(u, q) = Contents(w, q)
             /\ u.going /\ ~u.files[q].open => u.closed[q] = << >>
  <2>1. u.files[q] = w.files[q] /\ u.closed[q] = w.closed[q] /\ q \in Keys
    BY DEF Elsewhere
  <2>2. Layout(u.closed[q], u.files[q]) /\ Contents(u, q) = Contents(w, q)
    BY <2>1 DEF WriterGood, KeyGood, Contents
  <2>3. Healthy(w, q) /\ (~w.files[q].open => w.closed[q] = << >>)
    BY <2>1 DEF WriterGood, KeyGood, Live
  <2>4. u.write_errors \in Nat /\ w.write_errors \in Nat
    BY DEF WriterGood, WriterType
  <2>5. w.write_errors > 0 => u.write_errors > 0
    BY <2>4
  <2>6. Healthy(u, q)
    BY <2>1, <2>3, <2>5, Zenon DEF Healthy
  <2> QED
    BY <2>1, <2>2, <2>3, <2>6 DEF KeyGood
<1>2. \A q \in Keys : KeyGood(u, q)
  BY <1>1
<1>3. Live(u)
  BY <1>1 DEF Live
<1> QED
  BY <1>1, <1>2, <1>3 DEF WriterGood, Kept

(* What a write of f by w may come to.                                        *)
Wrote(w, u, f) ==
  /\ WriterGood(u) /\ Live(u) /\ Kept(w, u, f.key)
  /\ w.errored => u.errored
  /\ \/ Contents(u, f.key) = Append(Contents(w, f.key), f)
     \/ u.going = FALSE /\ Contents(u, f.key) = Contents(w, f.key)

(* The parts of a writer the proofs look at.                                  *)
LEMMA TypedParts ==
  ASSUME NEW w \in WriterType, NEW k \in Keys
  PROVE  /\ w.files \in [Keys -> FileType] /\ w.files[k] \in FileType
         /\ w.closed \in [Keys -> Seq(ReportType)] /\ w.closed[k] \in Seq(ReportType)
         /\ w.write_errors \in Nat /\ w.going \in BOOLEAN /\ w.errored \in BOOLEAN
         /\ w.files[k].open \in BOOLEAN /\ w.files[k].torn \in BOOLEAN
         /\ w.files[k].data \in Seq(Frame) /\ w.files[k].idx \in Nat
<1>1. /\ w.files \in [Keys -> FileType] /\ w.closed \in [Keys -> Seq(ReportType)]
      /\ w.write_errors \in Nat /\ w.going \in BOOLEAN /\ w.errored \in BOOLEAN
  BY DEF WriterType
<1>2. w.files[k] \in FileType /\ w.closed[k] \in Seq(ReportType)
  BY <1>1
<1> DEFINE o == w.files[k]
<1> HIDE DEF o
<1>3. o \in FileType
  BY <1>2 DEF o
<1>4. o.open \in BOOLEAN /\ o.torn \in BOOLEAN /\ o.data \in Seq(Frame) /\ o.idx \in Nat
  BY <1>3 DEF FileType
<1> QED
  BY <1>1, <1>2, <1>4 DEF o

(* A failed call leaves a good writer good.                                   *)
LEMMA FailedGood ==
  ASSUME NEW w, WriterGood(w)
  PROVE  /\ WriterGood(Failed(w)) /\ Live(Failed(w)) /\ Failed(w).errored = TRUE
         /\ Failed(w).going = FALSE
         /\ \A k \in Keys : Contents(Failed(w), k) = Contents(w, k)
<1> DEFINE u == Failed(w)
<1>1. /\ u \in WriterType /\ u.files = w.files /\ u.closed = w.closed
      /\ u.write_errors = w.write_errors + 1 /\ u.errored = TRUE /\ u.going = FALSE
      /\ w.write_errors \in Nat
  BY FailedFacts DEF WriterGood, WriterType
<1> HIDE DEF u
<1>2. u.write_errors > 0
  BY <1>1
<1>3. Verdict(u) /\ Live(u)
  BY <1>1, <1>2, Zenon DEF Verdict, Live
<1>4. \A k \in Keys : Contents(u, k) = Contents(w, k)
  BY <1>1 DEF Contents
<1>5. ASSUME NEW k \in Keys PROVE KeyGood(u, k)
  <2>1. Healthy(u, k)
    BY <1>1, <1>2, Zenon DEF Healthy
  <2> QED
    BY <1>1, <2>1 DEF WriterGood, KeyGood
<1> QED
  BY <1>1, <1>3, <1>4, <1>5 DEF u, WriterGood

(* The first frame of a key gets a file of number 0.                          *)
LEMMA FirstFile ==
  ASSUME NEW w, WriterGood(w), Live(w), w.going = TRUE, NEW k \in Keys,
         w.files[k].open = FALSE, NEW x, x # "create"
  PROVE  LET v == OpenNewFile(w, k, 0, x)
         IN  /\ WriterGood(v) /\ Live(v) /\ v.going = TRUE /\ v.files[k].open = TRUE
             /\ v.errored = w.errored
             /\ \A q \in Keys : Contents(v, q) = Contents(w, q)
<1> DEFINE v == OpenNewFile(w, k, 0, x)
<1>1. w \in WriterType /\ w.closed[k] = << >> /\ w.files[k] = NoFile
  BY DEF WriterGood, Live, KeyGood, Layout
<1>2. /\ w.files \in [Keys -> FileType] /\ w.write_errors \in Nat
  BY <1>1, TypedParts
<1>3. /\ v \in WriterType /\ v.closed = w.closed
      /\ v.files = [w.files EXCEPT ![k] = NewFile(0)]
      /\ v.write_errors = w.write_errors /\ v.errored = w.errored /\ v.going = w.going
  <2>1. 0 \in Nat
    OBVIOUS
  <2> QED
    BY <1>1, <2>1, OpenFacts
<1> HIDE DEF v
<1>4. v.files[k] = NewFile(0) /\ Elsewhere(w, v, k)
  BY <1>2, <1>3 DEF Elsewhere
<1>5. /\ v.files[k].open = TRUE /\ v.files[k].data = << >> /\ v.files[k].torn = FALSE
      /\ v.closed[k] = << >>
  <2>1. 0 \in Nat
    OBVIOUS
  <2> QED
    BY <1>1, <1>3, <1>4, <2>1, NewFileType
<1>6. KeyGood(v, k)
  <2>1. Layout(v.closed[k], v.files[k])
    BY <1>4, <1>5, LayoutFirst
  <2>2. Len(v.files[k].data) <= MaxFileBytes
    <3>1. Len(<< >>) = 0
      OBVIOUS
    <3> QED
      BY <1>5, <3>1, GrawAssumption
  <2>3. DOMAIN v.closed[k] = {}
    BY <1>5
  <2>4. Healthy(v, k)
    BY <1>5, <2>2, <2>3, Zenon DEF Healthy
  <2> QED
    BY <2>1, <2>4 DEF KeyGood
<1>7. Verdict(v) /\ v.write_errors >= w.write_errors
  <2>1. Verdict(w)
    BY DEF WriterGood
  <2>2. Verdict(v)
    BY <1>3, <2>1 DEF Verdict
  <2> QED
    BY <1>2, <1>3, <2>2
<1>8. WriterGood(v) /\ Live(v) /\ Kept(w, v, k)
  BY <1>3, <1>4, <1>5, <1>6, <1>7, Assemble
<1>9. Contents(v, k) = Contents(w, k)
  BY <1>1, <1>5, NewFileType DEF Contents
<1>10. \A q \in Keys : Contents(v, q) = Contents(w, q)
  BY <1>8, <1>9 DEF Kept
<1> QED
  BY <1>3, <1>5, <1>8, <1>10 DEF v

(* A write that fails half-way tears the file and gives up.                   *)
LEMMA TornWrite ==
  ASSUME NEW w, WriterGood(w), Live(w), w.going = TRUE, NEW f \in Frame,
         f.key \in Keys, w.files[f.key].open = TRUE
  PROVE  Wrote(w, Failed([w EXCEPT !.files[f.key].torn = TRUE]), f)
<1> DEFINE k == f.key
           o == w.files[k]
           p == [o EXCEPT !.torn = TRUE]
           v == [w EXCEPT !.files[k] = p]
           u == Failed(v)
<1>1. [w EXCEPT !.files[f.key].torn = TRUE] = v
  BY ChangedFile DEF WriterGood
<1>2. w \in WriterType /\ k \in Keys
  BY DEF WriterGood
<1>3. o \in FileType /\ w.files \in [Keys -> FileType] /\ w.write_errors \in Nat
  BY <1>2, TypedParts
<1>4. p \in FileType /\ p.data = o.data /\ p.idx = o.idx /\ p.open = o.open /\ p.torn = TRUE
  BY <1>3, TornFile
<1> HIDE DEF p, k
<1>5. /\ v \in WriterType /\ v.files = [w.files EXCEPT ![k] = p] /\ v.closed = w.closed
      /\ v.write_errors = w.write_errors
  BY <1>2, <1>4, PutFile
<1> HIDE DEF v
<1>6. /\ u \in WriterType /\ u.files = v.files /\ u.closed = v.closed
      /\ u.write_errors = w.write_errors + 1 /\ u.errored = TRUE /\ u.going = FALSE
  BY <1>5, FailedFacts
<1> HIDE DEF u
<1>7. u.files[k] = p /\ u.closed[k] = w.closed[k] /\ Elsewhere(w, u, k)
  BY <1>2, <1>3, <1>5, <1>6 DEF Elsewhere
<1>8. u.write_errors > 0 /\ u.write_errors >= w.write_errors
  BY <1>3, <1>6
<1>9. Verdict(u)
  BY <1>6, <1>8 DEF Verdict
<1>10. KeyGood(u, k)
  <2>1. Layout(w.closed[k], o) /\ o.open = TRUE
    BY <1>2 DEF WriterGood, KeyGood, k
  <2> HIDE DEF o
  <2>2. Layout(w.closed[k], p)
    BY <1>4, <2>1, LayoutSame
  <2>3. Healthy(u, k)
    BY <1>6, <1>8, Zenon DEF Healthy
  <2> QED
    BY <1>7, <2>2, <2>3 DEF KeyGood
<1>11. WriterGood(u) /\ Live(u) /\ Kept(w, u, k)
  BY <1>2, <1>6, <1>7, <1>8, <1>9, <1>10, Assemble
<1>12. Contents(u, k) = Contents(w, k)
  BY <1>4, <1>7 DEF Contents
<1> QED
  BY <1>1, <1>6, <1>11, <1>12 DEF u, k, Wrote

(* A write that goes through appends the frame, and passes the limit by at    *)
(* most that frame.                                                           *)
LEMMA PlainWrite ==
  ASSUME NEW w, WriterGood(w), Live(w), w.going = TRUE, NEW f \in Frame,
         f.key \in Keys, w.files[f.key].open = TRUE
  PROVE  LET u == [w EXCEPT !.files[f.key].data = Append(@, f)]
         IN  /\ u \in WriterType /\ Elsewhere(w, u, f.key) /\ u.closed = w.closed
             /\ u.write_errors = w.write_errors /\ u.errored = w.errored /\ u.going = TRUE
             /\ u.files[f.key].data = Append(w.files[f.key].data, f)
             /\ u.files[f.key].idx = w.files[f.key].idx
             /\ u.files[f.key].open = TRUE /\ u.files[f.key].torn = FALSE
             /\ Layout(u.closed[f.key], u.files[f.key])
             /\ Contents(u, f.key) = Append(Contents(w, f.key), f)
             /\ Len(u.files[f.key].data) \in Nat
             /\ Len(u.files[f.key].data) <= MaxFileBytes => Wrote(w, u, f)
             /\ Len(u.files[f.key].data) > MaxFileBytes =>
                  Len(u.files[f.key].data) = MaxFileBytes + 1
<1> DEFINE k == f.key
           o == w.files[k]
           p == [o EXCEPT !.data = Append(@, f)]
           u == [w EXCEPT !.files[k] = p]
<1>1. [w EXCEPT !.files[f.key].data = Append(@, f)] = u
  BY ChangedFile DEF WriterGood
<1>2. w \in WriterType /\ k \in Keys
  BY DEF WriterGood
<1>3. /\ o \in FileType /\ w.files \in [Keys -> FileType] /\ w.write_errors \in Nat
      /\ o.data \in Seq(Frame) /\ w.closed[k] \in Seq(ReportType) /\ o.torn \in BOOLEAN
  BY <1>2, TypedParts
<1>4. /\ p \in FileType /\ p.data = Append(o.data, f) /\ p.idx = o.idx /\ p.open = o.open
      /\ p.torn = o.torn
  BY <1>3, GrownFile
<1>5. Layout(w.closed[k], o) /\ o.open = TRUE /\ Healthy(w, k)
  BY <1>2 DEF WriterGood, KeyGood
<1>6. Len(o.data) <= MaxFileBytes /\ o.torn = FALSE
  <2>1. Len(w.files[k].data) <= MaxFileBytes /\ ~w.files[k].torn
    BY <1>5 DEF Healthy
  <2> QED
    BY <1>3, <2>1
<1> HIDE DEF p
<1>7. /\ u \in WriterType /\ u.files = [w.files EXCEPT ![k] = p] /\ u.closed = w.closed
      /\ u.write_errors = w.write_errors /\ u.errored = w.errored /\ u.going = w.going
  BY <1>2, <1>4, PutFile
<1> HIDE DEF u, k
<1>8. u.files[k] = p /\ u.closed[k] = w.closed[k] /\ Elsewhere(w, u, k)
  BY <1>2, <1>3, <1>7 DEF Elsewhere
<1>9. Layout(w.closed[k], p)
  <2> HIDE DEF o
  <2> QED
    BY <1>4, <1>5, LayoutSame
<1>10. Contents(u, k) = Append(Contents(w, k), f)
  <2> DEFINE c == w.closed[k]
             d == o.data
  <2>1. c \in Seq(ReportType) /\ d \in Seq(Frame)
    BY <1>3
  <2>2. Contents(u, k) = Text(c, Append(d, f)) /\ Contents(w, k) = Text(c, d)
    BY <1>4, <1>8 DEF Contents
  <2> HIDE DEF c, d, o
  <2>3. Text(c, Append(d, f)) = Append(Text(c, d), f)
    BY <2>1, TextGrow
  <2> QED
    BY <2>2, <2>3
<1>11. Len(p.data) = Len(o.data) + 1 /\ Len(o.data) \in Nat
  BY <1>3, <1>4, AppendProperties
<1>12. Len(p.data) \in Nat /\ (Len(p.data) > MaxFileBytes => Len(p.data) = MaxFileBytes + 1)
  BY <1>6, <1>11, GrawAssumption, SMTT(30)
<1>13. ASSUME Len(p.data) <= MaxFileBytes PROVE Wrote(w, u, f)
  <2>1. Healthy(u, k)
    <3>1. p.torn = FALSE
      BY <1>4, <1>6
    <3> QED
      BY <1>5, <1>7, <1>8, <1>13, <3>1, Zenon DEF Healthy
  <2>2. KeyGood(u, k)
    BY <1>8, <1>9, <2>1 DEF KeyGood
  <2>3. Verdict(u) /\ u.write_errors >= w.write_errors
    <3>1. Verdict(w)
      BY DEF WriterGood
    <3>2. Verdict(u)
      BY <1>7, <3>1 DEF Verdict
    <3> QED
      BY <1>3, <1>7, <3>2
  <2>4. u.files[k].open = TRUE
    BY <1>4, <1>5, <1>8
  <2>5. WriterGood(u) /\ Live(u) /\ Kept(w, u, k)
    BY <1>2, <1>7, <1>8, <2>2, <2>3, <2>4, Assemble
  <2> QED
    BY <1>7, <1>10, <2>5 DEF Wrote, k
<1>14. /\ u.files[k].data = Append(w.files[k].data, f) /\ u.files[k].idx = w.files[k].idx
       /\ u.files[k].open = TRUE /\ u.files[k].torn = FALSE
       /\ Len(u.files[k].data) \in Nat
       /\ Len(u.files[k].data) <= MaxFileBytes => Wrote(w, u, f)
       /\ Len(u.files[k].data) > MaxFileBytes => Len(u.files[k].data) = MaxFileBytes + 1
  BY <1>4, <1>5, <1>6, <1>8, <1>12, <1>13
<1>15. /\ u \in WriterType /\ Elsewhere(w, u, k) /\ u.closed = w.closed
       /\ u.write_errors = w.write_errors /\ u.errored = w.errored /\ u.going = TRUE
       /\ Layout(u.closed[k], u.files[k])
       /\ Contents(u, k) = Append(Contents(w, k), f)
  BY <1>7, <1>8, <1>9, <1>10
<1> HIDE DEF o
<1>16. [w EXCEPT !.files[f.key].data = Append(@, f)] = u
  BY <1>1 DEF u, p, k, o
<1> QED
  BY <1>14, <1>15, <1>16, Zenon DEF k

(* Rotate.                                                                    *)
LEMMA RotateWrite ==
  ASSUME NEW w, WriterGood(w), Live(w), w.going = TRUE, NEW f \in Frame,
         NEW k \in Keys, k = f.key, NEW x, NEW v \in WriterType,
         Elsewhere(w, v, k), v.closed = w.closed, v.write_errors = w.write_errors,
         v.errored = w.errored, v.going = TRUE,
         v.files[k].open = TRUE, v.files[k].torn = FALSE,
         Layout(v.closed[k], v.files[k]),
         Contents(v, k) = Append(Contents(w, k), f),
         Len(v.files[k].data) = MaxFileBytes + 1
  PROVE  Wrote(w, Rotate(v, k, x), f)
<1> DEFINE o == v.files[k]
           r == Report(v, k, TRUE)
           z == [v EXCEPT !.closed[k] = Append(@, r), !.files[k] = NoFile]
           n == o.idx + 1
           u == Rotate(v, k, x)
<1>1. /\ v \in WriterType /\ Elsewhere(w, v, k) /\ v.closed = w.closed
      /\ v.write_errors = w.write_errors /\ v.errored = w.errored /\ v.going = TRUE
      /\ o.open = TRUE /\ o.torn = FALSE
      /\ Layout(v.closed[k], o)
      /\ Contents(v, k) = Append(Contents(w, k), f)
      /\ Len(o.data) = MaxFileBytes + 1
  OBVIOUS
<1>2. w \in WriterType /\ k \in Keys /\ Verdict(w) /\ Healthy(w, k)
  BY DEF WriterGood, KeyGood
<1>3. /\ o \in FileType /\ v.files \in [Keys -> FileType] /\ v.write_errors \in Nat
      /\ v.closed \in [Keys -> Seq(ReportType)] /\ v.closed[k] \in Seq(ReportType)
      /\ o.data \in Seq(Frame) /\ o.idx \in Nat
  BY <1>1, <1>2, TypedParts
<1>4. r \in ReportType /\ r.idx = o.idx /\ r.data = o.data /\ r.torn = o.torn /\ r.synced = TRUE
  BY <1>1, <1>2, ReportFacts
<1> HIDE DEF r
<1>5. /\ z \in WriterType /\ z.files = [v.files EXCEPT ![k] = NoFile]
      /\ z.closed = [v.closed EXCEPT ![k] = Append(@, r)]
      /\ z.write_errors = v.write_errors /\ z.errored = v.errored /\ z.going = v.going
  <2>1. r \in ReportType /\ v \in WriterType /\ k \in Keys
    BY <1>4
  <2> QED
    BY ONLY <2>1, PutClosed, ZenonT(40)
<1>6. u = (IF x = "sync" THEN Failed(v)
           ELSE OpenNewFile(z, k, n, IF x = "next" THEN "create" ELSE "none"))
  BY DEF Rotate, r
<1> HIDE DEF z, u
<1>7. n \in Nat
  BY <1>3
<1>8. /\ z.closed[k] = Append(v.closed[k], r) /\ Elsewhere(w, z, k) /\ z.files[k] = NoFile
      /\ z.files \in [Keys -> FileType]
  <2>1. z.files \in [Keys -> FileType]
    BY <1>2, <1>5, TypedParts
  <2> QED
    BY <1>1, <1>2, <1>3, <1>5, <2>1 DEF Elsewhere
<1>9. /\ Layout(z.closed[k], NoFile) /\ Layout(z.closed[k], NewFile(n))
  <2> DEFINE c == v.closed[k]
  <2>1. c \in Seq(ReportType) /\ Layout(c, o)
    BY <1>1, <1>3
  <2> HIDE DEF o, c
  <2>2. Layout(Append(c, r), NoFile) /\ Layout(Append(c, r), NewFile(n))
    BY <1>1, <1>3, <1>4, <2>1, LayoutClose
  <2> QED
    BY <1>8, <2>2 DEF c
<1>10. Text(z.closed[k], << >>) = Contents(v, k)
  <2> DEFINE c == v.closed[k]
  <2>1. c \in Seq(ReportType)
    BY <1>3
  <2>2. Contents(v, k) = Text(c, r.data)
    BY <1>4 DEF Contents
  <2> HIDE DEF c
  <2>3. Text(Append(c, r), << >>) = Text(c, r.data)
    BY <1>4, <2>1, TextClose
  <2> QED
    BY <1>8, <2>2, <2>3 DEF c
<1>11. ASSUME NEW j \in DOMAIN z.closed[k], z.closed[k][j].torn \/ ~z.closed[k][j].synced
       PROVE  w.write_errors > 0
  <2> DEFINE c == v.closed[k]
             e == Append(c, r)
  <2>1. c \in Seq(ReportType)
    BY <1>3
  <2>2. z.closed[k] = e
    BY <1>8
  <2>3. /\ Len(c) \in Nat /\ DOMAIN c = 1 .. Len(c) /\ DOMAIN e = 1 .. Len(c) + 1
        /\ \A i \in 1 .. Len(c) : e[i] = c[i]
        /\ e[Len(c) + 1] = r
    <3> HIDE DEF c
    <3> QED
      BY <2>1, AppendShape
  <2>4. c = w.closed[k]
    BY <1>1
  <2> HIDE DEF c, e
  <2>5. CASE j = Len(c) + 1
    <3>1. r.torn = FALSE /\ r.synced = TRUE /\ e[j] = r
      BY <1>1, <1>4, <2>3, <2>5
    <3> QED
      BY <1>11, <2>2, <3>1
  <2>6. CASE j # Len(c) + 1
    <3>1. j \in DOMAIN c /\ e[j] = c[j]
      BY <2>2, <2>3, <2>6
    <3>2. w.closed[k][j].torn \/ ~w.closed[k][j].synced
      BY <1>11, <2>2, <2>4, <3>1
    <3> QED
      BY <1>2, <2>4, <3>1, <3>2 DEF Healthy
  <2> QED
    BY <2>5, <2>6
<1>12. CASE x = "sync"
  <2>1. u = Failed(v)
    BY <1>6, <1>12
  <2>2. /\ u \in WriterType /\ u.files = v.files /\ u.closed = v.closed
        /\ u.write_errors = v.write_errors + 1 /\ u.errored = TRUE /\ u.going = FALSE
    BY <1>1, <2>1, FailedFacts
  <2>3. /\ u.write_errors > 0 /\ u.write_errors >= w.write_errors
        /\ Elsewhere(w, u, k) /\ Contents(u, k) = Contents(v, k)
    <3>1. u.write_errors > 0 /\ u.write_errors >= w.write_errors
      BY <1>1, <1>3, <2>2
    <3>2. Elsewhere(w, u, k)
      BY <1>1, <2>2, Zenon DEF Elsewhere
    <3>3. Contents(u, k) = Contents(v, k)
      BY <2>2, Zenon DEF Contents
    <3> QED
      BY <3>1, <3>2, <3>3
  <2>4. Verdict(u) /\ Healthy(u, k)
    BY <2>2, <2>3, Zenon DEF Verdict, Healthy
  <2>5. KeyGood(u, k)
    BY <1>1, <2>2, <2>4 DEF KeyGood
  <2>6. WriterGood(u) /\ Live(u) /\ Kept(w, u, k)
    BY <1>2, <2>2, <2>3, <2>4, <2>5, Assemble
  <2> QED
    BY <1>1, <2>2, <2>3, <2>6 DEF Wrote, u
<1>13. CASE x = "next"
  <2>1. u = OpenNewFile(z, k, n, "create")
    BY <1>6, <1>13
  <2>2. u = Failed(z)
    BY <2>1 DEF OpenNewFile
  <2>3. /\ u \in WriterType /\ u.files = z.files /\ u.closed = z.closed
        /\ u.write_errors = z.write_errors + 1 /\ u.errored = TRUE /\ u.going = FALSE
    BY <1>5, <2>2, FailedFacts
  <2>4. /\ u.write_errors > 0 /\ u.write_errors >= w.write_errors /\ Elsewhere(w, u, k)
    BY <1>1, <1>3, <1>5, <1>8, <2>3 DEF Elsewhere
  <2>5. Verdict(u) /\ Healthy(u, k)
    BY <2>3, <2>4, Zenon DEF Verdict, Healthy
  <2>6. KeyGood(u, k)
    BY <1>8, <1>9, <2>3, <2>5 DEF KeyGood
  <2>7. WriterGood(u) /\ Live(u) /\ Kept(w, u, k)
    BY <1>2, <2>3, <2>4, <2>5, <2>6, Assemble
  <2>8. Contents(u, k) = Contents(v, k)
    BY <1>8, <1>10, <2>3, NewFileType DEF Contents
  <2> QED
    BY <1>1, <2>3, <2>7, <2>8 DEF Wrote, u
<1>14. CASE x \notin {"sync", "next"}
  <2>1. u = OpenNewFile(z, k, n, "none")
    BY <1>6, <1>14
  <2>2. /\ u \in WriterType /\ u.closed = z.closed
        /\ u.files = [z.files EXCEPT ![k] = NewFile(n)]
        /\ u.write_errors = z.write_errors /\ u.errored = z.errored /\ u.going = z.going
    <3>1. "none" # "create"
      OBVIOUS
    <3> HIDE DEF n
    <3> QED
      BY <1>2, <1>5, <1>7, <2>1, <3>1, OpenFacts
  <2>3. u.files[k] = NewFile(n) /\ Elsewhere(w, u, k)
    BY <1>2, <1>8, <2>2 DEF Elsewhere
  <2>4. /\ u.files[k].open = TRUE /\ u.files[k].data = << >> /\ u.files[k].torn = FALSE
    <3> HIDE DEF n
    <3> QED
      BY <1>7, <2>3, NewFileType
  <2>5. Len(u.files[k].data) <= MaxFileBytes
    <3>1. Len(<< >>) = 0
      OBVIOUS
    <3> QED
      BY <2>4, <3>1, GrawAssumption
  <2>6. Verdict(u) /\ u.write_errors >= w.write_errors /\ u.write_errors = w.write_errors
    <3>1. Verdict(u)
      BY <1>1, <1>2, <1>5, <2>2 DEF Verdict
    <3> QED
      BY <1>1, <1>3, <1>5, <2>2, <3>1
  <2>7. Healthy(u, k)
    <3>1. \A j \in DOMAIN u.closed[k] :
            u.closed[k][j].torn \/ ~u.closed[k][j].synced => u.write_errors > 0
      BY <1>11, <2>2, <2>6
    <3> QED
      BY <2>4, <2>5, <3>1, Zenon DEF Healthy
  <2>8. KeyGood(u, k)
    BY <1>9, <2>2, <2>3, <2>7 DEF KeyGood
  <2>9. WriterGood(u) /\ Live(u) /\ Kept(w, u, k)
    BY <1>2, <2>2, <2>3, <2>4, <2>6, <2>8, Assemble
  <2>10. Contents(u, k) = Contents(v, k)
    BY <1>10, <2>2, <2>4 DEF Contents
  <2>11. u.errored = w.errored
    BY <1>1, <1>5, <2>2
  <2> QED
    BY <1>1, <2>9, <2>10, <2>11 DEF Wrote, u
<1> QED
  BY <1>12, <1>13, <1>14

(* A frame written by a good writer.                                          *)
LEMMA WriteOne ==
  ASSUME NEW w, WriterGood(w), Live(w), w.going = TRUE, NEW f \in Frame,
         f.key \in Keys, NEW x
  PROVE  Wrote(w, WriteTo(w, f, x), f)
<1> DEFINE k == f.key
           v == IF w.files[k].open THEN w ELSE OpenNewFile(w, k, 0, x)
           y == [v EXCEPT !.files[k].data = Append(@, f)]
           u == WriteTo(w, f, x)
<1>0. w \in WriterType /\ k \in Keys
  BY DEF WriterGood
<1>1. w.files[k].open \in BOOLEAN
  BY <1>0, TypedParts
<1>2. CASE w.files[k].open = FALSE /\ x = "create"
  <2>1. v = Failed(w)
    BY <1>2 DEF OpenNewFile
  <2>2. /\ WriterGood(Failed(w)) /\ Live(Failed(w)) /\ Failed(w).errored = TRUE
        /\ Failed(w).going = FALSE
        /\ \A q \in Keys : Contents(Failed(w), q) = Contents(w, q)
    BY FailedGood
  <2> HIDE DEF v
  <2>3. u = v
    <3>1. ~v.going
      BY <2>1, <2>2
    <3> QED
      BY <3>1 DEF WriteTo, v
  <2> HIDE DEF u
  <2>4. Wrote(w, u, f)
    BY <2>1, <2>2, <2>3 DEF Wrote, Kept
  <2> QED
    BY <2>4 DEF u
<1>3. CASE ~(w.files[k].open = FALSE /\ x = "create")
  <2>1. /\ WriterGood(v) /\ Live(v) /\ v.going = TRUE /\ v.files[k].open = TRUE
        /\ v.errored = w.errored
        /\ \A q \in Keys : Contents(v, q) = Contents(w, q)
    <3>1. CASE w.files[k].open = TRUE
      <4>1. v = w
        BY <3>1
      <4> HIDE DEF v
      <4> QED
        BY <3>1, <4>1
    <3>2. CASE w.files[k].open = FALSE
      <4>1. v = OpenNewFile(w, k, 0, x) /\ x # "create"
        BY <1>3, <3>2
      <4> DEFINE z == OpenNewFile(w, k, 0, x)
      <4>2. /\ WriterGood(z) /\ Live(z) /\ z.going = TRUE /\ z.files[k].open = TRUE
            /\ z.errored = w.errored
            /\ \A q \in Keys : Contents(z, q) = Contents(w, q)
        <5>1. k \in Keys /\ w.files[k].open = FALSE /\ x # "create"
          BY <1>0, <3>2, <4>1
        <5> HIDE DEF k
        <5> QED
          BY <5>1, FirstFile
      <4>3. v = z
        BY <4>1
      <4> HIDE DEF v, z
      <4> QED
        BY <4>2, <4>3
    <3> QED
      BY <1>1, <3>1, <3>2
  <2>2. u = (IF x = "write" THEN Failed([v EXCEPT !.files[k].torn = TRUE])
             ELSE IF Len(y.files[k].data) > MaxFileBytes THEN Rotate(y, k, x) ELSE y)
    <3> DEFINE a == Failed([v EXCEPT !.files[k].torn = TRUE])
               b == IF Len(y.files[k].data) > MaxFileBytes THEN Rotate(y, k, x) ELSE y
    <3>1. u = CASE ~v.going -> v
                [] v.going /\ x = "write" -> a
                [] v.going /\ x # "write" -> b
      BY DEF WriteTo
    <3> HIDE DEF a, b, v, u
    <3>2. u = IF x = "write" THEN a ELSE b
      BY <2>1, <3>1
    <3> QED
      BY <3>2 DEF a, b
  <2> HIDE DEF v, u
  <2>3. Wrote(v, u, f)
    <3>1. CASE x = "write"
      BY <2>1, <2>2, <3>1, TornWrite
    <3>2. CASE x # "write" /\ Len(y.files[k].data) > MaxFileBytes
      <4>1. u = Rotate(y, k, x)
        BY <2>2, <3>2
      <4>2. /\ y \in WriterType /\ Elsewhere(v, y, k) /\ y.closed = v.closed
            /\ y.write_errors = v.write_errors /\ y.errored = v.errored /\ y.going = TRUE
            /\ y.files[k].open = TRUE /\ y.files[k].torn = FALSE
            /\ Layout(y.closed[k], y.files[k])
            /\ Contents(y, k) = Append(Contents(v, k), f)
            /\ Len(y.files[k].data) > MaxFileBytes =>
                 Len(y.files[k].data) = MaxFileBytes + 1
        BY <2>1, PlainWrite
      <4>3. k = f.key /\ k \in Keys
        BY <1>0
      <4> HIDE DEF y, k
      <4>4. Wrote(v, Rotate(y, k, x), f)
        BY <2>1, <3>2, <4>2, <4>3, RotateWrite
      <4> QED
        BY <4>1, <4>4
    <3>3. CASE x # "write" /\ ~(Len(y.files[k].data) > MaxFileBytes)
      <4>1. u = y
        BY <2>2, <3>3
      <4>2. /\ Len(y.files[k].data) \in Nat
            /\ Len(y.files[k].data) <= MaxFileBytes => Wrote(v, y, f)
        BY <2>1, PlainWrite
      <4> HIDE DEF y
      <4>3. Len(y.files[k].data) <= MaxFileBytes
        BY <3>3, <4>2, GrawAssumption
      <4> QED
        BY <4>1, <4>2, <4>3
    <3> QED
      BY <3>1, <3>2, <3>3
  <2>4. Wrote(w, u, f)
    BY <1>0, <2>1, <2>3 DEF Wrote, Kept
  <2> QED
    BY <2>4 DEF u
<1> QED
  BY <1>2, <1>3

(* Counting a control frame leaves the writer good.                           *)
LEMMA CountGood ==
  ASSUME NEW w, WriterGood(w), Live(w), NEW f
  PROVE  LET v == CountCtrl(w, f)
         IN  /\ WriterGood(v) /\ Live(v) /\ v.going = w.going /\ v.errored = w.errored
             /\ \A k \in Keys : Contents(v, k) = Contents(w, k)
<1> DEFINE v == CountCtrl(w, f)
<1>1. /\ v \in WriterType /\ v.files = w.files /\ v.closed = w.closed
      /\ v.write_errors = w.write_errors /\ v.errored = w.errored /\ v.going = w.going
  BY CountFacts DEF WriterGood
<1> HIDE DEF v
<1>2. Verdict(v) /\ Live(v)
  BY <1>1 DEF WriterGood, Verdict, Live
<1>3. ASSUME NEW k \in Keys PROVE KeyGood(v, k) /\ Contents(v, k) = Contents(w, k)
  <2>1. KeyGood(w, k)
    BY DEF WriterGood
  <2>2. Healthy(v, k)
    BY <1>1, <2>1, Zenon DEF KeyGood, Healthy
  <2> QED
    BY <1>1, <2>1, <2>2 DEF KeyGood, Contents
<1> QED
  BY <1>1, <1>2, <1>3 DEF v, WriterGood

(* write_to leads from a writer to a writer.                                  *)
LEMMA WriteTyped ==
  ASSUME NEW w \in WriterType, NEW f \in Frame, f.key \in Keys, NEW x
  PROVE  WriteTo(w, f, x) \in WriterType
<1> DEFINE k == f.key
           v == IF w.files[k].open THEN w ELSE OpenNewFile(w, k, 0, x)
           y == [v EXCEPT !.files[k].data = Append(@, f)]
           t == [v EXCEPT !.files[k].torn = TRUE]
<1>0. k \in Keys
  OBVIOUS
<1>1. v \in WriterType
  <2>1. OpenNewFile(w, k, 0, x) \in WriterType
    <3>1. 0 \in Nat
      OBVIOUS
    <3> HIDE DEF k
    <3> QED
      BY <1>0, <3>1, OpenFacts
  <2> QED
    BY <2>1
<1> HIDE DEF v
<1>2. v.files[k] \in FileType
  BY <1>0, <1>1, TypedParts
<1>3. y \in WriterType /\ t \in WriterType
  <2> DEFINE o == v.files[k]
             p == [o EXCEPT !.data = Append(@, f)]
             q == [o EXCEPT !.torn = TRUE]
  <2>1. p \in FileType /\ q \in FileType
    BY <1>2, GrownFile, TornFile
  <2>2. y = [v EXCEPT !.files[k] = p] /\ t = [v EXCEPT !.files[k] = q]
    BY <1>0, <1>1, ChangedFile
  <2> HIDE DEF p, q, y, t, k
  <2> QED
    BY <1>0, <1>1, <2>1, <2>2, PutFile
<1> HIDE DEF y, t
<1>4. Failed(t) \in WriterType
  BY <1>3, FailedFacts
<1>5. Rotate(y, k, x) \in WriterType
  <2> DEFINE r == Report(y, k, TRUE)
             z == [y EXCEPT !.closed[k] = Append(@, r), !.files[k] = NoFile]
             n == y.files[k].idx + 1
  <2>1. r \in ReportType
    BY <1>0, <1>3, ReportFacts
  <2>2. n \in Nat
    BY <1>0, <1>3, TypedParts
  <2>3. Rotate(y, k, x) = IF x = "sync" THEN Failed(y)
                          ELSE OpenNewFile(z, k, n, IF x = "next" THEN "create" ELSE "none")
    BY DEF Rotate
  <2> HIDE DEF r, k
  <2>4. z \in WriterType
    BY ONLY <1>0, <1>3, <2>1, PutClosed, Zenon
  <2>5. Failed(y) \in WriterType
    BY <1>3, FailedFacts
  <2> HIDE DEF z, n
  <2>6. \A b : OpenNewFile(z, k, n, b) \in WriterType
    BY <1>0, <2>2, <2>4, OpenFacts
  <2> QED
    BY <2>3, <2>5, <2>6
<1>6. WriteTo(w, f, x) = CASE ~v.going -> v
                           [] v.going /\ x = "write" -> Failed(t)
                           [] v.going /\ x # "write" ->
                                IF Len(y.files[k].data) > MaxFileBytes THEN Rotate(y, k, x) ELSE y
  BY DEF WriteTo, v, y, t
<1> QED
  BY <1>1, <1>3, <1>4, <1>5, <1>6

(* The files of a key hold frames.                                            *)
LEMMA ContentsTyped ==
  ASSUME NEW w \in WriterType, NEW k \in Keys
  PROVE  Contents(w, k) \in Seq(Frame)
<1> DEFINE c == w.closed[k]
           d == w.files[k].data
<1>1. c \in Seq(ReportType) /\ d \in Seq(Frame)
  BY TypedParts
<1> DEFINE g == [j \in 1 .. Len(c) |-> c[j].data]
<1>2. [j \in DOMAIN c |-> c[j].data] = g /\ Len(c) \in Nat
  <2> HIDE DEF c
  <2> QED
    BY <1>1
<1>3. g \in Seq(Seq(Frame))
  <2> HIDE DEF c
  <2>1. \A j \in 1 .. Len(c) : c[j].data \in Seq(Frame)
    BY <1>1, ReportsTyped
  <2> QED
    BY <1>2, <2>1
<1>4. Contents(w, k) = FlattenSeq(g) \o d
  BY <1>2 DEF Contents, Text
<1> HIDE DEF g, c, d
<1>5. FlattenSeq(g) \in Seq(Frame)
  BY <1>1, <1>3, FlattenAppend
<1> DEFINE a == FlattenSeq(g)
<1> HIDE DEF a
<1>6. a \o d \in Seq(Frame)
  BY <1>1, <1>5 DEF a
<1> QED
  BY <1>4, <1>6 DEF a

(* From w to u the writer of run i has gone on to q, the frames pulled by     *)
(* then: nothing written was changed, and as long as no write failed all of   *)
(* the frames of the run are in the files.                                    *)
Progress(i, w, u, q) ==
  /\ WriterGood(u) /\ Live(u)
  /\ w.errored => u.errored
  /\ \A k \in Keys :
       /\ IsPrefix(Contents(w, k), Contents(u, k))
       /\ IsPrefix(Contents(u, k), Abstract!Mine(i, k, q))
       /\ u.going = TRUE => Contents(u, k) = Abstract!Mine(i, k, q)

(* One round of the loop over the frames of a batch.                          *)
StepOf(a, f, fault) ==
  IF a.going
  THEN WriteTo(CountCtrl(a, f), f, IF f.n = fault.at THEN fault.call ELSE "none")
  ELSE a

(* A round of the loop keeps up with the frames it has gone through.          *)
LEMMA BatchStep ==
  ASSUME NEW i, NEW w \in WriterType, NEW a, NEW q \in Seq(Frame), Progress(i, w, a, q),
         NEW f \in Frame, f.run = i, NEW fault
  PROVE  Progress(i, w, StepOf(a, f, fault), Append(q, f))
<1> DEFINE x == IF f.n = fault.at THEN fault.call ELSE "none"
           u == StepOf(a, f, fault)
<1>1. f.key \in Keys
  BY DEF Frame
<1>2. a \in WriterType /\ WriterGood(a) /\ Live(a) /\ a.going \in BOOLEAN
  BY DEF Progress, WriterGood, WriterType
<1>3. ASSUME NEW k \in Keys
      PROVE  /\ Abstract!Mine(i, k, q) \in Seq(Frame)
             /\ Abstract!Mine(i, k, Append(q, f)) =
                  IF k = f.key THEN Append(Abstract!Mine(i, k, q), f)
                  ELSE Abstract!Mine(i, k, q)
             /\ Contents(a, k) \in Seq(Frame) /\ Contents(w, k) \in Seq(Frame)
             /\ IsPrefix(Contents(w, k), Contents(a, k))
             /\ IsPrefix(Contents(a, k), Abstract!Mine(i, k, q))
             /\ a.going = TRUE => Contents(a, k) = Abstract!Mine(i, k, q)
  <2>1. Abstract!Mine(i, k, q) \in Seq(Frame)
    BY MineAppend
  <2>2. Abstract!Mine(i, k, Append(q, f)) = Keep(i, k, f, Abstract!Mine(i, k, q))
    BY MineAppend
  <2>3. Contents(a, k) \in Seq(Frame) /\ Contents(w, k) \in Seq(Frame)
    BY <1>2, ContentsTyped
  <2> QED
    BY <2>1, <2>2, <2>3 DEF Keep, Progress
<1>4. CASE a.going = FALSE
  <2>1. u = a
    BY <1>4 DEF StepOf
  <2>2. ASSUME NEW k \in Keys
        PROVE  IsPrefix(Contents(a, k), Abstract!Mine(i, k, Append(q, f)))
    <3> DEFINE s == Contents(a, k)
               t == Abstract!Mine(i, k, q)
    <3>1. /\ s \in Seq(Frame) /\ t \in Seq(Frame) /\ IsPrefix(s, t)
          /\ Abstract!Mine(i, k, Append(q, f)) = (IF k = f.key THEN Append(t, f) ELSE t)
      BY <1>3
    <3> HIDE DEF s, t
    <3>2. IsPrefix(s, Append(t, f))
      BY <3>1, PrefixAppend
    <3>3. IsPrefix(s, IF k = f.key THEN Append(t, f) ELSE t)
      BY <3>1, <3>2
    <3> QED
      BY <3>1, <3>3 DEF s
  <2> HIDE DEF u
  <2>3. Progress(i, w, u, Append(q, f))
    BY <1>4, <2>1, <2>2 DEF Progress
  <2> QED
    BY <2>3 DEF u
<1>5. CASE a.going = TRUE
  <2> DEFINE v == CountCtrl(a, f)
  <2>1. u = WriteTo(v, f, x)
    BY <1>5 DEF StepOf
  <2>2. /\ WriterGood(v) /\ Live(v) /\ v.going = TRUE /\ v.errored = a.errored
        /\ \A k \in Keys : Contents(v, k) = Contents(a, k)
    BY <1>2, <1>5, CountGood
  <2> HIDE DEF v, u, x
  <2>3. Wrote(v, u, f)
    BY <1>1, <2>1, <2>2, WriteOne
  <2>4. WriterGood(u) /\ Live(u) /\ (w.errored => u.errored)
    BY <2>2, <2>3 DEF Wrote, Progress
  <2>5. ASSUME NEW k \in Keys
        PROVE  /\ IsPrefix(Contents(w, k), Contents(u, k))
               /\ IsPrefix(Contents(u, k), Abstract!Mine(i, k, Append(q, f)))
               /\ u.going = TRUE => Contents(u, k) = Abstract!Mine(i, k, Append(q, f))
    <3> DEFINE b == Contents(w, k)
               s == Contents(a, k)
               t == Contents(u, k)
               m == Abstract!Mine(i, k, Append(q, f))
    <3>1. /\ b \in Seq(Frame) /\ s \in Seq(Frame) /\ IsPrefix(b, s)
          /\ m = IF k = f.key THEN Append(s, f) ELSE s
      BY <1>3, <1>5
    <3>2. CASE k = f.key
      <4>1. t = Append(s, f) \/ (u.going = FALSE /\ t = s)
        BY <2>2, <2>3, <3>2 DEF Wrote
      <4>2. m = Append(s, f)
        BY <3>1, <3>2
      <4> HIDE DEF b, s, t, m
      <4>3. /\ IsPrefix(b, s) /\ IsPrefix(b, Append(s, f))
            /\ IsPrefix(s, Append(s, f)) /\ Append(s, f) \in Seq(Frame)
        BY <3>1, PrefixAppend
      <4>4. IsPrefix(Append(s, f), Append(s, f))
        <5> DEFINE y == Append(s, f)
        <5>1. y \in Seq(Frame)
          BY <4>3
        <5> HIDE DEF y
        <5>2. IsPrefix(y, y)
          BY <5>1, PrefixFacts
        <5> QED
          BY <5>2 DEF y
      <4>5. IsPrefix(b, t) /\ IsPrefix(t, m) /\ (u.going = TRUE => t = m)
        BY <4>1, <4>2, <4>3, <4>4
      <4> QED
        BY <4>5 DEF b, t, m
    <3>3. CASE k # f.key
      <4>1. t = s /\ m = s
        BY <2>2, <2>3, <3>1, <3>3 DEF Wrote, Kept
      <4> HIDE DEF b, s, t, m
      <4>2. IsPrefix(s, s)
        BY <3>1, PrefixFacts
      <4>3. IsPrefix(b, t) /\ IsPrefix(t, m) /\ t = m
        BY <3>1, <4>1, <4>2
      <4> QED
        BY <4>3 DEF b, t, m
    <3> QED
      BY <3>2, <3>3
  <2>6. Progress(i, w, u, Append(q, f))
    BY <2>4, <2>5 DEF Progress
  <2> QED
    BY <2>6 DEF u
<1> QED
  BY <1>2, <1>4, <1>5

(* The loop over the frames of a batch keeps up with the batch.               *)
LEMMA BatchWritten ==
  ASSUME NEW i, NEW w, NEW p \in Seq(Frame), Progress(i, w, w, p),
         NEW frames \in Seq(Frame), \A j \in 1 .. Len(frames) : frames[j].run = i,
         NEW fault
  PROVE  Progress(i, w, WriteAll(w, frames, fault), p \o frames)
<1> DEFINE n == Len(frames)
           F(f) == [j \in 0 .. n |-> IF j = 0 THEN w ELSE StepOf(f[j - 1], frames[j], fault)]
           c == CHOOSE f : f = F(f)
<1>0. n \in Nat /\ w \in WriterType /\ \A j \in 1 .. n : frames[j] \in Frame
  BY DEF Progress, WriterGood
<1>1. ASSUME NEW a \in WriterType, NEW f \in Frame PROVE StepOf(a, f, fault) \in WriterType
  <2> DEFINE b == CountCtrl(a, f)
             x == IF f.n = fault.at THEN fault.call ELSE "none"
  <2>1. b \in WriterType /\ f.key \in Keys
    BY CountFacts DEF Frame
  <2>2. StepOf(a, f, fault) = IF a.going THEN WriteTo(b, f, x) ELSE a
    BY DEF StepOf
  <2> HIDE DEF b, x
  <2>3. WriteTo(b, f, x) \in WriterType
    BY <2>1, WriteTyped
  <2> QED
    BY <2>2, <2>3
<1> DEFINE st == [z \in WriterType \X (Nat \ {0}) |->
                    IF z[2] \in 1 .. n THEN StepOf(z[1], frames[z[2]], fault) ELSE z[1]]
<1> HIDE DEF n
<1>2. st \in [WriterType \X (Nat \ {0}) -> WriterType]
  BY <1>0, <1>1
<1>3. PICK g \in [0 .. n -> WriterType] : Follows(g, n, w, st)
  <2> HIDE DEF st
  <2> QED
    BY <1>0, <1>2, Recursion
<1>4. ASSUME NEW j \in 1 .. n, NEW f PROVE F(f)[j] = StepOf(f[j - 1], frames[j], fault)
  <2>1. j \in 0 .. n /\ j # 0
    BY <1>0
  <2> QED
    BY <2>1
<1>5. ASSUME NEW f PROVE F(f)[0] = w /\ F(f) = [j \in 0 .. n |-> F(f)[j]]
  <2>1. 0 \in 0 .. n
    BY <1>0
  <2> QED
    BY <2>1
<1>6. WriteAll(w, frames, fault) = c[n]
  BY DEF WriteAll, StepOf, n
<1> HIDE DEF F
<1>7. g = F(g)
  <2>1. ASSUME NEW j \in 0 .. n PROVE g[j] = F(g)[j]
    <3>1. CASE j = 0
      BY <1>3, <1>5, <3>1 DEF Follows
    <3>2. CASE j # 0
      <4>1. j \in 1 .. n /\ j \in Nat \ {0} /\ g[j - 1] \in WriterType
        BY <1>0, <3>2
      <4>2. st[<<g[j - 1], j>>] = StepOf(g[j - 1], frames[j], fault)
        BY <4>1
      <4> HIDE DEF st
      <4> QED
        BY <1>3, <1>4, <4>1, <4>2 DEF Follows
    <3> QED
      BY <3>1, <3>2
  <2> QED
    BY <1>5, <2>1
<1>8. c = F(c)
  BY <1>7
<1> HIDE DEF c
<1> DEFINE q(m) == p \o SubSeq(frames, 1, m)
           T == {m \in Nat : m <= n => Progress(i, w, c[m], q(m))}
<1>9. 0 \in T
  <2>1. c[0] = w
    BY <1>5, <1>8
  <2>2. q(0) = p
    BY SubSeqGrow
  <2> HIDE DEF q
  <2> QED
    BY <2>1, <2>2
<1>10. ASSUME NEW m \in Nat, m \in T PROVE m + 1 \in T
  <2> SUFFICES ASSUME m + 1 <= n PROVE Progress(i, w, c[m + 1], q(m + 1))
    BY DEF T
  <2>1. m + 1 \in 1 .. n /\ (m + 1) - 1 = m /\ m \in 0 .. n /\ m <= n
    BY <1>0
  <2>2. Progress(i, w, c[m], q(m))
    BY <1>10, <2>1
  <2>3. c[m + 1] = StepOf(c[m], frames[m + 1], fault)
    BY <1>4, <1>8, <2>1
  <2>4. frames[m + 1] \in Frame /\ frames[m + 1].run = i
    BY <1>0, <2>1 DEF n
  <2>5. q(m) \in Seq(Frame) /\ q(m + 1) = Append(q(m), frames[m + 1])
    BY <2>1, SubSeqGrow DEF n
  <2> HIDE DEF q
  <2>6. Progress(i, w, StepOf(c[m], frames[m + 1], fault), Append(q(m), frames[m + 1]))
    BY <1>0, <2>2, <2>4, <2>5, BatchStep
  <2> QED
    BY <2>3, <2>5, <2>6
<1>11. Nat \subseteq T
  <2> HIDE DEF T
  <2> QED
    BY <1>9, <1>10, NatSetInduction
<1>12. Progress(i, w, c[n], q(n))
  <2>1. n \in T
    BY <1>0, <1>11
  <2> HIDE DEF q
  <2> QED
    BY <1>0, <2>1
<1>13. q(n) = p \o frames
  BY SubSeqGrow DEF n
<1> QED
  BY <1>6, <1>12, <1>13

(* u is w but for counters, sequence numbers and the latch.                   *)
Same(w, u) ==
  /\ u \in WriterType /\ u.files = w.files /\ u.closed = w.closed
  /\ u.write_errors = w.write_errors /\ u.going = w.going
  /\ w.errored => u.errored

(* Counters and sequence numbers leave the writer and its files as good as    *)
(* they were.                                                                 *)
LEMMA SameGood ==
  ASSUME NEW w, WriterGood(w), NEW u, Same(w, u)
  PROVE  /\ WriterGood(u) /\ (Live(w) => Live(u))
         /\ \A k \in Keys : Contents(u, k) = Contents(w, k)
<1>1. Verdict(u) /\ (Live(w) => Live(u))
  BY DEF WriterGood, Same, Verdict, Live
<1>2. ASSUME NEW k \in Keys PROVE KeyGood(u, k) /\ Contents(u, k) = Contents(w, k)
  <2>1. KeyGood(w, k)
    BY DEF WriterGood
  <2>2. Healthy(u, k)
    BY <2>1, Zenon DEF KeyGood, Healthy, Same
  <2> QED
    BY <2>1, <2>2 DEF KeyGood, Contents, Same
<1> QED
  BY <1>1, <1>2 DEF WriterGood, Same

(* A writer that has kept up still has after a counter moved.                 *)
LEMMA SameProgress ==
  ASSUME NEW i, NEW w, WriterGood(w), Live(w), NEW u, Same(w, u), NEW q \in Seq(Frame),
         \A k \in Keys : Contents(w, k) = Abstract!Mine(i, k, q)
  PROVE  Progress(i, w, u, q) /\ Progress(i, u, u, q)
<1>1. WriterGood(u) /\ Live(u) /\ \A k \in Keys : Contents(u, k) = Contents(w, k)
  BY SameGood
<1>2. ASSUME NEW k \in Keys PROVE IsPrefix(Contents(w, k), Contents(w, k))
  <2>1. Contents(w, k) \in Seq(Frame)
    BY ContentsTyped DEF WriterGood
  <2> QED
    BY <2>1, PrefixFacts
<1> QED
  BY <1>1, <1>2 DEF Progress, Same

(* The steps of the loop that only count.                                     *)
LEMMA CountersSame ==
  ASSUME NEW w \in WriterType
  PROVE  /\ Same(w, w)
         /\ Same(w, [w EXCEPT !.run_mismatches = @ + 1])
         /\ Same(w, [w EXCEPT !.run_mismatches = @ + 1, !.errored = TRUE])
         /\ Same(w, [w EXCEPT !.unexpected_sources = @ + 1])
         /\ Same(w, [w EXCEPT !.heartbeats_in = @ + 1])
         /\ Same(w, [w EXCEPT !.decode_errors = @ + 1])
         /\ Same(w, [w EXCEPT !.seq_gaps = @ + 1, !.errored = TRUE])
         /\ \A s \in Expected, n \in Nat : Same(w, [w EXCEPT !.next_seq[s] = n])
         /\ [w EXCEPT !.run_mismatches = @ + 1, !.errored = TRUE].errored = TRUE
<1>1. Same(w, w)
  BY DEF Same
<1>2. ASSUME NEW c \in Nat
      PROVE  /\ Same(w, [w EXCEPT !.run_mismatches = c])
             /\ Same(w, [w EXCEPT !.unexpected_sources = c])
  BY DEF Same, WriterType
<1>3. ASSUME NEW c \in Nat
      PROVE  /\ Same(w, [w EXCEPT !.heartbeats_in = c])
             /\ Same(w, [w EXCEPT !.decode_errors = c])
  BY DEF Same, WriterType
<1>4. ASSUME NEW c \in Nat
      PROVE  /\ Same(w, [w EXCEPT !.run_mismatches = c, !.errored = TRUE])
             /\ [w EXCEPT !.run_mismatches = c, !.errored = TRUE].errored = TRUE
  BY DEF Same, WriterType
<1>5. ASSUME NEW c \in Nat
      PROVE  Same(w, [w EXCEPT !.seq_gaps = c, !.errored = TRUE])
  BY DEF Same, WriterType
<1>6. ASSUME NEW s \in Expected, NEW n \in Nat
      PROVE  Same(w, [w EXCEPT !.next_seq[s] = n])
  BY DEF Same, WriterType
<1>7. /\ w.run_mismatches + 1 \in Nat /\ w.unexpected_sources + 1 \in Nat
      /\ w.heartbeats_in + 1 \in Nat /\ w.decode_errors + 1 \in Nat /\ w.seq_gaps + 1 \in Nat
  BY DEF WriterType
<1>8. /\ Same(w, [w EXCEPT !.run_mismatches = w.run_mismatches + 1])
      /\ Same(w, [w EXCEPT !.unexpected_sources = w.unexpected_sources + 1])
  BY <1>2, <1>7, Zenon
<1>9. /\ Same(w, [w EXCEPT !.heartbeats_in = w.heartbeats_in + 1])
      /\ Same(w, [w EXCEPT !.decode_errors = w.decode_errors + 1])
  BY <1>3, <1>7, Zenon
<1>10. /\ Same(w, [w EXCEPT !.run_mismatches = w.run_mismatches + 1, !.errored = TRUE])
       /\ [w EXCEPT !.run_mismatches = w.run_mismatches + 1, !.errored = TRUE].errored = TRUE
       /\ Same(w, [w EXCEPT !.seq_gaps = w.seq_gaps + 1, !.errored = TRUE])
  BY <1>4, <1>5, <1>7, Zenon
<1> QED
  BY <1>1, <1>6, <1>8, <1>9, <1>10, Zenon

(* Several steps that only count.                                             *)
LEMMA SameTrans ==
  ASSUME NEW w, NEW v, NEW u, Same(w, v), Same(v, u)
  PROVE  Same(w, u)
BY DEF Same

(* A failed flush counts and latches; the writer goes on.                     *)
LEMMA FlushGood ==
  ASSUME NEW w, WriterGood(w), Live(w)
  PROVE  LET u == FlushFailed(w)
         IN  /\ WriterGood(u) /\ Live(u) /\ u.going = w.going /\ u.errored = TRUE
             /\ \A k \in Keys : Contents(u, k) = Contents(w, k)
<1> DEFINE c == w.write_errors + 1
           u == FlushFailed(w)
<1>1. c \in Nat /\ c > 0 /\ w \in WriterType
  BY DEF WriterGood, WriterType
<1>2. /\ u \in WriterType /\ u.files = w.files /\ u.closed = w.closed
      /\ u.write_errors = c /\ u.errored = TRUE /\ u.going = w.going
  <2>1. u = [w EXCEPT !.write_errors = c, !.errored = TRUE]
    BY DEF FlushFailed
  <2> HIDE DEF c, u
  <2> QED
    BY <1>1, <2>1 DEF WriterType
<1> HIDE DEF u, c
<1>3. Verdict(u) /\ Live(u)
  BY <1>1, <1>2 DEF Verdict, Live
<1>4. ASSUME NEW k \in Keys PROVE KeyGood(u, k) /\ Contents(u, k) = Contents(w, k)
  <2>1. KeyGood(w, k)
    BY DEF WriterGood
  <2>2. Healthy(u, k)
    BY <1>1, <1>2, <2>1, Zenon DEF KeyGood, Healthy
  <2> QED
    BY <1>2, <2>1, <2>2 DEF KeyGood, Contents
<1> QED
  BY <1>2, <1>3, <1>4 DEF u, WriterGood

(* A failed flush does not undo what was written.                             *)
LEMMA FlushProgress ==
  ASSUME NEW i, NEW w, NEW u, NEW q, Progress(i, w, u, q)
  PROVE  Progress(i, w, FlushFailed(u), q) /\ FlushFailed(u).going = u.going
<1> DEFINE v == FlushFailed(u)
<1>1. /\ WriterGood(v) /\ Live(v) /\ v.going = u.going /\ v.errored = TRUE
      /\ \A k \in Keys : Contents(v, k) = Contents(u, k)
  BY FlushGood DEF Progress
<1> HIDE DEF v
<1>2. Progress(i, w, v, q)
  BY <1>1 DEF Progress
<1> QED
  BY <1>1, <1>2 DEF v

(* There are finitely many keys, so the failures of a finalize can be         *)
(* counted.                                                                   *)
LEMMA KeysFinite ==
  /\ IsFiniteSet(Keys)
  /\ \A bad \in SUBSET Keys : /\ Cardinality(bad) \in Nat
                              /\ bad # {} => Cardinality(bad) > 0
                              /\ bad = {} => Cardinality(bad) = 0
<1>1. IsFiniteSet(Kinds)
  <2>1. IsFiniteSet({}) /\ IsFiniteSet({"asad"})
    BY FS_EmptySet, FS_Singleton
  <2>2. Kinds = {"asad"} \cup {"ctrl"} /\ IsFiniteSet({"ctrl"})
    BY FS_Singleton DEF Kinds
  <2> QED
    BY <2>1, <2>2, FS_Union
<1>2. IsFiniteSet(Keys)
  BY <1>1, SourcesAssumption, FS_Product DEF Keys
<1>3. ASSUME NEW bad \in SUBSET Keys
      PROVE  /\ Cardinality(bad) \in Nat
             /\ bad # {} => Cardinality(bad) > 0
             /\ bad = {} => Cardinality(bad) = 0
  <2>1. IsFiniteSet(bad)
    BY <1>2, FS_Subset
  <2>2. Cardinality(bad) \in Nat /\ (Cardinality(bad) = 0 <=> bad = {})
    BY <2>1, FS_CardinalityType, FS_EmptySet
  <2> QED
    BY <2>2
<1> QED
  BY <1>2, <1>3

(* Finalize closes every file, latches the failures and changes no data.      *)
LEMMA FinalizedGood ==
  ASSUME NEW w, WriterGood(w), NEW bad \in SUBSET {k \in Keys : w.files[k].open}
  PROVE  LET u == Finalized(w, bad)
         IN  /\ WriterGood(u) /\ AllClosed(u) /\ u.going = w.going
             /\ u.errored = (w.errored \/ bad # {})
             /\ \A k \in Keys : Contents(u, k) = Contents(w, k)
<1> DEFINE u == Finalized(w, bad)
           cl == [k \in Keys |-> CloseFile(w, k, bad)]
           n == w.write_errors + Cardinality(bad)
           b == (w.errored \/ bad # {})
           nf == [k \in Keys |-> NoFile]
<1>0. bad \in SUBSET Keys
  OBVIOUS
<1>1. w \in WriterType /\ w.write_errors \in Nat /\ w.errored \in BOOLEAN
  BY DEF WriterGood, WriterType
<1>2. Cardinality(bad) \in Nat /\ (bad # {} => Cardinality(bad) > 0)
  BY <1>0, KeysFinite
<1>3. n \in Nat /\ b \in BOOLEAN
  BY <1>1, <1>2
<1>4. n >= w.write_errors /\ (bad # {} => n > 0) /\ (n > 0 => b)
  <2>1. Verdict(w) /\ (bad = {} => Cardinality(bad) = 0)
    BY <1>0, KeysFinite DEF WriterGood
  <2>2. n > 0 /\ bad = {} => w.write_errors > 0
    BY <1>1, <2>1
  <2>3. n > 0 => b
    BY <2>1, <2>2 DEF Verdict
  <2> QED
    BY <1>1, <1>2, <2>3
<1>5. ASSUME NEW k \in Keys
      PROVE  LET c == w.closed[k]
                 o == w.files[k]
                 r == Report(w, k, k \notin bad)
             IN  /\ c \in Seq(ReportType) /\ o \in FileType /\ r \in ReportType
                 /\ r.idx = o.idx /\ r.data = o.data /\ r.torn = o.torn
                 /\ r.synced = (k \notin bad)
                 /\ o.open = TRUE => CloseFile(w, k, bad) = Append(c, r)
                 /\ o.open = FALSE => CloseFile(w, k, bad) = c /\ o = NoFile
                 /\ o.open \in BOOLEAN
                 /\ Layout(c, o) /\ Healthy(w, k)
  <2> DEFINE o == w.files[k]
             r == Report(w, k, k \notin bad)
             x == (k \notin bad)
  <2>1. x \in BOOLEAN
    OBVIOUS
  <2>2. r \in ReportType /\ r.idx = o.idx /\ r.data = o.data /\ r.torn = o.torn /\ r.synced = x
    <3> HIDE DEF x
    <3>1. LET rr == Report(w, k, x)
          IN  rr \in ReportType /\ rr.idx = o.idx /\ rr.data = o.data /\ rr.torn = o.torn
              /\ rr.synced = x
      BY <1>1, <2>1, ReportFacts
    <3> QED
      BY <3>1 DEF x
  <2>3. KeyGood(w, k)
    BY DEF WriterGood
  <2>4. w.closed[k] \in Seq(ReportType) /\ o \in FileType /\ o.open \in BOOLEAN
    BY <1>1, TypedParts
  <2>5. /\ o.open = TRUE => CloseFile(w, k, bad) = Append(w.closed[k], r)
        /\ o.open = FALSE => CloseFile(w, k, bad) = w.closed[k]
    BY DEF CloseFile
  <2>6. Layout(w.closed[k], o) /\ Healthy(w, k) /\ (o.open = FALSE => o = NoFile)
    BY <2>3 DEF KeyGood, Layout
  <2> HIDE DEF r, o
  <2> QED
    BY <2>2, <2>4, <2>5, <2>6 DEF r, o
<1>6. cl \in [Keys -> Seq(ReportType)]
  <2> SUFFICES ASSUME NEW k \in Keys PROVE CloseFile(w, k, bad) \in Seq(ReportType)
    OBVIOUS
  <2> DEFINE c == w.closed[k]
             o == w.files[k]
             r == Report(w, k, k \notin bad)
             d == CloseFile(w, k, bad)
  <2>1. /\ c \in Seq(ReportType) /\ r \in ReportType /\ o.open \in BOOLEAN
        /\ o.open = TRUE => d = Append(c, r)
        /\ o.open = FALSE => d = c
    BY <1>5
  <2> HIDE DEF c, o, r, d
  <2>2. d \in Seq(ReportType)
    BY <2>1
  <2> QED
    BY <2>2 DEF d
<1>7. nf \in [Keys -> FileType]
  BY NewFileType
<1>8. /\ u \in WriterType /\ u.files = nf /\ u.closed = cl
      /\ u.write_errors = n /\ u.errored = b /\ u.going = w.going
  <2>1. u = [w EXCEPT !.files = nf, !.closed = cl, !.write_errors = n, !.errored = b]
    BY DEF Finalized
  <2> HIDE DEF nf, cl, n, b, u
  <2> QED
    BY <1>1, <1>3, <1>6, <1>7, <2>1 DEF WriterType
<1>9. AllClosed(u)
  BY <1>8 DEF AllClosed
<1>10. Verdict(u)
  <2>1. Verdict(w)
    BY DEF WriterGood
  <2> HIDE DEF u, n, b
  <2>2. w.write_errors > 0 => n > 0
    BY <1>1, <1>3, <1>4
  <2> QED
    BY <1>4, <1>8, <2>1, <2>2 DEF Verdict
<1> HIDE DEF u, n, b
<1>11. ASSUME NEW k \in Keys PROVE KeyGood(u, k) /\ Contents(u, k) = Contents(w, k)
  <2> DEFINE c == w.closed[k]
             o == w.files[k]
             r == Report(w, k, k \notin bad)
             d == CloseFile(w, k, bad)
  <2>1. /\ c \in Seq(ReportType) /\ o \in FileType /\ r \in ReportType
        /\ r.idx = o.idx /\ r.data = o.data /\ r.torn = o.torn
        /\ r.synced = (k \notin bad)
        /\ o.open = TRUE => d = Append(c, r)
        /\ o.open = FALSE => d = c /\ o = NoFile
        /\ o.open \in BOOLEAN
        /\ Layout(c, o) /\ Healthy(w, k)
    BY <1>5
  <2>2. u.closed[k] = d /\ u.files[k] = NoFile
    BY <1>8
  <2>3. w.write_errors > 0 => n > 0
    BY <1>1, <1>3, <1>4
  <2>4. /\ \A j \in DOMAIN c : c[j].torn \/ ~c[j].synced => n > 0
        /\ o.torn => n > 0
    BY <2>1, <2>3 DEF Healthy
  <2>5. Contents(w, k) = Text(c, o.data) /\ Contents(u, k) = Text(d, << >>)
    BY <2>2, NewFileType DEF Contents
  <2> HIDE DEF c, o, r, d
  <2>6. CASE o.open = TRUE
    <3>1. Layout(d, NoFile)
      BY <2>1, <2>6, LayoutClose
    <3>2. ASSUME NEW j \in DOMAIN d, d[j].torn \/ ~d[j].synced PROVE n > 0
      <4>1. /\ Len(c) \in Nat /\ DOMAIN c = 1 .. Len(c) /\ DOMAIN d = 1 .. Len(c) + 1
            /\ \A i \in 1 .. Len(c) : d[i] = c[i]
            /\ d[Len(c) + 1] = r
        BY <2>1, <2>6, AppendShape
      <4>2. CASE j = Len(c) + 1
        <5>1. r.torn \/ ~r.synced
          BY <3>2, <4>1, <4>2
        <5>2. o.torn \/ bad # {}
          BY <2>1, <5>1
        <5> QED
          BY <1>4, <2>4, <5>2
      <4>3. CASE j # Len(c) + 1
        <5>1. j \in DOMAIN c /\ d[j] = c[j]
          BY <4>1, <4>3
        <5> QED
          BY <2>4, <3>2, <5>1
      <4> QED
        BY <4>2, <4>3
    <3>3. Text(d, << >>) = Text(c, o.data)
      BY <2>1, <2>6, TextClose
    <3>4. Healthy(u, k)
      <4>1. NoFile.open = FALSE /\ NoFile.torn = FALSE
        BY NewFileType
      <4>2. \A j \in DOMAIN u.closed[k] :
              u.closed[k][j].torn \/ ~u.closed[k][j].synced => u.write_errors > 0
        BY <1>8, <2>2, <3>2
      <4> QED
        BY <2>2, <4>1, <4>2, Zenon DEF Healthy
    <3> QED
      BY <2>2, <2>5, <3>1, <3>3, <3>4 DEF KeyGood
  <2>7. CASE o.open = FALSE
    <3>1. d = c /\ o = NoFile /\ Layout(d, NoFile)
      BY <2>1, <2>7
    <3>2. Text(d, << >>) = Text(c, o.data)
      BY <3>1, NewFileType
    <3>3. Healthy(u, k)
      <4>1. NoFile.open = FALSE /\ NoFile.torn = FALSE
        BY NewFileType
      <4>2. \A j \in DOMAIN u.closed[k] :
              u.closed[k][j].torn \/ ~u.closed[k][j].synced => u.write_errors > 0
        BY <1>8, <2>2, <2>4, <3>1
      <4> QED
        BY <2>2, <4>1, <4>2, Zenon DEF Healthy
    <3> QED
      BY <2>2, <2>5, <3>1, <3>2, <3>3 DEF KeyGood
  <2> QED
    BY <2>1, <2>6, <2>7
<1>12. WriterGood(u)
  BY <1>8, <1>10, <1>11 DEF WriterGood
<1>13. u.going = w.going /\ u.errored = (w.errored \/ bad # {})
  BY <1>8 DEF b
<1> QED
  BY <1>9, <1>11, <1>12, <1>13 DEF u

(* The invariant holds when the component starts.                             *)
LEMMA InitGood == GrawInit => GInv
<1> SUFFICES ASSUME GrawInit PROVE GInv
  OBVIOUS
<1>1. NewWriter \in WriterType /\ NewWriter.going = TRUE /\ NewWriter.write_errors = 0
      /\ NewWriter.files = [k \in Keys |-> NoFile] /\ NewWriter.closed = [k \in Keys |-> << >>]
  <2> DEFINE a == [k \in Keys |-> NoFile]
             b == [k \in Keys |-> << >>]
             c == [s \in Expected |-> 0]
  <2>1. a \in [Keys -> FileType]
    BY NewFileType
  <2>2. b \in [Keys -> Seq(ReportType)]
    OBVIOUS
  <2>3. c \in [Expected -> Nat]
    OBVIOUS
  <2>4. NewWriter = [files |-> a, closed |-> b, next_seq |-> c, seq_gaps |-> 0,
                     run_mismatches |-> 0, ctrl_frames |-> 0, write_errors |-> 0,
                     unexpected_sources |-> 0, decode_errors |-> 0, heartbeats_in |-> 0,
                     errored |-> FALSE, going |-> TRUE]
    BY DEF NewWriter
  <2> HIDE DEF a, b, c
  <2>5. NewWriter \in WriterType
    BY <2>1, <2>2, <2>3, <2>4 DEF WriterType
  <2>6. NewWriter.going = TRUE /\ NewWriter.write_errors = 0 /\ NewWriter.files = a
        /\ NewWriter.closed = b
    BY <2>4
  <2> QED
    BY <2>5, <2>6 DEF a, b
<1>2. GTypes
  <2>1. gw \in [state : States, pull : BOOLEAN, cur : {0} \cup Starts, stop_tx : {0} \cup Starts]
    BY DEF GrawInit, States
  <2>2. starts \in 0 .. MaxStarts /\ faults \in 0 .. MaxFaults
    BY GrawAssumption DEF GrawInit
  <2>3. thread \in [Starts -> [pc : {"off", "consume", "finalize", "done"}, stop : BOOLEAN,
                               eos : SUBSET Expected, msgs : Nat]]
    BY DEF GrawInit
  <2>4. writer \in [Starts -> WriterType] /\ ended \in [Starts -> SUBSET Expected]
    BY <1>1 DEF GrawInit
  <2>5. pulled \in [Starts -> Seq(Frame)]
    BY DEF GrawInit
  <2> QED
    BY <2>1, <2>2, <2>3, <2>4, <2>5 DEF GTypes
<1>3. ASSUME NEW i \in Starts PROVE ThreadGood(i)
  <2> DEFINE w == writer[i]
  <2>1. /\ w = NewWriter /\ thread[i].pc = "off" /\ thread[i].eos = {} /\ ended[i] = {}
        /\ pulled[i] = << >>
    BY DEF GrawInit
  <2> HIDE DEF w
  <2>2. ASSUME NEW k \in Keys
        PROVE  w.files[k] = NoFile /\ w.closed[k] = << >> /\ w.files[k].open = FALSE
               /\ w.files[k].torn = FALSE /\ w.files[k].data = << >>
    BY <1>1, <2>1, NewFileType
  <2>3. ASSUME NEW k \in Keys PROVE KeyGood(w, k)
    <3>1. Layout(w.closed[k], w.files[k])
      BY <2>2, LayoutFirst
    <3>2. DOMAIN w.closed[k] = {}
      <4>1. w.closed[k] = << >>
        BY <2>2
      <4>2. DOMAIN << >> = {}
        OBVIOUS
      <4> QED
        BY <4>1, <4>2
    <3>3. Healthy(w, k)
      BY <2>2, <3>2, Zenon DEF Healthy
    <3> QED
      BY <3>1, <3>3 DEF KeyGood
  <2>4. Verdict(w)
    <3>1. w.going = TRUE /\ w.write_errors = 0
      BY <1>1, <2>1
    <3>2. ~(w.write_errors > 0)
      BY <3>1
    <3> QED
      BY <3>1, <3>2 DEF Verdict
  <2>5. WriterGood(w) /\ Live(w)
    BY <1>1, <2>1, <2>2, <2>3, <2>4 DEF WriterGood, Live
  <2>6. ASSUME NEW k \in Keys
        PROVE  /\ IsPrefix(Contents(w, k), Abstract!Mine(i, k, pulled[i]))
               /\ Contents(w, k) = Abstract!Mine(i, k, pulled[i])
    <3>1. Contents(w, k) = << >>
      BY <2>2, TextEmpty DEF Contents
    <3>2. Abstract!Mine(i, k, pulled[i]) = << >>
      BY <2>1, MineEmpty
    <3>3. IsPrefix(<< >>, << >>)
      <4>1. << >> \in Seq(Frame)
        OBVIOUS
      <4> QED
        BY <4>1, PrefixFacts
    <3> QED
      BY <3>1, <3>2, <3>3
  <2>7. Streams(i)
    BY <2>6 DEF Streams, w
  <2>8. Foreign(i)
    BY <2>1 DEF Foreign
  <2> QED
    BY <1>1, <2>1, <2>5, <2>7, <2>8 DEF ThreadGood, w
<1> QED
  BY <1>2, <1>3 DEF GInv

(* Nothing a run depends on moves, except that it may be told to stop.        *)
Quiet(j) ==
  /\ writer'[j] = writer[j] /\ pulled'[j] = pulled[j] /\ ended'[j] = ended[j]
  /\ thread'[j].pc = thread[j].pc /\ thread'[j].eos = thread[j].eos
  /\ thread[j].stop = TRUE => thread'[j].stop = TRUE

(* A run that is left alone stays good.                                       *)
LEMMA QuietThread ==
  ASSUME NEW j \in Starts, ThreadGood(j), Quiet(j), j > starts' => j > starts
  PROVE  ThreadGood(j)'
<1>1. Streams(j)' /\ Foreign(j)'
  BY DEF ThreadGood, Quiet, Streams, Foreign
<1>2. /\ WriterGood(writer[j])' /\ (thread[j].pc # "done" => Live(writer[j]))'
      /\ (thread[j].pc = "done" => AllClosed(writer[j]))'
  BY DEF ThreadGood, Quiet
<1> QED
  BY <1>1, <1>2 DEF ThreadGood, Quiet

(* Iteration.                                                                 *)
LEMMA ConsumeGood ==
  ASSUME GInv, NEW i \in Starts, thread[i].pc = "consume",
         NEW u, NEW q \in Seq(Frame), Progress(i, writer[i], u, q),
         pulled' = [pulled EXCEPT ![i] = q],
         NEW e \in SUBSET Expected, ended' = [ended EXCEPT ![i] = e],
         NEW odd \in Nat, Iteration(i, u, e, odd),
         \A n \in DOMAIN q : q[n].run # i => u.errored,
         starts' = starts, gw' = gw
  PROVE  /\ GInv'
         /\ writer' = [writer EXCEPT ![i] = writer'[i]]
         /\ Progress(i, writer[i], writer'[i], q)
         /\ thread'[i].pc \in {"consume", "finalize"}
         /\ \A j \in Starts \ {i} : thread'[j] = thread[j]
<1> DEFINE leaves == ~u.going \/ Expected \subseteq e
<1>0. GTypes /\ \A j \in Starts : ThreadGood(j)
  BY DEF GInv
<1>1. PICK bad \in BOOLEAN :
        /\ bad => ~leaves
        /\ writer' = [writer EXCEPT ![i] = IF bad THEN FlushFailed(u) ELSE u]
        /\ faults' = faults + odd + (IF bad \/ ~u.going THEN 1 ELSE 0)
        /\ faults' <= MaxFaults
        /\ thread' = [thread EXCEPT ![i].eos = e, ![i].msgs = @ + 1,
                        ![i].pc = IF leaves THEN "finalize" ELSE "consume"]
  BY DEF Iteration
<1> DEFINE v == IF bad THEN FlushFailed(u) ELSE u
<1>2. Progress(i, writer[i], v, q) /\ v.going = u.going /\ (u.errored => v.errored)
  <2>1. Progress(i, writer[i], FlushFailed(u), q) /\ FlushFailed(u).going = u.going
    BY FlushProgress
  <2>2. FlushFailed(u).errored = TRUE
    <3>1. WriterGood(u) /\ Live(u)
      BY DEF Progress
    <3> QED
      BY <3>1, FlushGood
  <2> QED
    BY <2>1, <2>2
<1>3. v \in WriterType /\ WriterGood(v) /\ Live(v) /\ v.going \in BOOLEAN
  BY <1>2 DEF Progress, WriterGood, WriterType
<1>4. writer' = [writer EXCEPT ![i] = v] /\ writer'[i] = v
  BY <1>0, <1>1 DEF GTypes
<1> HIDE DEF v
<1>5. /\ thread'[i].pc = (IF leaves THEN "finalize" ELSE "consume") /\ thread'[i].eos = e
      /\ thread'[i].stop = thread[i].stop
      /\ \A j \in Starts \ {i} : thread'[j] = thread[j]
      /\ thread' \in [Starts -> [pc : {"off", "consume", "finalize", "done"}, stop : BOOLEAN,
                                 eos : SUBSET Expected, msgs : Nat]]
  <2> DEFINE t == thread[i]
             c == IF leaves THEN "finalize" ELSE "consume"
             m == t.msgs + 1
             t2 == [t EXCEPT !.eos = e, !.msgs = m, !.pc = c]
             TT == [pc : {"off", "consume", "finalize", "done"}, stop : BOOLEAN,
                    eos : SUBSET Expected, msgs : Nat]
  <2>1. thread \in [Starts -> TT] /\ t \in TT /\ m \in Nat /\ c \in {"finalize", "consume"}
    BY <1>0 DEF GTypes
  <2>2. thread' = [thread EXCEPT ![i] = t2]
    BY <1>1
  <2> HIDE DEF c, m, t
  <2>3. t2 \in TT /\ t2.pc = c /\ t2.eos = e /\ t2.stop = t.stop
    BY <2>1
  <2> HIDE DEF t2, TT
  <2>4. thread' \in [Starts -> TT] /\ thread'[i] = t2
        /\ \A j \in Starts \ {i} : thread'[j] = thread[j]
    BY <2>1, <2>2, <2>3
  <2> QED
    BY <2>3, <2>4 DEF c, t, TT
<1>6. faults' \in 0 .. MaxFaults
  <2>1. faults \in Nat
    BY <1>0, GrawAssumption DEF GTypes
  <2> QED
    BY <1>1, <2>1, GrawAssumption
<1>7. GTypes'
  <2>1. writer' \in [Starts -> WriterType]
    BY <1>0, <1>3, <1>4 DEF GTypes
  <2>2. pulled' \in [Starts -> Seq(Frame)]
    BY <1>0 DEF GTypes
  <2>3. ended' \in [Starts -> SUBSET Expected]
    BY <1>0 DEF GTypes
  <2> QED
    BY <1>0, <1>5, <1>6, <2>1, <2>2, <2>3 DEF GTypes
<1>8. pulled'[i] = q /\ ended'[i] = e /\
      \A j \in Starts \ {i} : pulled'[j] = pulled[j] /\ ended'[j] = ended[j]
                              /\ writer'[j] = writer[j]
  BY <1>0, <1>4 DEF GTypes
<1>9. ThreadGood(i)'
  <2>1. Streams(i)'
    BY <1>2, <1>4, <1>8 DEF Progress, Streams
  <2>2. Foreign(i)'
    BY <1>2, <1>4, <1>8 DEF Foreign
  <2>3. thread'[i].pc \in {"finalize", "consume"}
    BY <1>5
  <2>4. thread'[i].pc = "consume" => v.going = TRUE
    BY <1>2, <1>3, <1>5
  <2>5. thread'[i].pc = "finalize" => v.going = FALSE \/ e = Expected
    BY <1>2, <1>3, <1>5
  <2>6. i > starts' => thread'[i].pc = "off"
    BY <1>0 DEF ThreadGood
  <2>7. (WriterGood(writer[i]))' /\ (Live(writer[i]))'
    BY <1>3, <1>4
  <2> QED
    BY <1>4, <1>5, <1>8, <2>1, <2>2, <2>3, <2>4, <2>5, <2>6, <2>7 DEF ThreadGood
<1>10. ASSUME NEW j \in Starts \ {i} PROVE ThreadGood(j)'
  <2>1. Quiet(j)
    BY <1>5, <1>8 DEF Quiet
  <2> QED
    BY <1>0, <2>1, QuietThread
<1>11. GInv'
  BY <1>7, <1>9, <1>10 DEF GInv
<1> QED
  BY <1>2, <1>4, <1>5, <1>11

(* What the properties call written is what the files hold.                   *)
LEMMA WrittenIsContents ==
  ASSUME NEW i \in Starts, NEW k \in Keys
  PROVE  Written(i, k) = Contents(writer[i], k)
BY DEF Written, Contents, Text

(* A thread in its loop has kept up with what it pulled.                      *)
LEMMA ReadyToConsume ==
  ASSUME GInv, NEW i \in Starts, thread[i].pc = "consume", NEW u, Same(writer[i], u)
  PROVE  /\ Progress(i, writer[i], u, pulled[i]) /\ Progress(i, u, u, pulled[i])
         /\ pulled[i] \in Seq(Frame) /\ WriterGood(writer[i]) /\ writer[i] \in WriterType
         /\ \A n \in DOMAIN pulled[i] : pulled[i][n].run # i => u.errored
         /\ thread[i].eos = ended[i] /\ ended[i] \in SUBSET Expected
<1>1. GTypes /\ ThreadGood(i)
  BY DEF GInv
<1>2. WriterGood(writer[i]) /\ Live(writer[i]) /\ writer[i].going = TRUE /\ Streams(i)
  BY <1>1 DEF ThreadGood
<1>3. pulled[i] \in Seq(Frame) /\ ended[i] \in SUBSET Expected
  BY <1>1 DEF GTypes
<1>4. \A k \in Keys : Contents(writer[i], k) = Abstract!Mine(i, k, pulled[i])
  BY <1>2 DEF Streams
<1>5. Progress(i, writer[i], u, pulled[i]) /\ Progress(i, u, u, pulled[i])
  BY <1>2, <1>3, <1>4, SameProgress
<1>6. \A n \in DOMAIN pulled[i] : pulled[i][n].run # i => u.errored
  BY <1>1 DEF ThreadGood, Foreign, Same
<1> QED
  BY <1>1, <1>2, <1>3, <1>5, <1>6 DEF ThreadGood, WriterGood

(* A message that changes at most counters.                                   *)
LEMMA CounterStep ==
  ASSUME GInv, NEW i \in Starts, thread[i].pc = "consume", NEW u, Same(writer[i], u),
         NEW e \in SUBSET Expected, ended' = [ended EXCEPT ![i] = e],
         NEW odd \in Nat, Iteration(i, u, e, odd),
         UNCHANGED <<gw, starts, pulled>>
  PROVE  /\ GInv'
         /\ writer' = [writer EXCEPT ![i] = writer'[i]]
         /\ Progress(i, writer[i], writer'[i], pulled'[i])
         /\ thread'[i].pc \in {"consume", "finalize"}
         /\ \A j \in Starts \ {i} : thread'[j] = thread[j] /\ pulled'[j] = pulled[j]
         /\ IsPrefix(pulled[i], pulled'[i])
<1>1. /\ Progress(i, writer[i], u, pulled[i]) /\ pulled[i] \in Seq(Frame)
      /\ \A n \in DOMAIN pulled[i] : pulled[i][n].run # i => u.errored
  BY ReadyToConsume
<1>2. pulled' = [pulled EXCEPT ![i] = pulled[i]]
  BY DEF GInv, GTypes
<1> DEFINE q == pulled[i]
<1>3. q \in Seq(Frame) /\ pulled' = [pulled EXCEPT ![i] = q] /\ Progress(i, writer[i], u, q)
      /\ \A n \in DOMAIN q : q[n].run # i => u.errored
  BY <1>1, <1>2
<1>4. gw' = gw /\ starts' = starts
  OBVIOUS
<1> HIDE DEF q
<1>5. /\ GInv'
      /\ writer' = [writer EXCEPT ![i] = writer'[i]]
      /\ Progress(i, writer[i], writer'[i], q)
      /\ thread'[i].pc \in {"consume", "finalize"}
      /\ \A j \in Starts \ {i} : thread'[j] = thread[j]
  BY <1>3, <1>4, ConsumeGood
<1>6. IsPrefix(q, q)
  BY <1>3, PrefixFacts
<1> QED
  BY <1>5, <1>6 DEF q

(* what the frames of another run do to the frames of this one: nothing       *)
LEMMA MineForeign ==
  ASSUME NEW i, NEW k, NEW p \in Seq(Frame), NEW frames \in Seq(Frame),
         \A j \in 1 .. Len(frames) : frames[j].run # i
  PROVE  Abstract!Mine(i, k, p \o frames) = Abstract!Mine(i, k, p)
<1> DEFINE n == Len(frames)
           q(m) == p \o SubSeq(frames, 1, m)
           T == {m \in Nat : m <= n => Abstract!Mine(i, k, q(m)) = Abstract!Mine(i, k, p)}
<1>0. n \in Nat /\ \A j \in 1 .. n : frames[j] \in Frame
  OBVIOUS
<1>1. 0 \in T
  <2>1. q(0) = p
    BY SubSeqGrow
  <2> HIDE DEF q
  <2> QED
    BY <2>1
<1>2. ASSUME NEW m \in Nat, m \in T PROVE m + 1 \in T
  <2> SUFFICES ASSUME m + 1 <= n
               PROVE  Abstract!Mine(i, k, q(m + 1)) = Abstract!Mine(i, k, p)
    BY DEF T
  <2>1. m + 1 \in 1 .. n /\ m \in 0 .. n /\ m <= n
    <3> HIDE DEF n
    <3> QED
      BY <1>0
  <2>2. frames[m + 1] \in Frame /\ frames[m + 1].run # i
    BY <1>0, <2>1
  <2>3. q(m) \in Seq(Frame) /\ q(m + 1) = Append(q(m), frames[m + 1])
    BY <2>1, SubSeqGrow
  <2>4. Abstract!Mine(i, k, q(m)) = Abstract!Mine(i, k, p)
    BY <1>2, <2>1
  <2> DEFINE f == frames[m + 1]
  <2> HIDE DEF q, f
  <2>5. Abstract!Mine(i, k, Append(q(m), f)) = Keep(i, k, f, Abstract!Mine(i, k, q(m)))
    BY <2>2, <2>3, MineAppend DEF f
  <2> QED
    BY <2>2, <2>3, <2>4, <2>5 DEF f, Keep
<1>3. Nat \subseteq T
  <2> HIDE DEF T
  <2> QED
    BY <1>1, <1>2, NatSetInduction
<1>4. Abstract!Mine(i, k, q(n)) = Abstract!Mine(i, k, p)
  <2>1. n \in T
    BY <1>0, <1>3
  <2> HIDE DEF q, n
  <2> QED
    BY <1>0, <2>1
<1>5. q(n) = p \o frames
  BY SubSeqGrow
<1> QED
  BY <1>4, <1>5

(* handle_batch of a good writer.                                             *)
LEMMA BatchHandled ==
  ASSUME NEW i, NEW w, NEW p \in Seq(Frame), Progress(i, w, w, p), w.going = TRUE,
         NEW s \in Expected, NEW run, NEW n \in Nat,
         NEW frames \in Seq(Frame), \A j \in 1 .. Len(frames) : frames[j].run = run,
         NEW fault
  PROVE  LET u == HandleBatch(i, w, s, run, n, frames, fault)
         IN  Progress(i, w, u, p \o frames) /\ (run # i => u.errored)
<1>0. w \in WriterType /\ WriterGood(w) /\ Live(w)
      /\ \A k \in Keys : Contents(w, k) = Abstract!Mine(i, k, p)
  BY DEF Progress, WriterGood
<1>1. CASE run # i
  <2> DEFINE u == [w EXCEPT !.run_mismatches = @ + 1, !.errored = TRUE]
  <2>1. HandleBatch(i, w, s, run, n, frames, fault) = u
    BY <1>1 DEF HandleBatch
  <2>2. Same(w, u) /\ u.errored = TRUE
    BY ONLY <1>0, CountersSame, Zenon
  <2> HIDE DEF u
  <2> DEFINE q == p \o frames
  <2>3. q \in Seq(Frame)
    OBVIOUS
  <2>4. \A k \in Keys : Contents(w, k) = Abstract!Mine(i, k, q)
    BY <1>0, <1>1, MineForeign
  <2> HIDE DEF q
  <2>5. Progress(i, w, u, q)
    BY <1>0, <2>2, <2>3, <2>4, SameProgress
  <2> QED
    BY <2>1, <2>2, <2>5 DEF q
<1>2. CASE run = i
  <2> DEFINE v == IF n = w.next_seq[s] THEN w
                  ELSE [w EXCEPT !.seq_gaps = @ + 1, !.errored = TRUE]
             z == [v EXCEPT !.next_seq[s] = n + 1]
  <2>1. HandleBatch(i, w, s, run, n, frames, fault) = WriteAll(z, frames, fault)
    BY <1>2 DEF HandleBatch
  <2>2. Same(w, v)
    <3>1. Same(w, w) /\ Same(w, [w EXCEPT !.seq_gaps = @ + 1, !.errored = TRUE])
      BY ONLY <1>0, CountersSame, Zenon
    <3> QED
      BY <3>1, Zenon
  <2> HIDE DEF v
  <2>3. Same(v, z)
    <3>1. n + 1 \in Nat /\ v \in WriterType
      BY <2>2 DEF Same
    <3> QED
      BY <3>1, CountersSame, Zenon
  <2> HIDE DEF z
  <2>4. Same(w, z)
    BY <2>2, <2>3, SameTrans
  <2>5. Progress(i, w, z, p) /\ Progress(i, z, z, p)
    BY <1>0, <2>4, SameProgress
  <2> DEFINE u == WriteAll(z, frames, fault)
  <2>6. Progress(i, z, u, p \o frames)
    BY <1>2, <2>5, BatchWritten
  <2> HIDE DEF u
  <2>7. \A k \in Keys : Contents(z, k) = Contents(w, k)
    BY <1>0, <2>4, SameGood
  <2>8. Progress(i, w, u, p \o frames)
    BY <2>4, <2>6, <2>7 DEF Progress, Same
  <2> QED
    BY <1>2, <2>1, <2>8 DEF u
<1> QED
  BY <1>1, <1>2

(* What a step of thread i that takes a message comes to.                     *)
Took(i) ==
  /\ thread[i].pc = "consume"
  /\ writer' = [writer EXCEPT ![i] = writer'[i]]
  /\ Progress(i, writer[i], writer'[i], pulled'[i])
  /\ thread'[i].pc \in {"consume", "finalize"}
  /\ \A j \in Starts \ {i} : thread'[j] = thread[j] /\ pulled'[j] = pulled[j]
  /\ IsPrefix(pulled[i], pulled'[i])

(* A batch of frames keeps the invariant.                                     *)
LEMMA DataStep ==
  ASSUME GInv, NEW i \in Starts, ConsumeData(i)
  PROVE  GInv' /\ Took(i)
<1>0. thread[i].pc = "consume" /\ gw' = gw /\ starts' = starts /\ ended' = ended
  BY DEF ConsumeData, Consuming
<1>1. PICK s \in Expected, kinds \in {<<"ctrl">>, <<"asad", "asad">>},
           run \in 1 .. starts, skip \in {0, 1} :
        LET frames == [j \in DOMAIN kinds |-> [key |-> <<s, kinds[j]>>, run |-> run,
                                               n |-> Len(pulled[i]) + j]]
        IN  /\ pulled' = [pulled EXCEPT ![i] = @ \o frames]
            /\ \E fault \in FaultChoices(frames) :
                 Iteration(i, HandleBatch(i, writer[i], s, run,
                                writer[i].next_seq[s] + skip, frames, fault),
                           thread[i].eos, IF run # i THEN 1 ELSE skip)
  BY DEF ConsumeData
<1> DEFINE p == pulled[i]
           frames == [j \in DOMAIN kinds |-> [key |-> <<s, kinds[j]>>, run |-> run,
                                              n |-> Len(p) + j]]
           w == writer[i]
           n == w.next_seq[s] + skip
           odd == IF run # i THEN 1 ELSE skip
<1>2. PICK fault : Iteration(i, HandleBatch(i, w, s, run, n, frames, fault), thread[i].eos, odd)
  BY <1>1
<1>3. pulled' = [pulled EXCEPT ![i] = p \o frames]
  BY <1>1
<1>4. GTypes /\ ThreadGood(i) /\ p \in Seq(Frame) /\ w \in WriterType /\ Same(w, w)
  BY CountersSame DEF GInv, GTypes
<1>5. /\ Progress(i, w, w, p) /\ thread[i].eos = ended[i] /\ ended[i] \in SUBSET Expected
      /\ \A m \in DOMAIN p : p[m].run # i => w.errored
  BY <1>0, <1>4, ReadyToConsume
<1>6. w.going = TRUE
  BY <1>0, <1>4 DEF ThreadGood
<1>7. n \in Nat /\ odd \in Nat
  <2>1. w.next_seq[s] \in Nat
    BY <1>4 DEF WriterType
  <2> QED
    BY <2>1
<1>8. frames \in Seq(Frame) /\ \A j \in 1 .. Len(frames) : frames[j].run = run
  <2>0. Len(p) \in Nat /\ run \in Starts
    <3>1. starts \in 0 .. MaxStarts
      BY <1>4 DEF GTypes
    <3> QED
      BY <1>4, <3>1, GrawAssumption DEF Starts
  <2>1. /\ DOMAIN kinds = 1 .. Len(kinds) /\ Len(kinds) \in Nat
        /\ \A j \in 1 .. Len(kinds) : kinds[j] \in Kinds
    BY DEF Kinds
  <2> DEFINE fr(j) == [key |-> <<s, kinds[j]>>, run |-> run, n |-> Len(p) + j]
  <2>2. ASSUME NEW j \in 1 .. Len(kinds) PROVE fr(j) \in Frame /\ fr(j).run = run
    <3>1. <<s, kinds[j]>> \in Keys
      BY <2>1 DEF Keys
    <3>2. Len(p) + j \in Nat
      BY <2>0, <2>1
    <3> QED
      BY <2>0, <3>1, <3>2 DEF Frame
  <2>3. frames = [j \in 1 .. Len(kinds) |-> fr(j)]
    BY <2>1
  <2> HIDE DEF fr, frames
  <2>4. frames \in Seq(Frame) /\ Len(frames) = Len(kinds)
    BY <2>1, <2>2, <2>3
  <2> QED
    BY <2>2, <2>3, <2>4
<1> DEFINE u == HandleBatch(i, w, s, run, n, frames, fault)
           q == p \o frames
           e == ended[i]
<1> HIDE DEF frames, n
<1>9. Progress(i, w, u, q) /\ (run # i => u.errored)
  BY <1>4, <1>5, <1>6, <1>7, <1>8, BatchHandled
<1>10. q \in Seq(Frame) /\ IsPrefix(p, q)
  BY <1>4, <1>8, PrefixFacts
<1>11. \A m \in DOMAIN q : q[m].run # i => u.errored
  <2> SUFFICES ASSUME NEW m \in DOMAIN q, q[m].run # i PROVE u.errored
    OBVIOUS
  <2>1. CASE m \in 1 .. Len(p)
    <3>1. m \in DOMAIN p /\ q[m] = p[m]
      BY <1>4, <1>8, <2>1
    <3>2. w.errored
      BY <1>5, <3>1
    <3> QED
      BY <1>9, <3>2 DEF Progress
  <2>2. CASE m \notin 1 .. Len(p)
    <3>1. m - Len(p) \in 1 .. Len(frames) /\ q[m] = frames[m - Len(p)]
      BY <1>4, <1>8, <2>2
    <3>2. run # i
      BY <1>8, <3>1
    <3> QED
      BY <1>9, <3>2
  <2> QED
    BY <2>1, <2>2
<1>12. e \in SUBSET Expected /\ ended' = [ended EXCEPT ![i] = e] /\ Iteration(i, u, e, odd)
       /\ pulled' = [pulled EXCEPT ![i] = q]
  BY <1>0, <1>2, <1>3, <1>4, <1>5 DEF GTypes
<1>13. pulled'[i] = q /\ \A j \in Starts \ {i} : pulled'[j] = pulled[j]
  BY <1>4, <1>12 DEF GTypes
<1> HIDE DEF u, q, e, odd
<1>14. /\ GInv'
       /\ writer' = [writer EXCEPT ![i] = writer'[i]]
       /\ Progress(i, writer[i], writer'[i], q)
       /\ thread'[i].pc \in {"consume", "finalize"}
       /\ \A j \in Starts \ {i} : thread'[j] = thread[j]
  BY <1>0, <1>7, <1>9, <1>10, <1>11, <1>12, ConsumeGood DEF w
<1> QED
  BY <1>0, <1>10, <1>13, <1>14 DEF Took

(* An end-of-stream marker keeps the invariant.                               *)
LEMMA EosStep ==
  ASSUME GInv, NEW i \in Starts, ConsumeEos(i)
  PROVE  GInv' /\ Took(i)
<1>0. thread[i].pc = "consume" /\ UNCHANGED <<gw, starts, pulled>>
  BY DEF ConsumeEos, Consuming
<1>1. PICK s \in Expected \cup {Stray}, run \in 1 .. starts :
        /\ CASE run # i ->
                  Iteration(i, [writer[i] EXCEPT !.run_mismatches = @ + 1], thread[i].eos, 1)
             [] run = i /\ s \notin Expected ->
                  Iteration(i, [writer[i] EXCEPT !.unexpected_sources = @ + 1], thread[i].eos, 1)
             [] run = i /\ s \in Expected ->
                  Iteration(i, writer[i], thread[i].eos \cup {s}, 0)
        /\ ended' = Ended(i, s, run)
  BY DEF ConsumeEos
<1> DEFINE w == writer[i]
<1>2. GTypes /\ w \in WriterType /\ thread[i].eos = ended[i] /\ ended[i] \in SUBSET Expected
  BY DEF GInv, GTypes, ThreadGood
<1>3. /\ Same(w, w) /\ Same(w, [w EXCEPT !.run_mismatches = @ + 1])
      /\ Same(w, [w EXCEPT !.unexpected_sources = @ + 1])
  BY <1>2, CountersSame, Zenon
<1>4. PICK u \in WriterType, e \in SUBSET Expected, odd \in Nat :
        Same(w, u) /\ Iteration(i, u, e, odd) /\ ended' = [ended EXCEPT ![i] = e]
  <2>0. 0 \in Nat /\ 1 \in Nat
    OBVIOUS
  <2>1. CASE run # i
    <3> DEFINE u == [w EXCEPT !.run_mismatches = @ + 1]
    <3>1. Iteration(i, u, ended[i], 1)
      BY <1>1, <1>2, <2>1
    <3>2. ended' = [ended EXCEPT ![i] = ended[i]]
      BY <1>1, <2>1 DEF Ended
    <3>3. Same(w, u) /\ u \in WriterType
      BY <1>3 DEF Same
    <3> HIDE DEF u
    <3> QED
      BY <1>2, <2>0, <3>1, <3>2, <3>3
  <2>2. CASE run = i /\ s \notin Expected
    <3> DEFINE u == [w EXCEPT !.unexpected_sources = @ + 1]
    <3>1. Iteration(i, u, ended[i], 1)
      BY <1>1, <1>2, <2>2
    <3>2. ended' = [ended EXCEPT ![i] = ended[i]]
      <4>1. ended[i] \cup ({s} \cap Expected) = ended[i]
        BY <2>2
      <4> QED
        BY <1>1, <2>2, <4>1 DEF Ended
    <3>3. Same(w, u) /\ u \in WriterType
      BY <1>3 DEF Same
    <3> HIDE DEF u
    <3> QED
      BY <1>2, <2>0, <3>1, <3>2, <3>3
  <2>3. CASE run = i /\ s \in Expected
    <3> DEFINE e == ended[i] \cup {s}
    <3>1. Iteration(i, w, e, 0)
      BY <1>1, <1>2, <2>3
    <3>2. ended' = [ended EXCEPT ![i] = e]
      <4>1. ended[i] \cup ({s} \cap Expected) = e
        BY <2>3
      <4> QED
        BY <1>1, <2>3, <4>1 DEF Ended
    <3>3. e \in SUBSET Expected
      BY <1>2, <2>3
    <3> HIDE DEF e
    <3> QED
      BY <1>2, <1>3, <2>0, <3>1, <3>2, <3>3
  <2> QED
    BY <2>1, <2>2, <2>3
<1> QED
  BY <1>0, <1>4, CounterStep DEF Took

(* A heartbeat or an undecodable message keeps the invariant.                 *)
LEMMA OtherStep ==
  ASSUME GInv, NEW i \in Starts, ConsumeOther(i)
  PROVE  GInv' /\ Took(i)
<1>0. thread[i].pc = "consume" /\ UNCHANGED <<gw, starts, pulled>> /\ ended' = ended
  BY DEF ConsumeOther, Consuming
<1> DEFINE w == writer[i]
           e == ended[i]
<1>1. GTypes /\ w \in WriterType /\ thread[i].eos = e /\ e \in SUBSET Expected
  BY DEF GInv, GTypes, ThreadGood
<1>2. Same(w, [w EXCEPT !.heartbeats_in = @ + 1]) /\ Same(w, [w EXCEPT !.decode_errors = @ + 1])
  BY <1>1, CountersSame, Zenon
<1>3. PICK u : Same(w, u) /\ Iteration(i, u, e, 1)
  BY <1>1, <1>2 DEF ConsumeOther
<1>4. ended' = [ended EXCEPT ![i] = e] /\ 1 \in Nat
  BY <1>0, <1>1 DEF GTypes
<1> QED
  BY <1>0, <1>1, <1>3, <1>4, CounterStep DEF Took

(* Steps that touch neither writers nor histories.                            *)
LEMMA QuietStep ==
  ASSUME GInv, UNCHANGED <<writer, pulled, ended, faults>>,
         gw' \in [state : States, pull : BOOLEAN, cur : {0} \cup Starts, stop_tx : {0} \cup Starts],
         starts' \in 0 .. MaxStarts, starts' >= starts,
         thread' \in [Starts -> [pc : {"off", "consume", "finalize", "done"}, stop : BOOLEAN,
                                 eos : SUBSET Expected, msgs : Nat]],
         \A j \in Starts : /\ thread'[j].eos = thread[j].eos
                           /\ thread[j].stop = TRUE => thread'[j].stop = TRUE
                           /\ thread'[j].pc = thread[j].pc
  PROVE  GInv'
<1>1. GTypes'
  BY DEF GInv, GTypes
<1>2. ASSUME NEW j \in Starts PROVE ThreadGood(j)'
  <2>1. Quiet(j)
    BY DEF Quiet
  <2>2. ThreadGood(j)
    BY DEF GInv
  <2>3. j > starts' => j > starts
    BY <1>1, GrawAssumption DEF GInv, GTypes, Starts
  <2> QED
    BY <2>1, <2>2, <2>3, QuietThread
<1> QED
  BY <1>1, <1>2 DEF GInv

(* The state of a writer thread.                                              *)
ThreadRecord == [pc : {"off", "consume", "finalize", "done"}, stop : BOOLEAN,
                 eos : SUBSET Expected, msgs : Nat]

(* The state the component shows is a state.                                  *)
LEMMA LatchedState == ASSUME GInv PROVE GrawLatched \in States
BY DEF GInv, GTypes, GrawLatched, States

(* A thread that sees the stop signal leaves its loop and touches no file.    *)
LEMMA StopSeen ==
  ASSUME GInv, NEW i \in Starts, ConsumeStop(i)
  PROVE  /\ GInv' /\ UNCHANGED <<writer, pulled>>
         /\ thread[i].pc = "consume" /\ thread'[i].pc = "finalize"
         /\ \A j \in Starts \ {i} : thread'[j] = thread[j]
<1>1. /\ thread[i].pc = "consume" /\ thread[i].stop = TRUE
      /\ thread' = [thread EXCEPT ![i].pc = "finalize"]
      /\ UNCHANGED <<gw, starts, writer, pulled, ended, faults>>
  <2>1. thread[i].stop \in BOOLEAN
    BY DEF GInv, GTypes
  <2> QED
    BY <2>1 DEF ConsumeStop
<1>2. thread \in [Starts -> ThreadRecord] /\ GTypes /\ \A j \in Starts : ThreadGood(j)
  BY DEF GInv, GTypes, ThreadRecord
<1>3. /\ thread' \in [Starts -> ThreadRecord]
      /\ thread'[i].pc = "finalize" /\ thread'[i].stop = TRUE /\ thread'[i].eos = thread[i].eos
      /\ \A j \in Starts \ {i} : thread'[j] = thread[j]
  BY <1>1, <1>2 DEF ThreadRecord
<1>4. GTypes'
  BY <1>1, <1>2, <1>3 DEF GTypes, ThreadRecord
<1>5. ThreadGood(i)'
  <2>1. Streams(i)' /\ Foreign(i)' /\ WriterGood(writer[i])' /\ Live(writer[i])'
    BY <1>1, <1>2 DEF ThreadGood, Streams, Foreign
  <2>2. ~(i > starts)
    BY <1>1, <1>2 DEF ThreadGood
  <2> QED
    BY <1>1, <1>2, <1>3, <2>1, <2>2 DEF ThreadGood
<1>6. ASSUME NEW j \in Starts \ {i} PROVE ThreadGood(j)'
  <2>1. Quiet(j)
    BY <1>1, <1>3 DEF Quiet
  <2> QED
    BY <1>1, <1>2, <2>1, QuietThread
<1> QED
  BY <1>1, <1>3, <1>4, <1>5, <1>6 DEF GInv

(* Finalize keeps the invariant and changes no data of any run.               *)
LEMMA FinalizeStep ==
  ASSUME GInv, NEW i \in Starts, Finalize(i)
  PROVE  /\ GInv' /\ pulled' = pulled
         /\ thread[i].pc = "finalize" /\ thread'[i].pc = "done"
         /\ \A j \in Starts \ {i} : thread'[j] = thread[j] /\ writer'[j] = writer[j]
         /\ \A k \in Keys : Contents(writer'[i], k) = Contents(writer[i], k)
         /\ \E b \in BOOLEAN : writer'[i].errored = (writer[i].errored \/ b)
<1>1. PICK bad \in SUBSET {k \in Keys : writer[i].files[k].open} :
        /\ faults + Cardinality(bad) <= MaxFaults
        /\ faults' = faults + Cardinality(bad)
        /\ writer' = [writer EXCEPT ![i] = Finalized(@, bad)]
  BY DEF Finalize
<1>2. /\ thread[i].pc = "finalize" /\ thread' = [thread EXCEPT ![i].pc = "done"]
      /\ UNCHANGED <<gw, starts, pulled, ended>>
  BY DEF Finalize
<1>3. thread \in [Starts -> ThreadRecord] /\ GTypes /\ \A j \in Starts : ThreadGood(j)
  BY DEF GInv, GTypes, ThreadRecord
<1>4. /\ thread' \in [Starts -> ThreadRecord]
      /\ thread'[i].pc = "done" /\ thread'[i].stop = thread[i].stop
      /\ thread'[i].eos = thread[i].eos
      /\ \A j \in Starts \ {i} : thread'[j] = thread[j]
  BY <1>2, <1>3 DEF ThreadRecord
<1> DEFINE w == writer[i]
           u == Finalized(w, bad)
<1>5. /\ WriterGood(u) /\ AllClosed(u) /\ u.going = w.going
      /\ u.errored = (w.errored \/ bad # {})
      /\ \A k \in Keys : Contents(u, k) = Contents(w, k)
  <2>1. WriterGood(w)
    BY <1>3 DEF ThreadGood
  <2> HIDE DEF w
  <2>2. bad \in SUBSET {k \in Keys : w.files[k].open}
    BY DEF w
  <2> QED
    BY <2>1, <2>2, FinalizedGood
<1> HIDE DEF u
<1>6. writer' = [writer EXCEPT ![i] = u] /\ u \in WriterType
  BY <1>1, <1>5 DEF u, WriterGood
<1>7. /\ writer'[i] = u /\ \A j \in Starts \ {i} : writer'[j] = writer[j]
      /\ writer' \in [Starts -> WriterType]
  BY <1>3, <1>6 DEF GTypes
<1>8. faults' \in 0 .. MaxFaults
  <2>1. Cardinality(bad) \in Nat
    <3>1. bad \in SUBSET Keys
      OBVIOUS
    <3> QED
      BY <3>1, KeysFinite
  <2>2. faults \in Nat
    BY <1>3, GrawAssumption DEF GTypes
  <2> QED
    BY <1>1, <2>1, <2>2, GrawAssumption
<1>9. GTypes'
  BY <1>2, <1>3, <1>4, <1>7, <1>8 DEF GTypes, ThreadRecord
<1>10. ThreadGood(i)'
  <2>1. Streams(i)'
    BY <1>2, <1>3, <1>5, <1>7 DEF ThreadGood, Streams
  <2>2. Foreign(i)'
    BY <1>2, <1>3, <1>5, <1>7 DEF ThreadGood, Foreign
  <2>3. ~(i > starts)
    BY <1>2, <1>3 DEF ThreadGood
  <2>4. WriterGood(writer[i])' /\ AllClosed(writer[i])'
    BY <1>5, <1>7
  <2>5. thread[i].stop = TRUE \/ writer[i].going = FALSE \/ ended[i] = Expected
    BY <1>2, <1>3 DEF ThreadGood
  <2>6. thread[i].eos = ended[i]
    BY <1>3 DEF ThreadGood
  <2> QED
    BY <1>2, <1>4, <1>5, <1>7, <2>1, <2>2, <2>3, <2>4, <2>5, <2>6 DEF ThreadGood
<1>11. ASSUME NEW j \in Starts \ {i} PROVE ThreadGood(j)'
  <2>1. Quiet(j)
    BY <1>2, <1>4, <1>7 DEF Quiet
  <2> QED
    BY <1>2, <1>3, <2>1, QuietThread
<1>12. \E b \in BOOLEAN : u.errored = (w.errored \/ b)
  <2> DEFINE b == (bad # {})
  <2>1. b \in BOOLEAN /\ u.errored = (w.errored \/ b)
    BY <1>5
  <2> HIDE DEF b
  <2> QED
    BY <2>1
<1> QED
  BY <1>2, <1>4, <1>5, <1>7, <1>9, <1>10, <1>11, <1>12 DEF GInv

(* Signalling a thread only raises its stop flag.                             *)
LEMMA SignalFacts ==
  ASSUME GInv
  PROVE  /\ SignalWriter \in [Starts -> ThreadRecord]
         /\ \A j \in Starts : /\ SignalWriter[j].pc = thread[j].pc
                              /\ SignalWriter[j].eos = thread[j].eos
                              /\ thread[j].stop = TRUE => SignalWriter[j].stop = TRUE
<1>1. thread \in [Starts -> ThreadRecord] /\ gw.stop_tx \in {0} \cup Starts
  BY DEF GInv, GTypes, ThreadRecord
<1>2. CASE gw.stop_tx = 0
  BY <1>1, <1>2 DEF SignalWriter
<1>3. CASE gw.stop_tx # 0
  <2> DEFINE n == gw.stop_tx
  <2>1. n \in Starts /\ SignalWriter = [thread EXCEPT ![n].stop = TRUE]
    BY <1>1, <1>3 DEF SignalWriter
  <2> HIDE DEF n
  <2>2. [thread EXCEPT ![n].stop = TRUE] = [thread EXCEPT ![n] = [thread[n] EXCEPT !.stop = TRUE]]
    OBVIOUS
  <2> DEFINE t == [thread[n] EXCEPT !.stop = TRUE]
  <2>3. t \in ThreadRecord /\ t.pc = thread[n].pc /\ t.eos = thread[n].eos /\ t.stop = TRUE
    <3>1. thread[n] \in ThreadRecord
      BY <1>1, <2>1
    <3> QED
      BY <3>1 DEF ThreadRecord
  <2> HIDE DEF t
  <2>4. SignalWriter = [thread EXCEPT ![n] = t]
    BY <2>1, <2>2 DEF t
  <2> QED
    BY <1>1, <2>1, <2>3, <2>4
<1> QED
  BY <1>2, <1>3

(* The command handler's steps other than Start.                              *)
Commanding == GrawStatus \/ GrawConfigure \/ GrawArm \/ GrawStop \/ GrawReset

(* A command other than Start touches no run but for its stop flag.           *)
LEMMA CommandStep ==
  ASSUME GInv, Commanding
  PROVE  /\ GInv' /\ UNCHANGED <<writer, pulled>>
         /\ \A j \in Starts : thread'[j].pc = thread[j].pc
<1> DEFINE GW == [state : States, pull : BOOLEAN, cur : {0} \cup Starts, stop_tx : {0} \cup Starts]
<1>0. gw \in GW /\ starts \in 0 .. MaxStarts /\ thread \in [Starts -> ThreadRecord]
      /\ GrawLatched \in States
  BY LatchedState DEF GInv, GTypes, ThreadRecord
<1>1. UNCHANGED <<starts, writer, pulled, ended, faults>>
  BY DEF Commanding, GrawStatus, GrawConfigure, GrawArm, GrawStop, GrawReset
<1>2. gw' \in GW
  <2>1. CASE GrawStatus
    BY <1>0, <2>1 DEF GrawStatus
  <2>2. CASE GrawConfigure
    BY <1>0, <2>2 DEF GrawConfigure, States
  <2>3. CASE GrawArm
    BY <1>0, <2>3 DEF GrawArm, States
  <2>4. CASE GrawStop
    BY <1>0, <2>4 DEF GrawStop, States
  <2>5. CASE GrawReset
    BY <1>0, <2>5 DEF GrawReset, States
  <2> QED
    BY <2>1, <2>2, <2>3, <2>4, <2>5 DEF Commanding
<1>3. thread' = thread \/ thread' = SignalWriter
  BY DEF Commanding, GrawStatus, GrawConfigure, GrawArm, GrawStop, GrawReset
<1>4. /\ thread' \in [Starts -> ThreadRecord]
      /\ \A j \in Starts : /\ thread'[j].pc = thread[j].pc
                           /\ thread'[j].eos = thread[j].eos
                           /\ thread[j].stop = TRUE => thread'[j].stop = TRUE
  BY <1>0, <1>3, SignalFacts
<1>5. starts' \in 0 .. MaxStarts /\ starts' >= starts
  BY <1>0, <1>1, GrawAssumption
<1>6. GInv'
  BY <1>1, <1>2, <1>4, <1>5, QuietStep DEF ThreadRecord
<1> QED
  BY <1>1, <1>4, <1>6

(* Start hands a run that was never used to a new thread.                     *)
LEMMA StartStep ==
  ASSUME GInv, GrawStart
  PROVE  /\ GInv' /\ UNCHANGED <<writer, pulled>>
         /\ starts + 1 \in Starts
         /\ thread[starts + 1].pc = "off" /\ thread'[starts + 1].pc = "consume"
         /\ \A j \in Starts \ {starts + 1} : thread'[j] = thread[j]
<1>0. /\ starts < MaxStarts /\ starts \in Nat /\ starts + 1 \in Starts
      /\ starts' = starts + 1 /\ starts' \in 0 .. MaxStarts
  <2>1. starts < MaxStarts /\ starts \in 0 .. MaxStarts /\ starts' = starts + 1
    BY DEF GrawStart, GInv, GTypes
  <2> QED
    BY <2>1, GrawAssumption DEF Starts
<1> PICK i \in Starts : i = starts + 1
  BY <1>0
<1>1. /\ starts < MaxStarts /\ starts' = starts + 1
      /\ gw' = [state |-> "Running", pull |-> FALSE, cur |-> i, stop_tx |-> i]
      /\ thread' = [thread EXCEPT ![i].pc = "consume"]
      /\ UNCHANGED <<writer, pulled, ended, faults>>
  BY DEF GrawStart
<1>2. thread \in [Starts -> ThreadRecord] /\ GTypes /\ \A j \in Starts : ThreadGood(j)
  BY DEF GInv, GTypes, ThreadRecord
<1>3. i \in Starts /\ i > starts /\ starts \in Nat /\ ~(i > starts') /\ starts' \in 0 .. MaxStarts
  BY <1>0
<1>4. /\ thread' \in [Starts -> ThreadRecord]
      /\ thread'[i].pc = "consume" /\ thread'[i].eos = thread[i].eos
      /\ thread'[i].stop = thread[i].stop
      /\ \A j \in Starts \ {i} : thread'[j] = thread[j]
  BY <1>1, <1>2, <1>3 DEF ThreadRecord
<1>5. gw' \in [state : States, pull : BOOLEAN, cur : {0} \cup Starts, stop_tx : {0} \cup Starts]
  BY <1>1, <1>3 DEF States
<1>6. GTypes'
  BY <1>1, <1>2, <1>3, <1>4, <1>5 DEF GTypes, ThreadRecord
<1>7. thread[i].pc = "off"
  BY <1>2, <1>3 DEF ThreadGood
<1>8. ThreadGood(i)'
  <2>1. Streams(i)' /\ Foreign(i)' /\ WriterGood(writer[i])' /\ Live(writer[i])'
    BY <1>1, <1>2, <1>3, <1>7 DEF ThreadGood, Streams, Foreign
  <2>2. writer[i].going = TRUE /\ thread[i].eos = ended[i]
    BY <1>2, <1>3, <1>7 DEF ThreadGood
  <2> QED
    BY <1>1, <1>3, <1>4, <2>1, <2>2 DEF ThreadGood
<1>9. ASSUME NEW j \in Starts \ {i} PROVE ThreadGood(j)'
  <2>1. Quiet(j)
    BY <1>1, <1>4 DEF Quiet
  <2>2. j > starts' => j > starts
    BY <1>1, <1>3 DEF Starts
  <2> QED
    BY <1>2, <2>1, <2>2, QuietThread
<1> QED
  BY <1>1, <1>3, <1>4, <1>6, <1>7, <1>8, <1>9 DEF GInv

(* Every step keeps the invariant.                                            *)
LEMMA InvStep == GInv /\ [GrawNext]_grawVars => GInv'
<1> SUFFICES ASSUME GInv, [GrawNext]_grawVars PROVE GInv'
  OBVIOUS
<1>1. CASE UNCHANGED grawVars
  BY <1>1 DEF GInv, GTypes, ThreadGood, Streams, Foreign, grawVars
<1>2. CASE Commanding
  BY <1>2, CommandStep
<1>3. CASE GrawStart
  BY <1>3, StartStep
<1>4. ASSUME NEW i \in Starts, GrawThread(i) PROVE GInv'
  BY <1>4, DataStep, EosStep, OtherStep, StopSeen, FinalizeStep DEF GrawThread
<1> QED
  BY <1>1, <1>2, <1>3, <1>4 DEF GrawNext, Commanding

(* The inductive invariant holds in every reachable state, for any number of  *)
(* sources, starts, messages and failures and any rotation limit.             *)
THEOREM GrawInvariant == GrawSpec => []GInv
<1>1. GrawInit => GInv
  BY InitGood
<1>2. GInv /\ [GrawNext]_grawVars => GInv'
  BY InvStep
<1> QED
  BY <1>1, <1>2, PTL DEF GrawSpec

(* The invariant gives the properties of the files.                           *)
LEMMA GoodFiles == GInv => FilesSound
<1> SUFFICES ASSUME GInv PROVE FilesSound
  OBVIOUS
<1>0. GTypes /\ \A i \in Starts : ThreadGood(i)
  BY DEF GInv
<1>1. GrawTypeOK
  <2>1. ASSUME NEW i \in Starts
        PROVE  /\ \A c \in Counted : writer[i][c] \in Nat
               /\ writer[i].next_seq \in [Expected -> Nat]
               /\ writer[i].errored \in BOOLEAN /\ writer[i].going \in BOOLEAN
    <3>1. writer[i] \in WriterType
      BY <1>0 DEF GTypes
    <3> QED
      BY <3>1 DEF WriterType, Counted
  <2> QED
    BY <1>0, <2>1 DEF GTypes, GrawTypeOK
<1>2. FilesAreTheStream
  <2> SUFFICES ASSUME NEW i \in Starts, NEW k \in Keys
               PROVE  /\ IsPrefix(Written(i, k), OwnFrames(i, k))
                      /\ writer[i].write_errors = 0 => Written(i, k) = OwnFrames(i, k)
                      /\ \A n \in DOMAIN pulled[i] : pulled[i][n].run # i => writer[i].errored
    BY DEF FilesAreTheStream
  <2>1. Written(i, k) = Contents(writer[i], k) /\ OwnFrames(i, k) = Abstract!Mine(i, k, pulled[i])
    BY WrittenIsContents DEF OwnFrames
  <2>2. ThreadGood(i) /\ Streams(i) /\ Foreign(i) /\ Verdict(writer[i])
    BY <1>0 DEF ThreadGood, WriterGood
  <2>3. writer[i].write_errors = 0 => writer[i].going = TRUE
    <3>1. writer[i].going \in BOOLEAN
      BY <1>0 DEF GTypes, WriterType
    <3>2. writer[i].write_errors = 0 => ~(writer[i].write_errors > 0)
      OBVIOUS
    <3> QED
      BY <2>2, <3>1, <3>2 DEF Verdict
  <2> QED
    BY <2>1, <2>2, <2>3 DEF Streams, Foreign
<1>3. RotationLayout
  <2> SUFFICES ASSUME NEW i \in Starts, NEW k \in Keys
               PROVE  LET c == writer[i].closed[k]
                          full == {j \in DOMAIN c : j < Len(c) \/ writer[i].files[k].open}
                      IN  /\ \A j \in DOMAIN c : c[j].idx = j - 1
                          /\ writer[i].files[k].open => writer[i].files[k].idx = Len(c)
                          /\ \A j \in full : Len(c[j].data) = MaxFileBytes + 1
    BY DEF RotationLayout
  <2>1. Layout(writer[i].closed[k], writer[i].files[k])
    BY <1>0 DEF ThreadGood, WriterGood, KeyGood
  <2> QED
    BY <2>1 DEF Layout
<1> QED
  BY <1>1, <1>2, <1>3 DEF FilesSound

(* The invariant gives the properties of the closing.                         *)
LEMMA GoodClosing == GInv => ClosingSound
<1> SUFFICES ASSUME GInv PROVE ClosingSound
  OBVIOUS
<1>0. GTypes /\ \A i \in Starts : ThreadGood(i)
  BY DEF GInv
<1>1. ClosedMeansDurable
  <2> SUFFICES ASSUME NEW i \in Starts, thread[i].pc = "done"
               PROVE  /\ FilesOpen(writer[i]) = 0
                      /\ (\E k \in Keys : \E j \in DOMAIN writer[i].closed[k] :
                            writer[i].closed[k][j].torn \/ ~writer[i].closed[k][j].synced)
                         => writer[i].errored /\ writer[i].write_errors > 0
    BY DEF ClosedMeansDurable
  <2>1. AllClosed(writer[i]) /\ WriterGood(writer[i])
    BY <1>0 DEF ThreadGood
  <2>2. {k \in Keys : writer[i].files[k].open} = {}
    BY <2>1, NewFileType DEF AllClosed
  <2>3. FilesOpen(writer[i]) = 0
    <3>1. Cardinality({}) = 0
      BY FS_EmptySet
    <3> QED
      BY <2>2, <3>1 DEF FilesOpen
  <2>4. ASSUME NEW k \in Keys, NEW j \in DOMAIN writer[i].closed[k],
               writer[i].closed[k][j].torn \/ ~writer[i].closed[k][j].synced
        PROVE  writer[i].errored /\ writer[i].write_errors > 0
    <3>1. Healthy(writer[i], k) /\ Verdict(writer[i])
      BY <2>1 DEF WriterGood, KeyGood
    <3> QED
      BY <2>4, <3>1 DEF Healthy, Verdict
  <2> QED
    BY <2>3, <2>4
<1>2. ClosedByOwnEos
  <2> SUFFICES ASSUME NEW i \in Starts, thread[i].pc \in {"finalize", "done"}
               PROVE  thread[i].stop \/ ~writer[i].going \/ ended[i] = Expected
    BY DEF ClosedByOwnEos
  <2> QED
    BY <1>0 DEF ThreadGood
<1> QED
  BY <1>1, <1>2 DEF ClosingSound

(* Rotation, failed creates, torn writes, failed flushes and late threads     *)
(* neither lose, repeat nor reorder what a run pulled without the error latch *)
(* showing it, never let frames of another run into its files, and number the *)
(* files without a hole (write_to, rotate, handle_batch).                     *)
THEOREM FilesProved == GrawSpec => []FilesSound
<1>1. GrawSpec => []GInv
  BY GrawInvariant
<1>2. GInv => FilesSound
  BY GoodFiles
<1> QED
  BY <1>1, <1>2, PTL

(* A finished thread has closed every file, a file that is torn or was not    *)
(* synced shows in the error latch, and a thread left its loop only for a     *)
(* stop, a failed write or the end markers of all sources (finalize, the      *)
(* consume loop).                                                             *)
THEOREM ClosingProved == GrawSpec => []ClosingSound
<1>1. GrawSpec => []GInv
  BY GrawInvariant
<1>2. GInv => ClosingSound
  BY GoodClosing
<1> QED
  BY <1>1, <1>2, PTL

(* The initial states are initial states of Archive.                          *)
LEMMA ArchiveStarts == GrawInit /\ GInv => Abstract!ArchiveInit
<1> SUFFICES ASSUME GrawInit, GInv PROVE Abstract!ArchiveInit
  OBVIOUS
<1>1. ASSUME NEW i \in Starts
      PROVE  /\ Phase(i) = "unborn" /\ pulled[i] = << >> /\ writer[i].errored = FALSE
             /\ \A k \in Keys : Written(i, k) = << >>
  <2>1. thread[i].pc = "off" /\ pulled[i] = << >> /\ writer[i] = NewWriter
    BY DEF GrawInit
  <2>2. Phase(i) = "unborn"
    BY <2>1 DEF Phase
  <2>3. NewWriter.errored = FALSE /\ NewWriter.going = TRUE
    BY DEF NewWriter
  <2>4. ASSUME NEW k \in Keys PROVE Written(i, k) = << >>
    <3>1. Contents(writer[i], k) = Abstract!Mine(i, k, << >>)
      BY <2>1, <2>3 DEF GInv, ThreadGood, Streams
    <3> QED
      BY <3>1, WrittenIsContents, MineEmpty
  <2> QED
    BY <2>1, <2>2, <2>3, <2>4
<1>2. pulled = [i \in Starts |-> << >>]
  BY DEF GrawInit
<1> QED
  BY <1>1, <1>2 DEF Abstract!ArchiveInit

(* A thread that took a message takes it in Archive.                          *)
LEMMA ArchiveTakes ==
  ASSUME GInv, GInv', NEW i \in Starts, Took(i)
  PROVE  Abstract!Take(i)
<1>0. GTypes /\ GTypes' /\ ThreadGood(i)' /\ writer'[i] \in WriterType
  BY DEF GInv, GTypes
<1>1. \A j \in Starts : Phase(j)' = Phase(j)
  <2> TAKE j \in Starts
  <2>1. CASE j = i
    BY <2>1 DEF Took, Phase
  <2>2. CASE j # i
    BY <2>2 DEF Took, Phase
  <2> QED
    BY <2>1, <2>2
<1>2. Phase(i) = "open"
  BY DEF Took, Phase
<1>3. \A j \in Starts \ {i} : writer'[j] = writer[j] /\ pulled'[j] = pulled[j]
  BY <1>0 DEF Took, GTypes
<1>4. \A j \in Starts, k \in Keys : /\ Written(j, k) = Contents(writer[j], k)
                                    /\ Written(j, k)' = Contents(writer[j], k)'
  BY DEF Written, Contents, Text
<1>5. \A j \in Starts \ {i}, k \in Keys : Written(j, k)' = Written(j, k)
  BY <1>3, <1>4
<1>6. ASSUME NEW k \in Keys
      PROVE  /\ IsPrefix(Written(i, k), Written(i, k)')
             /\ IsPrefix(Written(i, k)', Abstract!Mine(i, k, pulled'[i]))
             /\ ~writer'[i].errored => Written(i, k)' = Abstract!Mine(i, k, pulled'[i])
  <2>1. Progress(i, writer[i], writer'[i], pulled'[i])
    BY DEF Took
  <2>2. ~writer'[i].errored => writer'[i].going = TRUE
    <3>1. Verdict(writer'[i]) /\ writer'[i].going \in BOOLEAN
      BY <1>0, <2>1 DEF Progress, WriterGood, WriterType
    <3> QED
      BY <3>1 DEF Verdict
  <2>3. Written(i, k) = Contents(writer[i], k) /\ Written(i, k)' = Contents(writer'[i], k)
    BY <1>4
  <2> QED
    BY <2>1, <2>2, <2>3 DEF Progress
<1>7. (writer[i].errored => writer'[i].errored) /\ IsPrefix(pulled[i], pulled'[i])
  BY DEF Took, Progress
<1>8. ASSUME NEW s, NEW t PROVE Abstract!IsPrefix(s, t) = IsPrefix(s, t)
  BY DEF Abstract!IsPrefix, IsPrefix
<1> DEFINE ph == [j \in Starts |-> Phase(j)]
           lg == [j \in Starts |-> [k \in Keys |-> Written(j, k)]]
           fl == [j \in Starts |-> writer[j].errored]
<1>9. ph' = ph /\ ph[i] = "open"
  BY <1>1, <1>2
<1>10. ASSUME NEW k \in Keys
       PROVE  lg[i][k] = Written(i, k) /\ lg'[i][k] = Written(i, k)'
  OBVIOUS
<1>11. ASSUME NEW j \in Starts
       PROVE  fl[j] = writer[j].errored /\ fl'[j] = writer'[j].errored
  OBVIOUS
<1>12. \A j \in Starts \ {i} : lg'[j] = lg[j] /\ fl'[j] = fl[j]
  BY <1>3, <1>5
<1>13. /\ Abstract!IsPrefix(pulled[i], pulled'[i])
       /\ \A k \in Keys : Abstract!IsPrefix(lg[i][k], lg'[i][k])
       /\ \A k \in Keys : Abstract!IsPrefix(lg'[i][k], Abstract!Mine(i, k, pulled'[i]))
  <2> HIDE DEF lg
  <2> QED
    BY <1>6, <1>7, <1>8, <1>10, Zenon
<1>14. /\ fl[i] => fl'[i]
       /\ ~fl'[i] => \A k \in Keys : lg'[i][k] = Abstract!Mine(i, k, pulled'[i])
  <2> HIDE DEF lg, fl
  <2> QED
    BY <1>6, <1>7, <1>10, <1>11
<1>15. /\ ph[i] = "open" /\ ph' = ph
       /\ Abstract!IsPrefix(pulled[i], pulled'[i])
       /\ \A k \in Keys : Abstract!IsPrefix(lg[i][k], lg'[i][k])
       /\ fl[i] => fl'[i]
       /\ ~fl'[i] => \A k \in Keys : lg'[i][k] = Abstract!Mine(i, k, pulled'[i])
       /\ \A k \in Keys : Abstract!IsPrefix(lg'[i][k], Abstract!Mine(i, k, pulled'[i]))
       /\ \A q \in Starts \ {i} : /\ pulled'[q] = pulled[q] /\ lg'[q] = lg[q]
                                   /\ fl'[q] = fl[q]
  <2> HIDE DEF ph, lg, fl
  <2> QED
    BY <1>3, <1>9, <1>12, <1>13, <1>14
<1> QED
  BY <1>15, Zenon DEF Abstract!Take

(* A step that moves no writer and no phase is invisible in Archive.          *)
LEMMA ArchiveStutters ==
  ASSUME UNCHANGED <<writer, pulled>>, \A j \in Starts : Phase(j)' = Phase(j)
  PROVE  UNCHANGED Abstract!archiveVars
<1> DEFINE ph == [j \in Starts |-> Phase(j)]
           lg == [j \in Starts |-> [k \in Keys |-> Written(j, k)]]
           fl == [j \in Starts |-> writer[j].errored]
<1>1. ph' = ph /\ fl' = fl
  OBVIOUS
<1>2. lg' = lg
  <2>1. \A j \in Starts, k \in Keys : Written(j, k)' = Written(j, k)
    BY DEF Written
  <2> QED
    BY <2>1
<1>3. UNCHANGED <<ph, pulled, lg, fl>>
  <2> HIDE DEF ph, lg, fl
  <2> QED
    BY <1>1, <1>2
<1> QED
  BY <1>3, Zenon DEF Abstract!archiveVars

(* Start begins a run in Archive.                                             *)
LEMMA ArchiveBegins ==
  ASSUME GInv, GrawStart
  PROVE  \E i \in Starts : Abstract!Begin(i)
<1>1. PICK i \in Starts : i = starts + 1
  BY StartStep
<1>2. /\ UNCHANGED <<writer, pulled>> /\ thread[i].pc = "off" /\ thread'[i].pc = "consume"
      /\ \A j \in Starts \ {i} : thread'[j] = thread[j]
  BY <1>1, StartStep
<1>3. /\ Phase(i) = "unborn" /\ Phase(i)' = "open"
      /\ \A j \in Starts \ {i} : Phase(j)' = Phase(j)
  BY <1>2 DEF Phase
<1>4. \A j \in Starts, k \in Keys : Written(j, k)' = Written(j, k)
  BY <1>2 DEF Written
<1> DEFINE ph == [j \in Starts |-> Phase(j)]
           lg == [j \in Starts |-> [k \in Keys |-> Written(j, k)]]
           fl == [j \in Starts |-> writer[j].errored]
<1>5. ph[i] = "unborn" /\ ph' = [ph EXCEPT ![i] = "open"]
  BY <1>3
<1>6. lg' = lg /\ fl' = fl
  BY <1>2, <1>4
<1>7. /\ ph[i] = "unborn" /\ ph' = [ph EXCEPT ![i] = "open"]
      /\ UNCHANGED <<pulled, lg, fl>>
  <2> HIDE DEF ph, lg, fl
  <2> QED
    BY <1>2, <1>5, <1>6
<1>8. Abstract!Begin(i)
  BY <1>7, Zenon DEF Abstract!Begin
<1> QED
  BY <1>8

(* Finalize ends the run in Archive.                                          *)
LEMMA ArchiveEnds ==
  ASSUME GInv, NEW i \in Starts, Finalize(i)
  PROVE  Abstract!End(i)
<1>1. /\ pulled' = pulled /\ thread[i].pc = "finalize" /\ thread'[i].pc = "done"
      /\ \A j \in Starts \ {i} : thread'[j] = thread[j] /\ writer'[j] = writer[j]
      /\ \A k \in Keys : Contents(writer'[i], k) = Contents(writer[i], k)
  BY FinalizeStep
<1>2. PICK b \in BOOLEAN : writer'[i].errored = (writer[i].errored \/ b)
  BY FinalizeStep
<1>3. /\ Phase(i) = "open" /\ Phase(i)' = "closed"
      /\ \A j \in Starts \ {i} : Phase(j)' = Phase(j)
  BY <1>1 DEF Phase
<1>4. \A j \in Starts, k \in Keys : Written(j, k)' = Written(j, k)
  <2>1. \A j \in Starts, k \in Keys : /\ Written(j, k) = Contents(writer[j], k)
                                      /\ Written(j, k)' = Contents(writer[j], k)'
    BY DEF Written, Contents, Text
  <2> QED
    BY <1>1, <2>1
<1> DEFINE ph == [j \in Starts |-> Phase(j)]
           lg == [j \in Starts |-> [k \in Keys |-> Written(j, k)]]
           fl == [j \in Starts |-> writer[j].errored]
<1>5. ph[i] = "open" /\ ph' = [ph EXCEPT ![i] = "closed"]
  BY <1>3
<1>6. lg' = lg
  BY <1>4
<1>7. fl' = [fl EXCEPT ![i] = @ \/ b]
  BY <1>1, <1>2
<1>8. /\ ph[i] = "open" /\ ph' = [ph EXCEPT ![i] = "closed"]
      /\ \E bad \in BOOLEAN : fl' = [fl EXCEPT ![i] = @ \/ bad]
      /\ UNCHANGED <<pulled, lg>>
  <2> HIDE DEF ph, lg, fl
  <2> QED
    BY <1>1, <1>5, <1>6, <1>7
<1> QED
  BY <1>8, Zenon DEF Abstract!End

(* Every step is a step of Archive or invisible there.                        *)
LEMMA ArchiveSteps ==
  GInv /\ [GrawNext]_grawVars => [Abstract!ArchiveNext]_Abstract!archiveVars
<1> SUFFICES ASSUME GInv, [GrawNext]_grawVars
             PROVE  [Abstract!ArchiveNext]_Abstract!archiveVars
  OBVIOUS
<1>1. CASE UNCHANGED grawVars
  <2>1. UNCHANGED <<writer, pulled>> /\ \A j \in Starts : Phase(j)' = Phase(j)
    BY <1>1 DEF grawVars, Phase
  <2> QED
    BY <2>1, ArchiveStutters
<1>2. CASE Commanding
  <2>1. UNCHANGED <<writer, pulled>> /\ \A j \in Starts : Phase(j)' = Phase(j)
    BY <1>2, CommandStep DEF Phase
  <2> QED
    BY <2>1, ArchiveStutters
<1>3. CASE GrawStart
  BY <1>3, ArchiveBegins DEF Abstract!ArchiveNext
<1>4. ASSUME NEW i \in Starts, GrawThread(i)
      PROVE  [Abstract!ArchiveNext]_Abstract!archiveVars
  <2>1. CASE ConsumeData(i) \/ ConsumeEos(i) \/ ConsumeOther(i)
    <3>1. GInv' /\ Took(i)
      BY <2>1, DataStep, EosStep, OtherStep
    <3>2. Abstract!Take(i)
      BY <3>1, ArchiveTakes
    <3> QED
      BY <3>2 DEF Abstract!ArchiveNext
  <2>2. CASE ConsumeStop(i)
    <3>1. UNCHANGED <<writer, pulled>> /\ \A j \in Starts : Phase(j)' = Phase(j)
      BY <2>2, StopSeen DEF Phase
    <3> QED
      BY <3>1, ArchiveStutters
  <2>3. CASE Finalize(i)
    BY <2>3, ArchiveEnds DEF Abstract!ArchiveNext
  <2> QED
    BY <1>4, <2>1, <2>2, <2>3 DEF GrawThread
<1> QED
  BY <1>1, <1>2, <1>3, <1>4 DEF GrawNext, Commanding

(* The graw-writer implements Archive: through the refinement mapping of      *)
(* ImplementsArchive its initial states are initial states of Archive and     *)
(* every step of it is a step of Archive or a stutter.                        *)
THEOREM ArchiveImplemented == GrawSpec => ImplementsArchive
<1>1. GrawSpec => []GInv
  BY GrawInvariant
<1>2. GrawInit /\ GInv => Abstract!ArchiveInit
  BY ArchiveStarts
<1>3. GInv /\ [GrawNext]_grawVars => [Abstract!ArchiveNext]_Abstract!archiveVars
  BY ArchiveSteps
<1> QED
  BY <1>1, <1>2, <1>3, PTL DEF GrawSpec, ImplementsArchive, Abstract!ArchiveSpec
==============================================================================
