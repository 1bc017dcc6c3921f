-------------------------- MODULE ControllerProofs --------------------------
(* Proofs about the files of the controller.  RunNumber: the run numbers of    *)
(* the logbook ascend and none is used twice, and the state file is never      *)
(* found empty.  ParamsStore: the parameter set in force is whole, is the one  *)
(* that was answered, and stays the same for a run.  Logbook: what was         *)
(* acknowledged is read back in the order of its numbers, but for one record   *)
(* per write that was cut short, and every post is counted.                    *)
EXTENDS RunNumber, ParamsStore, Logbook, SequenceFacts

Persisting == {"open", "write", "rename"}

(* An operator has asked for a number that low.                                *)
Low(n) == \E a \in rnAsked : a <= n

(* n may be recorded without repeating a number.                               *)
Fresh(n) == Low(n) \/ \A k \in DOMAIN rnStarts : rnStarts[k] < n

(* After rnRun is recorded, c in the state file does not bring it back.        *)
Beyond(c) == c = NoInode \/ Low(c) \/ c > rnRun

(* The two names stand for different files, and what is written there may be   *)
(* recorded.                                                                   *)
Names ==
  /\ rnFile # NoInode => rnFile # rnTmp
  /\ \A i \in {rnFile, rnTmp} \ {NoInode} : rnContent[i] = NoInode \/ Fresh(rnContent[i])
  /\ rnFile = NoInode => rnStarts = << >>

(* run/start persists the successor of its number, or gives it back; it has    *)
(* emptied the temporary file before, so that nothing older is renamed.        *)
StartWriter ==
  LET pc == rnPc["start"]
  IN  /\ pc \in Persisting => \/ rnGoal["start"] = "take" /\ rnVal["start"] = rnRun + 1
                              \/ rnGoal["start"] = "rewind" /\ rnVal["start"] = rnRun
      /\ pc \in Persisting \cup {"sequence"} => Fresh(rnRun)
      /\ pc \in {"write", "rename"} /\ rnGoal["start"] = "take" /\ rnTmp # NoInode
           => Beyond(rnContent[rnTmp])
      /\ pc = "sequence" => /\ rnFile # NoInode /\ Beyond(rnContent[rnFile])
                            /\ rnTmp # NoInode => Beyond(rnContent[rnTmp])

(* run/next persists what it was asked for.                                    *)
NextWriter ==
  /\ rnPc["next"] \in Persisting \cup {"off"} /\ rnGoal["next"] = "set"
  /\ rnPc["next"] \in Persisting => rnVal["next"] \in rnAsked

OpenFiles == \A w \in Writers : rnPc[w] = "write" => rnFd[w] # NoInode

(* While run/next was never used, run/start has the temporary file for itself. *)
Alone ==
  rnCount.sets = 0 =>
    /\ rnPc["next"] = "off" /\ StateFileAtomic
    /\ rnPc["start"] \in {"write", "rename"} => rnFd["start"] = rnTmp /\ rnTmp # NoInode
    /\ rnPc["start"] = "rename" => rnContent[rnTmp] # NoInode

NumberInv ==
  /\ RunNumberTypeOK /\ NumbersNeverRepeat
  /\ Names /\ StartWriter /\ NextWriter /\ OpenFiles /\ Alone

-------------------------------------------------------------------------------
(* A number that may be recorded stays so while nothing is recorded, and the   *)
(* operator's numbers are kept.                                                *)
LEMMA FreshKept ==
  ASSUME rnStarts' = rnStarts, rnAsked \subseteq rnAsked'
  PROVE  /\ \A n : Low(n) => Low(n)'
         /\ \A n : Fresh(n) => Fresh(n)'
         /\ rnRun' = rnRun => \A n : Beyond(n) => Beyond(n)'
<1>1. ASSUME NEW n, Low(n) PROVE Low(n)'
  BY <1>1 DEF Low
<1>2. ASSUME NEW n, Fresh(n) PROVE Fresh(n)'
  <2>1. CASE Low(n)
    BY <1>1, <2>1 DEF Fresh
  <2>2. CASE \A k \in DOMAIN rnStarts : rnStarts[k] < n
    BY <2>2 DEF Fresh
  <2> QED
    BY <1>2, <2>1, <2>2 DEF Fresh
<1>3. ASSUME NEW n, Beyond(n), rnRun' = rnRun PROVE Beyond(n)'
  BY <1>1, <1>3 DEF Beyond
<1> QED
  BY <1>1, <1>2, <1>3

(* A number above one that may be recorded may be recorded.                    *)
LEMMA FreshUp ==
  ASSUME RunNumberTypeOK, NEW m \in Nat, NEW n \in Nat, m <= n, Fresh(m)
  PROVE  Fresh(n)
<1>1. /\ \A a \in rnAsked : a \in Nat
      /\ \A k \in DOMAIN rnStarts : rnStarts[k] \in Nat
  <2>1. rnAsked \subseteq Nat
    BY RunNumberAssumption DEF RunNumberTypeOK, Numbers
  <2>2. rnStarts \in Seq(Nat)
    BY RunNumberAssumption DEF RunNumberTypeOK, Numbers
  <2> QED
    BY <2>1, <2>2
<1>2. CASE Low(m)
  BY <1>1, <1>2 DEF Low, Fresh
<1>3. CASE \A k \in DOMAIN rnStarts : rnStarts[k] < m
  BY <1>1, <1>3 DEF Fresh
<1> QED
  BY <1>2, <1>3 DEF Fresh

(* The counters of the bounds are counters.                                    *)
LEMMA CountUpdates ==
  ASSUME rnCount \in [starts : Nat, sets : Nat, crashes : Nat, errors : Nat],
         \/ rnCount' = rnCount
         \/ rnCount' = [rnCount EXCEPT !.starts = @ + 1]
         \/ rnCount' = [rnCount EXCEPT !.crashes = @ + 1]
         \/ rnCount' = [rnCount EXCEPT !.errors = @ + 1]
  PROVE  /\ rnCount' \in [starts : Nat, sets : Nat, crashes : Nat, errors : Nat]
         /\ rnCount'.sets = rnCount.sets
OBVIOUS

(* Before the first run there is nothing to repeat.                            *)
LEMMA NumberInit == RunNumberInit => NumberInv
<1> SUFFICES ASSUME RunNumberInit PROVE NumberInv
  OBVIOUS
<1>1. RunNumberTypeOK
  BY RunNumberAssumption DEF RunNumberInit, RunNumberTypeOK, Writers, Numbers
<1>2. NumbersNeverRepeat /\ Names
  BY DEF RunNumberInit, NumbersNeverRepeat, Names
<1>3. StartWriter /\ NextWriter /\ OpenFiles
  BY DEF RunNumberInit, StartWriter, NextWriter, OpenFiles, Persisting, Writers
<1>4. Alone
  BY DEF RunNumberInit, Alone, StateFileAtomic, Writers
<1> QED
  BY <1>1, <1>2, <1>3, <1>4 DEF NumberInv

(* A step that leaves the two files and the logbook alone keeps what is said   *)
(* of them.                                                                    *)
LEMMA FilesUntouched ==
  ASSUME NumberInv, UNCHANGED <<rnDisk, rnStarts>>, rnAsked \subseteq rnAsked'
  PROVE  NumbersNeverRepeat' /\ Names'
<1>1. UNCHANGED <<rnFile, rnTmp, rnContent, rnStarts>>
  BY DEF rnDisk
<1>2. NumbersNeverRepeat'
  BY <1>1 DEF NumberInv, NumbersNeverRepeat
<1>3. Names'
  <2>1. \A n : Fresh(n) => Fresh(n)'
    BY <1>1, FreshKept
  <2> QED
    BY <1>1, <2>1 DEF NumberInv, Names
<1> QED
  BY <1>2, <1>3

(* A writer that leaves persist_next_run, or a step beside it.                 *)
LEMMA WriterLeaves ==
  ASSUME NumberInv, UNCHANGED <<rnDisk, rnStarts, rnAsked, rnRun, rnGoal, rnVal>>,
         rnPc' \in [Writers -> {"off", "read", "open", "write", "rename", "sequence", "recorded"}],
         \A w \in Writers : \/ rnPc'[w] = rnPc[w] /\ rnFd'[w] = rnFd[w]
                            \/ rnPc'[w] = "off"
                            \/ w = "start" /\ rnPc'[w] = "read",
         rnCount'.sets = rnCount.sets
  PROVE  StartWriter' /\ NextWriter' /\ OpenFiles' /\ Alone'
<1>1. UNCHANGED <<rnFile, rnTmp, rnContent, rnStarts, rnAsked, rnRun, rnGoal, rnVal>>
  BY DEF rnDisk
<1>2. /\ \/ rnPc'["start"] = rnPc["start"] /\ rnFd'["start"] = rnFd["start"]
         \/ rnPc'["start"] \in {"off", "read"}
      /\ \/ rnPc'["next"] = rnPc["next"] /\ rnFd'["next"] = rnFd["next"]
         \/ rnPc'["next"] = "off"
  BY DEF Writers
<1>3. StartWriter'
  <2>1. \A n : Low(n)' = Low(n) /\ Fresh(n)' = Fresh(n) /\ Beyond(n)' = Beyond(n)
    BY <1>1 DEF Low, Fresh, Beyond
  <2> QED
    BY <1>1, <1>2, <2>1 DEF NumberInv, StartWriter, Persisting
<1>4. NextWriter'
  BY <1>1, <1>2 DEF NumberInv, NextWriter, Persisting
<1>5. OpenFiles'
  BY <1>2 DEF NumberInv, OpenFiles, Writers
<1>6. Alone'
  BY <1>1, <1>2 DEF NumberInv, Alone, StateFileAtomic
<1> QED
  BY <1>3, <1>4, <1>5, <1>6

(* The steps that touch neither the files nor the logbook: taking up and       *)
(* ending requests, failures, panics and deaths.                               *)
LEMMA BesideTheFile ==
  ASSUME NumberInv,
         \/ NumberStart \/ StartReturns \/ StartTaskDies \/ NumberStop \/ CounterCrash
         \/ \E w \in Writers : CounterIoError(w)
  PROVE  NumberInv'
<1>0. RunNumberTypeOK
  BY DEF NumberInv
<1>1. UNCHANGED <<rnDisk, rnStarts, rnAsked, rnRun, rnGoal, rnVal>>
  BY DEF NumberStart, StartReturns, StartTaskDies, NumberStop, CounterCrash, CounterIoError
<1>2. /\ rnCount' \in [starts : Nat, sets : Nat, crashes : Nat, errors : Nat]
      /\ rnCount'.sets = rnCount.sets
  <2>1. \/ rnCount' = rnCount
        \/ rnCount' = [rnCount EXCEPT !.starts = @ + 1]
        \/ rnCount' = [rnCount EXCEPT !.crashes = @ + 1]
        \/ rnCount' = [rnCount EXCEPT !.errors = @ + 1]
    BY Zenon DEF NumberStart, StartReturns, StartTaskDies, NumberStop, CounterCrash, CounterIoError
  <2> QED
    BY <1>0, <2>1, CountUpdates DEF RunNumberTypeOK
<1>3. /\ rnPc' \in [Writers -> {"off", "read", "open", "write", "rename", "sequence", "recorded"}]
      /\ rnFd' \in [Writers -> Inodes \cup {NoInode}]
      /\ rnPhase' \in {"Idle", "Starting", "Running", "Stopping"}
      /\ \A w \in Writers : \/ rnPc'[w] = rnPc[w] /\ rnFd'[w] = rnFd[w]
                            \/ rnPc'[w] = "off"
                            \/ w = "start" /\ rnPc'[w] = "read"
  BY <1>0 DEF RunNumberTypeOK, NumberStart, StartReturns, StartTaskDies, NumberStop,
    CounterCrash, CounterIoError, PersistDone, Writers
<1>4. RunNumberTypeOK'
  BY <1>0, <1>1, <1>2, <1>3 DEF RunNumberTypeOK, rnDisk
<1>5. NumbersNeverRepeat' /\ Names'
  BY <1>1, FilesUntouched
<1>6. StartWriter' /\ NextWriter' /\ OpenFiles' /\ Alone'
  BY <1>1, <1>2, <1>3, WriterLeaves
<1> QED
  BY <1>4, <1>5, <1>6 DEF NumberInv

(* take_next_run reads a number that may be recorded, or refuses; a failed     *)
(* start gives its number back.                                                *)
LEMMA StartPersists ==
  ASSUME NumberInv, TakeNextRun \/ SequenceFails
  PROVE  NumberInv'
<1>0. RunNumberTypeOK
  BY DEF NumberInv
<1>1. UNCHANGED <<rnDisk, rnStarts, rnAsked, rnFd, rnCount>>
  BY DEF TakeNextRun, SequenceFails
<1>2. NumbersNeverRepeat' /\ Names'
  BY <1>1, FilesUntouched
<1>3. CASE TakeNextRun /\ rnPc' = [rnPc EXCEPT !["start"] = "off"] /\ rnPhase' = "Idle"
           /\ UNCHANGED <<rnGoal, rnVal, rnRun>>
  <2>1. rnPc' \in [Writers -> {"off", "read", "open", "write", "rename", "sequence", "recorded"}]
        /\ \A w \in Writers : rnPc'[w] = rnPc[w] \/ rnPc'[w] = "off"
    BY <1>0, <1>3 DEF RunNumberTypeOK, Writers
  <2>2. RunNumberTypeOK'
    BY <1>0, <1>1, <1>3, <2>1 DEF RunNumberTypeOK, rnDisk
  <2>3. StartWriter' /\ NextWriter' /\ OpenFiles' /\ Alone'
    BY <1>1, <1>3, <2>1, WriterLeaves
  <2> QED
    BY <1>2, <2>2, <2>3 DEF NumberInv
<1>4. ASSUME NEW g \in {"take", "rewind"}, NEW n \in Numbers, Persist("start", g, n),
             rnRun' \in Numbers, Fresh(rnRun'),
             g = "take" => n = rnRun' + 1, g = "rewind" => n = rnRun',
             rnPc["start"] \in {"read", "sequence"}, rnPhase' = rnPhase
      PROVE  NumberInv'
  <2>1. /\ rnPc' = [rnPc EXCEPT !["start"] = "open"]
        /\ rnGoal' = [rnGoal EXCEPT !["start"] = g]
        /\ rnVal' = [rnVal EXCEPT !["start"] = n]
    BY <1>4 DEF Persist
  <2>2. RunNumberTypeOK'
    BY <1>0, <1>1, <1>4, <2>1 DEF RunNumberTypeOK, rnDisk, Writers
  <2>3. /\ rnPc'["start"] = "open" /\ rnPc'["next"] = rnPc["next"]
        /\ rnGoal'["start"] = g /\ rnGoal'["next"] = rnGoal["next"]
        /\ rnVal'["start"] = n /\ rnVal'["next"] = rnVal["next"]
    BY <1>0, <2>1 DEF RunNumberTypeOK, Writers
  <2>4. StartWriter'
    <3>1. Fresh(rnRun)'
      BY <1>1, <1>4 DEF Fresh, Low
    <3> QED
      BY <1>4, <2>3, <3>1 DEF StartWriter, Persisting
  <2>5. NextWriter' /\ OpenFiles'
    BY <1>1, <2>3 DEF NumberInv, NextWriter, OpenFiles, Writers
  <2>6. Alone'
    BY <1>1, <2>3 DEF NumberInv, Alone, StateFileAtomic, rnDisk
  <2> QED
    BY <1>2, <2>2, <2>4, <2>5, <2>6 DEF NumberInv
<1>5. CASE TakeNextRun /\ NextRun \in 1 .. MaxRun - 1 /\ rnRun' = NextRun
           /\ Persist("start", "take", NextRun + 1) /\ UNCHANGED rnPhase
  <2>1. NextRun \in Numbers /\ NextRun + 1 \in Numbers
    BY <1>5, RunNumberAssumption DEF Numbers
  <2>2. Fresh(NextRun)
    <3>1. CASE rnFile = NoInode
      BY <3>1 DEF NumberInv, Names, Fresh
    <3>2. CASE rnFile # NoInode
      <4>1. NextRun = rnContent[rnFile] /\ NextRun # NoInode
        BY <1>5, <3>2 DEF NextRun, NoInode
      <4> QED
        BY <3>2, <4>1 DEF NumberInv, Names
    <3> QED
      BY <3>1, <3>2
  <2>3. rnPc["start"] = "read"
    BY <1>5 DEF TakeNextRun
  <2> HIDE DEF NextRun
  <2> QED
    BY <1>4, <1>5, <2>1, <2>2, <2>3
<1>6. CASE SequenceFails
  <2>1. /\ rnPc["start"] = "sequence" /\ Persist("start", "rewind", rnRun)
        /\ rnRun' = rnRun /\ rnPhase' = rnPhase
    BY <1>6 DEF SequenceFails
  <2>2. rnRun \in Numbers /\ Fresh(rnRun)
    BY <1>0, <2>1 DEF NumberInv, StartWriter, RunNumberTypeOK
  <2> QED
    BY <1>4, <2>1, <2>2
<1> QED
  BY <1>3, <1>5, <1>6 DEF TakeNextRun

(* run/next begins to persist what the operator asked for.                     *)
LEMMA NextPersists ==
  ASSUME NumberInv, NumberNext
  PROVE  NumberInv'
<1>0. RunNumberTypeOK
  BY DEF NumberInv
<1>1. PICK n \in Numbers : Persist("next", "set", n) /\ rnAsked' = rnAsked \cup {n}
  BY DEF NumberNext
<1>2. /\ UNCHANGED <<rnPhase, rnFd, rnRun, rnDisk, rnStarts>> /\ rnAsked \subseteq rnAsked'
      /\ rnCount' = [rnCount EXCEPT !.sets = @ + 1] /\ rnPc["next"] = "off"
  BY <1>1 DEF NumberNext
<1>3. NumbersNeverRepeat' /\ Names'
  BY <1>2, FilesUntouched
<1>4. /\ rnPc' = [rnPc EXCEPT !["next"] = "open"]
      /\ rnGoal' = [rnGoal EXCEPT !["next"] = "set"]
      /\ rnVal' = [rnVal EXCEPT !["next"] = n]
  BY <1>1 DEF Persist
<1>5. RunNumberTypeOK'
  BY <1>0, <1>1, <1>2, <1>4 DEF RunNumberTypeOK, rnDisk, Writers
<1>6. /\ rnPc'["next"] = "open" /\ rnPc'["start"] = rnPc["start"]
      /\ rnGoal'["next"] = "set" /\ rnGoal'["start"] = rnGoal["start"]
      /\ rnVal'["next"] = n /\ rnVal'["start"] = rnVal["start"]
  BY <1>0, <1>4 DEF RunNumberTypeOK, Writers
<1>7. StartWriter'
  <2>1. (\A m : Fresh(m) => Fresh(m)') /\ (\A m : Beyond(m) => Beyond(m)')
    BY <1>2, FreshKept
  <2>2. UNCHANGED <<rnFile, rnTmp, rnContent, rnRun>>
    BY <1>2 DEF rnDisk
  <2> QED
    BY <1>6, <2>1, <2>2 DEF NumberInv, StartWriter, Persisting
<1>8. NextWriter' /\ OpenFiles'
  BY <1>1, <1>2, <1>6 DEF NumberInv, NextWriter, OpenFiles, Writers, Persisting
<1>9. Alone'
  <2>1. rnCount'.sets # 0
    BY <1>0, <1>2 DEF RunNumberTypeOK
  <2> QED
    BY <2>1 DEF Alone
<1> QED
  BY <1>3, <1>5, <1>7, <1>8, <1>9 DEF NumberInv

(* run_start is written: the number may be recorded, and the files hold none   *)
(* that would bring it back.                                                   *)
LEMMA NumberRecorded ==
  ASSUME NumberInv, SequenceOk
  PROVE  NumberInv'
<1>0. RunNumberTypeOK
  BY DEF NumberInv
<1>1. /\ rnPc["start"] = "sequence" /\ rnStarts' = Append(rnStarts, rnRun)
      /\ rnPc' = [rnPc EXCEPT !["start"] = "recorded"]
      /\ UNCHANGED <<rnPhase, rnGoal, rnVal, rnFd, rnRun, rnDisk, rnAsked, rnCount>>
  BY DEF SequenceOk
<1>2. /\ Fresh(rnRun) /\ rnFile # NoInode /\ Beyond(rnContent[rnFile])
      /\ rnTmp # NoInode => Beyond(rnContent[rnTmp])
  BY <1>1 DEF NumberInv, StartWriter
<1>3. rnRun \in Numbers /\ rnStarts \in Seq(Numbers) /\ rnStarts' \in Seq(Numbers)
  BY <1>0, <1>1 DEF RunNumberTypeOK
<1> DEFINE m == Len(rnStarts)
<1>4. /\ m \in Nat /\ DOMAIN rnStarts = 1 .. m /\ DOMAIN rnStarts' = 1 .. m + 1
      /\ \A k \in 1 .. m : rnStarts'[k] = rnStarts[k]
      /\ rnStarts'[m + 1] = rnRun
  BY <1>1, <1>3
<1> HIDE DEF m
<1>5. RunNumberTypeOK'
  BY <1>0, <1>1, <1>3 DEF RunNumberTypeOK, rnDisk, Writers
<1>6. NumbersNeverRepeat'
  <2> SUFFICES ASSUME NEW i \in DOMAIN rnStarts', NEW j \in DOMAIN rnStarts', i < j,
                      rnStarts'[j] <= rnStarts'[i]
               PROVE  \E n \in rnAsked : n <= rnStarts'[j]
    BY <1>1 DEF NumbersNeverRepeat
  <2>1. CASE j \in 1 .. m
    <3>1. i \in 1 .. m
      BY <1>4, <2>1
    <3> QED
      BY <1>4, <2>1, <3>1 DEF NumberInv, NumbersNeverRepeat
  <2>2. CASE j = m + 1
    <3>1. i \in 1 .. m /\ rnStarts'[j] = rnRun /\ rnStarts'[i] = rnStarts[i]
      BY <1>4, <2>2
    <3>2. rnStarts[i] \in Nat /\ rnRun \in Nat
      BY <1>3, <1>4, <3>1, RunNumberAssumption DEF Numbers
    <3>3. ~(\A k \in DOMAIN rnStarts : rnStarts[k] < rnRun)
      BY <1>4, <3>1, <3>2
    <3> QED
      BY <1>2, <3>1, <3>3 DEF Fresh, Low
  <2> QED
    BY <1>4, <2>1, <2>2
<1>7. Names'
  <2>1. ASSUME NEW c \in Numbers \cup {NoInode}, c = NoInode \/ Fresh(c), Beyond(c)
        PROVE  c = NoInode \/ Fresh(c)'
    <3>1. CASE Low(c)
      BY <1>1, <3>1 DEF Fresh, Low
    <3>2. CASE ~Low(c) /\ c # NoInode
      <4>1. c > rnRun /\ (\A k \in DOMAIN rnStarts : rnStarts[k] < c)
        BY <2>1, <3>2 DEF Beyond, Fresh
      <4>2. \A k \in DOMAIN rnStarts' : rnStarts'[k] < c
        BY <1>3, <1>4, <4>1, RunNumberAssumption DEF Numbers
      <4> QED
        BY <4>2 DEF Fresh
    <3> QED
      BY <3>1, <3>2
  <2>2. UNCHANGED <<rnFile, rnTmp, rnContent>>
    BY <1>1 DEF rnDisk
  <2>3. \A i \in {rnFile, rnTmp} \ {NoInode} :
          rnContent[i] \in Numbers \cup {NoInode} /\ Beyond(rnContent[i])
    BY <1>0, <1>2 DEF RunNumberTypeOK
  <2> QED
    BY <1>2, <2>1, <2>2, <2>3 DEF NumberInv, Names
<1>8. rnPc'["start"] = "recorded" /\ rnPc'["next"] = rnPc["next"]
  BY <1>0, <1>1 DEF RunNumberTypeOK, Writers
<1>9. StartWriter' /\ NextWriter' /\ OpenFiles'
  BY <1>1, <1>8 DEF NumberInv, StartWriter, NextWriter, OpenFiles, Persisting, Writers
<1>10. Alone'
  BY <1>1, <1>8 DEF NumberInv, Alone, StateFileAtomic, rnDisk
<1> QED
  BY <1>5, <1>6, <1>7, <1>9, <1>10 DEF NumberInv

(* Two names and two open files leave one of the five inodes free.             *)
LEMMA FreeInode ==
  ASSUME NEW a, NEW b, NEW c
  PROVE  \E j \in Inodes : j \notin {a, NoInode, b, c}
<1>1. 1 \in Inodes /\ 2 \in Inodes /\ 3 \in Inodes /\ 4 \in Inodes
  BY DEF Inodes
<1>2. 1 # NoInode /\ 2 # NoInode /\ 3 # NoInode /\ 4 # NoInode
  BY DEF NoInode
<1>3. \/ 1 \notin {a, b, c} \/ 2 \notin {a, b, c} \/ 3 \notin {a, b, c} \/ 4 \notin {a, b, c}
  OBVIOUS
<1> QED
  BY <1>1, <1>2, <1>3

(* The temporary file is opened empty, and is never the state file.            *)
LEMMA TmpOpened ==
  ASSUME NumberInv, NEW w \in Writers, OpenTmp(w)
  PROVE  NumberInv'
<1>0. RunNumberTypeOK
  BY DEF NumberInv
<1>1. PICK i \in Inodes : /\ i # rnFile /\ i # NoInode /\ rnTmp' = i
                          /\ rnTmp # NoInode => i = rnTmp
                          /\ rnContent' = [rnContent EXCEPT ![i] = NoInode]
                          /\ rnFd' = [rnFd EXCEPT ![w] = i]
  <2> DEFINE free(j) == j \notin {rnFile, rnTmp, rnFd["start"], rnFd["next"]}
             i == IF rnTmp # NoInode THEN rnTmp ELSE CHOOSE j \in Inodes : free(j)
  <2>1. rnTmp' = i /\ rnContent' = [rnContent EXCEPT ![i] = NoInode] /\ rnFd' = [rnFd EXCEPT ![w] = i]
    BY DEF OpenTmp
  <2>2. CASE rnTmp # NoInode
    BY <1>0, <2>1, <2>2 DEF NumberInv, Names, RunNumberTypeOK
  <2>3. CASE rnTmp = NoInode
    <3>1. \E j \in Inodes : free(j)
      BY <2>3, FreeInode
    <3>2. i \in Inodes /\ free(i)
      BY <2>3, <3>1
    <3> QED
      BY <2>1, <2>3, <3>2
  <2> QED
    BY <2>2, <2>3
<1>2. /\ rnPc[w] = "open" /\ rnPc' = [rnPc EXCEPT ![w] = "write"]
      /\ UNCHANGED <<rnPhase, rnGoal, rnVal, rnRun, rnFile, rnStarts, rnAsked, rnCount>>
  BY DEF OpenTmp
<1>3. RunNumberTypeOK'
  BY <1>0, <1>1, <1>2 DEF RunNumberTypeOK
<1>4. /\ rnContent'[i] = NoInode /\ \A j \in Inodes \ {i} : rnContent'[j] = rnContent[j]
      /\ rnPc'[w] = "write" /\ rnFd'[w] = i
      /\ \A v \in Writers \ {w} : rnPc'[v] = rnPc[v] /\ rnFd'[v] = rnFd[v]
  BY <1>0, <1>1, <1>2 DEF RunNumberTypeOK
<1>5. /\ \A n : Fresh(n) => Fresh(n)'
      /\ \A n : Beyond(n) => Beyond(n)'
  BY <1>2, FreshKept
<1>6. NumbersNeverRepeat'
  BY <1>2 DEF NumberInv, NumbersNeverRepeat
<1>7. Names'
  <2>1. rnFile # NoInode => rnContent'[rnFile] = rnContent[rnFile]
    BY <1>0, <1>1, <1>4 DEF RunNumberTypeOK
  <2> QED
    BY <1>1, <1>2, <1>4, <1>5, <2>1 DEF NumberInv, Names
<1>8. StartWriter'
  <2>1. Beyond(NoInode)'
    BY DEF Beyond
  <2>2. rnFile # NoInode => rnContent'[rnFile] = rnContent[rnFile]
    BY <1>0, <1>1, <1>4 DEF RunNumberTypeOK
  <2>3. CASE w = "start"
    BY <1>1, <1>2, <1>4, <1>5, <2>1, <2>3 DEF NumberInv, StartWriter, Persisting
  <2>4. CASE w = "next"
    <3>1. rnPc'["start"] = rnPc["start"]
      BY <1>4, <2>4 DEF Writers
    <3> QED
      BY <1>1, <1>2, <1>4, <1>5, <2>1, <2>2, <3>1 DEF NumberInv, StartWriter, Persisting
  <2> QED
    BY <2>3, <2>4 DEF Writers
<1>9. NextWriter' /\ OpenFiles'
  BY <1>1, <1>2, <1>4 DEF NumberInv, NextWriter, OpenFiles, Writers, Persisting
<1>10. Alone'
  <2> SUFFICES ASSUME rnCount.sets = 0
               PROVE  /\ rnPc'["next"] = "off" /\ StateFileAtomic'
                      /\ rnPc'["start"] = "write" /\ rnFd'["start"] = rnTmp' /\ rnTmp' # NoInode
    BY <1>2 DEF Alone
  <2>1. w = "start" /\ rnPc["next"] = "off" /\ StateFileAtomic
    BY <1>2 DEF NumberInv, Alone, Writers
  <2>2. StateFileAtomic'
    BY <1>0, <1>1, <1>2, <1>4, <2>1 DEF RunNumberTypeOK, StateFileAtomic
  <2> QED
    BY <1>1, <1>4, <2>1, <2>2 DEF Writers
<1> QED
  BY <1>3, <1>6, <1>7, <1>8, <1>9, <1>10 DEF NumberInv

(* Whichever file a writer has open, what it writes there may be recorded.     *)
LEMMA TmpWritten ==
  ASSUME NumberInv, NEW w \in Writers, WriteTmp(w)
  PROVE  NumberInv'
<1>0. RunNumberTypeOK
  BY DEF NumberInv
<1>1. /\ rnPc[w] = "write" /\ rnPc' = [rnPc EXCEPT ![w] = "rename"]
      /\ rnContent' = [rnContent EXCEPT ![rnFd[w]] = rnVal[w]]
      /\ UNCHANGED <<rnPhase, rnGoal, rnVal, rnFd, rnRun, rnFile, rnTmp, rnStarts, rnAsked, rnCount>>
  BY DEF WriteTmp
<1>2. PICK i \in Inodes : i = rnFd[w]
  BY <1>0, <1>1 DEF NumberInv, OpenFiles, RunNumberTypeOK
<1>3. PICK n \in Numbers : n = rnVal[w]
  BY <1>0 DEF RunNumberTypeOK
<1>4. n \in Nat /\ n # NoInode /\ rnRun \in Nat
  BY <1>0, RunNumberAssumption DEF RunNumberTypeOK, Numbers, NoInode
<1>5. Fresh(n)
  <2>1. CASE w = "start"
    <3>1. Fresh(rnRun) /\ (n = rnRun + 1 \/ n = rnRun)
      BY <1>1, <1>3, <2>1 DEF NumberInv, StartWriter, Persisting
    <3> QED
      BY <1>0, <1>4, <3>1, FreshUp
  <2>2. CASE w = "next"
    BY <1>1, <1>3, <1>4, <2>2 DEF NumberInv, NextWriter, Persisting, Fresh, Low
  <2> QED
    BY <2>1, <2>2 DEF Writers
<1>6. w = "next" \/ rnGoal["start"] = "take" => Beyond(n)
  <2>1. CASE w = "start" /\ rnGoal["start"] = "take"
    <3>1. n = rnRun + 1
      BY <1>1, <1>3, <2>1 DEF NumberInv, StartWriter, Persisting
    <3> QED
      BY <1>4, <3>1 DEF Beyond
  <2>2. CASE w = "next"
    BY <1>1, <1>3, <1>4, <2>2 DEF NumberInv, NextWriter, Persisting, Beyond, Low
  <2> QED
    BY <2>1, <2>2 DEF Writers
<1>7. RunNumberTypeOK'
  BY <1>0, <1>1, <1>2, <1>3 DEF RunNumberTypeOK
<1>8. /\ rnContent'[i] = n /\ \A j \in Inodes \ {i} : rnContent'[j] = rnContent[j]
      /\ rnPc'[w] = "rename" /\ \A v \in Writers \ {w} : rnPc'[v] = rnPc[v]
  BY <1>0, <1>1, <1>2, <1>3 DEF RunNumberTypeOK
<1>9. \A m : Fresh(m)' = Fresh(m) /\ Beyond(m)' = Beyond(m)
  BY <1>1 DEF Fresh, Low, Beyond
<1>10. NumbersNeverRepeat'
  BY <1>1 DEF NumberInv, NumbersNeverRepeat
<1>11. Names'
  <2>1. \A j \in {rnFile, rnTmp} \ {NoInode} : j \in Inodes
    BY <1>0 DEF RunNumberTypeOK
  <2>2. \A j \in {rnFile, rnTmp} \ {NoInode} : rnContent'[j] = NoInode \/ Fresh(rnContent'[j])
    BY <1>5, <1>8, <2>1 DEF NumberInv, Names
  <2> QED
    BY <1>1, <1>9, <2>2 DEF NumberInv, Names
<1>12. StartWriter'
  <2>1. CASE w = "start"
    <3>1. rnTmp # NoInode /\ rnGoal["start"] = "take" => Beyond(rnContent'[rnTmp])
      BY <1>0, <1>1, <1>6, <1>8, <2>1 DEF NumberInv, StartWriter, RunNumberTypeOK
    <3> QED
      BY <1>1, <1>8, <1>9, <2>1, <3>1 DEF NumberInv, StartWriter, Persisting
  <2>2. CASE w = "next"
    <3>1. rnPc'["start"] = rnPc["start"]
      BY <1>8, <2>2 DEF Writers
    <3>2. \A j \in {rnFile, rnTmp} \ {NoInode} : Beyond(rnContent[j]) => Beyond(rnContent'[j])
      BY <1>0, <1>6, <1>8, <2>2 DEF RunNumberTypeOK
    <3> QED
      BY <1>1, <1>9, <3>1, <3>2 DEF NumberInv, StartWriter, Persisting
  <2> QED
    BY <2>1, <2>2 DEF Writers
<1>13. NextWriter' /\ OpenFiles'
  BY <1>1, <1>8 DEF NumberInv, NextWriter, OpenFiles, Writers, Persisting
<1>14. Alone'
  <2> SUFFICES ASSUME rnCount.sets = 0
               PROVE  /\ rnPc'["next"] = "off" /\ StateFileAtomic'
                      /\ rnFd["start"] = rnTmp /\ rnTmp # NoInode /\ rnContent'[rnTmp] # NoInode
    BY <1>1 DEF Alone
  <2>1. /\ w = "start" /\ rnPc["next"] = "off" /\ StateFileAtomic
        /\ rnFd["start"] = rnTmp /\ rnTmp # NoInode
    BY <1>1 DEF NumberInv, Alone, Writers
  <2>2. rnTmp = i /\ rnFile # i
    BY <1>2, <2>1 DEF NumberInv, Names
  <2>3. StateFileAtomic'
    BY <1>0, <1>1, <1>8, <2>1, <2>2 DEF RunNumberTypeOK, StateFileAtomic
  <2> QED
    BY <1>4, <1>8, <2>1, <2>2, <2>3 DEF Writers
<1> QED
  BY <1>7, <1>10, <1>11, <1>12, <1>13, <1>14 DEF NumberInv

(* The temporary file becomes the state file, or was taken away by the other   *)
(* writer.                                                                     *)
LEMMA TmpRenamed ==
  ASSUME NumberInv, NEW w \in Writers, RenameTmp(w)
  PROVE  NumberInv'
<1>0. RunNumberTypeOK
  BY DEF NumberInv
<1>1. rnPc[w] = "rename" /\ UNCHANGED <<rnGoal, rnVal, rnRun, rnContent, rnStarts, rnAsked, rnCount>>
  BY DEF RenameTmp
<1>2. CASE rnTmp = NoInode /\ PersistDone(w, FALSE) /\ UNCHANGED <<rnFile, rnTmp>>
  <2>1. /\ rnPc' = [rnPc EXCEPT ![w] = "off"] /\ rnFd' = [rnFd EXCEPT ![w] = NoInode]
        /\ rnPhase' \in {"Idle", rnPhase}
    BY <1>2 DEF PersistDone
  <2>2. UNCHANGED <<rnDisk, rnStarts, rnAsked, rnRun, rnGoal, rnVal>>
    BY <1>1, <1>2 DEF rnDisk
  <2>3. RunNumberTypeOK'
    BY <1>0, <1>1, <1>2, <2>1 DEF RunNumberTypeOK
  <2>4. \A v \in Writers : \/ rnPc'[v] = rnPc[v] /\ rnFd'[v] = rnFd[v]
                           \/ rnPc'[v] = "off"
    BY <1>0, <2>1 DEF RunNumberTypeOK
  <2>5. NumbersNeverRepeat' /\ Names'
    BY <2>2, FilesUntouched
  <2>6. StartWriter' /\ NextWriter' /\ OpenFiles' /\ Alone'
    BY <1>1, <2>2, <2>3, <2>4, WriterLeaves DEF RunNumberTypeOK
  <2> QED
    BY <2>3, <2>5, <2>6 DEF NumberInv
<1>3. CASE rnTmp # NoInode /\ rnFile' = rnTmp /\ rnTmp' = NoInode /\ PersistDone(w, TRUE)
  <2>1. /\ rnPc' = [rnPc EXCEPT ![w] = IF rnGoal[w] = "take" THEN "sequence" ELSE "off"]
        /\ rnFd' = [rnFd EXCEPT ![w] = NoInode]
        /\ rnPhase' \in {"Idle", rnPhase}
    BY <1>3 DEF PersistDone
  <2>2. RunNumberTypeOK'
    BY <1>0, <1>1, <1>3, <2>1 DEF RunNumberTypeOK
  <2>3. /\ rnPc'[w] = IF rnGoal[w] = "take" THEN "sequence" ELSE "off"
        /\ \A v \in Writers \ {w} : rnPc'[v] = rnPc[v] /\ rnFd'[v] = rnFd[v]
    BY <1>0, <2>1 DEF RunNumberTypeOK
  <2>4. \A m : Fresh(m)' = Fresh(m) /\ Beyond(m)' = Beyond(m)
    BY <1>1 DEF Fresh, Low, Beyond
  <2>5. NumbersNeverRepeat'
    BY <1>1 DEF NumberInv, NumbersNeverRepeat
  <2>6. Names'
    BY <1>1, <1>3, <2>4 DEF NumberInv, Names
  <2>7. StartWriter'
    <3>1. CASE w = "start"
      <4>1. CASE rnGoal["start"] = "take"
        <5>1. Fresh(rnRun) /\ Beyond(rnContent[rnTmp])
          BY <1>1, <1>3, <3>1, <4>1 DEF NumberInv, StartWriter, Persisting
        <5> QED
          BY <1>1, <1>3, <2>3, <2>4, <3>1, <4>1, <5>1 DEF StartWriter, Persisting
      <4>2. CASE rnGoal["start"] # "take"
        BY <2>3, <3>1, <4>2 DEF StartWriter, Persisting
      <4> QED
        BY <4>1, <4>2
    <3>2. CASE w = "next"
      <4>1. rnPc'["start"] = rnPc["start"]
        BY <2>3, <3>2 DEF Writers
      <4> QED
        BY <1>1, <1>3, <2>4, <4>1 DEF NumberInv, StartWriter, Persisting
    <3> QED
      BY <3>1, <3>2 DEF Writers
  <2>8. NextWriter' /\ OpenFiles'
    BY <1>1, <2>3 DEF NumberInv, NextWriter, OpenFiles, Writers, Persisting
  <2>9. Alone'
    <3> SUFFICES ASSUME rnCount.sets = 0
                 PROVE  /\ rnPc'["next"] = "off" /\ StateFileAtomic'
                        /\ rnPc'["start"] \in {"sequence", "off"}
      BY <1>1 DEF Alone
    <3>1. w = "start" /\ rnPc["next"] = "off" /\ rnContent[rnTmp] # NoInode
      BY <1>1 DEF NumberInv, Alone, Writers
    <3>2. StateFileAtomic'
      BY <1>1, <1>3, <3>1 DEF StateFileAtomic
    <3> QED
      BY <2>3, <3>1, <3>2 DEF Writers
  <2> QED
    BY <2>2, <2>5, <2>6, <2>7, <2>8, <2>9 DEF NumberInv
<1> QED
  BY <1>2, <1>3 DEF RenameTmp

(* Every step of the counter keeps the invariant.                              *)
LEMMA NumberStep == NumberInv /\ [RunNumberNext]_rnVars => NumberInv'
<1> SUFFICES ASSUME NumberInv, [RunNumberNext]_rnVars PROVE NumberInv'
  OBVIOUS
<1>1. CASE \/ NumberStart \/ StartReturns \/ StartTaskDies \/ NumberStop \/ CounterCrash
           \/ \E w \in Writers : CounterIoError(w)
  BY <1>1, BesideTheFile
<1>2. CASE TakeNextRun \/ SequenceFails
  BY <1>2, StartPersists
<1>3. CASE NumberNext
  BY <1>3, NextPersists
<1>4. CASE SequenceOk
  BY <1>4, NumberRecorded
<1>5. ASSUME NEW w \in Writers, OpenTmp(w) \/ WriteTmp(w) \/ RenameTmp(w) PROVE NumberInv'
  BY <1>5, TmpOpened, TmpWritten, TmpRenamed
<1>6. CASE UNCHANGED rnVars
  <2>1. /\ UNCHANGED <<rnPhase, rnPc, rnFd, rnCount>>
        /\ UNCHANGED <<rnDisk, rnStarts, rnAsked, rnRun, rnGoal, rnVal>>
    BY <1>6 DEF rnVars
  <2>2. RunNumberTypeOK'
    BY <2>1 DEF NumberInv, RunNumberTypeOK, rnDisk
  <2>3. NumbersNeverRepeat' /\ Names'
    BY <2>1, FilesUntouched
  <2>4. StartWriter' /\ NextWriter' /\ OpenFiles' /\ Alone'
    BY <2>1, <2>2, WriterLeaves DEF RunNumberTypeOK
  <2> QED
    BY <2>2, <2>3, <2>4 DEF NumberInv
<1> QED
  BY <1>1, <1>2, <1>3, <1>4, <1>5, <1>6 DEF RunNumberNext

(* The run numbers of the logbook ascend and none is used twice, whatever is   *)
(* interrupted between two system calls of persist_next_run, whichever writer  *)
(* renames the other's file, unless the operator sets a number that low; and   *)
(* while run/start is the only writer the state file is never found empty.     *)
THEOREM NumbersAreSound == RunNumberSpec => []NumbersSound
<1>1. NumberInv => NumbersSound
  BY DEF NumberInv, NumbersSound, Alone, StateFileWhole
<1> QED
  BY <1>1, NumberInit, NumberStep, PTL DEF RunNumberSpec

-----------------------------------------------------------------------------
(* The parameter set in force                                                  *)

(* What run/start keeps of its set.                                           *)
StartedType == LET V == Sets \cup {"absent", "toml"}
               IN  [id : V, prepare : V, configure : V, logged : V]

(* What is kept of a save.                                                     *)
SaveType == [set : Sets \cup {"absent"}, step : 0 .. 5, open : BOOLEAN]

(* What is counted.                                                            *)
DidType == [puts : Nat, runs : Nat, faults : Nat]

(* The types of the variables.                                                *)
STypes ==
  /\ fs \in [Files -> Contents]
  /\ templates \subseteq Sets /\ dir \in BOOLEAN
  /\ tokens \in Nat /\ tokens <= MaxTokens /\ session \in Nat /\ session <= tokens
  /\ releasing \subseteq 1 .. tokens
  /\ waiting \subseteq Sets
  /\ save \in SaveType
  /\ runPhase \in {"Idle", "Starting", "Running", "Stopping"}
  /\ started \in StartedType
  /\ answered \in Sets \cup {"absent"}
  /\ doubt \subseteq Sets /\ cutShort \subseteq Files
  /\ did \in DidType

(* f is being written.                                                        *)
Writing(f) == save # NoSave /\ save.open = TRUE /\ f = SaveSteps(save.set)[save.step]

(* An xcfg of set s: there, whole unless its writing was cut short.           *)
Whole(f, s) == fs[f] = s \/ (fs[f] = "cut" /\ f \in cutShort)

(* A file named by an id holds that set, or was or is being cut short.        *)
FilesKept ==
  \A kind \in Kinds, s \in Sets :
    LET f == Named(kind, s)
    IN  fs[f] = "absent" \/ Whole(f, s) \/ (fs[f] = "cut" /\ Writing(f))

(* How far a save is: it holds the run lock, so that no run is on.            *)
SaveFits ==
  save # NoSave =>
    /\ runPhase = "Idle" /\ save.set \in Sets /\ save.step \in 1 .. 5
    /\ save.step > 1 => Whole(Named("configure", save.set), save.set)
    /\ save.step > 2 => Whole(Named("prepare", save.set), save.set)
    /\ save.step = 4 => fs[Tmp] = save.set /\ save.open = FALSE
    /\ save.step = 5 => fs[Current] = save.set
    /\ save.step < 3 /\ save.open = TRUE => fs[Current] # save.set

(* What current.json names is usable and accounted for.                       *)
CurrentFits ==
  /\ fs[Current] \in Sets \cup {"absent"}
  /\ fs[Current] # "absent" =>
       \A kind \in Kinds : Whole(Named(kind, fs[Current]), fs[Current])
  /\ save = NoSave \/ save.step < 5 => fs[Current] \in {answered} \cup doubt

(* The run uses one set.                                                      *)
RunFits ==
  runPhase # "Idle" =>
    /\ started.id = "absent" => started = NotStarted
    /\ started.id # "absent" =>
         /\ started.id = IF fs[Current] = "absent" THEN "toml" ELSE fs[Current]
         /\ started.prepare \in {started.id, "absent"}
         /\ started.configure \in {started.id, "absent"}
         /\ started.logged \in {started.id, "absent"}

(* The inductive invariant of the parameter store.                             *)
SInv == STypes /\ FilesKept /\ SaveFits /\ CurrentFits /\ RunFits

(* The files have different names, and a save makes them in this order.       *)
LEMMA FileNames ==
  ASSUME NEW s \in Sets
  PROVE  /\ Current \in Files /\ Tmp \in Files /\ Current # Tmp
         /\ \A k \in Kinds \cup {"id"} :
              Named(k, s) \in Files /\ Named(k, s) # Current /\ Named(k, s) # Tmp
         /\ \A j, k \in Kinds \cup {"id"}, t \in Sets : Named(j, s) = Named(k, t) <=> j = k /\ s = t
         /\ Len(SaveSteps(s)) = 5
         /\ SaveSteps(s)[1] = Named("configure", s) /\ SaveSteps(s)[2] = Named("prepare", s)
         /\ SaveSteps(s)[3] = Tmp /\ SaveSteps(s)[4] = Current /\ SaveSteps(s)[5] = Named("id", s)
BY DEF Current, Tmp, Files, Named, Kinds, SaveSteps

(* What stands in a file is a set, or none of the words for something else.   *)
LEMMA SetsAreNoWords ==
  ASSUME NEW s \in Sets PROVE s # "absent" /\ s # "cut" /\ s # "toml"
BY ParamsStoreAssumption

(* The invariant holds at the start.                                           *)
LEMMA StoreInit == ParamsStoreInit => SInv
<1> SUFFICES ASSUME ParamsStoreInit PROVE SInv
  OBVIOUS
<1>1. STypes
  BY ParamsStoreAssumption DEF ParamsStoreInit, STypes, Contents, NoSave, NotStarted, SaveType,
     StartedType, DidType
<1>2. \A f \in Files : fs[f] = "absent"
  BY DEF ParamsStoreInit
<1>3. Current \in Files /\ \A k \in Kinds, s \in Sets : Named(k, s) \in Files
  BY DEF Current, Files, Named
<1>4. FilesKept
  BY <1>2, <1>3 DEF FilesKept
<1>5. SaveFits /\ RunFits
  BY DEF ParamsStoreInit, SaveFits, RunFits
<1>6. CurrentFits
  BY <1>2, <1>3 DEF CurrentFits, ParamsStoreInit
<1> QED
  BY <1>1, <1>4, <1>5, <1>6 DEF SInv

(* Steps that touch neither the files nor a save.                             *)
LEMMA BesideTheSave ==
  ASSUME SInv, STypes', RunFits', UNCHANGED <<fs, save, answered, doubt, cutShort>>,
         runPhase' = runPhase \/ save = NoSave
  PROVE  SInv'
<1>1. FilesKept'
  BY DEF SInv, FilesKept, Whole, Writing
<1>2. SaveFits'
  BY DEF SInv, SaveFits, Whole
<1>3. CurrentFits'
  BY DEF SInv, CurrentFits, Whole
<1> QED
  BY <1>1, <1>2, <1>3 DEF SInv

(* A run that goes on, or ends, with what it has started.                      *)
LEMMA RunKept ==
  ASSUME RunFits, started' = started, fs' = fs, runPhase' = runPhase \/ runPhase # "Idle"
  PROVE  RunFits'
BY DEF RunFits

(* One more of what is counted.                                               *)
LEMMA DidOneMore ==
  ASSUME NEW d \in DidType
  PROVE  /\ [d EXCEPT !.puts = @ + 1] \in DidType /\ [d EXCEPT !.runs = @ + 1] \in DidType
         /\ [d EXCEPT !.faults = @ + 1] \in DidType
<1> DEFINE a == d.puts + 1
           b == d.runs + 1
           c == d.faults + 1
<1>1. a \in Nat /\ b \in Nat /\ c \in Nat
  BY DEF DidType
<1> HIDE DEF a, b, c
<1>2. /\ [d EXCEPT !.puts = a] \in DidType /\ [d EXCEPT !.runs = b] \in DidType
      /\ [d EXCEPT !.faults = c] \in DidType
  BY <1>1 DEF DidType
<1> QED
  BY <1>2 DEF a, b, c

(* The session, the arrival of a PUT, the templates, the end of a run.        *)
LEMMA AsideStep ==
  ASSUME SInv,
         Acquire \/ ReleaseAuthorized \/ ReleaseClears \/ PutArrives \/ TemplateVanishes
           \/ StopTakes \/ StopDone
  PROVE  SInv'
<1>1. STypes /\ RunFits
  BY DEF SInv
<1>2. /\ UNCHANGED <<fs, save, started, answered, doubt, cutShort>>
      /\ runPhase' = runPhase \/ (save = NoSave /\ runPhase # "Idle")
         \/ (runPhase = "Stopping" /\ runPhase' = "Idle")
  BY DEF Acquire, ReleaseAuthorized, ReleaseClears, PutArrives, TemplateVanishes, StopTakes,
         StopDone, LockFree
<1>3. STypes'
  <2>1. CASE Acquire
    BY <1>1, <2>1, ParamsStoreAssumption DEF Acquire, STypes
  <2>2. CASE ReleaseAuthorized
    BY <1>1, <2>2 DEF ReleaseAuthorized, STypes
  <2>3. CASE ReleaseClears
    BY <1>1, <2>3 DEF ReleaseClears, STypes
  <2>4. CASE PutArrives
    <3>1. did' \in DidType
      BY <1>1, <2>4, DidOneMore DEF PutArrives, STypes
    <3> QED
      BY <1>1, <2>4, <3>1 DEF PutArrives, STypes
  <2>5. CASE TemplateVanishes
    <3>1. did' \in DidType
      BY <1>1, <2>5, DidOneMore DEF TemplateVanishes, STypes
    <3> QED
      BY <1>1, <2>5, <3>1 DEF TemplateVanishes, STypes
  <2>6. CASE StopTakes
    BY <1>1, <2>6 DEF StopTakes, STypes
  <2>7. CASE StopDone
    BY <1>1, <2>7 DEF StopDone, STypes
  <2> QED
    BY <2>1, <2>2, <2>3, <2>4, <2>5, <2>6, <2>7
<1>4. runPhase' = runPhase \/ save = NoSave
  BY <1>2 DEF SInv, SaveFits
<1>5. RunFits'
  BY <1>1, <1>2, RunKept
<1> QED
  BY <1>2, <1>3, <1>4, <1>5, BesideTheSave

(* The task of a PUT takes the lock, or is refused.                           *)
LEMMA TaskStep ==
  ASSUME SInv, PutTask
  PROVE  SInv'
<1>1. STypes /\ FilesKept /\ SaveFits /\ CurrentFits /\ RunFits
  BY DEF SInv
<1>2. PICK s \in waiting :
        /\ save = NoSave /\ waiting' = waiting \ {s}
        /\ \/ save' = [set |-> s, step |-> 1, open |-> FALSE] /\ runPhase = "Idle"
           \/ save' = NoSave
  BY DEF PutTask, LockFree, MaySave
<1>3. UNCHANGED <<fs, templates, dir, session, tokens, releasing, runPhase, started, answered, doubt,
                  cutShort, did>>
  BY DEF PutTask
<1>4. s \in Sets
  BY <1>1 DEF STypes
<1>5. /\ save' \in SaveType
      /\ \/ save' = NoSave
         \/ save'.set = s /\ save'.step = 1 /\ save'.open = FALSE /\ runPhase = "Idle"
  <2>1. save \in SaveType
    BY <1>1 DEF STypes
  <2>2. CASE save' = NoSave
    BY <1>2, <2>1, <2>2
  <2>3. CASE save' = [set |-> s, step |-> 1, open |-> FALSE] /\ runPhase = "Idle"
    BY <1>4, <2>3 DEF SaveType
  <2> QED
    BY <1>2, <2>2, <2>3
<1>6. STypes'
  BY <1>1, <1>2, <1>3, <1>5 DEF STypes
<1>7. FilesKept'
  BY <1>1, <1>2, <1>3 DEF FilesKept, Whole, Writing
<1>8. SaveFits'
  BY <1>3, <1>4, <1>5 DEF SaveFits
<1>9. CurrentFits'
  BY <1>1, <1>2, <1>3 DEF CurrentFits, Whole
<1>10. RunFits'
  BY <1>1, <1>3 DEF RunFits
<1> QED
  BY <1>6, <1>7, <1>8, <1>9, <1>10 DEF SInv

(* What holds while set s is being saved, at step k and file f.               *)
LEMMA SaveFacts ==
  ASSUME SInv, save # NoSave
  PROVE  LET s == save.set
             k == save.step
             f == SaveSteps(s)[k]
         IN  /\ s \in Sets /\ k \in 1 .. 5 /\ f \in Files /\ runPhase = "Idle"
             /\ k = 1 <=> f = Named("configure", s)
             /\ k = 2 <=> f = Named("prepare", s)
             /\ k = 3 <=> f = Tmp
             /\ k = 4 <=> f = Current
             /\ k = 5 <=> f = Named("id", s)
             /\ Len(SaveSteps(s)) = 5
<1> DEFINE s == save.set
           k == save.step
<1>1. s \in Sets /\ k \in 1 .. 5 /\ runPhase = "Idle"
  BY DEF SInv, SaveFits
<1> HIDE DEF s, k
<1>2. /\ Current \in Files /\ Tmp \in Files /\ Current # Tmp
      /\ \A j \in Kinds \cup {"id"} :
           Named(j, s) \in Files /\ Named(j, s) # Current /\ Named(j, s) # Tmp
      /\ Len(SaveSteps(s)) = 5
      /\ SaveSteps(s)[1] = Named("configure", s) /\ SaveSteps(s)[2] = Named("prepare", s)
      /\ SaveSteps(s)[3] = Tmp /\ SaveSteps(s)[4] = Current /\ SaveSteps(s)[5] = Named("id", s)
  BY <1>1, FileNames
<1>3. /\ Named("configure", s) # Named("prepare", s) /\ Named("configure", s) # Named("id", s)
      /\ Named("prepare", s) # Named("id", s)
  BY DEF Named
<1>4. "configure" \in Kinds /\ "prepare" \in Kinds
  BY DEF Kinds
<1>5. k = 1 \/ k = 2 \/ k = 3 \/ k = 4 \/ k = 5
  BY <1>1
<1>6. LET f == SaveSteps(s)[k]
      IN  /\ f \in Files
          /\ k = 1 <=> f = Named("configure", s)
          /\ k = 2 <=> f = Named("prepare", s)
          /\ k = 3 <=> f = Tmp
          /\ k = 4 <=> f = Current
          /\ k = 5 <=> f = Named("id", s)
  BY <1>2, <1>3, <1>4, <1>5
<1> QED
  BY <1>1, <1>2, <1>6 DEF s, k

(* A step of the save is done: the next one, or the answer.                   *)
LEMMA DoneFacts ==
  ASSUME SInv, save # NoSave, StepDone
  PROVE  /\ save' \in SaveType /\ answered' \in Sets \cup {"absent"} /\ doubt' \subseteq Sets
         /\ save.step < 5 => /\ save' # NoSave /\ save'.set = save.set
                             /\ save'.step = save.step + 1 /\ save'.open = FALSE
                             /\ answered' = answered /\ doubt' = doubt
         /\ save.step = 5 => save' = NoSave /\ answered' = save.set
<1>1. /\ save \in SaveType /\ answered \in Sets \cup {"absent"} /\ doubt \subseteq Sets
      /\ save.set \in Sets /\ save.step \in 1 .. 5 /\ Len(SaveSteps(save.set)) = 5
  BY SaveFacts DEF SInv, STypes
<1>2. CASE save.step < 5
  <2> DEFINE n == save.step + 1
  <2>1. n \in 0 .. 5 /\ n # 0
    BY <1>1, <1>2
  <2>2. save' = [save EXCEPT !.step = n, !.open = FALSE] /\ UNCHANGED <<answered, doubt>>
    BY <1>1, <1>2 DEF StepDone
  <2> HIDE DEF n
  <2>3. save' \in SaveType /\ save'.set = save.set /\ save'.step = n /\ save'.open = FALSE
    BY <1>1, <2>1, <2>2 DEF SaveType
  <2>4. save' # NoSave
    BY <2>1, <2>3 DEF NoSave
  <2> QED
    BY <1>1, <1>2, <2>2, <2>3, <2>4 DEF n
<1>3. CASE save.step = 5
  <2>1. save' = NoSave /\ answered' = save.set /\ doubt' = {}
    BY <1>1, <1>3 DEF StepDone
  <2>2. NoSave \in SaveType
    BY DEF NoSave, SaveType
  <2> QED
    BY <1>1, <1>3, <2>1, <2>2
<1>4. save.step < 5 \/ save.step = 5
  BY <1>1
<1> QED
  BY <1>2, <1>3, <1>4

(* A save that goes on with set s at step n.                                  *)
LEMMA SaveGoesOn ==
  ASSUME NEW s \in Sets, NEW n \in 1 .. 5, save'.set = s, save'.step = n, runPhase' = "Idle",
         n > 1 => Whole(Named("configure", s), s)',
         n > 2 => Whole(Named("prepare", s), s)',
         n = 4 => fs'[Tmp] = s /\ save'.open = FALSE,
         n = 5 => fs'[Current] = s,
         n < 3 /\ save'.open = TRUE => fs'[Current] # s
  PROVE  SaveFits'
BY DEF SaveFits, Whole

(* The file the save is at is there already.                                  *)
LEMMA KeptStep ==
  ASSUME SInv, save # NoSave, save.open = FALSE, Keeps(SaveSteps(save.set)[save.step]), StepDone,
         UNCHANGED <<fs, templates, dir, session, tokens, releasing, waiting, runPhase, started,
                     cutShort, did>>
  PROVE  SInv'
<1> DEFINE s == save.set
           k == save.step
           f == SaveSteps(s)[k]
<1>1. STypes /\ FilesKept /\ SaveFits /\ CurrentFits /\ RunFits
  BY DEF SInv
<1>2. /\ s \in Sets /\ k \in 1 .. 5 /\ f \in Files /\ runPhase = "Idle"
      /\ k = 1 <=> f = Named("configure", s)
      /\ k = 2 <=> f = Named("prepare", s)
      /\ k = 3 <=> f = Tmp
      /\ k = 4 <=> f = Current
      /\ k = 5 <=> f = Named("id", s)
  BY ONLY SInv, save # NoSave, SaveFacts
<1>3. /\ save' \in SaveType /\ answered' \in Sets \cup {"absent"} /\ doubt' \subseteq Sets
      /\ k < 5 => /\ save' # NoSave /\ save'.set = s
                  /\ save'.step = k + 1 /\ save'.open = FALSE
                  /\ answered' = answered /\ doubt' = doubt
      /\ k = 5 => save' = NoSave /\ answered' = s
  BY DoneFacts
<1>4. k \in {1, 2, 5} /\ fs[f] # "absent"
  BY <1>2 DEF Keeps
<1>5. \A g : ~Writing(g)
  BY DEF Writing
<1>6. k = 1 \/ k = 2 => Whole(f, s)
  BY <1>1, <1>2, <1>4, <1>5 DEF FilesKept, Kinds
<1>7. /\ k > 1 => Whole(Named("configure", s), s)
      /\ k > 2 => Whole(Named("prepare", s), s)
      /\ k = 5 => fs[Current] = s
  BY <1>1 DEF SaveFits
<1> HIDE DEF s, k, f
<1>8. STypes'
  BY <1>1, <1>3 DEF STypes
<1>9. FilesKept'
  BY <1>1, <1>5 DEF FilesKept, Whole
<1>10. SaveFits'
  <2>1. CASE k = 5
    BY <1>3, <2>1 DEF SaveFits
  <2>2. CASE k # 5
    <3>1. /\ k \in {1, 2} /\ save'.set = s /\ save'.step = k + 1 /\ save'.open = FALSE
      BY <1>3, <1>4, <2>2
    <3>2. PICK t \in Sets : t = s
      BY <1>2
    <3>3. PICK n \in 2 .. 3 : n = k + 1
      BY <3>1
    <3>4. Whole(Named("configure", t), t)' /\ (n > 2 => Whole(Named("prepare", t), t)')
      BY <1>2, <1>6, <1>7, <3>1, <3>2, <3>3 DEF Whole
    <3>5. /\ n \in 1 .. 5 /\ save'.set = t /\ save'.step = n /\ runPhase' = "Idle"
          /\ n # 4 /\ n # 5 /\ save'.open # TRUE
      <4>1. n \in 1 .. 5 /\ n # 4 /\ n # 5
        OBVIOUS
      <4>2. save'.set = t /\ save'.step = n
        BY <3>1, <3>2, <3>3
      <4>3. runPhase' = "Idle"
        BY <1>2
      <4>4. save'.open # TRUE
        BY <3>1, Zenon
      <4> QED
        BY <4>1, <4>2, <4>3, <4>4
    <3> QED
      BY ONLY <3>4, <3>5, t \in Sets, SaveGoesOn, Zenon
  <2> QED
    BY <2>1, <2>2
<1>11. CurrentFits'
  <2>1. k < 5 => fs[Current] \in {answered} \cup doubt
    BY <1>1 DEF CurrentFits, k
  <2>2. fs'[Current] \in {answered'} \cup doubt'
    BY <1>3, <1>4, <1>7, <2>1
  <2> QED
    BY <1>1, <2>2 DEF CurrentFits, Whole
<1>12. RunFits'
  BY <1>2 DEF RunFits
<1> QED
  BY <1>8, <1>9, <1>10, <1>11, <1>12 DEF SInv

(* A save whose next step n has not begun.                                    *)
LEMMA SaveNextStep ==
  ASSUME NEW s \in Sets, NEW n \in 2 .. 5, save'.set = s, save'.step = n,
         save'.open = FALSE, runPhase' = "Idle",
         Whole(Named("configure", s), s)',
         n > 2 => Whole(Named("prepare", s), s)',
         n = 4 => fs'[Tmp] = s,
         n = 5 => fs'[Current] = s
  PROVE  SaveFits'
<1>1. n \in 1 .. 5
  OBVIOUS
<1>2. save'.open # TRUE
  BY Zenon
<1> QED
  BY <1>1, <1>2, SaveGoesOn, Zenon

(* The file is created: it is empty until the next call.                      *)
LEMMA OpenedStep ==
  ASSUME SInv, save # NoSave, save.open = FALSE,
         ~Keeps(SaveSteps(save.set)[save.step]), SaveSteps(save.set)[save.step] # Current,
         fs' = [fs EXCEPT ![SaveSteps(save.set)[save.step]] = "cut"],
         save' = [save EXCEPT !.open = TRUE],
         UNCHANGED <<templates, dir, session, tokens, releasing, waiting, runPhase, started,
                     answered, doubt, cutShort, did>>
  PROVE  SInv'
<1> DEFINE s == save.set
           k == save.step
           f == SaveSteps(s)[k]
<1>1. STypes /\ FilesKept /\ SaveFits /\ CurrentFits /\ RunFits
  BY DEF SInv
<1>2. /\ s \in Sets /\ k \in 1 .. 5 /\ f \in Files /\ runPhase = "Idle"
      /\ k = 1 <=> f = Named("configure", s)
      /\ k = 2 <=> f = Named("prepare", s)
      /\ k = 3 <=> f = Tmp
      /\ k = 4 <=> f = Current
      /\ k = 5 <=> f = Named("id", s)
  BY ONLY SInv, save # NoSave, SaveFacts
<1>3. /\ save' \in SaveType /\ save'.set = s /\ save'.step = k /\ save'.open = TRUE
      /\ save' # NoSave
  <2>1. save \in SaveType
    BY <1>1 DEF STypes
  <2>2. save' \in SaveType /\ save'.set = s /\ save'.step = k /\ save'.open = TRUE
    BY <2>1 DEF SaveType
  <2>3. save' # NoSave
    BY <1>2, <2>2 DEF NoSave
  <2> QED
    BY <2>2, <2>3
<1>4. fs \in [Files -> Contents] /\ fs' = [fs EXCEPT ![f] = "cut"] /\ f # Current
  BY <1>1 DEF STypes
<1>5. \A g : ~Writing(g)
  BY DEF Writing
<1>6. k < 3 => fs[f] = "absent"
  <2>1. k < 3 => f # Tmp
    BY <1>2
  <2> QED
    BY <1>4, <2>1 DEF Keeps
<1>7. /\ k > 1 => Whole(Named("configure", s), s)
      /\ k > 2 => Whole(Named("prepare", s), s)
      /\ k = 5 => fs[Current] = s
      /\ k # 4
  BY <1>1, <1>2, <1>4 DEF SaveFits
<1>8. save' # NoSave /\ save'.open = TRUE /\ f = SaveSteps(save'.set)[save'.step]
  BY <1>3
<1> HIDE DEF s, k, f
<1>9. fs' \in [Files -> Contents] /\ fs'[f] = "cut" /\ \A g \in Files : g # f => fs'[g] = fs[g]
  BY <1>2, <1>4 DEF Contents
<1>10. /\ Current \in Files /\ \A j \in Kinds, t \in Sets : Named(j, t) \in Files
       /\ \A j, i \in Kinds \cup {"id"}, t \in Sets :
            Named(j, s) = Named(i, t) <=> j = i /\ s = t
  BY <1>2, FileNames
<1>11. k < 3 => fs[Current] # s
  <2> SUFFICES ASSUME k < 3, fs[Current] = s PROVE FALSE
    OBVIOUS
  <2>1. s # "absent" /\ s # "cut"
    BY <1>2, SetsAreNoWords
  <2>2. \A kind \in Kinds : Whole(Named(kind, s), s)
    BY <1>1, <2>1 DEF CurrentFits
  <2>3. k \in {1, 2}
    BY <1>2
  <2>4. Whole(f, s)
    BY <1>2, <2>2, <2>3 DEF Kinds
  <2> QED
    BY <1>6, <2>1, <2>4 DEF Whole
<1>12. STypes'
  BY <1>1, <1>3, <1>9 DEF STypes
<1>13. FilesKept'
  <2> SUFFICES ASSUME NEW kind \in Kinds, NEW t \in Sets
               PROVE  \/ fs'[Named(kind, t)] = "absent"
                      \/ Whole(Named(kind, t), t)'
                      \/ fs'[Named(kind, t)] = "cut" /\ Writing(Named(kind, t))'
    BY Zenon DEF FilesKept
  <2>1. /\ Named(kind, t) \in Files
        /\ fs[Named(kind, t)] = "absent" \/ Whole(Named(kind, t), t)
    BY <1>1, <1>5, <1>10 DEF FilesKept
  <2>2. CASE Named(kind, t) = f
    BY <1>8, <1>9, <2>2 DEF Writing
  <2>3. CASE Named(kind, t) # f
    BY <1>9, <2>1, <2>3 DEF Whole
  <2> QED
    BY <2>2, <2>3
<1>14. SaveFits'
  <2>1. PICK t \in Sets : t = s
    BY <1>2
  <2>2. PICK n \in 1 .. 5 : n = k
    BY <1>2
  <2>3. /\ Named("configure", s) \in Files /\ Named("prepare", s) \in Files
        /\ k > 1 => Named("configure", s) # f
        /\ k > 2 => Named("prepare", s) # f
    BY <1>2, <1>10 DEF Kinds
  <2>4. n > 1 => Whole(Named("configure", t), t)'
    BY <1>7, <1>9, <2>1, <2>2, <2>3 DEF Whole
  <2>5. n > 2 => Whole(Named("prepare", t), t)'
    BY <1>7, <1>9, <2>1, <2>2, <2>3 DEF Whole
  <2>6. /\ save'.set = t /\ save'.step = n /\ runPhase' = "Idle" /\ n # 4
        /\ n = 5 => fs'[Current] = t
        /\ n < 3 => fs'[Current] # t
    BY <1>2, <1>3, <1>4, <1>7, <1>9, <1>10, <1>11, <2>1, <2>2
  <2> QED
    BY ONLY <2>4, <2>5, <2>6, t \in Sets, n \in 1 .. 5, SaveGoesOn, Zenon
<1>15. CurrentFits'
  <2>1. fs'[Current] = fs[Current]
    BY <1>4, <1>9, <1>10
  <2>2. ASSUME fs[Current] # "absent", NEW kind \in Kinds
        PROVE  Whole(Named(kind, fs[Current]), fs[Current])'
    <3>1. PICK c \in Sets : c = fs[Current]
      BY <1>1, <2>2 DEF CurrentFits
    <3>2. Whole(Named(kind, c), c)
      BY <1>1, <2>2, <3>1 DEF CurrentFits
    <3>3. Named(kind, c) \in Files /\ Named(kind, c) # f
      <4>1. CASE c = s
        <5>1. k \in {3, 5}
          BY <1>2, <1>7, <1>11, <3>1, <4>1
        <5>2. kind # "id"
          BY DEF Kinds
        <5>3. Named(kind, c) # Tmp
          BY <3>1, FileNames
        <5> QED
          BY <1>2, <1>10, <4>1, <5>1, <5>2, <5>3
      <4>2. CASE c # s
        <5>1. f \in {Named("configure", s), Named("prepare", s), Named("id", s), Tmp}
          BY <1>2, <1>7
        <5>2. Named(kind, c) # Tmp
          BY FileNames
        <5> QED
          BY <1>10, <4>2, <5>1, <5>2 DEF Kinds
      <4> QED
        BY <4>1, <4>2
    <3>4. Whole(Named(kind, c), c)'
      BY <1>9, <3>2, <3>3 DEF Whole
    <3> QED
      BY <2>1, <3>1, <3>4
  <2>3. save' = NoSave \/ save'.step < 5 => fs[Current] \in {answered} \cup doubt
    BY <1>1, <1>3 DEF CurrentFits, k
  <2> QED
    BY <1>1, <2>1, <2>2, <2>3 DEF CurrentFits
<1>16. RunFits'
  BY <1>2 DEF RunFits
<1> QED
  BY <1>12, <1>13, <1>14, <1>15, <1>16 DEF SInv

(* The file is written to its end.                                            *)
LEMMA WrittenStep ==
  ASSUME SInv, save # NoSave, save.open = TRUE,
         fs' = [fs EXCEPT ![SaveSteps(save.set)[save.step]] = save.set], StepDone,
         UNCHANGED <<templates, dir, session, tokens, releasing, waiting, runPhase, started,
                     cutShort, did>>
  PROVE  SInv'
<1> DEFINE s == save.set
           k == save.step
           f == SaveSteps(s)[k]
<1>1. STypes /\ FilesKept /\ SaveFits /\ CurrentFits /\ RunFits
  BY DEF SInv
<1>2. /\ s \in Sets /\ k \in 1 .. 5 /\ f \in Files /\ runPhase = "Idle"
      /\ k = 1 <=> f = Named("configure", s)
      /\ k = 2 <=> f = Named("prepare", s)
      /\ k = 3 <=> f = Tmp
      /\ k = 4 <=> f = Current
      /\ k = 5 <=> f = Named("id", s)
  BY ONLY SInv, save # NoSave, SaveFacts
<1>3. /\ save' \in SaveType /\ answered' \in Sets \cup {"absent"} /\ doubt' \subseteq Sets
      /\ k < 5 => /\ save' # NoSave /\ save'.set = s
                  /\ save'.step = k + 1 /\ save'.open = FALSE
                  /\ answered' = answered /\ doubt' = doubt
      /\ k = 5 => save' = NoSave /\ answered' = s
  BY DoneFacts
<1>4. fs \in [Files -> Contents] /\ fs' = [fs EXCEPT ![f] = s]
  BY <1>1 DEF STypes
<1>5. \A g : Writing(g) => g = f
  BY DEF Writing
<1>6. k # 4
  <2>1. k = 4 => save.open = FALSE
    BY <1>1 DEF SaveFits
  <2> QED
    BY <2>1, Zenon
<1>7. /\ k > 1 => Whole(Named("configure", s), s)
      /\ k > 2 => Whole(Named("prepare", s), s)
      /\ k = 5 => fs[Current] = s
  BY <1>1 DEF SaveFits
<1>8. f # Current /\ k \in {1, 2, 3, 5}
  BY <1>2, <1>6
<1> HIDE DEF s, k, f
<1>9. fs' \in [Files -> Contents] /\ fs'[f] = s /\ \A g \in Files : g # f => fs'[g] = fs[g]
  BY <1>2, <1>4 DEF Contents
<1>10. /\ Current \in Files /\ \A j \in Kinds, t \in Sets : Named(j, t) \in Files
       /\ \A j, i \in Kinds \cup {"id"}, t \in Sets :
            Named(j, s) = Named(i, t) <=> j = i /\ s = t
       /\ \A j \in Kinds, t \in Sets : Named(j, t) # Tmp
  BY <1>2, FileNames
<1>11. \A j \in Kinds, t \in Sets : Named(j, t) = f => t = s
  <2>1. f \in {Named("configure", s), Named("prepare", s), Named("id", s), Tmp}
    BY <1>2, <1>8
  <2> QED
    BY <1>10, <2>1 DEF Kinds
<1>12. STypes'
  BY <1>1, <1>3, <1>9 DEF STypes
<1>13. FilesKept'
  <2> SUFFICES ASSUME NEW kind \in Kinds, NEW t \in Sets
               PROVE  fs'[Named(kind, t)] = "absent" \/ Whole(Named(kind, t), t)'
    BY Zenon DEF FilesKept
  <2>1. /\ Named(kind, t) \in Files
        /\ \/ fs[Named(kind, t)] = "absent" \/ Whole(Named(kind, t), t)
           \/ Named(kind, t) = f
    BY <1>1, <1>5, <1>10 DEF FilesKept
  <2>2. CASE Named(kind, t) = f
    BY <1>9, <1>11, <2>2 DEF Whole
  <2>3. CASE Named(kind, t) # f
    BY <1>9, <2>1, <2>3 DEF Whole
  <2> QED
    BY <2>2, <2>3
<1>14. SaveFits'
  <2>1. CASE k = 5
    BY <1>3, <2>1 DEF SaveFits
  <2>2. CASE k # 5
    <3>1. PICK t \in Sets : t = s
      BY <1>2
    <3>2. PICK n \in 2 .. 4 : n = k + 1
      BY <1>8, <2>2
    <3>3. /\ Named("configure", s) \in Files /\ Named("prepare", s) \in Files
      BY <1>2, <1>10 DEF Kinds
    <3>4. Whole(Named("configure", t), t)'
      <4>1. CASE k = 1
        BY <1>2, <1>9, <3>1, <4>1 DEF Whole
      <4>2. CASE k # 1
        BY <1>2, <1>7, <1>8, <1>9, <3>1, <3>3, <4>2 DEF Whole
      <4> QED
        BY <4>1, <4>2
    <3>5. n > 2 => Whole(Named("prepare", t), t)'
      <4>1. CASE k = 2
        BY <1>2, <1>9, <3>1, <4>1 DEF Whole
      <4>2. CASE k = 3
        BY <1>2, <1>7, <1>8, <1>9, <3>1, <3>3, <4>2 DEF Whole
      <4>3. n > 2 => k = 2 \/ k = 3
        BY <1>8, <2>2, <3>2
      <4> QED
        BY <4>1, <4>2, <4>3
    <3>6. n = 4 => fs'[Tmp] = t
      BY <1>2, <1>9, <3>1, <3>2
    <3>7. /\ n \in 2 .. 5 /\ n # 5 /\ save'.set = t /\ save'.step = n /\ save'.open = FALSE
          /\ runPhase' = "Idle"
      BY <1>2, <1>3, <1>8, <2>2, <3>1, <3>2
    <3> QED
      BY ONLY <3>4, <3>5, <3>6, <3>7, t \in Sets, SaveNextStep, Zenon
  <2> QED
    BY <2>1, <2>2
<1>15. CurrentFits'
  <2>1. fs'[Current] = fs[Current]
    BY <1>8, <1>9, <1>10
  <2>2. ASSUME fs[Current] # "absent", NEW kind \in Kinds
        PROVE  Whole(Named(kind, fs[Current]), fs[Current])'
    <3>1. PICK c \in Sets : c = fs[Current]
      BY <1>1, <2>2 DEF CurrentFits
    <3>2. Whole(Named(kind, c), c) /\ Named(kind, c) \in Files
      BY <1>1, <1>10, <2>2, <3>1 DEF CurrentFits
    <3>3. Whole(Named(kind, c), c)'
      <4>1. CASE Named(kind, c) = f
        BY <1>9, <1>11, <4>1 DEF Whole
      <4>2. CASE Named(kind, c) # f
        BY <1>9, <3>2, <4>2 DEF Whole
      <4> QED
        BY <4>1, <4>2
    <3> QED
      BY <2>1, <3>1, <3>3
  <2>3. k < 5 => fs[Current] \in {answered} \cup doubt
    BY <1>1 DEF CurrentFits, k
  <2>4. fs'[Current] \in {answered'} \cup doubt'
    BY <1>3, <1>7, <1>8, <2>1, <2>3
  <2> QED
    BY <1>1, <2>1, <2>2, <2>4 DEF CurrentFits
<1>16. RunFits'
  BY <1>2 DEF RunFits
<1> QED
  BY <1>12, <1>13, <1>14, <1>15, <1>16 DEF SInv

(* The temporary file becomes current.json.                                   *)
LEMMA RenamedStep ==
  ASSUME SInv, save # NoSave, save.open = FALSE, SaveSteps(save.set)[save.step] = Current,
         fs' = [fs EXCEPT ![Current] = fs[Tmp], ![Tmp] = "absent"], StepDone,
         UNCHANGED <<templates, dir, session, tokens, releasing, waiting, runPhase, started,
                     cutShort, did>>
  PROVE  SInv'
<1> DEFINE s == save.set
           k == save.step
<1>1. STypes /\ FilesKept /\ SaveFits /\ CurrentFits /\ RunFits
  BY DEF SInv
<1>2. s \in Sets /\ k = 4 /\ runPhase = "Idle"
  BY ONLY SInv, save # NoSave, SaveSteps(save.set)[save.step] = Current, SaveFacts
<1>3. /\ save' \in SaveType /\ answered' \in Sets \cup {"absent"} /\ doubt' \subseteq Sets
      /\ k < 5 => /\ save' # NoSave /\ save'.set = s
                  /\ save'.step = k + 1 /\ save'.open = FALSE
                  /\ answered' = answered /\ doubt' = doubt
  BY DoneFacts
<1>4. fs \in [Files -> Contents] /\ fs[Tmp] = s
  BY <1>1, <1>2 DEF STypes, SaveFits
<1>5. \A g : ~Writing(g)
  BY DEF Writing
<1>6. Whole(Named("configure", s), s) /\ Whole(Named("prepare", s), s)
  BY <1>1, <1>2 DEF SaveFits
<1> HIDE DEF s, k
<1>7. /\ Current \in Files /\ Tmp \in Files /\ Current # Tmp
      /\ \A j \in Kinds, t \in Sets :
           Named(j, t) \in Files /\ Named(j, t) # Tmp /\ Named(j, t) # Current
  BY <1>2, FileNames
<1>8. /\ fs' \in [Files -> Contents] /\ fs'[Current] = s
      /\ \A g \in Files : g # Current /\ g # Tmp => fs'[g] = fs[g]
  BY <1>2, <1>4, <1>7 DEF Contents
<1>9. save' # NoSave /\ save'.set = s /\ save'.step = 5 /\ save'.open = FALSE
  BY <1>2, <1>3
<1>10. \A kind \in Kinds, t \in Sets : Whole(Named(kind, t), t) => Whole(Named(kind, t), t)'
  BY <1>7, <1>8 DEF Whole
<1>11. STypes'
  BY <1>1, <1>3, <1>8 DEF STypes
<1>12. FilesKept'
  <2> SUFFICES ASSUME NEW kind \in Kinds, NEW t \in Sets
               PROVE  fs'[Named(kind, t)] = "absent" \/ Whole(Named(kind, t), t)'
    BY Zenon DEF FilesKept
  <2>1. fs[Named(kind, t)] = "absent" \/ Whole(Named(kind, t), t)
    BY <1>1, <1>5 DEF FilesKept
  <2> QED
    BY <1>7, <1>8, <1>10, <2>1
<1>13. PICK t \in Sets : t = s
  BY <1>2
<1>14. Whole(Named("configure", t), t)' /\ Whole(Named("prepare", t), t)'
  BY <1>6, <1>10, <1>13 DEF Kinds
<1>15. SaveFits'
  <2>1. PICK n \in 2 .. 5 : n = 5
    OBVIOUS
  <2>2. /\ n # 4 /\ save'.set = t /\ save'.step = n /\ save'.open = FALSE
        /\ runPhase' = "Idle" /\ fs'[Current] = t
    BY <1>2, <1>8, <1>9, <1>13, <2>1
  <2> QED
    BY ONLY <1>14, <2>2, n \in 2 .. 5, t \in Sets, SaveNextStep, Zenon
<1>16. CurrentFits'
  <2>1. fs'[Current] \in Sets
    BY <1>2, <1>8
  <2>2. \A kind \in Kinds : Whole(Named(kind, fs[Current]), fs[Current])'
    BY <1>8, <1>13, <1>14 DEF Kinds
  <2>3. ~(save' = NoSave \/ save'.step < 5)
    BY <1>9
  <2> QED
    BY <2>1, <2>2, <2>3 DEF CurrentFits
<1>17. RunFits'
  BY <1>2 DEF RunFits
<1> QED
  BY <1>11, <1>12, <1>15, <1>16, <1>17 DEF SInv

(* Every call of a save.                                                      *)
LEMMA CallStep ==
  ASSUME SInv, SaveCall
  PROVE  SInv'
<1>1. save # NoSave
  BY DEF SaveCall, LockFree
<1>2. save.open \in BOOLEAN
  BY DEF SInv, STypes, SaveType
<1>3. UNCHANGED <<templates, dir, session, tokens, releasing, waiting, runPhase, started, cutShort,
                 did>>
  BY DEF SaveCall
<1>4. CASE /\ save.open = FALSE /\ Keeps(SaveSteps(save.set)[save.step])
           /\ StepDone /\ UNCHANGED fs
  BY <1>1, <1>3, <1>4, KeptStep
<1>5. CASE /\ save.open = FALSE /\ ~Keeps(SaveSteps(save.set)[save.step])
           /\ SaveSteps(save.set)[save.step] # Current
           /\ fs' = [fs EXCEPT ![SaveSteps(save.set)[save.step]] = "cut"]
           /\ save' = [save EXCEPT !.open = TRUE]
           /\ UNCHANGED <<answered, doubt>>
  BY <1>1, <1>3, <1>5, OpenedStep
<1>6. CASE /\ save.open = TRUE
           /\ fs' = [fs EXCEPT ![SaveSteps(save.set)[save.step]] = save.set]
           /\ StepDone
  BY <1>1, <1>3, <1>6, WrittenStep
<1>7. CASE /\ save.open = FALSE /\ SaveSteps(save.set)[save.step] = Current
           /\ fs' = [fs EXCEPT ![Current] = fs[Tmp], ![Tmp] = "absent"]
           /\ StepDone
  BY <1>1, <1>3, <1>7, RenamedStep
<1> QED
  BY <1>2, <1>4, <1>5, <1>6, <1>7, Zenon DEF SaveCall

(* What a save that ends early leaves is accounted for.                       *)
LEMMA EndedEarly ==
  ASSUME SInv, save # NoSave, Interrupted, save' = NoSave, UNCHANGED <<fs, answered>>
  PROVE  /\ save' \in SaveType /\ cutShort' \subseteq Files /\ doubt' \subseteq Sets
         /\ FilesKept' /\ SaveFits' /\ CurrentFits'
<1> DEFINE s == save.set
           k == save.step
           f == SaveSteps(s)[k]
<1>1. STypes /\ FilesKept /\ SaveFits /\ CurrentFits
  BY DEF SInv
<1>2. s \in Sets /\ k \in 1 .. 5 /\ f \in Files
  BY ONLY SInv, save # NoSave, SaveFacts
<1>3. /\ cutShort' = cutShort \cup {g \in Files : save.open /\ g = f}
      /\ doubt' = doubt \cup {x \in {s} : Renamed}
  BY DEF Interrupted
<1>4. NoSave \in SaveType
  BY DEF NoSave, SaveType
<1>5. cutShort' \subseteq Files /\ doubt' \subseteq Sets
  BY <1>1, <1>2, <1>3 DEF STypes
<1>6. \A g : Writing(g) => g \in cutShort'
  BY <1>2, <1>3 DEF Writing
<1>7. \A g, t : Whole(g, t) => Whole(g, t)'
  BY <1>3 DEF Whole
<1>8. FilesKept'
  <2> SUFFICES ASSUME NEW kind \in Kinds, NEW t \in Sets
               PROVE  fs'[Named(kind, t)] = "absent" \/ Whole(Named(kind, t), t)'
    BY Zenon DEF FilesKept
  <2>1. \/ fs[Named(kind, t)] = "absent" \/ Whole(Named(kind, t), t)
        \/ fs[Named(kind, t)] = "cut" /\ Writing(Named(kind, t))
    BY <1>1 DEF FilesKept
  <2>2. CASE fs[Named(kind, t)] = "cut" /\ Writing(Named(kind, t))
    BY <1>6, <2>2 DEF Whole
  <2> QED
    BY <1>7, <2>1, <2>2
<1>9. SaveFits'
  BY DEF SaveFits
<1>10. fs[Current] \in {answered} \cup doubt'
  <2>1. CASE k = 5
    <3>1. SaveSteps(s)[4] = Current
      BY <1>2, FileNames
    <3>2. 4 \in 1 .. k - 1
      BY <2>1
    <3>3. Renamed
      BY <3>1, <3>2 DEF Renamed
    <3>4. fs[Current] = s
      BY <1>1, <2>1 DEF SaveFits
    <3> QED
      BY <1>3, <3>3, <3>4
  <2>2. CASE k # 5
    <3>1. k < 5
      BY <1>2, <2>2
    <3>2. fs[Current] \in {answered} \cup doubt
      BY <1>1, <3>1 DEF CurrentFits
    <3> QED
      BY <1>3, <3>2
  <2> QED
    BY <2>1, <2>2
<1>11. CurrentFits'
  <2>1. ASSUME fs[Current] # "absent", NEW kind \in Kinds
        PROVE  Whole(Named(kind, fs[Current]), fs[Current])'
    <3>1. Whole(Named(kind, fs[Current]), fs[Current])
      BY <1>1, <2>1 DEF CurrentFits
    <3>2. PICK g, t : g = Named(kind, fs[Current]) /\ t = fs[Current]
      OBVIOUS
    <3>3. Whole(g, t)'
      BY <1>7, <3>1, <3>2
    <3> QED
      BY <3>2, <3>3 DEF Whole
  <2> QED
    BY <1>1, <1>10, <2>1 DEF CurrentFits
<1> QED
  BY <1>4, <1>5, <1>8, <1>9, <1>11

(* A call fails, or the controller dies.                                      *)
LEMMA FaultStep ==
  ASSUME SInv, SaveFails \/ ControllerDies
  PROVE  SInv'
<1>1. STypes /\ FilesKept /\ SaveFits /\ CurrentFits /\ RunFits
  BY DEF SInv
<1>2. did' \in DidType
  BY <1>1, DidOneMore DEF SaveFails, ControllerDies, STypes
<1>3. /\ save' = NoSave /\ UNCHANGED <<fs, templates, tokens, started, answered>>
      /\ save # NoSave => Interrupted
      /\ save = NoSave => UNCHANGED <<cutShort, doubt>>
  BY DEF SaveFails, ControllerDies, LockFree
<1>4. /\ dir' \in BOOLEAN /\ session' \in Nat /\ session' <= tokens
      /\ releasing' \subseteq 1 .. tokens /\ waiting' \subseteq Sets
  BY <1>1 DEF SaveFails, ControllerDies, STypes
<1>5. runPhase' = "Idle"
  BY <1>1 DEF SaveFails, ControllerDies, SaveFits, LockFree
<1>6. /\ save' \in SaveType /\ cutShort' \subseteq Files /\ doubt' \subseteq Sets
      /\ FilesKept' /\ SaveFits' /\ CurrentFits'
  <2>1. CASE save # NoSave
    BY <1>3, <2>1, EndedEarly
  <2>2. CASE save = NoSave
    <3>1. UNCHANGED <<fs, save, answered, doubt, cutShort>>
      BY <1>3, <2>2
    <3>2. FilesKept' /\ CurrentFits'
      BY <1>1, <3>1 DEF FilesKept, CurrentFits, Whole, Writing
    <3>3. SaveFits'
      BY <1>3 DEF SaveFits
    <3> QED
      BY <1>1, <3>1, <3>2, <3>3 DEF STypes
  <2> QED
    BY <2>1, <2>2
<1>7. STypes'
  BY <1>1, <1>2, <1>3, <1>4, <1>5, <1>6 DEF STypes
<1>8. RunFits'
  BY <1>5 DEF RunFits
<1> QED
  BY <1>6, <1>7, <1>8 DEF SInv

(* The run lock is taken for a run.                                           *)
LEMMA TakePhaseStep ==
  ASSUME SInv, TakePhase
  PROVE  SInv'
<1>1. STypes
  BY DEF SInv
<1>2. did' \in DidType
  BY <1>1, DidOneMore DEF TakePhase, STypes
<1>3. NotStarted \in StartedType /\ NotStarted.id = "absent"
  BY DEF NotStarted, StartedType
<1>4. STypes'
  BY <1>1, <1>2, <1>3 DEF TakePhase, STypes
<1>5. RunFits'
  BY <1>3 DEF TakePhase, RunFits
<1> QED
  BY <1>4, <1>5, BesideTheSave DEF TakePhase, LockFree

(* A step of the run that changes no more than what it has started.           *)
LEMMA RunGoesOn ==
  ASSUME SInv, runPhase = "Starting", runPhase' \in {"Idle", "Starting", "Running"},
         started' \in StartedType, did' \in DidType, RunFits',
         UNCHANGED <<fs, templates, dir, session, tokens, releasing, waiting, save, answered, doubt,
                     cutShort>>
  PROVE  SInv'
<1>1. STypes'
  BY DEF SInv, STypes
<1>2. save = NoSave
  BY DEF SInv, SaveFits
<1> QED
  BY <1>1, <1>2, BesideTheSave

(* run_start_params_snapshot: the id of the run is that of current.json.       *)
LEMMA SnapshotStep ==
  ASSUME SInv, TakeSnapshot
  PROVE  SInv'
<1>1. started = NotStarted /\ did \in DidType
  BY DEF SInv, RunFits, TakeSnapshot, STypes
<1>2. fs[Current] \in Sets \cup {"absent"}
  BY DEF SInv, CurrentFits
<1>3. PICK x \in Sets \cup {"absent", "toml"} :
        x = Snapshot /\ (x = "absent" \/ x = IF fs[Current] = "absent" THEN "toml" ELSE fs[Current])
  BY <1>2 DEF Snapshot
<1>4. started' = [id |-> x, prepare |-> "absent", configure |-> "absent", logged |-> "absent"]
  BY <1>1, <1>3 DEF TakeSnapshot, NotStarted
<1>5. started' \in StartedType
  BY <1>3, <1>4 DEF StartedType
<1>6. /\ runPhase = "Starting" /\ runPhase' = IF x = "absent" THEN "Idle" ELSE "Starting"
      /\ UNCHANGED <<fs, templates, dir, session, tokens, releasing, waiting, save, answered, doubt,
                     cutShort, did>>
  BY <1>3 DEF TakeSnapshot
<1>7. RunFits'
  BY <1>3, <1>4, <1>6 DEF RunFits
<1> QED
  BY <1>1, <1>5, <1>6, <1>7, RunGoesOn

(* What the ECC reads under the id of the run is its set.                     *)
LEMMA EccReadsTheSet ==
  ASSUME SInv, runPhase = "Starting", started.id # "absent", NEW kind \in Kinds,
         EccReads(kind) \notin {"absent", "cut"}
  PROVE  EccReads(kind) = started.id
<1>1. started.id = IF fs[Current] = "absent" THEN "toml" ELSE fs[Current]
  BY DEF SInv, RunFits
<1>2. CASE started.id = "toml"
  BY <1>2 DEF EccReads
<1>3. CASE started.id # "toml"
  <2>1. started.id = fs[Current] /\ fs[Current] # "absent"
    BY <1>1, <1>3
  <2>2. Whole(Named(kind, started.id), started.id)
    BY <2>1 DEF SInv, CurrentFits
  <2> QED
    BY <1>3, <2>2 DEF EccReads, Whole
<1> QED
  BY <1>2, <1>3

(* The ECC loads the xcfg of the id, or the run is given up.                   *)
LEMMA LoadStep ==
  ASSUME SInv, NEW kind \in Kinds, EccLoads(kind)
  PROVE  SInv'
<1>1. STypes /\ RunFits
  BY DEF SInv
<1>2. /\ runPhase = "Starting" /\ started.id # "absent" /\ started \in StartedType
      /\ UNCHANGED <<fs, templates, dir, session, tokens, releasing, waiting, save, answered, doubt,
                     cutShort>>
  BY <1>1 DEF EccLoads, STypes
<1>3. did' \in DidType
  BY <1>1, DidOneMore DEF EccLoads, STypes
<1>4. CASE started' = started /\ runPhase' = "Idle"
  <2>1. RunFits'
    BY <1>4 DEF RunFits
  <2> QED
    BY <1>2, <1>3, <1>4, <2>1, RunGoesOn
<1>5. CASE /\ EccReads(kind) \notin {"absent", "cut"}
           /\ started' = [started EXCEPT ![kind] = EccReads(kind)] /\ runPhase' = runPhase
  <2>1. EccReads(kind) = started.id
    BY <1>2, <1>5, EccReadsTheSet
  <2>2. \/ started' = [started EXCEPT !.prepare = started.id]
        \/ started' = [started EXCEPT !.configure = started.id]
    BY <1>5, <2>1 DEF Kinds
  <2>3. /\ started' \in StartedType /\ started'.id = started.id /\ started'.logged = started.logged
        /\ started'.prepare \in {started.prepare, started.id}
        /\ started'.configure \in {started.configure, started.id}
    BY <1>2, <2>2 DEF StartedType
  <2>4. RunFits'
    BY <1>1, <1>2, <1>5, <2>3 DEF RunFits
  <2> QED
    BY <1>2, <1>3, <1>5, <2>3, <2>4, RunGoesOn
<1> QED
  BY <1>4, <1>5 DEF EccLoads

(* The run is logged with the id of the snapshot.                              *)
LEMMA OnStep ==
  ASSUME SInv, RunIsOn
  PROVE  SInv'
<1>1. RunFits /\ started \in StartedType /\ did' \in DidType
  BY DEF SInv, STypes, RunIsOn
<1>2. started.id # "absent"
  BY <1>1 DEF RunFits, RunIsOn, NotStarted
<1>3. /\ started' \in StartedType /\ started'.id = started.id /\ started'.logged = started.id
      /\ started'.prepare = started.prepare /\ started'.configure = started.configure
  BY <1>1 DEF StartedType, RunIsOn
<1>4. RunFits'
  BY <1>1, <1>2, <1>3 DEF RunFits, RunIsOn
<1> QED
  BY <1>1, <1>3, <1>4, RunGoesOn DEF RunIsOn

(* Every step keeps the invariant.                                             *)
LEMMA StoreStep ==
  ASSUME SInv, [ParamsStoreNext]_storeVars
  PROVE  SInv'
<1>1. CASE UNCHANGED storeVars
  BY <1>1 DEF storeVars, SInv, STypes, FilesKept, SaveFits, CurrentFits, RunFits, Whole, Writing
<1> QED
  BY <1>1, AsideStep, TaskStep, CallStep, FaultStep, TakePhaseStep, SnapshotStep, LoadStep, OnStep
     DEF ParamsStoreNext

(* The invariant holds in every state of the parameter store.                  *)
THEOREM StoreInvariant == ParamsStoreSpec => []SInv
<1>1. ParamsStoreInit => SInv
  BY StoreInit
<1>2. SInv /\ [ParamsStoreNext]_storeVars => SInv'
  BY StoreStep
<1> QED
  BY <1>1, <1>2, PTL DEF ParamsStoreSpec

(* The invariant implies StoreSound: the types, CurrentUsable and              *)
(* AnsweredIsCurrent from CurrentFits, RunUsesOneSet from RunFits.             *)
LEMMA StoreInvSuffices == SInv => StoreSound
<1> SUFFICES ASSUME SInv PROVE StoreSound
  OBVIOUS
<1>1. STypes /\ CurrentFits /\ RunFits
  BY DEF SInv
<1>2. ParamsStoreTypeOK
  <2>1. session \in 0 .. tokens /\ tokens \in 0 .. MaxTokens
    BY <1>1, ParamsStoreAssumption DEF STypes
  <2>2. \A x \in DOMAIN started : started[x] \in Sets \cup {"absent", "toml"}
    BY <1>1 DEF STypes, StartedType
  <2> QED
    BY <1>1, <2>1, <2>2 DEF STypes, ParamsStoreTypeOK, SaveType
<1>3. CurrentUsable
  BY <1>1 DEF CurrentFits, CurrentUsable, Whole
<1>4. RunUsesOneSet
  <2> SUFFICES ASSUME runPhase # "Idle", started.id # "absent"
               PROVE  /\ started.id = IF fs[Current] = "absent" THEN "toml" ELSE fs[Current]
                      /\ \A x \in DOMAIN started : started[x] \in {started.id, "absent"}
    BY DEF RunUsesOneSet
  <2>1. DOMAIN started = {"id", "prepare", "configure", "logged"}
    BY <1>1 DEF STypes, StartedType
  <2> QED
    BY <1>1, <2>1 DEF RunFits
<1>5. AnsweredIsCurrent
  BY <1>1 DEF CurrentFits, AnsweredIsCurrent, LockFree
<1> QED
  BY <1>2, <1>3, <1>4, <1>5 DEF StoreSound

(* At every moment current.json names a set whose files are complete unless    *)
(* their own writing was cut short; a run is prepared, configured and logged   *)
(* with that one set; and the set in force is the one of the last PUT          *)
(* answered, or of one interrupted after its rename (put_params, save_params,  *)
(* run_start_params_snapshot) - for any sets, any number of requests and       *)
(* faults, and whatever calls of a save, readers and deaths come between.      *)
THEOREM StoreProved == ParamsStoreSpec => []StoreSound
BY StoreInvariant, StoreInvSuffices, PTL

-----------------------------------------------------------------------------
(* The logbook.                                                               *)

(* What the logbook is told, and a piece of a line: a record with its number.  *)
Rec == RestRecords \cup SlowRecords
Piece == [seq : Nat, rec : Rec, whole : BOOLEAN]

(* The numbers of ps ascend.                                                   *)
Numbered(ps) == \A i, j \in DOMAIN ps : i < j => ps[i].seq < ps[j].seq

(* The writer is up or not, has a next number, and may be at a write.          *)
BookShape == book = [up |-> book.up, next_seq |-> book.next_seq, writing |-> book.writing]

(* Every variable of the file has its type, and the numbers their bounds.      *)
LTypes ==
  /\ lines \in Seq(Seq(Piece)) /\ tail \in Seq(Piece) /\ acked \in Seq(Piece)
  /\ BookShape
  /\ book.up \in BOOLEAN /\ book.next_seq \in Nat /\ book.next_seq >= 1
  /\ torn \in Nat /\ torn <= MaxTorn /\ asked \in Nat /\ asked <= MaxAppends
  /\ book.next_seq <= asked + 1
  /\ \A i \in DOMAIN lines : lines[i] # << >>

(* The piece that is being written is the last of the tail; its number is      *)
(* taken, and the record of a post is one of slow control.                     *)
WriteFits ==
  book.writing # Nothing =>
    /\ book.up = TRUE /\ Len(tail) >= 1 /\ book.next_seq <= asked
    /\ book.writing.from \in {"rest", "post"} /\ book.writing.rec \in Rec
    /\ tail[Len(tail)] = [seq |-> book.next_seq, rec |-> book.writing.rec, whole |-> FALSE]
    /\ book.writing.from = "post" => book.writing.rec.type = "slow"

(* The numbers ps of the readable lines ascend, have been asked for, and are   *)
(* below the next one; should what the tail begins with be read one day, it    *)
(* comes after them.                                                           *)
NumbersOf(ps) ==
  /\ Numbered(ps) /\ \A i \in DOMAIN ps : ps[i].seq >= 1 /\ ps[i].seq <= asked
  /\ book.up = TRUE => \A i \in DOMAIN ps : ps[i].seq < book.next_seq
  /\ Len(tail) >= 1 /\ tail[1].whole = TRUE => \A i \in DOMAIN ps : ps[i].seq < tail[1].seq

NumbersFit == NumbersOf(Parsed(lines)) /\ \A i \in DOMAIN tail : tail[i].seq <= asked

(* While no write was cut short the file holds what was acknowledged, line by  *)
(* line, and the piece being written.                                          *)
Untorn ==
  torn = 0 =>
    /\ book.up = TRUE /\ Parsed(lines) = acked /\ \A i \in DOMAIN lines : Parses(lines[i])
    /\ Len(tail) = IF book.writing = Nothing THEN 0 ELSE 1

(* What of ak is not in ps.                                                    *)
LostAmong(ak, ps) == {i \in DOMAIN ak : \A j \in DOMAIN ps : ps[j] # ak[i]}

(* There is something in the tail that no write in progress put there.         *)
Leftover == IF Len(tail) > (IF book.writing = Nothing THEN 0 ELSE 1) THEN 1 ELSE 0

(* A write that was cut short has cost a record, or will cost the next one.    *)
LossesPaid == Cardinality(LostAmong(acked, Parsed(lines))) + Leftover <= torn

(* The file and its writer.                                                    *)
FileInv == LTypes /\ WriteFits /\ NumbersFit /\ Untorn /\ LossesPaid

(* The counters of the log posts.                                              *)
Counters == [taken : Nat, accepted : Nat, rejected : Nat, slow_values_not_logged : Nat]

(* The posts are counted.                                                      *)
CountTypes == logPosts \in Counters

(* The inductive invariant of the logbook.                                     *)
LInv == FileInv /\ CountTypes /\ PostsAccounted

-----------------------------------------------------------------------------
(* ps, with the record of line l at its end when the line parses.              *)
WithLine(l, ps) == IF Parses(l) THEN Append(ps, l[1]) ELSE ps

(* One step of reading the lines ls.                                           *)
LineStep(ls) ==
  [x \in Seq(Piece) \X (Nat \ {0}) |->
     IF x[2] \in 1 .. Len(ls) THEN WithLine(ls[x[2]], x[1]) ELSE x[1]]

(* Parsed goes through the lines from the first.                               *)
LEMMA ParsedFollows ==
  ASSUME NEW ls \in Seq(Seq(Piece))
  PROVE  \E g : /\ g[0] = << >>
                /\ \A j \in 0 .. Len(ls) : g[j] \in Seq(Piece)
                /\ \A j \in 1 .. Len(ls) : g[j] = WithLine(ls[j], g[j - 1])
                /\ Parsed(ls) = g[Len(ls)]
<1> DEFINE n == Len(ls)
           step == LineStep(ls)
           e == << >>
<1>0. n \in Nat
  OBVIOUS
<1>1. \A j \in 1 .. n : Parses(ls[j]) => ls[j][1] \in Piece
  <2> SUFFICES ASSUME NEW j \in 1 .. n, Parses(ls[j]) PROVE ls[j][1] \in Piece
    OBVIOUS
  <2>1. ls[j] \in Seq(Piece) /\ Len(ls[j]) = 1
    BY DEF Parses
  <2> QED
    BY <2>1
<1>2. step \in [Seq(Piece) \X (Nat \ {0}) -> Seq(Piece)]
  <2> HIDE DEF n
  <2> SUFFICES ASSUME NEW x \in Seq(Piece) \X (Nat \ {0})
               PROVE  (IF x[2] \in 1 .. n THEN WithLine(ls[x[2]], x[1]) ELSE x[1])
                        \in Seq(Piece)
    BY DEF LineStep, n
  <2> QED
    BY <1>1 DEF WithLine
<1>3. e \in Seq(Piece)
  OBVIOUS
<1>4. PICK g \in [0 .. n -> Seq(Piece)] : Follows(g, n, e, step)
  <2> HIDE DEF step, n, e
  <2> QED
    BY <1>0, <1>2, <1>3, Recursion
<1>5. ASSUME NEW j \in 1 .. n PROVE g[j] = WithLine(ls[j], g[j - 1])
  <2>1. j - 1 \in 0 .. n /\ j \in Nat \ {0}
    <3> HIDE DEF n
    <3> QED
      BY <1>0
  <2>2. g[j - 1] \in Seq(Piece)
    BY <2>1
  <2>3. step[<<g[j - 1], j>>] = WithLine(ls[j], g[j - 1])
    BY <2>1, <2>2 DEF LineStep
  <2> HIDE DEF step
  <2> QED
    BY <1>4, <2>3 DEF Follows
<1> DEFINE F(f) == [i \in 0 .. n |->
                      IF i = 0 THEN << >>
                      ELSE IF Parses(ls[i]) THEN Append(f[i - 1], ls[i][1]) ELSE f[i - 1]]
           c == CHOOSE f : f = F(f)
<1>6. ASSUME NEW j \in 1 .. n, NEW f PROVE F(f)[j] = WithLine(ls[j], f[j - 1])
  <2>1. j \in 0 .. n /\ j # 0
    <3> HIDE DEF n
    <3> QED
      BY <1>0
  <2> QED
    BY <2>1 DEF WithLine
<1>7. ASSUME NEW f PROVE F(f)[0] = << >>
  <2>1. 0 \in 0 .. n
    <3> HIDE DEF n
    <3> QED
      BY <1>0
  <2> QED
    BY <2>1
<1>8. \A f : F(f) = [j \in 0 .. n |-> F(f)[j]]
  OBVIOUS
<1>9. Parsed(ls) = c[n]
  BY DEF Parsed
<1> HIDE DEF F, n
<1>10. g = F(g)
  <2>1. \A j \in 0 .. n : g[j] = F(g)[j]
    <3> SUFFICES ASSUME NEW j \in 0 .. n PROVE g[j] = F(g)[j]
      OBVIOUS
    <3>1. CASE j = 0
      BY <1>4, <1>7, <3>1 DEF Follows
    <3>2. CASE j # 0
      <4>1. j \in 1 .. n
        BY <1>0, <3>2
      <4> QED
        BY <1>5, <1>6, <4>1
    <3> QED
      BY <3>1, <3>2
  <2> QED
    BY <1>8, <2>1
<1>11. c = F(c)
  BY <1>10
<1> HIDE DEF c
<1>12. c[0] = << >>
  BY <1>7, <1>11
<1>13. \A j \in 1 .. n : c[j] = WithLine(ls[j], c[j - 1])
  BY <1>6, <1>11
<1> DEFINE T == {m \in Nat : m <= n => c[m] \in Seq(Piece)}
<1>14. 0 \in T
  BY <1>3, <1>12
<1>15. ASSUME NEW m \in Nat, m \in T PROVE m + 1 \in T
  <2> SUFFICES ASSUME m + 1 <= n PROVE c[m + 1] \in Seq(Piece)
    OBVIOUS
  <2>1. c[m] \in Seq(Piece) /\ m + 1 \in 1 .. n /\ (m + 1) - 1 = m
    BY <1>0, <1>15
  <2>2. c[m + 1] = WithLine(ls[m + 1], c[m])
    BY <1>13, <2>1
  <2> QED
    BY <1>1, <2>1, <2>2 DEF WithLine
<1>16. Nat \subseteq T
  <2> HIDE DEF T
  <2> QED
    BY <1>14, <1>15, NatSetInduction
<1>17. \A j \in 0 .. n : c[j] \in Seq(Piece)
  BY <1>0, <1>16
<1> QED
  BY <1>9, <1>12, <1>13, <1>17 DEF n

(* Parsed reads records, and one more line adds its record if it parses.       *)
LEMMA ParsedAppend ==
  ASSUME NEW ls \in Seq(Seq(Piece)), NEW l \in Seq(Piece)
  PROVE  /\ Parsed(ls) \in Seq(Piece)
         /\ Parsed(Append(ls, l)) = WithLine(l, Parsed(ls))
<1> DEFINE n == Len(ls)
           ms == Append(ls, l)
<1>1. /\ n \in Nat /\ Len(ms) = n + 1 /\ ms \in Seq(Seq(Piece))
      /\ \A j \in 1 .. n : ms[j] = ls[j]
      /\ ms[n + 1] = l
  OBVIOUS
<1>2. PICK g : /\ g[0] = << >>
               /\ \A j \in 0 .. n : g[j] \in Seq(Piece)
               /\ \A j \in 1 .. n : g[j] = WithLine(ls[j], g[j - 1])
               /\ Parsed(ls) = g[n]
  BY ParsedFollows
<1>3. PICK h : /\ h[0] = << >>
               /\ \A j \in 1 .. n + 1 : h[j] = WithLine(ms[j], h[j - 1])
               /\ Parsed(ms) = h[n + 1]
  <2>1. \E h : /\ h[0] = << >>
               /\ \A j \in 1 .. Len(ms) : h[j] = WithLine(ms[j], h[j - 1])
               /\ Parsed(ms) = h[Len(ms)]
    <3> HIDE DEF ms
    <3> QED
      BY <1>1, ParsedFollows
  <2> HIDE DEF ms
  <2> QED
    BY <1>1, <2>1
<1> HIDE DEF ms, n
<1> DEFINE T == {m \in Nat : m <= n => h[m] = g[m]}
<1>4. 0 \in T
  BY <1>2, <1>3
<1>5. ASSUME NEW m \in Nat, m \in T PROVE m + 1 \in T
  <2> SUFFICES ASSUME m + 1 <= n PROVE h[m + 1] = g[m + 1]
    OBVIOUS
  <2>1. h[m] = g[m] /\ m + 1 \in 1 .. n /\ m + 1 \in 1 .. n + 1 /\ (m + 1) - 1 = m
    BY <1>1, <1>5
  <2> QED
    BY <1>1, <1>2, <1>3, <2>1
<1>6. Nat \subseteq T
  <2> HIDE DEF T
  <2> QED
    BY <1>4, <1>5, NatSetInduction
<1>7. h[n] = g[n]
  BY <1>1, <1>6
<1>8. n + 1 \in 1 .. n + 1 /\ (n + 1) - 1 = n /\ n \in 0 .. n
  BY <1>1
<1>9. h[n + 1] = WithLine(l, g[n])
  BY <1>1, <1>3, <1>7, <1>8
<1> QED
  BY <1>2, <1>3, <1>8, <1>9 DEF ms

(* There is nothing to read in an empty file.                                  *)
LEMMA ParsedEmpty == Parsed(<< >>) = << >>
<1>1. << >> \in Seq(Seq(Piece)) /\ Len(<< >>) = 0
  OBVIOUS
<1>2. \E g : g[0] = << >> /\ Parsed(<< >>) = g[Len(<< >>)]
  BY <1>1, ParsedFollows
<1> QED
  BY <1>1, <1>2

(* All of the records come after 0.                                            *)
LEMMA AllAfterZero ==
  ASSUME NEW ps \in Seq(Piece), \A i \in DOMAIN ps : ps[i].seq >= 1
  PROVE  After(0, ps) = ps
<1> DEFINE n == Len(ps)
           G(i) == SubSeq(ps, 1, i)
           g == [i \in 0 .. n |-> G(i)]
           F(f) == [i \in 0 .. n |->
                      IF i = 0 THEN << >>
                      ELSE IF ps[i].seq > 0 THEN Append(f[i - 1], ps[i]) ELSE f[i - 1]]
           c == CHOOSE f : f = F(f)
<1>1. n \in Nat /\ DOMAIN ps = 1 .. n
  OBVIOUS
<1>2. \A i \in 1 .. n : ps[i].seq > 0
  <2>1. \A i \in 1 .. n : ps[i] \in Piece
    OBVIOUS
  <2>2. \A p \in Piece : p.seq \in Nat
    BY DEF Piece
  <2> HIDE DEF n
  <2> QED
    BY <1>1, <2>1, <2>2
<1>3. G(0) = << >> /\ G(n) = ps
  OBVIOUS
<1>4. ASSUME NEW i \in 1 .. n PROVE G(i) = Append(G(i - 1), ps[i])
  <2>1. i - 1 \in Nat /\ (i - 1) + 1 = i /\ i <= n
    <3> HIDE DEF n
    <3> QED
      BY <1>1
  <2>2. << >> \o SubSeq(ps, 1, (i - 1) + 1) = Append(<< >> \o SubSeq(ps, 1, i - 1), ps[(i - 1) + 1])
    <3>1. << >> \in Seq(Piece)
      OBVIOUS
    <3> QED
      BY <2>1, <3>1, SubSeqGrow
  <2>3. SubSeq(ps, 1, i) \in Seq(Piece) /\ SubSeq(ps, 1, i - 1) \in Seq(Piece)
    OBVIOUS
  <2>4. << >> \o SubSeq(ps, 1, i) = SubSeq(ps, 1, i) /\ << >> \o SubSeq(ps, 1, i - 1) = SubSeq(ps, 1, i - 1)
    BY <2>3, ConcatEmptySeq
  <2> QED
    BY <2>1, <2>2, <2>4
<1>5. After(0, ps) = c[n]
  BY DEF After
<1>6. ASSUME NEW i \in 1 .. n, NEW f PROVE F(f)[i] = Append(f[i - 1], ps[i])
  <2>1. i \in 0 .. n /\ i # 0
    <3> HIDE DEF n
    <3> QED
      BY <1>1
  <2> QED
    BY <1>2, <2>1
<1>7. ASSUME NEW f PROVE F(f)[0] = << >>
  <2>1. 0 \in 0 .. n
    <3> HIDE DEF n
    <3> QED
      BY <1>1
  <2> QED
    BY <2>1
<1>8. \A f : F(f) = [j \in 0 .. n |-> F(f)[j]]
  OBVIOUS
<1> HIDE DEF F, n, G
<1>9. g = F(g)
  <2>1. \A j \in 0 .. n : g[j] = F(g)[j]
    <3> SUFFICES ASSUME NEW j \in 0 .. n PROVE G(j) = F(g)[j]
      OBVIOUS
    <3>1. CASE j = 0
      BY <1>3, <1>7, <3>1
    <3>2. CASE j # 0
      <4>1. j \in 1 .. n /\ j - 1 \in 0 .. n
        BY <1>1, <3>2
      <4>2. g[j - 1] = G(j - 1)
        BY <4>1
      <4> QED
        BY <1>4, <1>6, <4>1, <4>2
    <3> QED
      BY <3>1, <3>2
  <2>2. g = [j \in 0 .. n |-> g[j]]
    OBVIOUS
  <2> QED
    BY <1>8, <2>1, <2>2
<1> HIDE DEF g
<1>10. c = F(c)
  BY <1>9
<1> HIDE DEF c
<1> DEFINE T == {m \in Nat : m <= n => c[m] = G(m)}
<1>11. 0 \in T
  BY <1>3, <1>7, <1>10
<1>12. ASSUME NEW m \in Nat, m \in T PROVE m + 1 \in T
  <2> SUFFICES ASSUME m + 1 <= n PROVE c[m + 1] = G(m + 1)
    OBVIOUS
  <2>1. c[m] = G(m) /\ m + 1 \in 1 .. n /\ (m + 1) - 1 = m
    BY <1>1, <1>12
  <2>2. c[m + 1] = Append(c[m], ps[m + 1])
    BY <1>6, <1>10, <2>1
  <2> QED
    BY <1>4, <2>1, <2>2
<1>13. Nat \subseteq T
  <2> HIDE DEF T
  <2> QED
    BY <1>11, <1>12, NatSetInduction
<1>14. c[n] = G(n)
  BY <1>1, <1>13
<1> QED
  BY <1>3, <1>5, <1>14

(* A sequence without its last element.                                        *)
LEMMA FrontFacts ==
  ASSUME NEW S, NEW s \in Seq(S), Len(s) >= 1
  PROVE  /\ Front(s) \in Seq(S) /\ Len(Front(s)) = Len(s) - 1
         /\ \A i \in 1 .. Len(s) - 1 : Front(s)[i] = s[i]
         /\ Last(s) = s[Len(s)] /\ s[Len(s)] \in S
<1> DEFINE n == Len(s)
<1>1. n \in Nat /\ n >= 1 /\ n - 1 \in Nat /\ \A i \in 1 .. n : s[i] \in S
  OBVIOUS
<1>2. /\ SubSeq(s, 1, n - 1) \in Seq(S)
      /\ \A i \in 1 .. n - 1 : SubSeq(s, 1, n - 1)[i] = s[i]
  BY <1>1
<1>3. Len(SubSeq(s, 1, n - 1)) = n - 1
  <2> HIDE DEF n
  <2>1. PICK k \in Nat : k = n - 1
    BY <1>1
  <2>2. k \in Int /\ 1 \in Int /\ \A i \in 1 .. k : s[i] \in S
    BY <1>1, <2>1
  <2>3. Len(SubSeq(s, 1, k)) = IF 1 <= k THEN k - 1 + 1 ELSE 0
    BY <2>2, SubSeqProperties
  <2>4. Len(SubSeq(s, 1, k)) = k
    BY <2>3
  <2> QED
    BY <2>1, <2>4
<1>4. s[n] \in S
  <2> HIDE DEF n
  <2> QED
    BY <1>1
<1> QED
  BY <1>2, <1>3, <1>4 DEF Front, Last

(* A piece is told by its fields.                                              *)
LEMMA SamePiece ==
  ASSUME NEW q \in Piece, NEW p \in Piece, q.seq = p.seq, q.rec = p.rec, q.whole = p.whole
  PROVE  q = p
BY DEF Piece

(* A piece of which all is written.                                            *)
LEMMA WholePiece ==
  ASSUME NEW q \in Piece
  PROVE  LET w == [q EXCEPT !.whole = TRUE]
         IN  w \in Piece /\ w.seq = q.seq /\ w.rec = q.rec /\ w.whole = TRUE
<1>1. [q EXCEPT !.whole = TRUE] \in Piece
  BY DEF Piece
<1>2. [q EXCEPT !.whole = TRUE].seq = q.seq /\ [q EXCEPT !.whole = TRUE].rec = q.rec
  BY DEF Piece
<1>3. [q EXCEPT !.whole = TRUE].whole = TRUE
  BY DEF Piece
<1> QED
  BY <1>1, <1>2, <1>3

(* A later number keeps the order.                                             *)
LEMMA NumberedAppend ==
  ASSUME NEW ps \in Seq(Piece), NEW p \in Piece, Numbered(ps),
         \A i \in DOMAIN ps : ps[i].seq < p.seq
  PROVE  Numbered(Append(ps, p))
<1>1. /\ Len(ps) \in Nat /\ DOMAIN ps = 1 .. Len(ps)
      /\ DOMAIN Append(ps, p) = 1 .. Len(ps) + 1
      /\ \A i \in 1 .. Len(ps) : Append(ps, p)[i] = ps[i]
      /\ Append(ps, p)[Len(ps) + 1] = p
  BY AppendShape
<1> DEFINE t == Append(ps, p)
<1> HIDE DEF t
<1> SUFFICES ASSUME NEW i \in DOMAIN t, NEW j \in DOMAIN t, i < j PROVE t[i].seq < t[j].seq
  BY DEF Numbered, t
<1>2. CASE j = Len(ps) + 1
  <2>1. i \in DOMAIN ps /\ t[i] = ps[i] /\ t[j] = p
    BY <1>1, <1>2 DEF t
  <2> QED
    BY <2>1
<1>3. CASE j # Len(ps) + 1
  <2>1. i \in DOMAIN ps /\ j \in DOMAIN ps /\ t[i] = ps[i] /\ t[j] = ps[j]
    BY <1>1, <1>3 DEF t
  <2> QED
    BY <2>1 DEF Numbered
<1> QED
  BY <1>2, <1>3

(* What a reader finds: the records of the finished lines, and that of the     *)
(* tail if it parses.                                                          *)
LEMMA ContentFacts ==
  ASSUME LTypes
  PROVE  /\ ParsedLines = WithLine(tail, Parsed(lines)) /\ Parsed(lines) \in Seq(Piece)
         /\ tail = << >> => Content = lines /\ ~Parses(tail)
         /\ tail # << >> => Content = Append(lines, tail)
<1>1. lines \in Seq(Seq(Piece)) /\ tail \in Seq(Piece)
  BY DEF LTypes
<1>2. CASE tail = << >>
  <2>1. Content = lines
    BY <1>2 DEF Content
  <2>2. ~Parses(tail)
    <3>1. Len(tail) = 0
      BY <1>2
    <3> QED
      BY <3>1 DEF Parses
  <2> QED
    BY <1>1, <1>2, <2>1, <2>2, ParsedAppend DEF ParsedLines, WithLine
<1>3. CASE tail # << >>
  <2>1. Content = Append(lines, tail)
    BY <1>3 DEF Content
  <2> QED
    BY <1>1, <1>3, <2>1, ParsedAppend DEF ParsedLines
<1> QED
  BY <1>2, <1>3

-----------------------------------------------------------------------------
(* What is acknowledged and readable is not lost; what is acknowledged and not *)
(* readable adds one.                                                          *)
LEMMA LossFacts ==
  ASSUME NEW ak \in Seq(Piece), NEW ps \in Seq(Piece), NEW p \in Piece
  PROVE  /\ IsFiniteSet(LostAmong(ak, ps)) /\ Cardinality(LostAmong(ak, ps)) \in Nat
         /\ Cardinality(LostAmong(Append(ak, p), Append(ps, p)))
              <= Cardinality(LostAmong(ak, ps))
         /\ Cardinality(LostAmong(Append(ak, p), ps)) <= Cardinality(LostAmong(ak, ps)) + 1
<1> DEFINE n == Len(ak)
           m == Len(ps)
           bk == Append(ak, p)
           qs == Append(ps, p)
           L == LostAmong(ak, ps)
<1>1. /\ n \in Nat /\ DOMAIN ak = 1 .. n /\ DOMAIN bk = 1 .. n + 1
      /\ \A i \in 1 .. n : bk[i] = ak[i]
      /\ bk[n + 1] = p
  BY AppendShape
<1>2. /\ m \in Nat /\ DOMAIN ps = 1 .. m /\ DOMAIN qs = 1 .. m + 1
      /\ \A i \in 1 .. m : qs[i] = ps[i]
      /\ qs[m + 1] = p
  BY AppendShape
<1> HIDE DEF n, m, bk, qs
<1>3. L \subseteq 1 .. n
  BY <1>1 DEF LostAmong
<1>4. IsFiniteSet(1 .. n)
  BY <1>1, FS_Interval
<1>5. IsFiniteSet(L) /\ Cardinality(L) \in Nat
  BY <1>3, <1>4, FS_Subset, FS_CardinalityType
<1>6. Cardinality(LostAmong(bk, qs)) <= Cardinality(L)
  <2>1. LostAmong(bk, qs) \subseteq L
    <3> SUFFICES ASSUME NEW i \in LostAmong(bk, qs) PROVE i \in L
      OBVIOUS
    <3>1. i \in 1 .. n + 1 /\ \A j \in 1 .. m + 1 : qs[j] # bk[i]
      BY <1>1, <1>2 DEF LostAmong
    <3>2. bk[i] # p
      <4>1. m + 1 \in 1 .. m + 1
        BY <1>2
      <4> QED
        BY <1>2, <3>1, <4>1
    <3>3. i \in 1 .. n
      BY <1>1, <3>1, <3>2
    <3>4. \A j \in 1 .. m : ps[j] # ak[i]
      <4> SUFFICES ASSUME NEW j \in 1 .. m PROVE ps[j] # ak[i]
        OBVIOUS
      <4>1. j \in 1 .. m + 1
        BY <1>2
      <4> QED
        BY <1>1, <1>2, <3>1, <3>3, <4>1
    <3> QED
      BY <1>1, <1>2, <3>3, <3>4 DEF LostAmong
  <2> QED
    BY <1>5, <2>1, FS_Subset
<1>7. Cardinality(LostAmong(bk, ps)) <= Cardinality(L) + 1
  <2>1. LostAmong(bk, ps) \subseteq L \cup {n + 1}
    <3> SUFFICES ASSUME NEW i \in LostAmong(bk, ps), i # n + 1 PROVE i \in L
      OBVIOUS
    <3>1. i \in 1 .. n + 1 /\ \A j \in DOMAIN ps : ps[j] # bk[i]
      BY <1>1 DEF LostAmong
    <3>2. i \in 1 .. n
      BY <1>1, <3>1
    <3> QED
      BY <1>1, <3>1, <3>2 DEF LostAmong
  <2>2. IsFiniteSet(L \cup {n + 1}) /\ Cardinality(L \cup {n + 1}) <= Cardinality(L) + 1
    <3>1. /\ IsFiniteSet(L \cup {n + 1})
          /\ Cardinality(L \cup {n + 1})
               = IF n + 1 \in L THEN Cardinality(L) ELSE Cardinality(L) + 1
      BY <1>5, FS_AddElement
    <3> QED
      BY <1>5, <3>1
  <2>3. /\ Cardinality(LostAmong(bk, ps)) <= Cardinality(L \cup {n + 1})
        /\ Cardinality(LostAmong(bk, ps)) \in Nat /\ Cardinality(L \cup {n + 1}) \in Nat
    BY <2>1, <2>2, FS_Subset, FS_CardinalityType
  <2> QED
    BY <1>5, <2>2, <2>3
<1> QED
  BY <1>5, <1>6, <1>7 DEF bk, qs

(* The controller starts with an empty logbook.                                *)
LEMMA LogbookStarts ==
  ASSUME LogbookInit
  PROVE  LInv
<1>1. /\ << >> \in Seq(Seq(Piece)) /\ << >> \in Seq(Piece) /\ Len(<< >>) = 0
      /\ DOMAIN << >> = {}
  OBVIOUS
<1>2. Parsed(lines) = << >>
  BY ParsedEmpty DEF LogbookInit
<1>3. /\ lines = << >> /\ tail = << >> /\ acked = << >> /\ torn = 0 /\ asked = 0
      /\ book.up = TRUE /\ book.next_seq = 1 /\ book.writing = Nothing
      /\ BookShape
  BY DEF LogbookInit, BookShape
<1>4. LTypes
  <2>1. 0 <= MaxTorn /\ 0 <= MaxAppends
    BY LogbookAssumption
  <2>2. lines \in Seq(Seq(Piece)) /\ tail \in Seq(Piece) /\ acked \in Seq(Piece)
    BY <1>1, <1>3
  <2>3. \A i \in DOMAIN lines : lines[i] # << >>
    BY <1>1, <1>3
  <2>4. /\ book.up \in BOOLEAN /\ book.next_seq \in Nat /\ book.next_seq >= 1
        /\ torn \in Nat /\ torn <= MaxTorn /\ asked \in Nat /\ asked <= MaxAppends
        /\ book.next_seq <= asked + 1
    <3>1. /\ book.up = TRUE /\ book.next_seq = 1 /\ torn = 0 /\ asked = 0
      BY <1>3
    <3>2. book.up \in BOOLEAN
      BY <3>1, Zenon
    <3>5. book.next_seq \in Nat /\ book.next_seq >= 1
      BY <3>1
    <3>3. torn \in Nat /\ torn <= MaxTorn /\ asked \in Nat /\ asked <= MaxAppends
      BY <3>1, <2>1
    <3>4. book.next_seq <= asked + 1
      BY <3>1
    <3> QED
      BY <3>2, <3>3, <3>4, <3>5, Zenon
  <2> QED
    BY <1>3, <2>2, <2>3, <2>4, Zenon DEF LTypes
<1>5. WriteFits
  BY <1>3 DEF WriteFits
<1>6. NumbersFit
  BY <1>1, <1>2, <1>3 DEF NumbersFit, NumbersOf, Numbered
<1>7. Untorn
  BY <1>1, <1>2, <1>3 DEF Untorn
<1>8. LossesPaid
  <2>1. LostAmong(acked, Parsed(lines)) = {}
    BY <1>1, <1>3 DEF LostAmong
  <2>2. Leftover = 0
    BY <1>1, <1>3 DEF Leftover
  <2> QED
    BY <1>3, <2>1, <2>2, FS_EmptySet DEF LossesPaid
<1>9. CountTypes /\ PostsAccounted
  <2>1. {i \in DOMAIN acked : acked[i].rec.type = "slow"} = {}
    BY <1>1, <1>3
  <2>2. Cardinality({i \in DOMAIN acked : acked[i].rec.type = "slow"}) = 0
    BY <2>1, FS_EmptySet
  <2>3. book.writing.from = "nobody"
    BY <1>3 DEF Nothing
  <2>4. CountTypes /\ logPosts.taken = 0 /\ logPosts.accepted = 0 /\ logPosts.rejected = 0
        /\ logPosts.slow_values_not_logged = 0 /\ slowLatest.kept = slowLatest.posted
    BY DEF LogbookInit, CountTypes, Counters
  <2> QED
    BY <2>2, <2>3, <2>4 DEF PostsAccounted
<1> QED
  BY <1>4, <1>5, <1>6, <1>7, <1>8, <1>9 DEF LInv, FileInv

(* The file and its writer stay, and more may have been asked.                 *)
LEMMA FileSame ==
  ASSUME FileInv, UNCHANGED <<lines, tail, acked, torn, book>>,
         asked' \in Nat, asked <= asked', asked' <= MaxAppends
  PROVE  FileInv'
<1>1. LTypes /\ WriteFits /\ NumbersFit /\ Untorn /\ LossesPaid
  BY DEF FileInv
<1>2. /\ asked \in Nat /\ book.next_seq \in Nat /\ tail \in Seq(Piece)
      /\ Parsed(lines) \in Seq(Piece) /\ book.next_seq <= asked + 1
  BY <1>1, ContentFacts DEF LTypes
<1>3. \A n \in Nat : n <= asked => n <= asked'
  BY <1>2
<1>4. book.next_seq <= asked' + 1
  BY <1>2
<1>5. LTypes'
  BY <1>1, <1>4 DEF LTypes, BookShape
<1>6. WriteFits'
  BY <1>1, <1>2, <1>3 DEF WriteFits
<1>7. NumbersFit'
  <2>1. \A p \in Piece : p.seq \in Nat
    BY DEF Piece
  <2>2. /\ \A i \in DOMAIN tail : tail[i] \in Piece
        /\ \A i \in DOMAIN Parsed(lines) : Parsed(lines)[i] \in Piece
    BY <1>2
  <2>3. PICK ps : ps = Parsed(lines)
    OBVIOUS
  <2>4. NumbersOf(ps) /\ \A i \in DOMAIN tail : tail[i].seq <= asked
    BY <1>1, <2>3 DEF NumbersFit
  <2>5. \A i \in DOMAIN tail : tail[i].seq <= asked'
    BY <1>3, <2>1, <2>2, <2>4
  <2>6. \A i \in DOMAIN ps : ps[i].seq <= asked'
    BY <1>3, <2>1, <2>2, <2>3, <2>4 DEF NumbersOf
  <2>7. /\ Numbered(ps) /\ \A i \in DOMAIN ps : ps[i].seq >= 1 /\ ps[i].seq <= asked'
        /\ book'.up = TRUE => \A i \in DOMAIN ps : ps[i].seq < book'.next_seq
        /\ Len(tail') >= 1 /\ tail'[1].whole = TRUE =>
             \A i \in DOMAIN ps : ps[i].seq < tail'[1].seq
    BY <2>4, <2>6 DEF NumbersOf
  <2>8. Parsed(lines)' = ps
    BY <2>3
  <2> QED
    BY <2>5, <2>7, <2>8 DEF NumbersFit, NumbersOf
<1>8. Untorn'
  BY <1>1 DEF Untorn
<1>9. LossesPaid'
  BY <1>1 DEF LossesPaid, Leftover
<1> QED
  BY <1>5, <1>6, <1>7, <1>8, <1>9 DEF FileInv

(* A record is begun: it goes after what is left in the tail.                  *)
LEMMA FileBegin ==
  ASSUME FileInv, book.up = TRUE, book.writing = Nothing, asked < MaxAppends, asked' = asked + 1,
         NEW from \in {"rest", "post"}, NEW rec \in Rec, from = "post" => rec.type = "slow",
         BeginAppend(from, rec), UNCHANGED <<lines, acked, torn>>
  PROVE  FileInv' /\ book'.writing.from = from /\ book'.up = TRUE
<1>1. LTypes /\ WriteFits /\ NumbersFit /\ Untorn /\ LossesPaid
  BY DEF FileInv
<1>2. PICK n \in Nat : n = book.next_seq
  BY <1>1 DEF LTypes
<1>3. PICK p \in Piece : p = [seq |-> n, rec |-> rec, whole |-> FALSE]
  BY DEF Piece
<1>4. PICK ps : ps = Parsed(lines)
  OBVIOUS
<1>5. tail' = Append(tail, p)
  BY <1>2, <1>3 DEF BeginAppend
<1>6. /\ book'.writing = [from |-> from, rec |-> rec] /\ book'.up = TRUE /\ book'.next_seq = n
      /\ BookShape'
  BY <1>1, <1>2 DEF BeginAppend, LTypes, BookShape
<1>7. book'.writing # Nothing /\ book'.writing.from = from /\ book'.writing.rec = rec
  BY <1>6 DEF Nothing
<1>8. /\ tail \in Seq(Piece) /\ asked \in Nat /\ n >= 1 /\ n <= asked + 1
      /\ \A i \in DOMAIN tail : tail[i] \in Piece
  BY <1>1, <1>2 DEF LTypes
<1>9. /\ Len(tail) \in Nat /\ Len(tail') = Len(tail) + 1 /\ tail' \in Seq(Piece)
      /\ DOMAIN tail = 1 .. Len(tail) /\ DOMAIN tail' = 1 .. Len(tail) + 1
      /\ \A i \in 1 .. Len(tail) : tail'[i] = tail[i]
      /\ tail'[Len(tail) + 1] = p
  BY <1>5, <1>8, AppendShape
<1>10. LTypes'
  <2>1. asked' \in Nat /\ asked' <= MaxAppends /\ n <= asked' + 1
    BY <1>8, LogbookAssumption
  <2> QED
    BY <1>1, <1>2, <1>6, <1>8, <1>9, <2>1 DEF LTypes
<1>11. WriteFits'
  <2>1. n <= asked' /\ Len(tail') >= 1
    BY <1>8, <1>9
  <2>2. tail'[Len(tail')] = [seq |-> book'.next_seq, rec |-> book'.writing.rec, whole |-> FALSE]
    BY <1>3, <1>6, <1>7, <1>9
  <2> QED
    BY <1>6, <1>7, <2>1, <2>2 DEF WriteFits
<1>12. NumbersFit'
  <2>1. NumbersOf(ps) /\ \A i \in DOMAIN tail : tail[i].seq <= asked
    BY <1>1, <1>4 DEF NumbersFit
  <2>2. \A q \in Piece : q.seq \in Nat
    BY DEF Piece
  <2>3. ps \in Seq(Piece)
    BY <1>1, <1>4, ContentFacts
  <2>4. \A i \in DOMAIN tail' : tail'[i].seq <= asked'
    <3> SUFFICES ASSUME NEW i \in DOMAIN tail' PROVE tail'[i].seq <= asked'
      OBVIOUS
    <3>1. CASE i = Len(tail) + 1
      <4>1. tail'[i].seq = n
        BY <1>3, <1>9, <3>1
      <4> QED
        BY <1>8, <4>1
    <3>2. CASE i # Len(tail) + 1
      <4>1. i \in DOMAIN tail /\ tail'[i] = tail[i]
        BY <1>9, <3>2
      <4>2. tail[i].seq \in Nat /\ tail[i].seq <= asked
        BY <1>8, <2>1, <2>2, <4>1
      <4> QED
        BY <1>8, <4>1, <4>2
    <3> QED
      BY <3>1, <3>2
  <2>5. \A i \in DOMAIN ps : ps[i].seq >= 1 /\ ps[i].seq <= asked'
    <3> SUFFICES ASSUME NEW i \in DOMAIN ps PROVE ps[i].seq >= 1 /\ ps[i].seq <= asked'
      OBVIOUS
    <3>1. ps[i].seq \in Nat /\ ps[i].seq >= 1 /\ ps[i].seq <= asked
      BY <2>1, <2>2, <2>3 DEF NumbersOf
    <3> QED
      BY <1>8, <3>1
  <2>6. \A i \in DOMAIN ps : ps[i].seq < n
    BY <1>2, <2>1 DEF NumbersOf
  <2>7. ASSUME Len(tail') >= 1, tail'[1].whole = TRUE
        PROVE  \A i \in DOMAIN ps : ps[i].seq < tail'[1].seq
    <3>1. CASE Len(tail) = 0
      <4>1. tail'[1] = p
        BY <1>9, <3>1
      <4> QED
        BY <1>3, <2>7, <4>1
    <3>2. CASE Len(tail) >= 1
      <4>1. tail'[1] = tail[1]
        BY <1>9, <3>2
      <4> QED
        BY <2>1, <2>7, <3>2, <4>1 DEF NumbersOf
    <3> QED
      BY <1>9, <3>1, <3>2
  <2>8. Parsed(lines)' = ps /\ Numbered(ps)
    BY <1>4, <2>1 DEF NumbersOf
  <2> QED
    BY <1>6, <2>4, <2>5, <2>6, <2>7, <2>8 DEF NumbersFit, NumbersOf
<1>13. Untorn'
  BY <1>1, <1>6, <1>7, <1>9 DEF Untorn
<1>14. LossesPaid'
  <2>1. Leftover' = Leftover
    BY <1>7, <1>9 DEF Leftover
  <2> QED
    BY <1>1, <2>1 DEF LossesPaid
<1> QED
  BY <1>6, <1>7, <1>10, <1>11, <1>12, <1>13, <1>14 DEF FileInv

(* The write succeeds: the line is finished, and readable when nothing was     *)
(* left in the tail.                                                           *)
LEMMA FileEnd ==
  ASSUME FileInv, EndAppend
  PROVE  /\ FileInv' /\ book'.writing = Nothing /\ book'.up = TRUE
         /\ \E p \in Piece : acked' = Append(acked, p) /\ p.rec = book.writing.rec
<1>1. LTypes /\ WriteFits /\ NumbersFit /\ Untorn /\ LossesPaid
  BY DEF FileInv
<1>2. PICK n \in Nat : n = book.next_seq
  BY <1>1 DEF LTypes
<1>3. PICK ps : ps = Parsed(lines)
  OBVIOUS
<1>4. /\ book.up = TRUE /\ Len(tail) >= 1 /\ n <= asked /\ book.writing.rec \in Rec
      /\ tail[Len(tail)] = [seq |-> n, rec |-> book.writing.rec, whole |-> FALSE]
      /\ book.writing # Nothing
  BY <1>1, <1>2 DEF WriteFits, EndAppend
<1>5. PICK p \in Piece : p = [seq |-> n, rec |-> book.writing.rec, whole |-> TRUE]
  BY <1>4 DEF Piece
<1>6. /\ tail \in Seq(Piece) /\ lines \in Seq(Seq(Piece)) /\ acked \in Seq(Piece)
      /\ asked \in Nat /\ torn \in Nat /\ n >= 1 /\ ps \in Seq(Piece)
  BY <1>1, <1>2, <1>3, ContentFacts DEF LTypes
<1>7. /\ Front(tail) \in Seq(Piece) /\ Len(Front(tail)) = Len(tail) - 1
      /\ Last(tail) = tail[Len(tail)] /\ Len(tail) \in Nat
  BY <1>4, <1>6, FrontFacts
<1>8. [Last(tail) EXCEPT !.whole = TRUE] = p
  <2>1. PICK q \in Piece : q = Last(tail)
    BY <1>4, <1>6, FrontFacts
  <2>2. q.seq = p.seq /\ q.rec = p.rec /\ p.whole = TRUE
    BY <1>4, <1>5, <1>7, <2>1
  <2>3. PICK w : w = [q EXCEPT !.whole = TRUE]
    OBVIOUS
  <2>4. w \in Piece /\ w.seq = q.seq /\ w.rec = q.rec /\ w.whole = TRUE
    BY <2>3, WholePiece
  <2>5. w = p
    BY <2>2, <2>4, SamePiece
  <2> QED
    BY <2>1, <2>3, <2>5, Zenon
<1>9. PICK l \in Seq(Piece) : /\ l = Append(Front(tail), p) /\ Len(l) = Len(tail)
                              /\ l[Len(l)] = p
  <2>1. /\ Append(Front(tail), p) \in Seq(Piece)
        /\ Len(Append(Front(tail), p)) = Len(Front(tail)) + 1
        /\ Append(Front(tail), p)[Len(Front(tail)) + 1] = p
    BY <1>7, AppendShape
  <2>2. Len(Front(tail)) + 1 = Len(tail)
    BY <1>7
  <2> QED
    BY <2>1, <2>2
<1>10. lines' = Append(lines, l) /\ acked' = Append(acked, p) /\ tail' = << >>
       /\ UNCHANGED <<torn, asked>>
  BY <1>8, <1>9 DEF EndAppend
<1>11. /\ book'.writing = Nothing /\ book'.up = TRUE /\ book'.next_seq = n + 1
       /\ BookShape'
  <2>1. BookShape
    BY <1>1 DEF LTypes
  <2>2. book' = [book EXCEPT !.next_seq = book.next_seq + 1, !.writing = Nothing]
    BY DEF EndAppend, Written
  <2>3. book' = [up |-> book.up, next_seq |-> n + 1, writing |-> Nothing]
    BY <1>2, <2>1, <2>2 DEF BookShape
  <2> QED
    BY <1>4, <2>3 DEF BookShape
<1>12. Parses(l) <=> Len(tail) = 1
  BY <1>5, <1>9 DEF Parses
<1>13. Parsed(lines)' = IF Len(tail) = 1 THEN Append(ps, p) ELSE ps
  <2>1. Parsed(lines') = WithLine(l, ps)
    BY <1>3, <1>6, <1>10, ParsedAppend
  <2>2. Len(tail) = 1 => l[1] = p
    BY <1>9
  <2> QED
    BY <1>12, <2>1, <2>2 DEF WithLine
<1>14. Len(tail') = 0 /\ tail' \in Seq(Piece) /\ DOMAIN tail' = {}
  BY <1>10
<1>15. LTypes'
  <2>1. n + 1 \in Nat /\ n + 1 >= 1 /\ n + 1 <= asked' + 1
    BY <1>4, <1>6, <1>10
  <2>2. acked' \in Seq(Piece) /\ lines' \in Seq(Seq(Piece))
    BY <1>6, <1>9, <1>10
  <2>3. \A i \in DOMAIN lines' : lines'[i] # << >>
    <3> SUFFICES ASSUME NEW i \in DOMAIN lines' PROVE lines'[i] # << >>
      OBVIOUS
    <3>1. /\ Len(lines) \in Nat /\ DOMAIN lines = 1 .. Len(lines)
          /\ DOMAIN lines' = 1 .. Len(lines) + 1
          /\ \A j \in 1 .. Len(lines) : lines'[j] = lines[j]
          /\ lines'[Len(lines) + 1] = l
      BY <1>6, <1>10, AppendShape
    <3>2. l # << >>
      BY <1>4, <1>9
    <3>3. CASE i = Len(lines) + 1
      BY <3>1, <3>2, <3>3
    <3>4. CASE i # Len(lines) + 1
      <4>1. i \in DOMAIN lines /\ lines'[i] = lines[i]
        BY <3>1, <3>4
      <4> QED
        BY <1>1, <4>1 DEF LTypes
    <3> QED
      BY <3>3, <3>4
  <2>4. /\ book'.up \in BOOLEAN /\ book'.next_seq \in Nat /\ book'.next_seq >= 1
        /\ book'.next_seq <= asked' + 1
    BY <1>11, <2>1
  <2>5. torn' \in Nat /\ torn' <= MaxTorn /\ asked' \in Nat /\ asked' <= MaxAppends
    BY <1>1, <1>10 DEF LTypes
  <2> QED
    BY <1>11, <1>14, <2>2, <2>3, <2>4, <2>5, Zenon DEF LTypes
<1>16. WriteFits'
  BY <1>11 DEF WriteFits
<1>17. NumbersFit'
  <2>1. NumbersOf(ps)
    BY <1>1, <1>3 DEF NumbersFit
  <2>2. \A q \in Piece : q.seq \in Nat
    BY DEF Piece
  <2>3. \A i \in DOMAIN ps : ps[i].seq \in Nat /\ ps[i].seq >= 1 /\ ps[i].seq <= asked /\ ps[i].seq < n
    BY <1>2, <1>4, <1>6, <2>1, <2>2 DEF NumbersOf
  <2>4. PICK qs : qs = Parsed(lines)'
    OBVIOUS
  <2>5. /\ Numbered(qs)
        /\ \A i \in DOMAIN qs : qs[i].seq >= 1 /\ qs[i].seq <= asked /\ qs[i].seq < n + 1
    <3>1. CASE Len(tail) = 1
      <4>1. qs = Append(ps, p)
        BY <1>13, <2>4, <3>1
      <4>2. Numbered(qs)
        BY <1>5, <1>6, <2>1, <2>3, <4>1, NumberedAppend DEF NumbersOf
      <4>3. ASSUME NEW i \in DOMAIN qs
            PROVE  qs[i].seq >= 1 /\ qs[i].seq <= asked /\ qs[i].seq < n + 1
        <5>1. /\ Len(ps) \in Nat /\ DOMAIN ps = 1 .. Len(ps) /\ DOMAIN qs = 1 .. Len(ps) + 1
              /\ \A j \in 1 .. Len(ps) : qs[j] = ps[j]
              /\ qs[Len(ps) + 1] = p
          BY <1>6, <4>1, AppendShape
        <5>2. CASE i = Len(ps) + 1
          <6>1. qs[i].seq = n
            BY <1>5, <5>1, <5>2
          <6> QED
            BY <1>4, <1>6, <6>1
        <5>3. CASE i # Len(ps) + 1
          <6>1. i \in DOMAIN ps /\ qs[i] = ps[i]
            BY <4>3, <5>1, <5>3
          <6> QED
            BY <2>3, <6>1
        <5> QED
          BY <5>2, <5>3
      <4> QED
        BY <4>2, <4>3
    <3>2. CASE Len(tail) # 1
      <4>1. qs = ps
        BY <1>13, <2>4, <3>2
      <4> QED
        BY <2>1, <2>3, <4>1 DEF NumbersOf
    <3> QED
      BY <3>1, <3>2
  <2> QED
    BY <1>14, <2>4, <2>5, <1>10, <1>11 DEF NumbersFit, NumbersOf
<1>18. Untorn'
  <2> SUFFICES ASSUME torn' = 0
               PROVE  /\ Parsed(lines)' = acked' /\ \A i \in DOMAIN lines' : Parses(lines'[i])
                      /\ Len(tail') = 0
    BY <1>11 DEF Untorn
  <2>1. /\ ps = acked /\ Len(tail) = 1 /\ \A i \in DOMAIN lines : Parses(lines[i])
    BY <1>1, <1>3, <1>4, <1>10 DEF Untorn
  <2>2. Parsed(lines)' = acked'
    BY <1>10, <1>13, <2>1
  <2>3. \A i \in DOMAIN lines' : Parses(lines'[i])
    <3> SUFFICES ASSUME NEW i \in DOMAIN lines' PROVE Parses(lines'[i])
      OBVIOUS
    <3>1. /\ Len(lines) \in Nat /\ DOMAIN lines = 1 .. Len(lines)
          /\ DOMAIN lines' = 1 .. Len(lines) + 1
          /\ \A j \in 1 .. Len(lines) : lines'[j] = lines[j]
          /\ lines'[Len(lines) + 1] = l
      BY <1>6, <1>10, AppendShape
    <3>2. CASE i = Len(lines) + 1
      BY <1>12, <2>1, <3>1, <3>2
    <3>3. CASE i # Len(lines) + 1
      <4>1. i \in DOMAIN lines /\ lines'[i] = lines[i]
        BY <3>1, <3>3
      <4> QED
        BY <2>1, <4>1
    <3> QED
      BY <3>2, <3>3
  <2> QED
    BY <1>14, <2>2, <2>3
<1>19. LossesPaid'
  <2>1. Cardinality(LostAmong(acked, ps)) + Leftover <= torn
    BY <1>1, <1>3 DEF LossesPaid
  <2>2. /\ Cardinality(LostAmong(acked, ps)) \in Nat
        /\ Cardinality(LostAmong(acked', Append(ps, p))) <= Cardinality(LostAmong(acked, ps))
        /\ Cardinality(LostAmong(acked', ps)) <= Cardinality(LostAmong(acked, ps)) + 1
    BY <1>6, <1>10, LossFacts
  <2>3. acked' \in Seq(Piece) /\ Append(ps, p) \in Seq(Piece)
    BY <1>6, <1>10
  <2>4. /\ Cardinality(LostAmong(acked', Append(ps, p))) \in Nat
        /\ Cardinality(LostAmong(acked', ps)) \in Nat
    BY <1>6, <2>3, LossFacts
  <2>5. Leftover' = 0
    BY <1>11, <1>14 DEF Leftover
  <2>6. PICK qs : qs = Parsed(lines)'
    OBVIOUS
  <2>7. Cardinality(LostAmong(acked', qs)) + 0 <= torn
    <3>1. CASE Len(tail) = 1
      <4>1. Leftover = 0 /\ qs = Append(ps, p)
        BY <1>4, <1>13, <2>6, <3>1 DEF Leftover
      <4> QED
        BY <1>6, <2>1, <2>2, <2>4, <4>1
    <3>2. CASE Len(tail) # 1
      <4>1. Leftover = 1 /\ qs = ps
        BY <1>4, <1>7, <1>13, <2>6, <3>2 DEF Leftover
      <4> QED
        BY <1>6, <2>1, <2>2, <2>4, <4>1
    <3> QED
      BY <3>1, <3>2
  <2> QED
    BY <1>10, <2>5, <2>6, <2>7 DEF LossesPaid
<1> QED
  BY <1>5, <1>10, <1>11, <1>15, <1>16, <1>17, <1>18, <1>19 DEF FileInv

(* What an interrupted write leaves is what was there, but perhaps for the     *)
(* piece that was being written.                                               *)
LEMMA LeftFacts ==
  ASSUME LTypes, WriteFits, book.writing # Nothing, NEW t \in Left
  PROVE  /\ t \in Seq(Piece)
         /\ \A i \in DOMAIN t : i \in DOMAIN tail /\ (t[i] = tail[i] \/ t[i].seq = book.next_seq)
<1>1. tail \in Seq(Piece) /\ book.next_seq \in Nat
  BY DEF LTypes
<1>2. /\ Len(tail) >= 1
      /\ tail[Len(tail)] = [seq |-> book.next_seq, rec |-> book.writing.rec, whole |-> FALSE]
  BY DEF WriteFits
<1>3. PICK k \in Nat : k = Len(tail)
  BY <1>1
<1>4. PICK f : f = Front(tail)
  OBVIOUS
<1>5. /\ f \in Seq(Piece) /\ Len(f) = k - 1 /\ \A i \in 1 .. k - 1 : f[i] = tail[i]
      /\ Last(tail) = tail[k] /\ tail[k] \in Piece /\ k >= 1 /\ DOMAIN tail = 1 .. k
      /\ DOMAIN f = 1 .. k - 1
  BY <1>1, <1>2, <1>3, <1>4, FrontFacts
<1>6. PICK q \in Piece : q = Last(tail)
  BY <1>5
<1>7. q.seq = book.next_seq
  BY <1>2, <1>3, <1>5, <1>6
<1>8. PICK w \in Piece : w = [q EXCEPT !.whole = TRUE] /\ w.seq = q.seq
  BY WholePiece
<1>9. t = tail \/ t = f \/ t = Append(f, w)
  BY <1>4, <1>6, <1>8 DEF Left
<1>10. CASE t = tail
  BY <1>1, <1>10
<1>11. CASE t = f
  <2>1. \A i \in 1 .. k - 1 : i \in 1 .. k
    BY <1>3
  <2> QED
    BY <1>5, <1>11, <2>1
<1>12. CASE t = Append(f, w)
  <2>1. /\ t \in Seq(Piece) /\ DOMAIN t = 1 .. Len(f) + 1
        /\ \A i \in 1 .. Len(f) : t[i] = f[i]
        /\ t[Len(f) + 1] = w
    BY <1>5, <1>12, AppendShape
  <2>2. Len(f) + 1 = k /\ Len(f) = k - 1
    BY <1>5
  <2>3. ASSUME NEW i \in DOMAIN t
        PROVE  i \in DOMAIN tail /\ (t[i] = tail[i] \/ t[i].seq = book.next_seq)
    <3>1. i \in 1 .. k
      BY <2>1, <2>2
    <3>2. CASE i = k
      BY <1>5, <1>7, <1>8, <2>1, <2>2, <3>1, <3>2
    <3>3. CASE i # k
      <4>1. i \in 1 .. k - 1
        BY <3>1, <3>3
      <4> QED
        BY <1>5, <2>1, <2>2, <3>1, <4>1
    <3> QED
      BY <3>2, <3>3
  <2> QED
    BY <2>1, <2>3
<1> QED
  BY <1>9, <1>10, <1>11, <1>12

(* A write is cut short, or the controller dies: what is left in the tail may  *)
(* cost the next record, and is paid for.                                      *)
LEMMA FileTorn ==
  ASSUME FileInv, torn < MaxTorn, torn' = torn + 1, UNCHANGED <<lines, acked, asked>>,
         IF book.writing = Nothing THEN tail' = tail ELSE tail' \in Left,
         BookShape', book'.writing = Nothing, book'.next_seq = book.next_seq,
         book'.up \in BOOLEAN, book'.up = TRUE => book.up = TRUE
  PROVE  FileInv'
<1>1. LTypes /\ WriteFits /\ NumbersFit /\ Untorn /\ LossesPaid
  BY DEF FileInv
<1>2. PICK n \in Nat : n = book.next_seq
  BY <1>1 DEF LTypes
<1>3. PICK ps : ps = Parsed(lines)
  OBVIOUS
<1>4. /\ tail \in Seq(Piece) /\ lines \in Seq(Seq(Piece)) /\ acked \in Seq(Piece)
      /\ asked \in Nat /\ torn \in Nat /\ n >= 1 /\ ps \in Seq(Piece) /\ n <= asked + 1
      /\ asked <= MaxAppends
  BY <1>1, <1>2, <1>3, ContentFacts DEF LTypes
<1>5. PICK t : t = tail'
  OBVIOUS
<1>6. /\ t \in Seq(Piece)
      /\ \A i \in DOMAIN t : /\ i \in DOMAIN tail
                             /\ t[i] = tail[i] \/ (t[i].seq = n /\ n <= asked /\ book.up = TRUE)
  <2>1. CASE book.writing = Nothing
    BY <1>4, <1>5, <2>1
  <2>2. CASE book.writing # Nothing
    <3>1. t \in Left
      BY <1>5, <2>2
    <3>2. n <= asked /\ book.up = TRUE
      BY <1>1, <1>2, <2>2 DEF WriteFits
    <3> QED
      BY <1>1, <1>2, <2>2, <3>1, <3>2, LeftFacts
  <2> QED
    BY <2>1, <2>2
<1>7. LTypes'
  <2>1. torn' \in Nat /\ torn' <= MaxTorn
    BY <1>4, LogbookAssumption
  <2>2. lines' \in Seq(Seq(Piece)) /\ tail' \in Seq(Piece) /\ acked' \in Seq(Piece)
    BY <1>4, <1>5, <1>6
  <2>3. book'.next_seq \in Nat /\ book'.next_seq >= 1 /\ book'.next_seq <= asked' + 1
    BY <1>2, <1>4
  <2>4. asked' \in Nat /\ asked' <= MaxAppends
    BY <1>4
  <2>5. \A i \in DOMAIN lines' : lines'[i] # << >>
    BY <1>1 DEF LTypes
  <2> QED
    BY <2>1, <2>2, <2>3, <2>4, <2>5, Zenon DEF LTypes
<1>8. WriteFits'
  BY DEF WriteFits
<1>9. NumbersFit'
  <2>1. NumbersOf(ps) /\ \A i \in DOMAIN tail : tail[i].seq <= asked
    BY <1>1, <1>3 DEF NumbersFit
  <2>2. \A i \in DOMAIN t : t[i].seq <= asked
    BY <1>6, <2>1
  <2>3. ASSUME Len(t) >= 1, t[1].whole = TRUE PROVE \A i \in DOMAIN ps : ps[i].seq < t[1].seq
    <3>1. 1 \in DOMAIN t
      BY <1>6, <2>3
    <3>2. CASE t[1] = tail[1]
      <4>1. Len(tail) >= 1 /\ tail[1].whole = TRUE
        BY <1>4, <1>6, <2>3, <3>1, <3>2
      <4> QED
        BY <2>1, <3>2, <4>1 DEF NumbersOf
    <3>3. CASE t[1].seq = n /\ book.up = TRUE
      BY <1>2, <2>1, <3>3 DEF NumbersOf
    <3> QED
      BY <1>6, <3>1, <3>2, <3>3
  <2>4. book'.up = TRUE => \A i \in DOMAIN ps : ps[i].seq < book'.next_seq
    BY <2>1 DEF NumbersOf
  <2>5. Numbered(ps) /\ \A i \in DOMAIN ps : ps[i].seq >= 1 /\ ps[i].seq <= asked
    BY <2>1 DEF NumbersOf
  <2>6. Parsed(lines)' = ps /\ asked' = asked
    BY <1>3
  <2> QED
    BY <1>5, <2>2, <2>3, <2>4, <2>5, <2>6 DEF NumbersFit, NumbersOf
<1>10. Untorn'
  BY <1>4 DEF Untorn
<1>11. LossesPaid'
  <2>1. Cardinality(LostAmong(acked, ps)) + Leftover <= torn
    BY <1>1, <1>3 DEF LossesPaid
  <2>2. PICK c \in Nat : c = Cardinality(LostAmong(acked, ps))
    <3>1. PICK p \in Piece : TRUE
      <4>1. [seq |-> 0, rec |-> [type |-> "comment"], whole |-> TRUE] \in Piece
        BY DEF Piece, Rec, RestRecords, Comments
      <4> QED
        BY <4>1
    <3> QED
      BY <1>4, LossFacts
  <2>3. Leftover \in {0, 1} /\ Leftover' \in {0, 1}
    BY DEF Leftover
  <2>4. c + Leftover' <= torn'
    BY <1>4, <2>1, <2>2, <2>3
  <2> QED
    BY <1>3, <2>2, <2>4 DEF LossesPaid
<1> QED
  BY <1>7, <1>8, <1>9, <1>10, <1>11 DEF FileInv

(* What can be read is numbered as the lines and the tail are.                 *)
LEMMA ReadFacts ==
  ASSUME LTypes, NumbersFit
  PROVE  /\ ParsedLines \in Seq(Piece) /\ Numbered(ParsedLines)
         /\ \A i \in DOMAIN ParsedLines : ParsedLines[i].seq <= asked
         /\ \A i \in DOMAIN Parsed(lines) :
              \E j \in DOMAIN ParsedLines : ParsedLines[j] = Parsed(lines)[i]
<1>1. PICK ps : ps = Parsed(lines)
  OBVIOUS
<1>2. ParsedLines = WithLine(tail, ps) /\ ps \in Seq(Piece)
  BY <1>1, ContentFacts
<1>3. NumbersOf(ps) /\ \A i \in DOMAIN tail : tail[i].seq <= asked
  BY <1>1 DEF NumbersFit
<1>4. CASE ~Parses(tail)
  <2>1. ParsedLines = ps
    BY <1>2, <1>4 DEF WithLine
  <2> QED
    BY <1>1, <1>2, <1>3, <2>1 DEF NumbersOf
<1>5. CASE Parses(tail)
  <2>1. tail \in Seq(Piece) /\ Len(tail) = 1
    BY <1>5 DEF LTypes, Parses
  <2>2. PICK p \in Piece : p = tail[1]
    BY <2>1
  <2>3. p.whole = TRUE
    <3>1. p.whole
      BY <1>5, <2>2 DEF Parses
    <3>2. p.whole \in BOOLEAN
      BY DEF Piece
    <3> QED
      BY <3>1, <3>2, Zenon
  <2>4. 1 \in DOMAIN tail /\ Len(tail) >= 1 /\ tail[1].whole = TRUE
    BY <2>1, <2>2, <2>3
  <2>5. p.seq <= asked /\ \A i \in DOMAIN ps : ps[i].seq < p.seq
    BY <1>3, <2>2, <2>4 DEF NumbersOf
  <2>6. PICK qs : qs = ParsedLines
    OBVIOUS
  <2>7. qs = Append(ps, p)
    BY <1>2, <1>5, <2>2, <2>6 DEF WithLine
  <2>8. Numbered(qs)
    BY <1>2, <1>3, <2>5, <2>7, NumberedAppend DEF NumbersOf
  <2>9. /\ Len(ps) \in Nat /\ DOMAIN ps = 1 .. Len(ps) /\ DOMAIN qs = 1 .. Len(ps) + 1
        /\ \A j \in 1 .. Len(ps) : qs[j] = ps[j]
        /\ qs[Len(ps) + 1] = p /\ qs \in Seq(Piece)
    BY <1>2, <2>7, AppendShape
  <2>10. ASSUME NEW i \in DOMAIN qs PROVE qs[i].seq <= asked
    <3>1. CASE i = Len(ps) + 1
      BY <2>5, <2>9, <3>1
    <3>2. CASE i # Len(ps) + 1
      <4>1. i \in DOMAIN ps /\ qs[i] = ps[i]
        BY <2>9, <2>10, <3>2
      <4> QED
        BY <1>3, <4>1 DEF NumbersOf
    <3> QED
      BY <3>1, <3>2
  <2>11. ASSUME NEW i \in DOMAIN ps PROVE \E j \in DOMAIN qs : qs[j] = ps[i]
    <3>1. i \in DOMAIN qs /\ qs[i] = ps[i]
      BY <2>9, <2>11
    <3> QED
      BY <3>1
  <2> QED
    BY <1>1, <2>6, <2>8, <2>9, <2>10, <2>11
<1> QED
  BY <1>4, <1>5

(* The next controller counts on from the last readable record, so that none   *)
(* of the numbers in the file comes again.                                     *)
LEMMA FileOpen ==
  ASSUME FileInv, OpenBook
  PROVE  FileInv' /\ book'.writing = Nothing
<1>1. LTypes /\ WriteFits /\ NumbersFit /\ Untorn /\ LossesPaid
  BY DEF FileInv
<1>2. PICK qs : qs = ParsedLines
  OBVIOUS
<1>3. PICK ps : ps = Parsed(lines)
  OBVIOUS
<1>4. /\ qs \in Seq(Piece) /\ Numbered(qs) /\ \A i \in DOMAIN qs : qs[i].seq <= asked
      /\ \A i \in DOMAIN ps : \E j \in DOMAIN qs : qs[j] = ps[i]
  BY <1>1, <1>2, <1>3, ReadFacts
<1>5. /\ asked \in Nat /\ torn \in Nat /\ asked <= MaxAppends /\ torn <= MaxTorn
  BY <1>1 DEF LTypes
<1>6. book.up # TRUE
  BY Zenon DEF OpenBook
<1>7. book.writing = Nothing /\ torn # 0
  BY <1>1, <1>6 DEF WriteFits, Untorn
<1>8. UNCHANGED <<lines, tail, acked, torn, asked>>
  BY DEF OpenBook
<1>9. PICK n : n = RecoverNextSeq
  OBVIOUS
<1>10. n \in Nat /\ n >= 1 /\ n <= asked + 1 /\ \A i \in DOMAIN qs : qs[i].seq < n
  <2>1. \A q \in Piece : q.seq \in Nat
    BY DEF Piece
  <2>2. CASE qs = << >>
    <3>1. n = 1 /\ DOMAIN qs = {}
      BY <1>2, <1>9, <2>2 DEF RecoverNextSeq
    <3> QED
      BY <1>5, <3>1
  <2>3. CASE qs # << >>
    <3>1. PICK k \in Nat : k = Len(qs)
      BY <1>4
    <3>2. k >= 1 /\ DOMAIN qs = 1 .. k /\ k \in DOMAIN qs
      BY <1>4, <2>3, <3>1, EmptySeq
    <3>3. n = qs[k].seq + 1
      BY <1>2, <1>9, <2>3, <3>1 DEF RecoverNextSeq, Last
    <3>4. qs[k].seq \in Nat /\ qs[k].seq <= asked
      BY <1>4, <2>1, <3>2
    <3>5. ASSUME NEW i \in DOMAIN qs PROVE qs[i].seq < n
      <4>1. qs[i].seq \in Nat
        BY <1>4, <2>1
      <4>2. CASE i = k
        BY <3>3, <3>4, <4>2
      <4>3. CASE i # k
        <5>1. i < k
          BY <3>2, <4>3
        <5>2. qs[i].seq < qs[k].seq
          BY <1>4, <3>2, <5>1 DEF Numbered
        <5> QED
          BY <3>3, <3>4, <4>1, <5>2
      <4> QED
        BY <4>2, <4>3
    <3> QED
      BY <1>5, <3>3, <3>4, <3>5
  <2> QED
    BY <2>2, <2>3
<1>11. book' = [up |-> TRUE, next_seq |-> n, writing |-> Nothing]
  BY <1>9 DEF OpenBook
<1>12. book'.up = TRUE /\ book'.next_seq = n /\ book'.writing = Nothing /\ BookShape'
  BY <1>11 DEF BookShape
<1>13. LTypes'
  <2>1. book'.up \in BOOLEAN
    BY <1>12, Zenon
  <2>2. lines' \in Seq(Seq(Piece)) /\ tail' \in Seq(Piece) /\ acked' \in Seq(Piece)
    BY <1>1, <1>8 DEF LTypes
  <2>3. book'.next_seq \in Nat /\ book'.next_seq >= 1 /\ book'.next_seq <= asked' + 1
    BY <1>8, <1>10, <1>12
  <2>4. asked' \in Nat /\ asked' <= MaxAppends /\ torn' \in Nat /\ torn' <= MaxTorn
    BY <1>5, <1>8
  <2>5. \A i \in DOMAIN lines' : lines'[i] # << >>
    BY <1>1, <1>8 DEF LTypes
  <2> QED
    BY <1>12, <2>1, <2>2, <2>3, <2>4, <2>5, Zenon DEF LTypes
<1>14. WriteFits'
  BY <1>12 DEF WriteFits
<1>15. NumbersFit'
  <2>1. NumbersOf(ps) /\ \A i \in DOMAIN tail : tail[i].seq <= asked
    BY <1>1, <1>3 DEF NumbersFit
  <2>2. \A i \in DOMAIN ps : ps[i].seq < n
    BY <1>4, <1>10
  <2>3. Parsed(lines)' = ps
    BY <1>3, <1>8
  <2> QED
    BY <1>8, <1>12, <2>1, <2>2, <2>3 DEF NumbersFit, NumbersOf
<1>16. Untorn'
  BY <1>7, <1>8 DEF Untorn
<1>17. LossesPaid'
  <2>1. Leftover' = Leftover
    BY <1>7, <1>8, <1>12 DEF Leftover
  <2> QED
    BY <1>1, <1>8, <2>1 DEF LossesPaid
<1> QED
  BY <1>12, <1>13, <1>14, <1>15, <1>16, <1>17 DEF FileInv

-----------------------------------------------------------------------------
(* The acknowledged records that are of slow control.                          *)
SlowAmong(ak) == {i \in DOMAIN ak : ak[i].rec.type = "slow"}

(* The posts a thread took: what became of each, w of them in the write.       *)
Accounted(lp, w, c) ==
  /\ lp.taken = lp.accepted + lp.rejected + lp.slow_values_not_logged + w
  /\ lp.accepted <= c

(* Whether a post is in the write.                                             *)
InWrite == IF book.writing.from = "post" THEN 1 ELSE 0

(* PostsAccounted, by its parts.                                               *)
LEMMA AccountedParts ==
  PostsAccounted <=>
    (book.up => /\ Accounted(logPosts, InWrite, Cardinality(SlowAmong(acked)))
                /\ slowLatest.kept = slowLatest.posted)
BY DEF PostsAccounted, Accounted, InWrite, SlowAmong

(* One more acknowledged record adds one of slow control if it is one.         *)
LEMMA SlowFacts ==
  ASSUME NEW ak \in Seq(Piece), NEW p \in Piece
  PROVE  /\ Cardinality(SlowAmong(ak)) \in Nat
         /\ Cardinality(SlowAmong(Append(ak, p)))
              = Cardinality(SlowAmong(ak)) + (IF p.rec.type = "slow" THEN 1 ELSE 0)
<1> DEFINE bk == Append(ak, p)
           n == Len(ak)
           S == SlowAmong(ak)
<1>1. /\ n \in Nat /\ DOMAIN ak = 1 .. n /\ DOMAIN bk = 1 .. n + 1
      /\ \A i \in 1 .. n : bk[i] = ak[i]
      /\ bk[n + 1] = p
  BY AppendShape
<1> HIDE DEF n, bk
<1>2. S \subseteq 1 .. n
  BY <1>1 DEF SlowAmong
<1>3. IsFiniteSet(S) /\ Cardinality(S) \in Nat
  <2>1. IsFiniteSet(1 .. n)
    BY <1>1, FS_Interval
  <2> QED
    BY <1>2, <2>1, FS_Subset, FS_CardinalityType
<1>4. n + 1 \notin S
  BY <1>1, <1>2
<1>5. SlowAmong(bk) = IF p.rec.type = "slow" THEN S \cup {n + 1} ELSE S
  <2>1. \A i : i \in 1 .. n + 1 <=> i \in 1 .. n \/ i = n + 1
    BY <1>1
  <2>2. \A i \in 1 .. n : i \in SlowAmong(bk) <=> i \in S
    BY <1>1, <2>1 DEF SlowAmong
  <2>3. n + 1 \in SlowAmong(bk) <=> p.rec.type = "slow"
    BY <1>1, <2>1 DEF SlowAmong
  <2>4. \A i \in SlowAmong(bk) : i \in 1 .. n \/ i = n + 1
    BY <1>1, <2>1 DEF SlowAmong
  <2>5. CASE p.rec.type = "slow"
    <3>1. \A i : i \in SlowAmong(bk) <=> i \in S \/ i = n + 1
      BY <1>2, <2>2, <2>3, <2>4, <2>5
    <3> QED
      BY <2>5, <3>1
  <2>6. CASE p.rec.type # "slow"
    <3>1. \A i : i \in SlowAmong(bk) <=> i \in S
      BY <1>2, <2>2, <2>3, <2>4, <2>6
    <3> QED
      BY <2>6, <3>1
  <2> QED
    BY <2>5, <2>6
<1>6. Cardinality(S \cup {n + 1}) = Cardinality(S) + 1
  BY <1>3, <1>4, FS_AddElement
<1> QED
  BY <1>3, <1>5, <1>6 DEF bk

(* The records handed over are records; those posted are of slow control.      *)
LEMMA RecordFacts ==
  /\ \A rec \in RestRecords : rec \in Rec
  /\ \A rec \in SlowRecords : rec \in Rec /\ rec.type = "slow"
BY DEF Rec, SlowRecords

(* Nobody is at the write when nothing is.                                     *)
LEMMA NobodyWrites == Nothing.from = "nobody"
BY DEF Nothing

(* A record of the REST interface is begun.                                    *)
LEMMA RestKeeps ==
  ASSUME LInv, NEW rec \in RestRecords, RestAppends(rec)
  PROVE  LInv'
<1>1. FileInv /\ CountTypes /\ PostsAccounted /\ LTypes
  BY DEF LInv, FileInv
<1>2. book.up = TRUE /\ book.writing = Nothing
  BY <1>1 DEF RestAppends, Quiet, LTypes
<1>3. /\ asked < MaxAppends /\ asked' = asked + 1 /\ BeginAppend("rest", rec)
      /\ UNCHANGED <<lines, acked, torn, logPosts, slowLatest>>
  BY DEF RestAppends
<1>4. FileInv' /\ book'.writing.from = "rest" /\ book'.up = TRUE
  <2>1. "rest" \in {"rest", "post"} /\ rec \in Rec /\ "rest" # "post"
    BY RecordFacts
  <2> QED
    BY <1>1, <1>2, <1>3, <2>1, FileBegin
<1>5. CountTypes'
  BY <1>1, <1>3 DEF CountTypes, Counters
<1>6. PostsAccounted'
  BY <1>1, <1>2, <1>3, <1>4, NobodyWrites DEF PostsAccounted
<1> QED
  BY <1>4, <1>5, <1>6 DEF LInv

(* A post is taken: a VALUE is counted, another record is begun.               *)
LEMMA TakenKeeps ==
  ASSUME LInv, NEW rec \in SlowRecords, PostTaken(rec)
  PROVE  LInv'
<1>1. FileInv /\ CountTypes /\ PostsAccounted /\ LTypes
  BY DEF LInv, FileInv
<1>2. /\ book.up = TRUE /\ asked \in Nat /\ asked < MaxAppends /\ asked' = asked + 1
      /\ UNCHANGED <<lines, acked, torn>>
  BY <1>1 DEF PostTaken, PostFree, LTypes
<1>3. PICK c : c = Cardinality(SlowAmong(acked))
  OBVIOUS
<1>4. Accounted(logPosts, InWrite, c) /\ slowLatest.kept = slowLatest.posted
  BY <1>1, <1>2, <1>3, AccountedParts
<1>5. slowLatest'.kept = slowLatest'.posted
  BY <1>4 DEF PostTaken
<1>6. InWrite \in {0, 1}
  BY DEF InWrite
<1>7. CASE rec.event = "VALUE"
  <2>1. /\ logPosts' = [logPosts EXCEPT !.taken = @ + 1, !.slow_values_not_logged = @ + 1]
        /\ UNCHANGED <<tail, book>>
    BY <1>7 DEF PostTaken
  <2>2. FileInv'
    <3>1. asked' \in Nat /\ asked <= asked' /\ asked' <= MaxAppends
      BY <1>2, LogbookAssumption
    <3> QED
      BY <1>1, <1>2, <2>1, <3>1, FileSame
  <2>3. logPosts \in Counters
    BY <1>1 DEF CountTypes, Counters
  <2>4. PICK a \in Nat : a = logPosts.taken + 1
    BY <2>3 DEF Counters
  <2>5. PICK v \in Nat : v = logPosts.slow_values_not_logged + 1
    BY <2>3 DEF Counters
  <2>12. PICK l \in Counters : l = logPosts
    BY <2>3
  <2>6. logPosts' = [l EXCEPT !.taken = a, !.slow_values_not_logged = v]
    BY <2>1, <2>4, <2>5, <2>12
  <2>7. /\ logPosts' \in Counters /\ logPosts'.taken = a /\ logPosts'.accepted = logPosts.accepted
        /\ logPosts'.rejected = logPosts.rejected /\ logPosts'.slow_values_not_logged = v
    <3>1. PICK m : m = [l EXCEPT !.taken = a, !.slow_values_not_logged = v]
      OBVIOUS
    <3>2. /\ m \in Counters /\ m.taken = a /\ m.accepted = l.accepted
          /\ m.rejected = l.rejected /\ m.slow_values_not_logged = v
      BY <3>1 DEF Counters
    <3>3. logPosts' = m
      BY <2>6, <3>1, Zenon
    <3> QED
      BY <2>12, <3>2, <3>3
  <2>8. CountTypes'
    BY <2>7 DEF CountTypes, Counters
  <2>9. Accounted(logPosts', InWrite, c)
    <3>1. /\ logPosts.taken \in Nat /\ logPosts.accepted \in Nat /\ logPosts.rejected \in Nat
          /\ logPosts.slow_values_not_logged \in Nat
      BY <2>3 DEF Counters
    <3>2. /\ logPosts.taken = logPosts.accepted + logPosts.rejected
               + logPosts.slow_values_not_logged + InWrite
          /\ logPosts.accepted <= c
      BY <1>4 DEF Accounted
    <3>3. a = logPosts.accepted + logPosts.rejected + v + InWrite
      BY <1>6, <2>4, <2>5, <3>1, <3>2
    <3> QED
      BY <2>7, <3>2, <3>3 DEF Accounted
  <2>10. InWrite' = InWrite /\ Cardinality(SlowAmong(acked))' = c
    BY <1>2, <1>3, <2>1 DEF InWrite
  <2>11. PostsAccounted'
    BY <1>5, <2>9, <2>10 DEF PostsAccounted, Accounted, InWrite, SlowAmong
  <2> QED
    BY <2>2, <2>8, <2>11 DEF LInv
<1>8. CASE rec.event # "VALUE"
  <2>1. /\ logPosts' = [logPosts EXCEPT !.taken = @ + 1]
        /\ BeginAppend("post", rec) /\ book.writing = Nothing
    BY <1>8 DEF PostTaken, Quiet
  <2>2. FileInv' /\ book'.writing.from = "post" /\ book'.up = TRUE
    <3>1. "post" \in {"rest", "post"} /\ rec \in Rec /\ rec.type = "slow"
      BY RecordFacts
    <3> QED
      BY <1>1, <1>2, <2>1, <3>1, FileBegin
  <2>3. CountTypes'
    BY <1>1, <2>1 DEF CountTypes, Counters
  <2>4. InWrite = 0
    BY <2>1, NobodyWrites DEF InWrite
  <2>5. Accounted(logPosts', 1, c)
    BY <1>1, <1>4, <2>1, <2>4 DEF CountTypes, Counters, Accounted
  <2>6. InWrite' = 1 /\ Cardinality(SlowAmong(acked))' = c
    BY <1>2, <1>3, <2>2 DEF InWrite
  <2>7. PostsAccounted'
    BY <1>5, <2>5, <2>6 DEF PostsAccounted, Accounted, InWrite, SlowAmong
  <2> QED
    BY <2>2, <2>3, <2>7 DEF LInv
<1> QED
  BY <1>7, <1>8

(* A post that is no record is counted.                                        *)
LEMMA RejectedKeeps ==
  ASSUME LInv, PostRejected
  PROVE  LInv'
<1>1. FileInv /\ CountTypes /\ PostsAccounted /\ LTypes
  BY DEF LInv, FileInv
<1>2. /\ book.up = TRUE /\ asked \in Nat /\ asked < MaxAppends /\ asked' = asked + 1
      /\ UNCHANGED <<lines, acked, torn, tail, book, slowLatest>>
      /\ logPosts' = [logPosts EXCEPT !.taken = @ + 1, !.rejected = @ + 1]
  BY <1>1 DEF PostRejected, PostFree, LTypes
<1>3. PICK c : c = Cardinality(SlowAmong(acked))
  OBVIOUS
<1>4. Accounted(logPosts, InWrite, c) /\ slowLatest.kept = slowLatest.posted
  BY <1>1, <1>2, <1>3, AccountedParts
<1>5. InWrite \in {0, 1}
  BY DEF InWrite
<1>6. FileInv'
  <2>1. asked' \in Nat /\ asked <= asked' /\ asked' <= MaxAppends
    BY <1>2, LogbookAssumption
  <2> QED
    BY <1>1, <1>2, <2>1, FileSame
<1>7. logPosts \in Counters
  BY <1>1 DEF CountTypes, Counters
<1>8. PICK a \in Nat : a = logPosts.taken + 1
  BY <1>7 DEF Counters
<1>9. PICK v \in Nat : v = logPosts.rejected + 1
  BY <1>7 DEF Counters
<1>16. PICK l \in Counters : l = logPosts
  BY <1>7
<1>10. logPosts' = [l EXCEPT !.taken = a, !.rejected = v]
  BY <1>2, <1>8, <1>9, <1>16
<1>11. /\ logPosts' \in Counters /\ logPosts'.taken = a /\ logPosts'.accepted = logPosts.accepted
       /\ logPosts'.rejected = v
       /\ logPosts'.slow_values_not_logged = logPosts.slow_values_not_logged
  <2>1. PICK m : m = [l EXCEPT !.taken = a, !.rejected = v]
    OBVIOUS
  <2>2. /\ m \in Counters /\ m.taken = a /\ m.accepted = l.accepted
        /\ m.rejected = v /\ m.slow_values_not_logged = l.slow_values_not_logged
    BY <2>1 DEF Counters
  <2>3. logPosts' = m
    BY <1>10, <2>1, Zenon
  <2> QED
    BY <1>16, <2>2, <2>3
<1>12. CountTypes'
  BY <1>11 DEF CountTypes, Counters
<1>13. Accounted(logPosts', InWrite, c)
  <2>1. /\ logPosts.taken \in Nat /\ logPosts.accepted \in Nat /\ logPosts.rejected \in Nat
        /\ logPosts.slow_values_not_logged \in Nat
    BY <1>7 DEF Counters
  <2>2. /\ logPosts.taken = logPosts.accepted + logPosts.rejected
             + logPosts.slow_values_not_logged + InWrite
        /\ logPosts.accepted <= c
    BY <1>4 DEF Accounted
  <2>3. a = logPosts.accepted + v + logPosts.slow_values_not_logged + InWrite
    BY <1>5, <1>8, <1>9, <2>1, <2>2
  <2> QED
    BY <1>11, <2>2, <2>3 DEF Accounted
<1>14. InWrite' = InWrite /\ Cardinality(SlowAmong(acked))' = c /\ slowLatest'.kept = slowLatest'.posted
  BY <1>2, <1>3, <1>4 DEF InWrite
<1>15. PostsAccounted'
  BY <1>13, <1>14 DEF PostsAccounted, Accounted, InWrite, SlowAmong
<1> QED
  BY <1>6, <1>12, <1>15 DEF LInv

(* A write succeeds: a post is accepted, and a slow record acknowledged.       *)
LEMMA EndKeeps ==
  ASSUME LInv, EndAppend
  PROVE  LInv'
<1>1. FileInv /\ CountTypes /\ PostsAccounted /\ LTypes /\ WriteFits
  BY DEF LInv, FileInv
<1>2. FileInv' /\ book'.writing = Nothing /\ book'.up = TRUE
  BY <1>1, FileEnd
<1>3. PICK p \in Piece : acked' = Append(acked, p) /\ p.rec = book.writing.rec
  BY <1>1, FileEnd
<1>4. PICK c \in Nat : c = Cardinality(SlowAmong(acked))
  BY <1>1, SlowFacts DEF LTypes
<1>5. book.up = TRUE /\ Counted(TRUE) /\ UNCHANGED slowLatest /\ book.writing # Nothing
  BY <1>1 DEF EndAppend, LTypes
<1>6. Accounted(logPosts, InWrite, c) /\ slowLatest.kept = slowLatest.posted
  BY <1>1, <1>4, <1>5, AccountedParts
<1>7. PICK d \in Nat : /\ d = Cardinality(SlowAmong(acked'))
                       /\ d = c + (IF p.rec.type = "slow" THEN 1 ELSE 0)
  <2>1. PICK b : b = Cardinality(SlowAmong(Append(acked, p)))
    OBVIOUS
  <2>2. b = c + (IF p.rec.type = "slow" THEN 1 ELSE 0)
    BY <1>1, <1>4, <2>1, SlowFacts DEF LTypes
  <2>3. b \in Nat
    BY <2>2
  <2> QED
    BY <1>3, <2>1, <2>2, <2>3
<1>8. CountTypes' /\ Accounted(logPosts', 0, d)
  <2>1. CASE book.writing.from # "post"
    <3>1. logPosts' = logPosts /\ InWrite = 0
      BY <1>5, <2>1 DEF Counted, InWrite
    <3> QED
      BY <1>1, <1>6, <1>7, <3>1 DEF CountTypes, Counters, Accounted
  <2>2. CASE book.writing.from = "post"
    <3>1. logPosts' = [logPosts EXCEPT !.accepted = @ + 1] /\ InWrite = 1
      BY <1>5, <2>2 DEF Counted, InWrite
    <3>2. d = c + 1
      BY <1>1, <1>3, <1>5, <1>7, <2>2 DEF WriteFits
    <3> QED
      BY <1>1, <1>6, <3>1, <3>2 DEF CountTypes, Counters, Accounted
  <2> QED
    BY <2>1, <2>2
<1>9. InWrite' = 0 /\ Cardinality(SlowAmong(acked))' = d /\ slowLatest'.kept = slowLatest'.posted
  BY <1>2, <1>5, <1>6, <1>7, NobodyWrites DEF InWrite
<1>10. PostsAccounted'
  BY <1>8, <1>9 DEF PostsAccounted, Accounted, InWrite, SlowAmong
<1> QED
  BY <1>2, <1>8, <1>10 DEF LInv

(* A write fails: a post is rejected.                                          *)
LEMMA FailKeeps ==
  ASSUME LInv, FailAppend
  PROVE  LInv'
<1>1. FileInv /\ CountTypes /\ PostsAccounted /\ LTypes
  BY DEF LInv, FileInv
<1>2. /\ book.up = TRUE /\ Counted(FALSE) /\ UNCHANGED <<lines, acked, asked, slowLatest>>
      /\ book.writing # Nothing /\ torn < MaxTorn /\ torn' = torn + 1 /\ tail' \in Left
  BY <1>1 DEF FailAppend, LTypes
<1>3. /\ book'.writing = Nothing /\ book'.up = TRUE /\ book'.next_seq = book.next_seq
      /\ BookShape'
  <2>1. BookShape /\ book.next_seq \in Nat
    BY <1>1 DEF LTypes
  <2>2. book' = [book EXCEPT !.next_seq = book.next_seq + 0, !.writing = Nothing]
    BY DEF FailAppend, Written
  <2>3. book' = [up |-> book.up, next_seq |-> book.next_seq + 0, writing |-> Nothing]
    BY <2>1, <2>2 DEF BookShape
  <2>4. book.next_seq + 0 = book.next_seq
    BY <2>1
  <2> QED
    BY <1>2, <2>3, <2>4 DEF BookShape
<1>4. FileInv'
  <2>1. book'.up \in BOOLEAN
    BY <1>3, Zenon
  <2> QED
    BY <1>1, <1>2, <1>3, <2>1, FileTorn
<1>5. PICK c : c = Cardinality(SlowAmong(acked))
  OBVIOUS
<1>6. Accounted(logPosts, InWrite, c) /\ slowLatest.kept = slowLatest.posted
  BY <1>1, <1>2, <1>5, AccountedParts
<1>7. CountTypes' /\ Accounted(logPosts', 0, c)
  <2>1. CASE book.writing.from # "post"
    <3>1. logPosts' = logPosts /\ InWrite = 0
      BY <1>2, <2>1 DEF Counted, InWrite
    <3> QED
      BY <1>1, <1>6, <3>1 DEF CountTypes, Counters, Accounted
  <2>2. CASE book.writing.from = "post"
    <3>1. logPosts' = [logPosts EXCEPT !.rejected = @ + 1] /\ InWrite = 1
      BY <1>2, <2>2 DEF Counted, InWrite
    <3> QED
      BY <1>1, <1>6, <3>1 DEF CountTypes, Counters, Accounted
  <2> QED
    BY <2>1, <2>2
<1>8. InWrite' = 0 /\ Cardinality(SlowAmong(acked))' = c /\ slowLatest'.kept = slowLatest'.posted
  BY <1>2, <1>3, <1>5, <1>6, NobodyWrites DEF InWrite
<1>9. PostsAccounted'
  BY <1>7, <1>8 DEF PostsAccounted, Accounted, InWrite, SlowAmong
<1> QED
  BY <1>4, <1>7, <1>9 DEF LInv

(* The controller dies.                                                        *)
LEMMA CrashKeeps ==
  ASSUME LInv, Crash
  PROVE  LInv'
<1>1. FileInv /\ CountTypes /\ LTypes
  BY DEF LInv, FileInv
<1>2. /\ UNCHANGED <<lines, acked, asked, logPosts>>
      /\ torn < MaxTorn /\ torn' = torn + 1
      /\ IF book.writing = Nothing THEN tail' = tail ELSE tail' \in Left
  BY DEF Crash
<1>3. /\ book'.writing = Nothing /\ book'.up = FALSE /\ book'.next_seq = book.next_seq
      /\ BookShape'
  <2>1. BookShape
    BY <1>1 DEF LTypes
  <2>2. book' = [up |-> FALSE, next_seq |-> book.next_seq, writing |-> Nothing]
    BY <2>1 DEF Crash, BookShape
  <2> QED
    BY <2>2 DEF BookShape
<1>4. book'.up \in BOOLEAN /\ book'.up # TRUE
  BY <1>3, Zenon
<1>5. FileInv'
  BY <1>1, <1>2, <1>3, <1>4, FileTorn
<1>6. CountTypes'
  BY <1>1, <1>2 DEF CountTypes, Counters
<1>7. PostsAccounted'
  BY <1>3, Zenon DEF PostsAccounted
<1> QED
  BY <1>5, <1>6, <1>7 DEF LInv

(* The next controller opens the file and counts afresh.                       *)
LEMMA OpenKeeps ==
  ASSUME LInv, OpenBook
  PROVE  LInv'
<1>1. FileInv /\ LTypes
  BY DEF LInv, FileInv
<1>2. FileInv' /\ book'.writing = Nothing
  BY <1>1, FileOpen
<1>3. PICK c \in Nat : c = Cardinality(SlowAmong(acked))
  <2>1. PICK p \in Piece : TRUE
    <3>1. [seq |-> 0, rec |-> [type |-> "comment"], whole |-> TRUE] \in Piece
      BY DEF Piece, Rec, RestRecords, Comments
    <3> QED
      BY <3>1
  <2> QED
    BY <1>1, SlowFacts DEF LTypes
<1>4. /\ logPosts' = [taken |-> 0, accepted |-> 0, rejected |-> 0, slow_values_not_logged |-> 0]
      /\ slowLatest'.kept = slowLatest'.posted /\ acked' = acked
  BY DEF OpenBook
<1>5. CountTypes' /\ Accounted(logPosts', 0, c)
  BY <1>3, <1>4 DEF CountTypes, Counters, Accounted
<1>6. InWrite' = 0 /\ Cardinality(SlowAmong(acked))' = c
  BY <1>2, <1>3, <1>4, NobodyWrites DEF InWrite
<1>7. PostsAccounted'
  BY <1>4, <1>5, <1>6 DEF PostsAccounted, Accounted, InWrite, SlowAmong
<1> QED
  BY <1>2, <1>5, <1>7 DEF LInv

(* No step of the logbook breaks the invariant.                                *)
LEMMA LogbookStep ==
  ASSUME LInv, [LogbookNext]_lbVars
  PROVE  LInv'
<1>1. CASE LogbookNext
  BY <1>1, RestKeeps, TakenKeeps, RejectedKeeps, EndKeeps, FailKeeps, CrashKeeps, OpenKeeps
     DEF LogbookNext
<1>2. CASE UNCHANGED lbVars
  <2>1. FileInv'
    <3>1. FileInv /\ LTypes /\ UNCHANGED <<lines, tail, acked, torn, book, asked>>
      BY <1>2 DEF LInv, FileInv, lbVars
    <3>2. asked' \in Nat /\ asked <= asked' /\ asked' <= MaxAppends
      BY <3>1 DEF LTypes
    <3> QED
      BY <3>1, <3>2, FileSame
  <2>2. CountTypes' /\ PostsAccounted'
    BY <1>2 DEF LInv, lbVars, CountTypes, Counters, PostsAccounted
  <2> QED
    BY <2>1, <2>2 DEF LInv
<1> QED
  BY <1>1, <1>2

(* The logbook keeps its invariant (LogbookWriter, read_since, logpost).       *)
THEOREM LogbookInvariant == LogbookSpec => []LInv
<1>1. LogbookInit => LInv
  BY LogbookStarts
<1>2. LInv /\ [LogbookNext]_lbVars => LInv'
  BY LogbookStep
<1> QED
  BY <1>1, <1>2, PTL DEF LogbookSpec

-----------------------------------------------------------------------------
(* While no write was cut short a reader gets what was acknowledged, and finds *)
(* a line it cannot read only while one is being written.                      *)
LEMMA UntornReads ==
  ASSUME LInv, torn = 0
  PROVE  LET bad == {i \in DOMAIN Content : ~Parses(Content[i])}
         IN  /\ After(0, ParsedLines) = acked
             /\ bad \subseteq {Len(Content)}
             /\ bad # {} <=> book.writing # Nothing
<1>1. LTypes /\ WriteFits /\ NumbersFit /\ Untorn
  BY DEF LInv, FileInv
<1>2. /\ Parsed(lines) = acked /\ \A i \in DOMAIN lines : Parses(lines[i])
      /\ Len(tail) = IF book.writing = Nothing THEN 0 ELSE 1
  BY <1>1 DEF Untorn
<1>3. /\ tail \in Seq(Piece) /\ lines \in Seq(Seq(Piece)) /\ acked \in Seq(Piece)
  BY <1>1 DEF LTypes
<1>4. After(0, acked) = acked
  <2>1. \A i \in DOMAIN acked : acked[i].seq >= 1
    BY <1>1, <1>2 DEF NumbersFit, NumbersOf
  <2> QED
    BY <1>3, <2>1, AllAfterZero
<1>5. CASE book.writing = Nothing
  <2>1. tail = << >>
    BY <1>2, <1>3, <1>5, EmptySeq
  <2>2. Content = lines /\ ParsedLines = acked
    BY <1>1, <1>2, <2>1, ContentFacts DEF WithLine
  <2>3. {i \in DOMAIN Content : ~Parses(Content[i])} = {}
    BY <1>2, <2>2
  <2> QED
    BY <1>4, <1>5, <2>2, <2>3
<1>6. CASE book.writing # Nothing
  <2>1. Len(tail) = 1 /\ tail[1].whole = FALSE
    BY <1>1, <1>2, <1>6 DEF WriteFits
  <2>2. ~Parses(tail)
    BY <2>1 DEF Parses
  <2>3. tail # << >>
    BY <2>1
  <2>4. Content = Append(lines, tail) /\ ParsedLines = acked
    BY <1>1, <1>2, <2>2, <2>3, ContentFacts DEF WithLine
  <2>5. PICK c : c = Content
    OBVIOUS
  <2>6. /\ Len(lines) \in Nat /\ DOMAIN lines = 1 .. Len(lines)
        /\ DOMAIN c = 1 .. Len(lines) + 1 /\ Len(c) = Len(lines) + 1
        /\ \A j \in 1 .. Len(lines) : c[j] = lines[j]
        /\ c[Len(lines) + 1] = tail
    BY <1>3, <2>4, <2>5, AppendShape
  <2>7. Len(c) \in DOMAIN c /\ ~Parses(c[Len(c)])
    BY <2>2, <2>6
  <2>8. ASSUME NEW i \in DOMAIN c, i # Len(c) PROVE Parses(c[i])
    <3>1. i \in DOMAIN lines /\ c[i] = lines[i]
      BY <2>6, <2>8
    <3> QED
      BY <1>2, <3>1
  <2>9. {i \in DOMAIN c : ~Parses(c[i])} = {Len(c)}
    BY <2>7, <2>8
  <2> QED
    BY <1>4, <1>6, <2>4, <2>5, <2>9
<1> QED
  BY <1>5, <1>6

(* No more acknowledged records are unreadable than writes were cut short.     *)
LEMMA LostFew ==
  ASSUME LInv
  PROVE  Cardinality({i \in DOMAIN acked : acked[i] \notin ToSet(ParsedLines)}) <= torn
<1>1. LTypes /\ NumbersFit /\ LossesPaid
  BY DEF LInv, FileInv
<1>2. PICK ps \in Seq(Piece) : ps = Parsed(lines)
  BY <1>1, ContentFacts
<1>3. PICK ak \in Seq(Piece) : ak = acked
  BY <1>1 DEF LTypes
<1>4. PICK qs : qs = ParsedLines
  OBVIOUS
<1>5. \A i \in DOMAIN ps : \E j \in DOMAIN qs : qs[j] = ps[i]
  BY <1>1, <1>2, <1>4, ReadFacts
<1>6. PICK lost : lost = {i \in DOMAIN ak : ak[i] \notin ToSet(qs)}
  OBVIOUS
<1>7. lost \subseteq LostAmong(ak, ps)
  <2> SUFFICES ASSUME NEW i \in DOMAIN ak, ak[i] \notin ToSet(qs), NEW j \in DOMAIN ps
               PROVE  ps[j] # ak[i]
    BY <1>6 DEF LostAmong
  <2>1. PICK k \in DOMAIN qs : qs[k] = ps[j]
    BY <1>5
  <2> QED
    BY <2>1 DEF ToSet
<1>8. PICK p \in Piece : TRUE
  <2>1. [seq |-> 0, rec |-> [type |-> "comment"], whole |-> TRUE] \in Piece
    BY DEF Piece, Rec, RestRecords, Comments
  <2> QED
    BY <2>1
<1>9. IsFiniteSet(LostAmong(ak, ps)) /\ Cardinality(LostAmong(ak, ps)) \in Nat
  BY LossFacts, <1>8
<1>10. Cardinality(lost) <= Cardinality(LostAmong(ak, ps)) /\ Cardinality(lost) \in Nat
  BY <1>7, <1>9, FS_Subset, FS_CardinalityType
<1>11. Cardinality(LostAmong(ak, ps)) + Leftover <= torn /\ Leftover \in {0, 1} /\ torn \in Nat
  BY <1>1, <1>2, <1>3 DEF LossesPaid, LTypes, Leftover
<1>12. Cardinality(lost) <= torn
  BY <1>9, <1>10, <1>11
<1> QED
  BY <1>3, <1>4, <1>6, <1>12

(* The invariant says what readers and the operator count on.                  *)
LEMMA LogbookMeans ==
  ASSUME LInv
  PROVE  LogbookSound
<1>1. LTypes /\ WriteFits /\ NumbersFit /\ PostsAccounted
  BY DEF LInv, FileInv
<1>2. LogbookTypeOK
  <2>1. book.next_seq \in 1 .. MaxAppends + 1
    <3>1. /\ book.next_seq \in Nat /\ book.next_seq >= 1 /\ book.next_seq <= asked + 1
          /\ asked \in Nat /\ asked <= MaxAppends
      BY <1>1 DEF LTypes
    <3> QED
      BY <3>1, LogbookAssumption
  <2>2. torn \in 0 .. MaxTorn /\ asked \in 0 .. MaxAppends
    BY <1>1, LogbookAssumption DEF LTypes
  <2>3. (book.writing # Nothing) => tail # << >>
    <3> SUFFICES ASSUME book.writing # Nothing, tail = << >> PROVE FALSE
      OBVIOUS
    <3>1. Len(tail) >= 1 /\ Len(tail) = 0
      BY <1>1 DEF WriteFits
    <3> QED
      BY <3>1
  <2>4. \A i \in DOMAIN lines : lines[i] # << >>
    BY <1>1 DEF LTypes
  <2> QED
    BY <2>1, <2>2, <2>3, <2>4 DEF LogbookTypeOK
<1>3. SeqAscends
  BY <1>1, ReadFacts DEF SeqAscends, Numbered
<1>4. ReadsBack
  <2>1. PICK bad : bad = {i \in DOMAIN Content : ~Parses(Content[i])}
    OBVIOUS
  <2>2. ReadSince(0) = [ok |-> bad \subseteq {Len(Content)}, tail_corrupt |-> bad # {},
                        records |-> After(0, ParsedLines)]
    BY <2>1 DEF ReadSince
  <2>3. ASSUME torn = 0
        PROVE  /\ ReadSince(0).ok /\ ReadSince(0).records = acked
               /\ ReadSince(0).tail_corrupt = (book.writing # Nothing)
    <3>1. /\ After(0, ParsedLines) = acked /\ bad \subseteq {Len(Content)}
          /\ bad # {} <=> book.writing # Nothing
      BY <2>1, <2>3, UntornReads
    <3>2. ReadSince(0).ok = TRUE
      <4>1. (bad \subseteq {Len(Content)}) = TRUE
        BY <3>1
      <4>2. PICK t : t = (bad \subseteq {Len(Content)})
        OBVIOUS
      <4>3. ReadSince(0) = [ok |-> t, tail_corrupt |-> bad # {}, records |-> After(0, ParsedLines)]
        BY <2>2, <4>2, Zenon
      <4>4. ReadSince(0).ok = t
        BY <4>3
      <4> QED
        BY <4>1, <4>2, <4>4, Zenon
    <3>3. ReadSince(0).records = acked
      BY <2>2, <3>1
    <3>4. ReadSince(0).tail_corrupt = (bad # {})
      BY <2>2
    <3> QED
      BY <3>1, <3>2, <3>3, <3>4
  <2> QED
    BY <2>3, LostFew DEF ReadsBack
<1> QED
  BY <1>1, <1>2, <1>3, <1>4 DEF LogbookSound

(* What was acknowledged can be read, by ascending numbers, but for one record *)
(* per write that was cut short, over crashes, failed writes and restarts, and *)
(* every post is counted as what became of it (LogbookWriter, recover_next_seq,*)
(* read_since, the log post thread).                                           *)
THEOREM LogbookProved == LogbookSpec => []LogbookSound
<1>1. LInv => LogbookSound
  BY LogbookMeans
<1> QED
  BY <1>1, LogbookInvariant, PTL
=============================================================================
