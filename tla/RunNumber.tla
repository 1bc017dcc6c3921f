------------------------------ MODULE RunNumber ------------------------------
(* The run counter next_run: the state file of src/src/state.rs, and the two  *)
(* REST handlers of the controller that write it, run/start and run/next      *)
(* (src/src/controller/rest.rs).  Every system call on the file is a step of  *)
(* its own: run/start works in a blocking task and run/next in the HTTP       *)
(* runtime, so that their steps interleave, and the process may die anywhere. *)
EXTENDS Integers, Sequences

CONSTANTS
  MaxRun,       \* u32::MAX, the largest run number
  MaxStarts,    \* bound: run/start requests taken up
  MaxSets,      \* bound: run/next requests taken up
  MaxCrashes,   \* bound: deaths of the controller process
  MaxIoErrors   \* bound: system calls on the file that fail

ASSUME RunNumberAssumption ==
  /\ MaxRun \in Nat \ {0}
  /\ MaxStarts \in Nat /\ MaxSets \in Nat /\ MaxCrashes \in Nat /\ MaxIoErrors \in Nat

Numbers == 1 .. MaxRun
Writers == {"start", "next"}    \* the run/start task, the run/next handler
Inodes  == 1 .. 5               \* two names and two open files: one is always free
NoInode    == 0                    \* no inode; as a content: nothing written yet

VARIABLES
  rnPhase,      \* Controller.run.phase
  rnPc,         \* where each writer is
  rnGoal,       \* what its persist_next_run is for: take, rewind or set
  rnVal,        \* the number it persists
  rnFd,         \* the file it has open for writing
  rnRun,        \* the number take_next_run returned to run/start
  rnFile, rnTmp,  \* the inodes the two names stand for
  rnContent,    \* the number in each inode
  rnStarts,     \* the logbook: run numbers of the run_start records
  rnAsked,      \* history: numbers run/next was asked for
  rnCount       \* starts, sets, crashes and I/O errors so far

rnDisk == <<rnFile, rnTmp, rnContent>>
rnVars == <<rnPhase, rnPc, rnGoal, rnVal, rnFd, rnRun, rnDisk, rnStarts, rnAsked, rnCount>>

RunNumberInit ==
  /\ rnPhase = "Idle"
  /\ rnPc = [w \in Writers |-> "off"]
  /\ rnGoal = [w \in Writers |-> "set"]
  /\ rnVal = [w \in Writers |-> 1]
  /\ rnFd = [w \in Writers |-> NoInode]
  /\ rnRun = 1
  /\ rnFile = NoInode /\ rnTmp = NoInode
  /\ rnContent = [i \in Inodes |-> NoInode]
  /\ rnStarts = << >> /\ rnAsked = {}
  /\ rnCount = [starts |-> 0, sets |-> 0, crashes |-> 0, errors |-> 0]

-----------------------------------------------------------------------------
(* persist_next_run: fs::write of the temporary file (open and truncate, then *)
(* write) and rename onto the state file.                                     *)

Persist(w, g, n) ==
  /\ rnPc' = [rnPc EXCEPT ![w] = "open"]
  /\ rnGoal' = [rnGoal EXCEPT ![w] = g]
  /\ rnVal' = [rnVal EXCEPT ![w] = n]

(* The caller's continuation: take_next_run hands the number out only now, a  *)
(* failed one and any rewind end the start, run/next answers its client.      *)
PersistDone(w, ok) ==
  /\ rnPc' = [rnPc EXCEPT ![w] = IF ok /\ rnGoal[w] = "take" THEN "sequence" ELSE "off"]
  /\ rnFd' = [rnFd EXCEPT ![w] = NoInode]
  /\ rnPhase' = IF w = "start" /\ ~(ok /\ rnGoal[w] = "take") THEN "Idle" ELSE rnPhase

OpenTmp(w) ==
  /\ rnPc[w] = "open"
  /\ LET i == IF rnTmp # NoInode THEN rnTmp
              ELSE CHOOSE j \in Inodes : j \notin {rnFile, rnTmp, rnFd["start"], rnFd["next"]}
     IN  /\ rnTmp' = i
         /\ rnContent' = [rnContent EXCEPT ![i] = NoInode]
         /\ rnFd' = [rnFd EXCEPT ![w] = i]
  /\ rnPc' = [rnPc EXCEPT ![w] = "write"]
  /\ UNCHANGED <<rnPhase, rnGoal, rnVal, rnRun, rnFile, rnStarts, rnAsked, rnCount>>

WriteTmp(w) ==
  /\ rnPc[w] = "write"
  /\ rnContent' = [rnContent EXCEPT ![rnFd[w]] = rnVal[w]]
  /\ rnPc' = [rnPc EXCEPT ![w] = "rename"]
  /\ UNCHANGED <<rnPhase, rnGoal, rnVal, rnFd, rnRun, rnFile, rnTmp, rnStarts, rnAsked, rnCount>>

(* rename moves whatever the temporary name stands for; without it, ENOENT.   *)
RenameTmp(w) ==
  /\ rnPc[w] = "rename"
  /\ \/ /\ rnTmp # NoInode
        /\ rnFile' = rnTmp /\ rnTmp' = NoInode
        /\ PersistDone(w, TRUE)
     \/ /\ rnTmp = NoInode
        /\ PersistDone(w, FALSE)
        /\ UNCHANGED <<rnFile, rnTmp>>
  /\ UNCHANGED <<rnGoal, rnVal, rnRun, rnContent, rnStarts, rnAsked, rnCount>>

(* A system call fails (a full disk): what was done so far stays on disk.     *)
CounterIoError(w) ==
  /\ rnPc[w] \in {"open", "write", "rename"}
  /\ rnCount.errors < MaxIoErrors
  /\ rnCount' = [rnCount EXCEPT !.errors = @ + 1]
  /\ PersistDone(w, FALSE)
  /\ UNCHANGED <<rnGoal, rnVal, rnRun, rnDisk, rnStarts, rnAsked>>

-----------------------------------------------------------------------------
(* run/start                                                                  *)

(* post_run_start: the phase is taken under the lock.                         *)
NumberStart ==
  /\ rnPhase = "Idle" /\ rnPc["start"] = "off"
  /\ rnCount.starts < MaxStarts
  /\ rnCount' = [rnCount EXCEPT !.starts = @ + 1]
  /\ rnPhase' = "Starting"
  /\ rnPc' = [rnPc EXCEPT !["start"] = "read"]
  /\ UNCHANGED <<rnGoal, rnVal, rnFd, rnRun, rnDisk, rnStarts, rnAsked>>

(* read_next_run: a missing file stands for 1, an empty one does not decode.  *)
NextRun == IF rnFile = NoInode THEN 1 ELSE rnContent[rnFile]

(* Mutant: the number is handed out before it is persisted.                   *)
TakeNextRun_Unpersisted ==
  /\ rnPc["start"] = "read"
  /\ \/ /\ NextRun \in 1 .. MaxRun - 1
        /\ rnRun' = NextRun
        /\ rnPc' = [rnPc EXCEPT !["start"] = "sequence"]
        /\ UNCHANGED <<rnPhase, rnGoal, rnVal>>
     \/ /\ NextRun \notin 1 .. MaxRun - 1
        /\ rnPc' = [rnPc EXCEPT !["start"] = "off"]
        /\ rnPhase' = "Idle"
        /\ UNCHANGED <<rnGoal, rnVal, rnRun>>
  /\ UNCHANGED <<rnFd, rnDisk, rnStarts, rnAsked, rnCount>>

(* take_next_run: read, checked_add, persist the successor.  An unreadable    *)
(* file or an exhausted counter refuses the start.                            *)
TakeNextRun ==
  /\ rnPc["start"] = "read"
  /\ \/ /\ NextRun \in 1 .. MaxRun - 1
        /\ rnRun' = NextRun
        /\ Persist("start", "take", NextRun + 1)
        /\ UNCHANGED rnPhase
     \/ /\ NextRun \notin 1 .. MaxRun - 1
        /\ rnPc' = [rnPc EXCEPT !["start"] = "off"]
        /\ rnPhase' = "Idle"
        /\ UNCHANGED <<rnGoal, rnVal, rnRun>>
  /\ UNCHANGED <<rnFd, rnDisk, rnStarts, rnAsked, rnCount>>

(* start_run succeeded: run_start is written, after which the number stays.   *)
SequenceOk ==
  /\ rnPc["start"] = "sequence"
  /\ rnStarts' = Append(rnStarts, rnRun)
  /\ rnPc' = [rnPc EXCEPT !["start"] = "recorded"]
  /\ UNCHANGED <<rnPhase, rnGoal, rnVal, rnFd, rnRun, rnDisk, rnAsked, rnCount>>

(* start_run failed and was rolled back: the number is given back.            *)
SequenceFails ==
  /\ rnPc["start"] = "sequence"
  /\ Persist("start", "rewind", rnRun)
  /\ UNCHANGED <<rnPhase, rnFd, rnRun, rnDisk, rnStarts, rnAsked, rnCount>>

StartReturns ==
  /\ rnPc["start"] = "recorded"
  /\ rnPhase' = "Running"
  /\ rnPc' = [rnPc EXCEPT !["start"] = "off"]
  /\ UNCHANGED <<rnGoal, rnVal, rnFd, rnRun, rnDisk, rnStarts, rnAsked, rnCount>>

(* The blocking task panics: the handler puts the phase back to Idle.         *)
StartTaskDies ==
  /\ rnPc["start"] # "off" /\ rnCount.errors < MaxIoErrors
  /\ rnCount' = [rnCount EXCEPT !.errors = @ + 1]
  /\ rnPhase' = "Idle"
  /\ rnPc' = [rnPc EXCEPT !["start"] = "off"]
  /\ rnFd' = [rnFd EXCEPT !["start"] = NoInode]
  /\ UNCHANGED <<rnGoal, rnVal, rnRun, rnDisk, rnStarts, rnAsked>>

(* post_run_stop, from taking the phase to giving it back.                    *)
NumberStop ==
  /\ \/ rnPhase = "Running" /\ rnPhase' = "Stopping"
     \/ rnPhase = "Stopping" /\ rnPhase' = "Idle"
  /\ UNCHANGED <<rnPc, rnGoal, rnVal, rnFd, rnRun, rnDisk, rnStarts, rnAsked, rnCount>>

(* post_run_next: the phase is looked at under the lock, the lock is dropped, *)
(* and only then the number is persisted.                                     *)
NumberNext ==
  /\ rnPhase = "Idle" /\ rnPc["next"] = "off"
  /\ rnCount.sets < MaxSets
  /\ rnCount' = [rnCount EXCEPT !.sets = @ + 1]
  /\ \E n \in Numbers : Persist("next", "set", n) /\ rnAsked' = rnAsked \cup {n}
  /\ UNCHANGED <<rnPhase, rnFd, rnRun, rnDisk, rnStarts>>

(* The process dies; what is on disk is what a new one starts from.           *)
CounterCrash ==
  /\ rnCount.crashes < MaxCrashes
  /\ rnCount' = [rnCount EXCEPT !.crashes = @ + 1]
  /\ rnPhase' = "Idle"
  /\ rnPc' = [w \in Writers |-> "off"]
  /\ rnFd' = [w \in Writers |-> NoInode]
  /\ UNCHANGED <<rnGoal, rnVal, rnRun, rnDisk, rnStarts, rnAsked>>

RunNumberNext ==
  \/ NumberStart \/ TakeNextRun \/ SequenceOk \/ SequenceFails \/ StartReturns
  \/ StartTaskDies \/ NumberStop \/ NumberNext \/ CounterCrash
  \/ \E w \in Writers : OpenTmp(w) \/ WriteTmp(w) \/ RenameTmp(w) \/ CounterIoError(w)

RunNumberSpec == RunNumberInit /\ [][RunNumberNext]_rnVars

-----------------------------------------------------------------------------
(* Every variable has its type; the counter never leaves the u32 range.       *)
RunNumberTypeOK ==
  /\ rnPhase \in {"Idle", "Starting", "Running", "Stopping"}
  /\ rnPc \in [Writers -> {"off", "read", "open", "write", "rename", "sequence", "recorded"}]
  /\ rnGoal \in [Writers -> {"take", "rewind", "set"}]
  /\ rnVal \in [Writers -> Numbers]
  /\ rnFd \in [Writers -> Inodes \cup {NoInode}]
  /\ rnRun \in Numbers
  /\ rnFile \in Inodes \cup {NoInode} /\ rnTmp \in Inodes \cup {NoInode}
  /\ rnContent \in [Inodes -> Numbers \cup {NoInode}]
  /\ rnStarts \in Seq(Numbers)
  /\ rnAsked \in SUBSET Numbers
  /\ rnCount \in [starts : Nat, sets : Nat, crashes : Nat, errors : Nat]

(* No run number appears twice in the logbook, and the numbers ascend, across *)
(* rewinds, crashes, panics and failed writes; only an operator who sets a    *)
(* number that low brings one back (take_next_run: "the same number is never  *)
(* returned twice"; start_run_blocking: no rewind after run_start).           *)
NumbersNeverRepeat ==
  \A i, j \in DOMAIN rnStarts :
    i < j /\ rnStarts[j] <= rnStarts[i] => \E n \in rnAsked : n <= rnStarts[j]

(* persist_next_run: "persist atomically".  The state file always decodes.    *)
StateFileAtomic == rnFile # NoInode => rnContent[rnFile] # NoInode

(* As long as run/start is the only writer, a crash, a panic or a failed      *)
(* system call anywhere never leaves an empty state file, which would refuse  *)
(* every later start (persist_next_run).                                      *)
StateFileWhole == rnCount.sets = 0 => StateFileAtomic

(* Run numbers are used once and the file that keeps them is never found    *)
(* empty, whatever fails or dies (take_next_run, persist_next_run).         *)
NumbersSound == RunNumberTypeOK /\ NumbersNeverRepeat /\ StateFileWhole
=============================================================================
