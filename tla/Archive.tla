------------------------------- MODULE Archive -------------------------------
(* What the graw-writer promises, without files, rotation or system calls:    *)
(* one log per run and key that only grows while the run is open, holds       *)
(* exactly the offered frames of the run unless the run is flagged, and is    *)
(* never touched again once the run is closed.                                *)
EXTENDS Integers, Sequences, SequencesExt

CONSTANTS Runs, LogKeys

VARIABLES
  phase,    \* of each run: "unborn", "open" or "closed"
  offered,  \* of each run: the frames that reached it
  log,      \* of each run and key: the frames kept
  flagged   \* of each run: an error has been latched

archiveVars == <<phase, offered, log, flagged>>

(* The frames of run r and key k among fs, in order.                          *)
Mine(r, k, fs) ==
  LET kept[j \in 0 .. Len(fs)] ==
        IF j = 0 THEN << >>
        ELSE IF fs[j].key = k /\ fs[j].run = r THEN Append(kept[j - 1], fs[j])
        ELSE kept[j - 1]
  IN  kept[Len(fs)]

ArchiveInit ==
  /\ phase = [r \in Runs |-> "unborn"]
  /\ offered = [r \in Runs |-> << >>]
  /\ log = [r \in Runs |-> [k \in LogKeys |-> << >>]]
  /\ flagged = [r \in Runs |-> FALSE]

Begin(r) ==
  /\ phase[r] = "unborn"
  /\ phase' = [phase EXCEPT ![r] = "open"]
  /\ UNCHANGED <<offered, log, flagged>>

(* Frames arrive; a run that is not flagged has kept every one of its own.    *)
Take(r) ==
  /\ phase[r] = "open"
  /\ IsPrefix(offered[r], offered'[r])
  /\ \A k \in LogKeys : IsPrefix(log[r][k], log'[r][k])
  /\ flagged[r] => flagged'[r]
  /\ ~flagged'[r] => \A k \in LogKeys : log'[r][k] = Mine(r, k, offered'[r])
  /\ \A k \in LogKeys : IsPrefix(log'[r][k], Mine(r, k, offered'[r]))
  /\ \A q \in Runs \ {r} : /\ offered'[q] = offered[q] /\ log'[q] = log[q]
                           /\ flagged'[q] = flagged[q]
  /\ phase' = phase

(* The run is closed, possibly with an error.                                 *)
End(r) ==
  /\ phase[r] = "open"
  /\ phase' = [phase EXCEPT ![r] = "closed"]
  /\ \E bad \in BOOLEAN : flagged' = [flagged EXCEPT ![r] = @ \/ bad]
  /\ UNCHANGED <<offered, log>>

ArchiveNext == \E r \in Runs : Begin(r) \/ Take(r) \/ End(r)

ArchiveSpec == ArchiveInit /\ [][ArchiveNext]_archiveVars
==============================================================================
