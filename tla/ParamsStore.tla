----------------------------- MODULE ParamsStore -----------------------------
(* The parameter set in force: PUT /api/params and what it leaves on disk      *)
(* (src/src/controller/params_api.rs), the control session that authorises it  *)
(* (src/src/controller/mod.rs), and run/start, which hands the set to the ECC  *)
(* and records it (src/src/controller/rest.rs).  A PUT is authorised in its    *)
(* handler and saved later in a blocking task; every system call of the save   *)
(* is a step, so that readers, the disk and death come between.                *)
EXTENDS Integers, Sequences, FiniteSets

CONSTANTS
  Sets,           \* parameter sets that may be put; their ids are distinct
  MaxTokens,      \* bound: control/acquire requests
  MaxPuts,        \* bound: PUT requests authorised
  MaxRuns,        \* bound: run/start requests
  MaxStoreFaults  \* bound: failed system calls, vanished templates and deaths

ASSUME ParamsStoreAssumption ==
  /\ \A s \in Sets : s \notin {"absent", "cut", "toml"}
  /\ MaxTokens \in Nat /\ MaxPuts \in Nat /\ MaxRuns \in Nat /\ MaxStoreFaults \in Nat

Kinds == {"configure", "prepare"}     \* the two phases of the ECC an xcfg is for
Current == <<"current.json", "">>
Tmp == <<"current.json.tmp", "">>
Named(kind, s) == <<kind, s>>         \* <kind>-<id>.xcfg, and <id>.json as kind "id"
Files == (Kinds \cup {"id"}) \X Sets \cup {Current, Tmp}
Contents == Sets \cup {"absent", "cut"}   \* cut: created, not written to its end

VARIABLES
  fs,         \* what each file holds: the set it was made from
  templates,  \* the sets whose template can be read and rendered
  dir,        \* ecc_config_dir is configured
  session,    \* the token in force, or 0
  tokens,     \* tokens handed out so far
  releasing,  \* control/release requests that have been authorised
  waiting,    \* PUTs authorised whose task waits for the run lock
  save,       \* save_params: the set, its step, whether its file is open
  runPhase,   \* Controller.run.phase
  started,    \* of the run: the id taken from current.json, what the ECC loaded
  answered,      \* history: the set of the last PUT answered with 200
  doubt,      \* history: sets since then whose PUT failed after the rename
  cutShort,       \* history: files a failed call or a death left cut
  did         \* puts, runs and faults so far

storeVars == <<fs, templates, dir, session, tokens, releasing, waiting, save, runPhase,
               started, answered, doubt, cutShort, did>>

NoSave == [set |-> "absent", step |-> 0, open |-> FALSE]
NotStarted == [id |-> "absent", prepare |-> "absent", configure |-> "absent", logged |-> "absent"]

ParamsStoreInit ==
  /\ fs = [f \in Files |-> "absent"]
  /\ templates = Sets
  /\ dir \in BOOLEAN
  /\ session = 0 /\ tokens = 0 /\ releasing = {}
  /\ waiting = {} /\ save = NoSave
  /\ runPhase = "Idle" /\ started = NotStarted
  /\ answered = "absent" /\ doubt = {} /\ cutShort = {}
  /\ did = [puts |-> 0, runs |-> 0, faults |-> 0]

(* Controller.run is held for the whole of save_params.                        *)
LockFree == save = NoSave

-----------------------------------------------------------------------------
(* The session                                                                 *)

(* post_acquire, acquire: a new token, whoever held control before.            *)
Acquire ==
  /\ tokens < MaxTokens
  /\ tokens' = tokens + 1 /\ session' = tokens + 1
  /\ UNCHANGED <<fs, templates, dir, releasing, waiting, save, runPhase, started, answered, doubt,
                 cutShort, did>>

(* authorize                                                                   *)
Authorized(token) == session # 0 /\ token = session

(* post_release takes the session lock twice: to authorise and to clear.       *)
ReleaseAuthorized ==
  /\ \E token \in 1 .. tokens :
       /\ Authorized(token) /\ token \notin releasing
       /\ releasing' = releasing \cup {token}
  /\ UNCHANGED <<fs, templates, dir, session, tokens, waiting, save, runPhase, started, answered,
                 doubt, cutShort, did>>

ReleaseClears ==
  /\ \E token \in releasing : releasing' = releasing \ {token}
  /\ session' = 0
  /\ UNCHANGED <<fs, templates, dir, tokens, waiting, save, runPhase, started, answered, doubt,
                 cutShort, did>>

-----------------------------------------------------------------------------
(* PUT /api/params                                                             *)

(* put_params up to its blocking task: authorised, ecc_config_dir, schema.     *)
PutArrives ==
  /\ did.puts < MaxPuts
  /\ \E token \in 1 .. tokens, s \in Sets \ waiting :
       /\ Authorized(token) /\ dir
       /\ waiting' = waiting \cup {s}
  /\ did' = [did EXCEPT !.puts = @ + 1]
  /\ UNCHANGED <<fs, templates, dir, session, tokens, releasing, save, runPhase, started, answered,
                 doubt, cutShort>>

(* The task's lock section: Idle, then render_with_template_dir.               *)
MaySave(s) == LockFree /\ runPhase = "Idle" /\ s \in templates

PutTask ==
  /\ \E s \in waiting :
       /\ LockFree
       /\ waiting' = waiting \ {s}
       /\ save' = IF MaySave(s) THEN [set |-> s, step |-> 1, open |-> FALSE] ELSE NoSave
  /\ UNCHANGED <<fs, templates, dir, session, tokens, releasing, runPhase, started, answered, doubt,
                 cutShort, did>>

(* Mutant: current.json is written before the files it names.                  *)
SaveSteps_CurrentFirst(s) ==
  <<Tmp, Current, Named("configure", s), Named("prepare", s), Named("id", s)>>

(* save_params: the files in the order they are made; Current by renaming Tmp. *)
SaveSteps(s) == <<Named("configure", s), Named("prepare", s), Tmp, Current, Named("id", s)>>

(* `if !path.exists()`: only the files named by the id.                        *)
Keeps(f) == fs[f] # "absent" /\ f \notin {Tmp, Current}

(* The step after this one, or the answer 200.                                 *)
StepDone ==
  IF save.step < Len(SaveSteps(save.set))
  THEN save' = [save EXCEPT !.step = @ + 1, !.open = FALSE] /\ UNCHANGED <<answered, doubt>>
  ELSE save' = NoSave /\ answered' = save.set /\ doubt' = {}

(* fs::write is two calls, the rename is one.                                  *)
SaveCall ==
  /\ ~LockFree
  /\ LET f == SaveSteps(save.set)[save.step] IN
       \/ /\ ~save.open /\ Keeps(f)
          /\ StepDone /\ UNCHANGED fs
       \/ /\ ~save.open /\ ~Keeps(f) /\ f # Current
          /\ fs' = [fs EXCEPT ![f] = "cut"]
          /\ save' = [save EXCEPT !.open = TRUE]
          /\ UNCHANGED <<answered, doubt>>
       \/ /\ save.open
          /\ fs' = [fs EXCEPT ![f] = save.set]
          /\ StepDone
       \/ /\ ~save.open /\ f = Current /\ ~Keeps(f)
          /\ fs' = [fs EXCEPT ![Current] = fs[Tmp], ![Tmp] = "absent"]
          /\ StepDone
  /\ UNCHANGED <<templates, dir, session, tokens, releasing, waiting, runPhase, started, cutShort,
                 did>>

Renamed == \E i \in 1 .. save.step - 1 : SaveSteps(save.set)[i] = Current

(* What a save that ends early leaves: a cut file, and a set in doubt if       *)
(* current.json names it already.                                              *)
Interrupted ==
  /\ cutShort' = cutShort \cup {f \in Files : save.open /\ f = SaveSteps(save.set)[save.step]}
  /\ doubt' = doubt \cup {s \in {save.set} : Renamed}

(* A call fails: the answer is 500, and what was made stays.                   *)
SaveFails ==
  /\ ~LockFree /\ did.faults < MaxStoreFaults
  /\ did' = [did EXCEPT !.faults = @ + 1]
  /\ Interrupted /\ save' = NoSave
  /\ UNCHANGED <<fs, templates, dir, session, tokens, releasing, waiting, runPhase, started,
                 answered>>

-----------------------------------------------------------------------------
(* run/start and run/stop                                                      *)

(* post_run_start takes the phase under the lock.                              *)
TakePhase ==
  /\ did.runs < MaxRuns
  /\ \E token \in 1 .. tokens : Authorized(token)
  /\ LockFree /\ runPhase = "Idle"
  /\ runPhase' = "Starting" /\ started' = NotStarted
  /\ did' = [did EXCEPT !.runs = @ + 1]
  /\ UNCHANGED <<fs, templates, dir, session, tokens, releasing, waiting, save, answered, doubt,
                 cutShort>>

(* run_start_params_snapshot: no current.json, the ids of daq.toml; one that   *)
(* cannot be read or rendered, no run.                                         *)
Snapshot ==
  IF fs[Current] = "absent" THEN "toml"
  ELSE IF dir /\ fs[Current] \in templates THEN fs[Current]
  ELSE "absent"

TakeSnapshot ==
  /\ runPhase = "Starting" /\ started.id = "absent"
  /\ started' = [started EXCEPT !.id = Snapshot]
  /\ runPhase' = IF Snapshot = "absent" THEN "Idle" ELSE runPhase
  /\ UNCHANGED <<fs, templates, dir, session, tokens, releasing, waiting, save, answered, doubt,
                 cutShort, did>>

(* The ECC reads the xcfg of the id it is given; one cut short does not parse. *)
EccReads(kind) ==
  IF started.id = "toml" THEN "toml" ELSE fs[Named(kind, started.id)]

(* prepare, then configure, in Sequencer::start_run; either may fail.          *)
EccLoads(kind) ==
  /\ runPhase = "Starting" /\ started.id # "absent" /\ started[kind] = "absent"
  /\ kind = "configure" => started.prepare # "absent"
  /\ \/ /\ EccReads(kind) \notin {"absent", "cut"}
        /\ started' = [started EXCEPT ![kind] = EccReads(kind)]
        /\ UNCHANGED <<runPhase, did>>
     \/ /\ EccReads(kind) \in {"absent", "cut"}
        /\ runPhase' = "Idle" /\ UNCHANGED <<started, did>>
     \/ /\ did.faults < MaxStoreFaults
        /\ did' = [did EXCEPT !.faults = @ + 1]
        /\ runPhase' = "Idle" /\ UNCHANGED started
  /\ UNCHANGED <<fs, templates, dir, session, tokens, releasing, waiting, save, answered, doubt,
                 cutShort>>

(* run_start is written with the id of the snapshot, and the run runs.         *)
RunIsOn ==
  /\ runPhase = "Starting" /\ started.configure # "absent"
  /\ started' = [started EXCEPT !.logged = started.id]
  /\ runPhase' = "Running"
  /\ UNCHANGED <<fs, templates, dir, session, tokens, releasing, waiting, save, answered, doubt,
                 cutShort, did>>

StopTakes ==
  /\ LockFree /\ \E token \in 1 .. tokens : Authorized(token)
  /\ runPhase = "Running" /\ runPhase' = "Stopping"
  /\ UNCHANGED <<fs, templates, dir, session, tokens, releasing, waiting, save, started, answered,
                 doubt, cutShort, did>>

StopDone ==
  /\ runPhase = "Stopping" /\ runPhase' = "Idle"
  /\ UNCHANGED <<fs, templates, dir, session, tokens, releasing, waiting, save, started, answered,
                 doubt, cutShort, did>>

-----------------------------------------------------------------------------
(* Someone removes a template.                                                 *)
TemplateVanishes ==
  /\ did.faults < MaxStoreFaults
  /\ did' = [did EXCEPT !.faults = @ + 1]
  /\ \E s \in templates : templates' = templates \ {s}
  /\ UNCHANGED <<fs, dir, session, tokens, releasing, waiting, save, runPhase, started, answered,
                 doubt, cutShort>>

(* The controller dies and is started again, perhaps with another daq.toml:    *)
(* the session, the phase and every request are gone, the files stay.          *)
ControllerDies ==
  /\ did.faults < MaxStoreFaults
  /\ did' = [did EXCEPT !.faults = @ + 1]
  /\ IF LockFree THEN UNCHANGED <<cutShort, doubt>> ELSE Interrupted
  /\ session' = 0 /\ releasing' = {} /\ waiting' = {} /\ save' = NoSave
  /\ runPhase' = "Idle" /\ dir' \in BOOLEAN
  /\ UNCHANGED <<fs, templates, tokens, started, answered>>

ParamsStoreNext ==
  \/ Acquire \/ ReleaseAuthorized \/ ReleaseClears
  \/ PutArrives \/ PutTask \/ SaveCall \/ SaveFails
  \/ TakePhase \/ TakeSnapshot \/ (\E kind \in Kinds : EccLoads(kind)) \/ RunIsOn
  \/ StopTakes \/ StopDone
  \/ TemplateVanishes \/ ControllerDies

ParamsStoreSpec == ParamsStoreInit /\ [][ParamsStoreNext]_storeVars

-----------------------------------------------------------------------------
(* Every variable has its type.                                                *)
ParamsStoreTypeOK ==
  /\ fs \in [Files -> Contents]
  /\ templates \subseteq Sets /\ dir \in BOOLEAN
  /\ session \in 0 .. tokens /\ tokens \in 0 .. MaxTokens
  /\ releasing \subseteq 1 .. tokens
  /\ waiting \subseteq Sets
  /\ save \in [set : Sets \cup {"absent"}, step : 0 .. 5, open : BOOLEAN]
  /\ runPhase \in {"Idle", "Starting", "Running", "Stopping"}
  /\ \A k \in DOMAIN started : started[k] \in Sets \cup {"absent", "toml"}
  /\ answered \in Sets \cup {"absent"}
  /\ doubt \subseteq Sets /\ cutShort \subseteq Files

(* At every moment a reader, a new process or the ECC may look, current.json   *)
(* is whole, and the two xcfg files its id names are there and complete,       *)
(* unless the very writing of one was cut short (save_params: xcfg first, then *)
(* the temporary file, then the rename).                                       *)
CurrentUsable ==
  fs[Current] # "absent" =>
    /\ fs[Current] \in Sets
    /\ \A kind \in Kinds :
         LET f == Named(kind, fs[Current])
         IN  fs[f] = fs[Current] \/ (fs[f] = "cut" /\ f \in cutShort)

(* From the snapshot to the end of the run, the set the ECC was prepared and   *)
(* configured with, the one in the logbook and the one in current.json are the *)
(* same, whatever PUTs were under way when the run was started ("次 run から効く *)
(* という半端は作らない", put_params).                                          *)
RunUsesOneSet ==
  runPhase # "Idle" /\ started.id # "absent" =>
    /\ started.id = IF fs[Current] = "absent" THEN "toml" ELSE fs[Current]
    /\ \A k \in DOMAIN started : started[k] \in {started.id, "absent"}

(* current.json holds the set of the last PUT that was answered with 200, or   *)
(* one whose save was interrupted after the rename; a PUT refused or failed    *)
(* before it changes nothing.                                                  *)
AnsweredIsCurrent == LockFree => fs[Current] \in {answered} \cup doubt

(* The set in force is whole, is the one the operator was answered, and is  *)
(* the same from the start of a run to its end (params_api).                *)
StoreSound ==
  /\ ParamsStoreTypeOK /\ CurrentUsable /\ RunUsesOneSet /\ AnsweredIsCurrent
=============================================================================
