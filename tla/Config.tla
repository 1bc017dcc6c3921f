-------------------------------- MODULE Config --------------------------------
(* daq.toml, the one file every process is started with (src/src/config.rs):   *)
(* its defaults, its validation, the parameters each component draws from it   *)
(* (from_config), and what the controller makes of the components' answers     *)
(* when it writes run_start and run_stop (src/src/controller/status.rs,        *)
(* rest.rs).  An address is its port; one value stands for each bound.         *)
EXTENDS Integers, Sequences, FiniteSets, SequencesExt, FiniteSetsExt

CONSTANTS
  CoboIds,      \* ids a [[cobo]] block may have
  MaxCobos,     \* bound: [[cobo]] blocks
  MaxDevices    \* bound: [[slowctl.device]] blocks

ASSUME ConfigAssumption ==
  CoboIds \subseteq Nat /\ MaxCobos \in Nat /\ MaxDevices \in Nat

Unset == -1       \* an Option that is None

-----------------------------------------------------------------------------
(* Ports: where a component listens, and where its peers expect it.            *)
CoboListenBase == 46005
ReceiverCommandBase == 47110
Listen == [graw_pull |-> 47001, graw_command |-> 47100, decoder_pull |-> 47002,
           decoder_command |-> 47101, rest |-> 8080, log_pull |-> 47005, ws |-> 9000,
           slow_pub |-> 47006]
Connect == [graw_pull |-> 47001, graw_command |-> 47100, decoder_pull |-> 47002,
            decoder_command |-> 47101, log_pull |-> 47005]

-----------------------------------------------------------------------------
(* The file as written                                                         *)

(* Bounds that can be set to 0: those of validate_receiver, validate_monitor,  *)
(* validate_controller, validate_slowctl and validate_influx.                  *)
BoundNames == {"batch_max_bytes", "batch_max_ms", "queue_frames", "heartbeat_ms", "hwm",
               "live_queue", "eos_timeout_s", "eos_quiesce_ms",
               "poll_hz", "batch_ms", "buffer_max_points", "timeout_ms"}

DeviceTypes == {"bronkhorst_flowbus", "arduino_env", "hivolta", "hmp2020", "fake"}
SerialTypes == DeviceTypes \ {"hivolta"}

RawCobos == SeqOf([id : CoboIds, listen : {Unset, CoboListenBase}], MaxCobos)
RawCommands == {<<Unset>>} \cup SeqOf({ReceiverCommandBase, ReceiverCommandBase + 1}, MaxCobos)
RawDevices ==
  SeqOf([name : {"a", "b"}, type : {"bronkhorst_flowbus", "hivolta", "no such type"},
         port : BOOLEAN, addr : BOOLEAN, ignore : {"none", "UNV", "OVC"}], MaxDevices)
RawIds == {<<"x">>} \cup [1 .. 3 -> {"x", "y"}]     \* Same, or PerPhase

(* The wiring, the ids or the devices vary, the rest is as in a usual file.    *)
Usual == [cobo |-> <<[id |-> 1, listen |-> Unset]>>, commands |-> <<Unset>>, device |-> << >>,
          zero |-> "none", ids |-> <<"x">>]
Raw == {[Usual EXCEPT !.cobo = c, !.commands = k] : c \in RawCobos, k \in RawCommands}
       \cup {[Usual EXCEPT !.ids = i] : i \in RawIds}
       \cup {[Usual EXCEPT !.device = d, !.zero = z] :
               d \in RawDevices, z \in {"none", "poll_hz"}}
       \cup {[Usual EXCEPT !.zero = z] : z \in BoundNames}

-----------------------------------------------------------------------------
(* receiver_commands: default_receiver_command_endpoint of every CoBo.         *)
Commands(raw) ==
  IF raw.commands # <<Unset>> THEN raw.commands
  ELSE [i \in DOMAIN raw.cobo |-> ReceiverCommandBase + raw.cobo[i].id]

(* From<RawConfigId>: one string stands for the three phases.                  *)
Ids(raw) ==
  [describe |-> Head(raw.ids), prepare |-> raw.ids[Min({2, Len(raw.ids)})],
   configure |-> Last(raw.ids)]

(* resolve                                                                     *)
ConfigOf(raw) ==
  [cobo |-> [i \in DOMAIN raw.cobo |->
               [raw.cobo[i] EXCEPT !.listen = IF @ = Unset THEN CoboListenBase + raw.cobo[i].id
                                              ELSE @]],
   commands |-> Commands(raw),
   device |-> raw.device,
   bound |-> [b \in BoundNames |-> IF b = raw.zero THEN 0 ELSE 1],
   ids |-> Ids(raw)]

-----------------------------------------------------------------------------
(* validate                                                                    *)

(* validate_cobo_ids, validate_cobo_listen_unique                              *)
CobosValid(cfg) ==
  \A i, j \in DOMAIN cfg.cobo :
    i # j => cfg.cobo[i].id # cfg.cobo[j].id /\ cfg.cobo[i].listen # cfg.cobo[j].listen

(* validate_controller                                                         *)
CommandsValid(cfg) == Len(cfg.commands) = Len(cfg.cobo)

(* validate_receiver, validate_monitor, validate_influx and the others.        *)
BoundsValid(cfg) == \A b \in BoundNames : cfg.bound[b] > 0

(* ignore_masks, which validation and open_driver both use.                    *)
IgnoreMasks(d) == d.ignore \in {"none", "UNV", "OVV"}

(* validate_slowctl, of one device.                                            *)
DeviceValid(d) ==
  /\ d.type \in DeviceTypes
  /\ IF d.type = "hivolta" THEN d.addr \/ d.port
     ELSE IF d.type \in SerialTypes THEN d.port ELSE d.addr
  /\ d.type # "hivolta" => d.ignore = "none"
  /\ IgnoreMasks(d)

DevicesValid(cfg) ==
  /\ \A i \in DOMAIN cfg.device : DeviceValid(cfg.device[i])
  /\ \A i, j \in DOMAIN cfg.device : i # j => cfg.device[i].name # cfg.device[j].name

Valid(cfg) == CobosValid(cfg) /\ CommandsValid(cfg) /\ BoundsValid(cfg) /\ DevicesValid(cfg)

-----------------------------------------------------------------------------
(* The processes started with an accepted file                                 *)

(* ControllerParams::from_config: downstream first; zip ends with the shorter. *)
ComponentsOf(cfg) ==
  <<[kind |-> "graw-writer", id |-> Unset, port |-> Connect.graw_command],
    [kind |-> "decoder", id |-> Unset, port |-> Connect.decoder_command]>>
  \o [i \in 1 .. Min({Len(cfg.cobo), Len(cfg.commands)}) |->
        [kind |-> "receiver", id |-> cfg.cobo[i].id, port |-> cfg.commands[i]]]

(* ReceiverParams::from_config                                                 *)
ReceiverCommandListen(id) == ReceiverCommandBase + id

(* What the processes bind: <<process, port>>.                                 *)
Binds(cfg) ==
  {<<k, Listen[k]>> : k \in DOMAIN Listen}
  \cup {<<"data", cfg.cobo[i].listen>> : i \in DOMAIN cfg.cobo}
  \cup {<<"command", ReceiverCommandListen(cfg.cobo[i].id)>> : i \in DOMAIN cfg.cobo}

(* DecoderParams, GrawWriterParams and MonitorParams::from_config              *)
ExpectedSources(cfg) == {cfg.cobo[i].id : i \in DOMAIN cfg.cobo}

(* open_driver: which of the two addresses a driver opens; hivolta prefers TCP.*)
OpenDriver(d) ==
  IF ~IgnoreMasks(d) THEN "error"
  ELSE IF d.type = "hivolta" /\ d.addr THEN "tcp"
  ELSE IF d.type \in DeviceTypes /\ d.port THEN "serial"
  ELSE "error"

-----------------------------------------------------------------------------
(* run_start and run_stop                                                      *)

(* start_run_blocking: a parameter set replaces prepare and configure.         *)
IdsForRun(ids, params) ==
  IF params = "none" THEN ids ELSE [ids EXCEPT !.prepare = params, !.configure = params]

(* ConfigIds::for_action                                                       *)
ForAction(ids, action) == IF action \in DOMAIN ids THEN ids[action] ELSE "none"

(* ConfigIds::same_value                                                       *)
SameValue(ids) == ids.describe = ids.prepare /\ ids.prepare = ids.configure

(* run_start_config_fields                                                     *)
RunStartFields(ids) ==
  [config_id |-> ids.configure,
   config_ids |-> IF SameValue(ids) THEN <<>> ELSE <<ids>>]

(* metric_u64: what a component reported, or nothing (unreachable, no metrics).*)
Reports == {Unset, 0, 1}
OrZero(n) == IF n = Unset THEN 0 ELSE n

(* counters_from, frames: a key for every CoBo, reached or not.                *)
Frames(cfg, report) ==
  LET comps == ComponentsOf(cfg)
      of(id) == {i \in DOMAIN comps : comps[i].kind = "receiver" /\ comps[i].id = id}
  IN  [id \in ExpectedSources(cfg) |->
         IF of(id) = {} THEN 0 ELSE OrZero(report[Max(of(id))])]

(* counters_from, the sums: overflow is never absent, frames_type1 (like the   *)
(* other values only some decoders report) is absent unless one reported it.   *)
Summed(cfg, report, kind) ==
  LET comps == ComponentsOf(cfg)
      of == {i \in DOMAIN comps : comps[i].kind = kind}
      told == {i \in of : report[i] # Unset}
  IN  [zeroed |-> FoldSet(LAMBDA i, n : n + OrZero(report[i]), 0, of),
       optional |-> IF told = {} THEN Unset ELSE FoldSet(LAMBDA i, n : n + report[i], 0, told)]

CountersFrom(cfg, report) ==
  [frames |-> Frames(cfg, report),
   overflow_frames |-> Summed(cfg, report, "receiver").zeroed,
   malformed |-> Summed(cfg, report, "decoder").zeroed,
   frames_type1 |-> Summed(cfg, report, "decoder").optional]

-----------------------------------------------------------------------------
VARIABLES
  toml,     \* the file
  stage,    \* written, refused, up, running, stopped
  runIds,   \* the ids the run gives the ECC
  fields,   \* config_id and config_ids of run_start
  report,   \* the number each component reports at the stop
  stopped   \* the counters of run_stop

cfgVars == <<toml, stage, runIds, fields, report, stopped>>

ConfigInit ==
  /\ toml \in Raw /\ stage = "written"
  /\ runIds = << >> /\ fields = << >> /\ report = << >> /\ stopped = << >>

(* parse, load                                                                 *)
Parse ==
  /\ stage = "written"
  /\ stage' = IF Valid(ConfigOf(toml)) THEN "up" ELSE "refused"
  /\ UNCHANGED <<toml, runIds, fields, report, stopped>>

StartsRun ==
  /\ stage = "up"
  /\ \E params \in {"none", "x", "p"} :
       \E ids \in {IdsForRun(Ids(toml), params)} :
         runIds' = <<ids>> /\ fields' = <<RunStartFields(ids)>>
  /\ stage' = "running"
  /\ UNCHANGED <<toml, report, stopped>>

(* collect_status asks every component; the answers come in its order.         *)
StopsRun ==
  /\ stage = "running"
  /\ \E cfg \in {ConfigOf(toml)} : \E r \in [DOMAIN ComponentsOf(cfg) -> Reports] :
       report' = r /\ stopped' = <<CountersFrom(cfg, r)>>
  /\ stage' = "stopped"
  /\ UNCHANGED <<toml, runIds, fields>>

ConfigNext == Parse \/ StartsRun \/ StopsRun

-----------------------------------------------------------------------------
(* An accepted file can be run with: every device of it opens, by the address  *)
(* its driver wants; no queue, period or limit of it is zero; and the          *)
(* controller has exactly one receiver for every CoBo whose end of stream the  *)
(* writer and the decoder wait for (validate_* against from_config and         *)
(* open_driver).                                                               *)
AcceptedCanRun ==
  stage \notin {"written", "refused"} =>
    LET cfg == ConfigOf(toml)
        comps == ComponentsOf(cfg)
    IN  /\ \A i \in DOMAIN cfg.device : OpenDriver(cfg.device[i]) # "error"
        /\ \A b \in BoundNames : cfg.bound[b] # 0
        /\ \A id \in ExpectedSources(cfg) :
             Cardinality({i \in DOMAIN comps : comps[i].kind = "receiver" /\ comps[i].id = id}) = 1

(* Left at their defaults, the two ends of every command and data link meet:   *)
(* the controller commands receiver k at the port receiver k binds, and no two *)
(* sockets of the machine bind the same port.                                  *)
DefaultsMeet ==
  stage \notin {"written", "refused"} /\ toml.commands = <<Unset>> =>
    LET cfg == ConfigOf(toml)
        bound == Binds(cfg)
    IN  /\ \A c \in ToSet(ComponentsOf(cfg)) :
             c.kind = "receiver" => c.port = ReceiverCommandListen(c.id)
        /\ \A k \in DOMAIN Connect : Connect[k] = Listen[k]
        /\ \A a, b \in bound : a # b => a[2] # b[2]

(* From run_start alone one can tell which configuration the ECC was given in  *)
(* each phase, whether the ids come from daq.toml or from a parameter set      *)
(* (run_start_config_fields: "省略 ≠ 空値").                                    *)
RecordTellsIds ==
  stage \in {"running", "stopped"} =>
    \A phase \in {"describe", "prepare", "configure"} :
      ForAction(runIds[1], phase) =
        IF fields[1].config_ids = << >> THEN fields[1].config_id
        ELSE fields[1].config_ids[1][phase]

(* run_stop names every CoBo, gives each the number its own receiver reported, *)
(* 0 if it could not be asked, and leaves out (rather than zeroes) what no     *)
(* decoder reported (counters_from).                                           *)
StopCountersRight ==
  stage = "stopped" =>
    LET cfg == ConfigOf(toml)
        comps == ComponentsOf(cfg)
        dec == report[2]
    IN  /\ DOMAIN stopped[1].frames = {c.id : c \in ToSet(toml.cobo)}
        /\ \A i \in DOMAIN comps : comps[i].kind = "receiver" =>
             stopped[1].frames[comps[i].id] = OrZero(report[i])
        /\ stopped[1].overflow_frames =
             Cardinality({i \in DOMAIN comps : comps[i].kind = "receiver" /\ report[i] = 1})
        /\ stopped[1].frames_type1 = dec /\ stopped[1].malformed = OrZero(dec)

(* A daq.toml that is accepted is one the components meet on, and what a    *)
(* run records of them is theirs (validate, run_start, run_stop).           *)
ConfigSound == AcceptedCanRun /\ DefaultsMeet /\ RecordTellsIds /\ StopCountersRight
=============================================================================
