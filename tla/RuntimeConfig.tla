----------------------------- MODULE RuntimeConfig -----------------------------
(***************************************************************************)
(* How a setting takes effect (util/config.c, util/runtime_config.c,       *)
(* util/systemd.c, plugins/collectd, plugins/swupdate.c).  ticosctl reads  *)
(* runtime.conf, changes one key, rewrites the whole file in place and     *)
(* asks systemd to restart ticosd.  ticosd reads the settings once, at its *)
(* start; its plugins then write the configurations of swupdate and        *)
(* collectd and ask systemd to restart these.  Several ticosctl may run at *)
(* once, each process may die between any two steps, and the disk or the   *)
(* bus may fail.                                                           *)
(***************************************************************************)
EXTENDS Naturals

CONSTANTS
  Clients,        \* processes of ticosctl, or ticosd with an option that sets
  ConfValues,     \* what ticosd.conf may say about the keys
  MaxCommands,    \* bound on the commands given
  MaxCrashes      \* bound on the crashes of ticosd

ASSUME ConfAssumption == ConfValues \subseteq {"unset", "on", "off", "other"}
ASSUME BoundsAssumption == MaxCommands \in Nat /\ MaxCrashes \in Nat

Keys == {"enable_data_collection", "enable_dev_mode"}
Includes == {"header", "footer"}         \* the include files of collectd
Settings == [Keys -> {"unset", "on", "off"}]
NoSettings == [k \in Keys |-> "unset"]
Torn == [k \in Keys |-> "torn"]          \* a file that cannot be parsed
NoPromise == [k \in Keys |-> "any"]
Idle == [pc |-> "idle"]
\* botched: an include file could not be written, which the code does not see.
NoLocal == [which |-> "header", did_clear |-> FALSE, botched |-> FALSE]

VARIABLES
  base,                  \* handle->base: builtin.conf merged with ticosd.conf
  file,                  \* runtime.conf
  ctl, commands,         \* the processes that change settings
  pc, runtime, was_enabled,    \* ticosd
  local,                 \* the variables of prv_reload and what it calls
  job,                   \* systemd is to start ticosd anew
  includes,              \* the include files of collectd
  phase, cjob, sending,  \* collectd: as systemd sees it, and what it read
  split,                 \* swupdate was restarted and its socket is still to be
  \* history: what a user may take to be set; a change that nobody told ticosd
  \* about; collectd may not know what it should
  agreed, stale, adrift, crashes

ctlVars == <<file, ctl, commands, agreed>>
daemonVars == <<pc, runtime, was_enabled, local>>
collectdVars == <<phase, cjob, sending>>
vars == <<base, ctlVars, daemonVars, job, includes, collectdVars, split, stale, adrift,
          crashes>>

\* The values of builtin.conf.
builtin_conf == [k \in Keys |-> "off"]

\* ticosd.conf is laid over builtin.conf.
prv_config_merge_objects(a, b) == [k \in Keys |-> IF b[k] # "unset" THEN b[k] ELSE a[k]]

\* Mutated form: settings made earlier are not read back.
ParseRuntime_Forgotten(f) == NoSettings

\* Mutated form: whatever the parser returns is used.
ParseRuntime_Unchecked(f) == f

\* handle->runtime of ticosd_config_init.  A file that is missing or cannot be
\* parsed has no settings.
ParseRuntime(f) == IF f = Torn THEN NoSettings ELSE f

\* Whether a tree has the key.
prv_config_find_object(tree, k) == tree[k] # "unset"

\* Mutated form: the base configuration is looked at first.
ticosd_config_get_boolean_BaseFirst(rt, k) ==
  IF prv_config_find_object(base, k) THEN base[k] ELSE rt[k]

\* The runtime configuration comes first.  "other" is an object of another
\* type, for which the function fails.
ticosd_config_get_boolean(rt, k) ==
  IF prv_config_find_object(rt, k) THEN rt[k] ELSE base[k]

\* A key is set in the copy of one process, the other keys stay.
prv_config_set_object(rt, k, v) == [rt EXCEPT ![k] = v]

Init ==
  /\ \E v \in ConfValues : base = prv_config_merge_objects(builtin_conf, [k \in Keys |-> v])
  /\ file = NoSettings               \* a new device has none
  /\ ctl = [c \in Clients |-> Idle] /\ commands = 0
  /\ pc = "down" /\ runtime = NoSettings /\ was_enabled = FALSE
  /\ local = NoLocal
  /\ job = TRUE                    \* systemd starts it at boot
  /\ includes = [f \in Includes |-> "missing"]
  /\ phase = "inactive" /\ cjob = FALSE /\ sending = FALSE
  /\ split = FALSE
  /\ agreed = NoPromise
  /\ stale = FALSE /\ adrift = FALSE /\ crashes = 0

-----------------------------------------------------------------------------
(* ticosctl: ticos_set_runtime_bool_and_reload *)

Busy == {c \in Clients : ctl[c] # Idle}
CtlStep == UNCHANGED <<base, daemonVars, includes, collectdVars, split, adrift, crashes>>

\* The key has the value already: nothing is written.
AlreadySet(c, k, v) ==
  /\ ctl[c] = Idle /\ commands < MaxCommands
  /\ ticosd_config_get_boolean(ParseRuntime(file), k) = v
  /\ commands' = commands + 1
  /\ agreed' = IF Busy = {} THEN [agreed EXCEPT ![k] = v] ELSE agreed
  /\ CtlStep /\ UNCHANGED <<file, ctl, job, stale>>

\* ticosd_config_init reads the file, ticosd_config_set_boolean changes the
\* copy.  alone: nobody else is between these two and the end.
SetBoolean(c, k, v) ==
  /\ ctl[c] = Idle /\ commands < MaxCommands
  /\ ticosd_config_get_boolean(ParseRuntime(file), k) # v
  /\ commands' = commands + 1
  /\ ctl' = [d \in Clients |->
       IF d = c
       THEN [pc |-> "open", key |-> k, alone |-> Busy = {},
             runtime |-> prv_config_set_object(ParseRuntime(file), k, v)]
       ELSE IF d \in Busy THEN [ctl[d] EXCEPT !.alone = FALSE] ELSE ctl[d]]
  /\ CtlStep /\ UNCHANGED <<file, agreed, job, stale>>

\* prv_config_write_config: opening the file empties it, or fails.
OpenFile(c) ==
  /\ ctl[c] # Idle /\ ctl[c].pc = "open"
  /\ \/ file' = Torn /\ ctl' = [ctl EXCEPT ![c].pc = "write"]
     \/ ctl' = [ctl EXCEPT ![c].pc = "restart"] /\ UNCHANGED file
  /\ CtlStep /\ UNCHANGED <<commands, agreed, job, stale>>

\* All of the copy is written, or the disk is full.  A failure is not noticed
\* by the caller.
WriteFile(c) ==
  /\ ctl[c] # Idle /\ ctl[c].pc = "write"
  /\ ctl' = [ctl EXCEPT ![c].pc = "restart"]
  /\ \/ /\ file' = ctl[c].runtime
        /\ agreed' = IF ctl[c].alone
                     THEN [agreed EXCEPT ![ctl[c].key] = ctl[c].runtime[ctl[c].key]]
                     ELSE NoPromise
     \/ file' = Torn /\ agreed' = NoPromise
  /\ CtlStep /\ UNCHANGED <<commands, job, stale>>

\* Mutated form: a ticosd that is "activating" is left alone.
RestartTicosd_OnlyActive(c) ==
  /\ ctl[c] # Idle /\ ctl[c].pc = "restart"
  /\ ctl' = [ctl EXCEPT ![c] = Idle]
  /\ \/ job' = (job \/ pc \in {"up", "metrics"}) /\ UNCHANGED stale
     \/ stale' = TRUE /\ UNCHANGED job
  /\ CtlStep /\ UNCHANGED <<file, commands, agreed>>

\* ticosd_restart_service_if_running("ticosd.service"): a ticosd that is not
\* running is not started.  A user who is not root does not ask for it, and
\* the call may fail.
RestartTicosd(c) ==
  /\ ctl[c] # Idle /\ ctl[c].pc = "restart"
  /\ ctl' = [ctl EXCEPT ![c] = Idle]
  /\ \/ job' = (job \/ pc # "down") /\ UNCHANGED stale
     \/ stale' = TRUE /\ UNCHANGED job
  /\ CtlStep /\ UNCHANGED <<file, commands, agreed>>

\* The process is killed.
CtlDies(c) ==
  /\ ctl[c] # Idle
  /\ ctl' = [ctl EXCEPT ![c] = Idle]
  /\ stale' = (stale \/ ctl[c].pc # "open")
  /\ agreed' = IF ctl[c].pc = "write" THEN NoPromise ELSE agreed
  /\ CtlStep /\ UNCHANGED <<file, commands, job>>

-----------------------------------------------------------------------------
(* ticosd: it reads the settings, then loads its plugins *)

DaemonStep == UNCHANGED <<base, ctlVars, runtime, crashes>>

\* ticosd_main: ticosd_config_init.  systemd starts it, or somebody does by hand.
ticosd_config_init ==
  LET rt == ParseRuntime(file)
  IN  /\ pc = "down"
      /\ pc' = "swupdate"
      /\ runtime' = rt
      /\ was_enabled' = (ticosd_config_get_boolean(rt, "enable_data_collection") = "on")
      /\ job' = FALSE /\ stale' = FALSE
      /\ UNCHANGED <<base, local, ctlVars, includes, collectdVars, split, adrift, crashes>>

\* ticosd_collectd_init comes next; prv_reload branches on the setting.
CollectdPlugin == IF was_enabled THEN "open" ELSE "clear"

\* Whether the configuration of swupdate gets written: adding one of its
\* sections, or writing the file, may fail.
prv_swupdate_generate_config == BOOLEAN

\* prv_swupdate_reload: the configuration is generated and the service
\* restarted; or one of the two fails, or the service is not running, and
\* the rest of the reload is skipped.
SwupdateService ==
  \E generated \in prv_swupdate_generate_config, restarted \in BOOLEAN :
    /\ pc = "swupdate"
    /\ split' = (generated /\ restarted)
    /\ pc' = IF generated /\ restarted THEN "socket" ELSE CollectdPlugin
    /\ DaemonStep
    /\ UNCHANGED <<was_enabled, local, job, includes, collectdVars, stale, adrift>>

\* ... then the socket is, or cannot be: the one place that restarts it.
SwupdateSocket ==
  /\ pc = "socket"
  /\ pc' = CollectdPlugin
  /\ split' = FALSE
  /\ DaemonStep
  /\ UNCHANGED <<was_enabled, local, job, includes, collectdVars, stale, adrift>>

\* The second include file follows the first.
Second == [local EXCEPT !.which = "footer"]

ReloadStep ==
  DaemonStep /\ UNCHANGED <<was_enabled, job, collectdVars, split, stale>>

\* Data collection is enabled: fopen of an include file empties it, or fails
\* and the reload with it.
OpenInclude ==
  /\ pc = "open"
  /\ \/ /\ pc' = "print" /\ includes' = [includes EXCEPT ![local.which] = "empty"]
        /\ UNCHANGED <<local, adrift>>
     \/ /\ pc' = "up" /\ local' = NoLocal
        /\ adrift' = TRUE /\ UNCHANGED includes
  /\ ReloadStep

\* prv_generate_header_include, prv_generate_footer_include: the file is
\* written, or lost in fclose, which is not checked; or the function fails,
\* with part of it written.  After both files collectd is restarted.
PrintInclude ==
  LET full == [includes EXCEPT ![local.which] = "full"]
  IN  /\ pc = "print"
      /\ \/ /\ \/ includes' = full /\ local' = Second
               \/ local' = [Second EXCEPT !.botched = TRUE] /\ UNCHANGED includes
            /\ pc' = IF local.which = "header" THEN "open" ELSE "restart"
            /\ UNCHANGED adrift
         \/ /\ includes' \in {includes, full}
            /\ pc' = "up" /\ local' = NoLocal
            /\ adrift' = TRUE
      /\ ReloadStep

\* prv_clear_config_files_if_not_already_cleared, one file: whether it had to
\* be cleared, and that it could not be, which goes unnoticed.
Cleared(failed) ==
  [Second EXCEPT !.did_clear = @ \/ includes[local.which] = "full", !.botched = @ \/ failed]

\* Mutated form: collectd is restarted only if it was enabled before.
ClearInclude_NoNeed ==
  LET last == local.which = "footer"
  IN  /\ pc = "clear"
      /\ includes' = [includes EXCEPT ![local.which] = "empty"]
      /\ pc' = IF ~last THEN "clear" ELSE IF was_enabled THEN "restart" ELSE "up"
      /\ local' = IF last THEN NoLocal ELSE Cleared(FALSE)
      /\ ReloadStep /\ UNCHANGED adrift

\* Data collection is disabled: a file is emptied, or created empty, unless it
\* is empty already.  After both collectd is restarted if that is needed.
ClearInclude ==
  \E failed \in BOOLEAN :
    LET last == local.which = "footer"
        restart == was_enabled \/ Cleared(failed).did_clear
    IN  /\ pc = "clear"
        /\ failed => includes[local.which] # "empty"
        /\ includes' = IF failed THEN includes ELSE [includes EXCEPT ![local.which] = "empty"]
        /\ pc' = IF ~last THEN "clear" ELSE IF restart THEN "restart" ELSE "up"
        /\ local' = IF last /\ ~restart THEN NoLocal ELSE Cleared(failed)
        /\ adrift' = (adrift \/ failed)
        /\ ReloadStep

Active == phase \in {"starting", "running"}

\* ticosd_restart_service_if_running("collectd.service").  A collectd that is
\* not active, or just being stopped, will read the files when it starts.
RestartCollectd ==
  /\ pc = "restart"
  /\ pc' = "up" /\ local' = NoLocal
  /\ \/ cjob' = (cjob \/ Active) /\ adrift' = local.botched
     \/ adrift' = TRUE /\ UNCHANGED cjob       \* the call fails
  /\ DaemonStep
  /\ UNCHANGED <<was_enabled, job, includes, phase, sending, split, stale>>

\* prv_request_metrics, asked for by a datagram: restart collectd if it is
\* running, wait a second ...
prv_request_metrics ==
  /\ pc = "up" /\ was_enabled /\ Active
  /\ pc' = "metrics" /\ cjob' = TRUE
  /\ DaemonStep
  /\ UNCHANGED <<was_enabled, local, job, includes, phase, sending, split, stale, adrift>>

\* ... and send it SIGUSR1, which ends a collectd that has no handler yet.
FlushMetrics ==
  /\ pc = "metrics"
  /\ pc' = "up"
  /\ phase' \in {phase} \cup (IF phase = "starting" THEN {"inactive"} ELSE {})
  /\ DaemonStep
  /\ UNCHANGED <<was_enabled, local, job, includes, cjob, sending, split, stale, adrift>>

\* The process of ticosd is gone, and its memory with it.
TicosdEnds ==
  /\ pc' = "down" /\ runtime' = NoSettings /\ was_enabled' = FALSE /\ local' = NoLocal
  /\ UNCHANGED <<base, ctlVars, includes, collectdVars, split, stale>>

\* systemd stops ticosd to start it again, or somebody stops it.  SIGTERM
\* lets it finish its start and its IPC handler.
StopTicosd ==
  /\ pc = "up"
  /\ TicosdEnds
  /\ UNCHANGED <<job, adrift, crashes>>

\* collectd sends, but nothing in the include files shows that to a ticosd that
\* finds data collection disabled: it will see no need to restart collectd.
Unmarked == sending /\ ~cjob /\ \A f \in Includes : includes[f] # "full"

\* ticosd dies; its unit says Restart=on-failure.  The dangerous place is
\* between emptying the files of collectd and restarting it.
Crash ==
  /\ pc # "down" /\ crashes < MaxCrashes
  /\ TicosdEnds
  /\ job' = TRUE
  /\ crashes' = crashes + 1
  /\ adrift' = (adrift \/ Unmarked)

-----------------------------------------------------------------------------
(* collectd, as systemd runs it *)

CollectdStep == UNCHANGED <<base, ctlVars, daemonVars, job, includes, split, stale, adrift, crashes>>

\* A restart job stops it, or it ends by itself.
CollectdStop ==
  /\ Active
  /\ phase' = IF cjob THEN "deactivating" ELSE "inactive"
  /\ sending' = FALSE
  /\ CollectdStep /\ UNCHANGED cjob

CollectdStart ==
  /\ phase \in {"inactive", "deactivating"}
  /\ phase' = "starting" /\ cjob' = FALSE
  /\ CollectdStep /\ UNCHANGED sending

\* It reads its configuration, which includes the files.
CollectdRead ==
  /\ phase = "starting"
  /\ phase' = "running"
  /\ sending' = (includes["footer"] = "full")
  /\ CollectdStep /\ UNCHANGED cjob

-----------------------------------------------------------------------------
Client(c) ==
  \/ \E k \in Keys, v \in {"on", "off"} :
       AlreadySet(c, k, v) \/ SetBoolean(c, k, v)
  \/ OpenFile(c) \/ WriteFile(c) \/ RestartTicosd(c) \/ CtlDies(c)

Ticosd ==
  \/ ticosd_config_init \/ SwupdateService \/ SwupdateSocket
  \/ OpenInclude \/ PrintInclude \/ ClearInclude \/ RestartCollectd
  \/ prv_request_metrics \/ FlushMetrics
  \/ StopTicosd \/ Crash

Next ==
  \/ \E c \in Clients : Client(c)
  \/ Ticosd
  \/ CollectdStop \/ CollectdStart \/ CollectdRead

Spec == Init /\ [][Next]_vars

-----------------------------------------------------------------------------
Running ==
  {r \in [pc : {"open", "write", "restart"}, key : Keys, alone : BOOLEAN, runtime : Settings] :
     r.runtime[r.key] # "unset"}

\* The types of the variables; nobody takes a torn file for settings.
TypeOK ==
  /\ base \in [Keys -> {"on", "off", "other"}]
  /\ file \in Settings \cup {Torn}
  /\ ctl \in [Clients -> {Idle} \cup Running]
  /\ commands \in 0 .. MaxCommands /\ crashes \in 0 .. MaxCrashes
  /\ pc \in {"down", "swupdate", "socket", "open", "print", "clear", "restart", "up", "metrics"}
  /\ runtime \in Settings
  /\ local \in [which : Includes, did_clear : BOOLEAN, botched : BOOLEAN]
  /\ includes \in [Includes -> {"missing", "empty", "full"}]
  /\ phase \in {"inactive", "starting", "running", "deactivating"}
  /\ agreed \in [Keys -> {"any", "on", "off"}]
  /\ was_enabled \in BOOLEAN /\ job \in BOOLEAN /\ cjob \in BOOLEAN /\ sending \in BOOLEAN
  /\ split \in BOOLEAN /\ stale \in BOOLEAN /\ adrift \in BOOLEAN

\* A setting that a user made stays, whatever other keys are changed and
\* however often ticosd restarts or crashes: only processes that overlap, one
\* that dies while it rewrites the file, or a full disk can lose one
\* (ticosd_config_set_boolean writes the whole file from a copy).
SettingsKept ==
  (\A c \in Busy : ctl[c].pc # "write") =>
    \A k \in Keys : agreed[k] # "any" =>
      agreed[k] = IF file[k] \in {"on", "off"} THEN file[k] ELSE base[k]

\* A running ticosd has the settings that are in the file, unless a process
\* is still at work, a restart is under way, or the last one could not ask for
\* it: also if ticosd was stopped, starting or crashing when the file changed
\* (ticosd_restart_service_if_running looks before it asks).
TicosdInStep ==
  Busy = {} /\ pc = "up" /\ ~job /\ ~stale =>
    runtime = IF file = Torn THEN NoSettings ELSE file

\* collectd sends data exactly if ticosd has data collection enabled,
\* unless collectd is about to restart, the files could not be written, or
\* ticosd failed to ask for a restart or died when it had emptied the files
\* and collectd still sent (prv_reload).
CollectdInStep ==
  pc = "up" /\ phase = "running" /\ ~cjob /\ ~adrift => sending = was_enabled

\* From one end to the other: data collection that a user disabled is off in
\* ticosd and collectd once all is quiet (ticosctl disable-data-collection).
DisabledIsSilent ==
  /\ agreed["enable_data_collection"] = "off"
  /\ Busy = {} /\ pc = "up" /\ ~job /\ ~cjob /\ ~stale /\ ~adrift
  => ~was_enabled /\ ~sending
=============================================================================
