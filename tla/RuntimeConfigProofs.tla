------------------------- MODULE RuntimeConfigProofs -------------------------
(***************************************************************************)
(* The promises of RuntimeConfig for any number of processes that set,     *)
(* commands and crashes: types; a running ticosd has the settings of the   *)
(* file (InStepInv); settings stay in the file, since a process that       *)
(* rewrites it alone has a copy that agrees with it (AloneInv); collectd   *)
(* follows, since as long as it sends and no restart is due a file shows   *)
(* it to the next reload (SendInv).                                        *)
(***************************************************************************)
EXTENDS RuntimeConfig, TLAPS

Restarting(c) == ctl[c] # Idle /\ ctl[c].pc # "open"

\* Why TicosdInStep holds: whoever touches the file stays busy until it has
\* asked for a restart, and a ticosd that was asked to restart reads the file
\* again before it is up.
InStepInv ==
  pc # "down" /\ ~job /\ ~stale /\ (\A c \in Clients : ~Restarting(c)) =>
    runtime = ParseRuntime(file)

\* What a parsed file gives is settings (ticosd_config_init).
LEMMA ParsedIsSettings ==
  ASSUME TypeOK PROVE ParseRuntime(file) \in Settings
  BY DEF TypeOK, ParseRuntime, Settings, NoSettings, Torn, Keys

\* The types hold at boot.
LEMMA InitTypeOK == Init => TypeOK
<1> SUFFICES ASSUME Init PROVE TypeOK
  OBVIOUS
<1>1. base \in [Keys -> {"on", "off", "other"}]
  <2>1. PICK v \in ConfValues : base = prv_config_merge_objects(builtin_conf, [k \in Keys |-> v])
    BY DEF Init
  <2> QED
    BY <2>1, ConfAssumption DEF prv_config_merge_objects, builtin_conf, Keys
<1>2. agreed \in [Keys -> {"any", "on", "off"}]
  BY DEF Init, NoPromise
<1>3. file \in Settings \cup {Torn} /\ runtime \in Settings
  BY DEF Init, NoSettings, Settings
<1>4. local \in [which : Includes, did_clear : BOOLEAN, botched : BOOLEAN]
  BY DEF Init, NoLocal, Includes
<1>5. commands \in 0 .. MaxCommands /\ crashes \in 0 .. MaxCrashes
  BY BoundsAssumption DEF Init
<1> QED
  BY <1>1, <1>2, <1>3, <1>4, <1>5 DEF Init, TypeOK, Includes

\* The processes that set a value keep the types.
LEMMA ClientTypeOK ==
  ASSUME TypeOK, NEW c \in Clients, Client(c)
  PROVE  TypeOK'
<1>1. ASSUME NEW k \in Keys, NEW v \in {"on", "off"}, AlreadySet(c, k, v)
      PROVE  TypeOK'
  <2>1. agreed' \in [Keys -> {"any", "on", "off"}]
    BY <1>1 DEF AlreadySet, TypeOK
  <2>2. commands' \in 0 .. MaxCommands
    BY <1>1, BoundsAssumption DEF AlreadySet, TypeOK
  <2> QED
    BY <1>1, <2>1, <2>2 DEF AlreadySet, TypeOK, CtlStep, daemonVars, collectdVars
<1>2. ASSUME NEW k \in Keys, NEW v \in {"on", "off"}, SetBoolean(c, k, v)
      PROVE  TypeOK'
  <2>1. commands' \in 0 .. MaxCommands
    BY <1>2, BoundsAssumption DEF SetBoolean, TypeOK
  <2>2. [ParseRuntime(file) EXCEPT ![k] = v] \in Settings
    BY <1>2, ParsedIsSettings DEF Settings
  <2>3. [pc |-> "open", key |-> k, alone |-> Busy = {},
         runtime |-> prv_config_set_object(ParseRuntime(file), k, v)] \in Running
    BY <1>2, <2>2, ParsedIsSettings DEF Running, Settings, prv_config_set_object
  <2>4. \A d \in Busy : [ctl[d] EXCEPT !.alone = FALSE] \in Running
    <3> SUFFICES ASSUME NEW d \in Busy PROVE [ctl[d] EXCEPT !.alone = FALSE] \in Running
      OBVIOUS
    <3>1. ctl[d] \in Running
      BY DEF Busy, TypeOK
    <3> QED
      BY <3>1 DEF Running
  <2>5. ctl' \in [Clients -> {Idle} \cup Running]
    BY <1>2, <2>3, <2>4 DEF SetBoolean, TypeOK, Busy
  <2> QED
    BY <1>2, <2>1, <2>5 DEF SetBoolean, TypeOK, CtlStep, daemonVars, collectdVars
<1>3. ASSUME ctl[c] # Idle, NEW p \in {"open", "write", "restart"}
      PROVE  [ctl EXCEPT ![c].pc = p] \in [Clients -> {Idle} \cup Running]
  <2>1. ctl[c] \in Running
    BY <1>3 DEF TypeOK
  <2>2. [ctl[c] EXCEPT !.pc = p] \in Running
    BY <2>1 DEF Running
  <2> QED
    BY <2>2 DEF TypeOK
<1>4. CASE OpenFile(c)
  BY <1>3, <1>4 DEF OpenFile, TypeOK, CtlStep, daemonVars, collectdVars
<1>5. CASE WriteFile(c)
  <2>1. ctl[c] \in Running
    BY <1>5 DEF WriteFile, TypeOK
  <2>2. file' \in Settings \cup {Torn}
    BY <1>5, <2>1 DEF WriteFile, Running
  <2>3. agreed' \in [Keys -> {"any", "on", "off"}]
    <3>1. CASE file' = Torn /\ agreed' = NoPromise
      BY <3>1 DEF NoPromise
    <3>2. CASE ~ctl[c].alone /\ agreed' = NoPromise
      BY <3>2 DEF NoPromise
    <3>3. CASE /\ file' = ctl[c].runtime
               /\ agreed' = [agreed EXCEPT ![ctl[c].key] = ctl[c].runtime[ctl[c].key]]
      BY <3>3, <2>1 DEF TypeOK, Running, Settings
    <3> QED
      BY <1>5, <3>1, <3>2, <3>3 DEF WriteFile
  <2>4. ctl' \in [Clients -> {Idle} \cup Running]
    BY <1>3, <1>5 DEF WriteFile
  <2> QED
    BY <1>5, <2>2, <2>3, <2>4 DEF WriteFile, TypeOK, CtlStep, daemonVars, collectdVars
<1>6. CASE RestartTicosd(c)
  <2>1. job' \in BOOLEAN /\ stale' \in BOOLEAN
    BY <1>6 DEF RestartTicosd, TypeOK
  <2>2. ctl' \in [Clients -> {Idle} \cup Running]
    BY <1>6 DEF RestartTicosd, TypeOK
  <2> QED
    BY <1>6, <2>1, <2>2 DEF RestartTicosd, TypeOK, CtlStep, daemonVars, collectdVars
<1>7. CASE CtlDies(c)
  <2>1. agreed' \in [Keys -> {"any", "on", "off"}]
    BY <1>7 DEF CtlDies, TypeOK, NoPromise
  <2> QED
    BY <1>7, <2>1 DEF CtlDies, TypeOK, CtlStep, daemonVars, collectdVars
<1> QED
  BY <1>1, <1>2, <1>4, <1>5, <1>6, <1>7 DEF Client

\* ticosd and collectd keep the types.
LEMMA ServiceTypeOK ==
  ASSUME TypeOK, Ticosd \/ CollectdStop \/ CollectdStart \/ CollectdRead
  PROVE  TypeOK'
<1> USE DEF daemonVars, collectdVars, ctlVars, DaemonStep
<1>1. NoLocal \in [which : Includes, did_clear : BOOLEAN, botched : BOOLEAN]
  BY DEF NoLocal, Includes
<1>2. \A x \in {"empty", "full"} :
        [includes EXCEPT ![local.which] = x] \in [Includes -> {"missing", "empty", "full"}]
  BY DEF TypeOK
<1>3. /\ Second \in [which : Includes, did_clear : BOOLEAN, botched : BOOLEAN]
      /\ [Second EXCEPT !.botched = TRUE] \in [which : Includes, did_clear : BOOLEAN, botched : BOOLEAN]
  BY DEF Second, TypeOK, Includes
<1>4. \A failed \in BOOLEAN :
        Cleared(failed) \in [which : Includes, did_clear : BOOLEAN, botched : BOOLEAN]
  BY <1>3 DEF Cleared
<1>5. NoSettings \in Settings
  BY DEF NoSettings, Settings
<1>6. CASE ticosd_config_init
  BY <1>6, ParsedIsSettings DEF ticosd_config_init, TypeOK
<1>7. CASE SwupdateService
  <2>1. split' \in BOOLEAN /\ pc' \in {"socket", "open", "clear"}
    BY <1>7 DEF SwupdateService, CollectdPlugin
  <2> QED
    BY <1>7, <2>1 DEF SwupdateService, TypeOK
<1>8. CASE SwupdateSocket
  BY <1>8 DEF SwupdateSocket, CollectdPlugin, TypeOK
<1>9. CASE OpenInclude
  BY <1>1, <1>2, <1>9 DEF OpenInclude, ReloadStep, TypeOK
<1>10. CASE PrintInclude
  <2>1. includes' \in [Includes -> {"missing", "empty", "full"}]
    BY <1>2, <1>10 DEF PrintInclude, TypeOK
  <2>2. local' \in [which : Includes, did_clear : BOOLEAN, botched : BOOLEAN]
    BY <1>1, <1>3, <1>10 DEF PrintInclude
  <2>3. adrift' \in BOOLEAN /\ pc' \in {"open", "restart", "up"}
    BY <1>10 DEF PrintInclude, TypeOK
  <2> QED
    BY <1>10, <2>1, <2>2, <2>3 DEF PrintInclude, ReloadStep, TypeOK
<1>11. CASE ClearInclude
  <2>1. includes' \in [Includes -> {"missing", "empty", "full"}]
    BY <1>2, <1>11 DEF ClearInclude, TypeOK
  <2>2. local' \in [which : Includes, did_clear : BOOLEAN, botched : BOOLEAN]
    BY <1>1, <1>4, <1>11 DEF ClearInclude
  <2>3. adrift' \in BOOLEAN /\ pc' \in {"clear", "restart", "up"}
    BY <1>11 DEF ClearInclude, TypeOK
  <2>4. ReloadStep
    BY <1>11 DEF ClearInclude
  <2> QED
    BY <2>1, <2>2, <2>3, <2>4 DEF ReloadStep, TypeOK
<1>12. CASE RestartCollectd
  <2>1. adrift' \in BOOLEAN /\ cjob' \in BOOLEAN
    BY <1>12 DEF RestartCollectd, TypeOK
  <2> QED
    BY <1>1, <1>12, <2>1 DEF RestartCollectd, TypeOK
<1>13. CASE prv_request_metrics
  BY <1>13 DEF prv_request_metrics, TypeOK
<1>14. CASE FlushMetrics
  BY <1>14 DEF FlushMetrics, TypeOK
<1>15. CASE StopTicosd
  BY <1>1, <1>5, <1>15 DEF StopTicosd, TicosdEnds, TypeOK
<1>16. CASE Crash
  <2>1. adrift' \in BOOLEAN
    BY <1>16 DEF Crash
  <2>2. crashes' \in 0 .. MaxCrashes
    BY <1>16, BoundsAssumption DEF Crash, TypeOK
  <2> QED
    BY <1>1, <1>5, <1>16, <2>1, <2>2 DEF Crash, TicosdEnds, TypeOK
<1>17. CASE CollectdStop
  <2>1. /\ phase' \in {"inactive", "starting", "running", "deactivating"}
        /\ cjob' \in BOOLEAN /\ sending' \in BOOLEAN
    BY <1>17 DEF CollectdStop, TypeOK
  <2>2. CollectdStep
    BY <1>17 DEF CollectdStop
  <2> QED
    BY <2>1, <2>2 DEF CollectdStep, TypeOK
<1>18. CASE CollectdStart
  <2>1. /\ phase' \in {"inactive", "starting", "running", "deactivating"}
        /\ cjob' \in BOOLEAN /\ sending' \in BOOLEAN
    BY <1>18 DEF CollectdStart, TypeOK
  <2>2. CollectdStep
    BY <1>18 DEF CollectdStart
  <2> QED
    BY <2>1, <2>2 DEF CollectdStep, TypeOK
<1>19. CASE CollectdRead
  <2>1. /\ phase' \in {"inactive", "starting", "running", "deactivating"}
        /\ cjob' \in BOOLEAN /\ sending' \in BOOLEAN
    BY <1>19 DEF CollectdRead, TypeOK
  <2>2. CollectdStep
    BY <1>19 DEF CollectdRead
  <2> QED
    BY <2>1, <2>2 DEF CollectdStep, TypeOK
<1> QED
  BY <1>6, <1>7, <1>8, <1>9, <1>10, <1>11, <1>12, <1>13, <1>14, <1>15, <1>16, <1>17,
     <1>18, <1>19 DEF Ticosd

\* Every step keeps the types.
LEMMA NextTypeOK == TypeOK /\ [Next]_vars => TypeOK'
<1> SUFFICES ASSUME TypeOK, [Next]_vars PROVE TypeOK'
  OBVIOUS
<1>1. CASE UNCHANGED vars
  BY <1>1 DEF vars, TypeOK, ctlVars, daemonVars, collectdVars
<1> QED
  BY <1>1, ClientTypeOK, ServiceTypeOK DEF Next

\* All variables keep their types; in particular no process ever takes a file
\* that was cut short for settings (ticosd_config_init).
THEOREM TypeCorrect == Spec => []TypeOK
  BY InitTypeOK, NextTypeOK, PTL DEF Spec

\* A step of a process that sets a value keeps the invariant.
LEMMA ClientInStep ==
  ASSUME TypeOK, InStepInv, NEW c \in Clients, Client(c)
  PROVE  InStepInv'
<1> SUFFICES ASSUME pc' # "down", ~job', ~stale', \A d \in Clients : ~Restarting(d)'
             PROVE  runtime' = ParseRuntime(file)'
  BY DEF InStepInv
<1>1. ASSUME NEW k \in Keys, NEW v \in {"on", "off"}, AlreadySet(c, k, v)
      PROVE  runtime' = ParseRuntime(file)'
  BY <1>1 DEF AlreadySet, CtlStep, daemonVars, InStepInv, Restarting, ParseRuntime
<1>2. ASSUME NEW k \in Keys, NEW v \in {"on", "off"}, SetBoolean(c, k, v)
      PROVE  runtime' = ParseRuntime(file)'
  <2>1. ASSUME NEW d \in Clients PROVE ~Restarting(d)
    <3>1. CASE d = c
      BY <1>2, <3>1 DEF SetBoolean, Restarting
    <3>2. CASE d # c /\ d \in Busy
      <4>1. ctl[d] \in Running
        BY <3>2 DEF Busy, TypeOK
      <4>2. ctl'[d] = [ctl[d] EXCEPT !.alone = FALSE]
        BY <1>2, <3>2 DEF SetBoolean
      <4>3. ctl'[d].pc = ctl[d].pc /\ ctl'[d].pc # "idle"
        BY <4>1, <4>2 DEF Running
      <4>4. ctl'[d] # Idle
        BY <4>3 DEF Idle
      <4> QED
        BY <4>3, <4>4 DEF Restarting
    <3>3. CASE d \notin Busy
      BY <3>3 DEF Busy, Restarting
    <3> QED
      BY <3>1, <3>2, <3>3
  <2> QED
    BY <1>2, <2>1 DEF SetBoolean, CtlStep, daemonVars, InStepInv, ParseRuntime
<1>3. CASE OpenFile(c) \/ WriteFile(c)
  <2>1. ctl[c] \in Running
    BY <1>3 DEF OpenFile, WriteFile, TypeOK
  <2>2. ctl'[c].pc \in {"write", "restart"}
    BY <1>3, <2>1 DEF OpenFile, WriteFile, TypeOK, Running
  <2>3. ctl'[c] # Idle
    BY <2>2 DEF Idle
  <2> QED
    BY <2>2, <2>3 DEF Restarting
<1>4. CASE RestartTicosd(c)
  BY <1>4 DEF RestartTicosd, CtlStep, daemonVars
<1>5. CASE CtlDies(c)
  <2>1. ctl[c].pc = "open"
    BY <1>5 DEF CtlDies
  <2>2. \A d \in Clients : ~Restarting(d)
    BY <1>5, <2>1 DEF CtlDies, TypeOK, Restarting
  <2> QED
    BY <1>5, <2>2 DEF CtlDies, CtlStep, daemonVars, InStepInv, ParseRuntime
<1> QED
  BY <1>1, <1>2, <1>3, <1>4, <1>5 DEF Client

\* A step of ticosd or of collectd keeps it: only ticosd_config_init gives
\* ticosd settings, and it takes them from the file.
LEMMA ServiceInStep ==
  ASSUME InStepInv, Ticosd \/ CollectdStop \/ CollectdStart \/ CollectdRead
  PROVE  InStepInv'
<1> USE DEF InStepInv, Restarting, ParseRuntime, ctlVars, daemonVars
<1>1. CASE ticosd_config_init
  BY <1>1 DEF ticosd_config_init
<1>2. CASE StopTicosd \/ Crash
  BY <1>2 DEF StopTicosd, Crash, TicosdEnds
<1>3. CASE SwupdateService \/ SwupdateSocket
  BY <1>3 DEF SwupdateService, SwupdateSocket, DaemonStep
<1>4. CASE OpenInclude \/ PrintInclude \/ ClearInclude
  <2>1. ReloadStep /\ pc # "down"
    BY <1>4 DEF OpenInclude, PrintInclude, ClearInclude
  <2> QED
    BY <2>1 DEF ReloadStep, DaemonStep
<1>5. CASE RestartCollectd \/ prv_request_metrics \/ FlushMetrics
  BY <1>5 DEF RestartCollectd, prv_request_metrics, FlushMetrics, DaemonStep
<1>6. CASE CollectdStop \/ CollectdStart \/ CollectdRead
  BY <1>6 DEF CollectdStop, CollectdStart, CollectdRead, CollectdStep
<1> QED
  BY <1>1, <1>2, <1>3, <1>4, <1>5, <1>6 DEF Ticosd

\* A running ticosd has the settings that are in the file, unless somebody is
\* still at work on it or could not ask for a restart: for every number of
\* processes, commands and crashes (ticos_set_runtime_bool_and_reload,
\* ticosd_restart_service_if_running).
THEOREM StaysInStep == Spec => []TicosdInStep
<1>1. Init => InStepInv
  BY DEF Init, InStepInv
<1>2. TypeOK /\ InStepInv /\ [Next]_vars => InStepInv'
  <2> SUFFICES ASSUME TypeOK, InStepInv, [Next]_vars PROVE InStepInv'
    OBVIOUS
  <2>1. CASE UNCHANGED vars
    BY <2>1 DEF vars, InStepInv, Restarting, ParseRuntime, ctlVars, daemonVars
  <2> QED
    BY <2>1, ClientInStep, ServiceInStep DEF Next
<1>3. InStepInv => TicosdInStep
  BY DEF InStepInv, TicosdInStep, Restarting, Busy, ParseRuntime
<1> QED
  BY TypeCorrect, <1>1, <1>2, <1>3, PTL DEF Spec

-----------------------------------------------------------------------------
(* SettingsKept *)

\* The value of a key that a tree gives, over the base configuration.
Effective(rt, k) == IF rt[k] \in {"on", "off"} THEN rt[k] ELSE base[k]

Writing(c) == ctl[c] # Idle /\ ctl[c].pc = "write"
Alone(c) == ctl[c] # Idle /\ ctl[c].alone

\* What has been promised holds in a tree, for the key k.
Promised(rt, k) == agreed[k] # "any" => agreed[k] = Effective(rt, k)

\* A process that is alone has all of the file in its copy, but for the key
\* that it sets: before it opens the file, and, as the file is then empty, in
\* terms of what was promised until it has written it.
AloneInv ==
  \A c \in Clients : Alone(c) =>
    /\ \A d \in Busy : d = c
    /\ ctl[c].pc = "open" =>
         \A k \in Keys \ {ctl[c].key} : ctl[c].runtime[k] = ParseRuntime(file)[k]
    /\ ctl[c].pc = "write" =>
         \A k \in Keys \ {ctl[c].key} : Promised(ctl[c].runtime, k)
KeptInv ==
  /\ AloneInv
  /\ (\A c \in Clients : ~Writing(c)) => \A k \in Keys : Promised(file, k)

-----------------------------------------------------------------------------
(* CollectdInStep *)

\* An include file shows that collectd may be sending.
Marked == \E f \in Includes : includes[f] = "full"

\* A collectd that ticosd need not restart.
Settled == phase = "running" /\ ~cjob

\* Where prv_reload is, and what it has done to the file that makes collectd
\* send.
ReloadInv ==
  /\ pc \in {"open", "print"} => was_enabled
  /\ pc = "clear" => ~was_enabled
  /\ pc = "clear" /\ local.which = "footer" /\ ~adrift => includes["header"] # "full"
  /\ pc \notin {"open", "print", "clear", "restart"} => local = NoLocal
  /\ pc = "restart" /\ ~local.botched => (includes["footer"] = "full") = was_enabled

\* A collectd that sends is one that the next reload will restart, since a
\* file shows it, or one was just emptied.  Once ticosd is up, collectd sends
\* as it should.
SendInv ==
  /\ sending => phase = "running"
  /\ ~adrift /\ sending /\ ~cjob =>
       /\ pc \notin {"open", "print", "clear", "restart"} => Marked
       /\ pc = "clear" => Marked \/ local.did_clear
  /\ ~adrift /\ pc \in {"up", "metrics"} =>
       /\ (includes["footer"] = "full") = was_enabled
       /\ Settled => sending = was_enabled

\* The setting that ticosd works with is the one it read.
EnabledInv ==
  pc # "down" =>
    was_enabled = (ticosd_config_get_boolean(runtime, "enable_data_collection") = "on")

\* What a process finds set is what the file says, over the base configuration.
LEMMA EffectiveIsRead ==
  ASSUME TypeOK, NEW k \in Keys
  PROVE  /\ ticosd_config_get_boolean(ParseRuntime(file), k) = Effective(file, k)
         /\ Effective(ParseRuntime(file), k) = Effective(file, k)
<1>1. CASE file = Torn
  BY <1>1 DEF ticosd_config_get_boolean, prv_config_find_object, ParseRuntime, Effective, Torn, NoSettings
<1>2. CASE file # Torn
  <2>1. file[k] \in {"unset", "on", "off"}
    BY <1>2 DEF TypeOK, Settings
  <2>2. ParseRuntime(file) = file
    BY <1>2 DEF ParseRuntime
  <2>3. QED
    BY <2>1, <2>2 DEF ticosd_config_get_boolean, prv_config_find_object, Effective
<1>3. QED
  BY <1>1, <1>2

\* A process that goes on to its next step.
LEMMA GoesOn ==
  ASSUME TypeOK, NEW c \in Clients, ctl[c] # Idle, NEW p \in {"open", "write", "restart"},
         ctl' = [ctl EXCEPT ![c].pc = p]
  PROVE  /\ ctl'[c] # Idle /\ ctl'[c].pc = p
         /\ ctl'[c].key = ctl[c].key /\ ctl'[c].alone = ctl[c].alone /\ ctl'[c].runtime = ctl[c].runtime
         /\ \A d \in Clients \ {c} : ctl'[d] = ctl[d]
         /\ Busy' = Busy /\ c \in Busy
<1>1. ctl[c] \in Running /\ ctl \in [Clients -> {Idle} \cup Running]
  BY DEF TypeOK
<1>2. ctl'[c] = [ctl[c] EXCEPT !.pc = p] /\ \A d \in Clients \ {c} : ctl'[d] = ctl[d]
  BY <1>1
<1>3. /\ ctl'[c].pc = p /\ p # "idle"
      /\ ctl'[c].key = ctl[c].key /\ ctl'[c].alone = ctl[c].alone /\ ctl'[c].runtime = ctl[c].runtime
  BY <1>1, <1>2 DEF Running
<1>4. ctl'[c] # Idle
  BY <1>3 DEF Idle
<1>5. QED
  BY <1>2, <1>3, <1>4 DEF Busy

\* A process that ends.
LEMMA Ends ==
  ASSUME TypeOK, NEW c \in Clients, ctl[c] # Idle, ctl' = [ctl EXCEPT ![c] = Idle]
  PROVE  /\ ctl'[c] = Idle
         /\ \A d \in Clients \ {c} : ctl'[d] = ctl[d]
         /\ Busy' = Busy \ {c} /\ c \in Busy
BY DEF TypeOK, Busy

\* A step of a process that sets a value keeps what was promised.
LEMMA ClientKept ==
  ASSUME TypeOK, KeptInv, NEW c \in Clients, Client(c)
  PROVE  KeptInv'
<1>1. base' = base
  BY DEF Client, AlreadySet, SetBoolean, OpenFile, WriteFile, RestartTicosd, CtlDies, CtlStep
<1>2. ASSUME NEW k \in Keys, NEW v \in {"on", "off"}, AlreadySet(c, k, v)
      PROVE  KeptInv'
  <2>1. ctl' = ctl /\ file' = file /\ Effective(file, k) = v
    BY <1>2, EffectiveIsRead DEF AlreadySet
  <2>2. CASE Busy = {}
    <3>1. agreed' = [agreed EXCEPT ![k] = v]
      BY <1>2, <2>2 DEF AlreadySet
    <3>2. agreed'[k] = v /\ \A l \in Keys \ {k} : agreed'[l] = agreed[l]
      BY <3>1 DEF TypeOK
    <3>3. \A d \in Clients : ctl[d] = Idle
      BY <2>2 DEF Busy
    <3>4. AloneInv'
      BY <2>1, <3>3 DEF AloneInv, Alone
    <3>5. \A l \in Keys : Promised(file, l)
      BY <3>3 DEF KeptInv, Writing
    <3>6. \A l \in Keys : Promised(file, l)'
      BY <1>1, <2>1, <3>2, <3>5 DEF Promised, Effective
    <3>7. QED
      BY <3>4, <3>6 DEF KeptInv
  <2>3. CASE Busy # {}
    <3>1. agreed' = agreed
      BY <1>2, <2>3 DEF AlreadySet
    <3>2. QED
      BY <1>1, <2>1, <3>1 DEF KeptInv, AloneInv, Alone, Busy, ParseRuntime, Promised, Effective, Writing
  <2>4. QED
    BY <2>2, <2>3
<1>3. ASSUME NEW k \in Keys, NEW v \in {"on", "off"}, SetBoolean(c, k, v)
      PROVE  KeptInv'
  <2>1. /\ file' = file /\ agreed' = agreed /\ ctl[c] = Idle
        /\ ctl' = [d \in Clients |->
             IF d = c
             THEN [pc |-> "open", key |-> k, alone |-> Busy = {},
                   runtime |-> prv_config_set_object(ParseRuntime(file), k, v)]
             ELSE IF d \in Busy THEN [ctl[d] EXCEPT !.alone = FALSE] ELSE ctl[d]]
    BY <1>3 DEF SetBoolean
  <2>2. /\ ctl'[c].pc = "open" /\ ctl'[c].key = k /\ (ctl'[c].alone => Busy = {})
        /\ ctl'[c].runtime = [ParseRuntime(file) EXCEPT ![k] = v]
    BY <2>1 DEF prv_config_set_object
  <2>3. ASSUME NEW d \in Clients \ {c}
        PROVE  ~Alone(d)' /\ Writing(d)' = Writing(d) /\ (ctl'[d] = Idle) = (ctl[d] = Idle)
    <3>1. CASE d \in Busy
      <4>1. ctl[d] \in Running /\ ctl[d] # Idle
        BY <3>1 DEF Busy, TypeOK
      <4>2. ctl'[d] = [ctl[d] EXCEPT !.alone = FALSE]
        BY <2>1, <2>3, <3>1
      <4>3. ctl'[d].pc = ctl[d].pc /\ ctl'[d].pc # "idle" /\ ~ctl'[d].alone
        BY <4>1, <4>2 DEF Running
      <4>4. ctl'[d] # Idle
        BY <4>3 DEF Idle
      <4>5. QED
        BY <4>1, <4>3, <4>4 DEF Alone, Writing
    <3>2. CASE d \notin Busy
      <4>1. ctl'[d] = ctl[d] /\ ctl[d] = Idle
        BY <2>1, <2>3, <3>2 DEF Busy
      <4>2. QED
        BY <4>1 DEF Alone, Writing
    <3>3. QED
      BY <3>1, <3>2
  <2>4. AloneInv'
    <3> SUFFICES ASSUME NEW d \in Clients, Alone(d)'
                 PROVE  (/\ \A e \in Busy : e = d
                         /\ ctl[d].pc = "open" =>
                              \A l \in Keys \ {ctl[d].key} : ctl[d].runtime[l] = ParseRuntime(file)[l]
                         /\ ctl[d].pc = "write" =>
                              \A l \in Keys \ {ctl[d].key} : Promised(ctl[d].runtime, l))'
      BY DEF AloneInv
    <3>1. d = c /\ Busy = {}
      BY <2>2, <2>3 DEF Alone
    <3>2. \A e \in Busy' : e = c
      BY <2>3, <3>1 DEF Busy
    <3>3. \A l \in Keys \ {k} : [ParseRuntime(file) EXCEPT ![k] = v][l] = ParseRuntime(file)[l]
      BY ParsedIsSettings DEF Settings
    <3>4. \A l \in Keys \ {k} : ctl'[c].runtime[l] = ParseRuntime(file')[l]
      BY <2>1, <2>2, <3>3
    <3>5. QED
      BY <2>2, <3>1, <3>2, <3>4
  <2>5. (\A d \in Clients : ~Writing(d)') => \A d \in Clients : ~Writing(d)
    BY <2>1, <2>3 DEF Writing
  <2>6. QED
    BY <1>1, <2>1, <2>4, <2>5 DEF KeptInv, Promised, Effective
<1>4. ASSUME Alone(c) PROVE \A d \in Clients \ {c} : ctl[d] = Idle
  BY <1>4 DEF KeptInv, AloneInv, Busy
<1>5. ASSUME ctl[c] # Idle, NEW d \in Clients \ {c} PROVE ~Alone(d)
  BY <1>5 DEF KeptInv, AloneInv, Busy
<1>6. CASE OpenFile(c)
  <2>1. ctl[c] # Idle /\ ctl[c].pc = "open" /\ agreed' = agreed
    BY <1>6 DEF OpenFile
  <2>2. CASE file' = Torn /\ ctl' = [ctl EXCEPT ![c].pc = "write"]
    <3>1. /\ ctl'[c] # Idle /\ ctl'[c].pc = "write"
          /\ ctl'[c].key = ctl[c].key /\ ctl'[c].alone = ctl[c].alone /\ ctl'[c].runtime = ctl[c].runtime
          /\ \A d \in Clients \ {c} : ctl'[d] = ctl[d]
          /\ Busy' = Busy /\ c \in Busy
      BY <2>1, <2>2, GoesOn
    <3>2. ASSUME NEW d \in Clients, Alone(d)'
          PROVE  /\ d = c /\ \A e \in Busy' : e = d
                 /\ \A k \in Keys \ {ctl'[d].key} : Promised(ctl[d].runtime, k)'
      <4>1. d = c /\ Alone(c)
        BY <1>5, <2>1, <3>1, <3>2 DEF Alone
      <4>2. \A e \in Busy' : e = d
        BY <3>1, <4>1 DEF KeptInv, AloneInv
      <4>3. \A e \in Clients : ~Writing(e)
        BY <1>4, <2>1, <4>1 DEF Writing
      <4>4. ASSUME NEW k \in Keys \ {ctl[c].key}
            PROVE  agreed[k] # "any" => agreed[k] = Effective(ctl[c].runtime, k)
        <5>1. ctl[c].runtime[k] = ParseRuntime(file)[k]
          BY <2>1, <4>1 DEF KeptInv, AloneInv
        <5>2. Effective(ctl[c].runtime, k) = Effective(file, k)
          BY <5>1, EffectiveIsRead DEF Effective
        <5>3. Promised(file, k)
          BY <4>3 DEF KeptInv
        <5>4. QED
          BY <5>2, <5>3 DEF Promised
      <4>5. QED
        BY <1>1, <2>1, <3>1, <4>1, <4>2, <4>4 DEF Promised, Effective
    <3>3. AloneInv'
      BY <3>1, <3>2 DEF AloneInv
    <3>4. Writing(c)'
      BY <3>1 DEF Writing
    <3>5. QED
      BY <3>3, <3>4 DEF KeptInv
  <2>3. CASE ctl' = [ctl EXCEPT ![c].pc = "restart"] /\ file' = file
    <3>1. /\ ctl'[c] # Idle /\ ctl'[c].pc = "restart" /\ ctl'[c].alone = ctl[c].alone
          /\ \A d \in Clients \ {c} : ctl'[d] = ctl[d]
          /\ Busy' = Busy
      BY <2>1, <2>3, GoesOn
    <3>2. \A d \in Clients : Alone(d)' => d = c /\ Alone(c)
      BY <1>5, <2>1, <3>1 DEF Alone
    <3>3. AloneInv'
      BY <3>1, <3>2 DEF KeptInv, AloneInv
    <3>4. \A d \in Clients : Writing(d)' = Writing(d)
      BY <2>1, <3>1 DEF Writing
    <3>5. QED
      BY <1>1, <2>1, <2>3, <3>3, <3>4 DEF KeptInv, Promised, Effective
  <2>4. QED
    BY <1>6, <2>2, <2>3 DEF OpenFile
<1>7. CASE WriteFile(c)
  <2>1. ctl[c] # Idle /\ ctl[c].pc = "write" /\ ctl' = [ctl EXCEPT ![c].pc = "restart"]
    BY <1>7 DEF WriteFile
  <2>2. /\ ctl'[c] # Idle /\ ctl'[c].pc = "restart" /\ ctl'[c].alone = ctl[c].alone
        /\ \A d \in Clients \ {c} : ctl'[d] = ctl[d]
        /\ Busy' = Busy
    BY <2>1, GoesOn
  <2>3. \A d \in Clients : Alone(d)' => d = c /\ Alone(c)
    BY <1>5, <2>1, <2>2 DEF Alone
  <2>4. AloneInv'
    BY <2>2, <2>3 DEF KeptInv, AloneInv
  <2>5. CASE agreed' = NoPromise
    BY <2>4, <2>5 DEF KeptInv, Promised, NoPromise
  <2>6. CASE agreed' # NoPromise
    <3>1. /\ Alone(c) /\ file' = ctl[c].runtime
          /\ agreed' = [agreed EXCEPT ![ctl[c].key] = ctl[c].runtime[ctl[c].key]]
      BY <1>7, <2>1, <2>6 DEF WriteFile, Alone
    <3>2. ctl[c] \in Running
      BY <2>1 DEF TypeOK
    <3>3. PICK r, l : r = ctl[c].runtime /\ l = ctl[c].key
      OBVIOUS
    <3>4. l \in Keys /\ r \in Settings /\ r[l] # "unset"
      BY <3>2, <3>3 DEF Running
    <3>5. r[l] \in {"on", "off"}
      BY <3>4 DEF Settings
    <3>6. agreed'[l] = r[l] /\ \A k \in Keys \ {l} : agreed'[k] = agreed[k]
      BY <3>1, <3>3, <3>4 DEF TypeOK
    <3>7. \A k \in Keys \ {l} : Promised(r, k)
      BY <2>1, <3>1, <3>3 DEF KeptInv, AloneInv
    <3>8. file' = r
      BY <3>1, <3>3
    <3>9. ASSUME NEW k \in Keys PROVE agreed'[k] # "any" => agreed'[k] = IF r[k] \in {"on", "off"} THEN r[k] ELSE base[k]
      BY <3>5, <3>6, <3>7 DEF Promised, Effective
    <3>10. \A k \in Keys : Promised(file, k)'
      BY <1>1, <3>8, <3>9 DEF Promised, Effective
    <3>11. QED
      BY <2>4, <3>10 DEF KeptInv
  <2>7. QED
    BY <2>5, <2>6
<1>8. CASE RestartTicosd(c) \/ CtlDies(c)
  <2>1. ctl[c] # Idle /\ ctl' = [ctl EXCEPT ![c] = Idle] /\ file' = file
    BY <1>8 DEF RestartTicosd, CtlDies
  <2>2. /\ ctl'[c] = Idle
        /\ \A d \in Clients \ {c} : ctl'[d] = ctl[d]
    BY <2>1, Ends
  <2>3. AloneInv'
    BY <1>5, <2>1, <2>2 DEF AloneInv, Alone
  <2>4. CASE agreed' = NoPromise
    BY <2>3, <2>4 DEF KeptInv, Promised, NoPromise
  <2>5. CASE agreed' # NoPromise
    <3>1. agreed' = agreed /\ ~Writing(c)
      BY <1>8, <2>5 DEF RestartTicosd, CtlDies, Writing
    <3>2. \A d \in Clients : Writing(d)' = Writing(d)
      BY <2>2, <3>1 DEF Writing
    <3>3. QED
      BY <1>1, <2>1, <2>3, <3>1, <3>2 DEF KeptInv, Promised, Effective
  <2>6. QED
    BY <2>4, <2>5
<1>9. QED
  BY <1>2, <1>3, <1>6, <1>7, <1>8 DEF Client

\* ticosd, collectd and a step that changes nothing leave the file alone.
LEMMA ServiceKept ==
  ASSUME KeptInv, UNCHANGED <<base, ctlVars>>
  PROVE  KeptInv'
BY DEF KeptInv, AloneInv, Alone, Busy, ParseRuntime, Promised, Effective, Writing, ctlVars

\* Only the processes that set a value change the file and what is promised.
LEMMA ServiceFrame ==
  ASSUME Ticosd \/ CollectdStop \/ CollectdStart \/ CollectdRead \/ UNCHANGED vars
  PROVE  UNCHANGED <<base, ctlVars>>
<1> USE DEF ctlVars
<1>1. CASE UNCHANGED vars
  BY <1>1 DEF vars
<1>2. CASE CollectdStop \/ CollectdStart \/ CollectdRead
  BY <1>2 DEF CollectdStop, CollectdStart, CollectdRead, CollectdStep
<1>3. CASE ticosd_config_init
  BY <1>3 DEF ticosd_config_init
<1>4. CASE StopTicosd \/ Crash
  BY <1>4 DEF StopTicosd, Crash, TicosdEnds
<1>5. CASE SwupdateService \/ SwupdateSocket
  BY <1>5 DEF SwupdateService, SwupdateSocket, DaemonStep
<1>6. CASE OpenInclude \/ PrintInclude \/ ClearInclude
  BY <1>6 DEF OpenInclude, PrintInclude, ClearInclude, ReloadStep, DaemonStep
<1>7. CASE RestartCollectd \/ prv_request_metrics \/ FlushMetrics
  BY <1>7 DEF RestartCollectd, prv_request_metrics, FlushMetrics, DaemonStep
<1>8. QED
  BY <1>1, <1>2, <1>3, <1>4, <1>5, <1>6, <1>7 DEF Ticosd

\* A setting that a user made stays, for every number of processes, commands and
\* crashes (ticosd_config_set_boolean, prv_config_write_config).
LEMMA KeptInvariance == Spec => []KeptInv
<1>1. Init => KeptInv
  BY DEF Init, KeptInv, AloneInv, Alone, Promised, NoPromise
<1>2. TypeOK /\ KeptInv /\ [Next]_vars => KeptInv'
  BY ClientKept, ServiceKept, ServiceFrame DEF Next
<1>3. QED
  BY TypeCorrect, <1>1, <1>2, PTL DEF Spec

\* A setting that a user made stays until another one replaces it, unless
\* processes overlap, one dies while it rewrites the file or the disk is full.
THEOREM SettingsAreKept == Spec => []SettingsKept
<1>1. KeptInv => SettingsKept
  BY DEF KeptInv, SettingsKept, Writing, Busy, Promised, Effective
<1>2. QED
  BY <1>1, KeptInvariance, PTL

\* What the local variables of prv_reload become.
LEMMA LocalFields ==
  ASSUME TypeOK
  PROVE  /\ NoLocal.botched = FALSE /\ NoLocal.did_clear = FALSE /\ NoLocal.which = "header"
         /\ Second.botched = local.botched /\ Second.which = "footer"
         /\ [Second EXCEPT !.botched = TRUE].botched
         /\ \A failed \in BOOLEAN :
              /\ Cleared(failed).botched = (local.botched \/ failed)
              /\ Cleared(failed).did_clear = (local.did_clear \/ includes[local.which] = "full")
<1>1. local \in [which : Includes, did_clear : BOOLEAN, botched : BOOLEAN]
  BY DEF TypeOK
<1>2. NoLocal.botched = FALSE /\ NoLocal.did_clear = FALSE /\ NoLocal.which = "header"
  BY DEF NoLocal
<1>3. /\ Second.botched = local.botched /\ Second.which = "footer" /\ Second.did_clear = local.did_clear
      /\ [Second EXCEPT !.botched = TRUE].botched
      /\ Second \in [which : Includes, did_clear : BOOLEAN, botched : BOOLEAN]
  BY <1>1 DEF Second, Includes
<1>4. ASSUME NEW failed \in BOOLEAN
      PROVE  /\ Cleared(failed).botched = (local.botched \/ failed)
             /\ Cleared(failed).did_clear = (local.did_clear \/ includes[local.which] = "full")
  BY <1>3 DEF Cleared
<1>5. QED
  BY <1>2, <1>3, <1>4

\* What a step does to the include file it works on.
LEMMA IncludeEffect ==
  ASSUME TypeOK, NEW x, includes' = [includes EXCEPT ![local.which] = x]
  PROVE  /\ local.which \in {"header", "footer"}
         /\ includes'[local.which] = x
         /\ \A f \in Includes \ {local.which} : includes'[f] = includes[f]
BY DEF TypeOK, Includes

CollectdInv == ReloadInv /\ SendInv

\* The parts of the state that CollectdInv is about.
LEMMA CollectdFrame ==
  ASSUME CollectdInv, UNCHANGED <<daemonVars, includes, collectdVars, adrift>>
  PROVE  CollectdInv'
BY DEF CollectdInv, ReloadInv, SendInv, Marked, Settled, daemonVars, collectdVars

\* A step of ticosd.
LEMMA TicosdCollectd ==
  ASSUME TypeOK, CollectdInv, Ticosd
  PROVE  CollectdInv'
<1> USE DEF CollectdInv, DaemonStep, collectdVars
<1>1. CASE ticosd_config_init
  <2>1. /\ pc = "down" /\ pc' = "swupdate"
        /\ UNCHANGED <<local, includes, phase, cjob, sending, adrift>>
    BY <1>1 DEF ticosd_config_init
  <2>2. QED
    BY <2>1 DEF ReloadInv, SendInv, Marked
<1>2. CASE SwupdateService \/ SwupdateSocket
  <2>1. /\ pc \in {"swupdate", "socket"} /\ (pc' = "socket" \/ pc' = CollectdPlugin)
        /\ UNCHANGED <<was_enabled, local, includes, phase, cjob, sending, adrift>>
    BY <1>2 DEF SwupdateService, SwupdateSocket
  <2>2. QED
    BY <2>1, LocalFields DEF ReloadInv, SendInv, Marked, CollectdPlugin
<1>3. CASE OpenInclude
  <2>1. pc = "open" /\ UNCHANGED <<was_enabled, phase, cjob, sending>>
    BY <1>3 DEF OpenInclude, ReloadStep
  <2>2. CASE pc' = "print"
    BY <2>1, <2>2 DEF ReloadInv, SendInv
  <2>3. CASE pc' = "up" /\ local' = NoLocal /\ adrift'
    BY <2>1, <2>3 DEF ReloadInv, SendInv
  <2>4. QED
    BY <1>3, <2>2, <2>3 DEF OpenInclude
<1>4. CASE PrintInclude
  <2>1. pc = "print" /\ was_enabled /\ UNCHANGED <<was_enabled, phase, cjob, sending>>
    BY <1>4 DEF PrintInclude, ReloadStep, ReloadInv
  <2>2. CASE pc' = "up" /\ local' = NoLocal /\ adrift'
    BY <2>1, <2>2 DEF ReloadInv, SendInv
  <2>3. CASE /\ \/ includes' = [includes EXCEPT ![local.which] = "full"] /\ local' = Second
                \/ local' = [Second EXCEPT !.botched = TRUE] /\ UNCHANGED includes
             /\ pc' = IF local.which = "header" THEN "open" ELSE "restart"
    <3>1. CASE local.which = "header"
      BY <2>1, <2>3, <3>1 DEF ReloadInv, SendInv
    <3>2. CASE local.which # "header"
      <4>1. pc' = "restart" /\ local.which = "footer"
        BY <2>3, <3>2 DEF TypeOK, Includes
      <4>2. local'.botched \/ includes'["footer"] = "full"
        BY <2>3, <4>1, LocalFields, IncludeEffect
      <4>3. QED
        BY <2>1, <4>1, <4>2 DEF ReloadInv, SendInv
    <3>3. QED
      BY <3>1, <3>2
  <2>4. QED
    BY <1>4, <2>2, <2>3 DEF PrintInclude
<1>5. CASE ClearInclude
  <2>1. PICK failed \in BOOLEAN :
          /\ pc = "clear"
          /\ failed => includes[local.which] # "empty"
          /\ includes' = IF failed THEN includes ELSE [includes EXCEPT ![local.which] = "empty"]
          /\ pc' = IF local.which # "footer" THEN "clear"
                   ELSE IF was_enabled \/ Cleared(failed).did_clear THEN "restart" ELSE "up"
          /\ local' = IF local.which = "footer" /\ ~(was_enabled \/ Cleared(failed).did_clear)
                      THEN NoLocal ELSE Cleared(failed)
          /\ adrift' = (adrift \/ failed)
          /\ ReloadStep
    BY <1>5 DEF ClearInclude
  <2>2. ~was_enabled /\ UNCHANGED <<was_enabled, phase, cjob, sending>>
    BY <2>1 DEF ReloadStep, ReloadInv
  <2>3. ~failed => /\ includes'[local.which] = "empty"
                   /\ \A f \in Includes \ {local.which} : includes'[f] = includes[f]
    BY <2>1, IncludeEffect
  <2>4. PICK w \in Includes : w = local.which
    BY DEF TypeOK
  <2>5. /\ Cleared(failed).botched = (local.botched \/ failed)
        /\ Cleared(failed).did_clear = (local.did_clear \/ includes[w] = "full")
    BY <2>4, LocalFields
  <2>6. CASE w = "header"
    <3>1. pc' = "clear" /\ local' = Cleared(failed)
      BY <2>1, <2>4, <2>6
    <3>2. ~adrift' /\ sending /\ ~cjob => Marked' \/ local'.did_clear
      BY <2>1, <2>3, <2>4, <2>5, <3>1 DEF SendInv, Marked, Includes
    <3>3. ~adrift' => includes'["header"] # "full"
      BY <2>1, <2>3, <2>4, <2>6
    <3>4. QED
      BY <2>2, <3>1, <3>2, <3>3 DEF ReloadInv, SendInv
  <2>7. CASE w = "footer" /\ Cleared(failed).did_clear
    <3>1. pc' = "restart" /\ local' = Cleared(failed)
      BY <2>1, <2>4, <2>7
    <3>2. ~local'.botched => includes'["footer"] # "full"
      BY <2>3, <2>4, <2>5, <2>7, <3>1
    <3>3. ~local'.botched => (includes'["footer"] = "full") = was_enabled'
      BY <2>2, <3>2 DEF TypeOK
    <3>4. SendInv'
      BY <2>2, <3>1 DEF SendInv
    <3>5. ReloadInv'
      BY <3>1, <3>3 DEF ReloadInv
    <3>6. QED
      BY <3>4, <3>5
  <2>8. CASE w = "footer" /\ ~Cleared(failed).did_clear
    <3>1. pc' = "up" /\ local' = NoLocal /\ ~local.did_clear /\ includes[w] # "full"
      BY <2>1, <2>2, <2>4, <2>5, <2>8
    <3>2. ~adrift' => ~failed /\ ~adrift
      BY <2>1
    <3>3. ~adrift' => ~(sending /\ ~cjob)
      <4>1. ~adrift => ~Marked
        BY <2>1, <2>4, <2>8, <3>1 DEF ReloadInv, Marked, Includes
      <4>2. QED
        BY <2>1, <3>1, <3>2, <4>1 DEF SendInv
    <3>4. ~adrift' => includes'["footer"] # "full"
      BY <2>3, <2>4, <2>8, <3>2
    <3>5. was_enabled' = FALSE /\ sending' \in BOOLEAN
      BY <2>2 DEF TypeOK
    <3>6. ReloadInv'
      BY <3>1 DEF ReloadInv
    <3>7. ~adrift' => (includes'["footer"] = "full") = was_enabled'
      BY <3>4, <3>5
    <3>8. ~adrift' /\ Settled' => sending' = was_enabled'
      BY <2>2, <3>3, <3>5 DEF Settled
    <3>9. QED
      BY <2>2, <3>1, <3>3, <3>6, <3>7, <3>8 DEF SendInv
  <2>9. QED
    BY <2>4, <2>6, <2>7, <2>8 DEF Includes
<1>6. CASE RestartCollectd
  <2>1. /\ pc = "restart" /\ pc' = "up" /\ local' = NoLocal
        /\ UNCHANGED <<was_enabled, includes, phase, sending>>
    BY <1>6 DEF RestartCollectd
  <2>2. CASE adrift'
    BY <2>1, <2>2 DEF ReloadInv, SendInv
  <2>3. CASE ~adrift'
    <3>1. cjob' = (cjob \/ Active) /\ ~local.botched
      BY <1>6, <2>3 DEF RestartCollectd
    <3>2. phase = "running" => cjob'
      BY <3>1 DEF Active
    <3>3. (includes'["footer"] = "full") = was_enabled'
      BY <2>1, <3>1 DEF ReloadInv
    <3>4. QED
      BY <2>1, <3>2, <3>3 DEF ReloadInv, SendInv, Settled
  <2>4. QED
    BY <2>2, <2>3
<1>7. CASE prv_request_metrics
  <2>1. /\ pc = "up" /\ pc' = "metrics" /\ cjob'
        /\ UNCHANGED <<was_enabled, local, includes, phase, sending, adrift>>
    BY <1>7 DEF prv_request_metrics
  <2>2. QED
    BY <2>1 DEF ReloadInv, SendInv, Settled
<1>8. CASE FlushMetrics
  <2>1. /\ pc = "metrics" /\ pc' = "up" /\ (phase' = phase \/ (phase = "starting" /\ phase' = "inactive"))
        /\ UNCHANGED <<was_enabled, local, includes, cjob, sending, adrift>>
    BY <1>8 DEF FlushMetrics
  <2>2. QED
    BY <2>1 DEF ReloadInv, SendInv, Settled, Marked
<1>9. CASE StopTicosd
  <2>1. /\ pc = "up" /\ pc' = "down" /\ local' = NoLocal
        /\ UNCHANGED <<includes, phase, cjob, sending, adrift>>
    BY <1>9 DEF StopTicosd, TicosdEnds
  <2>2. QED
    BY <2>1 DEF ReloadInv, SendInv, Settled, Marked
<1>10. CASE Crash
  <2>1. /\ pc' = "down" /\ local' = NoLocal /\ adrift' = (adrift \/ Unmarked)
        /\ UNCHANGED <<includes, phase, cjob, sending>>
    BY <1>10 DEF Crash, TicosdEnds
  <2>2. ~adrift' /\ sending' /\ ~cjob' => Marked'
    BY <2>1 DEF Marked, Unmarked
  <2>3. QED
    BY <2>1, <2>2 DEF ReloadInv, SendInv
<1>11. QED
  BY <1>1, <1>2, <1>3, <1>4, <1>5, <1>6, <1>7, <1>8, <1>9, <1>10 DEF Ticosd

\* A step of collectd.
LEMMA CollectdCollectd ==
  ASSUME TypeOK, CollectdInv, CollectdStop \/ CollectdStart \/ CollectdRead
  PROVE  CollectdInv'
<1> USE DEF CollectdInv
<1>1. UNCHANGED <<pc, was_enabled, local, includes, adrift>>
  BY DEF CollectdStop, CollectdStart, CollectdRead, CollectdStep, daemonVars
<1>2. ReloadInv'
  BY <1>1 DEF ReloadInv
<1>3. CASE CollectdStop
  BY <1>1, <1>2, <1>3 DEF CollectdStop, SendInv, Settled, Marked
<1>4. CASE CollectdStart
  BY <1>1, <1>2, <1>4 DEF CollectdStart, SendInv, Settled, Marked
<1>5. CASE CollectdRead
  <2>1. phase' = "running" /\ sending' = (includes["footer"] = "full") /\ cjob' = cjob
    BY <1>5 DEF CollectdRead
  <2>2. sending' => Marked'
    BY <1>1, <2>1 DEF Marked, Includes
  <2>3. QED
    BY <1>1, <1>2, <2>1, <2>2 DEF SendInv, Settled
<1>6. QED
  BY <1>3, <1>4, <1>5

\* The invariant about collectd holds in every behaviour.
LEMMA CollectdInvariance == Spec => []CollectdInv
<1>1. Init => CollectdInv
  BY DEF Init, CollectdInv, ReloadInv, SendInv
<1>2. TypeOK /\ CollectdInv /\ [Next]_vars => CollectdInv'
  <2> SUFFICES ASSUME TypeOK, CollectdInv, [Next]_vars PROVE CollectdInv'
    OBVIOUS
  <2>1. CASE UNCHANGED vars
    BY <2>1, CollectdFrame DEF vars
  <2>2. ASSUME NEW c \in Clients, Client(c) PROVE CollectdInv'
    <3>1. CtlStep
      BY <2>2 DEF Client, AlreadySet, SetBoolean, OpenFile, WriteFile, RestartTicosd, CtlDies
    <3>2. QED
      BY <3>1, CollectdFrame DEF CtlStep
  <2>3. QED
    BY <2>1, <2>2, TicosdCollectd, CollectdCollectd DEF Next
<1>3. QED
  BY TypeCorrect, <1>1, <1>2, PTL DEF Spec

\* Once ticosd is up, a collectd that is not about to restart sends data exactly
\* if data collection is enabled in ticosd: for every number of crashes and every
\* interleaving with the restarts of collectd (prv_reload).
THEOREM CollectdStaysInStep == Spec => []CollectdInStep
<1>1. CollectdInv => CollectdInStep
  BY DEF CollectdInv, SendInv, Settled, CollectdInStep
<1>2. QED
  BY <1>1, CollectdInvariance, PTL

-----------------------------------------------------------------------------
(* DisabledIsSilent *)

\* ticosd works with the setting that it read when it started.
LEMMA EnabledInvariance == Spec => []EnabledInv
<1>1. Init => EnabledInv
  BY DEF Init, EnabledInv
<1>2. EnabledInv /\ [Next]_vars => EnabledInv'
  <2> SUFFICES ASSUME EnabledInv, [Next]_vars PROVE EnabledInv'
    OBVIOUS
  <2> USE DEF EnabledInv, ticosd_config_get_boolean, prv_config_find_object
  <2>1. CASE UNCHANGED <<base, runtime, was_enabled>> /\ (pc = "down" => pc' = "down")
    BY <2>1
  <2>2. CASE UNCHANGED vars
    BY <2>1, <2>2 DEF vars, daemonVars
  <2>3. ASSUME NEW c \in Clients, Client(c) PROVE EnabledInv'
    BY <2>1, <2>3 DEF Client, AlreadySet, SetBoolean, OpenFile, WriteFile, RestartTicosd, CtlDies,
                      CtlStep, daemonVars
  <2>4. CASE CollectdStop \/ CollectdStart \/ CollectdRead
    BY <2>1, <2>4 DEF CollectdStop, CollectdStart, CollectdRead, CollectdStep, daemonVars
  <2>5. CASE ticosd_config_init
    BY <2>5 DEF ticosd_config_init
  <2>6. CASE StopTicosd \/ Crash
    BY <2>6 DEF StopTicosd, Crash, TicosdEnds
  <2>7. CASE SwupdateService \/ SwupdateSocket
    BY <2>1, <2>7 DEF SwupdateService, SwupdateSocket, DaemonStep
  <2>8. CASE OpenInclude \/ PrintInclude \/ ClearInclude
    <3>1. ReloadStep /\ pc # "down"
      BY <2>8 DEF OpenInclude, PrintInclude, ClearInclude
    <3>2. QED
      BY <2>1, <3>1 DEF ReloadStep, DaemonStep
  <2>9. CASE RestartCollectd \/ prv_request_metrics \/ FlushMetrics
    BY <2>1, <2>9 DEF RestartCollectd, prv_request_metrics, FlushMetrics, DaemonStep
  <2>10. QED
    BY <2>2, <2>3, <2>4, <2>5, <2>6, <2>7, <2>8, <2>9 DEF Next, Ticosd
<1>3. QED
  BY <1>1, <1>2, PTL DEF Spec

\* From ticosctl to collectd: a user who disabled data collection gets silence
\* once nothing is under way, by the three results above and what ticosd read.
THEOREM DisabledStaysSilent == Spec => []DisabledIsSilent
<1>1. TypeOK /\ SettingsKept /\ TicosdInStep /\ CollectdInv /\ EnabledInv => DisabledIsSilent
  <2> SUFFICES ASSUME TypeOK, SettingsKept, TicosdInStep, CollectdInv, EnabledInv,
                      agreed["enable_data_collection"] = "off",
                      Busy = {} /\ pc = "up" /\ ~job /\ ~cjob /\ ~stale /\ ~adrift
               PROVE  ~was_enabled /\ ~sending
    BY DEF DisabledIsSilent
  <2> DEFINE k == "enable_data_collection"
  <2>1. k \in Keys
    BY DEF Keys
  <2>2. Effective(file, k) = "off"
    BY <2>1 DEF SettingsKept, Effective
  <2>3. runtime = ParseRuntime(file)
    BY DEF TicosdInStep, ParseRuntime
  <2>4. ticosd_config_get_boolean(runtime, k) = "off"
    BY <2>1, <2>2, <2>3, EffectiveIsRead
  <2>5. ~was_enabled
    BY <2>4 DEF EnabledInv
  <2>6. sending => Settled
    BY DEF CollectdInv, SendInv, Settled
  <2>7. QED
    BY <2>5, <2>6 DEF CollectdInv, SendInv
<1>2. QED
  BY <1>1, TypeCorrect, SettingsAreKept, StaysInStep, CollectdInvariance, EnabledInvariance, PTL
=============================================================================
