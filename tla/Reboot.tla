-------------------------------- MODULE Reboot --------------------------------
(***************************************************************************)
(* How ticosd finds out why the device rebooted (src/plugins/reboot): one  *)
(* event per Linux boot, with a reason taken from pstore, from a file that *)
(* others write (ticosctl reboot), or from a file that ticosd itself wrote *)
(* when systemd was stopping.  What it knows is all in files, so the       *)
(* interesting steps are those between which the daemon may die or the     *)
(* device may reboot.                                                      *)
(***************************************************************************)
EXTENDS Integers, Sequences

CONSTANTS
  Reasons,        \* reasons that ticosctl reboot may be given
  MaxBoots,       \* bound on the number of boots
  MaxStarts       \* bound on the number of starts of the daemon

ASSUME ReasonsAssumption == {"Unknown"} \subseteq Reasons
ASSUME BoundsAssumption == MaxBoots \in Nat /\ MaxBoots >= 1 /\ MaxStarts \in Nat

Sources == {"pstore", "custom", "internal"}
s_reboot_reason_sources == <<"pstore", "custom", "internal">>
Reason == Reasons \cup {"Unknown", "UserReset", "FirmwareUpdate", "KernelPanic"}
Unreadable == "unreadable"     \* an empty or malformed file
Absent == [reason |-> "absent", boot |-> 0]

VARIABLES
  boot,       \* the running Linux boot
  tracked,    \* the boot in last_tracked_boot_id; 0 if none can be read
  files,      \* what each source holds, and in which boot it was written
  enabled,    \* enable_data_collection
  pc,         \* how far ticosd_reboot_init has got; "down": not running
  next,       \* the next source to be read
  seen,       \* what the sources read so far gave
  starts,
  \* history: the events queued; whether last_tracked_boot_id could not be
  \* written in this boot; whether the sources were read in this boot;
  \* whether they surely held only what the previous boot left; whether this boot
  \* was marked as tracked without the event being queued
  events, unsaved, cleared, fresh, dropped

history == <<events, unsaved, cleared, fresh, dropped>>
vars == <<boot, tracked, files, enabled, pc, next, seen, starts, history>>

Init ==
  /\ boot = 1 /\ tracked = 0
  /\ files = [s \in Sources |-> Absent]
  /\ enabled = TRUE
  /\ pc = "down" /\ next = 1 /\ seen = <<>>
  /\ starts = 0
  /\ events = <<>> /\ unsaved = FALSE /\ cleared = FALSE /\ fresh = TRUE /\ dropped = FALSE

-----------------------------------------------------------------------------
(* ticosd_reboot_init *)

Start ==
  /\ pc = "down" /\ starts < MaxStarts
  /\ starts' = starts + 1
  /\ enabled' \in BOOLEAN
  /\ pc' = "check"
  /\ UNCHANGED <<boot, tracked, files, next, seen, history>>

\* The plugin has nothing more to do, or only to clean up pstore.
Tracked == IF enabled THEN "up" ELSE "clean"

\* Mutated form: any boot id in the file counts as the current one.
ticos_reboot_is_untracked_boot_id_AnyId ==
  /\ pc = "check"
  /\ IF tracked # 0 THEN pc' = Tracked /\ UNCHANGED <<tracked, dropped>>
     ELSE pc' = "mark" /\ tracked' = 0 /\ UNCHANGED dropped
  /\ UNCHANGED <<boot, files, enabled, next, seen, starts, events, unsaved,
                 cleared, fresh>>

\* The first half of ticos_reboot_is_untracked_boot_id: compare the boot ids;
\* if they differ empty the file.  If the file cannot be opened the boot
\* counts as tracked.
ticos_reboot_is_untracked_boot_id ==
  /\ pc = "check"
  /\ \/ tracked = boot /\ pc' = Tracked /\ UNCHANGED <<tracked, dropped>>
     \/ tracked # boot /\ pc' = "mark" /\ tracked' = 0 /\ UNCHANGED dropped
     \/ pc' = Tracked /\ dropped' = TRUE /\ UNCHANGED tracked
  /\ UNCHANGED <<boot, files, enabled, next, seen, starts, events, unsaved,
                 cleared, fresh>>

\* Mutated form: the boot id stays in the stream's buffer.
prv_write_current_boot_id_Lost ==
  /\ pc = "mark"
  /\ pc' = IF enabled THEN "resolve" ELSE "clean"
  /\ dropped' = (dropped \/ ~enabled)
  /\ UNCHANGED <<boot, tracked, files, enabled, next, seen, starts, events, unsaved,
                 cleared, fresh>>

\* The second half: the boot id is in the file once fclose has flushed it,
\* which fails unnoticed if the disk is full.
prv_write_current_boot_id ==
  /\ pc = "mark"
  /\ \/ tracked' = boot /\ UNCHANGED <<unsaved, fresh>>
     \/ tracked' = 0 /\ unsaved' = TRUE /\ fresh' = FALSE
  /\ pc' = IF enabled THEN "resolve" ELSE "clean"
  /\ dropped' = (dropped \/ ~enabled)
  /\ UNCHANGED <<boot, files, enabled, next, seen, starts, events, cleared>>

\* Data collection is disabled: pstore is cleaned up all the same.
ticos_reboot_process_pstore_files ==
  /\ pc = "clean"
  /\ pc' = "up"
  /\ files' = [files EXCEPT !["pstore"] = Absent]
  /\ UNCHANGED <<boot, tracked, enabled, next, seen, starts, history>>

\* Mutated form: what is in the file is not parsed.
Found_Unparsed(file) == IF file = Absent THEN <<>> ELSE <<file>>

\* What reading a source adds to the reasons found.
Found(file) ==
  IF file = Absent \/ file.reason = Unreadable THEN <<>> ELSE <<file>>

\* Mutated form: a file is deleted only if a reason could be used.
read_and_clear_IfUsed ==
  LET source == s_reboot_reason_sources[next]
  IN  /\ pc = "resolve"
      /\ seen' = seen \o Found(files[source])
      /\ files' = IF seen = <<>> THEN [files EXCEPT ![source] = Absent] ELSE files
      /\ next' = next + 1
      /\ pc' = IF next = 3 THEN "emit" ELSE "resolve"
      /\ cleared' = (cleared \/ next = 3)
      /\ UNCHANGED <<boot, tracked, enabled, starts, events, unsaved, fresh, dropped>>

\* prv_resolve_reboot_reason reads and clears one source after the other.  A
\* file that cannot be parsed is deleted too.
read_and_clear ==
  LET source == s_reboot_reason_sources[next]
  IN  /\ pc = "resolve"
      /\ seen' = seen \o Found(files[source])
      /\ files' = [files EXCEPT ![source] = Absent]
      /\ next' = next + 1
      /\ pc' = IF next = 3 THEN "emit" ELSE "resolve"
      /\ cleared' = (cleared \/ next = 3)
      /\ UNCHANGED <<boot, tracked, enabled, starts, events, unsaved, fresh, dropped>>

\* The reason to report: that of the first source that gave one.
prioritized_reason == IF seen = <<>> THEN "Unknown" ELSE seen[1].reason

\* prv_track_reboot queues the event, or fails to build or to queue it.
prv_track_reboot ==
  /\ pc = "emit"
  /\ pc' = "up"
  /\ \/ /\ events' = Append(events,
             [boot |-> boot, reason |-> prioritized_reason, fresh |-> fresh,
              from |-> IF seen = <<>> THEN boot - 1 ELSE seen[1].boot])
        /\ UNCHANGED dropped
     \/ dropped' = TRUE /\ UNCHANGED events
  /\ next' = 1 /\ seen' = <<>>
  /\ UNCHANGED <<boot, tracked, files, enabled, starts, unsaved, cleared, fresh>>

-----------------------------------------------------------------------------
(* The end of the daemon, and of the boot *)

\* The daemon stops, or dies, and the system goes on.
Die ==
  /\ pc # "down"
  /\ pc' = "down" /\ next' = 1 /\ seen' = <<>>
  /\ dropped' = (dropped \/ pc \in {"resolve", "emit"})
  /\ UNCHANGED <<boot, tracked, files, enabled, starts, events, unsaved, cleared,
                 fresh>>

\* The next boot.
NextBoot ==
  /\ boot < MaxBoots
  /\ boot' = boot + 1
  /\ pc' = "down" /\ next' = 1 /\ seen' = <<>>
  /\ unsaved' = FALSE /\ cleared' = FALSE /\ dropped' = FALSE
  /\ fresh' = cleared
  /\ UNCHANGED <<tracked, enabled, starts, events>>

\* systemd is stopping.  prv_reboot_destroy writes a reason, which depends on
\* the bootloader's ustate; the write may be cut short, or the daemon may be
\* killed before it.
Shutdown ==
  /\ NextBoot
  /\ \/ /\ pc = "up" /\ enabled
        /\ \E r \in {"FirmwareUpdate", "UserReset", Unreadable} :
             files' = [files EXCEPT !["internal"] = [reason |-> r, boot |-> boot]]
     \/ UNCHANGED files

\* The kernel panics, and pstore keeps the log if the device has one; or the
\* power fails.
KernelPanic ==
  /\ NextBoot
  /\ \/ files' = [files EXCEPT !["pstore"] = [reason |-> "KernelPanic", boot |-> boot]]
     \/ UNCHANGED files

\* prv_cmd_reboot of ticosctl writes its reason, and calls reboot, which may
\* fail.  The reason counts for the next boot.  The file is one that others
\* may write too, and it may be cut short.
prv_cmd_reboot(r) ==
  /\ files["custom"] # [reason |-> r, boot |-> boot]
  /\ files' = [files EXCEPT !["custom"] = [reason |-> r, boot |-> boot]]
  /\ fresh' = (fresh /\ cleared)
  /\ UNCHANGED <<boot, tracked, enabled, pc, next, seen, starts, events, unsaved,
                 cleared, dropped>>

-----------------------------------------------------------------------------
Next ==
  \/ Start
  \/ ticos_reboot_is_untracked_boot_id
  \/ prv_write_current_boot_id
  \/ ticos_reboot_process_pstore_files
  \/ read_and_clear
  \/ prv_track_reboot
  \/ Die
  \/ Shutdown
  \/ KernelPanic
  \/ \E r \in Reasons \cup {Unreadable} : prv_cmd_reboot(r)

Spec == Init /\ [][Next]_vars

-----------------------------------------------------------------------------
Origin == [reason : Reason \cup {Unreadable, "absent"}, boot : 0 .. MaxBoots]
Event == [boot : 1 .. MaxBoots, reason : Reason, fresh : BOOLEAN, from : 0 .. MaxBoots]

\* The types of the variables; no event has a reason that was not readable.
TypeOK ==
  /\ boot \in 1 .. MaxBoots /\ tracked \in 0 .. MaxBoots
  /\ files \in [Sources -> Origin]
  /\ pc \in {"down", "check", "mark", "clean", "resolve", "emit", "up"}
  /\ next \in 1 .. 4
  /\ seen \in Seq(Origin)
  /\ starts \in 0 .. MaxStarts
  /\ events \in Seq(Event)
  /\ enabled \in BOOLEAN /\ unsaved \in BOOLEAN
  /\ cleared \in BOOLEAN /\ fresh \in BOOLEAN /\ dropped \in BOOLEAN

EventsOf(n) == {i \in 1 .. Len(events) : events[i].boot = n}

\* At most one event is queued in a boot, however often the daemon dies and
\* starts again and wherever it dies, unless last_tracked_boot_id could not
\* be written (the promise of CHANGELOG 1.1.0 for prv_run_if_untracked_boot_id).
OneEventPerBoot ==
  ~unsaved => \A i, j \in EventsOf(boot) : i = j

\* A running daemon that collects data has queued the event of this boot,
\* unless it died between marking the boot and queueing the event, failed to
\* queue it or to open last_tracked_boot_id, or the boot was marked with data
\* collection disabled (prv_run_if_untracked_boot_id).
EventUnlessDropped ==
  pc = "up" /\ enabled /\ ~dropped => EventsOf(boot) # {}

\* The reason reported for a boot is one that the previous boot left, never
\* an older one, if that boot had read its own sources, nobody wrote one
\* before this boot read them and the boot id could be written: all sources
\* are cleared, also those that lose (prv_resolve_reboot_reason).
ReasonIsOfThisReboot ==
  \A i \in 1 .. Len(events) : events[i].fresh => events[i].from = events[i].boot - 1
=============================================================================
