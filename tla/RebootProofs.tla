----------------------------- MODULE RebootProofs -----------------------------
(***************************************************************************)
(* The promises of Reboot for any number of boots, starts of the daemon    *)
(* and reasons.                                                            *)
(*                                                                         *)
(* last_tracked_boot_id holds the running boot exactly from prv_write_-    *)
(* current_boot_id on, so a second pass over the sources in the same boot  *)
(* needs a failed write (MarkInv).  From there the events of the running   *)
(* boot can be counted (EventInv), and what the sources hold can be dated: *)
(* once they were all read, only what this boot wrote is left in them, so  *)
(* the next boot starts with the remains of this one only (DateInv).       *)
(***************************************************************************)
EXTENDS Reboot, TLAPS

\* An event of the running boot is queued.
HasEvent == \E i \in 1 .. Len(events) : events[i].boot = boot

\* A file holds nothing but what boot n wrote.
Holds(file, n) == file = Absent \/ file.boot = n

\* What reading a source may give, and what its writers may leave in it.
Readable == [reason : Reason, boot : 0 .. MaxBoots]
Written == [reason : Reason \cup {Unreadable}, boot : 0 .. MaxBoots]
FileInv == files \in [Sources -> Written \cup {Absent}]

\* The types of the variables that are not built from files or events.
NumTypes ==
  /\ boot \in 1 .. MaxBoots /\ tracked \in 0 .. MaxBoots
  /\ pc \in {"down", "check", "mark", "clean", "resolve", "emit", "up"}
  /\ next \in 1 .. 4
  /\ starts \in 0 .. MaxStarts
FlagTypes ==
  /\ enabled \in BOOLEAN /\ unsaved \in BOOLEAN
  /\ cleared \in BOOLEAN /\ fresh \in BOOLEAN /\ dropped \in BOOLEAN

\* The local variables of ticosd_reboot_init.
InitInv ==
  /\ pc \notin {"resolve", "emit"} => next = 1 /\ seen = <<>>
  /\ pc = "resolve" => next \in 1 .. 3
  /\ pc \in {"resolve", "emit"} => enabled
  /\ pc = "clean" => ~enabled
  /\ seen \in Seq(Readable)

\* The boot id on the disk: the running boot is tracked once it was marked,
\* unless the mark could not be written.
MarkInv ==
  /\ tracked <= boot
  /\ pc = "mark" => tracked # boot
  /\ pc \in {"resolve", "emit"} /\ ~unsaved => tracked = boot
  /\ cleared /\ ~unsaved => tracked = boot /\ pc # "resolve"
  /\ unsaved => ~fresh

\* The events of this boot: none before the boot is marked or while its pass
\* over the sources goes on; one after that, unless it was dropped.
EventInv ==
  /\ \A i \in 1 .. Len(events) : events[i].boot <= boot
  /\ ~unsaved =>
       \A i, j \in 1 .. Len(events) : events[i].boot = boot /\ events[j].boot = boot => i = j
  /\ ~unsaved /\ (tracked # boot \/ pc \in {"resolve", "emit"}) => ~HasEvent
  /\ tracked = boot /\ ~dropped /\ pc \notin {"resolve", "emit"} => HasEvent
  /\ pc = "up" /\ enabled /\ ~dropped => HasEvent

\* Of which boot the reasons are: those of the previous one before the sources
\* were read, those of the running one after that.
DateInv ==
  /\ fresh /\ ~cleared => \A s \in Sources : Holds(files[s], boot - 1)
  /\ cleared => \A s \in Sources : Holds(files[s], boot)
  /\ pc = "resolve" => \A k \in 1 .. next - 1 : Holds(files[s_reboot_reason_sources[k]], boot)
  /\ fresh => \A i \in 1 .. Len(seen) : seen[i].boot = boot - 1
  /\ ReasonIsOfThisReboot

IInv == TypeOK /\ FileInv /\ InitInv /\ MarkInv /\ EventInv /\ DateInv

-----------------------------------------------------------------------------
\* Reading a source gives at most one reason, which is readable, and is what the
\* source held.
LEMMA FoundReadable ==
  ASSUME NEW f \in Written \cup {Absent}
  PROVE  /\ Found(f) \in Seq(Readable)
         /\ Found(f) = <<>> \/ (Found(f) = <<f>> /\ f # Absent /\ f \in Readable)
<1>1. CASE f = Absent \/ f.reason = Unreadable
  BY <1>1 DEF Found
<1>2. CASE ~(f = Absent \/ f.reason = Unreadable)
  <2>1. f \in Readable
    BY <1>2 DEF Written, Readable
  <2>2. QED
    BY <1>2, <2>1 DEF Found
<1>3. QED
  BY <1>1, <1>2

\* The sources are read one after the other, each once.
LEMMA SourceOf ==
  /\ \A k \in 1 .. 3 : s_reboot_reason_sources[k] \in Sources
  /\ \A s \in Sources : \E k \in 1 .. 3 : s = s_reboot_reason_sources[k]
BY DEF s_reboot_reason_sources, Sources

\* Every step leaves in the files what their writers write, or nothing.
LEMMA FileStep == TypeOK /\ FileInv /\ InitInv /\ [Next]_vars => FileInv'
<1> SUFFICES ASSUME TypeOK /\ FileInv /\ InitInv, [Next]_vars PROVE FileInv'
  OBVIOUS
<1> USE DEF TypeOK, FileInv
<1>1. CASE Start
  BY <1>1 DEF Start, history
<1>2. CASE ticos_reboot_is_untracked_boot_id
  BY <1>2 DEF ticos_reboot_is_untracked_boot_id, Tracked, history
<1>3. CASE prv_write_current_boot_id
  BY <1>3 DEF prv_write_current_boot_id, history
<1>4. CASE ticos_reboot_process_pstore_files
  BY <1>4 DEF ticos_reboot_process_pstore_files, history
<1>5. CASE read_and_clear
  BY <1>5 DEF read_and_clear, history
<1>6. CASE prv_track_reboot
  BY <1>6 DEF prv_track_reboot, history
<1>7. CASE Die
  BY <1>7 DEF Die, history
<1>8. CASE Shutdown
  <2>1. \A r \in {"FirmwareUpdate", "UserReset", Unreadable} : [reason |-> r, boot |-> boot] \in Written
    BY BoundsAssumption DEF Written, Reason
  <2>2. QED
    BY <1>8, <2>1 DEF Shutdown, NextBoot, Sources
<1>9. CASE KernelPanic
  <2>1. [reason |-> "KernelPanic", boot |-> boot] \in Written
    BY BoundsAssumption DEF Written, Reason
  <2>2. QED
    BY <1>9, <2>1 DEF KernelPanic, NextBoot, Sources
<1>10. ASSUME NEW r \in Reasons \cup {Unreadable}, prv_cmd_reboot(r) PROVE FileInv'
  <2>1. [reason |-> r, boot |-> boot] \in Written
    BY BoundsAssumption DEF Written, Reason
  <2>2. QED
    BY <1>10, <2>1 DEF prv_cmd_reboot, Sources
<1>11. CASE UNCHANGED vars
  BY <1>11 DEF vars, history
<1>12. QED
  BY <1>1, <1>2, <1>3, <1>4, <1>5, <1>6, <1>7, <1>8, <1>9, <1>10, <1>11 DEF Next

\* Every step keeps the local variables of ticosd_reboot_init in order.
LEMMA InitStep == TypeOK /\ FileInv /\ InitInv /\ [Next]_vars => InitInv'
<1> SUFFICES ASSUME TypeOK /\ FileInv /\ InitInv, [Next]_vars PROVE InitInv'
  OBVIOUS
<1> USE DEF TypeOK, InitInv
<1>1. CASE Start
  BY <1>1 DEF Start, history
<1>2. CASE ticos_reboot_is_untracked_boot_id
  BY <1>2 DEF ticos_reboot_is_untracked_boot_id, Tracked, history
<1>3. CASE prv_write_current_boot_id
  BY <1>3 DEF prv_write_current_boot_id, history
<1>4. CASE ticos_reboot_process_pstore_files
  BY <1>4 DEF ticos_reboot_process_pstore_files, history
<1>5. CASE read_and_clear
  <2> DEFINE f == files[s_reboot_reason_sources[next]]
  <2>1. f \in Written \cup {Absent}
    BY <1>5, SourceOf DEF read_and_clear, FileInv
  <2>2. seen' \in Seq(Readable)
    BY <1>5, <2>1, FoundReadable DEF read_and_clear
  <2>3. QED
    BY <1>5, <2>2 DEF read_and_clear
<1>6. CASE prv_track_reboot
  BY <1>6 DEF prv_track_reboot, history
<1>7. CASE Die
  BY <1>7 DEF Die, history
<1>8. CASE Shutdown
  BY <1>8 DEF Shutdown, NextBoot, history
<1>9. CASE KernelPanic
  BY <1>9 DEF KernelPanic, NextBoot, history
<1>10. ASSUME NEW r \in Reasons \cup {Unreadable}, prv_cmd_reboot(r) PROVE InitInv'
  BY <1>10 DEF prv_cmd_reboot
<1>11. CASE UNCHANGED vars
  BY <1>11 DEF vars, history
<1>12. QED
  BY <1>1, <1>2, <1>3, <1>4, <1>5, <1>6, <1>7, <1>8, <1>9, <1>10, <1>11 DEF Next

\* Every step keeps the types of the counters and of pc.
LEMMA NumStep == TypeOK /\ InitInv /\ [Next]_vars => NumTypes'
<1> SUFFICES ASSUME TypeOK /\ InitInv, [Next]_vars PROVE NumTypes'
  OBVIOUS
<1> USE BoundsAssumption DEF TypeOK, NumTypes, InitInv
<1>1. CASE Start
  BY <1>1 DEF Start, history
<1>2. CASE ticos_reboot_is_untracked_boot_id
  BY <1>2 DEF ticos_reboot_is_untracked_boot_id, Tracked, history
<1>3. CASE prv_write_current_boot_id
  BY <1>3 DEF prv_write_current_boot_id, history
<1>4. CASE ticos_reboot_process_pstore_files
  BY <1>4 DEF ticos_reboot_process_pstore_files, history
<1>5. CASE read_and_clear
  BY <1>5 DEF read_and_clear, history
<1>6. CASE prv_track_reboot
  BY <1>6 DEF prv_track_reboot, history
<1>7. CASE Die
  BY <1>7 DEF Die, history
<1>8. CASE Shutdown
  BY <1>8 DEF Shutdown, NextBoot, history
<1>9. CASE KernelPanic
  BY <1>9 DEF KernelPanic, NextBoot, history
<1>10. ASSUME NEW r \in Reasons \cup {Unreadable}, prv_cmd_reboot(r) PROVE NumTypes'
  BY <1>10 DEF prv_cmd_reboot
<1>11. CASE UNCHANGED vars
  BY <1>11 DEF vars, history
<1>12. QED
  BY <1>1, <1>2, <1>3, <1>4, <1>5, <1>6, <1>7, <1>8, <1>9, <1>10, <1>11 DEF Next

\* Every step keeps the flags Boolean.
LEMMA FlagStep == TypeOK /\ [Next]_vars => FlagTypes'
<1> SUFFICES ASSUME TypeOK, [Next]_vars PROVE FlagTypes'
  OBVIOUS
<1> USE DEF TypeOK, FlagTypes
<1>1. CASE Start
  BY <1>1 DEF Start, history
<1>2. CASE ticos_reboot_is_untracked_boot_id
  BY <1>2, Zenon DEF ticos_reboot_is_untracked_boot_id, Tracked, history
<1>3. CASE prv_write_current_boot_id
  BY <1>3, Zenon DEF prv_write_current_boot_id, history
<1>4. CASE ticos_reboot_process_pstore_files
  BY <1>4, Zenon DEF ticos_reboot_process_pstore_files, history
<1>5. CASE read_and_clear
  BY <1>5, Zenon DEF read_and_clear, history
<1>6. CASE prv_track_reboot
  BY <1>6, Zenon DEF prv_track_reboot, history
<1>7. CASE Die
  BY <1>7, Zenon DEF Die, history
<1>8. CASE Shutdown
  BY <1>8, Zenon DEF Shutdown, NextBoot, history
<1>9. CASE KernelPanic
  BY <1>9, Zenon DEF KernelPanic, NextBoot, history
<1>10. ASSUME NEW r \in Reasons \cup {Unreadable}, prv_cmd_reboot(r) PROVE FlagTypes'
  BY <1>10, Zenon DEF prv_cmd_reboot
<1>11. CASE UNCHANGED vars
  BY <1>11 DEF vars, history
<1>12. QED
  BY <1>1, <1>2, <1>3, <1>4, <1>5, <1>6, <1>7, <1>8, <1>9, <1>10, <1>11 DEF Next

\* Every event queued has a readable reason.
LEMMA EventTypes == TypeOK /\ InitInv /\ [Next]_vars => (events \in Seq(Event))'
<1> SUFFICES ASSUME TypeOK /\ InitInv, [Next]_vars PROVE (events \in Seq(Event))'
  OBVIOUS
<1> USE DEF TypeOK
<1>1. CASE Start
  BY <1>1 DEF Start, history
<1>2. CASE ticos_reboot_is_untracked_boot_id
  BY <1>2 DEF ticos_reboot_is_untracked_boot_id, Tracked, history
<1>3. CASE prv_write_current_boot_id
  BY <1>3 DEF prv_write_current_boot_id, history
<1>4. CASE ticos_reboot_process_pstore_files
  BY <1>4 DEF ticos_reboot_process_pstore_files, history
<1>5. CASE read_and_clear
  BY <1>5 DEF read_and_clear, history
<1>6. CASE prv_track_reboot
  <2> DEFINE e == [boot |-> boot, reason |-> prioritized_reason, fresh |-> fresh,
                   from |-> IF seen = <<>> THEN boot - 1 ELSE seen[1].boot]
  <2>1. prioritized_reason \in Reason
    <3>1. CASE seen = <<>>
      BY <3>1 DEF prioritized_reason, Reason
    <3>2. CASE seen # <<>>
      <4>1. seen[1] \in Readable
        BY <3>2 DEF InitInv
      <4>2. QED
        BY <3>2, <4>1 DEF prioritized_reason, Readable
    <3>3. QED
      BY <3>1, <3>2
  <2>2. (IF seen = <<>> THEN boot - 1 ELSE seen[1].boot) \in 0 .. MaxBoots
    <3>1. CASE seen = <<>>
      BY <3>1, BoundsAssumption
    <3>2. CASE seen # <<>>
      <4>1. seen[1] \in Readable
        BY <3>2 DEF InitInv
      <4>2. QED
        BY <3>2, <4>1 DEF Readable
    <3>3. QED
      BY <3>1, <3>2
  <2>3. e \in Event
    BY <2>1, <2>2 DEF Event
  <2>4. events' = Append(events, e) \/ events' = events
    BY <1>6 DEF prv_track_reboot
  <2>5. QED
    BY <2>3, <2>4
<1>7. CASE Die
  BY <1>7 DEF Die, history
<1>8. CASE Shutdown
  BY <1>8 DEF Shutdown, NextBoot, history
<1>9. CASE KernelPanic
  BY <1>9 DEF KernelPanic, NextBoot, history
<1>10. ASSUME NEW r \in Reasons \cup {Unreadable}, prv_cmd_reboot(r) PROVE (events \in Seq(Event))'
  BY <1>10 DEF prv_cmd_reboot
<1>11. CASE UNCHANGED vars
  BY <1>11 DEF vars, history
<1>12. QED
  BY <1>1, <1>2, <1>3, <1>4, <1>5, <1>6, <1>7, <1>8, <1>9, <1>10, <1>11 DEF Next

\* Every step keeps what last_tracked_boot_id says of the running boot.
LEMMA MarkStep == TypeOK /\ InitInv /\ MarkInv /\ [Next]_vars => MarkInv'
<1> SUFFICES ASSUME TypeOK /\ InitInv /\ MarkInv, [Next]_vars PROVE MarkInv'
  OBVIOUS
<1> USE DEF TypeOK, InitInv, MarkInv
<1>1. CASE Start
  BY <1>1 DEF Start, history
<1>2. CASE ticos_reboot_is_untracked_boot_id
  BY <1>2 DEF ticos_reboot_is_untracked_boot_id, Tracked, history
<1>3. CASE prv_write_current_boot_id
  BY <1>3 DEF prv_write_current_boot_id, history
<1>4. CASE ticos_reboot_process_pstore_files
  BY <1>4 DEF ticos_reboot_process_pstore_files, history
<1>5. CASE read_and_clear
  BY <1>5 DEF read_and_clear, history
<1>6. CASE prv_track_reboot
  BY <1>6 DEF prv_track_reboot, history
<1>7. CASE Die
  BY <1>7 DEF Die, history
<1>8. CASE Shutdown
  BY <1>8 DEF Shutdown, NextBoot, history
<1>9. CASE KernelPanic
  BY <1>9 DEF KernelPanic, NextBoot, history
<1>10. ASSUME NEW r \in Reasons \cup {Unreadable}, prv_cmd_reboot(r) PROVE MarkInv'
  BY <1>10 DEF prv_cmd_reboot
<1>11. CASE UNCHANGED vars
  BY <1>11 DEF vars, history
<1>12. QED
  BY <1>1, <1>2, <1>3, <1>4, <1>5, <1>6, <1>7, <1>8, <1>9, <1>10, <1>11 DEF Next

\* The next boot begins without an event of its own.
LEMMA EventNextBoot ==
  ASSUME TypeOK, MarkInv, EventInv, NextBoot
  PROVE  EventInv'
<1>1. events' = events /\ boot' = boot + 1 /\ tracked' = tracked /\ pc' = "down"
  BY DEF NextBoot
<1>2. \A i \in 1 .. Len(events') : events'[i].boot <= boot /\ events'[i].boot \in Nat
  <2> SUFFICES ASSUME NEW i \in 1 .. Len(events) PROVE events[i].boot <= boot /\ events[i].boot \in Nat
    BY <1>1
  <2>1. events[i] \in Event
    BY DEF TypeOK
  <2>2. QED
    BY <2>1 DEF EventInv, Event
<1>3. tracked' # boot'
  BY <1>1 DEF MarkInv, TypeOK
<1>4. ~HasEvent'
  BY <1>1, <1>2 DEF HasEvent, TypeOK
<1>5. \A i \in 1 .. Len(events') : events'[i].boot <= boot' /\ events'[i].boot # boot'
  BY <1>1, <1>2 DEF TypeOK
<1>6. QED
  BY <1>1, <1>3, <1>4, <1>5 DEF EventInv

\* Every step keeps the account of the events of the running boot.
LEMMA EventStep == TypeOK /\ InitInv /\ MarkInv /\ EventInv /\ [Next]_vars => EventInv'
<1> SUFFICES ASSUME TypeOK /\ InitInv /\ MarkInv /\ EventInv, [Next]_vars PROVE EventInv'
  OBVIOUS
<1> USE DEF TypeOK, InitInv, MarkInv, EventInv, HasEvent
<1>1. CASE Start
  BY <1>1 DEF Start, history
<1>2. CASE ticos_reboot_is_untracked_boot_id
  BY <1>2 DEF ticos_reboot_is_untracked_boot_id, Tracked, history
<1>3. CASE prv_write_current_boot_id
  BY <1>3 DEF prv_write_current_boot_id, history
<1>4. CASE ticos_reboot_process_pstore_files
  BY <1>4 DEF ticos_reboot_process_pstore_files, history
<1>5. CASE read_and_clear
  BY <1>5 DEF read_and_clear, history
<1>6. CASE prv_track_reboot
  <2>1. CASE events' = events
    BY <1>6, <2>1 DEF prv_track_reboot
  <2>2. CASE events' # events
    <3>1. PICK e : e.boot = boot /\ events' = Append(events, e)
      BY <1>6, <2>2 DEF prv_track_reboot
    <3>2. /\ Len(events') = Len(events) + 1 /\ Len(events) \in Nat
          /\ \A i \in 1 .. Len(events) : events'[i] = events[i]
          /\ events'[Len(events) + 1] = e
      BY <3>1
    <3>3. boot' = boot /\ HasEvent'
      BY <1>6, <3>1, <3>2 DEF prv_track_reboot
    <3>4. \A i \in 1 .. Len(events') : events'[i].boot <= boot'
      BY <3>1, <3>2, <3>3
    <3>5. ~unsaved => \A i \in 1 .. Len(events) : events'[i].boot # boot
      BY <1>6, <3>2 DEF prv_track_reboot
    <3>6. ~unsaved' => \A i, j \in 1 .. Len(events') :
                         events'[i].boot = boot' /\ events'[j].boot = boot' => i = j
      BY <1>6, <3>2, <3>3, <3>5 DEF prv_track_reboot
    <3>7. unsaved' = unsaved /\ tracked' = tracked /\ pc' = "up" /\ (~unsaved => tracked = boot)
      BY <1>6 DEF prv_track_reboot
    <3>8. QED
      BY <3>3, <3>4, <3>6, <3>7
  <2>3. QED
    BY <2>1, <2>2
<1>7. CASE Die
  BY <1>7 DEF Die, history
<1>8. CASE Shutdown
  BY <1>8, EventNextBoot DEF Shutdown
<1>9. CASE KernelPanic
  BY <1>9, EventNextBoot DEF KernelPanic
<1>10. ASSUME NEW r \in Reasons \cup {Unreadable}, prv_cmd_reboot(r) PROVE EventInv'
  BY <1>10 DEF prv_cmd_reboot
<1>11. CASE UNCHANGED vars
  BY <1>11 DEF vars, history
<1>12. QED
  BY <1>1, <1>2, <1>3, <1>4, <1>5, <1>6, <1>7, <1>8, <1>9, <1>10, <1>11 DEF Next

\* Every step keeps the dates of what the sources hold and of what was read.
LEMMA DateStep == TypeOK /\ FileInv /\ InitInv /\ MarkInv /\ DateInv /\ [Next]_vars => DateInv'
<1> SUFFICES ASSUME TypeOK /\ FileInv /\ InitInv /\ MarkInv /\ DateInv, [Next]_vars PROVE DateInv'
  OBVIOUS
<1> USE DEF TypeOK, InitInv, MarkInv, DateInv, Holds, ReasonIsOfThisReboot
<1>1. CASE Start
  BY <1>1 DEF Start, history
<1>2. CASE ticos_reboot_is_untracked_boot_id
  BY <1>2 DEF ticos_reboot_is_untracked_boot_id, Tracked, history
<1>3. CASE prv_write_current_boot_id
  BY <1>3 DEF prv_write_current_boot_id, history
<1>4. CASE ticos_reboot_process_pstore_files
  BY <1>4 DEF ticos_reboot_process_pstore_files, history
<1>5. CASE read_and_clear
  <2> DEFINE source == s_reboot_reason_sources[next]
  <2>1. source \in Sources /\ next \in 1 .. 3
    BY <1>5, SourceOf DEF read_and_clear
  <2>2. files'[source] = Absent /\ \A s \in Sources \ {source} : files'[s] = files[s]
    BY <1>5, <2>1 DEF read_and_clear
  <2>3. \A s \in Sources, n \in Int : Holds(files[s], n) => Holds(files'[s], n)
    BY <2>2
  <2>4. boot' = boot /\ fresh' = fresh /\ events' = events /\ next' = next + 1 /\ unsaved' = unsaved
    BY <1>5 DEF read_and_clear
  <2>5. \A k \in 1 .. next' - 1 : Holds(files'[s_reboot_reason_sources[k]], boot)
    <3> SUFFICES ASSUME NEW k \in 1 .. next PROVE Holds(files'[s_reboot_reason_sources[k]], boot)
      BY <2>1, <2>4
    <3>1. CASE k = next
      BY <3>1, <2>2
    <3>2. CASE k # next
      <4>1. k \in 1 .. next - 1 /\ s_reboot_reason_sources[k] \in Sources
        BY <3>2, <2>1, SourceOf
      <4>2. Holds(files[s_reboot_reason_sources[k]], boot)
        BY <1>5, <4>1 DEF read_and_clear
      <4>3. QED
        BY <4>1, <4>2, <2>3
    <3>3. QED
      BY <3>1, <3>2
  <2>6. cleared' => \A s \in Sources : Holds(files'[s], boot)
    <3>1. CASE cleared
      BY <3>1, <2>3
    <3>2. CASE next = 3
      BY <3>2, <2>4, <2>5, SourceOf
    <3>3. QED
      BY <1>5, <3>1, <3>2 DEF read_and_clear
  <2>7. fresh /\ ~cleared' => \A s \in Sources : Holds(files'[s], boot - 1)
    BY <1>5, <2>3 DEF read_and_clear
  <2>8. fresh => \A i \in 1 .. Len(seen') : seen'[i].boot = boot - 1
    <3> SUFFICES ASSUME fresh PROVE \A i \in 1 .. Len(seen') : seen'[i].boot = boot - 1
      OBVIOUS
    <3>1. ~cleared
      BY <1>5 DEF read_and_clear
    <3>2. Holds(files[source], boot - 1) /\ files[source] \in Written \cup {Absent}
      BY <3>1, <2>1 DEF FileInv
    <3>3. PICK w : w = Found(files[source]) /\ seen' = seen \o w
      BY <1>5 DEF read_and_clear
    <3>4. CASE w = <<>>
      <4>1. seen' = seen
        BY <3>3, <3>4
      <4>2. QED
        BY <4>1
    <3>5. CASE w = <<files[source]>> /\ files[source] # Absent
      <4>1. seen' = Append(seen, files[source])
        BY <3>3, <3>5
      <4>2. QED
        BY <4>1, <3>2, <3>5
    <3>6. QED
      BY <3>2, <3>3, <3>4, <3>5, FoundReadable
  <2>9. ReasonIsOfThisReboot'
    BY <2>4
  <2> HIDE DEF Holds, ReasonIsOfThisReboot
  <2>10. QED
    BY <2>4, <2>5, <2>6, <2>7, <2>8, <2>9
<1>6. CASE prv_track_reboot
  <2>1. ReasonIsOfThisReboot'
    <3>1. CASE events' = events
      BY <3>1
    <3>2. CASE events' # events
      <4>1. PICK e : /\ events' = Append(events, e)
                     /\ e = [boot |-> boot, reason |-> prioritized_reason, fresh |-> fresh,
                             from |-> IF seen = <<>> THEN boot - 1 ELSE seen[1].boot]
        BY <1>6, <3>2 DEF prv_track_reboot
      <4>2. fresh => e.from = e.boot - 1
        BY <4>1
      <4>3. e.fresh = fresh
        BY <4>1
      <4>4. /\ Len(events') = Len(events) + 1 /\ Len(events) \in Nat
            /\ \A i \in 1 .. Len(events) : events'[i] = events[i]
            /\ events'[Len(events) + 1] = e
        BY <4>1
      <4>5. QED
        BY <4>2, <4>3, <4>4
    <3>3. QED
      BY <3>1, <3>2
  <2> HIDE DEF ReasonIsOfThisReboot
  <2>2. QED
    BY <1>6, <2>1 DEF prv_track_reboot
<1>7. CASE Die
  BY <1>7 DEF Die, history
<1>8. CASE Shutdown
  BY <1>8 DEF Shutdown, NextBoot, history
<1>9. CASE KernelPanic
  BY <1>9 DEF KernelPanic, NextBoot, history
<1>10. ASSUME NEW r \in Reasons \cup {Unreadable}, prv_cmd_reboot(r) PROVE DateInv'
  BY <1>10 DEF prv_cmd_reboot
<1>11. CASE UNCHANGED vars
  BY <1>11 DEF vars, history
<1>12. QED
  BY <1>1, <1>2, <1>3, <1>4, <1>5, <1>6, <1>7, <1>8, <1>9, <1>10, <1>11 DEF Next

\* The initial state satisfies the invariant.
LEMMA InitIInv == Init => IInv
<1> SUFFICES ASSUME Init PROVE IInv
  OBVIOUS
<1> USE BoundsAssumption DEF Init
<1>1. FileInv
  BY DEF FileInv
<1>2. Written \cup {Absent} \subseteq Origin
  BY DEF Written, Origin, Absent, Unreadable
<1>3. TypeOK
  <2>1. files \in [Sources -> Origin]
    BY <1>1, <1>2 DEF FileInv
  <2>2. seen \in Seq(Origin) /\ events \in Seq(Event)
    OBVIOUS
  <2>3. NumTypes
    BY DEF NumTypes
  <2>4. FlagTypes
    BY Zenon DEF FlagTypes
  <2>5. QED
    BY <2>1, <2>2, <2>3, <2>4 DEF TypeOK, NumTypes, FlagTypes
<1>4. InitInv /\ MarkInv
  BY DEF InitInv, MarkInv
<1>5. EventInv /\ DateInv
  BY DEF EventInv, HasEvent, DateInv, Holds, ReasonIsOfThisReboot
<1>6. QED
  BY <1>1, <1>3, <1>4, <1>5 DEF IInv

\* Every step keeps the invariant.
LEMMA NextIInv == IInv /\ [Next]_vars => IInv'
<1> SUFFICES ASSUME IInv, [Next]_vars PROVE IInv'
  OBVIOUS
<1>1. FileInv' /\ InitInv' /\ NumTypes' /\ FlagTypes' /\ (events \in Seq(Event))'
  BY FileStep, InitStep, NumStep, FlagStep, EventTypes DEF IInv
<1>2. Written \cup {Absent} \subseteq Origin /\ Readable \subseteq Origin
  BY BoundsAssumption DEF Written, Readable, Origin, Absent, Unreadable
<1>3. (files \in [Sources -> Origin])'
  BY <1>1, <1>2 DEF FileInv
<1>4. (seen \in Seq(Origin))'
  BY <1>1, <1>2 DEF InitInv
<1>5. TypeOK'
  BY <1>1, <1>3, <1>4 DEF TypeOK, NumTypes, FlagTypes
<1>6. MarkInv' /\ EventInv' /\ DateInv'
  BY MarkStep, EventStep, DateStep DEF IInv
<1>7. QED
  BY <1>1, <1>5, <1>6 DEF IInv

\* The invariant holds in every behaviour.
LEMMA Invariance == Spec => []IInv
BY InitIInv, NextIInv, PTL DEF Spec

-----------------------------------------------------------------------------
\* The types of the variables; every event has a readable reason.
THEOREM TypeCorrect == Spec => []TypeOK
<1>1. IInv => TypeOK
  BY DEF IInv
<1>2. QED
  BY <1>1, Invariance, PTL

\* ticosd_reboot_init queues at most one event in a boot, wherever it dies and
\* however often it is started again, if the boot id could be written.
THEOREM AtMostOneEvent == Spec => []OneEventPerBoot
<1>1. IInv => OneEventPerBoot
  BY DEF IInv, EventInv, OneEventPerBoot, EventsOf
<1>2. QED
  BY <1>1, Invariance, PTL

\* A running daemon that collects data has queued the event of this boot, on
\* every path that does not drop it.
THEOREM EventIsQueued == Spec => []EventUnlessDropped
<1>1. IInv => EventUnlessDropped
  BY DEF IInv, EventInv, EventUnlessDropped, EventsOf, HasEvent
<1>2. QED
  BY <1>1, Invariance, PTL

\* The reason reported is that of the reboot it is reported for.
THEOREM ReasonIsCurrent == Spec => []ReasonIsOfThisReboot
<1>1. IInv => ReasonIsOfThisReboot
  BY DEF IInv, DateInv
<1>2. QED
  BY <1>1, Invariance, PTL
=============================================================================
