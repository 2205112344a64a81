---- MODULE MCDeviceProofs ----
(***************************************************************************)
(* Proofs about one machine: the flasher, the first starts of the Pi, the  *)
(* player's updates, the projector and the service files, each under its   *)
(* own name as MCDevice instantiates it.  Every part has an inductive      *)
(* invariant of its own (the names that end in Typed, Marked, Kept, Way...) *)
(* and a lemma per invariant that a step of the part keeps it; the         *)
(* theorems at the end put them together.                                  *)
(***************************************************************************)
EXTENDS MCDevice, Sequences, TLAPS

----------------------------------------------------------------------------
(* PlayerUpdates.                                                            *)
UpdatesTyped ==
  /\ Updates!TypeOK
  /\ reboots \in [Updates!Ids -> Nat] /\ markFailures \in Nat

\* The marker is behind the outcome at hand, and names an outcome the console has.
UpdatesMarked ==
  /\ status = NULL => marker = 0
  /\ status # NULL => marker <= status.id
  /\ pc \in {"sync", "mark"} /\ pending # NULL =>
       marker < pending.id /\ status # NULL /\ pending.id <= status.id
  /\ pc \in {"mark", "reboot"} => pending # NULL
  /\ pc = "mark" => pending.id \in seen
  /\ marker # 0 => marker \in seen

\* A restart is owed while the daemon is about to make it; a marker written pays for one.
Owed(i) == IF pc = "reboot" /\ pending.id = i THEN 1 ELSE 0
Granted(i) == IF marker >= i THEN 1 ELSE 0
UpdatesPaid == \A i \in Updates!Ids : reboots[i] + Owed(i) <= markFailures + Granted(i)

UpdatesSound == UpdatesTyped /\ UpdatesMarked /\ UpdatesPaid

LEMMA OutcomeWritten ==
  ASSUME UpdatesTyped, NEW s \in Updates!Scripts, Updates!ScriptEnds(s)
  PROVE  /\ status' \in Updates!Status /\ status' # NULL
         /\ status'.id = Updates!NextId /\ status'.id \in Nat
         /\ status'.started = unit[s]
         /\ s = "player" => status'.ref = "player"
<1>1. Updates!NextId \in Updates!Ids
  BY DEF UpdatesTyped, Updates!TypeOK, Updates!ScriptEnds, Updates!NextId, Updates!Status, Updates!Ids, Updates!MaxIds
<1>2. unit[s] \in 0..MaxTime
  BY DEF UpdatesTyped, Updates!TypeOK, Updates!ScriptEnds
<1>3. PICK reboot \in BOOLEAN :
        status' = [id |-> Updates!NextId, ref |-> IF s = "player" THEN "player" ELSE "os",
                   started |-> unit[s], reboot |-> reboot]
  BY DEF Updates!ScriptEnds
<1>4. status' \in Updates!Status
  BY <1>1, <1>2, <1>3 DEF Updates!Status, Updates!Refs
<1> QED
  BY <1>1, <1>3, <1>4, NothingAssumption DEF Updates!Ids, Updates!MaxIds

LEMMA UpdatesTypedStep ==
  ASSUME UpdatesTyped, UpdatesMarked, Updates!Next
  PROVE  UpdatesTyped'
<1> USE NothingAssumption, BoundsAssumption
<1> USE DEF UpdatesTyped, Updates!TypeOK, Updates!files, Updates!daemon, Updates!counts, Updates!Ids,
            Updates!MaxIds
<1>1. CASE Updates!Tick
  BY <1>1 DEF Updates!Tick
<1>2. CASE Updates!StartCycle
  BY <1>2 DEF Updates!StartCycle, Updates!Unreported
<1>3. CASE Updates!Sync
  BY <1>3 DEF Updates!Sync
<1>4. CASE Updates!MarkReported
  BY <1>4 DEF Updates!MarkReported, Updates!Mark, UpdatesMarked, Updates!Status
<1>5. CASE Updates!Reboot
  BY <1>5 DEF Updates!Reboot, Updates!FreshDaemon, UpdatesMarked, Updates!Status
<1>6. CASE Updates!EndCycle
  BY <1>6 DEF Updates!EndCycle, Updates!StartPlayer
<1>7. ASSUME NEW action \in {"update-player", "update-os", "update-all"}, Updates!Command(action)
      PROVE  UpdatesTyped'
  BY <1>7 DEF Updates!Command, Updates!StartPlayer
<1>8. ASSUME NEW s \in Updates!Scripts, Updates!ScriptEnds(s)
      PROVE  UpdatesTyped'
  <2>1. status' \in Updates!Status
    BY <1>8, OutcomeWritten
  <2>2. unit' \in [Updates!Scripts -> 0..MaxTime \cup {NULL}]
    BY <1>8 DEF Updates!ScriptEnds
  <2>3. pending' \in Updates!Status \cup {NULL} /\ pc' \in {"start", "sync", "mark", "reboot", "end"}
    BY <1>8 DEF Updates!ScriptEnds, Updates!FreshDaemon
  <2> QED
    BY <1>8, <2>1, <2>2, <2>3 DEF Updates!ScriptEnds
<1>9. ASSUME NEW p \in BOOLEAN, Updates!Interrupted(p)
      PROVE  UpdatesTyped'
  BY <1>9 DEF Updates!Interrupted, Updates!FreshDaemon
<1>10. QED
  BY <1>1, <1>2, <1>3, <1>4, <1>5, <1>6, <1>7, <1>8, <1>9 DEF Updates!Next

LEMMA UpdatesMarkedStep ==
  ASSUME UpdatesTyped, UpdatesMarked, Updates!Next
  PROVE  UpdatesMarked'
<1> USE NothingAssumption, BoundsAssumption
<1> USE DEF UpdatesTyped, Updates!TypeOK, Updates!files, Updates!daemon, Updates!counts, Updates!Ids,
            Updates!MaxIds, UpdatesMarked, Updates!Status
<1>1. CASE Updates!Tick
  BY <1>1 DEF Updates!Tick
<1>2. CASE Updates!StartCycle
  BY <1>2 DEF Updates!StartCycle, Updates!Unreported
<1>3. CASE Updates!Sync
  BY <1>3 DEF Updates!Sync
<1>4. CASE Updates!MarkReported
  BY <1>4 DEF Updates!MarkReported, Updates!Mark
<1>5. CASE Updates!Reboot
  BY <1>5 DEF Updates!Reboot, Updates!FreshDaemon, UpdatesMarked, Updates!Status
<1>6. CASE Updates!EndCycle
  BY <1>6 DEF Updates!EndCycle
<1>7. ASSUME NEW action \in {"update-player", "update-os", "update-all"}, Updates!Command(action)
      PROVE  UpdatesMarked'
  BY <1>7 DEF Updates!Command
<1>8. ASSUME NEW s \in Updates!Scripts, Updates!ScriptEnds(s)
      PROVE  UpdatesMarked'
  <2>1. status' # NULL /\ status'.id \in Nat /\ status'.id = Updates!NextId
    BY <1>8, OutcomeWritten
  <2>2. Updates!FreshDaemon \/ UNCHANGED <<pc, pending>>
    BY <1>8 DEF Updates!ScriptEnds
  <2>3. UNCHANGED <<marker, seen>>
    BY <1>8 DEF Updates!ScriptEnds
  <2>4. status # NULL => status.id \in Nat /\ status'.id = 1 + status.id
    BY <2>1 DEF Updates!NextId
  <2> QED
    BY <2>1, <2>2, <2>3, <2>4 DEF Updates!FreshDaemon
<1>9. ASSUME NEW p \in BOOLEAN, Updates!Interrupted(p)
      PROVE  UpdatesMarked'
  BY <1>9 DEF Updates!Interrupted, Updates!FreshDaemon
<1>10. QED
  BY <1>1, <1>2, <1>3, <1>4, <1>5, <1>6, <1>7, <1>8, <1>9 DEF Updates!Next

LEMMA UpdatesPaidStep ==
  ASSUME UpdatesTyped, UpdatesMarked, UpdatesPaid, Updates!Next
  PROVE  UpdatesPaid'
<1> USE NothingAssumption, BoundsAssumption
<1> USE DEF UpdatesTyped, Updates!TypeOK, Updates!files, Updates!daemon, Updates!counts, Updates!Ids,
            Updates!MaxIds, UpdatesPaid, Owed, Granted
<1>1. CASE Updates!Tick
  BY <1>1 DEF Updates!Tick
<1>2. CASE Updates!StartCycle
  BY <1>2 DEF Updates!StartCycle
<1>3. CASE Updates!Sync
  BY <1>3 DEF Updates!Sync
<1>4. CASE Updates!MarkReported
  BY <1>4 DEF Updates!MarkReported, Updates!Mark, UpdatesMarked, Updates!Status
<1>5. CASE Updates!Reboot
  BY <1>5 DEF Updates!Reboot, Updates!FreshDaemon, UpdatesMarked, Updates!Status
<1>6. CASE Updates!EndCycle
  BY <1>6 DEF Updates!EndCycle
<1>7. ASSUME NEW action \in {"update-player", "update-os", "update-all"}, Updates!Command(action)
      PROVE  UpdatesPaid'
  BY <1>7 DEF Updates!Command
<1>8. ASSUME NEW s \in Updates!Scripts, Updates!ScriptEnds(s)
      PROVE  UpdatesPaid'
  BY <1>8 DEF Updates!ScriptEnds, Updates!FreshDaemon
<1>9. ASSUME NEW p \in BOOLEAN, Updates!Interrupted(p)
      PROVE  UpdatesPaid'
  BY <1>9 DEF Updates!Interrupted, Updates!FreshDaemon
<1>10. QED
  BY <1>1, <1>2, <1>3, <1>4, <1>5, <1>6, <1>7, <1>8, <1>9 DEF Updates!Next

\* The start of the last nightly update can be read: from its unit, then from its outcome.
UpdatesNight ==
  /\ auto \in 0..now \cup {NULL} /\ hidden \in BOOLEAN
  /\ auto # NULL /\ unit["player"] # NULL => auto <= unit["player"]
  /\ auto # NULL /\ ~hidden =>
       unit["player"] # NULL \/ (status # NULL /\ status.ref = "player" /\ auto <= status.started)

LEMMA UpdatesNightStep ==
  ASSUME UpdatesTyped, UpdatesNight, Updates!Next
  PROVE  UpdatesNight'
<1> USE NothingAssumption, BoundsAssumption
<1> USE DEF UpdatesTyped, Updates!TypeOK, Updates!files, Updates!daemon, Updates!counts, UpdatesNight
<1>1. CASE Updates!Tick
  BY <1>1 DEF Updates!Tick
<1>2. CASE Updates!StartCycle
  BY <1>2 DEF Updates!StartCycle
<1>3. CASE Updates!Sync
  BY <1>3 DEF Updates!Sync
<1>4. CASE Updates!MarkReported
  BY <1>4 DEF Updates!MarkReported
<1>5. CASE Updates!Reboot
  BY <1>5 DEF Updates!Reboot, Updates!Scripts, Updates!Refs
<1>6. CASE Updates!EndCycle
  <2>1. CASE Updates!Due /\ Updates!PlayerIdle
    <3>1. unit' = [unit EXCEPT !["player"] = now] /\ auto' = now /\ hidden' = FALSE /\ now' = now
      BY <1>6, <2>1 DEF Updates!EndCycle, Updates!StartPlayer
    <3>2. unit'["player"] = now
      BY <3>1 DEF Updates!Scripts, Updates!Refs
    <3>3. now \in Nat
      OBVIOUS
    <3>4. auto' \in 0..now' \cup {NULL}
      BY <3>1, <3>3
    <3>6. hidden' \in BOOLEAN
      BY <3>1, Zenon
    <3>5. unit'["player"] # NULL /\ auto' <= unit'["player"]
      BY <3>1, <3>2, <3>3
    <3> QED
      BY <3>4, <3>5, <3>6 DEF UpdatesNight
  <2>2. CASE ~(Updates!Due /\ Updates!PlayerIdle)
    <3>1. UNCHANGED <<unit, auto, hidden, now, status>>
      BY <1>6, <2>2 DEF Updates!EndCycle, Updates!StartPlayer
    <3> QED
      BY <3>1
  <2> QED
    BY <2>1, <2>2
<1>7. ASSUME NEW action \in {"update-player", "update-os", "update-all"}, Updates!Command(action)
      PROVE  UpdatesNight'
  BY <1>7 DEF Updates!Command, Updates!StartPlayer, Updates!PlayerIdle, Updates!Scripts, Updates!Refs
<1>8. ASSUME NEW s \in Updates!Scripts, Updates!ScriptEnds(s)
      PROVE  UpdatesNight'
  <2>1. /\ status' # NULL /\ status'.started = unit[s]
        /\ s = "player" => status'.ref = "player"
    BY <1>8, OutcomeWritten
  <2>2. hidden' = (s # "player") /\ UNCHANGED <<now, auto>> /\ unit[s] # NULL
    BY <1>8 DEF Updates!ScriptEnds
  <2>3. s # "player" => unit'["player"] = unit["player"]
    BY <1>8 DEF Updates!ScriptEnds, Updates!Scripts, Updates!Refs
  <2>4. s = "player" => unit'["player"] = NULL
    BY <1>8 DEF Updates!ScriptEnds, Updates!Scripts, Updates!Refs
  <2> QED
    BY <2>1, <2>2, <2>3, <2>4
<1>9. ASSUME NEW p \in BOOLEAN, Updates!Interrupted(p)
      PROVE  UpdatesNight'
  BY <1>9 DEF Updates!Interrupted, Updates!Scripts, Updates!Refs
<1>10. QED
  BY <1>1, <1>2, <1>3, <1>4, <1>5, <1>6, <1>7, <1>8, <1>9 DEF Updates!Next

LEMMA NightlyStep ==
  ASSUME UpdatesTyped, UpdatesNight, Updates!Next
  PROVE  Updates!NightlyOnceStep
<1> SUFFICES ASSUME auto' # auto, ~hidden, auto # NULL
             PROVE  Updates!Longer(auto)
  BY NothingAssumption DEF Updates!NightlyOnceStep, Updates!Longer
<1>1. Updates!EndCycle
  BY DEF Updates!Next, Updates!Tick, Updates!StartCycle, Updates!Sync, Updates!MarkReported, Updates!Reboot,
     Updates!Command, Updates!ScriptEnds, Updates!Interrupted
<1>2. Updates!Due /\ Updates!PlayerIdle
  BY <1>1 DEF Updates!EndCycle
<1>3. status # NULL /\ status.ref = "player" /\ auto <= status.started
  BY <1>2 DEF UpdatesNight, Updates!PlayerIdle
<1>4. Updates!Longer(status.started)
  BY <1>2, <1>3 DEF Updates!Due, Updates!LastStarted
<1>5. status.started \in Nat /\ auto \in Nat /\ now \in Nat
  BY <1>3, BoundsAssumption DEF UpdatesTyped, Updates!TypeOK, Updates!Status, UpdatesNight
<1> QED
  BY <1>3, <1>4, <1>5, NothingAssumption, BoundsAssumption DEF Updates!Longer

----------------------------------------------------------------------------
(* Projector.  A transition that is still to be tried has not been made.     *)
RemoteSound ==
  /\ Remote!TypeOK /\ toggle \in BOOLEAN /\ missed \in BOOLEAN /\ presses \in Nat
  /\ retry # "none" => applied_want # NULL
  /\ Remote!SwitchedAsWanted
  /\ applied_want # NULL /\ retry # "none" /\ presses = 0 /\ toggle /\ ~missed => power # applied_want
  /\ Remote!ReportedAsIs

LEMMA TheOther == ASSUME NEW p \in Remote!Powers PROVE Remote!Flipped(p) \in Remote!Powers \ {p}
<1>1. \E q \in Remote!Powers : q # p
  BY DEF Remote!Powers
<1> QED
  BY <1>1 DEF Remote!Flipped

LEMMA CodeSent ==
  ASSUME RemoteSound, NEW w \in Remote!Powers, NEW n \in 0..2
  PROVE  /\ Remote!After(w, n) \in Remote!Powers
         /\ ~toggle /\ n > 0 => Remote!After(w, n) = w
         /\ n = 0 => Remote!After(w, n) = power
         /\ toggle /\ n = 1 => Remote!After(w, n) # power
<1>1. Remote!Flipped(power) \in Remote!Powers \ {power} /\ power \in Remote!Powers
  BY TheOther DEF RemoteSound, Remote!TypeOK
<1>2. n \in {0, 1, 2} /\ 0 % 2 = 0 /\ 1 % 2 = 1 /\ 2 % 2 = 0
  OBVIOUS
<1> QED
  BY <1>1, <1>2 DEF Remote!After, RemoteSound

LEMMA SentEffect ==
  ASSUME RemoteSound, NEW w \in Remote!Powers, Remote!Sent(w)
  PROVE  /\ power' \in Remote!Powers /\ state' = w /\ error' \in BOOLEAN /\ missed' \in BOOLEAN
         /\ ~toggle => power' = w
         /\ toggle /\ ~missed' => ~missed /\ ~Remote!Withdrawn /\ power' # power
<1>1. PICK n \in 1..2 : power' = Remote!After(w, n) /\ missed' = (missed \/ n = 2 \/ Remote!Withdrawn)
  BY DEF Remote!Sent
<1>2. n \in 0..2 /\ n > 0 /\ (n # 2 => n = 1)
  OBVIOUS
<1> QED
  BY <1>1, <1>2, CodeSent DEF Remote!Sent, RemoteSound

LEMMA SendFailsEffect ==
  ASSUME RemoteSound, NEW w \in Remote!Powers, Remote!SendFails(w)
  PROVE  /\ power' \in Remote!Powers /\ state' = "unknown" /\ error' \in BOOLEAN /\ missed' \in BOOLEAN
         /\ ~missed' => ~missed /\ ~Remote!Withdrawn /\ power' = power
<1>1. PICK n \in 0..2 : power' = Remote!After(w, n) /\ missed' = (missed \/ n > 0 \/ Remote!Withdrawn)
  BY DEF Remote!SendFails
<1>2. n > 0 \/ n = 0
  OBVIOUS
<1> QED
  BY <1>1, <1>2, CodeSent DEF Remote!SendFails, RemoteSound

LEMMA RemoteStep ==
  ASSUME RemoteSound, Remote!Next
  PROVE  RemoteSound'
<1> USE DEF Remote!self, Remote!counted, Remote!SwitchedAsWanted, Remote!ReportedAsIs, Remote!TypeOK
<1> USE NothingAssumption
<1>1. CASE Remote!Adopt
  BY <1>1 DEF RemoteSound, Remote!Adopt, Remote!Adopts
<1>2. CASE Remote!Apply
  <2>0. /\ block.want \in Remote!Powers /\ applied_want' = block.want /\ block' = block
        /\ toggle' = toggle /\ presses' = presses
        /\ block.want # applied_want \/ retry = "due"
        /\ toggle => applied_want # NULL
    BY <1>2 DEF Remote!Apply, Remote!Wanted, Remote!Adopts, RemoteSound
  <2>1. ASSUME Remote!Sent(block.want), retry' = "none" PROVE RemoteSound'
    <3>1. toggle /\ ~missed' /\ presses = 0 => power' = block.want
      BY <2>0, <2>1, SentEffect DEF RemoteSound, Remote!Withdrawn, Remote!Powers
    <3>2. /\ power' \in Remote!Powers /\ state' = block.want /\ error' \in BOOLEAN
          /\ missed' \in BOOLEAN /\ (~toggle => power' = block.want)
      BY <2>0, <2>1, SentEffect
    <3> QED
      BY <2>0, <2>1, <3>1, <3>2 DEF RemoteSound
  <2>2. ASSUME Remote!SendFails(block.want), retry' = "later" PROVE RemoteSound'
    <3>1. /\ power' \in Remote!Powers /\ state' = "unknown" /\ error' \in BOOLEAN /\ missed' \in BOOLEAN
          /\ ~missed' => ~missed /\ ~Remote!Withdrawn /\ power' = power
      BY <2>0, <2>2, SendFailsEffect
    <3>2. toggle /\ ~missed' /\ presses = 0 => power' # block.want
      BY <2>0, <3>1 DEF RemoteSound, Remote!Withdrawn
    <3> QED
      BY <2>0, <2>2, <3>1, <3>2 DEF RemoteSound
  <2> QED
    BY <1>2, <2>1, <2>2 DEF Remote!Apply
<1>3. ASSUME NEW w \in Remote!Powers, Remote!Command(w)
      PROVE  RemoteSound'
  BY <1>3, SentEffect, SendFailsEffect DEF RemoteSound, Remote!Command
<1>4. CASE Remote!SetBlock
  BY <1>4 DEF RemoteSound, Remote!SetBlock
<1>5. CASE Remote!CooldownOver
  BY <1>5 DEF RemoteSound, Remote!CooldownOver
<1>6. CASE Remote!Stop
  BY <1>6 DEF RemoteSound, Remote!Stop
<1> QED
  BY <1>1, <1>2, <1>3, <1>4, <1>5, <1>6 DEF Remote!Next

----------------------------------------------------------------------------
(* ServiceFiles.  What is being written belongs to a version that has not been *)
(* applied, and the manifest's version is never ahead of the console's.       *)
ServicesSound ==
  /\ Services!TypeOK
  /\ kind \in {"tunnel", "camera"} /\ undone \in BOOLEAN
  /\ manifest \in Nat /\ manifest <= console.version
  /\ data \in Contents \cup {NULL}
  /\ at # "restart" /\ ~undone => running = file
  /\ at = "restart" => file = data
  /\ kind = "camera" =>
       /\ version # NULL => version \in Nat /\ version <= manifest
       /\ at \in {"write", "restart"} => version # manifest
       /\ at \in {"write", "restart"} /\ manifest = console.version => data = console.content
       /\ version = console.version => file = console.content

LEMMA ServicesStep ==
  ASSUME ServicesSound, Services!Next
  PROVE  ServicesSound'
<1> USE DEF ServicesSound, Services!TypeOK
<1> USE NothingAssumption, BoundsAssumption
<1>1. CASE Services!Changed
  BY <1>1 DEF Services!Changed
<1>2. CASE Services!Sync
  BY <1>2 DEF Services!Sync
<1>3. CASE Services!Fetch
  BY <1>3 DEF Services!Fetch
<1>4. CASE Services!Same
  BY <1>4 DEF Services!Same
<1>5. CASE Services!Compare
  BY <1>5 DEF Services!Compare
<1>6. CASE Services!Write
  <2>0. at = "write" /\ UNCHANGED <<kind, console, manifest, data, running>>
    BY <1>6 DEF Services!Write
  <2>1. CASE file = data /\ at' = "sync" /\ Services!Done /\ UNCHANGED <<file, undone>>
    BY <2>0, <2>1 DEF Services!Done, Services!Applied
  <2>2. CASE file' = data /\ at' = "restart" /\ undone' = FALSE /\ UNCHANGED version
    <3>1. undone' \in BOOLEAN
      BY <2>2, Zenon
    <3> QED
      BY <2>0, <2>2, <3>1
  <2>3. CASE at' = "sync" /\ UNCHANGED <<file, undone, version>>
    BY <2>0, <2>3
  <2> QED
    BY <1>6, <2>1, <2>2, <2>3 DEF Services!Write
<1>7. CASE Services!RestartService
  <2>0. at = "restart" /\ at' = "sync" /\ UNCHANGED <<kind, console, manifest, data, file>>
    BY <1>7 DEF Services!RestartService
  <2>1. Services!Done \/ UNCHANGED version
    BY <1>7 DEF Services!RestartService
  <2>2. running' \in {running, file} /\ undone' \in BOOLEAN /\ (~undone' => running' = file)
    BY <1>7 DEF Services!RestartService
  <2> QED
    BY <2>0, <2>1, <2>2 DEF Services!Done, Services!Applied
<1>8. ASSUME NEW pi \in BOOLEAN, Services!Stop(pi)
      PROVE  ServicesSound'
  <2>1. /\ at' = "sync" /\ data' = NULL /\ version' = NULL
        /\ UNCHANGED <<kind, console, manifest, file>>
    BY <1>8 DEF Services!Stop
  <2>2. running' = IF pi THEN file ELSE running
    BY <1>8 DEF Services!Stop
  <2>3. undone' = (~pi /\ (undone \/ at = "restart"))
    BY <1>8 DEF Services!Stop
  <2>4. undone' \in BOOLEAN
    BY <2>3, Zenon
  <2>5. running' \in Contents \cup {NULL} /\ (~undone' => running' = file)
    BY <2>2, <2>3
  <2> QED
    BY <2>1, <2>4, <2>5
<1>9. CASE Services!ServiceEnds
  BY <1>9 DEF Services!ServiceEnds
<1> QED
  BY <1>1, <1>2, <1>3, <1>4, <1>5, <1>6, <1>7, <1>8, <1>9 DEF Services!Next

----------------------------------------------------------------------------
(* Flash, w for Windows.                                                     *)
DiskTyped(w) ==
  /\ Disk(w)!TypeOK
  /\ runs \in 0..MaxRuns /\ swaps \in Nat /\ token <= runs /\ (pc = "register" => token < runs)
  /\ pc # "idle" => conf.card \in Cards
  /\ pc \in {"lock", "write", "verify", "commit", "find", "files", "reveal", "eject", "done"} => drive \in Cards
  /\ pc \in {"files", "reveal", "eject", "done"} => mount \in Cards

LEMMA DiskTypedStep ==
  ASSUME NEW w \in BOOLEAN, DiskTyped(w), Disk(w)!Next
  PROVE  DiskTyped(w)'
<1> USE CardsAssumption, BoundsAssumption
<1> USE DEF DiskTyped, Disk!TypeOK, Disk!disk, Disk!seen, Disk!Tables, Disk!Bodies
<1>1. ASSUME NEW c \in Cards, Disk(w)!Confirm(c)
      PROVE  DiskTyped(w)'
  BY <1>1 DEF Disk!Confirm, Disk!Shown, Disk!Confirmed
<1>2. ASSUME NEW c \in Cards \cup {NULL}, Disk(w)!Replug(c)
      PROVE  DiskTyped(w)'
  BY <1>2 DEF Disk!Replug, Disk!Shown
<1>3. CASE Disk(w)!UserFormats
  BY <1>3 DEF Disk!UserFormats
<1>4. CASE Disk(w)!CacheDamaged
  BY <1>4 DEF Disk!CacheDamaged
<1>5. CASE Disk(w)!Again
  BY <1>5 DEF Disk!Again
<1>6. CASE Disk(w)!Fails
  BY <1>6 DEF Disk!Fails
<1>7. CASE Disk(w)!Register
  BY <1>7 DEF Disk!Register
<1>8. CASE Disk(w)!LocalImage
  BY <1>8 DEF Disk!LocalImage
<1>9. CASE Disk(w)!UseCached
  BY <1>9 DEF Disk!UseCached
<1>10. CASE Disk(w)!Download
  <2>1. cache' \in [file : {"none", "whole", "damaged"}, sha : BOOLEAN]
    <3>1. cache' = [file |-> "whole", sha |-> TRUE] \/ cache' = [cache EXCEPT !.file = "none"]
      BY <1>10 DEF Disk!Download, Disk!Usable
    <3>2. CASE cache' = [file |-> "whole", sha |-> TRUE]
      BY <3>2
    <3>3. CASE cache' = [cache EXCEPT !.file = "none"]
      BY <3>3
    <3> QED
      BY <3>1, <3>2, <3>3
  <2>2. pc' \in {"check", "failed"}
    BY <1>10 DEF Disk!Download
  <2> QED
    BY <1>10, <2>1, <2>2 DEF Disk!Download
<1>11. CASE Disk(w)!CheckDisk
  BY <1>11 DEF Disk!CheckDisk
<1>12. CASE Disk(w)!ClearDisk
  BY <1>12 DEF Disk!ClearDisk, Disk!PutTable
<1>13. CASE Disk(w)!OpenDrive
  BY <1>13 DEF Disk!OpenDrive
<1>14. CASE Disk(w)!Lock
  BY <1>14 DEF Disk!Lock, Disk!PutTable
<1>15. CASE Disk(w)!WriteImage
  <2>1. PICK b \in {"image", "lost", "damaged"} :
           card' = [card EXCEPT ![drive].body = b, ![drive].files = 0]
    BY <1>15 DEF Disk!WriteImage
  <2>2. drive \in Cards
    BY <1>15 DEF Disk!WriteImage
  <2>3. card' = [card EXCEPT ![drive] = [card[drive] EXCEPT !.body = b, !.files = 0]]
    BY <2>1, <2>2
  <2>4. [card[drive] EXCEPT !.body = b, !.files = 0]
          \in [table : Disk(w)!Tables, body : Disk(w)!Bodies, files : 0..MaxRuns]
    <3>1. [card[drive] EXCEPT !.body = b] \in [table : Disk(w)!Tables, body : Disk(w)!Bodies, files : 0..MaxRuns]
      BY <2>1, <2>2
    <3> DEFINE filled == [card[drive] EXCEPT !.body = b]
    <3>2. filled \in [table : Disk(w)!Tables, body : Disk(w)!Bodies, files : 0..MaxRuns] /\ 0 \in 0..MaxRuns
      BY <3>1, BoundsAssumption
    <3> HIDE DEF filled
    <3>3. [filled EXCEPT !.files = 0] \in [table : Disk(w)!Tables, body : Disk(w)!Bodies, files : 0..MaxRuns]
      BY <3>2
    <3> QED
      BY <3>3 DEF filled
  <2>5. card' \in [Cards -> [table : Disk(w)!Tables, body : Disk(w)!Bodies, files : 0..MaxRuns]]
    BY <2>2, <2>3, <2>4
  <2>6. pc' \in {"failed", "verify"}
    BY <1>15 DEF Disk!WriteImage
  <2>7. UNCHANGED <<slot, sees, cache, token, drive, mount, conf, runs, swaps>> /\ pc # "idle"
    BY <1>15 DEF Disk!WriteImage
  <2>8. Disk(w)!TypeOK'
    <3> HIDE DEF Disk!Tables, Disk!Bodies
    <3> QED
      BY <2>5, <2>6, <2>7
  <2>9. runs' \in 0..MaxRuns /\ swaps' \in Nat /\ token' <= runs' /\ conf'.card \in Cards
    BY <2>7
  <2> HIDE DEF Disk!TypeOK
  <2> QED
    BY <2>2, <2>6, <2>7, <2>8, <2>9
<1>16. CASE Disk(w)!VerifyImage
  BY <1>16 DEF Disk!VerifyImage
<1>17. CASE Disk(w)!CommitHead
  BY <1>17 DEF Disk!CommitHead, Disk!Head, Disk!Rescan, Disk!Shown
<1>18. CASE Disk(w)!FindBootVolume
  BY <1>18 DEF Disk!FindBootVolume, Disk!Rescan, Disk!Shown
<1>19. CASE Disk(w)!WriteFiles
  BY <1>19 DEF Disk!WriteFiles
<1>20. CASE Disk(w)!Reveal
  BY <1>20 DEF Disk!Reveal, Disk!PutTable
<1>21. CASE Disk(w)!FinishFails
  BY <1>21 DEF Disk!FinishFails, Disk!PutTable
<1>22. CASE Disk(w)!Eject
  BY <1>22 DEF Disk!Eject, Disk!BeforeEject
<1> QED
  BY <1>1, <1>2, <1>3, <1>4, <1>5, <1>6, <1>7, <1>8, <1>9, <1>10, <1>11,
     <1>12, <1>13, <1>14, <1>15, <1>16, <1>17, <1>18, <1>19, <1>20, <1>21, <1>22 DEF Disk!Next

\* check_disk cannot tell the card from the confirmed one, or it came after check_disk.
MayBeCleared(c) == c \in swapped \/ (Sizes[c] = conf.size /\ conf.sig \in {Sigs[c], "image", "none"})

DiskKept(w) ==
  /\ Disk(w)!OtherCardsKept
  /\ pc \in {"clear", "open", "lock"} /\ slot # NULL => MayBeCleared(slot)
  /\ pc \in {"lock", "write"} => Sizes[drive] = conf.size

LEMMA DiskKeptStep ==
  ASSUME NEW w \in BOOLEAN, DiskTyped(w), DiskKept(w), Disk(w)!Next
  PROVE  DiskKept(w)'
<1> USE CardsAssumption
<1> USE DEF DiskTyped, Disk!TypeOK, Disk!disk, Disk!seen, DiskKept, Disk!OtherCardsKept, MayBeCleared
<1>1. ASSUME NEW c \in Cards, Disk(w)!Confirm(c)
      PROVE  DiskKept(w)'
  BY <1>1 DEF Disk!Confirm, Disk!Confirmed
<1>2. ASSUME NEW c \in Cards \cup {NULL}, Disk(w)!Replug(c)
      PROVE  DiskKept(w)'
  BY <1>2 DEF Disk!Replug
<1>3. CASE Disk(w)!UserFormats
  BY <1>3 DEF Disk!UserFormats
<1>4. CASE Disk(w)!CacheDamaged
  BY <1>4 DEF Disk!CacheDamaged
<1>5. CASE Disk(w)!Again
  BY <1>5 DEF Disk!Again
<1>6. CASE Disk(w)!Fails
  BY <1>6 DEF Disk!Fails
<1>7. CASE Disk(w)!Register
  BY <1>7 DEF Disk!Register
<1>8. CASE Disk(w)!LocalImage
  BY <1>8 DEF Disk!LocalImage
<1>9. CASE Disk(w)!UseCached
  BY <1>9 DEF Disk!UseCached
<1>10. CASE Disk(w)!Download
  BY <1>10 DEF Disk!Download
<1>11. CASE Disk(w)!CheckDisk
  BY <1>11 DEF Disk!CheckDisk, Disk!IsConfirmed, Disk!Sig
<1>12. CASE Disk(w)!ClearDisk
  BY <1>12 DEF Disk!ClearDisk
<1>13. CASE Disk(w)!OpenDrive
  BY <1>13 DEF Disk!OpenDrive, Disk!Fits
<1>14. CASE Disk(w)!Lock
  BY <1>14 DEF Disk!Lock
<1>15. CASE Disk(w)!WriteImage
  BY <1>15 DEF Disk!WriteImage
<1>16. CASE Disk(w)!VerifyImage
  BY <1>16 DEF Disk!VerifyImage
<1>17. CASE Disk(w)!CommitHead
  BY <1>17 DEF Disk!CommitHead
<1>18. CASE Disk(w)!FindBootVolume
  BY <1>18 DEF Disk!FindBootVolume
<1>19. CASE Disk(w)!WriteFiles
  BY <1>19 DEF Disk!WriteFiles
<1>20. CASE Disk(w)!Reveal
  BY <1>20 DEF Disk!Reveal
<1>21. CASE Disk(w)!FinishFails
  BY <1>21 DEF Disk!FinishFails
<1>22. CASE Disk(w)!Eject
  BY <1>22 DEF Disk!Eject
<1> QED
  BY <1>1, <1>2, <1>3, <1>4, <1>5, <1>6, <1>7, <1>8, <1>9, <1>10, <1>11,
     <1>12, <1>13, <1>14, <1>15, <1>16, <1>17, <1>18, <1>19, <1>20, <1>21, <1>22 DEF Disk!Next

\* The run, place by place: which card it has opened and mounted, and what is on it by then.
\* With a second swap the files can go to one card and the table to another, so no more than one.
FirstTable(w) == IF w THEN "hidden" ELSE "whole"
Excepted(w) == ~(swaps = 0 \/ (w /\ conf.unfinished \subseteq {conf.card}))

DiskFinished(w) ==
  /\ swaps <= 1
  /\ swaps = 0 /\ pc # "idle" => slot = conf.card
  /\ swaps = 0 /\ pc \in {"lock", "write", "verify", "commit", "find", "files", "reveal"} => drive = conf.card
  /\ pc \in {"register", "image", "check", "clear", "open", "lock", "write", "verify", "commit"} =>
       \A c \in Cards : card[c].table = "hidden" => c \in conf.unfinished
  /\ pc \in {"find", "files", "reveal"} =>
       \A c \in Cards : card[c].table = "hidden" => c \in conf.unfinished \cup {drive}
  /\ pc = "commit" => card[drive].body = "image"
  /\ pc \in {"find", "files", "reveal"} =>
       /\ card[drive].table = FirstTable(w) /\ card[drive].body = "image"
       /\ slot = drive \/ (swaps = 1 /\ drive = conf.card)
  /\ pc \in {"files", "reveal"} /\ slot = drive => mount = drive
  /\ pc = "reveal" /\ slot = drive => card[drive].files = token
  /\ w /\ swaps = 0 /\ pc \in {"find", "files", "reveal", "eject"} => sees # "all"
  /\ pc \in {"eject", "done"} /\ ~Excepted(w) => card[mount] = [table |-> "whole", body |-> "image", files |-> token]

LEMMA DiskFinishedStep ==
  ASSUME NEW w \in BOOLEAN, MaxSwaps <= 1, MaxSwaps \in Nat, DiskTyped(w), DiskFinished(w), Disk(w)!Next
  PROVE  DiskFinished(w)'
<1> USE CardsAssumption
<1> USE DEF DiskTyped, Disk!TypeOK, Disk!disk, Disk!seen, DiskFinished, FirstTable, Excepted
<1>1. ASSUME NEW c \in Cards, Disk(w)!Confirm(c)
      PROVE  DiskFinished(w)'
  BY <1>1 DEF Disk!Confirm, Disk!Confirmed, Disk!Unfinished
<1>2. ASSUME NEW c \in Cards \cup {NULL}, Disk(w)!Replug(c)
      PROVE  DiskFinished(w)'
  BY <1>2 DEF Disk!Replug
<1>3. CASE Disk(w)!UserFormats
  BY <1>3 DEF Disk!UserFormats
<1>4. CASE Disk(w)!CacheDamaged
  BY <1>4 DEF Disk!CacheDamaged
<1>5. CASE Disk(w)!Again
  BY <1>5 DEF Disk!Again
<1>6. CASE Disk(w)!Fails
  BY <1>6 DEF Disk!Fails
<1>7. CASE Disk(w)!Register
  BY <1>7 DEF Disk!Register
<1>8. CASE Disk(w)!LocalImage
  BY <1>8 DEF Disk!LocalImage
<1>9. CASE Disk(w)!UseCached
  BY <1>9 DEF Disk!UseCached
<1>10. CASE Disk(w)!Download
  BY <1>10 DEF Disk!Download
<1>11. CASE Disk(w)!CheckDisk
  BY <1>11 DEF Disk!CheckDisk
<1>12. CASE Disk(w)!ClearDisk
  BY <1>12 DEF Disk!ClearDisk, Disk!PutTable
<1>13. CASE Disk(w)!OpenDrive
  BY <1>13 DEF Disk!OpenDrive
<1>14. CASE Disk(w)!Lock
  BY <1>14 DEF Disk!Lock, Disk!PutTable
<1>15. CASE Disk(w)!WriteImage
  BY <1>15 DEF Disk!WriteImage
<1>16. CASE Disk(w)!VerifyImage
  BY <1>16 DEF Disk!VerifyImage, Disk!ReadsBack
<1>17. CASE Disk(w)!CommitHead
  BY <1>17 DEF Disk!CommitHead, Disk!Head, Disk!Rescan, Disk!Shown
<1>18. CASE Disk(w)!FindBootVolume
  BY <1>18 DEF Disk!FindBootVolume, Disk!Rescan, Disk!Shown
<1>19. CASE Disk(w)!WriteFiles
  BY <1>19 DEF Disk!WriteFiles
<1>20. CASE Disk(w)!Reveal
  BY <1>20 DEF Disk!Reveal, Disk!PutTable, Disk!Ours
<1>21. CASE Disk(w)!FinishFails
  BY <1>21 DEF Disk!FinishFails, Disk!PutTable
<1>22. CASE Disk(w)!Eject
  BY <1>22 DEF Disk!Eject, Disk!BeforeEject
<1> QED
  BY <1>1, <1>2, <1>3, <1>4, <1>5, <1>6, <1>7, <1>8, <1>9, <1>10, <1>11,
     <1>12, <1>13, <1>14, <1>15, <1>16, <1>17, <1>18, <1>19, <1>20, <1>21, <1>22 DEF Disk!Next

----------------------------------------------------------------------------
(* FlasherApp.                                                               *)
Window == [op : 0..MaxTokens, box : BOOLEAN, then : BOOLEAN, req : {"none", "sent", "answered"},
           flash : BOOLEAN, asking : {"no", "click", "pump"}, with : 0..MaxTokens,
           installing : {"no", "handed", "told"}]
Posts == [do : {"signedIn"}, token : Nat, then : BOOLEAN] \cup [do : {"rejected"}, token : Nat]
         \cup [do : {"installed"}, quits : BOOLEAN] \cup [do : {"signInFailed", "finished", "ready"}]
UpdateFile == [downloaded : BOOLEAN, to : BOOLEAN, failed : BOOLEAN, skip : BOOLEAN, due : BOOLEAN]

AppTyped ==
  /\ up \in BOOLEAN /\ ui \in Window /\ st \in UpdateFile
  /\ check \in Nat /\ upd \in {"none", "auto", "manual"} /\ version \in {"old", "new"}
  /\ tokens \in 0..MaxTokens /\ saved \in 0..tokens /\ fetches \in Nat
  /\ worker \in {<<>>, <<"running">>, <<"ending">>}
  /\ ui.asking # "no" => worker = <<>>
  /\ ~up => ui = App!Closed /\ worker = <<>> /\ posts = <<>> /\ upd = "none" /\ check = 0

\* Callbacks name tokens the console issued, and rejected ones it revoked.
Truthful(s, n, R) ==
  \A i \in 1..Len(s) : /\ s[i].do = "signedIn" => s[i].token \in 1..n
                       /\ s[i].do = "rejected" => s[i].token \in R

PostsTyped == posts \in Seq(Posts) /\ Truthful(posts, tokens, revoked)

Answers == {"signedIn", "signInFailed"}
Has(s, kinds) == \E i \in 1..Len(s) : s[i].do \in kinds
Once(s, kinds) == \A i, j \in 1..Len(s) : s[i].do \in kinds /\ s[j].do \in kinds => i = j

LEMMA SignInOpens ==
  ASSUME NEW u \in Window, NEW t \in BOOLEAN
  PROVE  /\ App!SignIn(u, t) \in Window
         /\ App!SignIn(u, t).op = u.op /\ App!SignIn(u, t).req = u.req
         /\ App!SignIn(u, t).asking = u.asking /\ App!SignIn(u, t).with = u.with
         /\ App!SignIn(u, t).installing = u.installing
         /\ worker = <<>> => App!SignIn(u, t).box /\ ~App!SignIn(u, t).flash
         /\ worker # <<>> => App!SignIn(u, t) = u
BY DEF App!SignIn, App!Busy, Window

LEMMA SignInDoneCloses ==
  ASSUME NEW u \in Window
  PROVE  /\ App!SignInDone(u) \in Window
         /\ App!SignInDone(u).op = u.op /\ App!SignInDone(u).req = "none"
         /\ App!SignInDone(u).asking = u.asking /\ App!SignInDone(u).with = u.with
         /\ App!SignInDone(u).installing = u.installing
         /\ ~App!SignInDone(u).box
         /\ worker = <<>> /\ u.installing = "no" => App!SignInDone(u).flash
BY DEF App!SignInDone, App!FreeToFlash, App!Busy, Window

LEMMA AskOpens ==
  ASSUME NEW u \in Window, NEW how \in {"click", "pump"}
  PROVE  /\ App!Ask(u, how) \in Window
         /\ App!Ask(u, how).op = u.op /\ App!Ask(u, how).req = u.req
         /\ App!Ask(u, how).asking = how /\ App!Ask(u, how).with = u.op
         /\ App!Ask(u, how).installing = u.installing
         /\ App!Ask(u, how).box = u.box /\ App!Ask(u, how).flash = u.flash
BY DEF App!Ask, Window

LEMMA OnFlashOpens ==
  ASSUME NEW u \in Window, NEW how \in {"click", "pump"}
  PROVE  /\ App!OnFlash(u, how) \in Window
         /\ App!OnFlash(u, how).op = u.op /\ App!OnFlash(u, how).req = u.req
         /\ App!OnFlash(u, how).installing = u.installing
         /\ App!OnFlash(u, how).with \in {u.op, u.with}
         /\ App!OnFlash(u, how).asking \in {how, u.asking}
         /\ App!OnFlash(u, how).asking # u.asking => worker = <<>>
         /\ u.op # 0 => App!OnFlash(u, how).box = u.box /\ App!OnFlash(u, how).flash = u.flash
         /\ u.op = 0 => App!OnFlash(u, how) = u \/ App!OnFlash(u, how).box
<1>1. CASE App!Busy \/ u.installing # "no"
  BY <1>1 DEF App!OnFlash
<1>2. CASE ~App!Busy /\ u.installing = "no" /\ u.op = 0
  <2>1. App!OnFlash(u, how) = App!SignIn(u, TRUE)
    BY <1>2 DEF App!OnFlash, App!Connected
  <2>2. worker = <<>>
    BY <1>2 DEF App!Busy
  <2>3. /\ App!SignIn(u, TRUE) \in Window
        /\ App!SignIn(u, TRUE).op = u.op /\ App!SignIn(u, TRUE).req = u.req
        /\ App!SignIn(u, TRUE).asking = u.asking /\ App!SignIn(u, TRUE).with = u.with
        /\ App!SignIn(u, TRUE).installing = u.installing
        /\ App!SignIn(u, TRUE).box
    BY <2>2, SignInOpens, Zenon
  <2> QED
    BY <1>2, <2>1, <2>2, <2>3
<1>3. CASE ~App!Busy /\ u.installing = "no" /\ u.op # 0
  <2>1. App!OnFlash(u, how) = App!Ask(u, how)
    BY <1>3 DEF App!OnFlash, App!Connected
  <2> QED
    BY <1>3, <2>1, AskOpens DEF App!Busy
<1> QED
  BY <1>1, <1>2, <1>3

LEMMA ClosedWindow ==
  /\ App!Closed \in Window /\ App!Closed.op = 0 /\ ~App!Closed.box /\ App!Closed.req = "none"
  /\ App!Closed.flash /\ App!Closed.asking = "no" /\ App!Closed.installing = "no" /\ App!Closed.with = 0
BY BoundsAssumption DEF App!Closed, Window

LEMMA OperatorChanges ==
  ASSUME NEW u \in Window, NEW n \in 0..MaxTokens
  PROVE  /\ [u EXCEPT !.op = n] \in Window /\ [u EXCEPT !.op = n].op = n
         /\ [u EXCEPT !.op = n].box = u.box /\ [u EXCEPT !.op = n].flash = u.flash
         /\ [u EXCEPT !.op = n].req = u.req /\ [u EXCEPT !.op = n].asking = u.asking
         /\ [u EXCEPT !.op = n].installing = u.installing /\ [u EXCEPT !.op = n].with = u.with
BY DEF Window

LEMMA InstallOpens ==
  ASSUME NEW u \in Window
  PROVE  /\ App!Install(u) \in Window
         /\ App!Install(u).op = u.op /\ App!Install(u).req = u.req /\ App!Install(u).asking = u.asking
         /\ App!Install(u).with = u.with /\ App!Install(u).box = u.box /\ App!Install(u).installing = "handed"
BY DEF App!Install, Window

LEMMA HandedOverIs ==
  ASSUME NEW s \in UpdateFile
  PROVE  /\ App!HandedOver(s) \in UpdateFile
         /\ ~App!HandedOver(s).downloaded /\ App!HandedOver(s).to
         /\ App!HandedOver(s).failed = s.failed /\ App!HandedOver(s).skip = s.skip
BY DEF App!HandedOver, UpdateFile

LEMMA SayUpdatedIs ==
  ASSUME NEW s \in UpdateFile, NEW u \in Window, version \in {"old", "new"}
  PROVE  /\ App!SayUpdated(s, u) \in UpdateFile
         /\ App!SayUpdated(s, u).downloaded = s.downloaded
         /\ version = "old" => ~App!SayUpdated(s, u).to
         /\ version = "old" /\ s.to => App!SayUpdated(s, u).failed /\ (s.failed => App!SayUpdated(s, u).skip)
         /\ s.failed => App!SayUpdated(s, u).failed
         /\ s.skip => App!SayUpdated(s, u).skip
<1>1. CASE ~s.to \/ (version = "new" /\ u.box)
  <2>1. App!SayUpdated(s, u) = s
    BY <1>1 DEF App!SayUpdated
  <2> QED
    BY <1>1, <2>1
<1>2. CASE s.to /\ version = "new" /\ ~u.box
  <2>1. App!SayUpdated(s, u) = [s EXCEPT !.to = FALSE]
    BY <1>2 DEF App!SayUpdated
  <2> QED
    BY <1>2, <2>1 DEF UpdateFile
<1>3. CASE s.to /\ version = "old"
  <2>1. App!SayUpdated(s, u) = [App!NotedFailure(s) EXCEPT !.to = FALSE]
    BY <1>3 DEF App!SayUpdated
  <2> QED
    BY <1>3, <2>1 DEF UpdateFile, App!NotedFailure
<1> QED
  BY <1>1, <1>2, <1>3 DEF UpdateFile

LEMMA PostAppended ==
  ASSUME NEW s \in Seq(Posts), NEW p \in Posts
  PROVE  /\ Append(s, p) \in Seq(Posts) /\ Len(s) \in Nat /\ Len(Append(s, p)) = Len(s) + 1
         /\ \A i \in 1..Len(s) : Append(s, p)[i] = s[i]
         /\ Append(s, p)[Len(s) + 1] = p
OBVIOUS

LEMMA PostHandled ==
  ASSUME NEW s \in Seq(Posts), s # <<>>
  PROVE  /\ Tail(s) \in Seq(Posts) /\ Len(s) \in Nat /\ Len(s) >= 1 /\ Len(Tail(s)) = Len(s) - 1
         /\ \A i \in 1..Len(s) - 1 : Tail(s)[i] = s[i + 1] /\ i + 1 \in 1..Len(s)
         /\ Head(s) = s[1] /\ Head(s) \in Posts
OBVIOUS

LEMMA AppTypedStep ==
  ASSUME AppTyped, PostsTyped, App!Next
  PROVE  AppTyped'
<1> USE BoundsAssumption
<1> USE DEF AppTyped, App!volatile, App!stored, App!world
<1>1. CASE App!Start
  <2> DEFINE u == [App!Closed EXCEPT !.op = saved]
  <2>1. u \in Window /\ u.asking = "no"
    BY ClosedWindow, OperatorChanges
  <2>2. /\ App!Install(u) \in Window /\ App!Install(u).asking = "no"
        /\ App!SignIn(u, FALSE) \in Window /\ App!SignIn(u, FALSE).asking = "no"
    BY <2>1, InstallOpens, SignInOpens, Zenon
  <2>3. /\ App!HandedOver(st) \in UpdateFile
        /\ App!SayUpdated(st, u) \in UpdateFile /\ App!SayUpdated(st, App!SignIn(u, FALSE)) \in UpdateFile
    BY <2>1, <2>2, HandedOverIs, SayUpdatedIs
  <2>4. /\ ui' \in {u, App!Install(u), App!SignIn(u, FALSE)}
        /\ st' \in {App!HandedOver(st), App!SayUpdated(st, u), App!SayUpdated(st, App!SignIn(u, FALSE))}
    BY <1>1 DEF App!Start
  <2>5. /\ up' = TRUE /\ check' = saved /\ upd' \in {"none", "auto", upd}
        /\ UNCHANGED <<worker, posts, saved, version, tokens, revoked, fetches>>
    BY <1>1 DEF App!Start
  <2>6. up' \in BOOLEAN /\ up'
    BY <2>5, Zenon
  <2> HIDE DEF u
  <2>7. ui' \in Window /\ ui'.asking = "no" /\ st' \in UpdateFile
    BY <2>1, <2>2, <2>3, <2>4
  <2> QED
    BY <2>5, <2>6, <2>7
<1>2. CASE App!Quit
  <2>1. /\ up' = FALSE /\ ui' = App!Closed /\ worker' = <<>> /\ posts' = <<>> /\ check' = 0 /\ upd' = "none"
        /\ version' \in {version, "new"} /\ UNCHANGED <<saved, st, tokens, fetches>>
    BY <1>2 DEF App!Quit, App!Gone
  <2>2. up' \in BOOLEAN
    BY <2>1, Zenon
  <2> QED
    BY <2>1, <2>2, ClosedWindow
<1>3. CASE App!WeekPasses
  BY <1>3 DEF App!WeekPasses, UpdateFile
<1>4. CASE App!ClickFlash
  <2>1. /\ ui' = App!OnFlash(ui, "click") /\ up
        /\ UNCHANGED <<up, worker, posts, check, upd, saved, st, version, tokens, fetches>>
    BY <1>4 DEF App!ClickFlash, App!Click
  <2> QED
    BY <2>1, OnFlashOpens
<1>5. CASE App!Submit
  <2>1. /\ ui' = [ui EXCEPT !.req = "sent"] /\ up
        /\ UNCHANGED <<up, worker, posts, check, upd, saved, st, version, tokens, fetches>>
    BY <1>5 DEF App!Submit, App!Click
  <2>2. ui' \in Window /\ ui'.asking = ui.asking
    BY <2>1 DEF Window
  <2> QED
    BY <2>1, <2>2
<1>6. CASE App!CancelSignIn
  <2>1. /\ ui' = App!SignInDone(ui) \/ ui' = [ui EXCEPT !.req = "none"] 
        /\ up /\ UNCHANGED <<up, worker, posts, check, upd, saved, st, version, tokens, fetches>>
    BY <1>6 DEF App!CancelSignIn, App!Click
  <2>2. ui' \in Window /\ ui'.asking = ui.asking
    BY <2>1, SignInDoneCloses DEF Window
  <2> QED
    BY <2>1, <2>2
<1>7. CASE App!SignOut
  <2>1. /\ ui' = App!SignIn([ui EXCEPT !.op = 0], FALSE) /\ saved' = 0 /\ up
        /\ UNCHANGED <<up, worker, posts, check, upd, st, version, tokens, fetches>>
    BY <1>7 DEF App!SignOut, App!Click
  <2>2. ui' \in Window /\ ui'.asking = ui.asking
    <3>1. [ui EXCEPT !.op = 0] \in Window /\ [ui EXCEPT !.op = 0].asking = ui.asking
      BY OperatorChanges
    <3>2. /\ App!SignIn([ui EXCEPT !.op = 0], FALSE) \in Window
          /\ App!SignIn([ui EXCEPT !.op = 0], FALSE).asking = ui.asking
      BY <3>1, SignInOpens, Zenon
    <3> QED
      BY <2>1, <3>2
  <2>3. saved' = 0 /\ up /\ UNCHANGED <<up, worker, posts, check, upd, st, version, tokens, fetches>>
    BY <2>1
  <2> QED
    BY <2>2, <2>3
<1>8. CASE App!CheckForUpdates
  BY <1>8 DEF App!CheckForUpdates, App!Click
<1>9. CASE App!LoginAnswers
  <2>1. /\ ui' = [ui EXCEPT !.req = "answered"] /\ ui.req = "sent" /\ tokens' \in {tokens, tokens + 1}
        /\ tokens' \in 0..MaxTokens /\ UNCHANGED <<up, worker, check, upd, saved, st, version, fetches>>
    BY <1>9 DEF App!LoginAnswers
  <2>2. ui' \in Window /\ ui'.asking = ui.asking
    BY <2>1 DEF Window
  <2>3. up
    BY <2>1, ClosedWindow
  <2> QED
    BY <2>1, <2>2, <2>3
<1>10. CASE App!CheckAnswers
  <2>1. check # 0 /\ check' = 0 /\ UNCHANGED <<up, ui, worker, upd, saved, st, version, tokens, fetches>>
    BY <1>10 DEF App!CheckAnswers
  <2> QED
    BY <2>1
<1>11. CASE App!FlashEnds
  <2>1. worker = <<"running">> /\ UNCHANGED <<up, ui, check, upd, saved, st, version, tokens, fetches>>
    BY <1>11 DEF App!FlashEnds
  <2>2. worker' = <<"ending">>
    BY <1>11, <2>1 DEF App!FlashEnds
  <2> QED
    BY <2>1, <2>2
<1>12. CASE App!ThreadEnds
  <2>1. worker = <<"ending">> /\ UNCHANGED <<up, ui, posts, check, upd, saved, st, version, tokens, fetches>>
    BY <1>12 DEF App!ThreadEnds
  <2>2. worker' = <<>>
    BY <1>12, <2>1 DEF App!ThreadEnds
  <2> QED
    BY <2>1, <2>2
<1>13. CASE App!UpdateThread
  <2>1. /\ upd # "none" /\ upd' = "none" /\ fetches' \in {fetches, fetches + 1}
        /\ UNCHANGED <<up, ui, worker, check, saved, version, tokens>>
    BY <1>13 DEF App!UpdateThread
  <2>2. st' \in UpdateFile
    BY <1>13 DEF App!UpdateThread, UpdateFile
  <2> QED
    BY <2>1, <2>2
<1>14. CASE App!InstallAnswers
  <2>1. /\ ui' = [ui EXCEPT !.installing = "told"] /\ ui.installing = "handed"
        /\ UNCHANGED <<up, worker, check, upd, saved, st, version, tokens, fetches>>
    BY <1>14 DEF App!InstallAnswers
  <2>2. ui' \in Window /\ ui'.asking = ui.asking
    BY <2>1 DEF Window
  <2>3. up
    BY <2>1, ClosedWindow
  <2> QED
    BY <2>1, <2>2, <2>3
<1>15. CASE App!SignedIn
  <2> DEFINE u == App!SignInDone([ui EXCEPT !.op = Head(posts).token])
  <2>1. posts # <<>> /\ posts[1].do = "signedIn" /\ Head(posts) = posts[1] /\ 1 \in 1..Len(posts)
    BY <1>15, PostHandled DEF App!SignedIn, App!Callback, PostsTyped
  <2>2. Head(posts).token \in 1..tokens
    BY <2>1 DEF PostsTyped, Truthful
  <2>3. u \in Window /\ u.asking = ui.asking
    <3>1. Head(posts).token \in 0..MaxTokens
      BY <2>2
    <3>2. /\ [ui EXCEPT !.op = Head(posts).token] \in Window
          /\ [ui EXCEPT !.op = Head(posts).token].asking = ui.asking
      BY <3>1, OperatorChanges
    <3> QED
      BY <3>2, SignInDoneCloses, Zenon
  <2>4. /\ App!OnFlash(u, "pump") \in Window
        /\ App!OnFlash(u, "pump").asking # ui.asking => worker = <<>>
    BY <2>3, OnFlashOpens
  <2>5. App!SayUpdated(st, u) \in UpdateFile
    BY <2>3, SayUpdatedIs
  <2>6. /\ ui' \in {u, App!OnFlash(u, "pump")} /\ saved' \in {Head(posts).token, saved}
        /\ st' = App!SayUpdated(st, u) /\ up /\ UNCHANGED <<up, worker, check, upd, version, tokens, fetches>>
    BY <1>15 DEF App!SignedIn, App!Callback
  <2> HIDE DEF u
  <2>7. ui' \in Window /\ (ui'.asking # ui.asking => worker = <<>>) /\ saved' \in 0..tokens
    BY <2>2, <2>3, <2>4, <2>6
  <2> QED
    BY <2>5, <2>6, <2>7
<1>16. CASE App!SignInFailed
  <2>1. /\ ui' = [ui EXCEPT !.req = "none"] /\ up
        /\ UNCHANGED <<up, worker, check, upd, saved, st, version, tokens, fetches>>
    BY <1>16 DEF App!SignInFailed, App!Callback
  <2>2. ui' \in Window /\ ui'.asking = ui.asking
    BY <2>1 DEF Window
  <2> QED
    BY <2>1, <2>2
<1>17. CASE App!TokenRejected
  <2>1. /\ ui' \in {ui, App!SignIn([ui EXCEPT !.op = 0], FALSE)} /\ saved' \in {0, saved} /\ up
        /\ UNCHANGED <<up, worker, check, upd, st, version, tokens, fetches>>
    BY <1>17 DEF App!TokenRejected, App!Callback
  <2>2. ui' \in Window /\ ui'.asking = ui.asking
    <3>1. [ui EXCEPT !.op = 0] \in Window /\ [ui EXCEPT !.op = 0].asking = ui.asking
      BY OperatorChanges
    <3>2. /\ App!SignIn([ui EXCEPT !.op = 0], FALSE) \in Window
          /\ App!SignIn([ui EXCEPT !.op = 0], FALSE).asking = ui.asking
      BY <3>1, SignInOpens, Zenon
    <3> QED
      BY <2>1, <3>2
  <2> QED
    BY <2>1, <2>2
<1>18. CASE App!Finished
  <2>1. /\ ui' = [ui EXCEPT !.flash = ~ui.box] /\ up
        /\ UNCHANGED <<up, worker, check, upd, saved, st, version, tokens, fetches>>
    BY <1>18 DEF App!Finished, App!Callback
  <2>2. ui' \in Window /\ ui'.asking = ui.asking
    BY <2>1 DEF Window
  <2> QED
    BY <2>1, <2>2
<1>19. CASE App!UpdateReady
  <2>1. /\ ui' \in {ui, App!Install(ui)} /\ st' \in {st, App!HandedOver(st)} /\ up
        /\ UNCHANGED <<up, worker, check, upd, saved, version, tokens, fetches>>
    BY <1>19 DEF App!UpdateReady, App!Callback
  <2> QED
    BY <2>1, InstallOpens, HandedOverIs
<1>20. CASE App!InstallDone
  <2> DEFINE u == [ui EXCEPT !.installing = "no", !.flash = @ \/ ~ui.box]
  <2>1. u \in Window /\ u.asking = ui.asking
    BY DEF Window
  <2>2. App!SignIn(u, FALSE) \in Window /\ App!SignIn(u, FALSE).asking = ui.asking
    BY <2>1, SignInOpens, Zenon
  <2>3. /\ ui' \in {u, App!SignIn(u, FALSE)} /\ up
        /\ UNCHANGED <<up, worker, check, upd, saved, st, version, tokens, fetches>>
    BY <1>20 DEF App!InstallDone, App!Callback
  <2> HIDE DEF u
  <2> QED
    BY <2>1, <2>2, <2>3
<1>21. ASSUME NEW t \in 1..tokens, App!Revoke(t)
       PROVE  AppTyped'
  BY <1>21 DEF App!Revoke
<1>22. ASSUME NEW yes \in BOOLEAN, App!Answer(yes)
       PROVE  AppTyped'
  <2>1. /\ ui' = [ui EXCEPT !.asking = "no", !.flash = @ /\ ~yes] /\ ui.asking # "no"
        /\ UNCHANGED <<up, posts, check, upd, saved, st, version, tokens, fetches>>
    BY <1>22 DEF App!Answer
  <2>2. worker' \in {worker, <<"running">>}
    <3>1. worker = <<>> /\ Append(<<>>, "running") = <<"running">>
      BY <2>1
    <3> QED
      BY <1>22, <3>1 DEF App!Answer
  <2>3. ui' \in Window /\ ui'.asking = "no" /\ up
    BY <2>1, ClosedWindow DEF Window
  <2> QED
    BY <2>1, <2>2, <2>3
<1> QED
  BY <1>1, <1>2, <1>3, <1>4, <1>5, <1>6, <1>7, <1>8, <1>9, <1>10, <1>11,
     <1>12, <1>13, <1>14, <1>15, <1>16, <1>17, <1>18, <1>19, <1>20, <1>21, <1>22 DEF App!Next

LEMMA AppendSays ==
  ASSUME NEW s \in Seq(Posts), NEW p \in Posts, NEW n \in Nat, NEW R, NEW kinds
  PROVE  /\ Has(Append(s, p), kinds) <=> Has(s, kinds) \/ p.do \in kinds
         /\ Once(s, kinds) /\ (p.do \in kinds => ~Has(s, kinds)) => Once(Append(s, p), kinds)
         /\ Truthful(s, n, R) /\ (p.do = "signedIn" => p.token \in 1..n) /\ (p.do = "rejected" => p.token \in R) =>
              Truthful(Append(s, p), n, R)
<1> DEFINE t == Append(s, p)
<1>1. /\ t \in Seq(Posts) /\ Len(s) \in Nat /\ Len(t) = Len(s) + 1
      /\ \A i \in 1..Len(s) : t[i] = s[i]
      /\ t[Len(s) + 1] = p
  BY PostAppended
<1>2. \A i \in 1..Len(t) : i \in 1..Len(s) \/ i = Len(s) + 1
  BY <1>1
<1>3. 1..Len(s) \subseteq 1..Len(t) /\ Len(s) + 1 \in 1..Len(t)
  BY <1>1
<1> HIDE DEF t
<1>4. Has(t, kinds) <=> Has(s, kinds) \/ p.do \in kinds
  BY <1>1, <1>2, <1>3 DEF Has
<1>5. Once(s, kinds) /\ (p.do \in kinds => ~Has(s, kinds)) => Once(t, kinds)
  BY <1>1, <1>2, <1>3 DEF Has, Once
<1>6. Truthful(s, n, R) /\ (p.do = "signedIn" => p.token \in 1..n) /\ (p.do = "rejected" => p.token \in R) =>
        Truthful(t, n, R)
  BY <1>1, <1>2, <1>3 DEF Truthful
<1> QED
  BY <1>4, <1>5, <1>6 DEF t

LEMMA TailSays ==
  ASSUME NEW s \in Seq(Posts), s # <<>>, NEW n \in Nat, NEW R, NEW kinds
  PROVE  /\ Has(Tail(s), kinds) => Has(s, kinds)
         /\ Has(s, kinds) => Has(Tail(s), kinds) \/ Head(s).do \in kinds
         /\ Once(s, kinds) => Once(Tail(s), kinds)
         /\ Once(s, kinds) /\ Head(s).do \in kinds => ~Has(Tail(s), kinds)
         /\ Head(s).do \in kinds => Has(s, kinds)
         /\ Truthful(s, n, R) => Truthful(Tail(s), n, R)
<1> DEFINE t == Tail(s)
<1>1. /\ t \in Seq(Posts) /\ Len(s) \in Nat /\ Len(s) >= 1 /\ Len(t) = Len(s) - 1
      /\ \A i \in 1..Len(s) - 1 : t[i] = s[i + 1] /\ i + 1 \in 1..Len(s)
      /\ Head(s) = s[1]
  BY PostHandled
<1>2. \A i \in 1..Len(t) : t[i] = s[i + 1] /\ i + 1 \in 1..Len(s) /\ i + 1 # 1
  BY <1>1
<1>3. \A i \in 1..Len(s) : i = 1 \/ (i - 1 \in 1..Len(t) /\ t[i - 1] = s[i])
  BY <1>1
<1>4. 1 \in 1..Len(s)
  BY <1>1
<1>5. \A i, j \in 1..Len(t) : i + 1 = j + 1 => i = j
  BY <1>1
<1> HIDE DEF t
<1>6. /\ Has(t, kinds) => Has(s, kinds)
      /\ Has(s, kinds) => Has(t, kinds) \/ Head(s).do \in kinds
      /\ Head(s).do \in kinds => Has(s, kinds)
  BY <1>1, <1>2, <1>3, <1>4 DEF Has
<1>7. Once(s, kinds) => Once(t, kinds)
  BY <1>2, <1>5 DEF Once
<1>8. Once(s, kinds) /\ Head(s).do \in kinds => ~Has(t, kinds)
  BY <1>1, <1>2, <1>4 DEF Once, Has
<1>9. Truthful(s, n, R) => Truthful(t, n, R)
  BY <1>2 DEF Truthful
<1> QED
  BY <1>6, <1>7, <1>8, <1>9 DEF t

LEMMA TruthGrows ==
  ASSUME NEW s \in Seq(Posts), NEW n \in Nat, NEW m \in Nat, n <= m, NEW R, NEW Q, R \subseteq Q, Truthful(s, n, R)
  PROVE  Truthful(s, m, Q)
BY DEF Truthful

LEMMA TruthAppended ==
  ASSUME NEW s \in Seq(Posts), NEW p \in Posts, NEW n \in Nat, NEW R, Truthful(s, n, R),
         p.do = "signedIn" => p.token \in 1..n, p.do = "rejected" => p.token \in R
  PROVE  Append(s, p) \in Seq(Posts) /\ Truthful(Append(s, p), n, R)
BY AppendSays, PostAppended

LEMMA NoPosts ==
  ASSUME NEW n, NEW R, NEW kinds
  PROVE  <<>> \in Seq(Posts) /\ Truthful(<<>>, n, R) /\ Once(<<>>, kinds) /\ ~Has(<<>>, kinds)
BY DEF Truthful, Once, Has

LEMMA PostsTypedStep ==
  ASSUME AppTyped, PostsTyped, App!Next
  PROVE  PostsTyped'
<1> USE DEF App!volatile, App!stored, App!world
<1>0. tokens \in Nat
  BY BoundsAssumption DEF AppTyped
<1>1. CASE UNCHANGED <<posts, tokens, revoked>>
  BY <1>1 DEF PostsTyped
<1>2. CASE posts' = <<>>
  BY <1>2, NoPosts DEF PostsTyped
<1>3. CASE posts # <<>> /\ posts' = Tail(posts) /\ UNCHANGED <<tokens, revoked>>
  BY <1>0, <1>3, TailSays, PostHandled DEF PostsTyped
<1>4. CASE \E t \in 1..tokens : App!Revoke(t)
  BY <1>0, <1>4, TruthGrows DEF PostsTyped, App!Revoke
<1>5. CASE App!LoginAnswers
  <2>1. CASE /\ tokens' = tokens + 1 /\ revoked' = revoked
             /\ posts' = Append(posts, [do |-> "signedIn", token |-> tokens + 1, then |-> ui.then])
    <3> DEFINE p == [do |-> "signedIn", token |-> tokens + 1, then |-> ui.then]
    <3>1. p \in Posts /\ p.do = "signedIn" /\ p.token \in 1..tokens + 1
      BY <1>0 DEF Posts, AppTyped, Window
    <3>2. Truthful(posts, tokens + 1, revoked)
      BY <1>0, TruthGrows DEF PostsTyped
    <3>3. posts' = Append(posts, p) /\ tokens' = tokens + 1 /\ revoked' = revoked /\ p.do # "rejected"
      BY <2>1
    <3> HIDE DEF p
    <3>4. Append(posts, p) \in Seq(Posts) /\ Truthful(Append(posts, p), tokens + 1, revoked)
      BY <1>0, <3>1, <3>2, <3>3, TruthAppended DEF PostsTyped
    <3> QED
      BY <3>3, <3>4 DEF PostsTyped
  <2>2. CASE posts' = Append(posts, [do |-> "signInFailed"]) /\ UNCHANGED <<tokens, revoked>>
    <3>1. [do |-> "signInFailed"] \in Posts
      BY DEF Posts
    <3> QED
      BY <1>0, <2>2, <3>1, AppendSays, PostAppended DEF PostsTyped
  <2>3. revoked' = revoked /\ (tokens' = tokens + 1 \/ tokens' = tokens)
    BY <1>5 DEF App!LoginAnswers
  <2> QED
    BY <1>5, <2>1, <2>2, <2>3, Zenon DEF App!LoginAnswers, App!Post
<1>6. CASE App!CheckAnswers
  <2>1. CASE check \in revoked /\ posts' = Append(posts, [do |-> "rejected", token |-> check])
    <3>1. [do |-> "rejected", token |-> check] \in Posts
      BY DEF Posts, AppTyped
    <3> QED
      BY <1>0, <1>6, <2>1, <3>1, AppendSays, PostAppended DEF PostsTyped, App!CheckAnswers
  <2> QED
    BY <1>1, <1>6, <2>1 DEF App!CheckAnswers, App!Post
<1>7. CASE App!FlashEnds
  <2> DEFINE done == [do |-> "finished"]
             rejected == [do |-> "rejected", token |-> ui.with]
  <2>1. done \in Posts /\ rejected \in Posts
    BY BoundsAssumption DEF Posts, AppTyped, Window
  <2>2. posts' = Append(posts, done) \/ (ui.with \in revoked /\ posts' = Append(Append(posts, rejected), done))
    BY <1>7, <2>1 DEF App!FlashEnds, PostsTyped
  <2>3. done.do = "finished" /\ rejected.do = "rejected" /\ rejected.token = ui.with
    OBVIOUS
  <2>4. UNCHANGED <<tokens, revoked>>
    BY <1>7 DEF App!FlashEnds
  <2> HIDE DEF done, rejected
  <2>5. Append(posts, rejected) \in Seq(Posts) /\ (ui.with \in revoked => Truthful(Append(posts, rejected), tokens, revoked))
    BY <1>0, <2>1, <2>3, AppendSays, PostAppended DEF PostsTyped
  <2>6. /\ Append(posts, done) \in Seq(Posts) /\ Truthful(Append(posts, done), tokens, revoked)
        /\ ui.with \in revoked =>
             /\ Append(Append(posts, rejected), done) \in Seq(Posts)
             /\ Truthful(Append(Append(posts, rejected), done), tokens, revoked)
    <3>1. done.do # "signedIn" /\ done.do # "rejected"
      BY <2>3
    <3> QED
      BY <1>0, <2>1, <2>5, <3>1, TruthAppended DEF PostsTyped
  <2> QED
    BY <2>2, <2>4, <2>6 DEF PostsTyped
<1>8. CASE App!UpdateThread
  <2>1. CASE posts' = Append(posts, [do |-> "ready"])
    <3>1. [do |-> "ready"] \in Posts
      BY DEF Posts
    <3> QED
      BY <1>0, <1>8, <2>1, <3>1, AppendSays, PostAppended DEF PostsTyped, App!UpdateThread
  <2> QED
    BY <1>1, <1>8, <2>1 DEF App!UpdateThread, App!Post
<1>9. CASE App!InstallAnswers
  <2>1. PICK q \in BOOLEAN : posts' = Append(posts, [do |-> "installed", quits |-> q])
    BY <1>9 DEF App!InstallAnswers, App!Post
  <2>2. [do |-> "installed", quits |-> q] \in Posts
    BY DEF Posts
  <2> QED
    BY <1>0, <1>9, <2>1, <2>2, AppendSays, PostAppended DEF PostsTyped, App!InstallAnswers
<1> QED
  BY <1>1, <1>2, <1>3, <1>4, <1>5, <1>6, <1>7, <1>8, <1>9
     DEF App!Next, App!Start, App!Quit, App!Gone, App!WeekPasses, App!ClickFlash, App!Answer, App!Submit,
         App!CancelSignIn, App!SignOut, App!CheckForUpdates, App!ThreadEnds, App!Callback, App!SignedIn,
         App!SignInFailed, App!TokenRejected, App!Finished, App!UpdateReady, App!InstallDone

LEMMA PostTaken ==
  ASSUME NEW s \in Seq(Posts), s # <<>>, Once(s, Answers)
  PROVE  /\ Once(Tail(s), Answers)
         /\ Has(Tail(s), Answers) => Has(s, Answers)
         /\ Head(s).do \in Answers => Has(s, Answers) /\ ~Has(Tail(s), Answers)
         /\ Has(s, {"finished"}) /\ Head(s).do # "finished" => Has(Tail(s), {"finished"})
<1>1. /\ Once(Tail(s), Answers) /\ (Has(Tail(s), Answers) => Has(s, Answers))
      /\ Head(s).do \in Answers => Has(s, Answers) /\ ~Has(Tail(s), Answers)
  BY TailSays
<1>2. Has(s, {"finished"}) => Has(Tail(s), {"finished"}) \/ Head(s).do \in {"finished"}
  BY TailSays
<1> QED
  BY <1>1, <1>2

LEMMA PostMade ==
  ASSUME NEW s \in Seq(Posts), NEW p \in Posts
  PROVE  /\ Append(s, p) \in Seq(Posts)
         /\ Has(Append(s, p), Answers) <=> Has(s, Answers) \/ p.do \in Answers
         /\ Once(s, Answers) /\ (p.do \in Answers => ~Has(s, Answers)) => Once(Append(s, p), Answers)
         /\ Has(Append(s, p), {"finished"}) <=> Has(s, {"finished"}) \/ p.do = "finished"
<1>1. Append(s, p) \in Seq(Posts)
  BY PostAppended
<1>2. /\ Has(Append(s, p), Answers) <=> Has(s, Answers) \/ p.do \in Answers
      /\ Once(s, Answers) /\ (p.do \in Answers => ~Has(s, Answers)) => Once(Append(s, p), Answers)
  BY AppendSays
<1>3. Has(Append(s, p), {"finished"}) <=> Has(s, {"finished"}) \/ p.do \in {"finished"}
  BY AppendSays
<1> QED
  BY <1>1, <1>2, <1>3

\* A way on from the window u, with flash threads w and callbacks s still to run.
WayOn(u, w, s) ==
  /\ u.box => u.op = 0
  /\ u.req # "none" => u.box
  /\ Once(s, Answers)
  /\ Has(s, Answers) => u.req = "answered"
  /\ w = <<"ending">> => Has(s, {"finished"})
  /\ u.flash \/ u.box \/ w # <<>> \/ Has(s, {"finished"}) \/ u.installing # "no"

AppWay == WayOn(ui, worker, posts)

LEMMA WayOnClosed ==
  WayOn(App!Closed, <<>>, <<>>)
BY ClosedWindow, NoPosts DEF WayOn

LEMMA AppWayStep ==
  ASSUME AppTyped, PostsTyped, AppWay, App!Next
  PROVE  AppWay'
<1> USE DEF App!volatile, App!stored, App!world
<1> SUFFICES WayOn(ui', worker', posts')
  BY DEF AppWay
<1>0. /\ ui \in Window /\ posts \in Seq(Posts) /\ WayOn(ui, worker, posts)
      /\ worker \in {<<>>, <<"running">>, <<"ending">>} /\ (ui.asking # "no" => worker = <<>>)
  BY DEF AppTyped, PostsTyped, AppWay
<1>1. CASE UNCHANGED <<ui, worker, posts>>
  BY <1>0, <1>1, Zenon
<1>2. CASE App!Start
  <2> DEFINE u == [App!Closed EXCEPT !.op = saved]
  <2>1. /\ u \in Window /\ u.op = saved /\ ~u.box /\ u.req = "none" /\ u.flash /\ u.installing = "no"
    BY BoundsAssumption, ClosedWindow, OperatorChanges DEF AppTyped
  <2>2. worker = <<>> /\ posts = <<>> /\ worker' = <<>> /\ posts' = <<>>
    BY <1>2 DEF App!Start, AppTyped
  <2>3. /\ ui' \in {u, App!Install(u)} \/ (saved = 0 /\ ui' = App!SignIn(u, FALSE))
    BY <1>2, <2>1 DEF App!Start, App!Connected
  <2>4. /\ App!Install(u).box = u.box /\ App!Install(u).req = u.req /\ App!Install(u).installing = "handed"
    BY <2>1, InstallOpens
  <2>5. App!SignIn(u, FALSE).box /\ App!SignIn(u, FALSE).op = u.op /\ App!SignIn(u, FALSE).req = u.req
    BY <2>1, <2>2, SignInOpens, Zenon
  <2> HIDE DEF u
  <2> QED
    BY <2>1, <2>2, <2>3, <2>4, <2>5, NoPosts DEF WayOn
<1>3. CASE App!Quit
  BY <1>3, WayOnClosed, Zenon DEF App!Quit, App!Gone
<1>4. CASE App!ClickFlash
  <2>1. /\ ui' = App!OnFlash(ui, "click") /\ UNCHANGED <<worker, posts>> /\ ui.flash
    BY <1>4 DEF App!ClickFlash
  <2> QED
    BY <1>0, <2>1, OnFlashOpens DEF WayOn
<1>5. CASE App!Submit
  <2>1. /\ ui' = [ui EXCEPT !.req = "sent"] /\ UNCHANGED <<worker, posts>> /\ ui.req = "none" /\ ui.box
    BY <1>5 DEF App!Submit
  <2>2. /\ ui'.box = ui.box /\ ui'.op = ui.op /\ ui'.flash = ui.flash /\ ui'.installing = ui.installing
    BY <1>0, <2>1 DEF Window
  <2> QED
    BY <1>0, <2>1, <2>2 DEF WayOn
<1>6. CASE App!CancelSignIn
  <2>1. /\ ui.box /\ posts = <<>> /\ UNCHANGED <<worker, posts>>
    BY <1>6 DEF App!CancelSignIn, App!Click
  <2>2. ui.op = 0
    BY <1>0, <2>1 DEF WayOn
  <2>3. ui' = [ui EXCEPT !.req = "none"]
    BY <1>6, <2>2 DEF App!CancelSignIn, App!Connected
  <2>4. /\ ui'.box = ui.box /\ ui'.op = ui.op /\ ui'.req = "none"
    BY <1>0, <2>3 DEF Window
  <2> QED
    BY <1>0, <2>1, <2>2, <2>4, NoPosts DEF WayOn
<1>7. CASE App!SignOut
  <2> DEFINE u == [ui EXCEPT !.op = 0]
  <2>1. /\ worker = <<>> /\ ui' = App!SignIn(u, FALSE) /\ UNCHANGED <<worker, posts>>
    BY <1>7 DEF App!SignOut, App!Busy
  <2>2. /\ u \in Window /\ u.op = 0 /\ u.req = ui.req
    BY <1>0, BoundsAssumption, OperatorChanges
  <2> HIDE DEF u
  <2>3. App!SignIn(u, FALSE).box /\ App!SignIn(u, FALSE).op = u.op /\ App!SignIn(u, FALSE).req = u.req
    BY <2>1, <2>2, SignInOpens, Zenon
  <2> QED
    BY <1>0, <2>1, <2>2, <2>3 DEF WayOn
<1>8. CASE \E yes \in BOOLEAN : App!Answer(yes)
  <2>1. PICK yes \in BOOLEAN : App!Answer(yes)
    BY <1>8
  <2>2. /\ ui' = [ui EXCEPT !.asking = "no", !.flash = @ /\ ~yes] /\ posts' = posts
        /\ worker = <<>> /\ worker' = IF yes THEN Append(<<>>, "running") ELSE <<>>
    BY <1>0, <2>1 DEF App!Answer
  <2>3. worker' = IF yes THEN <<"running">> ELSE <<>>
    BY <2>2
  <2>4. /\ ui'.box = ui.box /\ ui'.op = ui.op /\ ui'.req = ui.req /\ ui'.installing = ui.installing
        /\ ~yes => ui'.flash = ui.flash
    BY <1>0, <2>2 DEF Window
  <2>5. worker' # <<"ending">> /\ (yes => worker' # <<>>)
    BY <2>3
  <2> QED
    BY <1>0, <2>2, <2>4, <2>5 DEF WayOn
<1>9. CASE App!LoginAnswers
  <2>1. /\ ui.req = "sent" /\ ui' = [ui EXCEPT !.req = "answered"] /\ worker' = worker
    BY <1>9 DEF App!LoginAnswers
  <2>2. PICK p \in Posts : posts' = Append(posts, p) /\ p.do \in Answers
    <3>1. [do |-> "signInFailed"] \in Posts
      BY DEF Posts
    <3>2. [do |-> "signedIn", token |-> tokens + 1, then |-> ui.then] \in Posts
      BY BoundsAssumption DEF Posts, AppTyped, Window
    <3> QED
      BY <1>9, <3>1, <3>2 DEF App!LoginAnswers, App!Post, Answers
  <2>3. /\ ui'.box = ui.box /\ ui'.op = ui.op /\ ui'.req = "answered" /\ ui'.installing = ui.installing
        /\ ui'.flash = ui.flash
    BY <1>0, <2>1 DEF Window
  <2>4. p.do # "finished"
    BY <2>2 DEF Answers
  <2> QED
    BY <1>0, <2>1, <2>2, <2>3, <2>4, PostMade DEF WayOn
<1>10. CASE App!CheckAnswers \/ App!UpdateThread
  <2>1. UNCHANGED <<ui, worker>>
    BY <1>10 DEF App!CheckAnswers, App!UpdateThread
  <2>2. CASE \E p \in Posts : posts' = Append(posts, p) /\ p.do \notin Answers
    BY <1>0, <2>1, <2>2, PostMade DEF WayOn
  <2>3. [do |-> "rejected", token |-> check] \in Posts /\ [do |-> "ready"] \in Posts
    BY DEF Posts, AppTyped
  <2> QED
    BY <1>1, <1>10, <2>1, <2>2, <2>3 DEF App!CheckAnswers, App!UpdateThread, App!Post, Answers
<1>11. CASE App!FlashEnds
  <2> DEFINE done == [do |-> "finished"]
             rejected == [do |-> "rejected", token |-> ui.with]
  <2>1. done \in Posts /\ rejected \in Posts /\ done.do = "finished" /\ rejected.do = "rejected"
    BY BoundsAssumption DEF Posts, AppTyped, Window
  <2>2. posts' = Append(posts, done) \/ posts' = Append(Append(posts, rejected), done)
    BY <1>0, <1>11 DEF App!FlashEnds
  <2>3. ui' = ui
    BY <1>11 DEF App!FlashEnds
  <2> HIDE DEF done, rejected
  <2>4. Append(posts, rejected) \in Seq(Posts) /\ Once(Append(posts, rejected), Answers)
        /\ (Has(Append(posts, rejected), Answers) => Has(posts, Answers))
    BY <1>0, <2>1, PostMade DEF WayOn, Answers
  <2>5. /\ Once(posts', Answers) /\ (Has(posts', Answers) => Has(posts, Answers)) /\ Has(posts', {"finished"})
    <3>1. ASSUME NEW s \in Seq(Posts), Once(s, Answers)
          PROVE  /\ Once(Append(s, done), Answers) /\ (Has(Append(s, done), Answers) => Has(s, Answers))
                 /\ Has(Append(s, done), {"finished"})
      <4>1. done.do \notin Answers
        BY <2>1 DEF Answers
      <4> QED
        BY <2>1, <3>1, <4>1, PostMade
    <3>2. Once(posts, Answers)
      BY <1>0 DEF WayOn
    <3>3. CASE posts' = Append(posts, done)
      BY <1>0, <3>1, <3>2, <3>3
    <3>4. CASE posts' = Append(Append(posts, rejected), done)
      <4> DEFINE s == Append(posts, rejected)
      <4>1. s \in Seq(Posts) /\ Once(s, Answers) /\ (Has(s, Answers) => Has(posts, Answers))
        BY <2>4
      <4> HIDE DEF s
      <4>2. /\ Once(Append(s, done), Answers) /\ (Has(Append(s, done), Answers) => Has(s, Answers))
            /\ Has(Append(s, done), {"finished"})
        BY <3>1, <4>1
      <4> QED
        BY <3>4, <4>1, <4>2 DEF s
    <3> QED
      BY <2>2, <3>3, <3>4
  <2> QED
    BY <1>0, <2>3, <2>5 DEF WayOn
<1>12. CASE App!ThreadEnds
  <2>1. worker = <<"ending">> /\ UNCHANGED <<ui, posts>>
    BY <1>0, <1>12 DEF App!ThreadEnds
  <2>2. worker' = <<>>
    BY <1>12, <2>1 DEF App!ThreadEnds
  <2> QED
    BY <1>0, <2>1, <2>2 DEF WayOn
<1>13. CASE App!InstallAnswers
  <2>1. /\ ui' = [ui EXCEPT !.installing = "told"] /\ worker' = worker
    BY <1>13 DEF App!InstallAnswers
  <2>2. PICK q \in BOOLEAN : posts' = Append(posts, [do |-> "installed", quits |-> q])
    BY <1>13 DEF App!InstallAnswers, App!Post
  <2>3. [do |-> "installed", quits |-> q] \in Posts
    BY <2>2 DEF Posts
  <2>4. /\ ui'.box = ui.box /\ ui'.op = ui.op /\ ui'.req = ui.req /\ ui'.installing = "told"
    BY <1>0, <2>1 DEF Window
  <2> QED
    BY <1>0, <2>1, <2>2, <2>3, <2>4, PostMade DEF WayOn, Answers
<1>14. CASE App!SignedIn
  <2> DEFINE u == App!SignInDone([ui EXCEPT !.op = Head(posts).token])
  <2>1. /\ posts # <<>> /\ Head(posts).do = "signedIn" /\ posts' = Tail(posts) /\ worker' = worker
        /\ ui' \in {u, App!OnFlash(u, "pump")}
    BY <1>14 DEF App!SignedIn, App!Callback
  <2>2. Head(posts).token \in 1..MaxTokens
    <3>1. posts[1].do = "signedIn" /\ Head(posts) = posts[1] /\ 1 \in 1..Len(posts)
      BY <1>0, <2>1, PostHandled
    <3>2. Head(posts).token \in 1..tokens
      BY <3>1 DEF PostsTyped, Truthful
    <3> QED
      BY <3>2, BoundsAssumption DEF AppTyped
  <2>3. /\ u \in Window /\ u.op # 0 /\ ~u.box /\ u.req = "none" /\ u.installing = ui.installing
        /\ worker = <<>> /\ u.installing = "no" => u.flash
    <3> DEFINE v == [ui EXCEPT !.op = Head(posts).token]
    <3>1. /\ v \in Window /\ v.op # 0 /\ v.installing = ui.installing
      BY <1>0, <2>2, OperatorChanges
    <3> HIDE DEF v
    <3>2. /\ App!SignInDone(v) \in Window /\ App!SignInDone(v).op = v.op /\ ~App!SignInDone(v).box
          /\ App!SignInDone(v).req = "none" /\ App!SignInDone(v).installing = v.installing
          /\ worker = <<>> /\ v.installing = "no" => App!SignInDone(v).flash
      BY <3>1, SignInDoneCloses, Zenon
    <3> QED
      BY <3>1, <3>2, Zenon DEF v
  <2> HIDE DEF u
  <2>4. /\ ui'.op # 0 /\ ~ui'.box /\ ui'.req = "none" /\ ui'.installing = ui.installing
        /\ worker = <<>> /\ ui.installing = "no" => ui'.flash
    BY <2>1, <2>3, OnFlashOpens
  <2>5. /\ Once(posts', Answers) /\ ~Has(posts', Answers)
        /\ Has(posts, {"finished"}) => Has(posts', {"finished"})
    BY <1>0, <2>1, PostTaken DEF WayOn, Answers
  <2> QED
    BY <1>0, <2>1, <2>4, <2>5 DEF WayOn
<1>15. CASE App!SignInFailed
  <2>1. /\ posts # <<>> /\ Head(posts).do = "signInFailed" /\ posts' = Tail(posts) /\ worker' = worker
        /\ ui' = [ui EXCEPT !.req = "none"]
    BY <1>15 DEF App!SignInFailed, App!Callback
  <2>2. /\ ui'.box = ui.box /\ ui'.op = ui.op /\ ui'.req = "none" /\ ui'.installing = ui.installing
        /\ ui'.flash = ui.flash
    BY <1>0, <2>1 DEF Window
  <2> QED
    BY <1>0, <2>1, <2>2, PostTaken DEF WayOn, Answers
<1>16. CASE App!TokenRejected
  <2> DEFINE u == [ui EXCEPT !.op = 0]
  <2>1. /\ posts # <<>> /\ Head(posts).do = "rejected" /\ posts' = Tail(posts) /\ worker' = worker
        /\ ui' \in {ui, App!SignIn(u, FALSE)}
    BY <1>16 DEF App!TokenRejected, App!Callback
  <2>2. /\ u \in Window /\ u.op = 0 /\ u.box = ui.box /\ u.req = ui.req /\ u.flash = ui.flash
        /\ u.installing = ui.installing
    BY <1>0, BoundsAssumption, OperatorChanges
  <2> HIDE DEF u
  <2>3. /\ App!SignIn(u, FALSE).op = u.op /\ App!SignIn(u, FALSE).req = u.req
        /\ App!SignIn(u, FALSE).installing = u.installing
        /\ worker = <<>> => App!SignIn(u, FALSE).box
        /\ worker # <<>> => App!SignIn(u, FALSE) = u
    BY <2>2, SignInOpens, Zenon
  <2>4. /\ Once(posts', Answers) /\ (Has(posts', Answers) => Has(posts, Answers))
        /\ Has(posts, {"finished"}) => Has(posts', {"finished"})
    BY <1>0, <2>1, PostTaken DEF WayOn, Answers
  <2> QED
    BY <1>0, <2>1, <2>2, <2>3, <2>4 DEF WayOn
<1>17. CASE App!Finished
  <2>1. /\ posts # <<>> /\ Head(posts).do = "finished" /\ posts' = Tail(posts) /\ worker' = worker
        /\ worker = <<>> /\ ui' = [ui EXCEPT !.flash = ~ui.box]
    BY <1>17 DEF App!Finished, App!Callback, App!Busy
  <2>2. /\ ui'.box = ui.box /\ ui'.op = ui.op /\ ui'.req = ui.req /\ ui'.flash = ~ui.box
    BY <1>0, <2>1 DEF Window
  <2> QED
    BY <1>0, <2>1, <2>2, PostTaken DEF WayOn, Answers
<1>18. CASE App!UpdateReady
  <2>1. /\ posts # <<>> /\ Head(posts).do = "ready" /\ posts' = Tail(posts) /\ worker' = worker
        /\ ui' \in {ui, App!Install(ui)}
    BY <1>18 DEF App!UpdateReady, App!Callback
  <2>2. /\ App!Install(ui).op = ui.op /\ App!Install(ui).req = ui.req /\ App!Install(ui).box = ui.box
        /\ App!Install(ui).installing = "handed"
    BY <1>0, InstallOpens
  <2>3. /\ Once(posts', Answers) /\ (Has(posts', Answers) => Has(posts, Answers))
        /\ Has(posts, {"finished"}) => Has(posts', {"finished"})
    BY <1>0, <2>1, PostTaken DEF WayOn, Answers
  <2> QED
    BY <1>0, <2>1, <2>2, <2>3 DEF WayOn
<1>19. CASE App!InstallDone
  <2> DEFINE u == [ui EXCEPT !.installing = "no", !.flash = @ \/ ~ui.box]
  <2>1. /\ posts # <<>> /\ Head(posts).do = "installed" /\ posts' = Tail(posts) /\ worker' = worker
        /\ ui' = IF App!Connected(u) THEN u ELSE App!SignIn(u, FALSE)
    BY <1>19 DEF App!InstallDone, App!Callback
  <2>2. /\ u \in Window /\ u.op = ui.op /\ u.box = ui.box /\ u.req = ui.req /\ (u.flash \/ u.box)
    BY <1>0 DEF Window
  <2> HIDE DEF u
  <2>3. /\ App!SignIn(u, FALSE).op = u.op /\ App!SignIn(u, FALSE).req = u.req
        /\ worker = <<>> => App!SignIn(u, FALSE).box
        /\ worker # <<>> => App!SignIn(u, FALSE) = u
    BY <2>2, SignInOpens, Zenon
  <2>4. /\ Once(posts', Answers) /\ (Has(posts', Answers) => Has(posts, Answers))
        /\ Has(posts, {"finished"}) => Has(posts', {"finished"})
    BY <1>0, <2>1, PostTaken DEF WayOn, Answers
  <2> QED
    BY <1>0, <2>1, <2>2, <2>3, <2>4 DEF WayOn, App!Connected
<1> QED
  BY <1>1, <1>2, <1>3, <1>4, <1>5, <1>6, <1>7, <1>8, <1>9, <1>10, <1>11, <1>12, <1>13, <1>14, <1>15,
     <1>16, <1>17, <1>18, <1>19
     DEF App!Next, App!WeekPasses, App!Revoke, App!CheckForUpdates

LEMMA WayOnIsAWay ==
  AppTyped /\ PostsTyped /\ AppWay => App!AlwaysAWayOn
BY NoPosts DEF AppWay, WayOn, App!AlwaysAWayOn, App!Busy

LEMMA FreshTokenStep ==
  ASSUME AppTyped, PostsTyped, AppWay, App!Next
  PROVE  App!FreshTokenKeptStep
<1> USE DEF App!volatile, App!stored, App!world
<1> SUFFICES ASSUME up', ui.op # 0, ui'.op # ui.op, ~App!SignOut
             PROVE  ui.op \in revoked
  BY DEF App!FreshTokenKeptStep
<1>0. ui \in Window /\ posts \in Seq(Posts) /\ up
  BY ClosedWindow DEF AppTyped, PostsTyped
<1>1. CASE UNCHANGED ui
  BY <1>1, Zenon
<1>2. CASE App!Start \/ App!Quit \/ App!WeekPasses
  BY <1>0, <1>2 DEF App!Start, App!Quit, App!Gone, App!WeekPasses
<1>3. CASE App!ClickFlash
  BY <1>0, <1>3, OnFlashOpens DEF App!ClickFlash
<1>4. CASE App!Submit
  BY <1>0, <1>4 DEF App!Submit, Window
<1>5. CASE App!CancelSignIn
  <2>1. ui' = App!SignInDone(ui) \/ ui' = [ui EXCEPT !.req = "none"]
    BY <1>5 DEF App!CancelSignIn
  <2> QED
    BY <1>0, <2>1, SignInDoneCloses DEF Window
<1>6. CASE \E yes \in BOOLEAN : App!Answer(yes)
  BY <1>0, <1>6 DEF App!Answer, Window
<1>7. CASE App!LoginAnswers
  BY <1>0, <1>7 DEF App!LoginAnswers, Window
<1>8. CASE App!InstallAnswers
  BY <1>0, <1>8 DEF App!InstallAnswers, Window
<1>9. CASE App!SignedIn
  <2>1. posts # <<>> /\ Head(posts).do = "signedIn"
    BY <1>9 DEF App!SignedIn, App!Callback
  <2>2. Has(posts, Answers)
    BY <1>0, <2>1, PostTaken DEF AppWay, WayOn, Answers
  <2> QED
    BY <2>2 DEF AppWay, WayOn
<1>10. CASE App!SignInFailed
  BY <1>0, <1>10 DEF App!SignInFailed, Window
<1>11. CASE App!TokenRejected
  <2>1. posts # <<>> /\ Head(posts).do = "rejected" /\ (ui' = ui \/ App!SameSignIn(Head(posts).token))
    BY <1>11 DEF App!TokenRejected, App!Callback
  <2>2. posts[1].do = "rejected" /\ Head(posts) = posts[1] /\ 1 \in 1..Len(posts)
    BY <1>0, <2>1, PostHandled
  <2>3. Head(posts).token \in revoked
    BY <2>2 DEF PostsTyped, Truthful
  <2> QED
    BY <2>1, <2>3 DEF App!SameSignIn
<1>12. CASE App!Finished
  BY <1>0, <1>12 DEF App!Finished, Window
<1>13. CASE App!UpdateReady
  <2>1. ui' \in {ui, App!Install(ui)}
    BY <1>13 DEF App!UpdateReady
  <2> QED
    BY <1>0, <2>1, InstallOpens
<1>14. CASE App!InstallDone
  <2> DEFINE u == [ui EXCEPT !.installing = "no", !.flash = @ \/ ~ui.box]
  <2>1. ui' \in {u, App!SignIn(u, FALSE)}
    BY <1>14 DEF App!InstallDone
  <2>2. u \in Window /\ u.op = ui.op
    BY <1>0 DEF Window
  <2> HIDE DEF u
  <2>3. App!SignIn(u, FALSE).op = u.op
    BY <2>2, SignInOpens, Zenon
  <2> QED
    BY <2>1, <2>2, <2>3
<1> QED
  BY <1>1, <1>2, <1>3, <1>4, <1>5, <1>6, <1>7, <1>8, <1>9, <1>10, <1>11, <1>12, <1>13, <1>14
     DEF App!Next, App!Revoke, App!CheckForUpdates, App!CheckAnswers, App!FlashEnds, App!ThreadEnds,
         App!UpdateThread

\* What a download not asked for is held against: the first failure, the second, and the one in hand.
One(b) == IF b THEN 1 ELSE 0
Waiting(s) == s.downloaded \/ s.to

AppFetches ==
  /\ fetches <= 2
  /\ version = "old" => fetches <= One(st.failed) + One(st.skip) + One(Waiting(st))
  /\ version = "old" /\ upd = "auto" => ~Waiting(st)
  /\ upd = "auto" => ~Has(posts, {"ready"})

Tries(s) == One(s.failed) + One(s.skip) + One(Waiting(s))

LEMMA SayingKeepsTries ==
  ASSUME NEW s \in UpdateFile, NEW u \in Window, version = "old", NEW n \in Nat, n <= 2, n <= Tries(s)
  PROVE  n <= Tries(App!SayUpdated(s, u)) /\ (Waiting(App!SayUpdated(s, u)) => s.downloaded)
<1> DEFINE t == App!SayUpdated(s, u)
<1>1. /\ t \in UpdateFile /\ t.downloaded = s.downloaded /\ ~t.to
      /\ s.to => t.failed /\ (s.failed => t.skip)
      /\ s.failed => t.failed
      /\ s.skip => t.skip
  BY SayUpdatedIs
<1> HIDE DEF t
<1>2. Waiting(t) => s.downloaded
  BY <1>1 DEF Waiting
<1>3. n <= Tries(t)
  BY <1>1 DEF Tries, One, Waiting, UpdateFile
<1> QED
  BY <1>2, <1>3 DEF t

LEMMA HandingKeepsTries ==
  ASSUME NEW s \in UpdateFile, NEW n \in Nat, n <= Tries(s)
  PROVE  n <= Tries(App!HandedOver(s))
<1> DEFINE t == App!HandedOver(s)
<1>1. t \in UpdateFile /\ t.to /\ t.failed = s.failed /\ t.skip = s.skip
  BY HandedOverIs
<1> HIDE DEF t
<1>2. n <= Tries(t)
  BY <1>1 DEF Tries, One, Waiting, UpdateFile
<1> QED
  BY <1>2 DEF t

LEMMA ReadyPosted ==
  ASSUME AppTyped, PostsTyped, App!Next, ~App!UpdateThread, ~Has(posts, {"ready"})
  PROVE  ~Has(posts', {"ready"})
<1> USE DEF App!volatile, App!stored, App!world
<1>0. posts \in Seq(Posts)
  BY DEF PostsTyped
<1>1. CASE posts' = posts \/ posts' = <<>>
  BY <1>1, NoPosts
<1>2. CASE posts # <<>> /\ posts' = Tail(posts)
  <2>1. Has(Tail(posts), {"ready"}) => Has(posts, {"ready"})
    BY <1>0, <1>2, TailSays
  <2> QED
    BY <1>2, <2>1
<1>3. ASSUME NEW s \in Seq(Posts), NEW p \in Posts, ~Has(s, {"ready"}), p.do # "ready"
      PROVE  ~Has(Append(s, p), {"ready"})
  <2>1. Has(Append(s, p), {"ready"}) <=> Has(s, {"ready"}) \/ p.do \in {"ready"}
    BY AppendSays
  <2> QED
    BY <1>3, <2>1
<1>4. CASE \E p \in Posts : posts' = Append(posts, p) /\ p.do # "ready"
  BY <1>0, <1>3, <1>4
<1>5. /\ [do |-> "signInFailed"] \in Posts /\ [do |-> "rejected", token |-> check] \in Posts
      /\ [do |-> "signedIn", token |-> tokens + 1, then |-> ui.then] \in Posts
      /\ \A q \in BOOLEAN : [do |-> "installed", quits |-> q] \in Posts
  BY BoundsAssumption DEF Posts, AppTyped, Window
<1>6. CASE App!LoginAnswers
  BY <1>4, <1>5, <1>6 DEF App!LoginAnswers, App!Post
<1>7. CASE App!CheckAnswers
  BY <1>1, <1>4, <1>5, <1>7 DEF App!CheckAnswers, App!Post
<1>8. CASE App!InstallAnswers
  BY <1>4, <1>5, <1>8 DEF App!InstallAnswers, App!Post
<1>9. CASE App!FlashEnds
  <2> DEFINE done == [do |-> "finished"]
             rejected == [do |-> "rejected", token |-> ui.with]
  <2>1. done \in Posts /\ rejected \in Posts /\ done.do # "ready" /\ rejected.do # "ready"
    BY BoundsAssumption DEF Posts, AppTyped, Window
  <2>2. posts' = Append(posts, done) \/ posts' = Append(Append(posts, rejected), done)
    BY <1>0, <1>9 DEF App!FlashEnds
  <2> HIDE DEF done, rejected
  <2>3. Append(posts, rejected) \in Seq(Posts) /\ ~Has(Append(posts, rejected), {"ready"})
    BY <1>0, <1>3, <2>1, PostAppended
  <2>4. ~Has(Append(posts, done), {"ready"}) /\ ~Has(Append(Append(posts, rejected), done), {"ready"})
    BY <1>0, <1>3, <2>1, <2>3
  <2> QED
    BY <2>2, <2>4
<1> QED
  BY <1>1, <1>2, <1>6, <1>7, <1>8, <1>9
     DEF App!Next, App!Start, App!Quit, App!Gone, App!WeekPasses, App!Revoke, App!ClickFlash, App!Answer,
         App!Submit, App!CancelSignIn, App!SignOut, App!CheckForUpdates, App!ThreadEnds, App!Callback,
         App!SignedIn, App!SignInFailed, App!TokenRejected, App!Finished, App!UpdateReady, App!InstallDone

LEMMA AppFetchesStep ==
  ASSUME AppTyped, PostsTyped, AppFetches, App!Next
  PROVE  AppFetches'
<1> USE DEF App!volatile, App!stored, App!world
<1>0. /\ ui \in Window /\ st \in UpdateFile /\ fetches \in Nat /\ fetches <= 2
      /\ version = "old" => fetches <= Tries(st)
      /\ version \in {"old", "new"} /\ upd \in {"none", "auto", "manual"}
  BY DEF AppTyped, AppFetches, Tries
<1>1. SUFFICES /\ fetches' <= 2
               /\ version' = "old" => fetches' <= Tries(st')
               /\ version' = "old" /\ upd' = "auto" => ~Waiting(st')
               /\ upd' = "auto" => ~Has(posts', {"ready"})
  BY DEF AppFetches, Tries
<1>2. CASE UNCHANGED <<st, version, upd, fetches>> /\ ~App!UpdateThread
  BY <1>0, <1>2, ReadyPosted DEF AppFetches
<1>3. CASE App!Start
  <2>1. /\ ~up /\ posts' = posts /\ fetches' = fetches /\ version' = version
    BY <1>3 DEF App!Start
  <2>2. posts = <<>> /\ upd = "none" /\ ~Has(posts, {"ready"})
    BY <2>1, NoPosts DEF AppTyped
  <2>3. CASE st.downloaded /\ version = "old"
    <3>1. st' = App!HandedOver(st) /\ upd' = upd
      BY <1>3, <2>3 DEF App!Start
    <3> QED
      BY <1>0, <2>1, <2>2, <3>1, HandingKeepsTries
  <2>4. CASE ~(st.downloaded /\ version = "old")
    <3> DEFINE u == [App!Closed EXCEPT !.op = saved]
               shown == IF App!Connected(u) THEN u ELSE App!SignIn(u, FALSE)
    <3>1. st' = App!SayUpdated(st, shown)
      BY <1>3, <2>4 DEF App!Start
    <3>2. shown \in Window
      <4>1. u \in Window
        BY BoundsAssumption, ClosedWindow, OperatorChanges DEF AppTyped
      <4>2. App!SignIn(u, FALSE) \in Window
        BY <4>1, SignInOpens, Zenon
      <4> QED
        BY <4>1, <4>2
    <3> HIDE DEF shown
    <3>3. version = "old" => fetches <= Tries(st') /\ ~Waiting(st')
      BY <1>0, <2>4, <3>1, <3>2, SayingKeepsTries
    <3> QED
      BY <1>0, <2>1, <2>2, <3>3
  <2> QED
    BY <2>3, <2>4
<1>4. CASE App!Quit
  BY <1>0, <1>4 DEF App!Quit, App!Gone
<1>5. CASE App!WeekPasses
  <2>1. /\ st' = [st EXCEPT !.due = TRUE] /\ UNCHANGED <<version, upd, fetches, posts>>
    BY <1>5 DEF App!WeekPasses
  <2>2. /\ st'.failed = st.failed /\ st'.skip = st.skip /\ st'.downloaded = st.downloaded /\ st'.to = st.to
    BY <1>0, <2>1 DEF UpdateFile
  <2> QED
    BY <1>0, <2>1, <2>2 DEF Tries, Waiting, AppFetches
<1>6. CASE App!CheckForUpdates
  BY <1>0, <1>6 DEF App!CheckForUpdates
<1>7. CASE App!UpdateThread
  <2>1. upd' = "none" /\ version' = version
    BY <1>7 DEF App!UpdateThread
  <2>2. CASE /\ App!Wanted /\ st' = [st EXCEPT !.due = FALSE, !.downloaded = TRUE]
             /\ fetches' = IF upd = "auto" THEN fetches + 1 ELSE fetches
    <3>1. /\ st'.failed = st.failed /\ st'.skip = st.skip /\ st'.downloaded
      BY <1>0, <2>2 DEF UpdateFile
    <3>2. CASE upd = "auto"
      <4>1. ~st.skip /\ version = "old" /\ ~Waiting(st)
        BY <2>2, <3>2 DEF App!Wanted, AppFetches
      <4>2. fetches <= One(st.failed)
        BY <1>0, <4>1 DEF Tries, One, UpdateFile
      <4> QED
        BY <1>0, <2>1, <2>2, <3>1, <3>2, <4>1, <4>2 DEF Tries, One, Waiting, UpdateFile
    <3>3. CASE upd # "auto"
      BY <1>0, <2>1, <2>2, <3>1, <3>3 DEF Tries, One, Waiting, UpdateFile
    <3> QED
      BY <3>2, <3>3
  <2>3. CASE st' = [st EXCEPT !.due = FALSE] /\ fetches' = fetches
    <3>1. /\ st'.failed = st.failed /\ st'.skip = st.skip /\ st'.downloaded = st.downloaded /\ st'.to = st.to
      BY <1>0, <2>3 DEF UpdateFile
    <3> QED
      BY <1>0, <2>1, <2>3, <3>1 DEF Tries, Waiting
  <2> QED
    BY <1>7, <2>2, <2>3 DEF App!UpdateThread
<1>8. CASE App!SignedIn
  <2> DEFINE u == App!SignInDone([ui EXCEPT !.op = Head(posts).token])
  <2>1. /\ st' = App!SayUpdated(st, u) /\ UNCHANGED <<version, upd, fetches>> /\ Head(posts).do = "signedIn"
        /\ posts # <<>>
    BY <1>8 DEF App!SignedIn, App!Callback
  <2>2. u \in Window
    <3>1. Head(posts).token \in 0..MaxTokens
      <4>1. posts[1].do = "signedIn" /\ Head(posts) = posts[1] /\ 1 \in 1..Len(posts)
        BY <2>1, PostHandled DEF PostsTyped
      <4>2. Head(posts).token \in 1..tokens
        BY <4>1 DEF PostsTyped, Truthful
      <4> QED
        BY <4>2, BoundsAssumption DEF AppTyped
    <3>2. [ui EXCEPT !.op = Head(posts).token] \in Window
      BY <1>0, <3>1, OperatorChanges
    <3> QED
      BY <3>2, SignInDoneCloses, Zenon
  <2> HIDE DEF u
  <2>3. version = "old" => fetches <= Tries(st') /\ (Waiting(st') => Waiting(st))
    BY <1>0, <2>1, <2>2, SayingKeepsTries DEF Waiting
  <2>4. ~Has(posts, {"ready"}) => ~Has(posts', {"ready"})
    <3>1. ~App!UpdateThread
      BY <2>1, <1>8 DEF App!UpdateThread
    <3> QED
      BY <3>1, ReadyPosted
  <2> QED
    BY <1>0, <2>1, <2>3, <2>4 DEF AppFetches
<1>9. CASE App!UpdateReady
  <2>1. /\ st' \in {st, App!HandedOver(st)} /\ UNCHANGED <<version, upd, fetches>> /\ Head(posts).do = "ready"
        /\ posts # <<>>
    BY <1>9 DEF App!UpdateReady, App!Callback
  <2>2. upd # "auto"
    <3>1. Has(posts, {"ready"})
      <4>1. Head(posts).do \in {"ready"}
        BY <2>1
      <4> QED
        BY <2>1, <4>1, TailSays DEF PostsTyped
    <3> QED
      BY <3>1 DEF AppFetches
  <2> QED
    BY <1>0, <2>1, <2>2, HandingKeepsTries
<1>10. App!UpdateThread \/ ~App!UpdateThread
  OBVIOUS
<1> QED
  BY <1>2, <1>3, <1>4, <1>5, <1>6, <1>7, <1>8, <1>9, <1>10
     DEF App!Next, App!Revoke, App!ClickFlash, App!Answer, App!Submit, App!CancelSignIn, App!SignOut,
         App!LoginAnswers, App!CheckAnswers, App!FlashEnds, App!ThreadEnds, App!InstallAnswers, App!Callback,
         App!SignInFailed, App!TokenRejected, App!Finished, App!InstallDone

----------------------------------------------------------------------------
(* Provision.                                                                *)
Card == [script : First!Texts, firstrun : First!Texts, archive : BOOLEAN, args : BOOLEAN, ok : BOOLEAN,
         root : First!Texts, rootArchive : BOOLEAN, unit : BOOLEAN, restarts : 0..2, player : BOOLEAN]
FieldNames == {"script", "firstrun", "archive", "args", "ok", "root", "rootArchive", "unit", "restarts", "player"}

Commands == {"settings", "copy", "enable", "zero", "remove", "args", "zeroSelf", "removeSelf", "sync", "ok"}

\* What firstrun.sh still has to run: the last commands of the list.
Suffix(cmds) ==
  /\ cmds \in Seq(Commands) /\ Len(cmds) <= 10
  /\ \A i \in 1..Len(cmds) : cmds[i] = First!FirstRun[i + 10 - Len(cmds)]

FirstTyped ==
  /\ fs \in Card /\ maybe \subseteq Card /\ fs \in maybe
  /\ pc \in {"off", "boot", "firstrun", "stuck", "wifi", "console", "install", "gaveUp", "cleanup", "over"}
  /\ tries \in 0..MaxTries /\ row \in Nat /\ row <= fs.restarts /\ harmed \in BOOLEAN
  /\ Suffix(boot) /\ (pc = "cleanup" => fs.player)

LEMMA FieldsAre == First!Fields = FieldNames
BY DEF First!Fields, First!OnCard, FieldNames

LEMMA CardParts ==
  ASSUME NEW m \in Card
  PROVE  /\ m = [f \in FieldNames |-> m[f]]
         /\ m["script"] = m.script /\ m["firstrun"] = m.firstrun /\ m["archive"] = m.archive
         /\ m["args"] = m.args /\ m["ok"] = m.ok /\ m["root"] = m.root /\ m["unit"] = m.unit
         /\ m["rootArchive"] = m.rootArchive /\ m["restarts"] = m.restarts /\ m["player"] = m.player
BY DEF Card, FieldNames

\* m is what a cut may leave when new was being written over a card where left could be left.
Mixed(m, left, new) ==
  /\ m.script = left.script \/ (m.script = new.script /\ new.script # fs.script)
  /\ m.firstrun = left.firstrun \/ (m.firstrun = new.firstrun /\ new.firstrun # fs.firstrun)
  /\ m.archive = left.archive \/ (m.archive = new.archive /\ new.archive # fs.archive)
  /\ m.args = left.args \/ (m.args = new.args /\ new.args # fs.args)
  /\ m.ok = left.ok \/ (m.ok = new.ok /\ new.ok # fs.ok)
  /\ m.root = left.root \/ (m.root = new.root /\ new.root # fs.root)
  /\ m.unit = left.unit \/ (m.unit = new.unit /\ new.unit # fs.unit)
  /\ m.rootArchive = left.rootArchive \/ (m.rootArchive = new.rootArchive /\ new.rootArchive # fs.rootArchive)

LEMMA PutWrites ==
  ASSUME FirstTyped, NEW new \in Card, First!Put(new)
  PROVE  /\ fs' = new /\ maybe' \subseteq Card /\ new \in maybe'
         /\ \A m \in maybe' : \E left \in maybe : \A f \in FieldNames :
               m[f] = left[f] \/ (m[f] = new[f] /\ new[f] # fs[f])
<1> DEFINE mix(left, kept) == [f \in FieldNames |-> IF f \in kept THEN new[f] ELSE left[f]]
           changed == {f \in FieldNames : new[f] # fs[f]}
<1>1. /\ fs' = new
      /\ maybe' = {mix(left, kept) : left \in maybe, kept \in SUBSET changed}
  BY FieldsAre DEF First!Put
<1>2. ASSUME NEW left \in Card, NEW kept \in SUBSET changed
      PROVE  mix(left, kept) \in Card
  BY DEF Card, FieldNames
<1>3. maybe \subseteq Card /\ fs \in maybe /\ fs \in Card
  BY DEF FirstTyped
<1>4. mix(fs, changed) = new
  <2>1. new = [f \in FieldNames |-> new[f]]
    BY CardParts
  <2> QED
    BY <2>1
<1>5. ASSUME NEW left \in maybe, NEW kept \in SUBSET changed, NEW f \in FieldNames
      PROVE  mix(left, kept)[f] = left[f] \/ (mix(left, kept)[f] = new[f] /\ new[f] # fs[f])
  OBVIOUS
<1> HIDE DEF mix
<1> QED
  BY <1>1, <1>2, <1>3, <1>4, <1>5

LEMMA PutMixes ==
  ASSUME FirstTyped, NEW new \in Card, First!Put(new)
  PROVE  /\ fs' = new /\ maybe' \subseteq Card /\ new \in maybe'
         /\ \A m \in maybe' : \E left \in maybe : Mixed(m, left, new)
<1>1. /\ fs' = new /\ maybe' \subseteq Card /\ new \in maybe'
      /\ \A m \in maybe' : \E left \in maybe : \A f \in FieldNames :
            m[f] = left[f] \/ (m[f] = new[f] /\ new[f] # fs[f])
  BY PutWrites
<1>2. fs \in Card /\ maybe \subseteq Card
  BY DEF FirstTyped
<1>3. ASSUME NEW m \in maybe' PROVE \E left \in maybe : Mixed(m, left, new)
  <2>1. PICK left \in maybe : \A f \in FieldNames : m[f] = left[f] \/ (m[f] = new[f] /\ new[f] # fs[f])
    BY <1>1
  <2>2. m \in Card /\ left \in Card
    BY <1>1, <1>2
  <2>3. Mixed(m, left, new)
    BY <2>1 DEF Mixed, FieldNames
  <2> QED
    BY <2>3
<1> QED
  BY <1>1, <1>3

\* What firstrun.sh sets once and nothing sets back: the secrets gone, the boot arguments gone.
Clean(m) == m.script # "good" /\ m.firstrun # "good" /\ ~m.args
OkClean(cards) == \A m \in cards : m.ok => Clean(m)
NoOk(cards) == \A m \in cards : ~m.ok
AllClean(cards) == \A m \in cards : Clean(m)
ArgsFirst(cards, current) == current.args => \A m \in cards : m.args

LEMMA PutClean ==
  ASSUME FirstTyped, NEW new \in Card, First!Put(new),
         new.script = "good" => fs.script = "good", new.firstrun = "good" => fs.firstrun = "good",
         new.args => fs.args, ArgsFirst(maybe, fs)
  PROVE  /\ ArgsFirst(maybe', fs')
         /\ new.ok = fs.ok /\ OkClean(maybe) => OkClean(maybe')
         /\ new.ok = fs.ok /\ NoOk(maybe) => NoOk(maybe')
         /\ AllClean(maybe) => AllClean(maybe')
<1>1. /\ fs' = new /\ \A m \in maybe' : \E left \in maybe : Mixed(m, left, new)
  BY PutMixes
<1>2. fs \in Card
  BY DEF FirstTyped
<1>3. ASSUME NEW m \in maybe', NEW left \in maybe, Mixed(m, left, new)
      PROVE  /\ fs'.args => m.args
             /\ new.ok = fs.ok => m.ok = left.ok
             /\ Clean(left) => Clean(m)
  <2>1. Clean(left) => Clean(m)
    <3>1. m.script = "good" => left.script = "good"
      BY <1>2, <1>3 DEF Mixed, Card
    <3>2. m.firstrun = "good" => left.firstrun = "good"
      BY <1>2, <1>3 DEF Mixed, Card
    <3>3. m.args => left.args
      BY <1>2, <1>3 DEF Mixed, Card
    <3> QED
      BY <3>1, <3>2, <3>3 DEF Clean
  <2>2. fs'.args => m.args
    BY <1>1, <1>2, <1>3 DEF Mixed, ArgsFirst, Card
  <2>3. new.ok = fs.ok => m.ok = left.ok
    BY <1>3 DEF Mixed
  <2> QED
    BY <2>1, <2>2, <2>3
<1>4. ArgsFirst(maybe', fs')
  BY <1>1, <1>3 DEF ArgsFirst
<1>5. new.ok = fs.ok /\ OkClean(maybe) => OkClean(maybe')
  BY <1>1, <1>3 DEF OkClean
<1>6. new.ok = fs.ok /\ NoOk(maybe) => NoOk(maybe')
  BY <1>1, <1>3 DEF NoOk
<1>7. AllClean(maybe) => AllClean(maybe')
  BY <1>1, <1>3 DEF AllClean
<1> QED
  BY <1>4, <1>5, <1>6, <1>7

\* A card that will install by itself: by firstrun.sh, or by the service that it set up.
Ready(m) ==
  /\ m.args => m.script = "good" /\ m.firstrun = "good" /\ m.archive
  /\ ~m.args => m.unit /\ m.root = "good" /\ m.rootArchive
AllReady(cards) == \A m \in cards : Ready(m)

LEMMA PutReady ==
  ASSUME FirstTyped, NEW new \in Card, First!Put(new), AllReady(maybe),
         new.script = fs.script, new.firstrun = fs.firstrun, new.archive = fs.archive, new.args = fs.args,
         new.root = fs.root, new.unit = fs.unit, new.rootArchive = fs.rootArchive
  PROVE  AllReady(maybe')
<1>1. /\ fs' = new /\ \A m \in maybe' : \E left \in maybe : Mixed(m, left, new)
  BY PutMixes
<1>2. ASSUME NEW m \in maybe', NEW left \in maybe, Mixed(m, left, new) PROVE Ready(m)
  BY <1>2 DEF Mixed, AllReady, Ready
<1> QED
  BY <1>1, <1>2 DEF AllReady

LEMMA CommandsAre ==
  /\ Len(First!FirstRun) = 10
  /\ First!FirstRun[1] = "settings" /\ First!FirstRun[2] = "copy" /\ First!FirstRun[3] = "enable"
  /\ First!FirstRun[4] = "zero" /\ First!FirstRun[5] = "remove" /\ First!FirstRun[6] = "args"
  /\ First!FirstRun[7] = "zeroSelf" /\ First!FirstRun[8] = "removeSelf" /\ First!FirstRun[9] = "sync"
  /\ First!FirstRun[10] = "ok"
BY DEF First!FirstRun

LEMMA CommandIs ==
  ASSUME fs \in Card, NEW c \in Commands
  PROVE  LET new == First!Command(c) IN
           /\ new \in Card /\ new.restarts = fs.restarts /\ new.player = fs.player
           /\ new.script = "good" => fs.script = "good"
           /\ new.firstrun = "good" => fs.firstrun = "good"
           /\ new.args => fs.args
           /\ c # "ok" => new.ok = fs.ok
           /\ c \in {"zero", "remove"} => new.script # "good"
           /\ c \in {"zeroSelf", "removeSelf"} => new.firstrun # "good"
           /\ c = "args" => ~new.args
           /\ c \in {"settings", "sync"} => new = fs
           /\ c = "copy" /\ fs.script = "good" /\ fs.archive => new.root = "good" /\ new.rootArchive
           /\ c # "copy" => new.root = fs.root /\ new.rootArchive = fs.rootArchive
           /\ fs.unit \/ c = "enable" => new.unit
<1> DEFINE new == First!Command(c)
<1>1. CASE c = "copy"
  <2>1. CASE fs.script = "gone"
    <3>1. new = [fs EXCEPT !.rootArchive = @ \/ fs.archive]
      BY <1>1, <2>1 DEF First!Command
    <3> QED
      BY <1>1, <2>1, <3>1 DEF Card, First!Texts
  <2>2. CASE fs.script # "gone"
    <3>1. new = [[fs EXCEPT !.root = fs.script] EXCEPT !.rootArchive = @ \/ fs.archive]
      BY <1>1, <2>2 DEF First!Command, Card
    <3> QED
      BY <1>1, <2>2, <3>1 DEF Card, First!Texts
  <2> QED
    BY <2>1, <2>2
<1>2. CASE c = "enable"
  BY <1>2 DEF First!Command, Card
<1>3. CASE c = "zero"
  <2>1. new = [fs EXCEPT !.script = First!Zeroed(fs.script)] /\ First!Zeroed(fs.script) \in {"zero", "gone"}
    BY <1>3 DEF First!Command, First!Zeroed, Card
  <2> QED
    BY <1>3, <2>1 DEF Card, First!Texts
<1>4. CASE c = "remove"
  <2>1. new = [[fs EXCEPT !.script = "gone"] EXCEPT !.archive = FALSE]
    BY <1>4 DEF First!Command, Card
  <2> QED
    BY <1>4, <2>1 DEF Card, First!Texts
<1>5. CASE c = "args"
  BY <1>5 DEF First!Command, Card
<1>6. CASE c = "zeroSelf"
  BY <1>6 DEF First!Command, Card, First!Texts
<1>7. CASE c = "removeSelf"
  BY <1>7 DEF First!Command, Card, First!Texts
<1>8. CASE c = "ok"
  BY <1>8 DEF First!Command, Card
<1>9. CASE c \in {"settings", "sync"}
  BY <1>9 DEF First!Command
<1> QED
  BY <1>1, <1>2, <1>3, <1>4, <1>5, <1>6, <1>7, <1>8, <1>9 DEF Commands

LEMMA CommandWhenLeft ==
  ASSUME NEW n \in 1..10, NEW c, c = First!FirstRun[11 - n]
  PROVE  /\ n = 10 <=> c = "settings"
         /\ n = 9 <=> c = "copy"
         /\ n = 8 <=> c = "enable"
         /\ n = 7 <=> c = "zero"
         /\ n = 5 <=> c = "args"
         /\ n = 4 <=> c = "zeroSelf"
         /\ n = 2 <=> c = "sync"
         /\ n = 1 <=> c = "ok"
<1>1. n \in {1, 2, 3, 4, 5, 6, 7, 8, 9, 10}
  OBVIOUS
<1> QED
  BY <1>1, CommandsAre

LEMMA CommandTaken ==
  ASSUME NEW s \in Seq(Commands), s # <<>>
  PROVE  /\ Len(s) \in Nat /\ Len(s) >= 1 /\ Tail(s) \in Seq(Commands) /\ Len(Tail(s)) = Len(s) - 1 /\ Head(s) = s[1]
         /\ \A i \in 1..Len(s) - 1 : Tail(s)[i] = s[i + 1]
OBVIOUS

LEMMA NextCommand ==
  ASSUME FirstTyped, boot # <<>>
  PROVE  /\ Len(boot) \in 1..10 /\ Tail(boot) \in Seq(Commands) /\ Len(Tail(boot)) = Len(boot) - 1
         /\ Suffix(Tail(boot))
         /\ Head(boot) = First!FirstRun[11 - Len(boot)] /\ Head(boot) \in Commands
<1>1. /\ boot \in Seq(Commands) /\ Len(boot) \in 1..10 /\ Tail(boot) \in Seq(Commands)
      /\ Len(Tail(boot)) = Len(boot) - 1 /\ Head(boot) = boot[1]
      /\ \A i \in 1..Len(boot) - 1 : Tail(boot)[i] = boot[i + 1]
      /\ \A i \in 1..Len(boot) : boot[i] = First!FirstRun[i + 10 - Len(boot)]
  <2>1. boot \in Seq(Commands) /\ Len(boot) <= 10 
        /\ \A i \in 1..Len(boot) : boot[i] = First!FirstRun[i + 10 - Len(boot)]
    BY DEF FirstTyped, Suffix
  <2>2. Len(boot) \in Nat /\ Len(boot) >= 1
    BY <2>1, CommandTaken
  <2>3. /\ Tail(boot) \in Seq(Commands) /\ Len(Tail(boot)) = Len(boot) - 1 /\ Head(boot) = boot[1]
        /\ \A i \in 1..Len(boot) - 1 : Tail(boot)[i] = boot[i + 1]
    BY <2>1, CommandTaken, Zenon
  <2>4. Len(boot) \in 1..10
    <3>1. Len(boot) <= 10
      BY <2>1
    <3>2. \A n \in Nat : n >= 1 /\ n <= 10 => n \in 1..10
      OBVIOUS
    <3> QED
      BY <2>2, <3>1, <3>2, Zenon
  <2> QED
    BY <2>1, <2>3, <2>4, Zenon
<1>2. ASSUME NEW i \in 1..Len(Tail(boot))
      PROVE  Tail(boot)[i] = First!FirstRun[i + 10 - Len(Tail(boot))]
  <2>1. \A n, k \in Int : 1 <= k /\ k <= n - 1 =>
          k + 1 \in 1..n /\ k \in 1..(n - 1) /\ (k + 1) + 10 - n = k + 10 - (n - 1)
    OBVIOUS
  <2>2. i + 1 \in 1..Len(boot) /\ i \in 1..(Len(boot) - 1) /\ (i + 1) + 10 - Len(boot) = i + 10 - Len(Tail(boot))
    BY <1>1, <2>1
  <2> QED
    BY <1>1, <2>2
<1>3. Head(boot) = First!FirstRun[11 - Len(boot)]
  <2>1. 1 \in 1..Len(boot) /\ 1 + 10 - Len(boot) = 11 - Len(boot)
    BY <1>1
  <2> QED
    BY <1>1, <2>1
<1>4. Head(boot) \in Commands
  <2>1. \A i \in 1..10 : First!FirstRun[i] \in Commands
    BY CommandsAre DEF Commands
  <2>2. \A n \in 1..10 : 11 - n \in 1..10
    OBVIOUS
  <2>3. 11 - Len(boot) \in 1..10
    BY <1>1, <2>2
  <2> QED
    BY <1>3, <2>1, <2>3
<1>5. Suffix(Tail(boot))
  <2>1. \A n \in 1..10 : n - 1 <= 10
    OBVIOUS
  <2>2. Len(Tail(boot)) <= 10
    BY <1>1, <2>1
  <2> QED
    BY <1>1, <1>2, <2>2 DEF Suffix
<1> QED
  BY <1>1, <1>3, <1>4, <1>5

LEMMA FirstTypedStep ==
  ASSUME FirstTyped, First!Next
  PROVE  FirstTyped'
<1> USE BoundsAssumption
<1>0. /\ fs \in Card /\ maybe \subseteq Card /\ fs \in maybe /\ tries \in 0..MaxTries /\ row \in Nat
      /\ row <= fs.restarts /\ fs.restarts \in 0..2 /\ harmed \in BOOLEAN
      /\ Suffix(boot) /\ (pc = "cleanup" => fs.player)
  BY DEF FirstTyped, Card
<1>1. Suffix(<<>>) /\ Suffix(First!FirstRun)
  <2>1. First!FirstRun \in Seq(Commands)
    BY DEF First!FirstRun, Commands
  <2>2. \A i \in 1..10 : i + 10 - 10 = i
    OBVIOUS
  <2> QED
    BY <2>1, <2>2, CommandsAre DEF Suffix
<1>2. CASE First!PowerOn
  BY <1>2 DEF First!PowerOn, FirstTyped
<1>3. CASE First!Starts
  <2>1. /\ pc' \in {"firstrun", "stuck", "wifi", "over"} /\ boot' \in {First!FirstRun, <<>>} /\ tries' = 0
        /\ UNCHANGED <<fs, maybe, row, harmed>>
    BY <1>3 DEF First!Starts
  <2>2. Suffix(boot')
    BY <1>1, <2>1
  <2>3. pc' # "cleanup" /\ tries' \in 0..MaxTries
    BY <2>1
  <2> QED
    BY <1>0, <2>1, <2>2, <2>3 DEF FirstTyped
<1>4. CASE First!FirstRunStep
  <2>1. /\ pc = "firstrun" /\ boot # <<>> /\ boot' = Tail(boot) /\ UNCHANGED <<pc, tries, row>>
        /\ harmed' = harmed \/ harmed' = (harmed \/ Head(boot) # "settings")
        /\ First!Synced(fs) \/ First!Put(First!Command(Head(boot))) \/ UNCHANGED <<fs, maybe>>
    BY <1>4 DEF First!FirstRunStep, First!NothingWritten
  <2>2. harmed' \in BOOLEAN
    BY <1>0, <2>1, Zenon
  <2>3. Suffix(boot') /\ Head(boot) \in Commands
    BY <2>1, NextCommand
  <2>4. /\ fs' \in Card /\ maybe' \subseteq Card /\ fs' \in maybe' /\ fs'.restarts = fs.restarts
    <3>1. CASE First!Synced(fs) \/ UNCHANGED <<fs, maybe>>
      BY <1>0, <3>1 DEF First!Synced
    <3>2. CASE First!Put(First!Command(Head(boot)))
      <4> DEFINE new == First!Command(Head(boot))
      <4>1. new \in Card /\ new.restarts = fs.restarts
        BY <1>0, <2>3, CommandIs
      <4> HIDE DEF new
      <4>2. First!Put(new)
        BY <3>2 DEF new
      <4> QED
        BY <4>1, <4>2, PutMixes
    <3> QED
      BY <2>1, <3>1, <3>2
  <2>5. pc' = "firstrun"
    BY <2>1
  <2> QED
    BY <1>0, <2>1, <2>2, <2>3, <2>4, <2>5 DEF FirstTyped
<1>5. CASE First!FirstRunEnds \/ First!ConsoleAnswers \/ First!Restart
  <2>1. /\ fs' = fs /\ maybe' = {fs} /\ UNCHANGED <<boot, tries, row, harmed>> /\ pc' \in {"boot", "install"}
    BY <1>5 DEF First!FirstRunEnds, First!ConsoleAnswers, First!Restart, First!Synced
  <2> QED
    BY <1>0, <2>1 DEF FirstTyped
<1>6. CASE First!WakeWifi
  <2>0. UNCHANGED <<boot, tries, harmed>> /\ pc' \in {"console", "boot"}
    BY <1>6 DEF First!WakeWifi
  <2>1. CASE UNCHANGED <<fs, maybe, row>>
    BY <1>0, <2>0, <2>1 DEF FirstTyped
  <2>2. CASE /\ First!MayRestart(fs.restarts) /\ First!Synced([fs EXCEPT !.restarts = @ + 1]) /\ row' = row + 1
    <3>1. [fs EXCEPT !.restarts = @ + 1] \in Card /\ [fs EXCEPT !.restarts = @ + 1].restarts = fs.restarts + 1
      BY <1>0, <2>2 DEF Card, First!MayRestart, First!MaxRestarts
    <3>2. fs' \in Card /\ maybe' = {fs'} /\ fs'.restarts = fs.restarts + 1
      BY <2>2, <3>1 DEF First!Synced
    <3> QED
      BY <1>0, <2>0, <2>2, <3>2 DEF FirstTyped
  <2>3. CASE First!Put([fs EXCEPT !.restarts = 0]) /\ row' = 0
    <3> DEFINE new == [fs EXCEPT !.restarts = 0]
    <3>1. new \in Card /\ new.restarts = 0
      BY <1>0 DEF Card
    <3> HIDE DEF new
    <3>2. First!Put(new)
      BY <2>3 DEF new
    <3>3. fs' \in Card /\ maybe' \subseteq Card /\ fs' \in maybe' /\ fs'.restarts = 0
      BY <3>1, <3>2, PutMixes
    <3> QED
      BY <1>0, <2>0, <2>3, <3>3 DEF FirstTyped
  <2> QED
    BY <1>6, <2>1, <2>2, <2>3 DEF First!WakeWifi, First!NothingWritten
<1>7. CASE First!Installed
  <2> DEFINE new == [fs EXCEPT !.player = TRUE]
  <2>1. new \in Card /\ new.restarts = fs.restarts /\ new.player
    BY <1>0 DEF Card
  <2>2. First!Put(new) /\ pc' = "cleanup" /\ UNCHANGED <<boot, tries, row, harmed>>
    BY <1>7 DEF First!Installed
  <2> HIDE DEF new
  <2>3. fs' \in Card /\ maybe' \subseteq Card /\ fs' \in maybe' /\ fs' = new
    BY <2>1, <2>2, PutMixes
  <2> QED
    BY <1>0, <2>1, <2>2, <2>3 DEF FirstTyped
<1>8. CASE First!InstallFails
  <2>1. /\ tries < MaxTries /\ tries' = tries + 1 /\ pc' \in {pc, "gaveUp"} /\ pc = "install"
        /\ fs' = fs /\ maybe' \in {maybe, {fs}} /\ UNCHANGED <<boot, row, harmed>>
    BY <1>8 DEF First!InstallFails, First!NothingWritten, First!Synced
  <2> QED
    BY <1>0, <2>1 DEF FirstTyped
<1>9. CASE First!Cleanup
  <2> DEFINE new == [fs EXCEPT !.unit = FALSE, !.root = "gone", !.rootArchive = FALSE]
  <2>1. new \in Card /\ new.restarts = fs.restarts
    BY <1>0 DEF Card, First!Texts
  <2>2. First!Put(new) /\ pc' = "over" /\ UNCHANGED <<boot, tries, row, harmed>>
    BY <1>9 DEF First!Cleanup
  <2> HIDE DEF new
  <2>3. fs' \in Card /\ maybe' \subseteq Card /\ fs' \in maybe' /\ fs' = new
    BY <2>1, <2>2, PutMixes
  <2> QED
    BY <1>0, <2>1, <2>2, <2>3 DEF FirstTyped
<1>10. CASE First!PowerCut
  <2>1. /\ pc' = "off" /\ boot' = <<>> /\ row' = 0 /\ harmed' = (harmed \/ First!Delicate) /\ tries' = tries
        /\ \E left \in maybe : fs' = left /\ maybe' = {left}
    BY <1>10 DEF First!PowerCut, First!Synced
  <2>2. harmed' \in BOOLEAN
    BY <1>0, <2>1, Zenon
  <2>3. fs' \in Card /\ maybe' = {fs'} /\ fs'.restarts \in 0..2
    BY <1>0, <2>1 DEF Card
  <2> QED
    BY <1>0, <1>1, <2>1, <2>2, <2>3 DEF FirstTyped
<1> QED
  BY <1>2, <1>3, <1>4, <1>5, <1>6, <1>7, <1>8, <1>9, <1>10 DEF First!Next

\* How far firstrun.sh has come, by the commands it still has to run, and what is clean by then.
FirstClean ==
  /\ ArgsFirst(maybe, fs) /\ OkClean(maybe)
  /\ pc = "firstrun" =>
       /\ Len(boot) >= 1 => NoOk(maybe)
       /\ Len(boot) <= 6 => fs.script # "good"
       /\ Len(boot) <= 4 => ~fs.args
       /\ Len(boot) <= 3 => fs.firstrun # "good"
       /\ Len(boot) <= 1 => AllClean(maybe)

LEMMA OneCard ==
  ASSUME NEW m
  PROVE  /\ ArgsFirst({m}, m) /\ (OkClean({m}) <=> (m.ok => Clean(m)))
         /\ (NoOk({m}) <=> ~m.ok) /\ (AllClean({m}) <=> Clean(m)) /\ (AllReady({m}) <=> Ready(m))
BY DEF ArgsFirst, OkClean, NoOk, AllClean, AllReady

LEMMA FirstCleanStep ==
  ASSUME FirstTyped, FirstClean, First!Next
  PROVE  FirstClean'
<1>0. /\ fs \in Card /\ fs \in maybe /\ Suffix(boot) /\ ArgsFirst(maybe, fs) /\ OkClean(maybe)
  BY DEF FirstTyped, FirstClean
<1>1. CASE UNCHANGED <<fs, maybe>> /\ pc' # "firstrun"
  BY <1>0, <1>1 DEF FirstClean
<1>2. CASE (\E left \in maybe : fs' = left /\ maybe' = {left}) /\ pc' # "firstrun"
  BY <1>0, <1>2, OneCard DEF FirstClean, OkClean
<1>3. ASSUME NEW new \in Card, First!Put(new), pc' # "firstrun", new.ok = fs.ok, new.args = fs.args,
             new.script = fs.script, new.firstrun = fs.firstrun
      PROVE  FirstClean'
  <2>1. ArgsFirst(maybe', fs') /\ OkClean(maybe')
    BY <1>0, <1>3, PutClean
  <2> QED
    BY <1>3, <2>1 DEF FirstClean
<1>4. CASE First!PowerOn
  BY <1>1, <1>4 DEF First!PowerOn
<1>5. CASE First!Starts
  <2>1. UNCHANGED <<fs, maybe>>
    BY <1>5 DEF First!Starts
  <2>2. CASE pc' = "firstrun"
    <3>1. fs.args /\ boot' = First!FirstRun
      BY <1>5, <2>2 DEF First!Starts
    <3>2. NoOk(maybe)
      BY <1>0, <3>1 DEF NoOk, OkClean, ArgsFirst, Clean
    <3> QED
      BY <1>0, <2>1, <3>1, <3>2, CommandsAre DEF FirstClean
  <2> QED
    BY <1>1, <2>1, <2>2
<1>6. CASE First!FirstRunStep
  <2>1. /\ pc = "firstrun" /\ boot # <<>> /\ boot' = Tail(boot) /\ pc' = pc
    BY <1>6 DEF First!FirstRunStep
  <2>2. /\ Len(boot) \in 1..10 /\ Len(boot') = Len(boot) - 1 /\ Head(boot) \in Commands
        /\ Head(boot) = First!FirstRun[11 - Len(boot)]
    BY <2>1, NextCommand
  <2> DEFINE n == Len(boot)
             c == Head(boot)
             new == First!Command(c)
  <2>3. /\ c = "settings" => n = 10
        /\ c = "copy" => n = 9
        /\ c = "enable" => n = 8
        /\ n = 7 => c = "zero"
        /\ n = 5 => c = "args"
        /\ n = 4 => c = "zeroSelf"
        /\ n = 2 => c = "sync"
        /\ c = "sync" => n = 2
        /\ c = "ok" <=> n = 1
    <3>1. n \in 1..10 /\ c = First!FirstRun[11 - n]
      BY <2>2
    <3> HIDE DEF n, c
    <3> QED
      BY <3>1, CommandWhenLeft
  <2>4. /\ NoOk(maybe) 
        /\ n <= 6 => fs.script # "good"
        /\ n <= 4 => ~fs.args
        /\ n <= 3 => fs.firstrun # "good"
        /\ n <= 1 => AllClean(maybe)
    BY <2>1, <2>2 DEF FirstClean
  <2>5. n \in 1..10 /\ Len(boot') = n - 1 /\ c \in Commands
    BY <2>2
  <2>6. \/ c = "sync" /\ First!Synced(fs)
        \/ c # "sync" /\ First!Put(new)
        \/ c \in {"settings", "copy", "enable"} /\ UNCHANGED <<fs, maybe>>
    BY <1>6 DEF First!FirstRunStep, First!NothingWritten
  <2>7. /\ new \in Card
        /\ new.script = "good" => fs.script = "good"
        /\ new.firstrun = "good" => fs.firstrun = "good"
        /\ new.args => fs.args
        /\ c # "ok" => new.ok = fs.ok
        /\ c = "zero" => new.script # "good"
        /\ c = "zeroSelf" => new.firstrun # "good"
        /\ c = "args" => ~new.args
    BY <1>0, <2>5, CommandIs
  <2> HIDE DEF n, c, new
  <2>8. CASE c = "sync" /\ First!Synced(fs)
    <3>1. fs' = fs /\ maybe' = {fs} /\ Len(boot') = 1
      BY <2>3, <2>5, <2>8 DEF First!Synced
    <3>2. Clean(fs) /\ ~fs.ok
      BY <1>0, <2>3, <2>4, <2>8 DEF Clean, NoOk
    <3>3. /\ ArgsFirst(maybe', fs') /\ OkClean(maybe') /\ NoOk(maybe') /\ AllClean(maybe')
      BY <3>1, <3>2, OneCard
    <3> QED
      BY <3>1, <3>2, <3>3 DEF FirstClean, Clean
  <2>9. CASE c # "sync" /\ First!Put(new)
    <3>1. /\ ArgsFirst(maybe', fs')
          /\ new.ok = fs.ok /\ NoOk(maybe) => NoOk(maybe')
          /\ new.ok = fs.ok /\ OkClean(maybe) => OkClean(maybe')
          /\ AllClean(maybe) => AllClean(maybe')
      BY <1>0, <2>7, <2>9, PutClean
    <3>2. fs' = new
      BY <2>7, <2>9, PutMixes
    <3>3. CASE c = "ok"
      <4>1. n = 1 /\ AllClean(maybe') /\ Len(boot') = 0
        BY <2>3, <2>4, <2>5, <3>1, <3>3
      <4>2. OkClean(maybe')
        BY <4>1 DEF OkClean, AllClean
      <4>3. Clean(fs)
        BY <1>0, <2>3, <2>4, <3>3 DEF AllClean
      <4> QED
        BY <2>7, <3>1, <3>2, <4>1, <4>2, <4>3 DEF FirstClean, Clean
    <3>4. CASE c # "ok"
      <4>1. NoOk(maybe') /\ OkClean(maybe')
        BY <1>0, <2>4, <2>7, <3>1, <3>4
      <4>2. /\ Len(boot') <= 6 => fs'.script # "good"
            /\ Len(boot') <= 4 => ~fs'.args
            /\ Len(boot') <= 3 => fs'.firstrun # "good"
            /\ Len(boot') > 1
        BY <2>3, <2>4, <2>5, <2>7, <2>9, <3>2, <3>4
      <4> QED
        BY <2>5, <3>1, <4>1, <4>2 DEF FirstClean
    <3> QED
      BY <3>3, <3>4
  <2>10. CASE c \in {"settings", "copy", "enable"} /\ UNCHANGED <<fs, maybe>>
    <3>1. Len(boot') > 6
      BY <2>3, <2>5, <2>10
    <3> QED
      BY <1>0, <2>4, <2>10, <3>1 DEF FirstClean
  <2> QED
    BY <2>6, <2>8, <2>9, <2>10
<1>7. CASE First!FirstRunEnds \/ First!ConsoleAnswers \/ First!Restart
  <2>1. fs' = fs /\ maybe' = {fs} /\ pc' # "firstrun"
    BY <1>7 DEF First!FirstRunEnds, First!ConsoleAnswers, First!Restart, First!Synced
  <2> QED
    BY <1>0, <1>2, <2>1
<1>8. CASE First!WakeWifi
  <2>0. pc' # "firstrun"
    BY <1>8 DEF First!WakeWifi
  <2>1. CASE First!Synced([fs EXCEPT !.restarts = @ + 1])
    <3> DEFINE new == [fs EXCEPT !.restarts = @ + 1]
    <3>1. new.ok = fs.ok /\ new.args = fs.args /\ new.script = fs.script /\ new.firstrun = fs.firstrun
      BY <1>0 DEF Card
    <3>2. fs' = new /\ maybe' = {new}
      BY <2>1 DEF First!Synced
    <3> HIDE DEF new
    <3>3. new.ok => Clean(new)
      BY <1>0, <3>1 DEF OkClean, Clean
    <3> QED
      BY <2>0, <3>2, <3>3, OneCard DEF FirstClean
  <2>2. CASE First!Put([fs EXCEPT !.restarts = 0])
    <3> DEFINE new == [fs EXCEPT !.restarts = 0]
    <3>1. /\ new \in Card /\ new.ok = fs.ok /\ new.args = fs.args /\ new.script = fs.script
          /\ new.firstrun = fs.firstrun /\ First!Put(new)
      BY <1>0, <2>2 DEF Card
    <3> HIDE DEF new
    <3> QED
      BY <1>3, <2>0, <3>1
  <2> QED
    BY <1>1, <1>8, <2>0, <2>1, <2>2 DEF First!WakeWifi, First!NothingWritten
<1>9. CASE First!Installed
  <2> DEFINE new == [fs EXCEPT !.player = TRUE]
  <2>1. /\ new \in Card /\ new.ok = fs.ok /\ new.args = fs.args /\ new.script = fs.script
        /\ new.firstrun = fs.firstrun /\ First!Put(new) /\ pc' # "firstrun"
    BY <1>0, <1>9 DEF Card, First!Installed
  <2> HIDE DEF new
  <2> QED
    BY <1>3, <2>1
<1>10. CASE First!InstallFails
  <2>1. UNCHANGED <<fs, maybe>> \/ (fs' = fs /\ maybe' = {fs})
    BY <1>10 DEF First!InstallFails, First!NothingWritten, First!Synced
  <2>2. pc' # "firstrun"
    BY <1>10 DEF First!InstallFails
  <2> QED
    BY <1>0, <1>1, <1>2, <2>1, <2>2
<1>11. CASE First!Cleanup
  <2> DEFINE new == [fs EXCEPT !.unit = FALSE, !.root = "gone", !.rootArchive = FALSE]
  <2>1. /\ new \in Card /\ new.ok = fs.ok /\ new.args = fs.args /\ new.script = fs.script
        /\ new.firstrun = fs.firstrun
    BY <1>0 DEF Card, First!Texts
  <2>2. First!Put(new) /\ pc' # "firstrun"
    BY <1>11 DEF First!Cleanup
  <2> HIDE DEF new
  <2> QED
    BY <1>3, <2>1, <2>2
<1>12. CASE First!PowerCut
  BY <1>2, <1>12 DEF First!PowerCut, First!Synced
<1> QED
  BY <1>4, <1>5, <1>6, <1>7, <1>8, <1>9, <1>10, <1>11, <1>12 DEF First!Next

\* Unharmed, a card without the player is ready to install it, whatever a cut leaves of it; while
\* firstrun.sh runs, what it has moved is where the service will look for it.
FirstReady ==
  ~harmed /\ ~fs.player =>
    /\ pc # "firstrun" \/ Len(boot) = 10 => AllReady(maybe)
    /\ pc = "firstrun" => /\ Len(boot) >= 9 => fs.script = "good" /\ fs.archive
                          /\ Len(boot) <= 8 => fs.root = "good" /\ fs.rootArchive
                          /\ Len(boot) <= 7 => fs.unit

LEMMA FirstReadyStep ==
  ASSUME FirstTyped, FirstClean, FirstReady, First!Next
  PROVE  FirstReady'
<1>0. /\ fs \in Card /\ fs \in maybe /\ maybe \subseteq Card /\ Suffix(boot) /\ harmed \in BOOLEAN
      /\ pc = "cleanup" => fs.player
  BY DEF FirstTyped
<1> SUFFICES ASSUME ~harmed', ~fs'.player
             PROVE  /\ pc' # "firstrun" \/ Len(boot') = 10 => AllReady(maybe')
                    /\ pc' = "firstrun" => /\ Len(boot') >= 9 => fs'.script = "good" /\ fs'.archive
                                           /\ Len(boot') <= 8 => fs'.root = "good" /\ fs'.rootArchive
                                           /\ Len(boot') <= 7 => fs'.unit
  BY DEF FirstReady
<1>1. CASE pc' # "firstrun" /\ AllReady(maybe')
  BY <1>1
<1>2. ASSUME ~harmed, ~fs.player, pc # "firstrun"
      PROVE  AllReady(maybe) /\ Ready(fs)
  BY <1>0, <1>2 DEF FirstReady, AllReady
<1>4. CASE First!PowerOn
  <2>1. UNCHANGED <<fs, maybe, harmed>> /\ pc # "firstrun" /\ pc' # "firstrun"
    BY <1>4 DEF First!PowerOn
  <2> QED
    BY <1>1, <1>2, <2>1
<1>5. CASE First!Starts
  <2>1. UNCHANGED <<fs, maybe, harmed>> /\ pc # "firstrun"
    BY <1>5 DEF First!Starts
  <2>2. AllReady(maybe') /\ Ready(fs)
    BY <1>2, <2>1
  <2>3. CASE pc' = "firstrun"
    <3>1. fs.args /\ boot' = First!FirstRun
      BY <1>5, <2>3 DEF First!Starts
    <3>2. Len(boot') = 10
      BY <3>1, CommandsAre
    <3> QED
      BY <2>1, <2>2, <3>1, <3>2 DEF Ready
  <2> QED
    BY <1>1, <2>2, <2>3
<1>6. CASE First!FirstRunStep
  <2>1. /\ pc = "firstrun" /\ boot # <<>> /\ boot' = Tail(boot) /\ pc' = pc
    BY <1>6 DEF First!FirstRunStep
  <2>2. /\ Len(boot) \in 1..10 /\ Len(boot') = Len(boot) - 1 /\ Head(boot) \in Commands
        /\ Head(boot) = First!FirstRun[11 - Len(boot)]
    BY <2>1, NextCommand
  <2> DEFINE n == Len(boot)
             c == Head(boot)
             new == First!Command(c)
  <2>3. /\ n = 10 <=> c = "settings"
        /\ n = 9 <=> c = "copy"
        /\ n = 8 <=> c = "enable"
    <3>1. n \in 1..10 /\ c = First!FirstRun[11 - n]
      BY <2>2
    <3> HIDE DEF n, c
    <3> QED
      BY <3>1, CommandWhenLeft
  <2>4. n \in 1..10 /\ Len(boot') = n - 1 /\ c \in Commands
    BY <2>2
  <2>5. /\ new \in Card /\ new.player = fs.player
        /\ c = "settings" => new = fs
        /\ c = "copy" /\ fs.script = "good" /\ fs.archive => new.root = "good" /\ new.rootArchive
        /\ c # "copy" => new.root = fs.root /\ new.rootArchive = fs.rootArchive
        /\ fs.unit \/ c = "enable" => new.unit
    BY <1>0, <2>4, CommandIs
  <2>6. \/ c = "sync" /\ First!Synced(fs) /\ harmed' = harmed
        \/ c # "sync" /\ First!Put(new) /\ harmed' = harmed
        \/ UNCHANGED <<fs, maybe>> /\ harmed' = (harmed \/ c # "settings")
    BY <1>6 DEF First!FirstRunStep, First!NothingWritten
  <2> HIDE DEF n, c, new
  <2>7. fs' = fs \/ (c # "sync" /\ fs' = new)
    <3>1. First!Put(new) => fs' = new
      BY <2>5, PutMixes
    <3> QED
      BY <2>6, <3>1 DEF First!Synced
  <2>8. ~harmed /\ ~fs.player
    BY <1>0, <2>5, <2>6, <2>7
  <2>9. /\ n >= 9 => fs.script = "good" /\ fs.archive
        /\ n <= 8 => fs.root = "good" /\ fs.rootArchive
        /\ n <= 7 => fs.unit
    BY <2>1, <2>8 DEF FirstReady, n
  <2>10. c \in {"copy", "enable"} => fs' = new
    <3>1. First!Put(new) => fs' = new
      BY <2>5, PutMixes
    <3> QED
      BY <2>6, <3>1
  <2>11. Len(boot') # 10 /\ (Len(boot') >= 9 => n = 10) /\ (Len(boot') <= 8 => n <= 9) /\ (Len(boot') <= 7 => n <= 8)
    BY <2>4
  <2> QED
    BY <2>1, <2>3, <2>4, <2>5, <2>7, <2>9, <2>10, <2>11
<1>7. CASE First!FirstRunEnds
  <2>1. pc = "firstrun" /\ boot = <<>> /\ pc' # "firstrun" /\ fs' = fs /\ maybe' = {fs} /\ harmed' = harmed
    BY <1>7 DEF First!FirstRunEnds, First!Synced
  <2>2. Len(boot) = 0
    BY <2>1
  <2>3. ~fs.args /\ fs.root = "good" /\ fs.rootArchive /\ fs.unit
    BY <2>1, <2>2 DEF FirstReady, FirstClean
  <2> QED
    BY <1>1, <2>1, <2>3, OneCard DEF Ready
<1>8. CASE First!ConsoleAnswers \/ First!Restart
  <2>1. fs' = fs /\ maybe' = {fs} /\ pc' # "firstrun" /\ harmed' = harmed /\ pc # "firstrun"
    BY <1>8 DEF First!ConsoleAnswers, First!Restart, First!Synced
  <2> QED
    BY <1>1, <1>2, <2>1, OneCard
<1>9. CASE First!WakeWifi
  <2>0. pc' # "firstrun" /\ pc # "firstrun" /\ harmed' = harmed
    BY <1>9 DEF First!WakeWifi
  <2>1. CASE First!Synced([fs EXCEPT !.restarts = @ + 1])
    <3> DEFINE new == [fs EXCEPT !.restarts = @ + 1]
    <3>1. /\ new.player = fs.player /\ new.args = fs.args /\ new.script = fs.script /\ new.firstrun = fs.firstrun
          /\ new.archive = fs.archive /\ new.root = fs.root /\ new.unit = fs.unit /\ new.rootArchive = fs.rootArchive
      BY <1>0 DEF Card
    <3>2. fs' = new /\ maybe' = {new}
      BY <2>1 DEF First!Synced
    <3> HIDE DEF new
    <3>3. Ready(new)
      BY <1>2, <2>0, <3>1, <3>2 DEF Ready
    <3> QED
      BY <1>1, <2>0, <3>2, <3>3, OneCard
  <2>2. CASE First!Put([fs EXCEPT !.restarts = 0])
    <3> DEFINE new == [fs EXCEPT !.restarts = 0]
    <3>1. /\ new \in Card /\ new.player = fs.player
          /\ new.args = fs.args /\ new.script = fs.script /\ new.firstrun = fs.firstrun
          /\ new.archive = fs.archive /\ new.root = fs.root /\ new.unit = fs.unit /\ new.rootArchive = fs.rootArchive
      BY <1>0 DEF Card
    <3>2. First!Put(new)
      BY <2>2
    <3> HIDE DEF new
    <3>3. fs' = new
      BY <3>1, <3>2, PutMixes
    <3>4. AllReady(maybe)
      BY <1>2, <2>0, <3>1, <3>3
    <3> QED
      BY <1>1, <2>0, <3>1, <3>2, <3>4, PutReady
  <2>3. CASE UNCHANGED <<fs, maybe>>
    BY <1>1, <1>2, <2>0, <2>3
  <2> QED
    BY <1>9, <2>1, <2>2, <2>3 DEF First!WakeWifi, First!NothingWritten
<1>10. CASE First!Installed
  <2> DEFINE new == [fs EXCEPT !.player = TRUE]
  <2>1. new \in Card /\ new.player /\ First!Put(new)
    BY <1>0, <1>10 DEF Card, First!Installed
  <2> HIDE DEF new
  <2>2. fs'.player
    BY <2>1, PutMixes
  <2> QED
    BY <2>2
<1>11. CASE First!InstallFails
  <2>1. fs' = fs /\ maybe' \in {maybe, {fs}} /\ pc' # "firstrun" /\ pc # "firstrun" /\ harmed' = harmed
    BY <1>11 DEF First!InstallFails, First!NothingWritten, First!Synced
  <2> QED
    BY <1>1, <1>2, <2>1, OneCard
<1>12. CASE First!Cleanup
  <2> DEFINE new == [fs EXCEPT !.unit = FALSE, !.root = "gone", !.rootArchive = FALSE]
  <2>1. new \in Card /\ new.player = fs.player
    BY <1>0 DEF Card, First!Texts
  <2>2. First!Put(new) /\ fs.player
    BY <1>0, <1>12 DEF First!Cleanup
  <2> HIDE DEF new
  <2>3. fs' = new
    BY <2>1, <2>2, PutMixes
  <2> QED
    BY <2>1, <2>2, <2>3
<1>13. CASE First!PowerCut
  <2>1. /\ pc' # "firstrun" /\ harmed' = (harmed \/ First!Delicate)
        /\ \E left \in maybe : fs' = left /\ maybe' = {left}
    BY <1>13 DEF First!PowerCut, First!Synced
  <2>2. ~harmed /\ ~First!Delicate
    BY <2>1
  <2>3. (pc = "firstrun" => boot = First!FirstRun) /\ \A left \in maybe : left.player = fs.player
    BY <2>2 DEF First!Delicate
  <2>4. AllReady(maybe)
    BY <2>1, <2>2, <2>3, CommandsAre DEF FirstReady
  <2>5. AllReady(maybe')
    BY <2>1, <2>4 DEF AllReady
  <2> QED
    BY <1>1, <2>1, <2>5
<1> QED
  BY <1>4, <1>5, <1>6, <1>7, <1>8, <1>9, <1>10, <1>11, <1>12, <1>13 DEF First!Next

LEMMA FirstHolds ==
  ASSUME FirstTyped, FirstClean, FirstReady
  PROVE  First!OkMeansClean /\ First!StillProvisions /\ First!RestartsBounded
<1>1. First!OkMeansClean
  BY DEF FirstClean, OkClean, Clean, First!OkMeansClean
<1>2. First!StillProvisions
  BY DEF FirstTyped, FirstReady, AllReady, Ready, First!StillProvisions
<1>3. First!RestartsBounded
  BY DEF FirstTyped, Card, First!RestartsBounded
<1> QED
  BY <1>1, <1>2, <1>3

----------------------------------------------------------------------------
LEMMA DiskInit ==
  ASSUME NEW w \in BOOLEAN, Disk(w)!Init
  PROVE  DiskTyped(w) /\ DiskKept(w) /\ DiskFinished(w)
<1> USE CardsAssumption, BoundsAssumption DEF Disk!Init
<1>1. DiskTyped(w)
  BY DEF DiskTyped, Disk!TypeOK, Disk!Tables, Disk!Bodies
<1>2. DiskKept(w)
  BY DEF DiskKept, Disk!OtherCardsKept
<1>3. DiskFinished(w)
  BY DEF DiskFinished
<1> QED
  BY <1>1, <1>2, <1>3

LEMMA AppInit ==
  ASSUME App!Init
  PROVE  AppTyped /\ PostsTyped /\ AppWay /\ AppFetches
<1> USE BoundsAssumption DEF App!Init
<1>1. AppTyped
  <2>1. up \in BOOLEAN
    BY Zenon
  <2>2. st \in UpdateFile
    BY DEF UpdateFile
  <2>3. ui \in Window /\ ui = App!Closed /\ ui.asking = "no"
    BY ClosedWindow
  <2> QED
    BY <2>1, <2>2, <2>3 DEF AppTyped
<1>2. PostsTyped
  BY NoPosts DEF PostsTyped
<1>3. AppWay
  BY WayOnClosed DEF AppWay
<1>4. AppFetches
  BY NoPosts DEF AppFetches, One, Waiting
<1> QED
  BY <1>1, <1>2, <1>3, <1>4

LEMMA FirstInit ==
  ASSUME First!Init
  PROVE  FirstTyped /\ FirstClean /\ FirstReady
<1> USE DEF First!Init
<1>1. First!OnCard \in Card
  BY DEF First!OnCard, Card, First!Texts
<1>2. Suffix(<<>>)
  BY DEF Suffix
<1>3. FirstTyped
  <2>1. harmed \in BOOLEAN
    BY Zenon
  <2>2. fs \in Card /\ maybe = {fs} /\ fs.restarts = 0
    BY <1>1 DEF First!OnCard
  <2>3. Suffix(boot) /\ row = 0 /\ tries \in 0..MaxTries /\ pc = "off"
    BY <1>2, BoundsAssumption
  <2> QED
    BY <2>1, <2>2, <2>3 DEF FirstTyped
<1>4. FirstClean
  BY OneCard DEF FirstClean, First!OnCard
<1>5. FirstReady
  BY OneCard DEF FirstReady, Ready, First!OnCard
<1> QED
  BY <1>3, <1>4, <1>5

LEMMA UpdatesInit ==
  ASSUME Updates!Init
  PROVE  UpdatesSound /\ UpdatesNight
<1> USE NothingAssumption, BoundsAssumption DEF Updates!Init
<1>1. UpdatesTyped
  <2>1. unit \in [Updates!Scripts -> 0..MaxTime \cup {NULL}]
    BY DEF Updates!Scripts
  <2>2. reboots \in [Updates!Ids -> Nat] /\ 0 \in 0..Updates!MaxIds
    BY DEF Updates!Ids, Updates!MaxIds
  <2> QED
    BY <2>1, <2>2 DEF UpdatesTyped, Updates!TypeOK
<1>2. UpdatesMarked
  BY DEF UpdatesMarked
<1>3. UpdatesPaid
  BY DEF UpdatesPaid, Owed, Granted, Updates!Ids
<1>4. UpdatesNight
  <2>1. hidden \in BOOLEAN
    BY Zenon
  <2> QED
    BY <2>1 DEF UpdatesNight
<1> QED
  BY <1>1, <1>2, <1>3, <1>4 DEF UpdatesSound

LEMMA RemoteInit ==
  ASSUME Remote!Init
  PROVE  RemoteSound
BY DEF Remote!Init, RemoteSound, Remote!TypeOK, Remote!SwitchedAsWanted, Remote!ReportedAsIs

LEMMA ServicesInit ==
  ASSUME Services!Init
  PROVE  ServicesSound
<1> USE NothingAssumption, BoundsAssumption DEF Services!Init
<1>1. undone \in BOOLEAN
  BY Zenon
<1>2. console \in [version : 0..MaxChanges, content : Contents] /\ console.version = 0
  OBVIOUS
<1> QED
  BY <1>1, <1>2 DEF ServicesSound, Services!TypeOK

LEMMA DiskStill ==
  ASSUME NEW w \in BOOLEAN, UNCHANGED <<flash, pc, token>>
  PROVE  /\ DiskTyped(w) => DiskTyped(w)'
         /\ DiskKept(w) => DiskKept(w)'
         /\ DiskFinished(w) => DiskFinished(w)'
<1> USE DEF flash
<1>1. DiskTyped(w) => DiskTyped(w)'
  BY DEF DiskTyped, Disk!TypeOK
<1>2. DiskKept(w) => DiskKept(w)'
  BY DEF DiskKept, Disk!OtherCardsKept, MayBeCleared
<1>3. DiskFinished(w) => DiskFinished(w)'
  BY DEF DiskFinished, Excepted
<1> QED
  BY <1>1, <1>2, <1>3

LEMMA AppStill ==
  ASSUME UNCHANGED <<app, version>>
  PROVE  /\ AppTyped => AppTyped'
         /\ PostsTyped => PostsTyped'
         /\ AppWay => AppWay'
         /\ AppFetches => AppFetches'
BY DEF app, AppTyped, PostsTyped, AppWay, AppFetches

LEMMA FirstStill ==
  ASSUME UNCHANGED <<first, pc, token, cuts>>
  PROVE  FirstTyped /\ FirstClean /\ FirstReady => (FirstTyped /\ FirstClean /\ FirstReady)'
BY DEF first, FirstTyped, FirstClean, FirstReady

LEMMA UpkeepStill ==
  ASSUME UNCHANGED <<updates, remote, services, pc, cuts, version, stops>>
  PROVE  /\ UpdatesSound /\ UpdatesNight => (UpdatesSound /\ UpdatesNight)'
         /\ RemoteSound => RemoteSound'
         /\ ServicesSound => ServicesSound'
<1>1. UpdatesSound /\ UpdatesNight => (UpdatesSound /\ UpdatesNight)'
  BY DEF updates, UpdatesSound, UpdatesTyped, UpdatesMarked, UpdatesPaid, UpdatesNight, Updates!TypeOK, Owed, Granted
<1>2. RemoteSound => RemoteSound'
  BY DEF remote, RemoteSound, Remote!TypeOK, Remote!SwitchedAsWanted, Remote!ReportedAsIs
<1>3. ServicesSound => ServicesSound'
  BY DEF services, ServicesSound, Services!TypeOK
<1> QED
  BY <1>1, <1>2, <1>3

----------------------------------------------------------------------------
\* The invariants of the parts, each of the behaviours of its own part.
DeviceSound ==
  /\ part \in {"windows", "mac", "app", "first", "updates", "projector", "services"}
  /\ part = "windows" => DiskTyped(TRUE) /\ DiskKept(TRUE)
  /\ part = "mac" => DiskTyped(FALSE) /\ DiskKept(FALSE)
  /\ part = "app" => AppTyped /\ PostsTyped /\ AppWay /\ AppFetches
  /\ part = "first" => FirstTyped /\ FirstClean /\ FirstReady
  /\ part = "updates" => UpdatesSound /\ UpdatesNight
  /\ part = "projector" => RemoteSound
  /\ part = "services" => ServicesSound

\* What DoneMeansGood needs besides.
WritingSound ==
  /\ part = "windows" => DiskFinished(TRUE)
  /\ part = "mac" => DiskFinished(FALSE)

LEMMA DeviceInit ==
  Init => DeviceSound /\ WritingSound
<1> SUFFICES ASSUME Init PROVE DeviceSound /\ WritingSound
  OBVIOUS
<1> TRUE \in BOOLEAN /\ FALSE \in BOOLEAN
  OBVIOUS
<1>1. CASE part = "windows" /\ Disk(TRUE)!Init
  <2>1. DiskTyped(TRUE) /\ DiskKept(TRUE) /\ DiskFinished(TRUE)
    BY <1>1, DiskInit, Zenon
  <2> QED
    BY <1>1, <2>1 DEF DeviceSound, WritingSound
<1>2. CASE part = "mac" /\ Disk(FALSE)!Init
  <2>1. DiskTyped(FALSE) /\ DiskKept(FALSE) /\ DiskFinished(FALSE)
    BY <1>2, DiskInit, Zenon
  <2> QED
    BY <1>2, <2>1 DEF DeviceSound, WritingSound
<1>3. CASE part = "app" /\ App!Init
  BY <1>3, AppInit DEF DeviceSound, WritingSound
<1>4. CASE part = "first" /\ First!Init
  BY <1>4, FirstInit DEF DeviceSound, WritingSound
<1>5. CASE part = "updates" /\ Updates!Init
  BY <1>5, UpdatesInit DEF DeviceSound, WritingSound
<1>6. CASE part = "projector" /\ Remote!Init
  BY <1>6, RemoteInit DEF DeviceSound, WritingSound
<1>7. CASE part = "services" /\ Services!Init
  BY <1>7, ServicesInit DEF DeviceSound, WritingSound
<1> QED
  BY <1>1, <1>2, <1>3, <1>4, <1>5, <1>6, <1>7 DEF Init

LEMMA DeviceMoves ==
  ASSUME Next
  PROVE  /\ part' = part
         /\ part = "windows" => Disk(TRUE)!Next
         /\ part = "mac" => Disk(FALSE)!Next
         /\ part = "app" => App!Next
         /\ part = "first" => First!Next
         /\ part = "updates" => Updates!Next
         /\ part = "projector" => Remote!Next
         /\ part = "services" => Services!Next
BY DEF Next

LEMMA DeviceStep ==
  DeviceSound /\ [Next]_vars => DeviceSound'
<1> SUFFICES ASSUME DeviceSound, [Next]_vars PROVE DeviceSound'
  OBVIOUS
<1>0. TRUE \in BOOLEAN /\ FALSE \in BOOLEAN /\ part' = part
  BY DeviceMoves DEF vars
<1>1. CASE part = "windows"
  <2>1. DiskTyped(TRUE) /\ DiskKept(TRUE)
    BY <1>1 DEF DeviceSound
  <2>2. CASE Disk(TRUE)!Next
    <3>1. DiskTyped(TRUE)' /\ DiskKept(TRUE)'
      BY <1>0, <2>1, <2>2, DiskTypedStep, DiskKeptStep, Zenon
    <3> QED
      BY <1>0, <1>1, <3>1 DEF DeviceSound
  <2>3. CASE UNCHANGED vars
    <3>1. UNCHANGED <<flash, pc, token>>
      BY <2>3 DEF vars
    <3>2. DiskTyped(TRUE)' /\ DiskKept(TRUE)'
      BY <1>0, <2>1, <3>1, DiskStill, Zenon
    <3> QED
      BY <1>0, <1>1, <3>2 DEF DeviceSound
  <2> QED
    BY <1>1, <2>2, <2>3, DeviceMoves
<1>2. CASE part = "mac"
  <2>1. DiskTyped(FALSE) /\ DiskKept(FALSE)
    BY <1>2 DEF DeviceSound
  <2>2. CASE Disk(FALSE)!Next
    <3>1. DiskTyped(FALSE)' /\ DiskKept(FALSE)'
      BY <1>0, <2>1, <2>2, DiskTypedStep, DiskKeptStep, Zenon
    <3> QED
      BY <1>0, <1>2, <3>1 DEF DeviceSound
  <2>3. CASE UNCHANGED vars
    <3>1. UNCHANGED <<flash, pc, token>>
      BY <2>3 DEF vars
    <3>2. DiskTyped(FALSE)' /\ DiskKept(FALSE)'
      BY <1>0, <2>1, <3>1, DiskStill, Zenon
    <3> QED
      BY <1>0, <1>2, <3>2 DEF DeviceSound
  <2> QED
    BY <1>2, <2>2, <2>3, DeviceMoves
<1>3. CASE part = "app"
  <2>1. AppTyped /\ PostsTyped /\ AppWay /\ AppFetches
    BY <1>3 DEF DeviceSound
  <2>2. AppTyped' /\ PostsTyped' /\ AppWay' /\ AppFetches'
    <3>1. CASE App!Next
      BY <2>1, <3>1, AppTypedStep, PostsTypedStep, AppWayStep, AppFetchesStep
    <3>2. CASE UNCHANGED vars
      <4>1. UNCHANGED <<app, version>>
        BY <3>2 DEF vars
      <4> QED
        BY <2>1, <4>1, AppStill
    <3> QED
      BY <1>3, <3>1, <3>2, DeviceMoves
  <2> QED
    BY <1>0, <1>3, <2>2 DEF DeviceSound
<1>4. CASE part = "first"
  <2>1. FirstTyped /\ FirstClean /\ FirstReady
    BY <1>4 DEF DeviceSound
  <2>2. (FirstTyped /\ FirstClean /\ FirstReady)'
    <3>1. CASE First!Next
      BY <2>1, <3>1, FirstTypedStep, FirstCleanStep, FirstReadyStep
    <3>2. CASE UNCHANGED vars
      <4>1. UNCHANGED <<first, pc, token, cuts>>
        BY <3>2 DEF vars
      <4> QED
        BY <2>1, <4>1, FirstStill
    <3> QED
      BY <1>4, <3>1, <3>2, DeviceMoves
  <2> QED
    BY <1>0, <1>4, <2>2 DEF DeviceSound
<1>5. CASE part \in {"updates", "projector", "services"}
  <2>1. /\ part = "updates" => UpdatesSound /\ UpdatesNight
        /\ part = "projector" => RemoteSound
        /\ part = "services" => ServicesSound
    BY DEF DeviceSound
  <2>2. /\ part = "updates" => (UpdatesSound /\ UpdatesNight)'
        /\ part = "projector" => RemoteSound'
        /\ part = "services" => ServicesSound'
    <3>1. CASE Next
      <4>1. ASSUME part = "updates" PROVE (UpdatesSound /\ UpdatesNight)'
        BY <2>1, <3>1, <4>1, DeviceMoves, UpdatesTypedStep, UpdatesMarkedStep, UpdatesPaidStep, UpdatesNightStep
           DEF UpdatesSound
      <4>2. ASSUME part = "projector" PROVE RemoteSound'
        BY <2>1, <3>1, <4>2, DeviceMoves, RemoteStep
      <4>3. ASSUME part = "services" PROVE ServicesSound'
        BY <2>1, <3>1, <4>3, DeviceMoves, ServicesStep
      <4> QED
        BY <4>1, <4>2, <4>3
    <3>2. CASE UNCHANGED vars
      <4>1. UNCHANGED <<updates, remote, services, pc, cuts, version, stops>>
        BY <3>2 DEF vars
      <4> QED
        BY <2>1, <4>1, UpkeepStill
    <3> QED
      BY <3>1, <3>2
  <2> QED
    BY <1>0, <1>5, <2>2 DEF DeviceSound
<1> QED
  BY <1>1, <1>2, <1>3, <1>4, <1>5 DEF DeviceSound

LEMMA WritingStep ==
  ASSUME MaxSwaps <= 1
  PROVE  DeviceSound /\ WritingSound /\ [Next]_vars => WritingSound'
<1> SUFFICES ASSUME DeviceSound, WritingSound, [Next]_vars PROVE WritingSound'
  OBVIOUS
<1>0. TRUE \in BOOLEAN /\ FALSE \in BOOLEAN /\ part' = part /\ MaxSwaps \in Nat
  BY BoundsAssumption, DeviceMoves DEF vars
<1>1. ASSUME NEW w \in BOOLEAN, DiskTyped(w), DiskFinished(w), Disk(w)!Next \/ UNCHANGED vars
      PROVE  DiskFinished(w)'
  <2>1. CASE Disk(w)!Next
    BY <1>0, <1>1, <2>1, DiskFinishedStep, Zenon
  <2>2. CASE UNCHANGED vars
    <3>1. UNCHANGED <<flash, pc, token>>
      BY <2>2 DEF vars
    <3> QED
      BY <1>1, <3>1, DiskStill, Zenon
  <2> QED
    BY <1>1, <2>1, <2>2
<1>2. CASE part = "windows"
  <2>1. DiskTyped(TRUE) /\ DiskFinished(TRUE) /\ (Disk(TRUE)!Next \/ UNCHANGED vars)
    BY <1>2, DeviceMoves DEF DeviceSound, WritingSound
  <2>2. DiskFinished(TRUE)'
    BY <1>0, <1>1, <2>1, Zenon
  <2> QED
    BY <1>0, <1>2, <2>2 DEF WritingSound
<1>3. CASE part = "mac"
  <2>1. DiskTyped(FALSE) /\ DiskFinished(FALSE) /\ (Disk(FALSE)!Next \/ UNCHANGED vars)
    BY <1>3, DeviceMoves DEF DeviceSound, WritingSound
  <2>2. DiskFinished(FALSE)'
    BY <1>0, <1>1, <2>1, Zenon
  <2> QED
    BY <1>0, <1>3, <2>2 DEF WritingSound
<1>4. CASE part \notin {"windows", "mac"}
  BY <1>0, <1>4 DEF WritingSound
<1> QED
  BY <1>2, <1>3, <1>4

LEMMA DeviceAlwaysSound == Spec => []DeviceSound
BY DeviceInit, DeviceStep, PTL DEF Spec

(* Every part keeps the types of its state.                                  *)
THEOREM TypeCorrect == Spec => []TypeOK
<1>1. DeviceSound => TypeOK
  <2> SUFFICES ASSUME DeviceSound PROVE TypeOK
    OBVIOUS
  <2>1. /\ part = "windows" => Disk(TRUE)!TypeOK
        /\ part = "mac" => Disk(FALSE)!TypeOK
    BY DEF DeviceSound, DiskTyped
  <2>2. part = "app" => App!TypeOK
    <3>1. Len(<<>>) <= 1 /\ Len(<<"running">>) <= 1 /\ Len(<<"ending">>) <= 1
      OBVIOUS
    <3>2. AppTyped => App!TypeOK
      BY <3>1, BoundsAssumption DEF AppTyped, Window, App!TypeOK
    <3> QED
      BY <3>2 DEF DeviceSound
  <2>3. part = "first" => First!TypeOK
    BY DEF DeviceSound, FirstTyped, Card, First!TypeOK
  <2>4. part = "updates" => Updates!TypeOK
    BY DEF DeviceSound, UpdatesSound, UpdatesTyped
  <2>5. part = "projector" => Remote!TypeOK
    BY DEF DeviceSound, RemoteSound
  <2>6. part = "services" => Services!TypeOK
    BY DEF DeviceSound, ServicesSound
  <2>7. part \in {"windows", "mac", "app", "first", "updates", "projector", "services"}
    BY DEF DeviceSound
  <2> QED
    BY <2>1, <2>2, <2>3, <2>4, <2>5, <2>6, <2>7 DEF TypeOK
<1> QED
  BY <1>1, DeviceAlwaysSound, PTL

(* run_flash: a card other than the one confirmed is erased only when it was  *)
(* put in later or cannot be told from it, and written to only when it has    *)
(* its size: for any number of cards, runs and swaps, on Windows and on macOS. *)
THEOREM OtherCardsStay == Spec => []OtherCardsKept
<1>1. DeviceSound => OtherCardsKept
  BY DEF DeviceSound, DiskKept, OtherCardsKept
<1> QED
  BY <1>1, DeviceAlwaysSound, PTL

(* run_flash: a flash that says it is done has made a card that works, when   *)
(* no more than one card is swapped during the flash.                         *)
THEOREM DoneIsGood ==
  ASSUME MaxSwaps <= 1
  PROVE  Spec => []DoneMeansGood
<1>1. DeviceSound /\ WritingSound => DoneMeansGood
  <2> SUFFICES ASSUME DeviceSound, WritingSound PROVE DoneMeansGood
    OBVIOUS
  <2>1. ASSUME NEW w \in BOOLEAN, DiskFinished(w) PROVE Disk(w)!DoneMeansGood
    BY <2>1 DEF DiskFinished, Excepted, Disk!DoneMeansGood
  <2>2. /\ DiskFinished(TRUE) => Disk(TRUE)!DoneMeansGood
        /\ DiskFinished(FALSE) => Disk(FALSE)!DoneMeansGood
    BY <2>1, Zenon
  <2> QED
    BY <2>2 DEF WritingSound, DoneMeansGood
<1>2. DeviceSound /\ WritingSound /\ [Next]_vars => WritingSound'
  BY WritingStep
<1> QED
  BY <1>1, <1>2, DeviceInit, DeviceStep, PTL DEF Spec

(* App and updater.py: the window always has a way on, and a failing update   *)
(* is fetched at most twice by itself, for any number of sign-ins and starts. *)
THEOREM FlasherWayOn == Spec => []FlasherGoesOn
<1>1. DeviceSound => FlasherGoesOn
  <2> SUFFICES ASSUME DeviceSound, part = "app" PROVE App!AlwaysAWayOn /\ App!FetchesBounded
    BY DEF FlasherGoesOn
  <2>1. AppTyped /\ PostsTyped /\ AppWay /\ fetches <= 2
    BY DEF DeviceSound, AppFetches
  <2> QED
    BY <2>1, WayOnIsAWay DEF App!FetchesBounded
<1> QED
  BY <1>1, DeviceAlwaysSound, PTL

(* App._token_rejected: only the user, or the console rejecting that very     *)
(* token, signs the operator out.                                            *)
THEOREM SignInKept == Spec => FreshTokenKept
<1>1. DeviceSound /\ [Next]_vars => [part = "app" => App!FreshTokenKeptStep]_vars
  <2> SUFFICES ASSUME DeviceSound, Next, part = "app" PROVE App!FreshTokenKeptStep
    OBVIOUS
  <2>1. AppTyped /\ PostsTyped /\ AppWay /\ App!Next
    BY DeviceMoves DEF DeviceSound
  <2> QED
    BY <2>1, FreshTokenStep
<1> QED
  BY <1>1, DeviceAlwaysSound, PTL DEF Spec, FreshTokenKept

(* firstboot.py: firstrun.ok is true of the card whatever a power cut leaves, *)
(* an unharmed card still installs itself, and the restarts for the Wi-Fi end: *)
(* for any number of cuts, restarts and attempts.                            *)
THEOREM ProvisionIsSafe == Spec => []ProvisionHolds
<1>1. DeviceSound => ProvisionHolds
  BY FirstHolds DEF DeviceSound, ProvisionHolds
<1> QED
  BY <1>1, DeviceAlwaysSound, PTL

(* updater.py: what is marked as reported has come to the console, and each   *)
(* outcome restarts the Pi once, and once more for each marker that failed.   *)
THEOREM OutcomesReported == Spec => []OutcomeReported
<1>1. DeviceSound => OutcomeReported
  <2> SUFFICES ASSUME DeviceSound, part = "updates" PROVE Updates!ReportedCame /\ Updates!RebootsPaid
    BY DEF OutcomeReported
  <2>1. UpdatesTyped /\ UpdatesMarked /\ UpdatesPaid
    BY DEF DeviceSound, UpdatesSound
  <2>2. Updates!ReportedCame
    BY <2>1 DEF UpdatesMarked, Updates!ReportedCame
  <2>3. Updates!RebootsPaid
    BY <2>1 DEF UpdatesTyped, UpdatesPaid, Owed, Granted, Updates!RebootsPaid
  <2> QED
    BY <2>2, <2>3
<1> QED
  BY <1>1, DeviceAlwaysSound, PTL

(* maybe_auto_update: the nightly update is started once a night, for any     *)
(* window, gap and length of the day.                                        *)
THEOREM OneNightlyUpdate == Spec => NightlyOnce
<1>1. DeviceSound /\ [Next]_vars => [part = "updates" => Updates!NightlyOnceStep]_vars
  <2> SUFFICES ASSUME DeviceSound, Next, part = "updates" PROVE Updates!NightlyOnceStep
    OBVIOUS
  <2>1. UpdatesTyped /\ UpdatesNight /\ Updates!Next
    BY DeviceMoves DEF DeviceSound, UpdatesSound
  <2> QED
    BY <2>1, NightlyStep
<1> QED
  BY <1>1, DeviceAlwaysSound, PTL DEF Spec, NightlyOnce

(* projector.py, tunnel.py, camera_config.py: what has been applied is what   *)
(* the manifest asks for, through missed codes, failed restarts and crashes.  *)
THEOREM ManifestIsFollowed == Spec => []ManifestFollowed
<1>1. DeviceSound => ManifestFollowed
  BY DEF DeviceSound, RemoteSound, ServicesSound, ManifestFollowed, Services!ServiceHasFile, Services!VersionMeansFile
<1> QED
  BY <1>1, DeviceAlwaysSound, PTL
====
