---- MODULE MCDevice ----
(***************************************************************************)
(* Small instances of what happens on one machine: the flasher on the      *)
(* operator's computer, the first starts of the Pi, and the player's own   *)
(* upkeep.  As in MCConsole, `part` says which module a behaviour is of.   *)
(***************************************************************************)
EXTENDS Integers

CONSTANTS Cards, Sizes, Sigs, ImageSize, NULL, Off, MaxRuns, MaxSwaps,
          MaxTokens, MaxStarts, MaxTries, MaxCuts,
          Day, Gap, WindowStart, WindowEnd, MaxTime, MaxMarkFailures, MaxCommands,
          MaxWants, MaxMisses, MaxPresses, MaxStops, Contents, MaxChanges

VARIABLES part,
          pc, token, cuts, version, stops,                           \* in more than one module
          slot, sees, card, cache, conf, drive, mount, swapped, wiped, written, runs, swaps,
          up, ui, worker, posts, check, upd, saved, st, tokens, revoked, starts, fetches,
          fs, maybe, boot, fails, wifi, wlan, tries, row, harmed,    \* Provision
          now, status, marker, unit, thenOs, pending, lastAuto, seen, reboots, auto,
          markFailures, commands, hidden,                            \* ... PlayerUpdates
          toggle, power, block, state, error, applied_want, retry, missed, wants, misses, presses,
          kind, console, manifest, data, file, running, at, undone   \* ServiceFiles

Disk(Windows) == INSTANCE Flash
App == INSTANCE FlasherApp
First == INSTANCE Provision
Updates == INSTANCE PlayerUpdates WITH MaxCuts <- MaxCuts - 1
Remote == INSTANCE Projector
Services == INSTANCE ServiceFiles

ASSUME NothingAssumption == NULL \notin Nat \cup Contents \cup Remote!Powers /\ NULL \notin Updates!Status
ASSUME CardsAssumption == NULL \notin Cards
ASSUME BoundsAssumption == {MaxRuns, MaxSwaps, MaxTokens, MaxStarts, Gap, MaxTime, MaxMarkFailures, MaxChanges,
                             MaxTries} \subseteq Nat

flash == <<slot, sees, card, cache, conf, drive, mount, swapped, wiped, written, runs, swaps>>
app == <<up, ui, worker, posts, check, upd, saved, st, tokens, revoked, starts, fetches>>
first == <<fs, maybe, boot, fails, wifi, wlan, tries, row, harmed>>
updates == <<now, status, marker, unit, thenOs, pending, lastAuto, seen, reboots, auto,
             markFailures, commands, hidden>>
remote == <<toggle, power, block, state, error, applied_want, retry, missed, wants, misses, presses>>
services == <<kind, console, manifest, data, file, running, at, undone>>
vars == <<part, pc, token, cuts, version, stops, flash, app, first, updates, remote, services>>

NoFlash == /\ slot = Off /\ sees = Off /\ card = Off /\ cache = Off /\ conf = Off /\ drive = Off /\ mount = Off
           /\ swapped = Off /\ wiped = Off /\ written = Off /\ runs = Off /\ swaps = Off
NoApp == /\ up = Off /\ ui = Off /\ worker = Off /\ posts = Off /\ check = Off /\ upd = Off
         /\ saved = Off /\ st = Off /\ tokens = Off /\ revoked = Off /\ starts = Off /\ fetches = Off
NoFirst == /\ fs = Off /\ maybe = Off /\ boot = Off /\ fails = Off /\ wifi = Off
           /\ wlan = Off /\ tries = Off /\ row = Off /\ harmed = Off
NoUpdates == /\ now = Off /\ status = Off /\ marker = Off /\ unit = Off /\ thenOs = Off
             /\ pending = Off /\ lastAuto = Off /\ seen = Off /\ reboots = Off /\ auto = Off
             /\ markFailures = Off /\ commands = Off /\ hidden = Off
NoRemote == /\ toggle = Off /\ power = Off /\ block = Off /\ state = Off /\ error = Off
            /\ applied_want = Off /\ retry = Off /\ missed = Off
            /\ wants = Off /\ misses = Off /\ presses = Off
NoServices == /\ kind = Off /\ console = Off /\ manifest = Off /\ data = Off
              /\ file = Off /\ running = Off /\ at = Off /\ undone = Off

Init ==
  \/ /\ \/ part = "windows" /\ Disk(TRUE)!Init
        \/ part = "mac" /\ Disk(FALSE)!Init
     /\ NoApp /\ NoFirst /\ NoUpdates /\ NoRemote /\ NoServices
     /\ cuts = Off /\ version = Off /\ stops = Off
  \/ /\ part = "app" /\ App!Init
     /\ NoFlash /\ NoFirst /\ NoUpdates /\ NoRemote /\ NoServices
     /\ pc = Off /\ token = Off /\ cuts = Off /\ stops = Off
  \/ /\ part = "first" /\ First!Init
     /\ NoFlash /\ NoApp /\ NoUpdates /\ NoRemote /\ NoServices
     /\ version = Off /\ stops = Off
  \/ /\ part = "updates" /\ Updates!Init
     /\ NoFlash /\ NoApp /\ NoFirst /\ NoRemote /\ NoServices
     /\ token = Off /\ version = Off /\ stops = Off
  \/ /\ part = "projector" /\ Remote!Init
     /\ NoFlash /\ NoApp /\ NoFirst /\ NoUpdates /\ NoServices
     /\ pc = Off /\ token = Off /\ cuts = Off /\ version = Off
  \/ /\ part = "services" /\ Services!Init
     /\ NoFlash /\ NoApp /\ NoFirst /\ NoUpdates /\ NoRemote
     /\ pc = Off /\ token = Off /\ cuts = Off

Next ==
  /\ UNCHANGED part
  /\ \/ /\ \/ part = "windows" /\ Disk(TRUE)!Next
           \/ part = "mac" /\ Disk(FALSE)!Next
        /\ UNCHANGED <<app, first, updates, remote, services, cuts, version, stops>>
     \/ /\ part = "app" /\ App!Next
        /\ UNCHANGED <<flash, first, updates, remote, services, pc, token, cuts, stops>>
     \/ /\ part = "first" /\ First!Next
        /\ UNCHANGED <<flash, app, updates, remote, services, version, stops>>
     \/ /\ part = "updates" /\ Updates!Next
        /\ UNCHANGED <<flash, app, first, remote, services, token, version, stops>>
     \/ /\ part = "projector" /\ Remote!Next
        /\ UNCHANGED <<flash, app, first, updates, services, pc, token, cuts, version>>
     \/ /\ part = "services" /\ Services!Next
        /\ UNCHANGED <<flash, app, first, updates, remote, pc, token, cuts>>

Spec == Init /\ [][Next]_vars

\* "a" and "b" have the same size, "b" and "c" the same signature.
MCSizes == [c \in Cards |-> IF c = "c" THEN 1 ELSE 2]
MCSigs == [c \in Cards |-> IF c = "a" THEN "s1" ELSE "s2"]

----------------------------------------------------------------------------
(* What the run checks.                                                      *)

(* The type invariant of every part.                                        *)
TypeOK ==
  CASE part = "windows"   -> Disk(TRUE)!TypeOK
    [] part = "mac"       -> Disk(FALSE)!TypeOK
    [] part = "app"       -> App!TypeOK
    [] part = "first"     -> First!TypeOK
    [] part = "updates"   -> Updates!TypeOK
    [] part = "projector" -> Remote!TypeOK
    [] part = "services"  -> Services!TypeOK

(* A flash that says it is done has made a card that works (run_flash).       *)
DoneMeansGood == (part = "windows" => Disk(TRUE)!DoneMeansGood) /\ (part = "mac" => Disk(FALSE)!DoneMeansGood)

(* No other card than the confirmed one is erased or written, as far as the   *)
(* program can tell them apart (check_disk, PhysicalDrive, RawDisk).          *)
OtherCardsKept == (part = "windows" => Disk(TRUE)!OtherCardsKept) /\ (part = "mac" => Disk(FALSE)!OtherCardsKept)

(* The window never comes to rest without a way on, and a failing update is   *)
(* not fetched at every start (App, updater.py).                              *)
FlasherGoesOn == part = "app" => App!AlwaysAWayOn /\ App!FetchesBounded

(* A sign-in is forgotten by the user or because that very token was rejected *)
(* (_token_rejected).                                                         *)
FreshTokenKept == [][part = "app" => App!FreshTokenKeptStep]_vars

(* firstrun.ok means the secrets are gone for good; a card still installs     *)
(* itself after restarts and failures; the Wi-Fi restarts end (firstboot.py). *)
ProvisionHolds ==
  part = "first" => First!OkMeansClean /\ First!StillProvisions /\ First!RestartsBounded

(* An outcome marked as reported has come to the console, and an outcome      *)
(* restarts the Pi again only for a failed marker (updater.py).               *)
OutcomeReported == part = "updates" => Updates!ReportedCame /\ Updates!RebootsPaid

(* One nightly update a night (maybe_auto_update).                            *)
NightlyOnce == [][part = "updates" => Updates!NightlyOnceStep]_vars

(* What the daemon keeps in line with the manifest is in line: the projector  *)
(* with `want` and its reported state with the projector (projector.py), the  *)
(* services with their files and the files with the console (tunnel.py,       *)
(* camera_config.py).                                                         *)
ManifestFollowed ==
  /\ part = "projector" => Remote!SwitchedAsWanted /\ Remote!ReportedAsIs
  /\ part = "services" => Services!ServiceHasFile /\ Services!VersionMeansFile
====
