---- MODULE PlayerUpdates ----
(***************************************************************************)
(* Updates on the player: player/player/updater.py and its calls in         *)
(* daemon.py run_cycle.  The update scripts run in units of their own and    *)
(* leave update-status.json; whichever daemon syncs next reports it, marks  *)
(* it as reported and restarts the Pi if it says so; the nightly update is  *)
(* started at the end of a cycle.  Time is counted in units of a day.       *)
(***************************************************************************)
EXTENDS Integers, FiniteSets

CONSTANTS Day, Gap,      \* 24 h and AUTO_UPDATE_GAP
          WindowStart, WindowEnd,   \* the manifest's window, may wrap midnight
          NULL,
          MaxTime, MaxCuts, MaxMarkFailures, MaxCommands   \* bounds

VARIABLES now,
          status,     \* update-status.json: [id, ref, started, reboot] or NULL; id: its mtime
          marker,     \* update-status.reported: an id, 0: none
          unit,       \* update scripts running: when each started, or NULL
          thenOs,     \* the running update-player goes on with update-os
          pc, pending, lastAuto,   \* the daemon: its place in the cycle, state.last_auto_update
          seen,       \* history: ids that came to the console
          reboots,    \* history: restarts each id asked for and got
          auto,       \* history: when the nightly update was started last
          cuts, markFailures, commands,
          hidden      \* history: the last update-player run left no trace to read

files == <<status, marker>>
counts == <<cuts, markFailures, commands>>
daemon == <<pc, pending, lastAuto>>
vars == <<now, files, unit, thenOs, daemon, seen, reboots, auto, counts, hidden>>

Refs == {"player", "os"}
\* update-all: update-os.sh goes on in the unit of update-player.sh.
Scripts == Refs \cup {"thenOs"}
MaxIds == 2      \* bound: outcomes written
Ids == 1..MaxIds
Status == [id : Ids, ref : Refs, started : 0..MaxTime, reboot : BOOLEAN]

TypeOK ==
  /\ now \in 0..MaxTime /\ status \in Status \cup {NULL} /\ marker \in 0..MaxIds
  /\ unit \in [Scripts -> 0..MaxTime \cup {NULL}] /\ pending \in Status \cup {NULL}
  /\ pc \in {"start", "sync", "mark", "reboot", "end"}

Init ==
  /\ now = 0 /\ status = NULL /\ marker = 0
  /\ unit = [r \in Scripts |-> NULL] /\ thenOs = FALSE
  /\ pc = "start" /\ pending = NULL /\ lastAuto = NULL
  /\ seen = {} /\ reboots = [i \in Ids |-> 0] /\ auto = NULL
  /\ cuts = 0 /\ markFailures = 0 /\ commands = 0 /\ hidden = FALSE

Tick ==
  /\ now < MaxTime /\ now' = now + 1
  /\ UNCHANGED <<files, unit, thenOs, daemon, seen, reboots, auto, counts, hidden>>

----------------------------------------------------------------------------
(* The scripts.  A unit's name is the lock on it.                            *)
PlayerIdle == unit["player"] = NULL /\ unit["thenOs"] = NULL

StartPlayer(then) ==
  IF PlayerIdle
  THEN unit' = [unit EXCEPT !["player"] = now] /\ thenOs' = then
  ELSE UNCHANGED <<unit, thenOs>>

Command(action) ==
  /\ pc = "end" /\ commands < MaxCommands /\ commands' = commands + 1
  /\ IF action = "update-os"
     THEN unit' = [unit EXCEPT !["os"] = IF @ = NULL THEN now ELSE @] /\ UNCHANGED thenOs
     ELSE StartPlayer(action = "update-all")
  /\ UNCHANGED <<now, files, daemon, seen, reboots, auto, cuts, markFailures, hidden>>

NextId == 1 + (IF status = NULL THEN 0 ELSE status.id)

FreshDaemon == pc' = "start" /\ pending' = NULL /\ lastAuto' = NULL

\* Done or failed: the outcome is written; an update that went in restarts the daemon,
\* one that was there already does not.
ScriptEnds(script) ==
  /\ unit[script] # NULL /\ NextId <= MaxIds
  /\ \E reboot \in IF script = "player" THEN {FALSE} ELSE BOOLEAN :
       status' = [id |-> NextId, ref |-> IF script = "player" THEN "player" ELSE "os",
                  started |-> unit[script], reboot |-> reboot]
  /\ hidden' = (script # "player")
  /\ \E good, restarts \in BOOLEAN :
       /\ restarts => good /\ script = "player"
       /\ IF restarts THEN FreshDaemon ELSE UNCHANGED daemon
       /\ unit' = [unit EXCEPT ![script] = NULL,
                               !["thenOs"] = IF script = "player" /\ good /\ thenOs THEN now
                                             ELSE IF script = "thenOs" THEN NULL ELSE @]
  /\ thenOs' = (thenOs /\ script # "player")
  /\ UNCHANGED <<now, marker, seen, reboots, auto, counts>>

\* Power lost: scripts and daemon are gone; or the daemon alone dies and is restarted.
Interrupted(power) ==
  /\ cuts < MaxCuts /\ cuts' = cuts + 1
  /\ FreshDaemon
  /\ IF power THEN /\ unit' = [r \in Scripts |-> NULL] /\ thenOs' = FALSE
                   /\ hidden' = (hidden \/ unit["player"] # NULL)
              ELSE UNCHANGED <<unit, thenOs, hidden>>
  /\ UNCHANGED <<now, files, seen, reboots, auto, markFailures, commands>>

----------------------------------------------------------------------------
(* The daemon's cycle.                                                       *)
Unreported == IF status # NULL /\ marker # status.id THEN status ELSE NULL

StartCycle ==
  /\ pc = "start" /\ pc' = "sync" /\ pending' = Unreported
  /\ UNCHANGED <<now, files, unit, thenOs, lastAuto, seen, reboots, auto, counts, hidden>>

\* The request may have come through although its answer did not.
Sync ==
  /\ pc = "sync"
  /\ \E came, answered \in BOOLEAN :
       /\ answered => came
       /\ seen' = IF pending # NULL /\ came THEN seen \cup {pending.id} ELSE seen
       /\ pc' = IF ~answered THEN "start" ELSE IF pending # NULL THEN "mark" ELSE "end"
  /\ UNCHANGED <<now, files, unit, thenOs, pending, lastAuto, reboots, auto, counts, hidden>>

MarkNow == status.id
\* The mtime the parameter was built from, whatever the file is by now.
Mark == pending.id

MarkReported ==
  /\ pc = "mark"
  /\ \/ marker' = Mark /\ UNCHANGED markFailures
     \/ /\ markFailures < MaxMarkFailures /\ markFailures' = markFailures + 1   \* only logged
        /\ UNCHANGED marker
  /\ pc' = IF pending.reboot THEN "reboot" ELSE "end"
  /\ UNCHANGED <<now, status, unit, thenOs, pending, lastAuto, seen, reboots, auto, cuts, commands, hidden>>

Reboot ==
  /\ pc = "reboot" /\ FreshDaemon
  /\ reboots' = [reboots EXCEPT ![pending.id] = @ + 1]
  /\ unit' = [r \in Scripts |-> NULL] /\ thenOs' = FALSE
  /\ hidden' = (hidden \/ unit["player"] # NULL)
  /\ UNCHANGED <<now, files, seen, auto, counts>>

InWindow ==
  LET t == now % Day IN
  IF WindowStart <= WindowEnd THEN WindowStart <= t /\ t < WindowEnd
                              ELSE t >= WindowStart \/ t < WindowEnd

Longer(t) == t = NULL \/ now - t >= Gap
LastStarted == IF status # NULL /\ status.ref = "player" THEN status.started ELSE NULL
DueInMemory == InWindow /\ Longer(lastAuto)
Due == InWindow /\ Longer(lastAuto) /\ Longer(LastStarted)

EndCycle ==
  /\ pc = "end" /\ pc' = "start" /\ pending' = NULL
  /\ IF Due
     THEN /\ lastAuto' = now /\ StartPlayer(FALSE)
          /\ auto' = IF PlayerIdle THEN now ELSE auto
          /\ hidden' = IF PlayerIdle THEN FALSE ELSE hidden
     ELSE UNCHANGED <<lastAuto, unit, thenOs, auto, hidden>>
  /\ UNCHANGED <<now, files, seen, reboots, counts>>

Next ==
  \/ Tick \/ StartCycle \/ Sync \/ MarkReported \/ Reboot \/ EndCycle
  \/ \E a \in {"update-player", "update-os", "update-all"} : Command(a)
  \/ \E script \in Scripts : ScriptEnds(script)
  \/ \E power \in BOOLEAN : Interrupted(power)

Spec == Init /\ [][Next]_vars

----------------------------------------------------------------------------
(* An outcome is taken as reported only when the console has it: one that is  *)
(* written between the sync and the marker is reported by the next cycle.    *)
ReportedCame == marker # 0 => marker \in seen

(* update-os restarts the Pi once, and once more for each time the marker      *)
(* could not be written.                                                     *)
RebootsPaid == \A i \in Ids : reboots[i] <= 1 + markFailures

(* The marker "keeps a status from being reported on every start": an outcome  *)
(* that has restarted the Pi is not reported, and restarts it, once more.    *)
RebootOnce == \A i \in Ids : reboots[i] <= 1

(* The nightly update is not started twice in one night, across restarts of    *)
(* the daemon, unless the first run's outcome cannot be read any more: it was *)
(* interrupted, or update-os has written its own over it.                    *)
NightlyOnceStep == auto' # auto => hidden \/ Longer(auto)
====
