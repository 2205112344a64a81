---- MODULE ServiceFiles ----
(***************************************************************************)
(* The two files the player keeps for services of its own: tunnel.token for *)
(* cloudflared (player/player/tunnel.py) and wyze.env for the camera bridge  *)
(* (camera_config.py).  A cycle compares the file with what the console     *)
(* wants, writes it and restarts the service.                               *)
(***************************************************************************)
EXTENDS Integers

CONSTANTS NULL, Contents,
          MaxChanges, MaxStops    \* bounds: changes at the console, restarts

VARIABLES kind,      \* "tunnel" or "camera"
          console,   \* what the console has: [version, content]
          manifest,  \* camera_config_version of the manifest in hand
          data,      \* what this cycle writes
          file, running,   \* the file; what the service read when it started
          version,   \* state.camera_config_version
          at,        \* where the cycle is
          undone,    \* history: a restart of the service did not happen after the last write
          stops

vars == <<kind, console, manifest, data, file, running, version, at, undone, stops>>

TypeOK ==
  /\ console \in [version : 0..MaxChanges, content : Contents]
  /\ file \in Contents \cup {NULL} /\ running \in Contents \cup {NULL}
  /\ version \in 0..MaxChanges \cup {NULL} /\ at \in {"sync", "apply", "write", "restart"}

Init ==
  /\ kind \in {"tunnel", "camera"} /\ console \in [version : {0}, content : Contents]
  /\ manifest = 0 /\ data = NULL /\ file = NULL /\ running = NULL /\ version = NULL
  /\ at = "sync" /\ undone = FALSE /\ stops = 0

\* An administrator changes the camera, with or without its account; a token is rotated.
Changed ==
  /\ console.version < MaxChanges
  /\ \E c \in Contents : console' = [version |-> console.version + 1, content |-> c]
  /\ UNCHANGED <<kind, manifest, data, file, running, version, at, undone, stops>>

\* The tunnel's token is in the manifest itself.
Sync ==
  /\ at = "sync" /\ at' = "apply" /\ manifest' = console.version
  /\ data' = IF kind = "tunnel" THEN console.content ELSE NULL
  /\ UNCHANGED <<kind, console, file, running, version, undone, stops>>

Fetch ==
  /\ at = "apply" /\ kind = "camera" /\ version # manifest
  /\ \/ data' = console.content /\ at' = "write"
     \/ UNCHANGED data /\ at' = "sync"         \* failed: the next cycle
  /\ UNCHANGED <<kind, console, manifest, file, running, version, undone, stops>>

Same ==
  /\ at = "apply" /\ kind = "camera" /\ version = manifest /\ at' = "sync"
  /\ UNCHANGED <<kind, console, manifest, data, file, running, version, undone, stops>>

Compare ==
  /\ at = "apply" /\ kind = "tunnel" /\ at' = "write"
  /\ UNCHANGED <<kind, console, manifest, data, file, running, version, undone, stops>>

AppliedAnswer == console.version
\* The version of the manifest, not of the answer: a newer answer is applied again.
Applied == manifest

Done == version' = IF kind = "camera" THEN Applied ELSE version

\* write_private: the file is replaced whole or not at all.
Write ==
  /\ at = "write"
  /\ \/ file = data /\ at' = "sync" /\ Done /\ UNCHANGED <<file, undone>>
     \/ file # data /\ file' = data /\ at' = "restart" /\ undone' = FALSE /\ UNCHANGED version
     \/ file # data /\ at' = "sync" /\ UNCHANGED <<file, undone, version>>    \* OSError
  /\ UNCHANGED <<kind, console, manifest, data, running, stops>>

\* systemctl restart: done; refused, which is only logged; or no answer in 30 s,
\* which leaves the camera's version behind but finds the file unchanged next time.
RestartService ==
  /\ at = "restart" /\ at' = "sync"
  /\ \/ running' = file /\ Done /\ UNCHANGED undone
     \/ UNCHANGED running /\ undone' = TRUE /\ Done
     \/ running' \in {running, file} /\ undone' = (running' # file)
        /\ IF kind = "camera" THEN UNCHANGED version ELSE Done
  /\ UNCHANGED <<kind, console, manifest, data, file, stops>>

\* The daemon dies, or the Pi restarts, and the service with it.
Stop(pi) ==
  /\ stops < MaxStops /\ stops' = stops + 1
  /\ at' = "sync" /\ data' = NULL /\ version' = NULL
  /\ running' = IF pi THEN file ELSE running
  /\ undone' = (~pi /\ (undone \/ at = "restart"))
  /\ UNCHANGED <<kind, console, manifest, file>>

\* systemd starts the service again when it has ended.
ServiceEnds ==
  /\ file # NULL /\ running # file /\ running' = file /\ undone' = FALSE
  /\ UNCHANGED <<kind, console, manifest, data, file, version, at, stops>>

Next == Changed \/ Sync \/ Fetch \/ Same \/ Compare \/ Write \/ RestartService
        \/ (\E pi \in BOOLEAN : Stop(pi)) \/ ServiceEnds

Spec == Init /\ [][Next]_vars

----------------------------------------------------------------------------
(* Between cycles the service runs with the file's content, unless its        *)
(* restart failed or was cut off, and that is not made up for: the file no    *)
(* longer differs.                                                           *)
ServiceHasFile == at = "sync" /\ ~undone => running = file

(* The version that counts as applied is one whose account is in the file,    *)
(* although the settings are fetched after the manifest that announced them. *)
VersionMeansFile ==
  kind = "camera" /\ at = "sync" /\ version = console.version => file = console.content
====
