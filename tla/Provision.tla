---- MODULE Provision ----
(***************************************************************************)
(* The first starts of a flashed Pi: firstrun.sh and the provisioning       *)
(* service that tools/flasher/firstboot.py puts on the card.  A write is    *)
(* durable after a sync or an orderly restart; before that a power cut      *)
(* leaves any of the values written since the last one.                     *)
(***************************************************************************)
EXTENDS Integers, SequencesExt

CONSTANTS MaxTries,      \* install attempts in one boot (20 in the code)
          MaxCuts        \* bound: power cuts

VARIABLES fs,       \* files and settings, as the running system sees them
          maybe,    \* what a power cut may leave of them: a set of such records
          pc, boot, \* where the scripts are; the next command of firstrun.sh
          fails,    \* FAILS
          wifi,     \* a card made for Wi-Fi (ethernet_only is FALSE)
          wlan,     \* the Wi-Fi chip woke up at this start
          token,    \* DEVICE_TOKEN is not empty
          tries, row, cuts,   \* TRIES; restarts in a row to wake the Wi-Fi
          harmed    \* history: a step failed or the power was cut where it hurts

vars == <<fs, maybe, pc, boot, fails, wifi, wlan, token, tries, row, cuts, harmed>>

\* script, firstrun: on the FAT partition; root: the script's copy; args: the boot
\* arguments that run firstrun.sh; ok: firstrun.ok; restarts: the counter file.
OnCard == [script |-> "good", firstrun |-> "good", archive |-> TRUE, args |-> TRUE, ok |-> FALSE,
           root |-> "gone", rootArchive |-> FALSE, unit |-> FALSE, restarts |-> 0, player |-> FALSE]
Fields == DOMAIN OnCard
Texts == {"good", "zero", "gone"}

TypeOK ==
  /\ fs.script \in Texts /\ fs.firstrun \in Texts /\ fs.root \in Texts /\ fs.restarts \in 0..2
  /\ fs \in maybe
  /\ pc \in {"off", "boot", "firstrun", "stuck", "wifi", "console", "install", "gaveUp", "cleanup", "over"}
  /\ tries \in 0..MaxTries

Init ==
  /\ fs = OnCard /\ maybe = {OnCard}
  /\ pc = "off" /\ boot = <<>> /\ fails = 0 /\ wlan = FALSE
  /\ wifi \in BOOLEAN /\ token \in BOOLEAN
  /\ tries = 0 /\ row = 0 /\ cuts = 0 /\ harmed = FALSE

Put(new) ==
  /\ fs' = new
  /\ LET changed == {f \in Fields : new[f] # fs[f]} IN
       maybe' = {[f \in Fields |-> IF f \in kept THEN new[f] ELSE left[f]] :
                   left \in maybe, kept \in SUBSET changed}
Synced(new) == fs' = new /\ maybe' = {new}
NothingWritten == UNCHANGED <<fs, maybe>>

----------------------------------------------------------------------------
OkBeforeSync == <<"settings", "copy", "enable", "zero", "remove", "args", "zeroSelf", "removeSelf", "ok", "sync">>
\* firstrun.sh: what it sets (name, user, SSH, network, locale), then the commands that
\* move and remove the secrets, in their order.
FirstRun == <<"settings", "copy", "enable", "zero", "remove", "args", "zeroSelf", "removeSelf", "sync", "ok">>

Zeroed(text) == IF text = "gone" THEN "gone" ELSE "zero"

PowerOn ==
  /\ pc = "off" /\ pc' = "boot" /\ wlan' \in BOOLEAN
  /\ UNCHANGED <<fs, maybe, boot, fails, wifi, token, tries, row, cuts, harmed>>

\* kernel-command-line.target runs firstrun.sh: one that is gone or empty fails, and
\* only its success restarts.  Otherwise the service, when it is enabled.
Starts ==
  /\ pc = "boot"
  /\ pc' = CASE fs.args /\ fs.firstrun = "good" -> "firstrun"
             [] fs.args /\ fs.firstrun # "good" -> "stuck"
             [] ~fs.args /\ fs.unit /\ fs.root = "good" -> "wifi"
             [] OTHER -> "over"
  /\ boot' = IF pc' = "firstrun" THEN FirstRun ELSE <<>>
  /\ fails' = 0 /\ tries' = 0
  /\ UNCHANGED <<fs, maybe, wifi, wlan, token, row, cuts, harmed>>

\* run: a step that fails is counted, and the script goes on.
Command(c) ==
  CASE c = "copy"       -> IF fs.script = "gone" THEN [fs EXCEPT !.rootArchive = @ \/ fs.archive]
                           ELSE [fs EXCEPT !.root = fs.script, !.rootArchive = @ \/ fs.archive]
    [] c = "enable"     -> [fs EXCEPT !.unit = TRUE]
    [] c = "zero"       -> [fs EXCEPT !.script = Zeroed(@)]
    [] c = "remove"     -> [fs EXCEPT !.script = "gone", !.archive = FALSE]
    [] c = "args"       -> [fs EXCEPT !.args = FALSE]
    [] c = "zeroSelf"   -> [fs EXCEPT !.firstrun = "zero"]
    [] c = "removeSelf" -> [fs EXCEPT !.firstrun = "gone"]
    [] c = "ok"         -> [fs EXCEPT !.ok = @ \/ fails = 0]
    [] c \in {"settings", "sync"} -> fs

FirstRunStep ==
  /\ pc = "firstrun" /\ boot # <<>> /\ boot' = Tail(boot)
  /\ \/ /\ IF Head(boot) = "sync" THEN Synced(fs) ELSE Put(Command(Head(boot)))
        /\ fails' = IF Head(boot) = "copy" /\ (fs.script = "gone" \/ ~fs.archive) THEN fails + 1 ELSE fails
        /\ UNCHANGED harmed
     \/ /\ Head(boot) \in {"settings", "copy", "enable"}
        /\ fails' = fails + 1 /\ harmed' = (harmed \/ Head(boot) # "settings") /\ NothingWritten
  /\ UNCHANGED <<pc, wifi, wlan, token, tries, row, cuts>>

FirstRunEnds ==
  /\ pc = "firstrun" /\ boot = <<>> /\ pc' = "boot"
  /\ Synced(fs) /\ wlan' \in BOOLEAN
  /\ UNCHANGED <<boot, fails, wifi, token, tries, row, cuts, harmed>>

----------------------------------------------------------------------------
(* The service.                                                              *)
MaxRestarts == 2
MayRestart(n) == n < MaxRestarts

\* A cable that reaches the console needs no Wi-Fi.
WakeWifi ==
  /\ pc = "wifi"
  /\ IF wifi /\ ~wlan
     THEN \/ pc' = "console" /\ NothingWritten /\ UNCHANGED <<wlan, row>>
          \/ /\ MayRestart(fs.restarts) /\ pc' = "boot"
             /\ Synced([fs EXCEPT !.restarts = @ + 1])
             /\ row' = row + 1 /\ wlan' \in BOOLEAN
     ELSE /\ pc' = "console" /\ UNCHANGED wlan
          /\ IF wifi THEN Put([fs EXCEPT !.restarts = 0]) /\ row' = 0
                     ELSE NothingWritten /\ UNCHANGED row
  /\ UNCHANGED <<boot, fails, wifi, token, tries, cuts, harmed>>

\* Until the console answers: waiting_log syncs, and so does the end of the wait.
ConsoleAnswers ==
  /\ pc = "console" /\ pc' = "install" /\ Synced(fs)
  /\ UNCHANGED <<boot, fails, wifi, wlan, token, tries, row, cuts, harmed>>

\* One attempt: the token, by enrolling when the card has none; then the install.
Installed ==
  /\ pc = "install" /\ tries < MaxTries /\ fs.rootArchive
  /\ token' = TRUE /\ pc' = "cleanup"
  /\ Put([fs EXCEPT !.player = TRUE])
  /\ UNCHANGED <<boot, fails, wifi, wlan, tries, row, cuts, harmed>>

InstallFails ==
  /\ pc = "install" /\ tries < MaxTries
  /\ tries' = tries + 1 /\ token' \in {token, TRUE}
  /\ IF tries' < MaxTries THEN UNCHANGED pc /\ NothingWritten
                          ELSE pc' = "gaveUp" /\ Synced(fs)
  /\ UNCHANGED <<boot, fails, wifi, wlan, row, cuts, harmed>>

\* disable, rm: no sync before the end.
Cleanup ==
  /\ pc = "cleanup" /\ pc' = "over"
  /\ Put([fs EXCEPT !.unit = FALSE, !.root = "gone", !.rootArchive = FALSE])
  /\ UNCHANGED <<boot, fails, wifi, wlan, token, tries, row, cuts, harmed>>

----------------------------------------------------------------------------
\* Where a power cut may leave a card that does not install by itself any more:
\* between the first of those commands and the sync of firstrun.sh, and at the very end,
\* while the installed player is still in the page cache.
Delicate == (pc = "firstrun" /\ boot # FirstRun) \/ \E left \in maybe : left.player # fs.player

PowerCut ==
  /\ pc # "off" /\ cuts < MaxCuts /\ cuts' = cuts + 1
  /\ pc' = "off" /\ boot' = <<>>
  /\ \E left \in maybe : Synced(left)
  /\ token' \in BOOLEAN /\ (token' => token)
  /\ row' = 0
  /\ harmed' = (harmed \/ Delicate)
  /\ UNCHANGED <<fails, wifi, wlan, tries>>

Restart ==
  /\ pc \in {"over", "gaveUp"} /\ pc' = "boot" /\ Synced(fs) /\ wlan' \in BOOLEAN
  /\ UNCHANGED <<boot, fails, wifi, token, tries, row, cuts, harmed>>

Next ==
  \/ PowerOn \/ Starts \/ FirstRunStep \/ FirstRunEnds
  \/ WakeWifi \/ ConsoleAnswers \/ Installed \/ InstallFails \/ Cleanup
  \/ PowerCut \/ Restart

Spec == Init /\ [][Next]_vars

----------------------------------------------------------------------------
(* firstrun.ok on a card means: the secrets are off the FAT partition, and    *)
(* will stay off after a power cut, and firstrun.sh will not run again.      *)
OkMeansClean ==
  \A left \in maybe : left.ok => left.script # "good" /\ left.firstrun # "good" /\ ~left.args

(* A card whose first start was not cut short or failed installs the player   *)
(* sooner or later: whatever restarts, power cuts and failed attempts follow, *)
(* the player is there or the service and its files still are.               *)
StillProvisions ==
  harmed \/ fs.player \/ pc = "firstrun"
  \/ IF fs.args THEN fs.script = "good" /\ fs.firstrun = "good" /\ fs.archive
                ELSE fs.unit /\ fs.root = "good" /\ fs.rootArchive

(* The Pi restarts twice in a row to wake its Wi-Fi, not for ever.            *)
RestartsBounded == row <= 2
====
