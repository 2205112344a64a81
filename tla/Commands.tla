------------------------------ MODULE Commands ------------------------------
(***************************************************************************)
(* Remote commands (reboot, force-sync, ...) from the console to one       *)
(* device.  The console keeps a row per command in D1, hands open rows out *)
(* in the answer to /api/sync (cloud/src/manifest.js pending_commands) and *)
(* closes a row on POST /api/commands/<id>/result (cloud/src/api.js).  The *)
(* player (player/player/commands.py) runs what it is handed, remembers it *)
(* in a ledger file and reports.  Requests may be lost, repeated or late,  *)
(* two sync requests of the device may overlap in the console, the player  *)
(* may lose power between any two steps, and the console's database may be *)
(* restored from a backup, which makes it use ids again.                   *)
(***************************************************************************)
EXTENDS Naturals, Sequences, FiniteSets

CONSTANTS
  Kinds,          \* the command vocabulary
  SelfKilling,    \* kinds recorded and reported BEFORE they act
  Handlers,       \* sync requests the console may be serving at once
  MaxDeliveries,  \* MAX_COMMAND_DELIVERIES (5 in the code)
  LedgerMax,      \* EXECUTED_IDS_MAX (200 in the code)
  MaxIssued,      \* bound: commands the operators send
  MaxRestores,    \* bound: restores of the console's database
  MaxDiskFailures,    \* bound: writes of the ledger that fail (a full disk)
  Nobody, NoRow, NoCommand    \* no handler, no row, no command

ASSUME CommandsAssumption ==
  /\ SelfKilling \subseteq Kinds
  /\ MaxDeliveries \in Nat \ {0}
  /\ LedgerMax \in Nat \ {0}
  /\ MaxIssued \in Nat /\ MaxRestores \in Nat
  /\ MaxDiskFailures \in Nat

Ids == 1..MaxIssued         \* ids are autoincrements: at most one per command sent
Stamps == 1..MaxIssued      \* issued_at, abstracted to the order of the inserts

Command == [id : Ids, kind : Kinds, issued : Stamps]
Entry == [id : Ids, issued : Stamps]
Row == [cmd : Command, count : 0..MaxDeliveries,
        result : {"none", "player", "console"}, undeliverable : BOOLEAN]

ASSUME NamesAssumption ==
  Nobody \notin Handlers /\ NoRow \notin Row /\ NoCommand \notin Command

VARIABLES
  rows,       \* device_commands: id -> row
  nextId,     \* the table's AUTOINCREMENT
  clock,      \* commands inserted so far; orders issued_at
  backup,     \* the copy of the database a restore goes back to
  restores,   \* restores so far
  hpc,        \* where each sync handler is
  snap,       \* the rows a handler has read, not yet claimed
  resp,       \* the commands in a handler's answer
  waiting,    \* the handler whose answer the player is waiting for
  ppc,        \* where the player is
  todo,       \* commands of this manifest the player has not taken yet
  cur,        \* the command in hand
  mem,        \* the ledger as the running execute_commands sees it
  disk,       \* the ledger file
  diskFailures,   \* writes of it that failed so far
  posts,      \* ids of the result POSTs in the network
  runs        \* history: how often the player ran each command

db      == <<rows, nextId, clock, backup, restores>>
serving == <<hpc, snap, resp>>
file    == <<disk, diskFailures>>
ledger  == <<mem, file>>
vars == <<db, serving, waiting, ppc, todo, cur, ledger, posts, runs>>

Held(id) == rows[id] # NoRow
Open(id) == Held(id) /\ rows[id].result = "none"

Init ==
  /\ rows = [id \in Ids |-> NoRow] /\ nextId = 1 /\ clock = 0
  /\ backup = [rows |-> rows, nextId |-> nextId] /\ restores = 0
  /\ hpc = [h \in Handlers |-> "free"]
  /\ snap = [h \in Handlers |-> {}] /\ resp = [h \in Handlers |-> {}]
  /\ waiting = Nobody /\ ppc = "idle" /\ todo = {} /\ cur = NoCommand
  /\ mem = <<>> /\ disk = <<>> /\ diskFailures = 0 /\ posts = {}
  /\ runs = [c \in Command |-> 0]

-----------------------------------------------------------------------------
(* The operators and the console's jobs.                                   *)

\* One open row per kind: the INSERT ... WHERE NOT EXISTS of devicesSendCommand.
Send(kind) ==
  /\ clock < MaxIssued /\ nextId \in Ids
  /\ ~\E id \in Ids : Open(id) /\ rows[id].cmd.kind = kind
  /\ rows' = [rows EXCEPT ![nextId] =
       [cmd |-> [id |-> nextId, kind |-> kind, issued |-> clock + 1],
        count |-> 0, result |-> "none", undeliverable |-> FALSE]]
  /\ nextId' = nextId + 1 /\ clock' = clock + 1
  /\ UNCHANGED <<backup, restores, serving, waiting, ppc, todo, cur,
                 ledger, posts, runs>>

RecallableEvenIfDelivered(id) == Open(id)

\* delivered_at IS NULL AND completed_at IS NULL
Recallable(id) == Open(id) /\ rows[id].count = 0

Cancel ==
  /\ \E id \in Ids : Recallable(id)
  /\ rows' = [id \in Ids |-> IF Recallable(id) THEN NoRow ELSE rows[id]]
  /\ UNCHANGED <<nextId, clock, backup, restores, serving, waiting, ppc, todo, cur,
                 ledger, posts, runs>>

ConsoleClose(row) == [row EXCEPT !.result = "console", !.undeliverable = TRUE]

\* The daily job: a row never picked up within COMMAND_GIVE_UP_DAYS.
Housekeeping(id) ==
  /\ Recallable(id)
  /\ rows' = [rows EXCEPT ![id] = ConsoleClose(@)]
  /\ UNCHANGED <<nextId, clock, backup, restores, serving, waiting, ppc,
                 todo, cur, ledger, posts, runs>>

TakeBackup ==
  /\ restores < MaxRestores
  /\ backup' = [rows |-> rows, nextId |-> nextId]
  /\ UNCHANGED <<rows, nextId, clock, restores, serving, waiting, ppc,
                 todo, cur, ledger, posts, runs>>

\* A restore takes longer than a request or an execute_commands lives.
Restore ==
  /\ restores < MaxRestores
  /\ posts = {} /\ ppc \in {"idle", "down"} /\ \A h \in Handlers : hpc[h] = "free"
  /\ rows' = backup.rows /\ nextId' = backup.nextId /\ restores' = restores + 1
  /\ UNCHANGED <<clock, backup, serving, waiting, ppc, todo, cur,
                 ledger, posts, runs>>

-----------------------------------------------------------------------------
(* /api/sync in the console: pending_commands reads the open rows, then    *)
(* updates them in one batch; another sync, a result or a cancel may come  *)
(* between the two.                                                        *)

Select(h) ==
  /\ hpc[h] = "asked"
  /\ hpc' = [hpc EXCEPT ![h] = "read"]
  /\ snap' = [snap EXCEPT ![h] =
       {[cmd |-> rows[id].cmd, count |-> rows[id].count] : id \in {i \in Ids : Open(i)}}]
  /\ UNCHANGED <<db, resp, waiting, ppc, todo, cur, ledger, posts, runs>>

SpentNever(r) == FALSE
Spent(r) == r.count >= MaxDeliveries

\* Was row r, as read, still claimable when the batch ran?  (meta.changes = 1)
ClaimedAnyCount(r) == ~Spent(r) /\ Open(r.cmd.id)
ClaimedEvenIfGone(r) == ~Spent(r)
ClaimedEvenIfClosed(r) ==
  ~Spent(r) /\ Held(r.cmd.id) /\ rows[r.cmd.id].count = r.count
Claimed(r) == ~Spent(r) /\ Open(r.cmd.id) /\ rows[r.cmd.id].count = r.count

HandedUncounted(row) == row
HandedOut(row) == [row EXCEPT !.count = @ + 1]

Batch(h) ==
  LET handed == {r.cmd : r \in {s \in snap[h] : Claimed(s)}}
      spent  == {r.cmd.id : r \in {s \in snap[h] : Spent(s)}}
      After(id) == IF ~Held(id) THEN NoRow
                   ELSE IF id \in {c.id : c \in handed}
                        THEN HandedOut(rows[id])
                   ELSE IF id \in spent /\ Open(id) THEN ConsoleClose(rows[id])
                   ELSE rows[id]
  IN /\ hpc[h] = "read"
     /\ rows' = [id \in Ids |-> After(id)]
     /\ hpc' = [hpc EXCEPT ![h] = IF waiting = h THEN "answered" ELSE "free"]
     /\ resp' = [resp EXCEPT ![h] = IF waiting = h THEN handed ELSE {}]
     /\ snap' = [snap EXCEPT ![h] = {}]
     /\ UNCHANGED <<nextId, clock, backup, restores, waiting, ppc, todo, cur,
                    ledger, posts, runs>>

-----------------------------------------------------------------------------
(* A result POST.  _report_result ignores whether the console answered, so *)
(* a POST is put in the network, where it may be applied late, more than   *)
(* once (REPORT_RETRIES) or never.                                         *)

PlayerClose(row) == [row EXCEPT !.result = "player"]

\* reportCommandResult: no check that the row is still open.  A deleted row is a 404.
ApplyPost(id) ==
  /\ id \in posts /\ Held(id)
  /\ rows' = [rows EXCEPT ![id] = PlayerClose(@)]
  /\ UNCHANGED <<nextId, clock, backup, restores, serving, waiting, ppc,
                 todo, cur, ledger, posts, runs>>

LosePost(id) ==
  /\ id \in posts
  /\ posts' = posts \ {id}
  /\ UNCHANGED <<db, serving, waiting, ppc, todo, cur, ledger, runs>>

-----------------------------------------------------------------------------
(* The player.                                                             *)

StartSync(h) ==
  /\ ppc = "idle" /\ hpc[h] = "free"
  /\ ppc' = "waiting" /\ waiting' = h
  /\ hpc' = [hpc EXCEPT ![h] = "asked"]
  /\ UNCHANGED <<db, snap, resp, todo, cur, ledger, posts, runs>>

\* The answer arrives: execute_commands loads the ledger and walks the list.
Answered(h) ==
  /\ ppc = "waiting" /\ waiting = h /\ hpc[h] = "answered"
  /\ hpc' = [hpc EXCEPT ![h] = "free"] /\ resp' = [resp EXCEPT ![h] = {}]
  /\ waiting' = Nobody /\ ppc' = "next"
  /\ todo' = resp[h] /\ mem' = disk
  /\ UNCHANGED <<db, snap, cur, file, posts, runs>>

\* What is left of handler h when nobody waits for it any more.
Abandon(h) ==
  /\ hpc' = [g \in Handlers |->
       IF g = h /\ hpc[g] = "answered" THEN "free" ELSE hpc[g]]
  /\ resp' = [g \in Handlers |-> IF g = h THEN {} ELSE resp[g]]
  /\ waiting' = Nobody

\* The request times out or its answer is lost; the console may still be serving it.
SyncFails ==
  /\ ppc = "waiting"
  /\ Abandon(waiting) /\ ppc' = "idle"
  /\ UNCHANGED <<db, snap, todo, cur, ledger, posts, runs>>

\* _was_executed; the console always sends issued_at.
WasExecutedById(c) == \E i \in DOMAIN mem : mem[i].id = c.id
WasExecuted(c) == \E i \in DOMAIN mem : mem[i] = [id |-> c.id, issued |-> c.issued]

ActsFirst(c) == "act"
\* reboot, restart-mpv and the updates are recorded before they act, the others after.
FirstStep(c) == IF c.kind \in SelfKilling THEN "remember" ELSE "act"

Take(c) ==
  /\ ppc = "next" /\ c \in todo
  /\ \A d \in todo : c.id <= d.id                 \* ORDER BY id
  /\ todo' = todo \ {c}
  /\ IF WasExecuted(c)
     THEN /\ posts' = posts \cup {c.id}           \* "already executed"
          /\ UNCHANGED <<ppc, cur>>
     ELSE /\ cur' = c /\ ppc' = FirstStep(c)
          /\ UNCHANGED posts
  /\ UNCHANGED <<db, serving, waiting, ledger, runs>>

RememberedAlone(c) == <<[id |-> c.id, issued |-> c.issued]>>
\* _remember_executed: append, keep the last LedgerMax, write the file.
Remembered(c) ==
  LET all == Append(mem, [id |-> c.id, issued |-> c.issued])
  IN IF Len(all) > LedgerMax THEN Tail(all) ELSE all

Remember ==
  /\ ppc = "remember"
  /\ mem' = Remembered(cur)
  /\ \/ disk' = Remembered(cur) /\ UNCHANGED diskFailures
     \/ diskFailures < MaxDiskFailures /\ diskFailures' = diskFailures + 1
        /\ UNCHANGED disk                          \* OSError is only logged
  /\ ppc' = "report"
  /\ UNCHANGED <<db, serving, waiting, todo, cur, posts, runs>>

\* "executing reboot" is reported before the action, any other result after it.
Report ==
  /\ ppc = "report"
  /\ posts' = posts \cup {cur.id}
  /\ ppc' = IF cur.kind \in SelfKilling THEN "act" ELSE "next"
  /\ cur' = IF cur.kind \in SelfKilling THEN cur ELSE NoCommand
  /\ UNCHANGED <<db, serving, waiting, todo, ledger, runs>>

Act ==
  /\ ppc = "act"
  /\ runs' = [runs EXCEPT ![cur] = @ + 1]
  /\ IF cur.kind \in SelfKilling
     THEN \/ ppc' = "next" /\ cur' = NoCommand    \* issued; the process may die any time
          \/ ppc' = "failed" /\ cur' = cur        \* sudo or the script refused
     ELSE ppc' = "remember" /\ cur' = cur
  /\ UNCHANGED <<db, serving, waiting, todo, ledger, posts>>

ReportFailure ==
  /\ ppc = "failed"
  /\ posts' = posts \cup {cur.id}
  /\ ppc' = "next" /\ cur' = NoCommand
  /\ UNCHANGED <<db, serving, waiting, todo, ledger, runs>>

Finish ==
  /\ ppc = "next" /\ todo = {}
  /\ ppc' = "idle" /\ mem' = <<>>
  /\ UNCHANGED <<db, serving, waiting, todo, cur, file, posts, runs>>

\* Power loss, the reboot that was asked for, an update restarting the daemon.
Crash ==
  /\ ppc # "down"
  /\ Abandon(waiting)
  /\ ppc' = "down" /\ todo' = {} /\ cur' = NoCommand /\ mem' = <<>>
  /\ UNCHANGED <<db, snap, file, posts, runs>>

Restart ==
  /\ ppc = "down" /\ ppc' = "idle"
  /\ UNCHANGED <<db, serving, waiting, todo, cur, ledger, posts, runs>>

-----------------------------------------------------------------------------
Operators == Cancel \/ \E kind \in Kinds : Send(kind)
Database  == TakeBackup \/ Restore \/ \E id \in Ids : Housekeeping(id)
Console   == \E h \in Handlers : Select(h) \/ Batch(h)
Network   == SyncFails \/ \E id \in Ids : ApplyPost(id) \/ LosePost(id)
Working   == Remember \/ Report \/ Act \/ ReportFailure \/ Finish \/ \E c \in Command : Take(c)
Player    == Working \/ \E h \in Handlers : StartSync(h) \/ Answered(h)

Next == Operators \/ Database \/ Console \/ Network \/ Player \/ Crash \/ Restart

Spec == Init /\ [][Next]_vars

\* The console finishes what it serves, the daemon goes on (systemd restarts it),
\* and a device that is up again and again does check in again and again.
Fairness ==
  /\ \A h \in Handlers : WF_vars(Select(h)) /\ WF_vars(Batch(h))
  /\ WF_vars(Working) /\ WF_vars(Restart)
  /\ WF_vars(SyncFails \/ \E h \in Handlers : Answered(h))
  /\ SF_vars(\E h \in Handlers : StartSync(h))

FairSpec == Spec /\ Fairness

-----------------------------------------------------------------------------
(* Properties.                                                             *)

InHand == {"remember", "report", "act", "failed"}   \* the steps with a command in hand

\* Type correctness of the tables, the handlers, the player and the ledger.
TypeOK ==
  /\ rows \in [Ids -> Row \cup {NoRow}]
  /\ nextId \in 1..(MaxIssued + 1) /\ clock \in 0..MaxIssued
  /\ backup \in [rows : [Ids -> Row \cup {NoRow}], nextId : 1..(MaxIssued + 1)]
  /\ restores \in 0..MaxRestores
  /\ hpc \in [Handlers -> {"free", "asked", "read", "answered"}]
  /\ snap \in [Handlers -> SUBSET [cmd : Command, count : 0..MaxDeliveries]]
  /\ resp \in [Handlers -> SUBSET Command]
  /\ waiting \in Handlers \cup {Nobody}
  /\ ppc \in {"down", "idle", "waiting", "next", "remember", "report", "act", "failed"}
  /\ todo \subseteq Command
  /\ cur \in IF ppc \in InHand THEN Command ELSE {NoCommand}
  /\ mem \in Seq(Entry) /\ disk \in Seq(Entry) /\ diskFailures \in 0..MaxDiskFailures
  /\ posts \subseteq Ids
  /\ runs \in [Command -> Nat]

\* A command that may kill the player (reboot, update) runs once, and once more at most for
\* each write of the ledger that failed, whatever is lost, repeated or restored and
\* wherever the power fails (commands.py 155-160).
SelfKillingAtMostOnce ==
  \A c \in Command : c.kind \in SelfKilling => runs[c] <= 1 + diskFailures

-----------------------------------------------------------------------------
(* Why a self-killing command runs once: the inductive invariant behind it. *)

\* Is command number i mentioned somewhere under this id?
MentionedBy(c, i, id) == c.issued = i /\ c.id = id
Mentions(i, id) ==
  \/ \E r \in Ids : rows[r] # NoRow /\ MentionedBy(rows[r].cmd, i, id)
  \/ \E r \in Ids : backup.rows[r] # NoRow /\ MentionedBy(backup.rows[r].cmd, i, id)
  \/ \E h \in Handlers : \E s \in snap[h] : MentionedBy(s.cmd, i, id)
  \/ \E h \in Handlers : \E c \in resp[h] : MentionedBy(c, i, id)
  \/ \E c \in todo : MentionedBy(c, i, id)
  \/ ppc \in InHand /\ MentionedBy(cur, i, id)
  \/ \E k \in DOMAIN mem : MentionedBy(mem[k], i, id)
  \/ \E k \in DOMAIN disk : MentionedBy(disk[k], i, id)

\* issued_at tells commands apart even where ids are used again.
StampsUnique ==
  \A i \in Stamps : \A a, b \in Ids :
    Mentions(i, a) => i <= clock /\ (Mentions(i, b) => a = b)

\* In the ledger file, and in the ledger as the running execute_commands sees it.
Recorded(c) == \E k \in DOMAIN disk : disk[k] = [id |-> c.id, issued |-> c.issued]

Distinct(l) == \A j, k \in DOMAIN l : l[j].issued = l[k].issued => j = k

\* The ledger in memory holds all the file holds, and neither holds a command twice.
LedgerFaithful ==
  /\ ppc \in InHand \cup {"next"} =>
       \A k \in DOMAIN disk : \E j \in DOMAIN mem : mem[j] = disk[k]
  /\ Distinct(mem) /\ Distinct(disk)

\* The command in hand that is still to be remembered is in neither.
InHandNew ==
  (ppc = "remember" \/ (ppc = "act" /\ cur.kind \notin SelfKilling)) => ~WasExecuted(cur)

\* Has a self-killing command been remembered, or has the attempt failed, and not acted yet?
Pending(c) == ppc \in {"report", "act"} /\ cur = c

\* Each run of a self-killing command, the one to come included, is paid for by its entry
\* in the file or by a write that failed.
RunsRecorded ==
  \A c \in Command : c.kind \in SelfKilling =>
    runs[c] + (IF Pending(c) THEN 1 ELSE 0) <= diskFailures + (IF Recorded(c) THEN 1 ELSE 0)

\* Over every step the ledger file stays ahead of the actions of the self-killing kinds,
\* and no two commands in the tables, the network and the ledger share an insert.
LedgerAhead == StampsUnique /\ LedgerFaithful /\ InHandNew /\ RunsRecorded

\* Any command is run no more often than it was handed out, and handed out no more often
\* than MAX_COMMAND_DELIVERIES although syncs overlap: the count update is a claim.
RunsWithinDeliveries ==
  \A id \in Ids : (Held(id) /\ restores = 0) =>
    runs[rows[id].cmd] <= rows[id].count /\ rows[id].count <= MaxDeliveries

\* A row closed by the player's report of an ordinary command (reported after acting)
\* was really run, also when the database went back and the id is a reused one.
ReportMeansRun ==
  \A id \in Ids : (Held(id) /\ rows[id].result = "player" /\ rows[id].cmd.kind \notin SelfKilling)
                    => runs[rows[id].cmd] > 0

\* Every command is closed or cancelled in the end, whatever is lost: after
\* MaxDeliveries answers without a result the console gives up.
EveryCommandCloses == \A id \in Ids : Open(id) ~> ~Open(id)

\* How one command looks from outside: what CommandPromise is about.
Stage(id) ==
  IF id >= nextId THEN "unissued"
  ELSE IF ~Held(id) THEN "cancelled"
  ELSE IF Open(id) THEN (IF rows[id].count = 0 THEN "waiting" ELSE "handed")
  ELSE (IF rows[id].count = 0 THEN "dropped" ELSE "closed")

Life(id) ==
  [stage |-> Stage(id),
   once  |-> Held(id) /\ rows[id].cmd.kind \in SelfKilling,
   ran   |-> IF Held(id) THEN runs[rows[id].cmd] ELSE 0]

Promise == INSTANCE CommandPromise WITH life <- [id \in Ids |-> Life(id)],
                                        failed <- diskFailures

\* While its database is not restored, every command lives the life CommandPromise
\* promises: run only after it was handed out and never after a cancel or a give-up, a
\* self-killing one no more often than its ledger entry can be lost, and closed for good.
ImplementsPromise == Promise!Spec
=============================================================================
