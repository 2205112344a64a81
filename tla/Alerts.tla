---- MODULE Alerts ----
(***************************************************************************)
(* alerts.evaluate (cloud/src/alerts.js), the five-minute cron, for one     *)
(* device: runs that may overlap or die between any two of their awaits.    *)
(* D1 makes each statement and the last batch atomic; nothing spans a run.  *)
(***************************************************************************)
EXTENDS Integers, Sequences

CONSTANTS Runs,          \* cron runs that may be under way at once
          Kinds,         \* KINDS, in order; "offline" is one of them
          NULL,
          RepeatAfter,   \* alert_repeat_minutes
          MaxTime, MaxAlerts, MaxDeaths   \* bounds: the clock, rows ever opened, runs that die

VARIABLES now,
          rows,          \* alerts, by id: kind, open, notified_at
          run,           \* a run's locals and where it is
          told,          \* history: how often a row was announced opened and recovered, and
                         \* the time of the last run that announced it
          crossed,       \* history: rows announced by a run that overlapped another, or
                         \* that died after its digest
          lost,          \* history: rows closed by a run that died before its digest
          early,         \* history: rows repeated before RepeatAfter had passed
          deaths

vars == <<now, rows, run, told, crossed, lost, early, deaths>>

Ids == 1..Len(rows)
AllKinds == {Kinds[k] : k \in 1..Len(Kinds)}
Times == 0..MaxTime \cup {NULL}
Idle == [at |-> "idle"]

TypeOK ==
  /\ now \in 0..MaxTime
  /\ \A i \in Ids : rows[i].kind \in AllKinds /\ rows[i].open \in BOOLEAN /\ rows[i].stamp \in Times
  /\ \A r \in Runs : run[r].at \in {"idle", "read", "write", "stamp"}
  /\ Len(told) = Len(rows) /\ crossed \cup lost \cup early \subseteq Ids /\ deaths \in 0..MaxDeaths

Init ==
  /\ now = 0 /\ rows = <<>> /\ told = <<>>
  /\ run = [r \in Runs |-> Idle]
  /\ crossed = {} /\ lost = {} /\ early = {} /\ deaths = 0

Tick == now < MaxTime /\ now' = now + 1 /\ UNCHANGED <<rows, run, told, crossed, lost, early, deaths>>

\* conditions: offline wins (a late device's other columns are frozen), and a device that
\* never synced has nothing to lose.
Conditions(seen, bad) ==
  CASE seen = "never" -> {} [] seen = "late" -> {"offline"} [] seen = "seen" -> bad

\* The devices are read first: a device may be in any state at any run.
ReadDevices(r, seen, bad) ==
  LET others == {q \in Runs : run[q].at # "idle"}
  IN  /\ run[r].at = "idle"
      /\ run' = [q \in Runs |->
                   IF q = r THEN [at |-> "read", ts |-> now, active |-> Conditions(seen, bad), mixed |-> others # {}]
                   ELSE IF q \in others THEN [run[q] EXCEPT !.mixed = TRUE]
                   ELSE run[q]]
      /\ UNCHANGED <<now, rows, told, crossed, lost, early, deaths>>

\* The open alerts are a statement of their own.  What is to be done about every kind
\* follows from it: announce an opening nobody announced, repeat one, or write.
OpenOf(kind) == {i \in Ids : rows[i].kind = kind /\ rows[i].open}
Frozen(kind, active) == "offline" \in active /\ kind # "offline"
ToWrite(kind, active) ==
  IF kind \in active THEN OpenOf(kind) = {} ELSE OpenOf(kind) # {} /\ ~Frozen(kind, active)
Repeats(i, ts) == RepeatAfter > 0 /\ rows[i].stamp # NULL /\ ts - rows[i].stamp >= RepeatAfter

ReadOpen(r) ==
  LET active == run[r].active
      going == {i \in Ids : rows[i].open /\ rows[i].kind \in active}
  IN  /\ run[r].at = "read"
      /\ run' = [run EXCEPT ![r] =
           [at |-> "write", ts |-> @.ts, mixed |-> @.mixed,
            active |-> active, cur |-> {i \in Ids : rows[i].open},
            todo |-> {k \in 1..Len(Kinds) : ToWrite(Kinds[k], active)},
            opened |-> {i \in going : rows[i].stamp = NULL}, closed |-> {},
            repeated |-> {i \in going : Repeats(i, @.ts)}]]
      /\ UNCHANGED <<now, rows, told, crossed, lost, early, deaths>>

\* The kinds are taken in their order.
Writes(r, k) == run[r].at = "write" /\ k \in run[r].todo /\ \A j \in run[r].todo : k <= j

\* INSERT OR IGNORE: an overlapping run may have opened the kind (idx_alerts_one_open).
Open(r, k) ==
  /\ Writes(r, k) /\ Kinds[k] \in run[r].active
  /\ IF OpenOf(Kinds[k]) # {}
     THEN run' = [run EXCEPT ![r].todo = @ \ {k}] /\ UNCHANGED <<rows, told>>
     ELSE /\ Len(rows) < MaxAlerts
          /\ rows' = Append(rows, [kind |-> Kinds[k], open |-> TRUE, stamp |-> NULL])
          /\ told' = Append(told, [opened |-> 0, closed |-> 0, last |-> NULL])
          /\ run' = [run EXCEPT ![r].todo = @ \ {k}, ![r].opened = @ \cup {Len(rows) + 1}]
  /\ UNCHANGED <<now, crossed, lost, early, deaths>>

\* UPDATE ... WHERE id = ?, whoever closed it meanwhile.
Close(r, k) ==
  LET ids == {i \in run[r].cur : rows[i].kind = Kinds[k]}
  IN  /\ Writes(r, k) /\ Kinds[k] \notin run[r].active
      /\ rows' = [i \in Ids |-> IF i \in ids THEN [rows[i] EXCEPT !.open = FALSE] ELSE rows[i]]
      /\ run' = [run EXCEPT ![r].todo = @ \ {k}, ![r].closed = @ \cup ids]
      /\ UNCHANGED <<now, told, crossed, lost, early, deaths>>

\* What the digest carries, and what is stamped once it is sent.
StillOpen(r) == run[r].opened \cup run[r].repeated
InHand(r) == run[r].opened \cup run[r].closed \cup run[r].repeated

Announced(i, r) ==
  [opened |-> told[i].opened + (IF i \in run[r].opened THEN 1 ELSE 0),
   closed |-> told[i].closed + (IF i \in run[r].closed THEN 1 ELSE 0),
   last |-> run[r].ts]

\* sendAll: a channel that fails is logged and not tried again.
Send(r) ==
  /\ run[r].at = "write" /\ run[r].todo = {}
  /\ told' = [i \in Ids |-> IF i \in InHand(r) THEN Announced(i, r) ELSE told[i]]
  /\ crossed' = IF run[r].mixed THEN crossed \cup InHand(r) ELSE crossed
  /\ early' = early \cup {i \in run[r].repeated : run[r].ts - told[i].last < RepeatAfter}
  /\ run' = [run EXCEPT ![r] = IF InHand(r) = {} THEN Idle ELSE [@ EXCEPT !.at = "stamp"]]
  /\ UNCHANGED <<now, rows, lost, deaths>>

NewOnly(r) == run[r].opened \cup run[r].closed
Stamped(r) == InHand(r)

Stamp(r) ==
  /\ run[r].at = "stamp"
  /\ rows' = [i \in Ids |-> IF i \in Stamped(r) THEN [rows[i] EXCEPT !.stamp = run[r].ts] ELSE rows[i]]
  /\ run' = [run EXCEPT ![r] = Idle]
  /\ UNCHANGED <<now, told, crossed, lost, early, deaths>>

\* The Worker is gone, or D1 threw at one of the awaits.
Die(r) ==
  /\ run[r].at # "idle" /\ deaths < MaxDeaths
  /\ deaths' = deaths + 1
  /\ run' = [run EXCEPT ![r] = Idle]
  /\ crossed' = IF run[r].at = "stamp" THEN crossed \cup InHand(r) ELSE crossed
  /\ lost' = IF run[r].at = "write" THEN lost \cup run[r].closed ELSE lost
  /\ UNCHANGED <<now, rows, told, early>>

Next ==
  \/ Tick
  \/ \E r \in Runs :
       \/ \E seen \in {"never", "seen", "late"}, bad \in SUBSET (AllKinds \ {"offline"}) : ReadDevices(r, seen, bad)
       \/ ReadOpen(r) \/ Send(r) \/ Stamp(r) \/ Die(r)
       \/ \E k \in 1..Len(Kinds) : Open(r, k) \/ Close(r, k)

Spec == Init /\ [][Next]_vars

----------------------------------------------------------------------------
(* A row is stamped only when its digest has gone out: a run that dies before *)
(* leaves an opening to the next one (alerts.js, on a run that throws).       *)
StampedWasTold == \A i \in Ids : rows[i].stamp # NULL => told[i].last # NULL

(* An alert is announced as opened once and as recovered once, and repeated   *)
(* only alert_repeat_minutes later; excepted are rows that overlapping runs    *)
(* had in hand, and those of a run that died between its digest and the stamp. *)
ToldOnce ==
  /\ \A i \in Ids \ crossed : told[i].opened <= 1 /\ told[i].closed <= 1
  /\ early \subseteq crossed

(* Whoever was told of an alert is told that it is over, unless the run that   *)
(* closed it died before its digest: closed rows are not read again.           *)
RecoveryTold ==
  \A i \in Ids \ lost :
    rows[i].open \/ told[i].closed > 0 \/ \E r \in Runs : run[r].at = "write" /\ i \in run[r].closed
====
