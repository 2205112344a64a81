--------------------------- MODULE CommandsProofs ---------------------------
(***************************************************************************)
(* Machine-checked facts about Commands for any number of kinds, handlers, *)
(* commands and restores.                                                  *)
(***************************************************************************)
EXTENDS Commands, FiniteSetTheorems, TLAPS

MaybeRow == Row \cup {NoRow}

\* A held row is a Row.
LEMMA HeldRow ==
  ASSUME TypeOK, NEW id \in Ids, Held(id)
  PROVE  rows[id] \in Row
BY DEF TypeOK, Held

\* Closing a row, by the console or by the player, or counting a delivery keeps its type.
LEMMA CloseTypes ==
  ASSUME NEW row \in Row
  PROVE  ConsoleClose(row) \in Row /\ PlayerClose(row) \in Row
BY DEF ConsoleClose, PlayerClose, Row

LEMMA HandOutType ==
  ASSUME NEW row \in Row, row.count < MaxDeliveries
  PROVE  HandedOut(row) \in Row
BY CommandsAssumption DEF HandedOut, Row

\* Remembering a command keeps the ledger a sequence of entries.
LEMMA RememberedType ==
  ASSUME mem \in Seq(Entry), NEW c \in Command
  PROVE  Remembered(c) \in Seq(Entry)
<1> DEFINE e == [id |-> c.id, issued |-> c.issued]
<1>1. e \in Entry
  BY DEF Command, Entry
<1>2. Append(mem, e) \in Seq(Entry) /\ Append(mem, e) # <<>>
  BY <1>1
<1>3. Tail(Append(mem, e)) \in Seq(Entry)
  BY <1>2
<1>4. QED
  BY <1>2, <1>3 DEF Remembered

\* The rows after a batch: those handed out were below the limit.
LEMMA BatchType ==
  ASSUME TypeOK, NEW h \in Handlers, Batch(h)
  PROVE  rows' \in [Ids -> MaybeRow] /\ resp' \in [Handlers -> SUBSET Command]
<1> DEFINE handed == {r.cmd : r \in {s \in snap[h] : Claimed(s)}}
           spent  == {r.cmd.id : r \in {s \in snap[h] : Spent(s)}}
           After(id) == IF ~Held(id) THEN NoRow
                   ELSE IF id \in {c.id : c \in handed} THEN HandedOut(rows[id])
                   ELSE IF id \in spent /\ Open(id) THEN ConsoleClose(rows[id])
                   ELSE rows[id]
<1>1. snap[h] \subseteq [cmd : Command, count : 0..MaxDeliveries]
  BY DEF TypeOK
<1>2. handed \subseteq Command
  BY <1>1
<1>3. ASSUME NEW id \in Ids PROVE After(id) \in MaybeRow
  <2>1. CASE Held(id) /\ id \in {c.id : c \in handed}
    <3>1. PICK r \in snap[h] : Claimed(r) /\ r.cmd.id = id
      BY <2>1
    <3>2. r.count \in 0..MaxDeliveries
      BY <3>1, <1>1
    <3>3. rows[id].count < MaxDeliveries
      BY <3>1, <3>2, CommandsAssumption DEF Claimed, Spent
    <3>4. HandedOut(rows[id]) \in Row
      BY <3>3, <2>1, HeldRow, HandOutType
    <3>5. QED
      BY <3>4, <2>1 DEF MaybeRow
  <2>2. CASE Held(id) /\ id \notin {c.id : c \in handed}
    BY <2>2, HeldRow, CloseTypes DEF MaybeRow
  <2>3. QED
    BY <2>1, <2>2 DEF MaybeRow
<1>4. rows' = [id \in Ids |-> After(id)]
  BY DEF Batch
<1>5. rows' \in [Ids -> MaybeRow]
  BY <1>3, <1>4
<1>6. resp' \in [Handlers -> SUBSET Command]
  BY <1>2 DEF Batch, TypeOK
<1>7. QED
  BY <1>5, <1>6

LEMMA InitTypeOK == Init => TypeOK
BY CommandsAssumption DEF Init, TypeOK, InHand

LEMMA NextTypeOK == TypeOK /\ [Next]_vars => TypeOK'
<1> SUFFICES ASSUME TypeOK, [Next]_vars PROVE TypeOK'
  OBVIOUS
<1> USE DEF serving, ledger, file, db
<1>1. ASSUME NEW kind \in Kinds, Send(kind) PROVE TypeOK'
  <2>1. [cmd |-> [id |-> nextId, kind |-> kind, issued |-> clock + 1],
         count |-> 0, result |-> "none", undeliverable |-> FALSE] \in Row
    <3>1. nextId \in Ids /\ clock + 1 \in Stamps
      <4>1. clock < MaxIssued /\ nextId \in Ids
        BY <1>1 DEF Send
      <4>2. clock \in 0..MaxIssued /\ MaxIssued \in Nat
        BY CommandsAssumption DEF TypeOK
      <4>3. QED
        BY <4>1, <4>2 DEF Stamps
    <3>2. 0 \in 0..MaxDeliveries
      BY CommandsAssumption
    <3>3. QED
      BY <3>1, <3>2 DEF Row, Command
  <2>2. rows' \in [Ids -> Row \cup {NoRow}]
    BY <1>1, <2>1 DEF Send, TypeOK
  <2>3. nextId' \in 1..(MaxIssued + 1) /\ clock' \in 0..MaxIssued
    <3>1. clock < MaxIssued /\ nextId \in Ids /\ nextId' = nextId + 1 /\ clock' = clock + 1
      BY <1>1 DEF Send
    <3>2. clock \in 0..MaxIssued /\ MaxIssued \in Nat
      BY CommandsAssumption DEF TypeOK
    <3>3. QED
      BY <3>1, <3>2 DEF Ids
  <2>4. QED
    BY <1>1, <2>2, <2>3 DEF Send, TypeOK
<1>2. ASSUME Cancel PROVE TypeOK'
  BY <1>2 DEF Cancel, TypeOK
<1>3. ASSUME NEW id \in Ids, Housekeeping(id) PROVE TypeOK'
  <2>1. ConsoleClose(rows[id]) \in Row
    BY <1>3, HeldRow, CloseTypes DEF Housekeeping, Recallable, Open
  <2>2. QED
    BY <1>3, <2>1 DEF Housekeeping, TypeOK
<1>4. ASSUME TakeBackup PROVE TypeOK'
  BY <1>4 DEF TakeBackup, TypeOK
<1>5. ASSUME Restore PROVE TypeOK'
  BY <1>5, CommandsAssumption DEF Restore, TypeOK
<1>6. ASSUME NEW h \in Handlers, Select(h) PROVE TypeOK'
  <2>1. ASSUME NEW id \in Ids, Open(id)
        PROVE  [cmd |-> rows[id].cmd, count |-> rows[id].count]
                 \in [cmd : Command, count : 0..MaxDeliveries]
    BY <2>1, HeldRow DEF Open, Row
  <2>2. snap' \in [Handlers -> SUBSET [cmd : Command, count : 0..MaxDeliveries]]
    BY <1>6, <2>1 DEF Select, TypeOK
  <2>3. QED
    BY <1>6, <2>2 DEF Select, TypeOK
<1>7. ASSUME NEW h \in Handlers, Batch(h) PROVE TypeOK'
  BY <1>7, BatchType DEF Batch, TypeOK, MaybeRow
<1>8. ASSUME NEW id \in Ids, ApplyPost(id) PROVE TypeOK'
  <2>1. PlayerClose(rows[id]) \in Row
    BY <1>8, HeldRow, CloseTypes DEF ApplyPost
  <2>2. QED
    BY <1>8, <2>1 DEF ApplyPost, TypeOK
<1>9. ASSUME NEW id \in Ids, LosePost(id) PROVE TypeOK'
  BY <1>9 DEF LosePost, TypeOK
<1>10. ASSUME SyncFails PROVE TypeOK'
  BY <1>10 DEF SyncFails, Abandon, TypeOK, InHand
<1>11. ASSUME NEW h \in Handlers, StartSync(h) PROVE TypeOK'
  BY <1>11 DEF StartSync, TypeOK, InHand
<1>12. ASSUME NEW h \in Handlers, Answered(h) PROVE TypeOK'
  BY <1>12 DEF Answered, TypeOK, InHand
<1>13. ASSUME NEW c \in Command, Take(c) PROVE TypeOK'
  BY <1>13 DEF Take, FirstStep, TypeOK, InHand, Command
<1>14. ASSUME Remember PROVE TypeOK'
  <2>1. mem' \in Seq(Entry) /\ disk' \in Seq(Entry)
    BY <1>14, RememberedType DEF Remember, TypeOK, InHand
  <2>2. diskFailures' \in 0..MaxDiskFailures
    BY <1>14, CommandsAssumption DEF Remember, TypeOK
  <2>3. QED
    BY <1>14, <2>1, <2>2 DEF Remember, TypeOK, InHand
<1>15. ASSUME Report PROVE TypeOK'
  BY <1>15 DEF Report, TypeOK, InHand, Command
<1>16. ASSUME Act PROVE TypeOK'
  <2>1. ppc = "act" /\ cur \in Command /\ runs' = [runs EXCEPT ![cur] = @ + 1]
    BY <1>16 DEF Act, TypeOK, InHand
  <2>2. runs' \in [Command -> Nat]
    BY <2>1 DEF TypeOK
  <2>3. /\ ppc' \in {"next", "failed", "remember"}
        /\ cur' \in IF ppc' \in InHand THEN Command ELSE {NoCommand}
    BY <1>16, <2>1 DEF Act, InHand
  <2>4. QED
    BY <1>16, <2>2, <2>3 DEF Act, TypeOK
<1>17. ASSUME ReportFailure PROVE TypeOK'
  BY <1>17 DEF ReportFailure, TypeOK, InHand, Command
<1>18. ASSUME Finish PROVE TypeOK'
  BY <1>18 DEF Finish, TypeOK, InHand
<1>19. ASSUME Crash PROVE TypeOK'
  BY <1>19 DEF Crash, Abandon, TypeOK, InHand
<1>20. ASSUME Restart PROVE TypeOK'
  BY <1>20 DEF Restart, TypeOK, InHand
<1>21. ASSUME UNCHANGED vars PROVE TypeOK'
  BY <1>21 DEF vars, TypeOK
<1>22. QED
  BY <1>1, <1>2, <1>3, <1>4, <1>5, <1>6, <1>7, <1>8, <1>9, <1>10, <1>11, <1>12, <1>13, <1>14,
     <1>15, <1>16, <1>17, <1>18, <1>19, <1>20, <1>21
     DEF Next, Operators, Database, Console, Network, Player, Working

\* Type correctness of every reachable state.
THEOREM TypeCorrect == Spec => []TypeOK
BY InitTypeOK, NextTypeOK, PTL DEF Spec

-----------------------------------------------------------------------------
(* Stamps identify commands.                                               *)

\* Closing or counting a row leaves its command alone.
LEMMA SameCommand ==
  ASSUME NEW row \in Row
  PROVE  /\ ConsoleClose(row).cmd = row.cmd /\ PlayerClose(row).cmd = row.cmd
         /\ HandedOut(row).cmd = row.cmd
BY DEF ConsoleClose, PlayerClose, HandedOut, Row

\* A batch hands out only commands it has read, and changes no row's command.
LEMMA BatchCommands ==
  ASSUME TypeOK, NEW h \in Handlers, Batch(h)
  PROVE  /\ \A r \in Ids : rows'[r] # NoRow => rows[r] # NoRow /\ rows'[r].cmd = rows[r].cmd
         /\ \A g \in Handlers : \A c \in resp'[g] :
              c \in resp[g] \/ \E s \in snap[g] : c = s.cmd
<1>1. ASSUME NEW r \in Ids, rows'[r] # NoRow
      PROVE  rows[r] # NoRow /\ rows'[r].cmd = rows[r].cmd
  <2>1. rows'[r] \in {NoRow, HandedOut(rows[r]), ConsoleClose(rows[r]), rows[r]}
    BY DEF Batch
  <2>2. Held(r)
    BY <1>1 DEF Batch
  <2>3. QED
    BY <1>1, <2>1, <2>2, HeldRow, SameCommand DEF Held
<1>2. ASSUME NEW g \in Handlers, NEW c \in resp'[g]
      PROVE  c \in resp[g] \/ \E s \in snap[g] : c = s.cmd
  BY DEF Batch, TypeOK
<1>3. QED
  BY <1>1, <1>2

\* Remembering the command in hand mentions nothing else.
LEMMA RememberedMentions ==
  ASSUME mem \in Seq(Entry), NEW c \in Command, NEW k \in DOMAIN Remembered(c)
  PROVE  Remembered(c)[k] = [id |-> c.id, issued |-> c.issued]
           \/ \E j \in DOMAIN mem : Remembered(c)[k] = mem[j]
<1> DEFINE e == [id |-> c.id, issued |-> c.issued]
           all == Append(mem, e)
<1>1. e \in Entry
  BY DEF Command, Entry
<1>2. all \in Seq(Entry) /\ Len(all) = Len(mem) + 1 /\ DOMAIN mem = 1..Len(mem)
  BY <1>1
<1>3. \A j \in 1..Len(all) : all[j] = e \/ \E m \in DOMAIN mem : all[j] = mem[m]
  BY <1>1, <1>2
<1>4. CASE Len(all) > LedgerMax
  <2>1. Remembered(c) = Tail(all)
    BY <1>4 DEF Remembered
  <2>2. Len(Tail(all)) = Len(all) - 1 /\ \A j \in 1..Len(Tail(all)) : Tail(all)[j] = all[j + 1]
    BY <1>2
  <2>3. k \in 1..Len(Tail(all))
    BY <2>1, <1>2
  <2>4. k + 1 \in 1..Len(all) /\ Remembered(c)[k] = all[k + 1]
    BY <2>1, <2>2, <2>3, <1>2
  <2>5. QED
    BY <2>4, <1>3
<1>5. CASE ~(Len(all) > LedgerMax)
  <2>1. Remembered(c) = all
    BY <1>5 DEF Remembered
  <2>2. QED
    BY <2>1, <1>2, <1>3
<1>6. QED
  BY <1>4, <1>5

\* No step but the INSERT of a new command mentions a command that was not mentioned
\* before.
LEMMA MentionsOld ==
  ASSUME TypeOK, [Next]_vars, NEW i \in Stamps, NEW a \in Ids, Mentions(i, a)'
  PROVE  /\ clock' \in {clock, clock + 1}
         /\ Mentions(i, a) \/ (clock' = clock + 1 /\ i = clock + 1 /\ a = nextId)
<1> DEFINE Goal == /\ clock' \in {clock, clock + 1}
                   /\ Mentions(i, a) \/ (clock' = clock + 1 /\ i = clock + 1 /\ a = nextId)
<1> USE DEF serving, ledger, file, db
<1>1. ASSUME NEW kind \in Kinds, Send(kind) PROVE Goal
  <2>1. \A r \in Ids : r # nextId => rows'[r] = rows[r]
    BY <1>1 DEF Send, TypeOK
  <2>2. rows'[nextId].cmd.issued = clock + 1 /\ rows'[nextId].cmd.id = nextId
    BY <1>1 DEF Send, TypeOK
  <2>3. QED
    BY <1>1, <2>1, <2>2 DEF Send, Mentions, MentionedBy, InHand
<1>2. ASSUME NEW id \in Ids, Housekeeping(id) PROVE Goal
  <2>1. \A r \in Ids : rows'[r] # NoRow => rows[r] # NoRow /\ rows'[r].cmd = rows[r].cmd
    BY <1>2, HeldRow, SameCommand DEF Housekeeping, Recallable, Open, Held, TypeOK
  <2>2. QED
    BY <1>2, <2>1 DEF Housekeeping, Mentions, MentionedBy, InHand
<1>4. ASSUME NEW id \in Ids, ApplyPost(id) PROVE Goal
  <2>1. \A r \in Ids : rows'[r] # NoRow => rows[r] # NoRow /\ rows'[r].cmd = rows[r].cmd
    BY <1>4, HeldRow, SameCommand DEF ApplyPost, Held, TypeOK
  <2>2. QED
    BY <1>4, <2>1 DEF ApplyPost, Mentions, MentionedBy, InHand
<1>7. ASSUME NEW h \in Handlers, Select(h) PROVE Goal
  <2>1. \A g \in Handlers : \A s \in snap'[g] :
          s \in snap[g] \/ \E r \in Ids : rows[r] # NoRow /\ s.cmd = rows[r].cmd
    BY <1>7 DEF Select, TypeOK, Open, Held
  <2>2. QED
    BY <1>7, <2>1 DEF Select, Mentions, MentionedBy, InHand
<1>8. ASSUME NEW h \in Handlers, Batch(h) PROVE Goal
  <2>1. \A g \in Handlers : snap'[g] \subseteq snap[g]
    BY <1>8 DEF Batch, TypeOK
  <2>2. UNCHANGED <<clock, backup, todo, cur, ppc, mem, disk>>
    BY <1>8 DEF Batch
  <2>3. QED
    BY <1>8, <2>1, <2>2, BatchCommands DEF Mentions, MentionedBy, InHand
<1>15. ASSUME Remember PROVE Goal
  <2>1. cur \in Command /\ mem \in Seq(Entry)
    BY <1>15 DEF Remember, TypeOK, InHand
  <2>2. \A k \in DOMAIN mem' : mem'[k] = [id |-> cur.id, issued |-> cur.issued]
                                 \/ \E j \in DOMAIN mem : mem'[k] = mem[j]
    BY <1>15, <2>1, RememberedMentions DEF Remember
  <2>3. disk' = mem' \/ disk' = disk
    BY <1>15 DEF Remember
  <2>4. QED
    BY <1>15, <2>1, <2>2, <2>3 DEF Remember, Mentions, MentionedBy, InHand
<1>3. ASSUME Cancel PROVE Goal
  BY <1>3 DEF Cancel, Mentions, MentionedBy, InHand
<1>5. ASSUME TakeBackup PROVE Goal
  BY <1>5 DEF TakeBackup, Mentions, MentionedBy, InHand
<1>6. ASSUME Restore PROVE Goal
  BY <1>6 DEF Restore, Mentions, MentionedBy, InHand
<1>10. ASSUME NEW id \in Ids, LosePost(id) PROVE Goal
  BY <1>10 DEF LosePost, Mentions, MentionedBy, InHand
<1>11. ASSUME SyncFails PROVE Goal
  BY <1>11 DEF SyncFails, Abandon, InHand, Mentions, MentionedBy
<1>12. ASSUME NEW h \in Handlers, StartSync(h) PROVE Goal
  BY <1>12 DEF StartSync, InHand, Mentions, MentionedBy
<1>13. ASSUME NEW h \in Handlers, Answered(h) PROVE Goal
  BY <1>13 DEF Answered, InHand, TypeOK, Mentions, MentionedBy
<1>14. ASSUME NEW c \in Command, Take(c) PROVE Goal
  BY <1>14 DEF Take, FirstStep, InHand, Mentions, MentionedBy
<1>16. ASSUME Report PROVE Goal
  BY <1>16 DEF Report, InHand, Mentions, MentionedBy
<1>17. ASSUME Act PROVE Goal
  BY <1>17 DEF Act, InHand, Mentions, MentionedBy
<1>18. ASSUME ReportFailure PROVE Goal
  BY <1>18 DEF ReportFailure, InHand, Mentions, MentionedBy
<1>19. ASSUME Finish PROVE Goal
  BY <1>19 DEF Finish, InHand, Mentions, MentionedBy
<1>20. ASSUME Crash PROVE Goal
  BY <1>20 DEF Crash, Abandon, InHand, Mentions, MentionedBy
<1>21. ASSUME Restart PROVE Goal
  BY <1>21 DEF Restart, InHand, Mentions, MentionedBy
<1>22. ASSUME UNCHANGED vars PROVE Goal
  BY <1>22 DEF vars, InHand, Mentions, MentionedBy
<1>23. QED
  BY <1>1, <1>2, <1>3, <1>4, <1>5, <1>6, <1>7, <1>8, <1>10, <1>11, <1>12,
     <1>13, <1>14, <1>15, <1>16, <1>17, <1>18, <1>19, <1>20, <1>21, <1>22
     DEF Next, Operators, Database, Console, Network, Player, Working

LEMMA StampsUniqueStep ==
  TypeOK /\ StampsUnique /\ [Next]_vars => StampsUnique'
<1> SUFFICES ASSUME TypeOK, StampsUnique, [Next]_vars,
                    NEW i \in Stamps, NEW a \in Ids, NEW b \in Ids, Mentions(i, a)'
             PROVE  i <= clock' /\ (Mentions(i, b)' => a = b)
  BY DEF StampsUnique
<1>1. clock \in Nat /\ i \in Nat
  BY DEF TypeOK, Stamps
<1>2. i <= clock'
  BY <1>1, MentionsOld DEF StampsUnique
<1>3. ASSUME Mentions(i, b)' PROVE a = b
  <2>1. CASE Mentions(i, a) /\ Mentions(i, b)
    BY <2>1 DEF StampsUnique
  <2>2. CASE Mentions(i, a) /\ ~Mentions(i, b)
    BY <2>2, <1>1, <1>3, MentionsOld DEF StampsUnique
  <2>3. CASE ~Mentions(i, a)
    BY <2>3, <1>1, <1>3, MentionsOld DEF StampsUnique
  <2>4. QED
    BY <2>1, <2>2, <2>3
<1>4. QED
  BY <1>2, <1>3

-----------------------------------------------------------------------------
(* The ledger stays ahead.                                                 *)

\* A command that is not in the ledger yet fits: the entries are of different inserts.
LEMMA LedgerFits ==
  ASSUME MaxIssued <= LedgerMax, TypeOK, StampsUnique, LedgerFaithful,
         ppc = "remember", ~WasExecuted(cur)
  PROVE  /\ Len(mem) + 1 <= LedgerMax
         /\ \A k \in DOMAIN mem : mem[k].issued # cur.issued
<1>1. cur \in Command /\ mem \in Seq(Entry) /\ DOMAIN mem = 1..Len(mem)
  BY DEF TypeOK, InHand
<1>2. ASSUME NEW k \in DOMAIN mem PROVE mem[k].issued # cur.issued
  <2>1. mem[k] \in Entry /\ cur.issued \in Stamps /\ cur.id \in Ids
    BY <1>1 DEF Command
  <2>2. Mentions(mem[k].issued, mem[k].id) /\ Mentions(cur.issued, cur.id)
    BY <1>1 DEF Mentions, MentionedBy, InHand
  <2>3. mem[k].issued = cur.issued => mem[k].id = cur.id
    BY <2>1, <2>2 DEF StampsUnique, Entry
  <2>4. mem[k] # [id |-> cur.id, issued |-> cur.issued]
    BY DEF WasExecuted
  <2>5. QED
    BY <2>1, <2>3, <2>4 DEF Entry
<1> DEFINE n == Len(mem) + 1
           f == [k \in 1..n |-> IF k < n THEN mem[k].issued ELSE cur.issued]
<1>3. n \in Nat \ {0} /\ MaxIssued \in Nat
  BY <1>1, CommandsAssumption
<1>4. f \in [1..n -> 1..MaxIssued]
  <2>1. \A k \in 1..n : k < n => mem[k] \in Entry
    BY <1>1, <1>3
  <2>2. \A k \in 1..n : k < n => mem[k].issued \in 1..MaxIssued
    BY <2>1 DEF Entry, Stamps
  <2>3. cur.issued \in 1..MaxIssued
    BY <1>1 DEF Command, Stamps
  <2>4. QED
    BY <2>2, <2>3
<1>5. ASSUME NEW j \in 1..n, NEW k \in 1..n, f[j] = f[k] PROVE j = k
  <2>1. \A m \in 1..n : m < n => m \in DOMAIN mem /\ f[m] = mem[m].issued
    BY <1>1, <1>3
  <2>2. f[n] = cur.issued
    BY <1>3
  <2>3. CASE j < n /\ k < n
    BY <2>1, <2>3, <1>1, <1>5 DEF LedgerFaithful, Distinct
  <2>4. CASE j < n /\ k = n
    BY <2>1, <2>2, <2>4, <1>2, <1>5
  <2>5. CASE j = n /\ k < n
    BY <2>1, <2>2, <2>5, <1>2, <1>5
  <2>6. QED
    BY <2>3, <2>4, <2>5, <1>3
<1>6. f \in Injection(1..n, 1..MaxIssued)
  BY <1>4, <1>5 DEF Injection, IsInjective
<1>7. Cardinality(1..n) = n /\ Cardinality(1..MaxIssued) = MaxIssued /\ IsFiniteSet(1..MaxIssued)
  BY <1>3, FS_Interval
<1>8. n <= MaxIssued
  BY <1>6, <1>7, FS_Injection
<1>9. QED
  BY <1>1, <1>2, <1>3, <1>8, CommandsAssumption

\* Below the limit, remembering is appending.
LEMMA RememberedRecords ==
  ASSUME mem \in Seq(Entry), NEW c \in Command, Len(mem) + 1 <= LedgerMax
  PROVE  /\ Remembered(c) = Append(mem, [id |-> c.id, issued |-> c.issued])
         /\ DOMAIN Remembered(c) = 1..(Len(mem) + 1)
         /\ \A k \in 1..Len(mem) : Remembered(c)[k] = mem[k]
         /\ Remembered(c)[Len(mem) + 1] = [id |-> c.id, issued |-> c.issued]
<1> DEFINE e == [id |-> c.id, issued |-> c.issued]
<1>1. e \in Entry
  BY DEF Command, Entry
<1>2. Len(Append(mem, e)) = Len(mem) + 1 /\ Len(mem) \in Nat
  BY <1>1
<1>3. Remembered(c) = Append(mem, e)
  BY <1>2, CommandsAssumption DEF Remembered
<1>4. QED
  BY <1>1, <1>2, <1>3

LEMMA RememberKeepsAhead ==
  ASSUME MaxIssued <= LedgerMax, TypeOK, LedgerAhead, Remember
  PROVE  LedgerFaithful' /\ InHandNew' /\ RunsRecorded'
<1> DEFINE e == [id |-> cur.id, issued |-> cur.issued]
<1>1. cur \in Command /\ mem \in Seq(Entry) /\ disk \in Seq(Entry) /\ ~WasExecuted(cur)
  BY DEF Remember, TypeOK, InHand, LedgerAhead, InHandNew
<1>2. Len(mem) + 1 <= LedgerMax /\ \A k \in DOMAIN mem : mem[k].issued # cur.issued
  BY <1>1, LedgerFits DEF Remember, LedgerAhead
<1>3. /\ mem' = Remembered(cur) /\ cur' = cur /\ runs' = runs /\ ppc = "remember" /\ ppc' = "report"
      /\ \/ disk' = mem' /\ diskFailures' = diskFailures
         \/ disk' = disk /\ diskFailures' = diskFailures + 1
  BY DEF Remember
<1>4. /\ DOMAIN mem' = 1..(Len(mem) + 1) /\ DOMAIN mem = 1..Len(mem) /\ Len(mem) \in Nat
      /\ \A k \in 1..Len(mem) : mem'[k] = mem[k]
      /\ mem'[Len(mem) + 1] = e
  BY <1>1, <1>2, <1>3, RememberedRecords
<1>5. \A k \in DOMAIN disk : \E j \in DOMAIN mem : mem[j] = disk[k]
  BY <1>3 DEF LedgerAhead, LedgerFaithful, InHand
<1>6. LedgerFaithful'
  <2>1. \A k \in DOMAIN disk' : \E j \in DOMAIN mem' : mem'[j] = disk'[k]
    BY <1>3, <1>4, <1>5
  <2>2. Distinct(mem')
    <3>1. ASSUME NEW j \in DOMAIN mem', NEW k \in DOMAIN mem', mem'[j].issued = mem'[k].issued
          PROVE  j = k
      <4>1. CASE j \in 1..Len(mem) /\ k \in 1..Len(mem)
        BY <4>1, <1>4, <3>1 DEF LedgerAhead, LedgerFaithful, Distinct
      <4>2. CASE j \in 1..Len(mem) /\ k = Len(mem) + 1
        BY <4>2, <1>2, <1>4, <3>1
      <4>3. CASE k \in 1..Len(mem) /\ j = Len(mem) + 1
        BY <4>3, <1>2, <1>4, <3>1
      <4>4. QED
        BY <4>1, <4>2, <4>3, <1>4
    <3>2. QED
      BY <3>1 DEF Distinct
  <2>3. Distinct(disk')
    BY <2>2, <1>3 DEF LedgerAhead, LedgerFaithful
  <2>4. QED
    BY <2>1, <2>2, <2>3 DEF LedgerFaithful, Distinct
<1>7. InHandNew'
  BY <1>3 DEF InHandNew
<1>8. RunsRecorded'
  <2>1. \A c \in Command : Recorded(c) => WasExecuted(c)
    BY <1>5 DEF Recorded, WasExecuted
  <2>2. ASSUME NEW c \in Command, c.kind \in SelfKilling
        PROVE  runs'[c] + (IF Pending(c)' THEN 1 ELSE 0)
                 <= diskFailures' + (IF Recorded(c)' THEN 1 ELSE 0)
    <3>1. /\ runs[c] \in Nat /\ diskFailures \in Nat /\ runs' = runs
          /\ runs[c] <= diskFailures + (IF Recorded(c) THEN 1 ELSE 0)
      BY <1>3, <2>2, CommandsAssumption DEF TypeOK, LedgerAhead, RunsRecorded, Pending
    <3>2. Pending(c)' => c = cur
      BY <1>3 DEF Pending
    <3>3. ~Recorded(cur)
      BY <1>1, <2>1
    <3>4. CASE disk' = mem' /\ diskFailures' = diskFailures
      <4>1. Recorded(c) => Recorded(c)'
        BY <3>4, <1>4, <1>5 DEF Recorded
      <4>2. Recorded(cur)'
        BY <3>4, <1>3, <1>4 DEF Recorded
      <4>3. CASE c = cur
        BY <3>1, <3>3, <3>4, <4>2, <4>3, <1>3
      <4>4. CASE c # cur
        BY <3>1, <3>2, <3>4, <4>1, <4>4
      <4>5. QED
        BY <4>3, <4>4
    <3>5. CASE disk' = disk /\ diskFailures' = diskFailures + 1
      <4>1. Recorded(c)' = Recorded(c)
        BY <3>5 DEF Recorded
      <4>2. QED
        BY <3>1, <3>5, <4>1
    <3>6. QED
      BY <3>4, <3>5, <1>3
  <2>3. QED
    BY <2>2 DEF RunsRecorded
<1>9. QED
  BY <1>6, <1>7, <1>8

LEMMA ActKeepsAhead ==
  ASSUME TypeOK, LedgerAhead, Act
  PROVE  LedgerFaithful' /\ InHandNew' /\ RunsRecorded'
<1>1. /\ cur \in Command /\ ppc = "act" /\ UNCHANGED <<mem, disk, diskFailures>>
      /\ runs' = [runs EXCEPT ![cur] = @ + 1]
  BY DEF Act, TypeOK, InHand, ledger, file
<1>2. LedgerFaithful'
  BY <1>1 DEF LedgerAhead, LedgerFaithful, InHand, Act
<1>3. InHandNew'
  BY <1>1 DEF Act, LedgerAhead, InHandNew, WasExecuted
<1>4. ASSUME NEW c \in Command, c.kind \in SelfKilling
      PROVE  runs'[c] + (IF Pending(c)' THEN 1 ELSE 0)
               <= diskFailures' + (IF Recorded(c)' THEN 1 ELSE 0)
  <2>1. /\ runs[c] \in Nat /\ diskFailures \in Nat
        /\ runs[c] + (IF Pending(c) THEN 1 ELSE 0) <= diskFailures + (IF Recorded(c) THEN 1 ELSE 0)
    BY <1>4, CommandsAssumption DEF TypeOK, LedgerAhead, RunsRecorded
  <2>2. Recorded(c)' = Recorded(c)
    BY <1>1 DEF Recorded
  <2>3. CASE c = cur
    <3>1. Pending(c) /\ ~Pending(c)' /\ runs'[c] = runs[c] + 1
      BY <2>3, <1>1, <1>4 DEF Act, Pending, TypeOK
    <3>2. QED
      BY <3>1, <2>1, <2>2, <1>1
  <2>4. CASE c # cur
    <3>1. ~Pending(c)' /\ runs'[c] = runs[c]
      BY <2>4, <1>1 DEF Act, Pending, TypeOK
    <3>2. QED
      BY <3>1, <2>1, <2>2, <1>1
  <2>5. QED
    BY <2>3, <2>4
<1>5. QED
  BY <1>2, <1>3, <1>4 DEF RunsRecorded

LEMMA LedgerAheadStep ==
  ASSUME MaxIssued <= LedgerMax, TypeOK, LedgerAhead, [Next]_vars
  PROVE  LedgerAhead'
<1> USE DEF serving, ledger, file, db
<1>1. TypeOK' /\ StampsUnique'
  BY NextTypeOK, StampsUniqueStep DEF LedgerAhead
<1> DEFINE Rest == LedgerFaithful' /\ InHandNew' /\ RunsRecorded'
\* A step that runs and records nothing, and after which no command is pending that was not.
<1>2. ASSUME UNCHANGED <<disk, diskFailures, runs>>, \A c \in Command : Pending(c)' => Pending(c)
      PROVE  RunsRecorded'
  <2>1. ASSUME NEW c \in Command, c.kind \in SelfKilling
        PROVE  runs'[c] + (IF Pending(c)' THEN 1 ELSE 0)
                 <= diskFailures' + (IF Recorded(c)' THEN 1 ELSE 0)
    <3>1. runs[c] \in Nat /\ diskFailures \in Nat
      BY CommandsAssumption DEF TypeOK
    <3>2. Recorded(c)' = Recorded(c)
      BY <1>2 DEF Recorded
    <3>3. QED
      BY <1>2, <2>1, <3>1, <3>2 DEF LedgerAhead, RunsRecorded
  <2>2. QED
    BY <2>1 DEF RunsRecorded
<1>3. ASSUME UNCHANGED <<ppc, cur, mem, disk, diskFailures, runs>> PROVE Rest
  <2>1. \A c \in Command : Pending(c)' => Pending(c)
    BY <1>3 DEF Pending
  <2>2. LedgerFaithful' /\ InHandNew'
    BY <1>3 DEF LedgerAhead, LedgerFaithful, InHandNew, WasExecuted, InHand
  <2>3. QED
    BY <1>2, <1>3, <2>1, <2>2
<1>4. ASSUME UNCHANGED <<disk, diskFailures, runs>>, mem' \in {mem, <<>>},
             ppc' \notin InHand \cup {"next"}
      PROVE  Rest
  <2>1. \A c \in Command : ~Pending(c)'
    BY <1>4 DEF Pending, InHand
  <2>2. LedgerFaithful'
    BY <1>4 DEF LedgerAhead, LedgerFaithful, Distinct
  <2>3. InHandNew'
    BY <1>4 DEF InHandNew, InHand
  <2>4. QED
    BY <1>2, <1>4, <2>1, <2>2, <2>3
<1>5. ASSUME NEW h \in Handlers, Answered(h) PROVE Rest
  <2>1. mem' = disk /\ ppc' = "next" /\ UNCHANGED <<disk, diskFailures, runs>>
    BY <1>5 DEF Answered
  <2>2. LedgerFaithful' /\ InHandNew'
    BY <2>1 DEF LedgerAhead, LedgerFaithful, InHandNew
  <2>3. QED
    BY <1>2, <2>1, <2>2 DEF Pending
<1>6. ASSUME NEW c \in Command, Take(c) PROVE Rest
  <2>1. UNCHANGED <<mem, disk, diskFailures, runs>> /\ ppc = "next" /\ ppc' \in {"next", "remember", "act"}
    BY <1>6 DEF Take, FirstStep
  <2>2. LedgerFaithful'
    BY <2>1 DEF LedgerAhead, LedgerFaithful
  <2>3. InHandNew'
    BY <1>6, <2>1 DEF Take, InHandNew, WasExecuted
  <2>4. RunsRecorded'
    <3>1. ppc' = "act" => cur'.kind \notin SelfKilling
      BY <1>6 DEF Take, FirstStep
    <3>2. ASSUME NEW d \in Command, d.kind \in SelfKilling PROVE ~Pending(d)'
      BY <3>1, <3>2, <2>1 DEF Pending
    <3>3. ASSUME NEW d \in Command, d.kind \in SelfKilling
          PROVE  runs'[d] + (IF Pending(d)' THEN 1 ELSE 0)
                   <= diskFailures' + (IF Recorded(d)' THEN 1 ELSE 0)
      BY <2>1, <3>2, <3>3 DEF LedgerAhead, RunsRecorded, Recorded, Pending
    <3>4. QED
      BY <3>3 DEF RunsRecorded
  <2>5. QED
    BY <2>2, <2>3, <2>4
<1>7. ASSUME Report \/ ReportFailure PROVE Rest
  <2>1. /\ UNCHANGED <<mem, disk, diskFailures, runs>> /\ ppc \in InHand /\ ppc' \in {"act", "next"}
        /\ ppc' = "act" => ppc = "report" /\ cur' = cur /\ cur.kind \in SelfKilling
    BY <1>7 DEF Report, ReportFailure, InHand
  <2>2. LedgerFaithful' /\ InHandNew'
    BY <2>1 DEF LedgerAhead, LedgerFaithful, InHandNew
  <2>3. QED
    BY <1>2, <2>1, <2>2 DEF Pending
<1>8. ASSUME Finish \/ Crash \/ SyncFails \/ Restart \/ \E h \in Handlers : StartSync(h) PROVE Rest
  BY <1>4, <1>8 DEF Finish, Crash, SyncFails, Restart, StartSync, InHand
<1>9. ASSUME \/ Operators \/ Database \/ Console \/ UNCHANGED vars
             \/ \E id \in Ids : ApplyPost(id) \/ LosePost(id)
      PROVE  Rest
  BY <1>3, <1>9 DEF Operators, Database, Console, Cancel, Send, TakeBackup, Restore,
     Housekeeping, Select, Batch, ApplyPost, LosePost, vars
<1>10. Rest
  BY <1>5, <1>6, <1>7, <1>8, <1>9, RememberKeepsAhead, ActKeepsAhead DEF Next, Network, Player, Working
<1>11. QED
  BY <1>1, <1>10 DEF LedgerAhead

LEMMA InitLedgerAhead == Init => LedgerAhead
<1> SUFFICES ASSUME Init PROVE LedgerAhead
  OBVIOUS
<1>1. StampsUnique /\ LedgerFaithful /\ InHandNew
  BY DEF Init, StampsUnique, LedgerFaithful, Distinct, InHandNew, Mentions, InHand
<1>2. RunsRecorded
  BY DEF Init, RunsRecorded, Pending, Recorded
<1>3. QED
  BY <1>1, <1>2 DEF LedgerAhead

\* The ledger stays ahead of the self-killing actions as long as the console has sent no
\* more commands than the ledger remembers, whether or not its writes succeed.
THEOREM LedgerAlwaysAhead ==
  ASSUME MaxIssued <= LedgerMax
  PROVE  Spec => []LedgerAhead
BY InitTypeOK, NextTypeOK, InitLedgerAhead, LedgerAheadStep, PTL DEF Spec

\* A reboot or an update runs once and at most once more for each failed write of the
\* ledger, for any number of kinds and commands, of overlapping syncs, crashes, lost or
\* repeated results and restores of the database.
THEOREM SelfKillingOnce ==
  ASSUME MaxIssued <= LedgerMax
  PROVE  Spec => []SelfKillingAtMostOnce
<1>1. TypeOK /\ LedgerAhead => SelfKillingAtMostOnce
  <2>1. ASSUME TypeOK, LedgerAhead, NEW c \in Command, c.kind \in SelfKilling
        PROVE  runs[c] <= 1 + diskFailures
    <3>1. runs[c] \in Nat /\ diskFailures \in Nat
      BY <2>1, CommandsAssumption DEF TypeOK
    <3>2. runs[c] + (IF Pending(c) THEN 1 ELSE 0) <= diskFailures + (IF Recorded(c) THEN 1 ELSE 0)
      BY <2>1 DEF LedgerAhead, RunsRecorded
    <3>3. QED
      BY <3>1, <3>2
  <2>2. QED
    BY <2>1 DEF SelfKillingAtMostOnce
<1>2. QED
  BY <1>1, TypeCorrect, LedgerAlwaysAhead, PTL

-----------------------------------------------------------------------------
(***************************************************************************)
(* What the console may rely on about a command, for any number of kinds,  *)
(* handlers, deliveries and commands.  A command runs no more often than   *)
(* it was handed out; a result of an ordinary command means that it ran;   *)
(* and, without a restore, every command lives the life of CommandPromise. *)
(***************************************************************************)

-----------------------------------------------------------------------------
(* The invariants.                                                         *)

\* Who is at work: a handler holds a snapshot only between its read and its batch, an
\* answer only while the player waits for it, the player a list only while it walks it.
Phases ==
  /\ \A h \in Handlers : hpc[h] # "read" => snap[h] = {}
  /\ \A h \in Handlers : resp[h] # {} => hpc[h] = "answered" /\ waiting = h
  /\ waiting # Nobody <=> ppc = "waiting"
  /\ todo # {} => ppc \in InHand \cup {"next"}

\* Every row is filed under its own id, and ids of the future are unused.
Filed(table, next) ==
  \A id \in Ids : table[id] # NoRow => id < next /\ table[id].cmd.id = id

\* Command c belongs to the database as it is now.
Current(c) == c.id < nextId /\ (Held(c.id) => rows[c.id].cmd = c)

\* The commands somebody is working on.
InFlight(c) ==
  \/ \E h \in Handlers : c \in resp[h] \/ \E s \in snap[h] : s.cmd = c
  \/ c \in todo
  \/ ppc \in InHand /\ cur = c

\* A restore waits for all work to end, so whatever is in flight is of this database.
WorkCurrent ==
  /\ Filed(rows, nextId) /\ Filed(backup.rows, backup.nextId)
  /\ \A c \in Command : InFlight(c) => Current(c)
  /\ \A id \in posts : id < nextId

\* Is c handed out and still to be run?
ToAct(c) == cur = c /\ (ppc = "act" \/ (ppc \in {"remember", "report"} /\ c.kind \in SelfKilling))
Due(c) == (\E h \in Handlers : c \in resp[h]) \/ c \in todo \/ ToAct(c)

\* Without a restore: a snapshot is never ahead of its row, the player is never handed a
\* command twice at once, and each run, the one to come included, was counted in the row.
RunsCounted ==
  restores = 0 =>
    /\ \A h \in Handlers : \A s \in snap[h] : Held(s.cmd.id) => s.count <= rows[s.cmd.id].count
    /\ ppc \in InHand => cur \notin todo
    /\ \A c \in Command : (Due(c) \/ runs[c] > 0) =>
         /\ Held(c.id) /\ rows[c.id].cmd = c
         /\ runs[c] + (IF Due(c) THEN 1 ELSE 0) <= rows[c.id].count

\* The commands of the tables and of the work in flight.
Known(c) ==
  \/ \E id \in Ids : rows[id] # NoRow /\ rows[id].cmd = c
  \/ \E id \in Ids : backup.rows[id] # NoRow /\ backup.rows[id].cmd = c
  \/ InFlight(c)

\* One insert, one command.
InsertsDiffer ==
  \A c, d \in Command : Known(c) /\ Known(d) /\ c.issued = d.issued => c = d

Ordinary(c) == c.kind \notin SelfKilling
Ran(c) == Ordinary(c) => runs[c] > 0
RanWhatLedgerHas(l) ==
  \A k \in DOMAIN l : \A c \in Command :
    Known(c) /\ l[k] = [id |-> c.id, issued |-> c.issued] => Ran(c)
RanWhatTableHas(table) ==
  \A id \in Ids : table[id] # NoRow /\ table[id].result = "player" => Ran(table[id].cmd)

\* An ordinary command has run before anything says so: the ledger, a result under way,
\* a closed row.
SaidMeansRan ==
  /\ RanWhatLedgerHas(mem) /\ RanWhatLedgerHas(disk)
  /\ ppc \in {"remember", "report"} => Ran(cur)
  /\ ppc = "failed" => cur.kind \in SelfKilling
  /\ \A id \in posts : Held(id) => Ran(rows[id].cmd)
  /\ RanWhatTableHas(rows) /\ RanWhatTableHas(backup.rows)

-----------------------------------------------------------------------------
(* What each step does to the tables and to the work in flight.            *)

LEMMA PhasesStep == TypeOK /\ Phases /\ [Next]_vars => Phases'
<1> SUFFICES ASSUME TypeOK, Phases, [Next]_vars PROVE Phases'
  OBVIOUS
<1> USE DEF serving, ledger, file, db, InHand
<1>1. ASSUME NEW h \in Handlers, Select(h) \/ Batch(h) \/ StartSync(h) \/ Answered(h) PROVE Phases'
  <2>1. CASE Select(h)
    BY <2>1 DEF Select, Phases, TypeOK
  <2>2. CASE Batch(h)
    BY <2>2 DEF Batch, Phases, TypeOK
  <2>3. CASE StartSync(h)
    BY <2>3, NamesAssumption DEF StartSync, Phases, TypeOK
  <2>4. CASE Answered(h)
    BY <2>4 DEF Answered, Phases, TypeOK
  <2>5. QED
    BY <1>1, <2>1, <2>2, <2>3, <2>4
<1>2. ASSUME SyncFails \/ Crash PROVE Phases'
  BY <1>2 DEF SyncFails, Crash, Abandon, Phases, TypeOK
<1>3. ASSUME NEW c \in Command, Take(c) PROVE Phases'
  BY <1>3 DEF Take, FirstStep, Phases
<1>4. ASSUME Remember \/ Report \/ Act \/ ReportFailure \/ Finish \/ Restart PROVE Phases'
  BY <1>4 DEF Remember, Report, Act, ReportFailure, Finish, Restart, Phases
<1>5. ASSUME UNCHANGED <<serving, waiting, ppc, todo>> PROVE Phases'
  BY <1>5 DEF Phases
<1>6. ASSUME \/ Operators \/ Database \/ UNCHANGED vars \/ \E id \in Ids : ApplyPost(id) \/ LosePost(id)
      PROVE  UNCHANGED <<serving, waiting, ppc, todo>>
  BY <1>6 DEF Operators, Database, Cancel, Send, TakeBackup, Restore, Housekeeping, ApplyPost, LosePost, vars
<1>7. QED
  BY <1>1, <1>2, <1>3, <1>4, <1>5, <1>6 DEF Next, Console, Network, Player, Working

\* Closing a row leaves its count alone.
LEMMA RowCounts ==
  ASSUME NEW row \in Row
  PROVE  /\ row.count \in Nat
         /\ ConsoleClose(row).count = row.count /\ PlayerClose(row).count = row.count
         /\ HandedOut(row).count = row.count + 1
BY CommandsAssumption DEF ConsoleClose, PlayerClose, HandedOut, Row

\* Only an INSERT or a restore brings a row; every other step at most counts or closes it.
LEMMA TableChange ==
  ASSUME TypeOK, [Next]_vars
  PROVE  \/ \E kind \in Kinds : Send(kind)
         \/ Restore
         \/ /\ UNCHANGED <<nextId, clock, restores>>
            /\ \A id \in Ids : Held(id)' =>
                 /\ Held(id) /\ rows'[id].cmd = rows[id].cmd
                 /\ rows'[id].count \in Nat /\ rows'[id].count >= rows[id].count
<1> DEFINE Kept == \A id \in Ids : Held(id)' =>
                     /\ Held(id) /\ rows'[id].cmd = rows[id].cmd
                     /\ rows'[id].count \in Nat /\ rows'[id].count >= rows[id].count
<1> USE DEF serving, ledger, file, db
<1>1. ASSUME NEW id \in Ids, NEW row, Held(id) => row \in {rows[id], ConsoleClose(rows[id]), PlayerClose(rows[id]), HandedOut(rows[id])}
      PROVE  Held(id) => /\ row.cmd = rows[id].cmd
                         /\ row.count \in Nat /\ row.count >= rows[id].count
  <2> SUFFICES ASSUME Held(id) PROVE row.cmd = rows[id].cmd /\ row.count \in Nat /\ row.count >= rows[id].count
    OBVIOUS
  <2>1. rows[id] \in Row
    BY HeldRow
  <2>2. /\ rows[id].count \in Nat
        /\ row.cmd = rows[id].cmd /\ row.count \in {rows[id].count, rows[id].count + 1}
    BY <1>1, <2>1, RowCounts, SameCommand
  <2>3. QED
    BY <2>2
<1>2. ASSUME NEW id \in Ids, Housekeeping(id) \/ ApplyPost(id) PROVE Kept
  BY <1>1, <1>2 DEF Housekeeping, Recallable, Open, ApplyPost, Held, TypeOK
<1>3. ASSUME Cancel PROVE Kept
  BY <1>1, <1>3 DEF Cancel, Held, TypeOK
<1>4. ASSUME NEW h \in Handlers, Batch(h) PROVE Kept
  <2>1. ASSUME NEW id \in Ids, Held(id)'
        PROVE  Held(id) /\ rows'[id] \in {rows[id], ConsoleClose(rows[id]), HandedOut(rows[id])}
    BY <1>4, <2>1 DEF Batch, Held
  <2>2. QED
    BY <1>1, <2>1
<1>5. ASSUME rows' = rows PROVE Kept
  BY <1>1, <1>5 DEF Held
<1>6. QED
  BY <1>2, <1>3, <1>4, <1>5
     DEF Next, Operators, Database, Console, Network, Player, Working, Cancel, TakeBackup, Housekeeping, Select,
         Batch, ApplyPost, LosePost, SyncFails, StartSync, Answered, Take, Remember, Report, Act,
         ReportFailure, Finish, Crash, Restart, vars

\* Work starts from the rows as they are.
LEMMA WorkChange ==
  ASSUME TypeOK, [Next]_vars, NEW c \in Command, InFlight(c)'
  PROVE  InFlight(c) \/ (rows' = rows /\ \E id \in Ids : Held(id) /\ rows[id].cmd = c)
<1> DEFINE Goal == InFlight(c) \/ (rows' = rows /\ \E id \in Ids : Held(id) /\ rows[id].cmd = c)
<1> USE DEF serving, ledger, file, db, InHand, InFlight
<1>1. ASSUME NEW h \in Handlers, Select(h) PROVE Goal
  <2>1. \A g \in Handlers : \A s \in snap'[g] : s \in snap[g] \/ \E id \in Ids : Held(id) /\ s.cmd = rows[id].cmd
    BY <1>1 DEF Select, TypeOK, Open
  <2>2. UNCHANGED <<rows, resp, todo, ppc, cur>>
    BY <1>1 DEF Select
  <2>3. QED
    BY <2>1, <2>2
<1>2. ASSUME NEW h \in Handlers, Batch(h) PROVE Goal
  <2>1. \A g \in Handlers : snap'[g] \subseteq snap[g]
    BY <1>2 DEF Batch, TypeOK
  <2>2. UNCHANGED <<todo, ppc, cur>>
    BY <1>2 DEF Batch
  <2>3. QED
    BY <1>2, <2>1, <2>2, BatchCommands
<1>3. ASSUME NEW h \in Handlers, Answered(h) PROVE Goal
  BY <1>3 DEF Answered, TypeOK
<1>4. ASSUME SyncFails \/ Crash PROVE Goal
  BY <1>4 DEF SyncFails, Crash, Abandon
<1>5. ASSUME NEW d \in Command, Take(d) PROVE Goal
  BY <1>5 DEF Take, FirstStep
<1>6. ASSUME Remember \/ Report \/ Act \/ ReportFailure \/ Finish \/ Restart \/ \E h \in Handlers : StartSync(h)
      PROVE  Goal
  BY <1>6 DEF Remember, Report, Act, ReportFailure, Finish, Restart, StartSync
<1>7. ASSUME UNCHANGED <<snap, resp, todo, ppc, cur>> PROVE Goal
  BY <1>7
<1>8. ASSUME \/ Operators \/ Database \/ UNCHANGED vars \/ \E id \in Ids : ApplyPost(id) \/ LosePost(id)
      PROVE  UNCHANGED <<snap, resp, todo, ppc, cur>>
  BY <1>8 DEF Operators, Database, Cancel, Send, TakeBackup, Restore, Housekeeping, ApplyPost, LosePost, vars
<1>9. QED
  BY <1>1, <1>2, <1>3, <1>4, <1>5, <1>6, <1>7, <1>8 DEF Next, Console, Network, Player, Working

\* When the tables are restored, nothing is in flight.
LEMMA RestoreIdle ==
  ASSUME TypeOK, Phases, Restore
  PROVE  posts = {} /\ posts' = {} /\ \A c \in Command : ~InFlight(c) /\ ~InFlight(c)'
BY DEF Restore, Phases, InFlight, InHand, TypeOK, serving, ledger, file

-----------------------------------------------------------------------------
(* Work in flight is about the database as it is.                          *)

\* A result that goes out is one of work in flight.
LEMMA PostChange ==
  ASSUME TypeOK, [Next]_vars, NEW id \in posts'
  PROVE  id \in posts \/ \E c \in Command : InFlight(c) /\ id = c.id
<1> USE DEF serving, ledger, file, db, InHand
<1>1. ASSUME NEW c \in Command, Take(c) PROVE id \in posts \/ id = c.id
  BY <1>1 DEF Take
<1>2. ASSUME Report \/ ReportFailure PROVE id \in posts \/ (cur \in Command /\ ppc \in InHand /\ id = cur.id)
  BY <1>2 DEF Report, ReportFailure, TypeOK
<1>3. QED
  BY <1>1, <1>2 DEF InFlight, Take, Next, Operators, Database, Console, Network, Player, Working, Cancel, Send,
     TakeBackup, Restore, Housekeeping, Select, Batch, ApplyPost, LosePost, SyncFails, StartSync, Answered,
     Remember, Act, Finish, Crash, Restart, vars

LEMMA BackupChange ==
  ASSUME TypeOK, [Next]_vars
  PROVE  backup' = backup \/ (backup'.rows = rows /\ backup'.nextId = nextId /\ UNCHANGED <<rows, nextId>>)
BY DEF serving, ledger, file, db, Next, Operators, Database, Console, Network, Player, Working, Cancel, Send,
     TakeBackup, Restore, Housekeeping, Select, Batch, ApplyPost, LosePost, SyncFails, StartSync, Answered, Take,
     Report, ReportFailure, Remember, Act, Finish, Crash, Restart, vars

\* What an INSERT leaves alone.
LEMMA SendChange ==
  ASSUME TypeOK, NEW kind \in Kinds, Send(kind)
  PROVE  /\ nextId' = nextId + 1 /\ nextId \in Nat /\ nextId \in Ids /\ clock' = clock + 1
         /\ \A id \in Ids : id # nextId => rows'[id] = rows[id]
         /\ rows'[nextId].cmd.id = nextId /\ rows'[nextId].cmd.issued = clock + 1
         /\ rows'[nextId].count = 0 /\ rows'[nextId].result = "none"
         /\ UNCHANGED <<backup, restores, serving, waiting, ppc, todo, cur, ledger, posts, runs>>
BY CommandsAssumption DEF Send, TypeOK

LEMMA Earlier ==
  \A i, n \in Nat : i < n => i < n + 1 /\ i # n
OBVIOUS

LEMMA WorkCurrentStep == TypeOK /\ Phases /\ WorkCurrent /\ [Next]_vars => WorkCurrent'
<1> SUFFICES ASSUME TypeOK, Phases, WorkCurrent, [Next]_vars PROVE WorkCurrent'
  OBVIOUS
<1>1. Filed(backup.rows, backup.nextId)' /\ (Restore => Filed(rows, nextId)')
  BY BackupChange DEF WorkCurrent, Filed, Restore
<1>2. \A c \in Command : c.id \in Ids
  BY DEF Command
<1>3. CASE Restore
  BY <1>1, <1>3, RestoreIdle DEF WorkCurrent
<1>4. ASSUME NEW kind \in Kinds, Send(kind) PROVE WorkCurrent'
  <2>0. Ids \subseteq Nat /\ nextId \in Nat /\ nextId' = nextId + 1
    <3>1. nextId \in Nat /\ nextId' = nextId + 1
      BY <1>4, SendChange, Zenon
    <3>2. QED
      BY <3>1, CommandsAssumption DEF Ids
  <2>1. Filed(rows, nextId)'
    <3>1. ASSUME NEW id \in Ids, rows'[id] # NoRow PROVE id < nextId' /\ rows'[id].cmd.id = id
      <4>1. CASE id = nextId
        BY <1>4, <2>0, <4>1, SendChange
      <4>2. CASE id # nextId
        BY <1>4, <2>0, <3>1, <4>2, SendChange DEF WorkCurrent, Filed
      <4>3. QED
        BY <4>1, <4>2
    <3>2. QED
      BY <3>1 DEF Filed
  <2>2. ASSUME NEW c \in Command, InFlight(c)' PROVE Current(c)'
    <3>1. InFlight(c)
      BY <1>4, <2>2, SendChange DEF InFlight, serving
    <3>2. Current(c)
      BY <3>1 DEF WorkCurrent
    <3>3. c.id \in Ids /\ c.id < nextId /\ c.id < nextId' /\ c.id # nextId
      <4>1. c.id \in Ids /\ c.id < nextId
        BY <1>2, <3>2, Zenon DEF Current
      <4>2. QED
        BY <2>0, <4>1, Earlier
    <3>4. rows'[c.id] = rows[c.id]
      BY <1>4, <3>3, SendChange
    <3>5. QED
      BY <3>2, <3>3, <3>4 DEF Current, Held
  <2>3. ASSUME NEW id \in posts' PROVE id < nextId'
    <3>1. id \in Ids /\ id < nextId
      BY <1>4, SendChange, Zenon DEF WorkCurrent, TypeOK
    <3>2. QED
      BY <2>0, <3>1, Earlier
  <2>4. QED
    BY <1>1, <2>1, <2>2, <2>3 DEF WorkCurrent
<1>5. ASSUME nextId' = nextId, \A id \in Ids : Held(id)' => Held(id) /\ rows'[id].cmd = rows[id].cmd
      PROVE  WorkCurrent'
  <2>1. Filed(rows, nextId)'
    BY <1>5 DEF WorkCurrent, Filed, Held
  <2>2. ASSUME NEW c \in Command, InFlight(c) \/ \E id \in Ids : Held(id) /\ rows[id].cmd = c
        PROVE  Current(c) /\ Current(c)'
    <3>1. Current(c)
      BY <2>2 DEF WorkCurrent, Filed, Held, Current
    <3>2. QED
      BY <1>2, <1>5, <3>1 DEF Current
  <2>3. \A c \in Command : InFlight(c)' => Current(c)'
    BY <2>2, WorkChange
  <2>4. \A id \in posts' : id < nextId'
    BY <1>5, <2>2, PostChange DEF WorkCurrent, Current
  <2>5. QED
    BY <1>1, <2>1, <2>3, <2>4 DEF WorkCurrent
<1>6. QED
  BY <1>3, <1>4, <1>5, TableChange

-----------------------------------------------------------------------------
(* Runs and deliveries.                                                    *)

\* What a batch does to a row: it counts it, closes it or leaves it alone.
LEMMA BatchHeld ==
  ASSUME TypeOK, NEW h \in Handlers, Batch(h), NEW id \in Ids, Held(id)
  PROVE  /\ Held(id)'
         /\ \/ /\ \E s \in snap[h] : Claimed(s) /\ s.cmd.id = id
               /\ rows'[id] = HandedOut(rows[id])
            \/ /\ ~\E s \in snap[h] : Claimed(s) /\ s.cmd.id = id
               /\ \/ rows'[id] = rows[id]
                  \/ /\ \E s \in snap[h] : Spent(s) /\ s.cmd.id = id
                     /\ Open(id) /\ rows'[id] = ConsoleClose(rows[id])
<1> DEFINE handed == {r.cmd : r \in {s \in snap[h] : Claimed(s)}}
           spent  == {r.cmd.id : r \in {s \in snap[h] : Spent(s)}}
           After(i) == IF ~Held(i) THEN NoRow
                       ELSE IF i \in {c.id : c \in handed} THEN HandedOut(rows[i])
                       ELSE IF i \in spent /\ Open(i) THEN ConsoleClose(rows[i])
                       ELSE rows[i]
<1>1. rows' = [i \in Ids |-> After(i)]
  BY DEF Batch
<1>2. rows'[id] = After(id)
  BY <1>1
<1>3. id \in {c.id : c \in handed} <=> \E s \in snap[h] : Claimed(s) /\ s.cmd.id = id
  OBVIOUS
<1>4. id \in spent <=> \E s \in snap[h] : Spent(s) /\ s.cmd.id = id
  OBVIOUS
<1>5. rows'[id] \in MaybeRow /\ ConsoleClose(rows[id]) # NoRow /\ rows[id] # NoRow
  BY BatchType, HeldRow, CloseTypes, NamesAssumption DEF Held
<1>6. rows'[id] = HandedOut(rows[id]) => Held(id)'
  <2>1. ASSUME NEW s \in snap[h], Claimed(s), s.cmd.id = id PROVE rows[id].count < MaxDeliveries
    BY <2>1, CommandsAssumption, HeldRow DEF Claimed, Spent, Row
  <2>2. rows[id] \in Row
    BY HeldRow
  <2>3. rows[id].count < MaxDeliveries => HandedOut(rows[id]) # NoRow
    BY <2>2, HandOutType, NamesAssumption
  <2>4. HandedOut(rows[id]) # rows[id]
    BY <2>2, RowCounts
  <2>5. HandedOut(rows[id]) # ConsoleClose(rows[id])
    BY <2>2, RowCounts
  <2> HIDE DEF handed, spent
  <2>6. QED
    BY <1>2, <1>3, <2>1, <2>3, <2>4, <2>5 DEF Held
<1> HIDE DEF handed, spent
<1>7. QED
  BY <1>2, <1>3, <1>4, <1>5, <1>6 DEF Held

\* A row that was handed out is not cancelled.
LEMMA HandedRowStays ==
  ASSUME TypeOK, [Next]_vars, ~Restore, NEW id \in Ids, Held(id), rows[id].count > 0
  PROVE  Held(id)'
<1> USE DEF serving, ledger, file, db
<1>1. rows[id] \in Row /\ NoRow \notin Row
  BY HeldRow, NamesAssumption
<1>2. /\ ConsoleClose(rows[id]) # NoRow /\ PlayerClose(rows[id]) # NoRow
      /\ rows[id].count < MaxDeliveries => HandedOut(rows[id]) # NoRow
  BY <1>1, CloseTypes, HandOutType
<1>3. ASSUME NEW kind \in Kinds, Send(kind) PROVE Held(id)'
  <2>1. [cmd |-> [id |-> nextId, kind |-> kind, issued |-> clock + 1],
         count |-> 0, result |-> "none", undeliverable |-> FALSE] \in Row
    BY <1>3, CommandsAssumption DEF Send, TypeOK, Row, Command, Ids, Stamps
  <2>2. QED
    BY <1>1, <1>3, <2>1 DEF Send, Held, TypeOK
<1>4. CASE Cancel
  BY <1>1, <1>4, CommandsAssumption DEF Cancel, Recallable, Held, Row
<1>5. ASSUME NEW i \in Ids, Housekeeping(i) \/ ApplyPost(i) PROVE Held(id)'
  BY <1>1, <1>2, <1>5 DEF Housekeeping, ApplyPost, Held, TypeOK
<1>6. ASSUME NEW h \in Handlers, Batch(h) PROVE Held(id)'
  BY <1>1, <1>6, BatchHeld
<1>7. CASE rows' = rows
  BY <1>7 DEF Held
<1>8. QED
  BY <1>3, <1>4, <1>5, <1>6, <1>7
     DEF Next, Operators, Database, Console, Network, Player, Working, TakeBackup, Select,
         LosePost, SyncFails, StartSync, Answered, Take, Remember, Report, Act,
         ReportFailure, Finish, Crash, Restart, vars

\* Only Act runs a command, the one in hand, and then it is not to be run any more.
LEMMA RunsGrow ==
  ASSUME TypeOK, [Next]_vars, NEW c \in Command
  PROVE  runs'[c] = runs[c] \/ (Act /\ c = cur /\ runs'[c] = runs[c] + 1)
<1> USE DEF serving, ledger, file, db
<1>1. CASE Act
  BY <1>1 DEF Act, TypeOK
<1>2. QED
  BY <1>1
     DEF Next, Operators, Database, Console, Network, Player, Working, Send, Cancel, Housekeeping, TakeBackup,
         Restore, Select, Batch, ApplyPost, LosePost, SyncFails, StartSync, Answered, Take, Remember, Report,
         ReportFailure, Finish, Crash, Restart, vars

LEMMA ActChange ==
  ASSUME TypeOK, Phases, ppc \in InHand => cur \notin todo, Act, NEW c \in Command, c = cur
  PROVE  Due(c) /\ ~Due(c)'
<1> USE DEF serving
<1>1. ppc = "act" /\ UNCHANGED <<todo, resp>>
  BY DEF Act, TypeOK
<1>2. c \notin todo /\ \A h \in Handlers : c \notin resp[h]
  BY <1>1, NamesAssumption DEF Phases, InHand
<1>3. ToAct(c) /\ ~ToAct(c)'
  BY <1>1 DEF Act, ToAct
<1>4. QED
  BY <1>1, <1>2, <1>3 DEF Due

\* A command becomes due by a batch whose answer the player waits for.
LEMMA DueChange ==
  ASSUME TypeOK, Phases, [Next]_vars, NEW c \in Command, Due(c)'
  PROVE  \/ Due(c)
         \/ \E h \in Handlers : /\ Batch(h)
                                /\ \E s \in snap[h] : Claimed(s) /\ s.cmd = c
<1> DEFINE Goal == \/ Due(c)
                   \/ \E h \in Handlers : Batch(h) /\ \E s \in snap[h] : Claimed(s) /\ s.cmd = c
<1> USE DEF serving, ledger, file, db
<1>1. ASSUME NEW h \in Handlers, Batch(h) PROVE Goal
  <2>1. UNCHANGED <<todo, ppc, cur>>
    BY <1>1 DEF Batch
  <2>2. ASSUME NEW g \in Handlers, c \in resp'[g] PROVE c \in resp[g] \/ \E s \in snap[h] : Claimed(s) /\ s.cmd = c
    BY <1>1, <2>2 DEF Batch, TypeOK
  <2>3. QED
    BY <1>1, <2>1, <2>2 DEF Due, ToAct
<1>2. ASSUME NEW h \in Handlers, Answered(h) PROVE Goal
  BY <1>2 DEF Answered, TypeOK, Due, ToAct
<1>3. ASSUME SyncFails \/ Crash PROVE Goal
  BY <1>3 DEF SyncFails, Crash, Abandon, Due, ToAct
<1>4. ASSUME NEW d \in Command, Take(d) PROVE Goal
  BY <1>4 DEF Take, FirstStep, Due, ToAct
<1>5. ASSUME Remember \/ Report \/ Act PROVE Goal
  BY <1>5 DEF Remember, Report, Act, Due, ToAct
<1>6. ASSUME ReportFailure \/ Finish \/ Restart \/ \E h \in Handlers : StartSync(h) PROVE Goal
  BY <1>6 DEF ReportFailure, Finish, Restart, StartSync, Due, ToAct
<1>7. ASSUME UNCHANGED <<resp, todo, ppc, cur>> PROVE Goal
  BY <1>7 DEF Due, ToAct
<1>8. ASSUME \/ Operators \/ Database \/ UNCHANGED vars
             \/ \E h \in Handlers : Select(h)
             \/ \E id \in Ids : ApplyPost(id) \/ LosePost(id)
      PROVE  UNCHANGED <<resp, todo, ppc, cur>>
  BY <1>8 DEF Operators, Database, Cancel, Send, TakeBackup, Restore, Housekeeping, Select, ApplyPost, LosePost, vars
<1>9. QED
  BY <1>1, <1>2, <1>3, <1>4, <1>5, <1>6, <1>7, <1>8 DEF Next, Console, Network, Player, Working

LEMMA SnapsBehind ==
  ASSUME TypeOK, Phases, WorkCurrent, RunsCounted, [Next]_vars, restores = 0, ~Restore,
         NEW h \in Handlers, NEW s \in snap'[h], Held(s.cmd.id)'
  PROVE  s.count <= rows'[s.cmd.id].count
<1>1. \A g \in Handlers : snap[g] \subseteq [cmd : Command, count : 0..MaxDeliveries]
  BY DEF TypeOK
<1>2. CASE s \in snap[h]
  <2>1. s.cmd \in Command /\ s.cmd.id \in Ids /\ s.count \in Nat
    BY <1>1, <1>2 DEF Command
  <2>2. Current(s.cmd)
    BY <1>2, <2>1 DEF WorkCurrent, InFlight
  <2>3. Held(s.cmd.id) => s.count <= rows[s.cmd.id].count
    BY <1>2 DEF RunsCounted
  <2>4. Held(s.cmd.id) => rows[s.cmd.id].count \in Nat
    BY <2>1, HeldRow, RowCounts
  <2>5. ASSUME NEW kind \in Kinds, Send(kind) PROVE rows'[s.cmd.id] = rows[s.cmd.id]
    BY <2>1, <2>2, <2>5, SendChange, CommandsAssumption DEF Current, Ids
  <2>6. QED
    BY <2>1, <2>3, <2>4, <2>5, TableChange DEF Held
<1>3. CASE s \notin snap[h]
  <2>1. \E g \in Handlers : Select(g)
    BY <1>3 DEF serving, ledger, file, db, Next, Operators, Database, Console, Network, Player, Working, Cancel, Send,
     TakeBackup, Restore, Housekeeping, Batch, ApplyPost, LosePost, SyncFails, StartSync, Answered, Take,
     Report, ReportFailure, Remember, Act, Finish, Crash, Restart, vars, TypeOK
  <2>2. PICK id \in Ids : Open(id) /\ s = [cmd |-> rows[id].cmd, count |-> rows[id].count]
    BY <1>3, <2>1 DEF Select, TypeOK
  <2>3. rows' = rows /\ rows[id].cmd.id = id /\ rows[id].count \in Nat
    BY <2>1, <2>2, HeldRow, RowCounts DEF Select, WorkCurrent, Filed, Open, Held, db
  <2>4. QED
    BY <2>2, <2>3
<1>4. QED
  BY <1>2, <1>3

LEMMA RunsCountedStep == TypeOK /\ Phases /\ WorkCurrent /\ RunsCounted /\ [Next]_vars => RunsCounted'
<1> SUFFICES ASSUME TypeOK, Phases, WorkCurrent, RunsCounted, [Next]_vars, restores' = 0 PROVE RunsCounted'
  BY DEF RunsCounted
<1>1. restores = 0 /\ ~Restore
  BY CommandsAssumption DEF TypeOK, serving, ledger, file, db, Next, Operators, Database, Console, Network, Player,
     Working, Cancel, Send, TakeBackup, Restore, Housekeeping, Select, Batch, ApplyPost, LosePost, SyncFails,
     StartSync, Answered, Take, Report, ReportFailure, Remember, Act, Finish, Crash, Restart, vars
<1>2. \A h \in Handlers : \A s \in snap'[h] : Held(s.cmd.id)' => s.count <= rows'[s.cmd.id].count
  BY <1>1, SnapsBehind
<1>3. ppc' \in InHand => cur' \notin todo'
  <2>1. ppc \in InHand => cur \notin todo
    BY <1>1 DEF RunsCounted
  <2>2. QED
    BY <2>1 DEF serving, ledger, file, db, Next, Operators, Database, Console, Network, Player,
     Working, Cancel, Send, TakeBackup, Restore, Housekeeping, Select, Batch, ApplyPost, LosePost, SyncFails,
     StartSync, Answered, Take, FirstStep, Report, ReportFailure, Remember, Act, Finish, Crash, Abandon, Restart, vars, InHand
<1>4. ASSUME NEW c \in Command, Due(c)' \/ runs'[c] > 0
      PROVE  /\ Held(c.id)' /\ rows'[c.id].cmd = c
             /\ runs'[c] + (IF Due(c)' THEN 1 ELSE 0) <= rows'[c.id].count
  <2> DEFINE due == IF Due(c) THEN 1 ELSE 0
             dueNext == IF Due(c)' THEN 1 ELSE 0
  <2>1. /\ runs[c] \in Nat /\ c.id \in Ids
        /\ Held(c.id) => rows[c.id].count \in Nat
        /\ Due(c) \/ runs[c] > 0 => Held(c.id) /\ rows[c.id].cmd = c /\ runs[c] + due <= rows[c.id].count
    BY <1>1, HeldRow, RowCounts DEF RunsCounted, TypeOK, Command
  <2>2. \/ runs'[c] = runs[c]
        \/ Due(c) /\ ~Due(c)' /\ runs'[c] = runs[c] + 1
    BY <1>1, RunsGrow, ActChange DEF RunsCounted
  <2>3. CASE Due(c) \/ ~Due(c)'
    <3>1. Due(c) \/ runs[c] > 0
      BY <1>4, <2>2, <2>3
    <3>2. Held(c.id) /\ rows[c.id].cmd = c /\ rows[c.id].count \in Nat /\ runs[c] + due <= rows[c.id].count
      BY <2>1, <3>1
    <3>3. runs'[c] + dueNext <= runs[c] + due /\ runs[c] + due > 0
      BY <2>1, <2>2, <2>3, <3>1
    <3>4. rows[c.id].count > 0
      BY <2>1, <3>2, <3>3
    <3>5. Held(c.id)'
      BY <1>1, <2>1, <3>2, <3>4, HandedRowStays
    <3>6. rows'[c.id].cmd = c /\ rows'[c.id].count \in Nat /\ rows'[c.id].count >= rows[c.id].count
      <4>1. ASSUME NEW kind \in Kinds, Send(kind) PROVE rows'[c.id] = rows[c.id]
        BY <2>1, <3>2, <4>1, SendChange, CommandsAssumption DEF WorkCurrent, Filed, Held, Ids
      <4>2. QED
        BY <1>1, <2>1, <3>2, <3>5, <4>1, TableChange
    <3> HIDE DEF due, dueNext
    <3>7. due \in Nat /\ dueNext \in Nat /\ runs'[c] \in Nat
      BY <2>1, <2>2 DEF due, dueNext
    <3>8. QED
      BY <2>1, <3>2, <3>3, <3>5, <3>6, <3>7 DEF dueNext
  <2>4. CASE ~Due(c) /\ Due(c)'
    <3>1. PICK h \in Handlers : Batch(h) /\ \E s \in snap[h] : Claimed(s) /\ s.cmd = c
      BY <2>4, DueChange
    <3>2. InFlight(c) /\ Held(c.id)
      BY <3>1 DEF InFlight, Claimed, Open
    <3>3. rows[c.id].cmd = c
      BY <3>2 DEF WorkCurrent, Current
    <3>4. Held(c.id)' /\ rows'[c.id] = HandedOut(rows[c.id])
      BY <2>1, <3>1, <3>2, BatchHeld
    <3>5. rows'[c.id].cmd = c /\ rows'[c.id].count = rows[c.id].count + 1
      BY <2>1, <3>2, <3>3, <3>4, HeldRow, SameCommand, RowCounts
    <3>6. runs[c] <= rows[c.id].count
      BY <2>1, <2>4, <3>2
    <3>7. runs'[c] = runs[c]
      BY <2>2, <2>4
    <3>8. QED
      BY <2>1, <2>4, <3>2, <3>4, <3>5, <3>6, <3>7
  <2>5. QED
    BY <2>3, <2>4
<1>5. QED
  BY <1>2, <1>3, <1>4 DEF RunsCounted

LEMMA InitWork == Init => Phases /\ WorkCurrent /\ RunsCounted
BY NamesAssumption DEF Init, Phases, WorkCurrent, Filed, InFlight, Held, RunsCounted, Due, ToAct, InHand

\* However many syncs overlap, whatever is lost, repeated or late and wherever the power
\* fails: a command runs no more often than its row counts, and no row counts more than
\* MaxDeliveries.
THEOREM RunsAreDelivered == Spec => []RunsWithinDeliveries
<1>1. TypeOK /\ WorkCurrent /\ RunsCounted => RunsWithinDeliveries
  <2>1. ASSUME TypeOK, WorkCurrent, RunsCounted, restores = 0, NEW id \in Ids, Held(id)
        PROVE  runs[rows[id].cmd] <= rows[id].count /\ rows[id].count <= MaxDeliveries
    <3>1. rows[id].cmd \in Command /\ rows[id].count \in 0..MaxDeliveries /\ rows[id] \in Row
      BY <2>1, HeldRow DEF Row
    <3>2. PICK c \in Command : c = rows[id].cmd
      BY <3>1
    <3>3. c.id = id
      BY <2>1, <3>2 DEF WorkCurrent, Filed, Held
    <3>4. runs[c] > 0 => runs[c] + (IF Due(c) THEN 1 ELSE 0) <= rows[id].count
      BY <2>1, <3>3 DEF RunsCounted
    <3>5. runs[c] \in Nat
      BY <2>1 DEF TypeOK
    <3>6. rows[id].count \in Nat /\ rows[id].count <= MaxDeliveries
      BY <3>1, CommandsAssumption
    <3>7. runs[c] <= rows[id].count
      BY <3>4, <3>5, <3>6
    <3>8. QED
      BY <3>2, <3>6, <3>7
  <2>2. QED
    BY <2>1 DEF RunsWithinDeliveries
<1>2. QED
  BY <1>1, TypeCorrect, NextTypeOK, InitWork, PhasesStep, WorkCurrentStep, RunsCountedStep, PTL DEF Spec

-----------------------------------------------------------------------------
(* Results and runs.                                                       *)

LEMMA KnownMentioned ==
  ASSUME NEW c \in Command, Known(c)
  PROVE  Mentions(c.issued, c.id)
BY DEF Known, InFlight, Mentions, MentionedBy

\* Only the INSERT of a new command makes a command known.
LEMMA KnownChange ==
  ASSUME TypeOK, [Next]_vars, NEW c \in Command, Known(c)'
  PROVE  Known(c) \/ \E kind \in Kinds : Send(kind) /\ rows'[nextId].cmd = c /\ c.issued = clock + 1
<1>1. CASE InFlight(c)'
  BY <1>1, WorkChange DEF Known, Held
<1>2. CASE \E id \in Ids : backup'.rows[id] # NoRow /\ backup'.rows[id].cmd = c
  BY <1>2, BackupChange DEF Known
<1>3. ASSUME NEW id \in Ids, rows'[id] # NoRow, rows'[id].cmd = c
      PROVE  Known(c) \/ \E kind \in Kinds : Send(kind) /\ rows'[nextId].cmd = c /\ c.issued = clock + 1
  <2>1. CASE Restore
    BY <1>3, <2>1 DEF Restore, Known
  <2>2. ASSUME NEW kind \in Kinds, Send(kind) PROVE Known(c) \/ (rows'[nextId].cmd = c /\ c.issued = clock + 1)
    BY <1>3, <2>2, SendChange DEF Known
  <2>3. CASE \A i \in Ids : Held(i)' => Held(i) /\ rows'[i].cmd = rows[i].cmd
    BY <1>3, <2>3 DEF Known, Held
  <2>4. QED
    BY <2>1, <2>2, <2>3, TableChange
<1>4. QED
  BY <1>1, <1>2, <1>3 DEF Known

\* A command that was known before an INSERT has an earlier stamp.
LEMMA KnownEarlier ==
  ASSUME TypeOK, StampsUnique, NEW c \in Command, Known(c)
  PROVE  c.issued \in Nat /\ c.issued <= clock /\ c.issued # clock + 1
<1>1. c.issued \in Stamps /\ c.id \in Ids
  BY DEF Command
<1>2. c.issued <= clock
  BY <1>1, KnownMentioned DEF StampsUnique
<1>3. QED
  BY <1>1, <1>2, CommandsAssumption DEF TypeOK, Stamps

LEMMA InsertsDifferStep == TypeOK /\ StampsUnique /\ InsertsDiffer /\ [Next]_vars => InsertsDiffer'
<1> SUFFICES ASSUME TypeOK, StampsUnique, InsertsDiffer, [Next]_vars,
                    NEW c \in Command, NEW d \in Command, Known(c)', Known(d)', c.issued = d.issued
             PROVE  c = d
  BY DEF InsertsDiffer
<1>1. CASE Known(c) /\ Known(d)
  BY <1>1 DEF InsertsDiffer
<1>2. CASE ~Known(c)
  BY <1>2, KnownChange, KnownEarlier
<1>3. CASE ~Known(d)
  BY <1>3, KnownChange, KnownEarlier
<1>4. QED
  BY <1>1, <1>2, <1>3

LEMMA RanStays ==
  ASSUME TypeOK, [Next]_vars, NEW c \in Command, Ran(c)
  PROVE  Ran(c)'
<1>1. runs[c] \in Nat
  BY DEF TypeOK
<1>2. QED
  BY <1>1, RunsGrow DEF Ran

\* A row comes to say "player" by a result POST only.
LEMMA ResultChange ==
  ASSUME TypeOK, [Next]_vars, ~Restore, NEW id \in Ids, Held(id)', rows'[id].result = "player"
  PROVE  /\ Held(id) /\ rows'[id].cmd = rows[id].cmd
         /\ rows[id].result = "player" \/ id \in posts
<1> USE DEF serving, ledger, file, db
<1>1. ASSUME NEW row \in Row
      PROVE  /\ ConsoleClose(row).result = "console" /\ HandedOut(row).result = row.result
  BY DEF ConsoleClose, HandedOut, Row
<1>2. ASSUME NEW kind \in Kinds, Send(kind) PROVE rows'[id] = rows[id]
  BY <1>2, SendChange
<1>3. ASSUME NEW i \in Ids, Housekeeping(i) PROVE rows'[id] = rows[id]
  BY <1>1, <1>3, HeldRow DEF Housekeeping, Recallable, Open, TypeOK
<1>4. ASSUME NEW i \in Ids, ApplyPost(i) PROVE rows'[id] = rows[id] \/ id \in posts
  BY <1>4 DEF ApplyPost, TypeOK
<1>5. CASE Cancel
  BY <1>5 DEF Cancel, Held
<1>6. ASSUME NEW h \in Handlers, Batch(h) PROVE Held(id) /\ rows[id].result = "player"
  <2>1. Held(id)
    BY <1>6 DEF Batch, Held
  <2>2. QED
    BY <1>1, <1>6, <2>1, BatchHeld, HeldRow
<1>7. Held(id) /\ rows'[id].cmd = rows[id].cmd
  BY <1>2, TableChange DEF Held
<1>8. QED
  BY <1>2, <1>3, <1>4, <1>5, <1>6, <1>7
     DEF Next, Operators, Database, Console, Network, Player, Working, TakeBackup, Select,
         LosePost, SyncFails, StartSync, Answered, Take, Remember, Report, Act,
         ReportFailure, Finish, Crash, Restart, vars, Cancel

\* What the ledger file said stays true: a command that was just inserted is not in it.
LEMMA OldLedgerRan ==
  ASSUME TypeOK, StampsUnique, [Next]_vars, NEW l, l \in {mem, disk}, RanWhatLedgerHas(l),
         NEW k \in DOMAIN l, NEW c \in Command, Known(c)', l[k] = [id |-> c.id, issued |-> c.issued]
  PROVE  Ran(c)'
<1>1. c.issued \in Stamps /\ c.id \in Ids
  BY DEF Command
<1>2. Mentions(c.issued, c.id)
  BY DEF Mentions, MentionedBy
<1>3. c.issued \in Nat /\ clock \in Nat /\ c.issued <= clock
  BY <1>1, <1>2, CommandsAssumption DEF StampsUnique, TypeOK, Stamps
<1>4. Known(c)
  BY <1>3, KnownChange
<1>5. QED
  BY <1>4, RanStays DEF RanWhatLedgerHas

LEMMA LedgerRanStep ==
  ASSUME TypeOK, StampsUnique, InsertsDiffer, SaidMeansRan, [Next]_vars
  PROVE  RanWhatLedgerHas(mem)' /\ RanWhatLedgerHas(disk)'
<1> USE DEF serving, ledger, file, db
<1>1. ASSUME NEW k \in DOMAIN mem', NEW c \in Command, Known(c)', mem'[k] = [id |-> c.id, issued |-> c.issued]
      PROVE  Ran(c)'
  <2>1. CASE mem' = mem \/ mem' = disk
    BY <1>1, <2>1, OldLedgerRan DEF SaidMeansRan
  <2>2. CASE mem' = <<>>
    BY <1>1, <2>2
  <2>3. CASE Remember
    <3>1. cur \in Command /\ mem \in Seq(Entry) /\ mem' = Remembered(cur) /\ InFlight(cur) /\ Ran(cur)
      BY <2>3 DEF Remember, TypeOK, InHand, InFlight, SaidMeansRan
    <3>2. CASE \E j \in DOMAIN mem : mem'[k] = mem[j]
      BY <1>1, <3>2, OldLedgerRan DEF SaidMeansRan
    <3>3. CASE mem'[k] = [id |-> cur.id, issued |-> cur.issued]
      <4>1. cur.issued = c.issued
        BY <1>1, <3>3
      <4>2. Known(c)
        BY <1>1, <2>3, KnownChange DEF Remember, Send
      <4>3. c = cur
        BY <3>1, <4>1, <4>2 DEF InsertsDiffer, Known
      <4>4. QED
        BY <3>1, <4>3, RanStays
    <3>4. QED
      BY <1>1, <3>1, <3>2, <3>3, RememberedMentions
  <2>4. QED
    BY <2>1, <2>2, <2>3
       DEF Next, Operators, Database, Console, Network, Player, Working, Send, Cancel, Housekeeping, TakeBackup,
           Restore, Select, Batch, ApplyPost, LosePost, SyncFails, StartSync, Answered, Take, Act, Report,
           ReportFailure, Finish, Crash, Restart, vars
<1>2. disk' = disk \/ disk' = mem'
  BY DEF Next, Operators, Database, Console, Network, Player, Working, Send, Cancel, Housekeeping, TakeBackup,
         Restore, Select, Batch, ApplyPost, LosePost, SyncFails, StartSync, Answered, Take, Remember, Act, Report,
         ReportFailure, Finish, Crash, Restart, vars
<1>3. ASSUME NEW k \in DOMAIN disk', NEW c \in Command, Known(c)', disk'[k] = [id |-> c.id, issued |-> c.issued]
      PROVE  Ran(c)'
  <2>1. CASE disk' = disk
    BY <1>3, <2>1, OldLedgerRan DEF SaidMeansRan
  <2>2. CASE disk' = mem'
    BY <1>1, <1>3, <2>2
  <2>3. QED
    BY <1>2, <2>1, <2>2
<1>4. QED
  BY <1>1, <1>3 DEF RanWhatLedgerHas

\* A report goes out of a command that the ledger has, or of the one in hand.
LEMMA PostMeansRan ==
  ASSUME TypeOK, SaidMeansRan, [Next]_vars, NEW id \in posts', id \notin posts
  PROVE  rows' = rows /\ \E c \in Command : InFlight(c) /\ id = c.id /\ Ran(c)
<1> USE DEF serving, ledger, file, db
<1>1. ASSUME NEW c \in Command, Take(c) PROVE rows' = rows /\ InFlight(c) /\ id = c.id /\ Ran(c)
  <2>1. WasExecuted(c) /\ id = c.id /\ InFlight(c) /\ rows' = rows
    BY <1>1 DEF Take, InFlight
  <2>2. QED
    BY <2>1 DEF WasExecuted, SaidMeansRan, RanWhatLedgerHas, Known
<1>2. CASE Report \/ ReportFailure
  <2>1. cur \in Command /\ InFlight(cur) /\ id = cur.id /\ rows' = rows
    BY <1>2 DEF Report, ReportFailure, TypeOK, InHand, InFlight
  <2>2. Ran(cur)
    BY <1>2 DEF Report, ReportFailure, SaidMeansRan, Ran, Ordinary
  <2>3. QED
    BY <2>1, <2>2
<1>3. QED
  BY <1>1, <1>2 DEF Next, Operators, Database, Console, Network, Player, Working, Cancel, Send,
     TakeBackup, Restore, Housekeeping, Select, Batch, ApplyPost, LosePost, SyncFails, StartSync, Answered,
     Remember, Act, Finish, Crash, Restart, vars

LEMMA SaidMeansRanStep ==
  TypeOK /\ StampsUnique /\ Phases /\ WorkCurrent /\ InsertsDiffer /\ SaidMeansRan /\ [Next]_vars
    => SaidMeansRan'
<1> SUFFICES ASSUME TypeOK, StampsUnique, Phases, WorkCurrent, InsertsDiffer, SaidMeansRan, [Next]_vars
             PROVE  SaidMeansRan'
  OBVIOUS
<1> USE DEF serving, ledger, file, db
<1>1. RanWhatLedgerHas(mem)' /\ RanWhatLedgerHas(disk)'
  BY LedgerRanStep
<1>2. ASSUME ppc' \in {"remember", "report", "failed"}
      PROVE  /\ ppc' \in {"remember", "report"} => Ran(cur)'
             /\ ppc' = "failed" => cur'.kind \in SelfKilling
  <2>1. CASE Remember
    BY <2>1, RanStays DEF Remember, SaidMeansRan, Ran
  <2>2. CASE Act
    <3>1. cur \in Command /\ runs[cur] \in Nat
      BY <2>2 DEF Act, TypeOK, InHand
    <3>2. QED
      BY <2>2, <3>1 DEF Act, Ran, Ordinary, TypeOK
  <2>3. ASSUME NEW c \in Command, Take(c)
        PROVE  ppc' = "remember" /\ cur' = c /\ c.kind \in SelfKilling
    BY <1>2, <2>3 DEF Take, FirstStep
  <2>4. CASE UNCHANGED <<ppc, cur, runs>>
    BY <1>2, <2>4 DEF SaidMeansRan, Ran
  <2>5. QED
    BY <1>2, <2>1, <2>2, <2>3, <2>4 DEF Ran, Ordinary, Next, Operators, Database, Console, Network, Player,
       Working, Cancel, Send, TakeBackup, Restore, Housekeeping, Select, Batch, ApplyPost, LosePost, SyncFails,
       StartSync, Answered, Report, ReportFailure, Finish, Crash, Restart, vars
<1>3. ASSUME NEW id \in Ids, Held(id), Ran(rows[id].cmd), rows'[id].cmd = rows[id].cmd
      PROVE  Ran(rows[id].cmd)'
  <2>1. rows[id].cmd \in Command
    BY <1>3, HeldRow DEF Row
  <2>2. QED
    BY <1>3, <2>1, RanStays DEF Ran
<1>4. ASSUME NEW id \in posts', Held(id)' PROVE Ran(rows[id].cmd)'
  <2>1. id \in Ids
    BY <1>4, NextTypeOK DEF TypeOK
  <2>2. CASE id \in posts
    <3>1. ~Restore
      BY <2>2, RestoreIdle
    <3>2. ASSUME NEW kind \in Kinds, Send(kind) PROVE rows'[id] = rows[id]
      <4>1. id < nextId /\ nextId \in Nat /\ id \in Nat
        BY <2>1, <2>2, CommandsAssumption DEF WorkCurrent, TypeOK, Ids
      <4>2. id # nextId
        BY <4>1, Earlier
      <4>3. QED
        BY <2>1, <3>2, <4>2, SendChange
    <3>3. Held(id) /\ rows'[id].cmd = rows[id].cmd
      BY <1>4, <2>1, <3>1, <3>2, TableChange DEF Held
    <3>4. QED
      BY <1>3, <2>1, <2>2, <3>3 DEF SaidMeansRan
  <2>3. CASE id \notin posts
    <3>1. PICK c \in Command : InFlight(c) /\ id = c.id /\ Ran(c)
      BY <1>4, <2>3, PostMeansRan
    <3>2. rows' = rows
      BY <1>4, <2>3, PostMeansRan
    <3>3. Held(id) /\ rows[id].cmd = c
      BY <1>4, <3>1, <3>2 DEF WorkCurrent, Current, Held
    <3>4. QED
      BY <1>3, <2>1, <3>1, <3>2, <3>3
  <2>4. QED
    BY <2>2, <2>3
<1>5. ASSUME NEW id \in Ids, NEW table, table \in {rows, backup.rows},
             table[id] # NoRow, table[id].result = "player"
      PROVE  Ordinary(table[id].cmd) => runs'[table[id].cmd] > 0
  <2>1. table[id].cmd \in Command
    BY <1>5 DEF TypeOK, Row
  <2>2. Ran(table[id].cmd)
    BY <1>5 DEF SaidMeansRan, RanWhatTableHas
  <2>3. QED
    BY <2>1, <2>2, RanStays DEF Ran
<1>6. RanWhatTableHas(rows)'
  <2>1. CASE Restore
    BY <1>5, <2>1 DEF Restore, RanWhatTableHas, Ran
  <2>2. ASSUME ~Restore, NEW id \in Ids, Held(id)', rows'[id].result = "player" PROVE Ran(rows[id].cmd)'
    <3>1. /\ Held(id) /\ rows'[id].cmd = rows[id].cmd
          /\ rows[id].result = "player" \/ id \in posts
      BY <2>2, ResultChange
    <3>2. Ran(rows[id].cmd)
      BY <3>1 DEF SaidMeansRan, RanWhatTableHas, Held
    <3>3. QED
      BY <1>3, <3>1, <3>2
  <2>3. QED
    BY <2>1, <2>2 DEF RanWhatTableHas, Held
<1>7. RanWhatTableHas(backup.rows)'
  BY <1>5, BackupChange DEF RanWhatTableHas, Ran
<1>8. QED
  BY <1>1, <1>2, <1>4, <1>6, <1>7 DEF SaidMeansRan, TypeOK

LEMMA InitSaid == Init => StampsUnique /\ InsertsDiffer /\ SaidMeansRan
<1>1. Init => InsertsDiffer /\ SaidMeansRan
  BY DEF Init, InsertsDiffer, Known, InFlight, SaidMeansRan, RanWhatLedgerHas, RanWhatTableHas, InHand
<1>2. QED
  BY <1>1, InitLedgerAhead DEF LedgerAhead

\* A row closed by the player's result of an ordinary command stands for a run, also when
\* the console's database went back and hands out ids again: the ledger, the results and
\* the rows never speak of a command that only shares the id.
THEOREM ResultMeansRun == Spec => []ReportMeansRun
<1>1. SaidMeansRan => ReportMeansRun
  BY DEF SaidMeansRan, RanWhatTableHas, Ran, Ordinary, ReportMeansRun, Held
<1>2. QED
  BY <1>1, TypeCorrect, NextTypeOK, StampsUniqueStep, InitWork, PhasesStep, WorkCurrentStep, InitSaid,
     InsertsDifferStep, SaidMeansRanStep, PTL DEF Spec

-----------------------------------------------------------------------------
(* Every command lives the life CommandPromise promises.                   *)

Lives == [id \in Ids |-> Life(id)]

LEMMA LifeTypes ==
  ASSUME TypeOK, NEW id \in Ids
  PROVE  Life(id) \in Promise!Life
<1>1. Stage(id) \in Promise!Stages
  BY DEF Stage, Promise!Stages
<1>2. (IF Held(id) THEN runs[rows[id].cmd] ELSE 0) \in Nat
  BY HeldRow DEF TypeOK, Row
<1>3. QED
  BY <1>1, <1>2 DEF Life, Promise!Life

LivesTyped == Lives \in [Ids -> Promise!Life]

LEMMA LivesTypes == TypeOK => LivesTyped
BY LifeTypes DEF Lives, LivesTyped

\* A command whose row, next id and runs stay lives on as before.
LEMMA LifeStays ==
  ASSUME NEW id \in Ids, rows'[id] = rows[id], Held(id) => runs'[rows[id].cmd] = runs[rows[id].cmd],
         (id >= nextId)' = (id >= nextId)
  PROVE  Life(id)' = Life(id)
BY DEF Life, Stage, Held, Open

LEMMA InitPromise == Init => Promise!Init
<1> SUFFICES ASSUME Init PROVE Promise!Init
  OBVIOUS
<1>1. ASSUME NEW id \in Ids PROVE Life(id) = [stage |-> "unissued", once |-> FALSE, ran |-> 0]
  <2>1. ~Held(id) /\ Stage(id) = "unissued"
    BY CommandsAssumption DEF Init, Stage, Held, Ids
  <2>2. (Held(id) /\ rows[id].cmd.kind \in SelfKilling) = FALSE
    BY <2>1
  <2>3. QED
    BY <2>1, <2>2, Zenon DEF Life
<1>2. QED
  BY <1>1 DEF Promise!Init, Init

\* The fields of a life, before and after a step.
LEMMA LifeFields ==
  ASSUME NEW id \in Ids
  PROVE  /\ Life(id).stage = Stage(id)
         /\ Life(id).once = (Held(id) /\ rows[id].cmd.kind \in SelfKilling)
         /\ Life(id).ran = IF Held(id) THEN runs[rows[id].cmd] ELSE 0
BY DEF Life

LEMMA LifeFieldsNext ==
  ASSUME NEW id \in Ids
  PROVE  /\ Life(id)'.stage = Stage(id)'
         /\ Life(id)'.once = (Held(id)' /\ rows'[id].cmd.kind \in SelfKilling)
         /\ Life(id)'.ran = IF Held(id)' THEN runs'[rows'[id].cmd] ELSE 0
BY DEF Life

\* A step that changes rows and their commands' runs for no id but leaves the id as it was.
LEMMA RowStays ==
  ASSUME NEW id \in Ids, rows'[id] = rows[id], UNCHANGED <<nextId, runs>>
  PROVE  Promise!Step(Life(id), Life(id)')
BY LifeStays DEF Promise!Step

\* A step that changes the row of an id but not its command, and runs nothing.
LEMMA RowMoves ==
  ASSUME NEW id \in Ids, Held(id), Held(id)', rows'[id].cmd = rows[id].cmd, UNCHANGED <<nextId, runs>>,
         \/ Stage(id)' = Stage(id)
         \/ Stage(id) = "waiting" /\ Stage(id)' \in {"handed", "dropped"}
         \/ Stage(id) = "handed" /\ Stage(id)' = "closed"
  PROVE  Promise!Step(Life(id), Life(id)')
<1>1. Life(id)'.once = Life(id).once /\ Life(id)'.ran = Life(id).ran
  BY LifeFields, LifeFieldsNext
<1>2. CASE Stage(id)' = Stage(id)
  BY <1>2 DEF Life, Promise!Step
<1>3. CASE Stage(id)' # Stage(id)
  BY <1>1, <1>3, LifeFields, LifeFieldsNext
     DEF Promise!Step, Promise!HandOut, Promise!Withdraw, Promise!Close, Promise!Moves
<1>4. QED
  BY <1>2, <1>3

LEMMA SendPromise ==
  ASSUME TypeOK, TypeOK', WorkCurrent, RunsCounted, restores = 0, NEW kind \in Kinds, Send(kind), NEW id \in Ids
  PROVE  Promise!Step(Life(id), Life(id)')
<1>1. /\ nextId \in Nat /\ nextId' = nextId + 1 /\ runs' = runs
      /\ id # nextId => rows'[id] = rows[id]
      /\ rows'[nextId].cmd.id = nextId /\ rows'[nextId].count = 0 /\ rows'[nextId].result = "none"
  BY SendChange, Zenon
<1>2. id \in Nat
  BY CommandsAssumption DEF Ids
<1>3. CASE id # nextId
  <2>1. (id >= nextId)' = (id >= nextId)
    BY <1>1, <1>2, <1>3
  <2>2. QED
    BY <1>1, <1>3, <2>1, LifeStays DEF Promise!Step
<1>4. CASE id = nextId
  <2>1. ~Held(id)
    BY <1>1, <1>4 DEF WorkCurrent, Filed, Held
  <2>2. rows'[id] \in Row
    <3>1. [cmd |-> [id |-> nextId, kind |-> kind, issued |-> clock + 1],
           count |-> 0, result |-> "none", undeliverable |-> FALSE] \in Row
      BY CommandsAssumption DEF Send, TypeOK, Row, Command, Ids, Stamps
    <3>2. QED
      BY <1>4, <3>1 DEF Send, TypeOK
  <2>3. Held(id)' /\ rows'[id].cmd \in Command /\ rows'[id].cmd.id = id
    BY <1>1, <1>4, <2>2, NamesAssumption DEF Held, Row
  <2>4. runs'[rows'[id].cmd] = 0
    <3>1. PICK c \in Command : c = rows'[id].cmd
      BY <2>3
    <3>2. c.id = id
      BY <2>3, <3>1
    <3>3. ~(runs[c] > 0)
      BY <2>1, <3>2 DEF RunsCounted
    <3>4. runs[c] \in Nat
      BY DEF TypeOK
    <3>5. QED
      BY <1>1, <3>1, <3>3, <3>4
  <2>5. Stage(id) = "unissued"
    BY <1>1, <1>4 DEF Stage
  <2>6. Stage(id)' = "waiting"
    BY <1>1, <1>4, <2>3 DEF Stage, Open
  <2>7. QED
    BY <2>1, <2>3, <2>4, <2>5, <2>6, LifeFields, LifeFieldsNext DEF Promise!Step, Promise!Issue, Promise!Moves
<1>5. QED
  BY <1>3, <1>4

LEMMA WithdrawPromise ==
  ASSUME TypeOK, WorkCurrent, RunsCounted, restores = 0, Cancel \/ \E i \in Ids : Housekeeping(i), NEW id \in Ids
  PROVE  Promise!Step(Life(id), Life(id)')
<1>1. UNCHANGED <<nextId, runs>>
  BY DEF Cancel, Housekeeping
<1>2. CASE rows'[id] = rows[id]
  BY <1>1, <1>2, RowStays
<1>3. CASE rows'[id] # rows[id]
  <2>1. Recallable(id) /\ rows'[id] \in {NoRow, ConsoleClose(rows[id])}
    BY <1>3 DEF Cancel, Housekeeping, TypeOK
  <2>2. Held(id) /\ rows[id] \in Row /\ rows[id].count = 0 /\ Open(id)
    BY <2>1, HeldRow DEF Recallable, Open
  <2>3. ~(id >= nextId) /\ ~(id >= nextId)'
    BY <1>1, <2>2, CommandsAssumption DEF WorkCurrent, Filed, Held, TypeOK, Ids
  <2>4. Stage(id) = "waiting"
    BY <2>2, <2>3 DEF Stage
  <2>5. runs[rows[id].cmd] = 0
    <3>1. PICK c \in Command : c = rows[id].cmd
      BY <2>2 DEF Row
    <3>2. c.id = id
      BY <2>2, <3>1 DEF WorkCurrent, Filed, Held
    <3>3. runs[c] \in Nat /\ (runs[c] > 0 => runs[c] + (IF Due(c) THEN 1 ELSE 0) <= 0)
      BY <2>2, <3>2 DEF RunsCounted, TypeOK
    <3>4. QED
      BY <3>1, <3>3
  <2>6. CASE rows'[id] = NoRow
    <3>1. ~Held(id)' /\ Stage(id)' = "cancelled"
      BY <2>3, <2>6 DEF Held, Stage
    <3>2. QED
      BY <2>2, <2>4, <2>5, <3>1, LifeFields, LifeFieldsNext DEF Promise!Step, Promise!Withdraw, Promise!Moves
  <2>7. CASE rows'[id] = ConsoleClose(rows[id])
    <3>1. rows'[id] \in Row /\ rows'[id].cmd = rows[id].cmd /\ rows'[id].count = 0 /\ rows'[id].result = "console"
      BY <2>2, <2>7, CloseTypes, SameCommand, RowCounts DEF ConsoleClose, Row
    <3>2. Held(id)' /\ Stage(id)' = "dropped"
      BY <2>3, <3>1, NamesAssumption DEF Held, Stage, Open
    <3>3. QED
      BY <1>1, <2>2, <2>4, <3>1, <3>2, RowMoves
  <2>8. QED
    BY <2>1, <2>6, <2>7
<1>4. QED
  BY <1>2, <1>3
---------------------------

LEMMA BatchPromise ==
  ASSUME TypeOK, WorkCurrent, RunsCounted, restores = 0, NEW h \in Handlers, Batch(h), NEW id \in Ids
  PROVE  Promise!Step(Life(id), Life(id)')
<1>1. UNCHANGED <<nextId, runs>>
  BY DEF Batch
<1>2. CASE rows'[id] = rows[id]
  BY <1>1, <1>2, RowStays
<1>3. CASE rows'[id] # rows[id]
  <2>1. Held(id)
    BY <1>3 DEF Batch, Held
  <2>2. rows[id] \in Row /\ Held(id)'
    BY <2>1, HeldRow, BatchHeld
  <2>3. ~(id >= nextId) /\ ~(id >= nextId)' /\ rows[id].count \in Nat
    BY <1>1, <2>1, <2>2, RowCounts, CommandsAssumption DEF WorkCurrent, Filed, Held, TypeOK, Ids
  <2>4. CASE Open(id) /\ rows'[id] = HandedOut(rows[id])
    <3>1. rows'[id].cmd = rows[id].cmd /\ rows'[id].count = rows[id].count + 1 /\ rows'[id].result = rows[id].result
      BY <2>2, <2>4, SameCommand, RowCounts DEF HandedOut, Row
    <3>2. rows'[id].count # 0 /\ Open(id)'
      BY <2>2, <2>3, <2>4, <3>1 DEF Open
    <3>3. Stage(id) \in {"waiting", "handed"} /\ Stage(id)' = "handed"
      BY <2>1, <2>2, <2>3, <2>4, <3>2 DEF Stage
    <3>4. QED
      BY <1>1, <2>1, <2>2, <3>1, <3>3, RowMoves
  <2>5. ASSUME Open(id), rows'[id] = ConsoleClose(rows[id]), NEW s \in snap[h], Spent(s), s.cmd.id = id
        PROVE  Promise!Step(Life(id), Life(id)')
    <3>1. s.count <= rows[id].count
      BY <2>1, <2>5 DEF RunsCounted
    <3>2. s.count \in Nat /\ s.count >= MaxDeliveries
      BY <2>5 DEF TypeOK, Spent
    <3>3. rows[id].count # 0
      BY <2>3, <3>1, <3>2, CommandsAssumption
    <3>4. rows'[id].cmd = rows[id].cmd /\ rows'[id].count = rows[id].count /\ rows'[id].result = "console"
      BY <2>2, <2>5, SameCommand, RowCounts DEF ConsoleClose, Row
    <3>5. Stage(id) = "handed"
      BY <2>1, <2>3, <2>5, <3>3 DEF Stage
    <3>6. Stage(id)' = "closed"
      BY <2>2, <2>3, <3>3, <3>4 DEF Stage, Open
    <3>7. QED
      BY <1>1, <2>1, <2>2, <3>4, <3>5, <3>6, RowMoves
  <2>6. \/ Open(id) /\ rows'[id] = HandedOut(rows[id])
        \/ Open(id) /\ rows'[id] = ConsoleClose(rows[id]) /\ \E s \in snap[h] : Spent(s) /\ s.cmd.id = id
    BY <1>3, <2>1, BatchHeld DEF Claimed
  <2>7. QED
    BY <2>4, <2>5, <2>6
<1>4. QED
  BY <1>2, <1>3

LEMMA PostPromise ==
  ASSUME TypeOK, WorkCurrent, NEW i \in Ids, ApplyPost(i), NEW id \in Ids
  PROVE  Promise!Step(Life(id), Life(id)')
<1>1. UNCHANGED <<nextId, runs>>
  BY DEF ApplyPost
<1>2. CASE id # i
  BY <1>1, <1>2, RowStays DEF ApplyPost, TypeOK
<1>3. CASE id = i
  <2>1. Held(id) /\ rows[id] \in Row /\ rows'[id] = PlayerClose(rows[id])
    BY <1>3, HeldRow DEF ApplyPost, TypeOK
  <2>2. /\ rows'[id] \in Row /\ rows'[id].cmd = rows[id].cmd /\ rows'[id].count = rows[id].count
        /\ rows'[id].result = "player"
    BY <2>1, CloseTypes, SameCommand, RowCounts DEF PlayerClose, Row
  <2>3. Held(id)' /\ ~Open(id)'
    BY <2>2, NamesAssumption DEF Held, Open
  <2>4. ~(id >= nextId) /\ ~(id >= nextId)'
    BY <1>1, <2>1, CommandsAssumption DEF WorkCurrent, Filed, Held, TypeOK, Ids
  <2>5. \/ Stage(id)' = Stage(id)
        \/ Stage(id) = "waiting" /\ Stage(id)' = "dropped"
        \/ Stage(id) = "handed" /\ Stage(id)' = "closed"
    BY <2>1, <2>2, <2>3, <2>4 DEF Stage
  <2>6. QED
    BY <1>1, <2>1, <2>2, <2>3, <2>5, RowMoves
<1>4. QED
  BY <1>2, <1>3

LEMMA ActPromise ==
  ASSUME TypeOK, Phases, WorkCurrent, RunsCounted, RunsRecorded, restores = 0, Act, NEW id \in Ids
  PROVE  Promise!Step(Life(id), Life(id)')
<1>1. /\ cur \in Command /\ ppc = "act" /\ UNCHANGED <<rows, nextId, diskFailures>>
      /\ runs' = [runs EXCEPT ![cur] = @ + 1]
  BY DEF Act, TypeOK, InHand, db, ledger, file
<1>2. PICK c \in Command : c = cur
  BY <1>1
<1>3. /\ runs[c] \in Nat /\ diskFailures \in Nat /\ runs'[c] = runs[c] + 1
      /\ \A d \in Command : d # c => runs'[d] = runs[d]
  BY <1>1, <1>2, CommandsAssumption DEF TypeOK
<1>4. Due(c) /\ Pending(c)
  BY <1>1, <1>2, ActChange DEF RunsCounted, Pending
<1>5. Held(c.id) /\ rows[c.id].cmd = c /\ runs[c] + 1 <= rows[c.id].count
  BY <1>4 DEF RunsCounted
<1>6. CASE id # c.id
  <2>1. Held(id) => rows[id].cmd # c /\ rows[id].cmd \in Command
    BY <1>5, <1>6, HeldRow DEF WorkCurrent, Filed, Held, Row
  <2>2. QED
    BY <1>1, <1>3, <2>1, LifeStays DEF Promise!Step
<1>7. CASE id = c.id
  <2>1. Held(id) /\ rows[id].cmd = c /\ rows[id].count \in Nat /\ rows[id].count # 0
    BY <1>3, <1>5, <1>7, HeldRow, RowCounts
  <2>2. ~(id >= nextId)
    <3>1. id < nextId
      BY <2>1 DEF WorkCurrent, Filed, Held
    <3>2. id \in Int /\ nextId \in Int
      BY CommandsAssumption DEF TypeOK, Ids
    <3>3. QED
      BY <3>1, <3>2
  <2>3. Stage(id) \in {"handed", "closed"}
    BY <2>1, <2>2 DEF Stage
  <2>4. c.kind \in SelfKilling => runs[c] <= diskFailures
    <3>1. ASSUME c.kind \in SelfKilling
          PROVE  runs[c] + 1 <= diskFailures + (IF Recorded(c) THEN 1 ELSE 0)
      BY <1>4, <3>1 DEF RunsRecorded
    <3>2. QED
      BY <1>3, <3>1
  <2>5. Life(id)' = [Life(id) EXCEPT !.ran = @ + 1]
    <3>1. Stage(id)' = Stage(id) /\ Held(id)' = Held(id) /\ rows'[id] = rows[id]
      BY <1>1 DEF Stage, Held, Open
    <3>2. runs'[rows'[id].cmd] = runs[rows[id].cmd] + 1
      BY <1>3, <2>1, <3>1
    <3>3. QED
      BY <2>1, <3>1, <3>2 DEF Life
  <2>6. QED
    BY <2>1, <2>3, <2>4, <2>5, LifeFields DEF Promise!Step, Promise!Run
<1>8. QED
  BY <1>6, <1>7

PromiseInv == TypeOK /\ Phases /\ WorkCurrent /\ RunsCounted /\ LedgerAhead

LEMMA StepPromise ==
  ASSUME MaxRestores = 0, PromiseInv, TypeOK', [Next]_vars
  PROVE  [Promise!Next]_<<Lives, diskFailures>>
<1> USE DEF serving, ledger, file, db
<1>1. restores = 0 /\ ~Restore
  BY CommandsAssumption DEF PromiseInv, TypeOK, Restore
<1>2. ASSUME NEW id \in Ids PROVE Promise!Step(Life(id), Life(id)')
  <2>1. ASSUME UNCHANGED <<rows, nextId, runs>> PROVE Promise!Step(Life(id), Life(id)')
    BY <2>1, RowStays
  <2>2. CASE Act
    BY <1>1, <2>2, ActPromise DEF PromiseInv, LedgerAhead
  <2>3. CASE \E kind \in Kinds : Send(kind)
    BY <1>1, <2>3, SendPromise DEF PromiseInv
  <2>4. CASE Cancel \/ \E i \in Ids : Housekeeping(i)
    BY <1>1, <2>4, WithdrawPromise DEF PromiseInv
  <2>5. CASE \E h \in Handlers : Batch(h)
    BY <1>1, <2>5, BatchPromise DEF PromiseInv
  <2>6. CASE \E i \in Ids : ApplyPost(i)
    BY <2>6, PostPromise DEF PromiseInv
  <2>7. QED
    BY <1>1, <2>1, <2>2, <2>3, <2>4, <2>5, <2>6
       DEF Next, Operators, Database, Console, Network, Player, Working, TakeBackup, Select,
           LosePost, SyncFails, StartSync, Answered, Take, Remember, Report,
           ReportFailure, Finish, Crash, Restart, vars
<1>3. diskFailures' \in {diskFailures, diskFailures + 1}
  BY DEF Next, Operators, Database, Console, Network, Player, Working, TakeBackup, Select, Send, Cancel, Act,
         Housekeeping, Batch, ApplyPost, Restore,
         LosePost, SyncFails, StartSync, Answered, Take, Remember, Report,
         ReportFailure, Finish, Crash, Restart, vars
<1>4. Lives' \in [Ids -> Promise!Life]
  <2>1. LivesTyped'
    BY LivesTypes, PTL
  <2>2. QED
    BY <2>1 DEF LivesTyped
<1>5. QED
  BY <1>2, <1>3, <1>4 DEF Promise!Next, Lives
---------------------------

\* While its database is not restored and the ledger holds every command, the console and
\* the player keep the promise of CommandPromise for every command: run only once handed
\* out, never after a cancel or a give-up, a self-killing one never again once its ledger
\* entry is written, and closed for good.
THEOREM PromiseIsKept ==
  ASSUME MaxRestores = 0, MaxIssued <= LedgerMax
  PROVE  Spec => ImplementsPromise
<1>1. Init => PromiseInv
  BY InitTypeOK, InitWork, InitLedgerAhead DEF PromiseInv
<1>2. PromiseInv /\ [Next]_vars => PromiseInv' /\ TypeOK'
  BY NextTypeOK, PhasesStep, WorkCurrentStep, RunsCountedStep, LedgerAheadStep DEF PromiseInv
<1>3. PromiseInv /\ TypeOK' /\ [Next]_vars => [Promise!Next]_<<Lives, diskFailures>>
  BY StepPromise
<1>4. Spec => Promise!Init /\ [][Promise!Next]_<<Lives, diskFailures>>
  BY <1>1, <1>2, <1>3, InitPromise, PTL DEF Spec
<1>5. QED
  BY <1>4, PTL DEF ImplementsPromise, Promise!Spec, Lives
=============================================================================
