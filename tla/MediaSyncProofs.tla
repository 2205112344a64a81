--------------------------- MODULE MediaSyncProofs ---------------------------
(***************************************************************************)
(* Machine-checked facts about MediaSync for any files, playlists, file    *)
(* size and number of attempts, edits and mishaps.                         *)
(***************************************************************************)
EXTENDS MediaSync, TLAPS

Part == [len : 0..Size, good : BOOLEAN, there : BOOLEAN]

\* The item in hand is a file of the playlist.
LEMMA ItemInFiles ==
  ASSUME TypeOK, i \in DOMAIN list
  PROVE  Item \in Files
<1>1. list \in Seq(Files)
  BY MediaSyncAssumption DEF TypeOK
<1>2. QED
  BY <1>1 DEF Item

LEMMA ItemInHand ==
  ASSUME TypeOK, TransferExact, pc \in AtItem
  PROVE  /\ Item \in Files /\ i \in 1..Len(list) /\ Len(list) \in Nat
         /\ part[Item] \in Part
<1>1. i \in DOMAIN list
  BY DEF TransferExact
<1>2. list \in Seq(Files)
  BY <1>1, MediaSyncAssumption DEF TypeOK
<1>3. Item \in Files /\ i \in 1..Len(list) /\ Len(list) \in Nat
  BY <1>1, <1>2 DEF Item
<1>4. part[Item] \in Part
  BY <1>3 DEF TypeOK, Part
<1>5. QED
  BY <1>3, <1>4

\* No object is longer than Size.
LEMMA ServedBound ==
  ASSUME NEW f \in Files
  PROVE  Served(f) \in 0..Size
BY MediaSyncAssumption DEF Served

\* What a chunk does to a .part and to what the hasher has seen.
LEMMA ExtendedPart ==
  ASSUME pos \in 0..Size, pos < Size, NEW x \in Part, x.len = pos
  PROVE  /\ Extended(x) \in Part /\ Extended(x).len = pos + 1
         /\ Extended(x).good = (x.good /\ object[Item] \in {"good", "short"})
<1>1. x.len + 1 \in 0..Size
  BY MediaSyncAssumption
<1>2. QED
  BY <1>1 DEF Extended, Part

LEMMA ExtendedBytes ==
  ASSUME pos \in 0..Size, pos < Size, NEW x \in Bytes, x.len = pos
  PROVE  /\ Extended(x) \in Bytes /\ Extended(x).len = pos + 1
         /\ Extended(x).good = (x.good /\ object[Item] \in {"good", "short"})
<1>1. x.len + 1 \in 0..Size
  BY MediaSyncAssumption
<1>2. QED
  BY <1>1 DEF Extended, Bytes

-----------------------------------------------------------------------------
LEMMA InitInv == Init => TypeOK /\ TransferExact /\ NamedFilesWhole
<1> SUFFICES ASSUME Init PROVE TypeOK /\ TransferExact /\ NamedFilesWhole
  OBVIOUS
<1>1. Size \in Nat /\ Attempts \in Nat
  BY MediaSyncAssumption
<1>2. /\ assigned \in Playlists /\ cached \in Playlists \cup {Nothing}
      /\ list = <<>> /\ i \in 0..(Len(list) + 1)
  BY DEF Init
<1>3. /\ object \in [Files -> {"good", "bad", "short", "gone"}]
      /\ media \in [Files -> {"absent", "good", "bad"}]
      /\ part \in [Files -> [len : 0..Size, good : BOOLEAN, there : BOOLEAN]]
      /\ vouched \in [Files -> BOOLEAN] /\ mem \in [Files -> BOOLEAN]
  BY <1>1 DEF Init, NoPart, None
<1>4. attempt \in 0..Attempts /\ hashed \in Bytes /\ pos \in 0..Size
  BY <1>1 DEF Init, Bytes
<1>5. TypeOK
  BY <1>2, <1>3, <1>4 DEF Init, TypeOK
<1>6. TransferExact /\ NamedFilesWhole
  BY DEF Init, TransferExact, NamedFilesWhole, AtItem
<1>7. QED
  BY <1>5, <1>6
(* TypeOK in parts, and what the shared pieces of the actions do to them.   *)

Places == {"down", "idle", "ensure", "part", "connect", "receive", "prune", "index", "manifest"}
WorldOK ==
  /\ assigned \in Playlists /\ object \in [Files -> {"good", "bad", "short", "gone"}]
  /\ due \in BOOLEAN /\ complete \in BOOLEAN
DiskOK ==
  /\ media \in [Files -> {"absent", "good", "bad"}] /\ part \in [Files -> Part]
  /\ vouched \in [Files -> BOOLEAN] /\ cached \in Playlists \cup {Nothing}
SyncOK ==
  /\ list \in IF pc \in {"down", "idle"} THEN {<<>>} ELSE Playlists
  /\ i \in 0..(Len(list) + 1)
  /\ mem \in [Files -> BOOLEAN] /\ verify \in BOOLEAN
TransferOK ==
  /\ attempt \in 0..Attempts /\ hashed \in Bytes /\ pos \in 0..Size /\ moved \in BOOLEAN

LEMMA TypeParts == TypeOK <=> WorldOK /\ DiskOK /\ SyncOK /\ TransferOK /\ pc \in Places
BY DEF TypeOK, WorldOK, DiskOK, SyncOK, TransferOK, Places, Part

LEMMA NothingHashed == 0 \in 0..Size /\ [len |-> 0, good |-> TRUE] \in Bytes
BY MediaSyncAssumption DEF Bytes

LEMMA ResetTypes == ResetTransfer => TransferOK'
<1> SUFFICES ASSUME ResetTransfer PROVE TransferOK'
  OBVIOUS
<1>1. 0 \in 0..Attempts
  BY MediaSyncAssumption
<1>2. attempt' \in 0..Attempts /\ hashed' \in Bytes /\ pos' \in 0..Size
  BY <1>1, NothingHashed DEF ResetTransfer
<1>3. moved' \in BOOLEAN
  BY DEF ResetTransfer
<1>4. QED
  BY <1>2, <1>3 DEF TransferOK

LEMMA IdleTypes ==
  ASSUME NEW to \in {"down", "idle"}, Idle(to)
  PROVE  SyncOK' /\ TransferOK' /\ pc' \in {"down", "idle"}
<1>1. None \in [Files -> BOOLEAN] /\ Len(<<>>) = 0
  BY DEF None
<1>2. list' = <<>> /\ i' \in 0..(Len(list') + 1)
  BY <1>1 DEF Idle
<1>3. mem' \in [Files -> BOOLEAN] /\ verify' \in BOOLEAN
  BY <1>1 DEF Idle
<1>4. QED
  BY <1>2, <1>3, ResetTypes DEF Idle, SyncOK

\* The index goes past the last item at most.
LEMMA NextItemTypes ==
  ASSUME TypeOK, NextItem, mem' \in [Files -> BOOLEAN], i \in 1..Len(list)
  PROVE  SyncOK' /\ TransferOK' /\ pc' \in Places
<1>1. Len(list) \in Nat /\ list \in Playlists
  BY MediaSyncAssumption DEF TypeOK
<1>2. SyncOK'
  BY <1>1 DEF NextItem, SyncOK, TypeOK
<1>3. QED
  BY <1>2, ResetTypes DEF NextItem, Places

LEMMA AgainTypes ==
  ASSUME TypeOK, Again, UNCHANGED mem, i \in 1..Len(list)
  PROVE  SyncOK' /\ TransferOK' /\ pc' \in Places
<1>1. CASE NextItem
  BY <1>1, NextItemTypes DEF TypeOK
<1>2. CASE attempt < Attempts /\ ~NextItem
  <2>1. attempt' \in 0..Attempts
    BY <1>2, MediaSyncAssumption DEF Again, TypeOK
  <2>2. UNCHANGED <<list, i, mem, verify, hashed, pos>> /\ moved' = FALSE /\ pc' = "connect"
    BY <1>2 DEF Again
  <2>3. list \in Playlists
    BY MediaSyncAssumption DEF TypeOK
  <2>4. QED
    BY <2>1, <2>2, <2>3 DEF TypeOK, SyncOK, TransferOK, Places
<1>3. QED
  BY <1>1, <1>2 DEF Again

LEMMA PartTypes ==
  /\ NoPart \in Part
  /\ \A f \in Files : Emptied(f) \in Part
BY MediaSyncAssumption DEF NoPart, Emptied, Part

LEMMA ReplacedTypes ==
  ASSUME TypeOK, NEW f \in Files, Replaced(f), UNCHANGED cached
  PROVE  DiskOK' /\ mem' \in [Files -> BOOLEAN]
BY TypeParts, PartTypes DEF Replaced, DiskOK, SyncOK

LEMMA UnlinkedTypes ==
  ASSUME TypeOK, NEW f \in Files, Unlinked(f), UNCHANGED <<media, vouched, cached>>
  PROVE  DiskOK'
BY TypeParts, PartTypes DEF Unlinked, DiskOK

-----------------------------------------------------------------------------
LEMMA TypeStep == TypeOK /\ TransferExact /\ [Next]_vars => TypeOK'
<1> SUFFICES ASSUME TypeOK, TransferExact, [Next]_vars PROVE TypeOK'
  OBVIOUS
<1> DEFINE Parts == WorldOK' /\ DiskOK' /\ SyncOK' /\ TransferOK' /\ pc' \in Places
<1> USE DEF World, disk, transfer, sync, daemon
<1>0. WorldOK /\ DiskOK /\ SyncOK /\ TransferOK /\ pc \in Places
  BY TypeParts
<1>1. ASSUME Reassign \/ VerifyDue \/ \E f \in Files : ObjectFails(f) \/ ObjectRepaired(f)
      PROVE  Parts
  <2>1. WorldOK'
    BY <1>0, <1>1 DEF Reassign, VerifyDue, ObjectFails, ObjectRepaired, WorldOK
  <2>2. UNCHANGED <<disk, pc, sync, transfer>>
    BY <1>1 DEF Reassign, VerifyDue, ObjectFails, ObjectRepaired
  <2>3. QED
    BY <1>0, <2>1, <2>2 DEF DiskOK, SyncOK, TransferOK
<1>1a. ASSUME Restart PROVE Parts
  BY <1>0, <1>1a DEF Restart, WorldOK, DiskOK, SyncOK, TransferOK, Places
<1>2. ASSUME NEW f \in Files, Rots(f) PROVE Parts
  BY <1>0, <1>2 DEF Rots, WorldOK, DiskOK, SyncOK, TransferOK
<1>3. ASSUME Crash PROVE Parts
  BY <1>0, <1>3, IdleTypes DEF Crash, WorldOK, DiskOK, Places
<1>4. ASSUME PowerCut PROVE Parts
  <2>1. SyncOK' /\ TransferOK' /\ pc' \in Places
    BY <1>4, IdleTypes DEF PowerCut, Places
  <2>2. WorldOK'
    BY <1>0, <1>4 DEF PowerCut, WorldOK
  <2>3. DiskOK'
    BY <1>0, <1>4 DEF PowerCut, DiskOK, None, Part
  <2>4. QED
    BY <2>1, <2>2, <2>3
<1>5. ASSUME Fetch PROVE Parts
  <2>1. Len(list') \in Nat /\ list' \in Playlists
    BY <1>0, <1>5, MediaSyncAssumption DEF Fetch, WorldOK
  <2>2. QED
    BY <1>0, <1>5, <2>1 DEF Fetch, WorldOK, DiskOK, SyncOK, TransferOK, Places
<1>6. ASSUME Ensure PROVE Parts
  <2>1. i \in 1..Len(list) /\ Len(list) \in Nat /\ Item \in Files
    <3>1. i \in DOMAIN list /\ Len(list) \in Nat /\ DOMAIN list = 1..Len(list)
      BY <1>0, <1>6, MediaSyncAssumption DEF Ensure, TransferExact, SyncOK
    <3>2. QED
      BY <3>1, ItemInFiles
  <2>2. WorldOK' /\ DiskOK' /\ mem' \in [Files -> BOOLEAN]
    BY <1>0, <1>6, <2>1 DEF Ensure, WorldOK, DiskOK, SyncOK
  <2>3. CASE NextItem
    BY <2>1, <2>2, <2>3, NextItemTypes
  <2>4. CASE ~NextItem
    BY <1>0, <1>6, <2>2, <2>4 DEF Ensure, SyncOK, TransferOK, Places
  <2>5. QED
    BY <2>2, <2>3, <2>4
<1>7. ASSUME EnsureDone \/ SaveIndex PROVE Parts
  BY <1>0, <1>7 DEF EnsureDone, SaveIndex, WorldOK, DiskOK, SyncOK, TransferOK, Places
<1>8. ASSUME NEW f \in Files, Prune(f) PROVE Parts
  BY <1>0, <1>8, PartTypes DEF Prune, Unlinked, WorldOK, DiskOK, SyncOK, TransferOK
<1>9. ASSUME PruneDone PROVE Parts
  BY <1>0, <1>9 DEF PruneDone, WorldOK, DiskOK, SyncOK, TransferOK, Places
<1>10. ASSUME SaveManifest PROVE Parts
  <2>1. SyncOK' /\ TransferOK' /\ pc' \in Places
    BY <1>10, IdleTypes DEF SaveManifest, Places
  <2>2. QED
    BY <1>0, <1>10, <2>1 DEF SaveManifest, WorldOK, DiskOK, SyncOK
<1>11. ASSUME FinishPart \/ Transfer PROVE Parts
  <2>1. Item \in Files /\ i \in 1..Len(list) /\ Len(list) \in Nat /\ part[Item] \in Part
    BY <1>11, ItemInHand DEF FinishPart, Transfer, Resume, CannotResume, StartOver, HttpError,
       NoConnection, Chunk, Drop, NoSpace, Settle, AtItem
  <2>2. WorldOK'
    BY <1>0, <1>11 DEF FinishPart, Transfer, Resume, CannotResume, StartOver, HttpError,
       NoConnection, Chunk, Drop, NoSpace, Settle, WorldOK
  <2>3. ASSUME FinishPart PROVE Parts
    <3>1. CASE Replaced(Item) /\ NextItem
      BY <2>1, <2>2, <2>3, <3>1, ReplacedTypes, NextItemTypes DEF FinishPart
    <3>2. CASE pc' = "connect"
      <4>1. attempt' = 1 /\ 1 \in 0..Attempts
        BY <2>3, <3>2, MediaSyncAssumption DEF FinishPart, NextItem
      <4>2. DiskOK'
        BY <1>0, <2>1, <2>3, <3>2, UnlinkedTypes DEF FinishPart, NextItem, DiskOK
      <4>3. SyncOK' /\ TransferOK'
        BY <1>0, <2>3, <3>2, <4>1 DEF FinishPart, NextItem, SyncOK, TransferOK
      <4>4. QED
        BY <2>2, <3>2, <4>2, <4>3 DEF Places
    <3>3. QED
      BY <2>3, <3>1, <3>2 DEF FinishPart
  <2>4. ASSUME Resume PROVE Parts
    <3>1. hashed' \in Bytes
      BY <1>0, <2>1, <2>4 DEF Resume, HashedSoFar, TransferOK, Part, Bytes
    <3>2. pos' \in 0..Size
      BY <2>1, <2>4 DEF Resume, Receive, Part
    <3>3. QED
      BY <1>0, <2>2, <2>4, <3>1, <3>2 DEF Resume, Receive, DiskOK, SyncOK, TransferOK, Places
  <2>5. ASSUME CannotResume PROVE Parts
    BY <2>1, <2>2, <2>5, UnlinkedTypes, AgainTypes DEF CannotResume
  <2>6. ASSUME StartOver PROVE Parts
    <3>1. hashed' \in Bytes /\ pos' \in 0..Size /\ moved' = FALSE /\ attempt' = attempt
      BY <2>6, NothingHashed DEF StartOver, Receive
    <3>2. DiskOK'
      BY <1>0, <2>1, <2>6, PartTypes DEF StartOver, DiskOK
    <3>3. QED
      <4>1. pc = "connect" /\ pc' = "receive" /\ UNCHANGED sync
        BY <2>6 DEF StartOver, Receive
      <4>2. SyncOK'
        BY <1>0, <4>1 DEF SyncOK
      <4>3. QED
        BY <2>2, <3>1, <3>2, <4>1, <4>2, <1>0 DEF TransferOK, Places
  <2>7. ASSUME HttpError \/ NoSpace PROVE Parts
    BY <1>0, <2>1, <2>2, <2>7, NextItemTypes DEF HttpError, NoSpace, DiskOK, SyncOK
  <2>8. ASSUME NoConnection \/ Drop PROVE Parts
    BY <1>0, <2>1, <2>2, <2>8, AgainTypes DEF NoConnection, Drop, DiskOK
  <2>9. ASSUME Chunk PROVE Parts
    <3>1. pos \in 0..Size /\ pos < Size /\ pos + 1 \in 0..Size
      BY <1>0, <2>1, <2>9, ServedBound, MediaSyncAssumption DEF Chunk, TransferOK
    <3>2. Extended(part[Item]) \in Part /\ Extended(hashed) \in Bytes
      BY <1>0, <2>1, <2>9, <3>1, ExtendedPart, ExtendedBytes DEF Chunk, TransferExact, TransferOK
    <3>3. DiskOK'
      BY <1>0, <2>1, <2>9, <3>2 DEF Chunk, DiskOK
    <3>4. TransferOK'
      BY <1>0, <2>9, <3>1, <3>2 DEF Chunk, TransferOK
    <3>5. QED
      BY <1>0, <2>2, <2>9, <3>3, <3>4 DEF Chunk, SyncOK
  <2>10. ASSUME Settle PROVE Parts
    <3>1. DiskOK' /\ mem' \in [Files -> BOOLEAN]
      BY <1>0, <2>1, <2>10, ReplacedTypes, UnlinkedTypes DEF Settle, SyncOK
    <3>2. QED
      BY <2>1, <2>2, <2>10, <3>1, NextItemTypes DEF Settle
  <2>11. QED
    BY <1>11, <2>3, <2>4, <2>5, <2>6, <2>7, <2>8, <2>9, <2>10 DEF Transfer
<1>12. ASSUME UNCHANGED vars PROVE Parts
  BY <1>0, <1>12 DEF vars, WorldOK, DiskOK, SyncOK, TransferOK
<1>13. Parts => TypeOK'
  BY DEF TypeOK, WorldOK, DiskOK, SyncOK, TransferOK, Places, Part
<1>14. QED
  BY <1>1, <1>1a, <1>2, <1>3, <1>4, <1>5, <1>6, <1>7, <1>8, <1>9, <1>10, <1>11, <1>12, <1>13
     DEF Next, SyncOnce, Environment, Save
-----------------------------------------------------------------------------
(* The hasher covers what the .part holds.                                 *)

\* Where no transfer is under way.
LEMMA ExactWhenReset ==
  ASSUME hashed' = [len |-> 0, good |-> TRUE], pc' \notin AtItem, pc' = "ensure" => i' > 0
  PROVE  TransferExact'
BY DEF TransferExact, AtItem

LEMMA ExactAfterItem ==
  ASSUME TypeOK, NextItem
  PROVE  TransferExact'
<1>1. i' > 0
  BY DEF NextItem, TypeOK
<1>2. QED
  BY <1>1, ExactWhenReset DEF NextItem, ResetTransfer, AtItem

\* Between two connections the .part and the hasher agree wherever the lengths do.
LEMMA ExactAgain ==
  ASSUME TypeOK, Again, i \in DOMAIN list,
         (0 < part'[Item].len /\ hashed.len = part'[Item].len) => hashed.good = part'[Item].good
  PROVE  TransferExact'
<1>1. CASE NextItem
  BY <1>1, ExactAfterItem
<1>2. CASE ~NextItem
  <2>1. pc' = "connect" /\ UNCHANGED <<list, i, hashed>>
    BY <1>2 DEF Again
  <2>2. QED
    BY <2>1 DEF TransferExact, AtItem, Item
<1>3. QED
  BY <1>1, <1>2

LEMMA TransferExactStep == TypeOK /\ TransferExact /\ [Next]_vars => TransferExact'
<1> SUFFICES ASSUME TypeOK, TransferExact, [Next]_vars PROVE TransferExact'
  OBVIOUS
<1> USE DEF World, disk, transfer, sync, daemon
<1>1. ASSUME UNCHANGED <<pc, list, i, hashed, pos, part>> PROVE TransferExact'
  BY <1>1 DEF TransferExact, Item
<1>2. ASSUME \/ Reassign \/ VerifyDue \/ UNCHANGED vars
             \/ \E f \in Files : ObjectFails(f) \/ ObjectRepaired(f) \/ Rots(f)
      PROVE  TransferExact'
  BY <1>1, <1>2 DEF Reassign, VerifyDue, ObjectFails, ObjectRepaired, Rots, vars
<1>3. ASSUME Crash \/ PowerCut \/ SaveManifest PROVE TransferExact'
  BY <1>3, ExactWhenReset DEF Crash, PowerCut, SaveManifest, Idle, ResetTransfer, AtItem
<1>4. ASSUME Restart \/ Fetch \/ EnsureDone \/ PruneDone \/ SaveIndex PROVE TransferExact'
  <2>1. hashed.len = 0 /\ UNCHANGED hashed /\ pc' \notin AtItem /\ (pc' = "ensure" => i' > 0)
    BY <1>4 DEF Restart, Fetch, EnsureDone, PruneDone, SaveIndex, TransferExact, AtItem
  <2>2. QED
    BY <2>1 DEF TransferExact, AtItem
<1>5. ASSUME NEW f \in Files, Prune(f) PROVE TransferExact'
  BY <1>5 DEF Prune, TransferExact, AtItem
<1>6. ASSUME Ensure PROVE TransferExact'
  <2>1. CASE NextItem
    BY <2>1, ExactAfterItem
  <2>2. CASE ~NextItem
    <3>1. pc = "ensure" /\ pc' = "part" /\ UNCHANGED <<list, i, hashed>> /\ i <= Len(list)
      BY <1>6, <2>2 DEF Ensure
    <3>2. i \in DOMAIN list
      BY <3>1, MediaSyncAssumption DEF TypeOK, TransferExact
    <3>3. QED
      BY <3>1, <3>2 DEF TransferExact, AtItem
  <2>3. QED
    BY <2>1, <2>2
<1>7. ASSUME FinishPart PROVE TransferExact'
  <2>1. Item \in Files /\ part[Item] \in Part /\ i \in DOMAIN list /\ hashed.len = 0
    BY <1>7, ItemInHand DEF FinishPart, TransferExact, AtItem
  <2>2. CASE NextItem
    BY <2>2, ExactAfterItem
  <2>3. CASE ~NextItem
    <3>1. pc' = "connect" /\ UNCHANGED <<list, i, hashed>>
      BY <1>7, <2>3 DEF FinishPart
    <3>2. QED
      BY <2>1, <3>1 DEF TransferExact, AtItem, Item
  <2>4. QED
    BY <2>2, <2>3
<1>8. ASSUME Transfer PROVE TransferExact'
  <2>1. Item \in Files /\ part[Item] \in Part /\ i \in DOMAIN list
    BY <1>8, ItemInHand DEF Transfer, Resume, CannotResume, StartOver, HttpError,
       NoConnection, Chunk, Drop, NoSpace, Settle, TransferExact, AtItem
  <2>2. CASE Resume
    <3>1. pc = "connect" /\ pc' = "receive" /\ pos' = part[Item].len /\ 0 < part[Item].len
          /\ UNCHANGED <<list, i, part>>
      BY <2>2 DEF Resume, Receive
    <3>2. hashed'.len = part[Item].len /\ hashed'.good = part[Item].good
      BY <2>2, <3>1 DEF Resume, HashedSoFar, TransferExact
    <3>3. QED
      BY <2>1, <3>1, <3>2 DEF TransferExact, AtItem, Item
  <2>3. CASE CannotResume
    <3>1. part'[Item].len = 0
      BY <2>1, <2>3 DEF CannotResume, Unlinked, NoPart, TypeOK
    <3>2. QED
      BY <2>1, <2>3, <3>1, ExactAgain DEF CannotResume
  <2>4. CASE StartOver
    <3>1. /\ pc' = "receive" /\ pos' = 0 /\ hashed' = [len |-> 0, good |-> TRUE]
          /\ UNCHANGED <<list, i>> /\ part' = [part EXCEPT ![Item] = Emptied(Item)]
      BY <2>4 DEF StartOver, Receive
    <3>2. part'[Item].len = 0 /\ part'[Item].good = TRUE
      BY <2>1, <3>1 DEF Emptied, TypeOK
    <3>3. QED
      BY <2>1, <3>1, <3>2 DEF TransferExact, AtItem, Item
  <2>5. CASE HttpError \/ NoSpace \/ Settle
    BY <2>5, ExactAfterItem DEF HttpError, NoSpace, Settle
  <2>6. CASE NoConnection \/ Drop
    <3>1. UNCHANGED part /\ (hashed.len = part[Item].len /\ 0 < part[Item].len
                               => hashed.good = part[Item].good) /\ Again
      BY <2>6 DEF NoConnection, Drop, TransferExact
    <3>2. QED
      BY <2>1, <3>1, ExactAgain
  <2>7. CASE Chunk
    <3>1. /\ pc = "receive" /\ pc' = "receive" /\ pos' = pos + 1 /\ UNCHANGED <<list, i>>
          /\ part' = [part EXCEPT ![Item] = Extended(@)] /\ hashed' = Extended(hashed)
      BY <2>7 DEF Chunk
    <3>2. /\ pos \in 0..Size /\ pos < Size /\ hashed \in Bytes
      BY <2>1, <2>7, ServedBound, MediaSyncAssumption DEF Chunk, TypeOK
    <3>3. part[Item].len = pos /\ hashed.len = pos /\ hashed.good = part[Item].good
      BY <3>1 DEF TransferExact
    <3>4. /\ part'[Item].len = pos + 1 /\ hashed'.len = pos + 1 /\ hashed'.good = part'[Item].good
      BY <2>1, <3>1, <3>2, <3>3, ExtendedPart, ExtendedBytes DEF TypeOK
    <3>5. QED
      BY <2>1, <3>1, <3>4 DEF TransferExact, AtItem, Item
  <2>8. QED
    BY <1>8, <2>2, <2>3, <2>4, <2>5, <2>6, <2>7 DEF Transfer
<1>9. QED
  BY <1>2, <1>3, <1>4, <1>5, <1>6, <1>7, <1>8 DEF Next, SyncOnce, Environment, Save

-----------------------------------------------------------------------------
(* Only whole files get their name.                                        *)

LEMMA NamedStep ==
  TypeOK /\ TransferExact /\ NamedFilesWhole /\ [Next]_vars => NamedFilesWhole'
<1> SUFFICES ASSUME TypeOK, TransferExact, NamedFilesWhole, [Next]_vars PROVE NamedFilesWhole'
  OBVIOUS
<1> USE DEF World, disk, transfer, sync, daemon, counts
<1>1. ASSUME UNCHANGED <<media, damaged>> PROVE NamedFilesWhole'
  BY <1>1 DEF NamedFilesWhole
\* A file gets its name from a whole .part.
<1>2. ASSUME NEW f \in Files, Replaced(f), Whole(part[f]), UNCHANGED damaged
      PROVE  NamedFilesWhole'
  BY <1>2 DEF Replaced, NamedFilesWhole, TypeOK
<1>3. ASSUME NEW f \in Files, media' = [media EXCEPT ![f] = "absent"], UNCHANGED damaged
      PROVE  NamedFilesWhole'
  BY <1>3 DEF NamedFilesWhole, TypeOK
<1>4. ASSUME PowerCut \/ \E f \in Files : Rots(f) PROVE NamedFilesWhole'
  BY <1>4 DEF PowerCut, Rots, NamedFilesWhole
<1>5. ASSUME NEW f \in Files, Prune(f) PROVE NamedFilesWhole'
  BY <1>3, <1>5 DEF Prune
<1>6. ASSUME Ensure PROVE NamedFilesWhole'
  <2>1. i \in DOMAIN list
    BY <1>6, MediaSyncAssumption DEF Ensure, TypeOK, TransferExact
  <2>2. Item \in Files
    BY <2>1, ItemInFiles
  <2>3. media' = media \/ media' = [media EXCEPT ![Item] = "absent"]
    BY <1>6 DEF Ensure
  <2>4. QED
    BY <1>1, <1>3, <1>6, <2>2, <2>3 DEF Ensure
<1>7. ASSUME FinishPart PROVE NamedFilesWhole'
  <2>1. Item \in Files
    BY <1>7, ItemInHand DEF FinishPart, AtItem
  <2>2. QED
    BY <1>1, <1>2, <1>7, <2>1 DEF FinishPart, Finishable
<1>8. ASSUME Settle PROVE NamedFilesWhole'
  <2>1. Item \in Files
    BY <1>8, ItemInHand DEF Settle, AtItem
  <2>2. Whole(hashed) => Whole(part[Item])
    BY <1>8 DEF Settle, TransferExact, Whole
  <2>3. QED
    BY <1>1, <1>2, <1>8, <2>1, <2>2 DEF Settle
<1>9. ASSUME \/ Reassign \/ VerifyDue \/ Crash \/ Restart \/ Fetch \/ EnsureDone \/ PruneDone
             \/ SaveIndex \/ SaveManifest \/ UNCHANGED vars
             \/ \E f \in Files : ObjectFails(f) \/ ObjectRepaired(f)
      PROVE  NamedFilesWhole'
  BY <1>1, <1>9 DEF Reassign, VerifyDue, Crash, Restart, Fetch, EnsureDone, PruneDone, SaveIndex,
     SaveManifest, ObjectFails, ObjectRepaired, vars
<1>10. ASSUME \/ Resume \/ CannotResume \/ StartOver \/ HttpError \/ NoConnection \/ Chunk
              \/ Drop \/ NoSpace
       PROVE  NamedFilesWhole'
  BY <1>1, <1>10 DEF Resume, CannotResume, StartOver, HttpError, NoConnection, Chunk, Drop, NoSpace
<1>11. QED
  BY <1>4, <1>5, <1>6, <1>7, <1>8, <1>9, <1>10 DEF Next, SyncOnce, Environment, Transfer, Save

-----------------------------------------------------------------------------
\* sync_once's locals and the disk keep their types, the index never runs past the list, and
\* the hasher never misses or repeats a byte of the .part, whatever drops, restarts or fails.
THEOREM HasherCoversPart == Spec => [](TypeOK /\ TransferExact)
BY InitInv, TypeStep, TransferExactStep, PTL DEF Spec

\* A file has its final name only with the bytes its sha256 stands for, for files of any
\* number and size and any number of attempts, edits and mishaps.
THEOREM OnlyWholeFilesNamed == Spec => []NamedFilesWhole
BY InitInv, HasherCoversPart, NamedStep, PTL DEF Spec

\* sync_once's locals, the cached list and the disk keep their types.
THEOREM TypeCorrect == Spec => []TypeOK
<1>1. TypeOK /\ TransferExact => TypeOK
  OBVIOUS
<1>2. QED
  BY <1>1, HasherCoversPart, PTL
=============================================================================
