----------------------------- MODULE MediaSync -----------------------------
(***************************************************************************)
(* The player's disk: sync_once (player/player/sync.py) fetches the        *)
(* manifest, makes sure of every item's file, removes the files nobody     *)
(* wants, then saves the media index and the manifest.  A transfer drops   *)
(* and is resumed from <file>.part, the server serves a damaged or no      *)
(* object, the process is killed between any two steps, and a power cut or *)
(* a worn card damages what is on the disk.                                *)
(***************************************************************************)
EXTENDS Naturals, Sequences, SequencesExt

CONSTANTS
  Files,        \* media files; a name holds the sha256 of the bytes that belong in it
  Size,         \* chunks in a file
  Playlists,    \* the item lists the console may assign
  Attempts,     \* DOWNLOAD_ATTEMPTS (5 in the code)
  MaxEdits,     \* bound: changes of the assigned list
  MaxMishaps,   \* bound: transfers without a byte, full disks, servers that ignore Range,
                \* objects gone wrong, deaths of the process and damage to the disk together
  Nothing

ASSUME MediaSyncAssumption ==
  /\ Size \in Nat \ {0} /\ Attempts \in Nat \ {0}
  /\ Playlists \subseteq Seq(Files) /\ Nothing \notin Playlists
  /\ MaxEdits \in Nat /\ MaxMishaps \in Nat

VARIABLES
  assigned,   \* the list in the console's manifest
  object,     \* what the store holds for a file
  media,      \* disk: media_dir/<file>
  part,       \* disk: media_dir/<file>.part, its chunks and whether they are the file's first
  vouched,    \* disk: has media_index.json an entry with this file's sha256, size and mtime?
  cached,     \* disk: the list in manifest.json, or Nothing
  pc,         \* where sync_once is
  list,       \* the list it fetched
  i,          \* the item it is at
  mem,        \* its index: would an entry match the file?
  verify,     \* verify_all
  due,        \* force_verify, or FULL_VERIFY_INTERVAL_SECONDS are over
  attempt,    \* the connection of _download_item
  hashed,     \* what its hasher has seen (`done` is hashed.len)
  pos,        \* the chunk the server sends next
  moved,      \* has this connection brought a chunk?
  complete,   \* history: was every file of `cached` on disk when a sync of it ended?
  edits, mishaps,
  damaged     \* history: has the disk lost bytes?

disk == <<media, part, vouched, cached>>
transfer == <<attempt, hashed, pos, moved>>
sync == <<list, i, mem, verify>>
daemon == <<pc, sync, due, transfer>>
counts == <<edits, mishaps, damaged>>
vars == <<assigned, object, disk, daemon, complete, counts>>

NoPart == [len |-> 0, good |-> TRUE, there |-> FALSE]
None == [f \in Files |-> FALSE]
Whole(x) == x.len = Size /\ x.good                 \* is the sha256 of x the file's?
WantedBy(l) == {l[j] : j \in DOMAIN l}

Init ==
  /\ \E l \in Playlists : assigned = l
  /\ object = [f \in Files |-> "good"]
  /\ media = [f \in Files |-> "absent"] /\ part = [f \in Files |-> NoPart]
  /\ vouched = None /\ cached = Nothing
  /\ pc = "idle" /\ list = <<>> /\ i = 0 /\ mem = None /\ verify = FALSE /\ due = FALSE
  /\ attempt = 0 /\ hashed = [len |-> 0, good |-> TRUE] /\ pos = 0 /\ moved = FALSE
  /\ complete = FALSE
  /\ edits = 0 /\ mishaps = 0 /\ damaged = FALSE

-----------------------------------------------------------------------------
(* The world.                                                              *)

Mishap == mishaps < MaxMishaps /\ mishaps' = mishaps + 1

Reassign ==
  /\ edits < MaxEdits /\ edits' = edits + 1
  /\ \E l \in Playlists \ {assigned} : assigned' = l
  /\ UNCHANGED <<object, disk, daemon, complete, mishaps, damaged>>

ObjectFails(f) ==
  /\ Mishap
  /\ pc # "receive" /\ object[f] = "good"
  /\ object' \in {[object EXCEPT ![f] = s] : s \in {"bad", "short", "gone"}}
  /\ UNCHANGED <<assigned, disk, daemon, complete, edits, damaged>>

ObjectRepaired(f) ==
  /\ pc # "receive" /\ object[f] # "good"
  /\ object' = [object EXCEPT ![f] = "good"]
  /\ UNCHANGED <<assigned, disk, daemon, complete, counts>>

\* The card loses bytes of a file; its size and mtime stay.
Rots(f) ==
  /\ Mishap /\ damaged' = TRUE
  /\ media[f] = "good" /\ media' = [media EXCEPT ![f] = "bad"]
  /\ UNCHANGED <<assigned, object, part, vouched, cached, daemon, complete, edits>>

\* 24 hours of one process, or a force-sync command.
VerifyDue ==
  /\ pc = "idle" /\ ~due /\ due' = TRUE
  /\ UNCHANGED <<assigned, object, disk, pc, sync, transfer, complete, counts>>

ResetTransfer == attempt' = 0 /\ hashed' = [len |-> 0, good |-> TRUE] /\ pos' = 0 /\ moved' = FALSE
Idle(to) ==
  /\ pc' = to /\ list' = <<>> /\ i' = 0 /\ mem' = None /\ verify' = FALSE
  /\ ResetTransfer

\* Killed, or told to stop in the middle of a transfer: the .part stays.
Crash ==
  /\ pc # "down" /\ Mishap
  /\ Idle("down") /\ due' = FALSE
  /\ UNCHANGED <<assigned, object, disk, complete, edits, damaged>>

\* Nothing is flushed to the disk: with the power goes the tail of a .part, or a file just
\* written, which then cannot be read (load_media_index, load_local_manifest).
PowerCut ==
  /\ pc # "down" /\ Mishap
  /\ damaged' = TRUE
  /\ Idle("down") /\ due' = FALSE
  /\ \/ \E f \in Files : part[f].there /\ part' = [part EXCEPT ![f].good = FALSE]
                         /\ UNCHANGED <<vouched, cached>>
     \/ vouched' = None /\ UNCHANGED <<part, cached>>
     \/ cached' = Nothing /\ UNCHANGED <<part, vouched>>
  /\ UNCHANGED <<assigned, object, media, complete, edits>>

Restart ==
  /\ pc = "down" /\ pc' = "idle"
  /\ UNCHANGED <<assigned, object, disk, sync, due, transfer, complete, counts>>

-----------------------------------------------------------------------------
(* sync_once.  A manifest that cannot be fetched changes nothing.          *)

World == <<assigned, object, complete, edits, damaged>>

Fetch ==
  /\ pc = "idle"
  /\ list' = assigned /\ i' = 1 /\ mem' = vouched /\ verify' = due
  /\ pc' = IF assigned # <<>> THEN "ensure" ELSE IF cached # <<>> THEN "prune" ELSE "manifest"
  /\ UNCHANGED <<World, mishaps, disk, due, transfer>>

Item == list[i]
NextItem == i' = i + 1 /\ pc' = "ensure" /\ ResetTransfer /\ UNCHANGED <<list, verify>>

TrustedAlways(f) == mem[f]
\* A file whose size and mtime are the index's is not hashed again.
Trusted(f) == mem[f] /\ ~verify

\* _ensure_item
Ensure ==
  /\ pc = "ensure" /\ i <= Len(list)
  /\ \/ Trusted(Item) /\ NextItem /\ UNCHANGED <<mem, media, vouched>>
     \/ ~Trusted(Item) /\ media[Item] = "good"
        /\ mem' = [mem EXCEPT ![Item] = TRUE] /\ NextItem /\ UNCHANGED <<media, vouched>>
     \/ ~Trusted(Item) /\ media[Item] = "bad"
        /\ mem' = [mem EXCEPT ![Item] = FALSE]
        /\ media' = [media EXCEPT ![Item] = "absent"] /\ vouched' = [vouched EXCEPT ![Item] = FALSE]
        /\ pc' = "part" /\ UNCHANGED <<list, i, verify, transfer>>
     \/ media[Item] = "absent"
        /\ pc' = "part" /\ UNCHANGED <<mem, media, vouched, list, i, verify, transfer>>
  /\ UNCHANGED <<World, mishaps, part, cached, due>>

EnsureDone ==
  /\ pc = "ensure" /\ i > Len(list) /\ pc' = "prune"
  /\ UNCHANGED <<World, mishaps, disk, sync, due, transfer>>

\* part.replace(target): the file has a new mtime, the index entry is made from it.
Replaced(f) ==
  /\ media' = [media EXCEPT ![f] = IF Whole(part[f]) THEN "good" ELSE "bad"]
  /\ part' = [part EXCEPT ![f] = NoPart]
  /\ vouched' = [vouched EXCEPT ![f] = FALSE] /\ mem' = [mem EXCEPT ![f] = TRUE]

Unlinked(f) == part' = [part EXCEPT ![f] = NoPart]

FinishableUnhashed(f) == TRUE
Finishable(f) == Whole(part[f])

\* A .part that holds every byte is hashed and finished locally.
FinishPart ==
  /\ pc = "part"
  /\ \/ part[Item].len = Size /\ Finishable(Item) /\ Replaced(Item) /\ NextItem
     \/ part[Item].len = Size /\ ~Finishable(Item) /\ Unlinked(Item)
        /\ pc' = "connect" /\ attempt' = 1 /\ UNCHANGED <<media, vouched, sync, hashed, pos, moved>>
     \/ part[Item].len < Size
        /\ pc' = "connect" /\ attempt' = 1
        /\ UNCHANGED <<media, vouched, part, sync, hashed, pos, moved>>
  /\ UNCHANGED <<World, mishaps, cached, due>>

\* This connection is over; there is another one unless this was the last.
Again ==
  \/ attempt < Attempts /\ attempt' = attempt + 1 /\ pc' = "connect"
     /\ UNCHANGED <<list, i, verify, hashed, pos>> /\ moved' = FALSE
  \/ attempt = Attempts /\ NextItem

Served(f) == IF object[f] = "gone" THEN 0 ELSE IF object[f] = "short" THEN Size - 1 ELSE Size
Receive(at) == pc' = "receive" /\ pos' = at /\ moved' = FALSE

HashedOnly(f) == hashed
\* The sha256 must cover the bytes an earlier run left in the .part.
HashedSoFar(f) ==
  IF hashed.len # part[f].len THEN [len |-> part[f].len, good |-> part[f].good] ELSE hashed

\* HTTP 206: the rest is appended.
Resume ==
  /\ pc = "connect" /\ 0 < part[Item].len /\ part[Item].len < Served(Item)
  /\ hashed' = HashedSoFar(Item)
  /\ Receive(part[Item].len)
  /\ UNCHANGED <<World, mishaps, disk, sync, due, attempt>>

\* HTTP 416: the .part cannot be a prefix of what the server has.
CannotResume ==
  /\ pc = "connect" /\ object[Item] # "gone"
  /\ 0 < part[Item].len /\ part[Item].len >= Served(Item)
  /\ Unlinked(Item) /\ Again
  /\ UNCHANGED <<World, mishaps, media, vouched, cached, mem, due>>

AppendedTo(f) == part[f]
\* open(mode="wb")
Emptied(f) == [len |-> 0, good |-> TRUE, there |-> TRUE]

\* HTTP 200, asked for or by a server that ignores Range: the .part starts over.
StartOver ==
  /\ pc = "connect" /\ object[Item] # "gone"
  /\ \/ part[Item].len = 0 /\ UNCHANGED mishaps
     \/ part[Item].len > 0 /\ Mishap
  /\ hashed' = [len |-> 0, good |-> TRUE]
  /\ part' = [part EXCEPT ![Item] = Emptied(Item)]
  /\ Receive(0)
  /\ UNCHANGED <<World, media, vouched, cached, sync, due, attempt>>

\* raise_for_status: no object, or a server error; the item waits for the next poll.
HttpError ==
  /\ pc = "connect"
  /\ \/ object[Item] = "gone" /\ UNCHANGED mishaps
     \/ object[Item] # "gone" /\ Mishap
  /\ NextItem
  /\ UNCHANGED <<World, disk, mem, due>>

NoConnection ==
  /\ pc = "connect" /\ Mishap /\ Again
  /\ UNCHANGED <<World, disk, mem, due>>

\* x with the chunk the server sends now written or hashed after it.
Extended(x) ==
  [x EXCEPT !.len = @ + 1, !.good = @ /\ x.len = pos /\ object[Item] \in {"good", "short"}]

Chunk ==
  /\ pc = "receive" /\ pos < Served(Item)
  /\ part' = [part EXCEPT ![Item] = Extended(@)] /\ hashed' = Extended(hashed)
  /\ pos' = pos + 1 /\ moved' = TRUE
  /\ UNCHANGED <<World, mishaps, media, vouched, cached, pc, sync, due, attempt>>

\* The connection drops or stalls; the .part keeps what arrived.
Drop ==
  /\ pc = "receive" /\ pos < Served(Item)
  /\ \/ moved /\ UNCHANGED mishaps
     \/ ~moved /\ Mishap
  /\ Again
  /\ UNCHANGED <<World, disk, mem, due>>

\* The disk is full: the item fails, its .part stays.
NoSpace ==
  /\ pc = "receive" /\ Mishap /\ NextItem
  /\ UNCHANGED <<World, disk, mem, due>>

\* The transfer is complete: does its sha256 match?
Settle ==
  /\ pc = "receive" /\ pos = Served(Item)
  /\ \/ Whole(hashed) /\ Replaced(Item)
     \/ ~Whole(hashed) /\ Unlinked(Item) /\ UNCHANGED <<media, vouched, mem>>
  /\ NextItem
  /\ UNCHANGED <<World, mishaps, cached, due>>

\* _prune_stale, a file at a time
Unwanted(f) == f \notin WantedBy(list)
Prune(f) ==
  /\ pc = "prune" /\ Unwanted(f) /\ (media[f] # "absent" \/ part[f].there)
  /\ media' = [media EXCEPT ![f] = "absent"] /\ vouched' = [vouched EXCEPT ![f] = FALSE]
  /\ Unlinked(f)
  /\ UNCHANGED <<World, mishaps, cached, daemon>>

PruneDone ==
  /\ pc = "prune" /\ \A f \in Files : Unwanted(f) => media[f] = "absent" /\ ~part[f].there
  /\ mem' = [f \in Files |-> mem[f] /\ ~Unwanted(f)]
  /\ pc' = "index"
  /\ UNCHANGED <<World, mishaps, disk, list, i, verify, due, transfer>>

SaveIndex ==
  /\ pc = "index" /\ pc' = "manifest"
  /\ vouched' = mem
  /\ UNCHANGED <<World, mishaps, media, part, cached, sync, due, transfer>>

SaveManifest ==
  /\ pc = "manifest"
  /\ cached' = list
  /\ complete' = \A f \in WantedBy(list) : media[f] # "absent"
  /\ due' = (due /\ ~verify)
  /\ Idle("idle")
  /\ UNCHANGED <<assigned, object, media, part, vouched, counts>>

-----------------------------------------------------------------------------
Transfer == Resume \/ CannotResume \/ StartOver \/ HttpError \/ NoConnection
            \/ Chunk \/ Drop \/ NoSpace \/ Settle
Save == PruneDone \/ SaveIndex \/ SaveManifest \/ \E f \in Files : Prune(f)
SyncOnce == Fetch \/ Ensure \/ EnsureDone \/ FinishPart \/ Transfer \/ Save

Environment ==
  \/ Reassign \/ VerifyDue \/ Crash \/ PowerCut \/ Restart
  \/ \E f \in Files : ObjectFails(f) \/ ObjectRepaired(f) \/ Rots(f)

Next == SyncOnce \/ Environment

Spec == Init /\ [][Next]_vars

\* The daemon syncs again and again, a process lives for a day or is asked to verify, and
\* what is wrong in the store is put right.
FairSpec ==
  /\ Spec /\ WF_vars(SyncOnce) /\ WF_vars(Restart) /\ SF_vars(VerifyDue)
  /\ \A f \in Files : SF_vars(ObjectRepaired(f))

-----------------------------------------------------------------------------
(* Properties.                                                             *)

Bytes == [len : 0..Size, good : BOOLEAN]

\* Type correctness of the disk and of sync_once's locals.
TypeOK ==
  /\ assigned \in Playlists /\ cached \in Playlists \cup {Nothing}
  /\ object \in [Files -> {"good", "bad", "short", "gone"}]
  /\ media \in [Files -> {"absent", "good", "bad"}]
  /\ part \in [Files -> [len : 0..Size, good : BOOLEAN, there : BOOLEAN]]
  /\ vouched \in [Files -> BOOLEAN] /\ mem \in [Files -> BOOLEAN]
  /\ pc \in {"down", "idle", "ensure", "part", "connect", "receive", "prune", "index", "manifest"}
  /\ list \in IF pc \in {"down", "idle"} THEN {<<>>} ELSE Playlists
  /\ i \in 0..(Len(list) + 1)
  /\ verify \in BOOLEAN /\ due \in BOOLEAN /\ complete \in BOOLEAN
  /\ attempt \in 0..Attempts /\ hashed \in Bytes /\ pos \in 0..Size /\ moved \in BOOLEAN

\* The steps of sync_once that are about one item.
AtItem == {"part", "connect", "receive"}

\* While bytes arrive, the hasher has seen exactly what the .part holds and the server sends
\* what comes next; between two connections of one item it has seen the .part or a .part of
\* another length, which makes Resume read it again (_download_item's `done`).
TransferExact ==
  /\ pc \in AtItem => i \in DOMAIN list
  /\ pc = "ensure" => i > 0
  /\ pc \notin {"connect", "receive"} => hashed.len = 0
  /\ (pc = "connect" /\ 0 < part[Item].len /\ hashed.len = part[Item].len)
       => hashed.good = part[Item].good
  /\ pc = "receive" =>
       part[Item].len = pos /\ hashed.len = pos /\ hashed.good = part[Item].good

\* Whatever was resumed, restarted, cut short or served damaged, a file has its final name
\* only with the bytes its sha256 stands for, unless the card damaged it later
\* (_download_item: the hasher covers exactly what the .part holds).
NamedFilesWhole == ~damaged => \A f \in Files : media[f] # "bad"

\* Once the console, the store, the card and the process are left alone, every file of the
\* playlist is on the disk, whole, for good, although every single connection drops after
\* its first chunk, and everything else is gone.
FilesArrive ==
  <>[](\A f \in Files : media[f] = IF f \in WantedBy(assigned) THEN "good" ELSE "absent")

\* README.md 195-199: a player that reboots while the console is unreachable plays its
\* "locally cached playlist straight away": what a completed sync cached is on the disk.
CachedListOnDisk ==
  (pc = "idle" /\ complete /\ ~damaged) =>
    \A f \in WantedBy(cached) : media[f] # "absent"
=============================================================================
