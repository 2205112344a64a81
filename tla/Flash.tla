---- MODULE Flash ----
(***************************************************************************)
(* One flash after another: run_flash of tools/flasher/flasher.py over the  *)
(* raw disk of windisk.py (Windows) or macdisk.py, and the image cache of   *)
(* imagefetch.py.  The operator confirms a card; the program knows it by a  *)
(* disk number, which the computer gives to whatever card is in the reader. *)
(* A card may be worn: it then loses what is written to it without a word.  *)
(***************************************************************************)
EXTENDS Integers, FiniteSets

CONSTANTS Cards,       \* cards that may be put in the reader
          Sizes, Sigs, \* functions: a card's size and the signature it came with
          Windows,     \* TRUE: windisk; FALSE: macdisk
          ImageSize, NULL,
          MaxRuns, MaxSwaps   \* bounds: flashes; cards swapped during one

VARIABLES slot,     \* the card that has the disk number, or NULL
          sees,     \* the partitions the OS shows of it: "none" | "boot" | "all"
          card,     \* what each card holds
          cache,    \* the cached image and its .sha256: [file, sha]
          token,    \* device tokens issued; only the last one works
          pc,       \* where run_flash is
          conf,     \* the confirmed card as it looked, and the cards left unfinished before
          drive, mount,   \* the card opened, the card mounted
          swapped,  \* history: cards put in since check_disk of this run
          wiped, written,   \* history: cards whose table, whose body this run changed
          runs, swaps

disk == <<slot, sees, card>>
seen == <<conf, swapped, wiped, written>>
vars == <<disk, cache, token, pc, drive, mount, seen, runs, swaps>>

Tables == {"old", "empty", "hidden", "whole", "lost"}
Bodies == {"old", "image", "damaged", "lost", "formatted"}

TypeOK ==
  /\ slot \in Cards \cup {NULL} /\ sees \in {"none", "boot", "all"}
  /\ card \in [Cards -> [table : Tables, body : Bodies, files : 0..MaxRuns]]
  /\ cache \in [file : {"none", "whole", "damaged"}, sha : BOOLEAN]
  /\ token \in 0..MaxRuns
  /\ pc \in {"idle", "register", "image", "check", "clear", "open", "lock", "write", "verify", "commit",
             "find", "files", "reveal", "eject", "done", "failed"}

Init ==
  /\ slot \in Cards /\ sees = "none"
  /\ card = [c \in Cards |-> [table |-> "old", body |-> "old", files |-> 0]]
  /\ cache = [file |-> "none", sha |-> FALSE]
  /\ token = 0 /\ pc = "idle"
  /\ conf = NULL /\ drive = NULL /\ mount = NULL
  /\ swapped = {} /\ wiped = {} /\ written = {}
  /\ runs = 0 /\ swaps = 0

----------------------------------------------------------------------------
(* What the OS makes of a card.                                              *)
Sig(c) == CASE card[c].table = "old" -> Sigs[c]
            [] card[c].table \in {"hidden", "whole"} -> "image"
            [] OTHER -> "none"
Unfinished == {c \in Cards : card[c].table = "hidden"}
Confirmed(c) == [card |-> c, size |-> Sizes[c], sig |-> Sig(c), unfinished |-> Unfinished]
IsOfThatSize(c) == Sizes[c] = conf.size
IsConfirmed(c) == Sizes[c] = conf.size /\ Sig(c) = conf.sig

Shown(c) == CASE c = NULL -> "none"
              [] card[c].table \in {"empty", "lost"} -> "none"
              [] card[c].table = "hidden" -> "boot"
              [] OTHER -> "all"
Rescan == sees' = Shown(slot)'

PutTable(c, t) == card' = [card EXCEPT ![c].table = t]

\* A card is taken out, or another one put in: the number goes with the reader.
Replug(c) ==
  /\ pc \notin {"idle", "done", "failed"} /\ swaps < MaxSwaps /\ c # slot
  /\ swaps' = swaps + 1 /\ slot' = c
  /\ sees' = Shown(c)
  /\ swapped' = IF pc \in {"register", "image", "check"} \/ c = NULL THEN swapped ELSE swapped \cup {c}
  /\ UNCHANGED <<card, cache, token, pc, conf, drive, mount, wiped, written, runs>>

\* "You need to format the disk": offered for the ext4 root once Windows shows it.
UserFormats ==
  /\ Windows /\ pc \in {"find", "files", "reveal", "eject"} /\ swaps = 0
  /\ sees = "all" /\ card[slot].table = "whole"
  /\ card' = [card EXCEPT ![slot].body = "formatted"]
  /\ UNCHANGED <<slot, sees, cache, token, pc, drive, mount, seen, runs, swaps>>

CacheDamaged ==
  /\ pc = "idle" /\ cache.file = "whole" /\ cache' = [cache EXCEPT !.file = "damaged"]
  /\ UNCHANGED <<disk, token, pc, drive, mount, seen, runs, swaps>>

----------------------------------------------------------------------------
Confirm(c) ==
  /\ pc = "idle" /\ runs < MaxRuns
  /\ pc' = "register" /\ conf' = Confirmed(c) /\ runs' = runs + 1
  /\ slot' = c /\ sees' = Shown(c)
  /\ drive' = NULL /\ mount' = NULL
  /\ swapped' = {} /\ wiped' = {} /\ written' = {} /\ swaps' = 0
  /\ UNCHANGED <<card, cache, token>>

Again ==
  /\ pc \in {"done", "failed"} /\ runs < MaxRuns /\ pc' = "idle"
  /\ UNCHANGED <<disk, cache, token, drive, mount, seen, runs, swaps>>

\* An exception, or the cancel event seen, with nothing to tidy up.
Fails ==
  /\ pc \in {"register", "image", "check", "clear", "open", "lock", "verify"}
  /\ pc' = "failed"
  /\ UNCHANGED <<disk, cache, token, drive, mount, seen, runs, swaps>>

\* The console issues a new device token, which ends the one it gave before; the
\* answer may be lost, and validate_cfg runs only after it.
Register ==
  /\ pc = "register" /\ token' = token + 1
  /\ pc' \in {"image", "failed"}
  /\ UNCHANGED <<disk, cache, drive, mount, seen, runs, swaps>>

----------------------------------------------------------------------------
(* The image: a local file as it is, or the published one from the cache or  *)
(* the network, checked against its sha256.                                  *)
LocalImage ==
  /\ pc = "image" /\ pc' = "check"
  /\ UNCHANGED <<disk, cache, token, drive, mount, seen, runs, swaps>>

\* Online, the sha256 is the one just fetched; offline, the one kept with the file.
UseCached ==
  /\ pc = "image" /\ cache.file = "whole"
  /\ pc' = "check"
  /\ \/ cache' = [cache EXCEPT !.sha = TRUE]
     \/ cache.sha /\ UNCHANGED cache
  /\ UNCHANGED <<disk, token, drive, mount, seen, runs, swaps>>

\* download moves a complete .part into place; a wrong one is deleted again.
Usable(f) == f = "whole"

Download ==
  /\ pc = "image" /\ cache.file # "whole"
  /\ \E f \in {"whole", "damaged"} :
       IF Usable(f)
       THEN cache' = [file |-> f, sha |-> TRUE] /\ pc' = "check"
       ELSE cache' = [cache EXCEPT !.file = "none"] /\ pc' = "failed"
  /\ UNCHANGED <<disk, token, drive, mount, seen, runs, swaps>>

----------------------------------------------------------------------------
(* The card: identity check, clear, open, lock, write, read back, table.     *)
CheckDisk ==
  /\ pc = "check"
  /\ pc' = IF slot # NULL /\ IsConfirmed(slot) /\ ImageSize <= conf.size THEN "clear" ELSE "failed"
  /\ UNCHANGED <<disk, cache, token, drive, mount, seen, runs, swaps>>

\* Clear-Disk and an empty MBR on Windows, an unmount on the Mac.
ClearDisk ==
  /\ pc = "clear" /\ slot # NULL /\ pc' = "open"
  /\ IF Windows THEN /\ PutTable(slot, "empty") /\ wiped' = wiped \cup {slot}
                     /\ sees' = "none"
                ELSE UNCHANGED <<card, wiped, sees>>
  /\ UNCHANGED <<slot, cache, token, drive, mount, conf, swapped, written, runs, swaps>>

Fits(c) == Sizes[c] = conf.size

OpenDrive ==
  /\ pc = "open" /\ slot # NULL
  /\ IF Fits(slot) THEN drive' = slot /\ pc' = "lock" ELSE pc' = "failed" /\ UNCHANGED drive
  /\ UNCHANGED <<disk, cache, token, mount, seen, runs, swaps>>

\* The volumes are locked and sector 0 holds no partition until commit_head.
Lock ==
  /\ pc = "lock" /\ slot = drive /\ pc' = "write"
  /\ PutTable(drive, "empty") /\ wiped' = wiped \cup {drive}
  /\ sees' = "none"
  /\ UNCHANGED <<slot, cache, token, drive, mount, conf, swapped, written, runs, swaps>>

\* All but the first MiB.  Stopped in the middle, too large for the card, a file
\* that changed under the read (its sha256 is compared at the end): it fails.
WriteImage ==
  /\ pc = "write"
  /\ \E b \in {"image", "lost", "damaged"} :
       /\ slot = drive \/ b = "damaged"
       /\ card' = [card EXCEPT ![drive].body = b, ![drive].files = 0]
       /\ pc' = IF b = "damaged" THEN "failed" ELSE "verify"
  /\ written' = written \cup {drive}
  /\ UNCHANGED <<slot, sees, cache, token, drive, mount, conf, swapped, wiped, runs, swaps>>

ReadsBackUnread(c) == TRUE
ReadsBack(c) == card[c].body = "image"

VerifyImage ==
  /\ pc = "verify" /\ slot = drive
  /\ pc' = IF ReadsBack(drive) THEN "commit" ELSE "failed"
  /\ UNCHANGED <<disk, cache, token, drive, mount, seen, runs, swaps>>

\* hide_foreign_partitions: the root partition stays out of Windows' sight.
Head == IF Windows THEN "hidden" ELSE "whole"

CommitHead ==
  /\ pc = "commit"
  /\ \E t \in {Head, "lost"} :
       /\ slot = drive \/ t = "lost"
       /\ card' = [card EXCEPT ![drive].table = t]
       /\ pc' = IF t = Head THEN "find" ELSE "failed"
  /\ UNCHANGED <<slot, cache, token, drive, mount, seen, runs, swaps>>
  /\ Rescan

----------------------------------------------------------------------------
(* The boot partition, found by the disk number alone, and the files on it.  *)
HasBoot(c) == card[c].table \in {"old", "hidden", "whole"}

FindBootVolume ==
  /\ pc = "find" /\ slot # NULL /\ HasBoot(slot)
  /\ mount' = slot /\ pc' = "files"
  /\ UNCHANGED <<slot, card, cache, token, drive, seen, runs, swaps>>
  /\ Rescan

\* cmdline.txt must be there, and is written last: a card whose files were cut short
\* boots as the image alone.
WriteFiles ==
  /\ pc = "files" /\ slot = mount
  /\ card' = [card EXCEPT ![mount].files = token]
  /\ pc' = "reveal"
  /\ UNCHANGED <<slot, sees, cache, token, drive, mount, seen, runs, swaps>>

\* The disk is opened by its number again: sector 0 must be what commit_head wrote.
Ours(c) == card[c].table = "hidden"

Reveal ==
  /\ pc = "reveal"
  /\ \E t \in {"whole", "lost"} :
       IF ~Windows THEN pc' = "eject" /\ UNCHANGED card
       ELSE IF slot # NULL /\ Fits(slot) /\ Ours(slot)
       THEN PutTable(slot, t) /\ pc' = IF t = "whole" THEN "eject" ELSE "failed"
       ELSE pc' = "failed" /\ UNCHANGED card
  /\ UNCHANGED <<slot, sees, cache, token, drive, mount, seen, runs, swaps>>

\* No boot volume in 30 s, a file that cannot be written, Cancel: the table is put
\* right if it can be, and the card reported as one that will not enroll.
FinishFails ==
  /\ pc \in {"find", "files"} /\ pc' = "failed"
  /\ \/ Windows /\ slot # NULL /\ Fits(slot) /\ Ours(slot) /\ PutTable(slot, "whole")
     \/ UNCHANGED card
  /\ UNCHANGED <<slot, sees, cache, token, drive, mount, seen, runs, swaps>>

\* Ejected, or not: that failure is only logged.  No rescan before it.
BeforeEject == sees

Eject ==
  /\ pc = "eject" /\ pc' = "done"
  /\ sees' \in {"none", BeforeEject}
  /\ UNCHANGED <<slot, card, cache, token, drive, mount, seen, runs, swaps>>

Next ==
  \/ \E c \in Cards : Confirm(c)
  \/ \E c \in Cards \cup {NULL} : Replug(c)
  \/ UserFormats \/ CacheDamaged \/ Again \/ Fails \/ Register
  \/ LocalImage \/ UseCached \/ Download
  \/ CheckDisk \/ ClearDisk \/ OpenDrive \/ Lock \/ WriteImage \/ VerifyImage \/ CommitHead
  \/ FindBootVolume \/ WriteFiles \/ Reveal \/ FinishFails \/ Eject

Spec == Init /\ [][Next]_vars

----------------------------------------------------------------------------
(* "Done. Put the card in the Pi": the card just finished holds the image,    *)
(* read back, with its whole partition table, a root partition nobody was     *)
(* offered to format, and the token the console knows.  A card swapped during *)
(* the run is excepted where the finish cannot see it: on the Mac, and on     *)
(* Windows for a card an earlier flash of the same image left unfinished.     *)
DoneMeansGood ==
  pc = "done" /\ (swaps = 0 \/ (Windows /\ conf.unfinished \subseteq {conf.card})) =>
    card[mount] = [table |-> "whole", body |-> "image", files |-> token]

(* A card other than the confirmed one is erased only if it was put in after   *)
(* the identity check or cannot be told from it (same reader, size and         *)
(* signature), and written to only if it has the confirmed card's size.        *)
OtherCardsKept ==
  /\ \A c \in wiped \ swapped :
       c # conf.card => Sizes[c] = conf.size /\ conf.sig \in {Sigs[c], "image", "none"}
  /\ \A c \in written : Sizes[c] = conf.size
====
