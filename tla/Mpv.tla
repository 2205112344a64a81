-------------------------------- MODULE Mpv --------------------------------
(***************************************************************************)
(* What the player uses of mpv's playlist, as the commands it sends over   *)
(* the IPC socket change it (external: mpv itself is not in src/).  An mpv *)
(* is a record with its playlist `list` and the position `pos` it plays,   *)
(* counted from 1; pos = 0 is idle-active, possibly with entries queued.   *)
(***************************************************************************)
EXTENDS Naturals, Sequences, SequencesExt

CONSTANT NoPath

Playing(m) == m.pos # 0
PathOf(m) == IF Playing(m) THEN m.list[m.pos].path ELSE NoPath

\* loadfile <e> replace: starts playing e.
LoadReplace(m, e) == [m EXCEPT !.list = <<e>>, !.pos = 1]

\* loadfile <e> append: does not start playback.
LoadAppend(m, e) == [m EXCEPT !.list = Append(@, e)]

\* playlist-clear keeps the entry that is playing.
PlaylistClear(m) ==
  IF Playing(m) THEN [m EXCEPT !.list = <<@[m.pos]>>, !.pos = 1]
                ELSE [m EXCEPT !.list = <<>>]

HasEntry(m, i) == i \in DOMAIN m.list

\* The place an entry moved before entry `to` ends up at, and the position mpv plays then.
Spot(m, from, to) ==
  LET spot == IF from < to THEN to - 1 ELSE to IN IF spot <= Len(m.list) THEN spot ELSE Len(m.list)

PosAfterMove(pos, from, at) ==
  LET left == IF pos > from THEN pos - 1 ELSE pos
  IN IF pos = 0 THEN 0
     ELSE IF pos = from THEN at
     ELSE IF left >= at THEN left + 1 ELSE left

\* playlist-move <from> <to>: the entry takes the place of entry <to>, the end when there
\* is none; an error (no change) when there is no entry <from>.
PlaylistMove(m, from, to) ==
  LET at == Spot(m, from, to)
  IN IF ~HasEntry(m, from) THEN m
     ELSE [m EXCEPT !.list = InsertAt(RemoveAt(@, from), at, @[from]),
                    !.pos  = PosAfterMove(@, from, at)]

\* playlist-remove <i>: removing the entry that plays starts the next one; an error (no
\* change) when there is no entry <i>.
PlaylistRemove(m, i) ==
  LET rest == RemoveAt(m.list, i)
  IN IF ~HasEntry(m, i) THEN m
     ELSE [m EXCEPT !.list = rest,
                    !.pos  = IF @ > i THEN @ - 1
                             ELSE IF @ < i THEN @
                             ELSE IF rest = <<>> THEN 0
                             ELSE IF i <= Len(rest) THEN i ELSE 1]

\* The file ends: loop-playlist=inf, keep-open=no (deploy/mpv.conf).
NextFile(m) == [m EXCEPT !.pos = IF @ = Len(m.list) THEN 1 ELSE @ + 1]

\* No entry starts (no display, unreadable files): idle=yes, the entries stay queued.
GiveUp(m) == [m EXCEPT !.pos = 0]
=============================================================================
