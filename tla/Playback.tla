------------------------------ MODULE Playback ------------------------------
(***************************************************************************)
(* The player daemon keeps mpv's playlist equal to the manifest's while    *)
(* mpv goes on playing: daemon.py _reconcile_mpv decides once a cycle,     *)
(* mpv_client.py apply_playlist and remove_stale_entry edit the playlist   *)
(* one IPC command at a time, status.py puts a status screen in its place. *)
(* Between two commands mpv may reach the next file, give up, die and come *)
(* back; a reply may be lost although the command was executed; and the    *)
(* daemon itself may restart under a running mpv.                          *)
(***************************************************************************)
EXTENDS Naturals, Sequences, SequencesExt

CONSTANTS
  Paths,          \* media files
  Options,        \* per-file mpv options, as a whole
  Menus,          \* sets of item lists (files on disk only); a manifest calls for those of one
  FaultAfter,     \* idle cycles until the fault screen (4 in the code)
  RetryEvery,     \* FAULT_RETRY_CYCLES (10 in the code)
  MaxEdits,       \* bound: changes of the manifest
  MaxLosses,      \* bound: IPC replies lost
  MaxDeaths,      \* bound: deaths of mpv
  MaxGiveUps,     \* bound: times mpv gives up on its playlist
  MaxRestarts,    \* bound: restarts of the daemon
  NoPath, NoScreen, Nothing, Unknown

Screens == {"syncing", "idle", "fault"}
Playlists == UNION Menus
StaleEntry == [index : Nat, path : Paths, opts : Options, readd : BOOLEAN]

ASSUME PlaybackAssumption ==
  /\ Playlists \subseteq Seq([path : Paths, opts : Options])
  /\ FaultAfter \in Nat \ {0} /\ RetryEvery \in Nat \ {0} /\ FaultAfter < RetryEvery
  /\ NoPath \notin Paths \cup Screens /\ NoScreen \notin Screens
  /\ Nothing \notin Playlists /\ Nothing \notin StaleEntry /\ Unknown \notin Options
  /\ Paths \cap Screens = {}
  /\ MaxEdits \in Nat /\ MaxLosses \in Nat /\ MaxDeaths \in Nat /\ MaxGiveUps \in Nat /\ MaxRestarts \in Nat

\* Neither console puts a file on a playlist twice (cloud playlists.js:223, cms web.py:739).
ASSUME OnceAssumption ==
  \A m \in Playlists : \A i, j \in DOMAIN m : m[i].path = m[j].path => i = j

VARIABLES
  mpv,       \* the mpv process: up, pid and its playlist (module Mpv)
  menu,      \* the item lists a manifest may call for, as long as this goes on
  manifest,  \* the item list the last manifest calls for
  applied,   \* applied_hash: the list last pushed, or Nothing
  knownPid,  \* state.mpv_pid; 0 for none
  screen,    \* StatusScreens.current
  idle,      \* idle_cycles
  streak,    \* idle_streak
  known,     \* _entry_options: path -> options mpv has it loaded with
  stale,     \* _stale: entry to swap once playback has moved on, or Nothing
  pc,        \* where the daemon is
  cur,       \* apply_playlist's `current`
  old,       \* apply_playlist's `recorded`
  k,         \* the item a loop of loads is at
  swap,      \* the stale entry remove_stale_entry is swapping
  losses,    \* replies lost so far
  edits, deaths, giveUps, restarts    \* counted for the bounds

client == <<known, stale>>
daemon == <<applied, knownPid, screen, idle, streak>>
locals == <<cur, old, k, swap>>
counts == <<edits, deaths, giveUps, restarts>>
vars == <<mpv, menu, manifest, daemon, client, pc, locals, losses, counts>>

M == INSTANCE Mpv WITH NoPath <- NoPath

PathsOf(list) == [i \in DOMAIN list |-> list[i].path]
ScreenEntry(s) == [path |-> s, opts |-> Unknown]
NothingKnown == [p \in Paths |-> Unknown]

\* The index of path p in the manifest's list.
Target(p) == CHOOSE i \in DOMAIN manifest : manifest[i].path = p /\
               \A j \in DOMAIN manifest : manifest[j].path = p => i <= j
Wanted(p) == \E i \in DOMAIN manifest : manifest[i].path = p

Init ==
  /\ menu \in Menus /\ manifest \in menu
  /\ mpv = [up |-> TRUE, pid |-> 1, list |-> <<>>, pos |-> 0]
  /\ applied = Nothing /\ knownPid = 0 /\ screen = NoScreen
  /\ idle = 0 /\ streak = 0
  /\ known = NothingKnown /\ stale = Nothing
  /\ pc = "sleep" /\ cur = NoPath /\ old = Unknown /\ k = 0 /\ swap = Nothing
  /\ losses = 0 /\ edits = 0 /\ deaths = 0 /\ giveUps = 0 /\ restarts = 0

-----------------------------------------------------------------------------
(* mpv and the world around it.                                            *)

Environment == <<menu, manifest, daemon, client, pc, locals, losses>>

\* An image shown for an infinite time (a status screen) never ends.
FileEnds ==
  /\ mpv.up /\ M!Playing(mpv) /\ M!PathOf(mpv) \in Paths
  /\ mpv' = M!NextFile(mpv)
  /\ UNCHANGED <<Environment, counts>>

GivesUp ==
  /\ giveUps < MaxGiveUps /\ mpv.up /\ M!Playing(mpv)
  /\ mpv' = M!GiveUp(mpv) /\ giveUps' = giveUps + 1
  /\ UNCHANGED <<Environment, edits, deaths, restarts>>

MpvDies ==
  /\ deaths < MaxDeaths /\ mpv.up
  /\ mpv' = [mpv EXCEPT !.up = FALSE, !.list = <<>>, !.pos = 0]
  /\ deaths' = deaths + 1
  /\ UNCHANGED <<Environment, edits, giveUps, restarts>>

MpvStarts ==
  /\ ~mpv.up
  /\ mpv' = [mpv EXCEPT !.up = TRUE, !.pid = @ + 1]
  /\ UNCHANGED <<Environment, counts>>

\* The daemon is killed at any point and starts over; mpv goes on playing.
DaemonRestarts ==
  /\ restarts < MaxRestarts
  /\ restarts' = restarts + 1
  /\ applied' = Nothing /\ knownPid' = 0 /\ screen' = NoScreen /\ idle' = 0 /\ streak' = 0
  /\ known' = NothingKnown /\ stale' = Nothing
  /\ pc' = "sleep" /\ cur' = NoPath /\ old' = Unknown /\ k' = 0 /\ swap' = Nothing
  /\ UNCHANGED <<mpv, menu, manifest, losses, edits, deaths, giveUps>>

-----------------------------------------------------------------------------
(* One IPC command turns mpv into `new` and is answered, or the request or *)
(* its reply is lost, or there is no mpv.                                  *)

Answered(new) == mpv.up /\ mpv' = new /\ UNCHANGED losses
Unanswered(new) ==
  \/ ~mpv.up /\ UNCHANGED <<mpv, losses>>
  \/ mpv.up /\ losses < MaxLosses /\ losses' = losses + 1 /\ mpv' \in {mpv, new}

\* mpv answers with an error: it has no entry i.
Refused(i) == mpv.up /\ ~M!HasEntry(mpv, i) /\ UNCHANGED <<mpv, losses>>

\* The same for a property that is only read.
Read == mpv.up /\ UNCHANGED <<mpv, losses>>
Unread == Unanswered(mpv)

Sleep == pc' = "sleep" /\ cur' = NoPath /\ old' = Unknown /\ k' = 0 /\ swap' = Nothing

-----------------------------------------------------------------------------
(* The cycle.                                                              *)

\* run_cycle: sync_once brings another manifest, or the same, or none at all.
StartCycle ==
  /\ pc = "sleep"
  /\ \/ UNCHANGED <<manifest, edits>>
     \/ edits < MaxEdits /\ edits' = edits + 1
        /\ \E m \in menu \ {manifest} : manifest' = m
  /\ pc' \in {"progress", "reconcile"}
  /\ UNCHANGED <<mpv, menu, daemon, client, locals, losses, deaths, giveUps, restarts>>

\* load_replace forgets what it knew before it sends anything.
Forget == known' = NothingKnown /\ stale' = Nothing

StillApplied == UNCHANGED applied
\* applied_hash = None: the list is pushed again whatever it is.
PushAgain == applied' = Nothing

\* StatusScreens.show: a no-op when that screen is already up.
Showing(s) == screen = s
ShowAnswered(s) == Answered(M!LoadReplace(mpv, ScreenEntry(s))) /\ Forget /\ screen' = s
ShowUnanswered(s) == Unanswered(M!LoadReplace(mpv, ScreenEntry(s))) /\ Forget /\ UNCHANGED screen

\* on_progress: the download progress goes up only when no content is playing.
Progress ==
  /\ pc = "progress" /\ pc' = "reconcile"
  /\ LET free == mpv.up /\ (screen # NoScreen \/ ~M!Playing(mpv))
     IN \/ (~free \/ Showing("syncing"))
           /\ UNCHANGED <<mpv, losses, client, screen, applied>>
        \/ free /\ ~Showing("syncing") /\ ShowAnswered("syncing") /\ PushAgain
        \/ free /\ ~Showing("syncing") /\ ShowUnanswered("syncing") /\ UNCHANGED applied
  /\ UNCHANGED <<menu, manifest, knownPid, idle, streak, locals, counts>>

\* The streak as it is compared: below FaultAfter by value, above by value mod RetryEvery.
NextStreak == IF streak + 1 = 2 * RetryEvery THEN RetryEvery ELSE streak + 1

\* mpv does not answer is_alive.
MpvGone ==
  /\ pc = "reconcile" /\ Unread
  /\ knownPid' = 0 /\ Sleep
  /\ UNCHANGED <<menu, manifest, applied, screen, idle, streak, client, counts>>

NoteInstance ==
  IF knownPid = mpv.pid THEN [applied |-> applied, screen |-> screen]
                        ELSE [applied |-> Nothing, screen |-> NoScreen]

\* What to do about a list that is pushed already: [pc, idle, streak].
Watch(scr) ==
  IF mpv.list = <<>> THEN [pc |-> "push", idle |-> 0, streak |-> streak]
  ELSE IF scr = "fault" \/ ~M!Playing(mpv)
       THEN IF NextStreak % RetryEvery = 0
              THEN [pc |-> "push", idle |-> 0, streak |-> NextStreak]
            ELSE IF NextStreak >= FaultAfter
              THEN [pc |-> "fault", idle |-> IF idle < 2 THEN idle + 1 ELSE 2, streak |-> NextStreak]
            ELSE IF idle + 1 >= 2
              THEN [pc |-> "push", idle |-> 0, streak |-> NextStreak]
            ELSE [pc |-> "stale", idle |-> idle + 1, streak |-> NextStreak]
  ELSE [pc |-> "stale", idle |-> 0, streak |-> 0]

Reconcile ==
  /\ pc = "reconcile" /\ Read
  /\ knownPid' = mpv.pid
  /\ applied' = NoteInstance.applied /\ screen' = NoteInstance.screen
  /\ IF manifest # applied'
       THEN pc' = (IF manifest = <<>> THEN "idle" ELSE "push") /\ idle' = 0 /\ UNCHANGED streak
     ELSE LET w == Watch(screen')
          IN pc' = w.pc /\ idle' = w.idle /\ streak' = w.streak
  /\ UNCHANGED <<menu, manifest, client, locals, counts>>

\* Nothing to play: a screen that says why.  applied_hash is dropped either way.
IdleScreen ==
  /\ pc = "idle"
  /\ PushAgain
  /\ \/ Showing("idle") /\ UNCHANGED <<mpv, losses, client, screen>>
     \/ ~Showing("idle") /\ (ShowAnswered("idle") \/ ShowUnanswered("idle"))
  /\ Sleep
  /\ UNCHANGED <<menu, manifest, knownPid, idle, streak, counts>>

FaultScreen ==
  /\ pc = "fault" /\ pc' = "stale"
  /\ \/ Showing("fault") /\ UNCHANGED <<mpv, losses, client, screen>>
     \/ ~Showing("fault") /\ (ShowAnswered("fault") \/ ShowUnanswered("fault"))
  /\ UNCHANGED <<menu, manifest, applied, knownPid, idle, streak, locals, counts>>

-----------------------------------------------------------------------------
(* apply_playlist.                                                         *)

Pushed ==
  /\ applied' = manifest /\ screen' = NoScreen
  /\ Sleep

\* The push is retried next cycle.  A screen that is not what mpv holds is forgotten.
PushFails ==
  /\ screen' = IF screen # NoScreen /\ mpv'.up /\ M!PathOf(mpv') = screen THEN screen ELSE NoScreen
  /\ Sleep
  /\ UNCHANGED applied

Pushing(at) ==
  /\ pc = at
  /\ UNCHANGED <<menu, manifest, knownPid, idle, streak, counts>>

\* The path that is playing decides between a seamless and a full push.
ReadPath ==
  /\ Pushing("push")
  /\ stale' = Nothing
  /\ \/ Read /\ Wanted(M!PathOf(mpv))
        /\ cur' = M!PathOf(mpv) /\ old' = known[cur'] /\ pc' = "clear"
     \/ Read /\ ~Wanted(M!PathOf(mpv)) /\ pc' = "full" /\ UNCHANGED <<cur, old>>
     \/ Unread /\ pc' = "full" /\ UNCHANGED <<cur, old>>
  /\ UNCHANGED <<applied, screen, known, k, swap>>

Clear ==
  /\ Pushing("clear")
  /\ \/ Answered(M!PlaylistClear(mpv)) /\ pc' = "kept"
        /\ UNCHANGED <<applied, screen, locals>>
     \/ Unanswered(M!PlaylistClear(mpv)) /\ PushFails
  /\ UNCHANGED client

KeptUnseen == TRUE
\* Did playlist-clear keep the entry whose path was read before it?
KeptCurrent == M!PathOf(mpv) = cur

Kept ==
  /\ Pushing("kept")
  /\ \/ Read /\ KeptCurrent /\ pc' = "append" /\ k' = 1
     \/ Read /\ ~KeptCurrent /\ pc' = "full" /\ UNCHANGED k
     \/ Unread /\ pc' = "full" /\ UNCHANGED k
  /\ UNCHANGED <<applied, screen, client, cur, old, swap>>

\* Every item but the playing one is appended, in order.
AppendOthers ==
  /\ Pushing("append") /\ k <= Len(manifest)
  /\ \/ k = Target(cur) /\ k' = k + 1
        /\ UNCHANGED <<mpv, losses, known, applied, screen, pc, cur, old, swap>>
     \/ k # Target(cur) /\ Answered(M!LoadAppend(mpv, manifest[k])) /\ k' = k + 1
        /\ known' = [known EXCEPT ![manifest[k].path] = manifest[k].opts]
        /\ UNCHANGED <<applied, screen, pc, cur, old, swap>>
     \/ k # Target(cur) /\ Unanswered(M!LoadAppend(mpv, manifest[k])) /\ PushFails
        /\ UNCHANGED known
  /\ UNCHANGED stale

\* The index the playing entry is moved before: playlist-move 0 <target + 1>.
MoveToBefore == Target(cur)
MoveTo == Target(cur) + 1

MoveCurrent ==
  /\ Pushing("append") /\ k > Len(manifest) /\ Target(cur) > 1
  /\ \/ M!HasEntry(mpv, 1) /\ Answered(M!PlaylistMove(mpv, 1, MoveTo)) /\ pc' = "settle"
        /\ UNCHANGED <<applied, screen, locals>>
     \/ (Refused(1) \/ Unanswered(M!PlaylistMove(mpv, 1, MoveTo))) /\ PushFails
  /\ UNCHANGED client

CurrentFirst ==
  /\ Pushing("append") /\ k > Len(manifest) /\ Target(cur) = 1
  /\ pc' = "settle"
  /\ UNCHANGED <<mpv, losses, applied, screen, client, locals>>

NewOptions == manifest[Target(cur)].opts
SameIfUnknown == old = Unknown \/ old = NewOptions
OptionsKept == old # Unknown /\ old = NewOptions

\* The entry that plays has its options already.
SettleSame ==
  /\ Pushing("settle") /\ OptionsKept
  /\ known' = [known EXCEPT ![cur] = NewOptions]
  /\ Pushed
  /\ UNCHANGED <<mpv, losses, stale>>

StaleWithOldOptions(i) == [index |-> i, path |-> cur, opts |-> old, readd |-> Len(manifest) > 1]
StaleAt(i) == [index |-> i, path |-> cur, opts |-> NewOptions, readd |-> Len(manifest) > 1]

\* It keeps its old options until playback has moved on.
SettleStale ==
  /\ Pushing("settle") /\ ~OptionsKept /\ Len(manifest) > 1
  /\ stale' = StaleAt(Target(cur))
  /\ known' = [known EXCEPT ![cur] = old]
  /\ Pushed
  /\ UNCHANGED <<mpv, losses>>

\* A one-item loop never moves off its entry: the fresh one is queued behind it.
SettleOne ==
  /\ Pushing("settle") /\ ~OptionsKept /\ Len(manifest) = 1
  /\ \/ Answered(M!LoadAppend(mpv, manifest[1])) /\ stale' = StaleAt(1)
        /\ known' = [known EXCEPT ![cur] = old] /\ Pushed
     \/ Unanswered(M!LoadAppend(mpv, manifest[1])) /\ PushFails /\ UNCHANGED <<stale, known>>

\* load_full_playlist: the first item replaces the playlist, the others follow.
LoadFirst ==
  /\ Pushing("full")
  /\ stale' = Nothing
  /\ \/ Answered(M!LoadReplace(mpv, manifest[1]))
        /\ known' = [NothingKnown EXCEPT ![manifest[1].path] = manifest[1].opts]
        /\ pc' = "fill" /\ k' = 2
        /\ UNCHANGED <<applied, screen, cur, old, swap>>
     \/ Unanswered(M!LoadReplace(mpv, manifest[1]))
        /\ known' = NothingKnown
        /\ PushFails

LoadNext ==
  /\ Pushing("fill") /\ k <= Len(manifest)
  /\ \/ Answered(M!LoadAppend(mpv, manifest[k])) /\ k' = k + 1
        /\ known' = [known EXCEPT ![manifest[k].path] = manifest[k].opts]
        /\ UNCHANGED <<applied, screen, pc, cur, old, swap>>
     \/ Unanswered(M!LoadAppend(mpv, manifest[k])) /\ PushFails /\ UNCHANGED known
  /\ UNCHANGED stale

Loaded ==
  /\ Pushing("fill") /\ k > Len(manifest)
  /\ Pushed
  /\ UNCHANGED <<mpv, losses, client>>

-----------------------------------------------------------------------------
(* remove_stale_entry, when nothing had to be pushed.                      *)

Drifted == PushAgain /\ Sleep

\* playlist-pos is still the stale entry's.
StaleStillPlays(s) == mpv.pos = s.index

ReadPos ==
  /\ Pushing("stale")
  /\ \/ stale = Nothing /\ Sleep /\ UNCHANGED <<mpv, losses, stale>>
     \/ stale # Nothing /\ Unread /\ Sleep /\ UNCHANGED stale
     \/ stale # Nothing /\ Read /\ StaleStillPlays(stale) /\ Sleep /\ UNCHANGED stale
     \/ stale # Nothing /\ Read /\ ~StaleStillPlays(stale)
        /\ swap' = stale /\ stale' = Nothing /\ pc' = "remove" /\ UNCHANGED <<cur, old, k>>
  /\ UNCHANGED <<applied, screen, known>>

RemoveStale ==
  /\ Pushing("remove")
  /\ \/ M!HasEntry(mpv, swap.index) /\ Answered(M!PlaylistRemove(mpv, swap.index))
        /\ UNCHANGED applied
        /\ IF swap.readd
             THEN pc' = "readd" /\ UNCHANGED <<cur, old, k, swap, known>>
             ELSE known' = [known EXCEPT ![swap.path] = swap.opts] /\ Sleep
     \/ (Refused(swap.index) \/ Unanswered(M!PlaylistRemove(mpv, swap.index)))
        /\ Drifted /\ UNCHANGED known
  /\ UNCHANGED <<screen, stale>>

ReAdd ==
  /\ Pushing("readd")
  /\ LET e == [path |-> swap.path, opts |-> swap.opts]
     IN \/ Answered(M!LoadAppend(mpv, e)) /\ known' = [known EXCEPT ![e.path] = e.opts]
           /\ pc' = "back" /\ UNCHANGED <<applied, cur, old, k, swap>>
        \/ Unanswered(M!LoadAppend(mpv, e)) /\ known' = [known EXCEPT ![e.path] = Unknown]
           /\ Drifted
  /\ UNCHANGED <<screen, stale>>

\* The fresh entry was appended at the end; put it back in its place.
MoveBack ==
  /\ Pushing("back")
  /\ LET n == Len(mpv.list)
     IN \/ Read /\ n <= swap.index /\ Sleep /\ UNCHANGED applied
        \/ n > swap.index /\ Answered(M!PlaylistMove(mpv, n, swap.index)) /\ Sleep /\ UNCHANGED applied
        \/ Unanswered(IF n > swap.index THEN M!PlaylistMove(mpv, n, swap.index) ELSE mpv) /\ Drifted
  /\ UNCHANGED <<screen, client>>

-----------------------------------------------------------------------------
Push == \/ ReadPath \/ Clear \/ Kept \/ AppendOthers \/ MoveCurrent \/ CurrentFirst
        \/ SettleSame \/ SettleStale \/ SettleOne \/ LoadFirst \/ LoadNext \/ Loaded
Swap == ReadPos \/ RemoveStale \/ ReAdd \/ MoveBack
Cycle == StartCycle \/ Progress \/ MpvGone \/ Reconcile \/ IdleScreen \/ FaultScreen

Daemon == Cycle \/ Push \/ Swap
World == FileEnds \/ GivesUp \/ MpvDies \/ MpvStarts \/ DaemonRestarts

Next == Daemon \/ World

Spec == Init /\ [][Next]_vars

\* The daemon's loop goes on, systemd restarts mpv.
FairSpec == Spec /\ WF_vars(Daemon) /\ WF_vars(MpvStarts)

-----------------------------------------------------------------------------
(* Properties.                                                             *)

Entry == [path : Paths \cup Screens, opts : Options \cup {Unknown}]

\* Type correctness of mpv's playlist and of everything the daemon remembers about it.
TypeOK ==
  /\ mpv.up \in BOOLEAN /\ mpv.pid \in 1..(MaxDeaths + 1)
  /\ mpv.list \in Seq(Entry) /\ mpv.pos \in 0..Len(mpv.list)
  /\ menu \in Menus /\ manifest \in menu /\ applied \in menu \cup {Nothing}
  /\ knownPid \in 0..(MaxDeaths + 1) /\ screen \in Screens \cup {NoScreen}
  /\ idle \in 0..2 /\ streak \in 0..(2 * RetryEvery - 1)
  /\ known \in [Paths -> Options \cup {Unknown}]
  /\ stale \in StaleEntry \cup {Nothing} /\ swap \in StaleEntry \cup {Nothing}
  /\ pc \in {"sleep", "progress", "reconcile", "idle", "fault", "push", "clear", "kept",
             "append", "settle", "full", "fill", "stale", "remove", "readd", "back"}
  /\ cur \in Paths \cup {NoPath} /\ old \in Options \cup {Unknown} /\ k \in Nat

\* The daemon is between two cycles and believes `applied` is in this mpv.
AtRest == pc = "sleep" /\ applied # Nothing /\ mpv.up /\ knownPid = mpv.pid /\ screen = NoScreen

OneStale == stale # Nothing /\ ~stale.readd

\* mpv's playlist for a list: in order, a one-item list with its superseded entry in front
\* until playback has moved off it.
Holds(list) == \/ PathsOf(mpv.list) = PathsOf(list) /\ ~OneStale
               \/ PathsOf(mpv.list) = PathsOf(list \o list) /\ OneStale

\* Whatever mpv played meanwhile and wherever a push or a swap was cut short, at rest mpv's
\* playlist is the list that applied_hash says was pushed, in order and without duplicates
\* (apply_playlist, remove_stale_entry, _reconcile_mpv).
AppliedListRight == AtRest => Holds(applied)

\* At rest every entry carries the options the list gives its file, but for the one entry
\* that remove_stale_entry has still to swap.
AppliedOptionsRight ==
  AtRest => \A i \in DOMAIN mpv.list : \A j \in DOMAIN applied :
    (mpv.list[i].path = applied[j].path /\ ~(stale # Nothing /\ stale.index = i))
      => mpv.list[i].opts = applied[j].opts

\* So it is of loops, whatever mpv played meanwhile and wherever a push or a swap was cut
\* short (apply_playlist's and remove_stale_entry's _entry_options bookkeeping); one-item lists,
\* whose superseded entry shares its path with the fresh one, do mislead that bookkeeping.
LoopOptionsRight == (\A m \in menu : Len(m) # 1) => AppliedOptionsRight

ScreenLoaded == \E s \in Screens : PathsOf(mpv.list) = <<s>>

\* Once the manifest, mpv and the daemon are left alone, mpv comes by itself to play the
\* manifest's list for good, or to hold a status screen for good when there is nothing to
\* play: no screen and no idle mpv outlives its reason (_reconcile_mpv's streak and retries).
ContentComesBack ==
  <>[](/\ mpv.up
       /\ IF manifest = <<>> THEN ScreenLoaded ELSE M!Playing(mpv) /\ Holds(manifest))
=============================================================================
