--------------------------- MODULE PlaybackProofs ---------------------------
(***************************************************************************)
(* Machine-checked facts about Playback for any files, options and item    *)
(* lists, and any number of edits, deaths, give-ups, restarts and lost     *)
(* replies.  A push or a swap takes several commands; the invariants say   *)
(* how far mpv's playlist has got at each of them, and what the client's   *)
(* memory of it (_entry_options, _stale) is worth.                         *)
(***************************************************************************)
EXTENDS Playback, SequenceTheorems, TLAPS

-----------------------------------------------------------------------------
(* The inductive invariant.                                                *)

Sane(m) == m \in [up : BOOLEAN, pid : Nat, list : Seq(Entry), pos : Nat] /\ m.pos <= Len(m.list)

Keeping == {"clear", "kept", "append", "settle"}
Loading == {"full", "fill"}
Swapping == {"remove", "readd", "back"}
Settled == {"sleep", "progress", "reconcile", "fault", "stale"}

\* The pid counts mpv's deaths; an mpv that is down holds nothing.
Instances ==
  /\ Sane(mpv)
  /\ deaths \in 0..MaxDeaths /\ losses \in Nat
  /\ mpv.pid = (IF mpv.up THEN deaths + 1 ELSE deaths)
  /\ ~mpv.up => mpv.list = <<>> /\ mpv.pos = 0 /\ deaths > 0
  /\ knownPid <= mpv.pid

\* A superseded entry is the one its list has at that place, with the list's options.
Fits(s, list) ==
  /\ s.index \in 1..Len(list)
  /\ list[s.index] = [path |-> s.path, opts |-> s.opts]
  /\ s.readd <=> Len(list) > 1

\* Where a push or a swap is and what it works on.
Phases ==
  /\ pc \in Keeping \cup Loading \cup {"push"} => manifest # <<>>
  /\ pc \in Keeping => cur \in Paths /\ Wanted(cur)
  /\ pc \in Keeping \cup Loading => stale = Nothing
  /\ pc = "append" => k \in 1..(Len(manifest) + 1)
  /\ pc = "fill" => k \in 2..(Len(manifest) + 1)
  /\ pc = "kept" => Len(mpv.list) <= 1
  /\ pc \in {"fault", "stale"} => applied # Nothing
  /\ pc \in Swapping => applied # Nothing /\ swap # Nothing /\ stale = Nothing /\ screen = NoScreen
  /\ pc \in Swapping /\ applied # Nothing /\ swap # Nothing => Fits(swap, applied)
  /\ pc \in {"readd", "back"} => swap.readd

Memory ==
  /\ applied # Nothing => applied # <<>>
  /\ stale # Nothing => screen = NoScreen
  /\ stale # Nothing /\ applied # Nothing => Fits(stale, applied)

Typed == TypeOK /\ Instances /\ Phases /\ Memory

-----------------------------------------------------------------------------
\* The mpv that the daemon saw last is still the same.
Mine == mpv.up /\ knownPid = mpv.pid

\* playlist-clear and the loads after it: the entry that plays, then the items before k.
Appended ==
  LET t == Target(cur) IN
  /\ Len(mpv.list) = (IF t < k THEN k - 1 ELSE k)
  /\ mpv.list[1].path = cur
  /\ \A i \in 1..(k - 1) : /\ i < t => mpv.list[i + 1] = manifest[i]
                           /\ i > t => mpv.list[i] = manifest[i]

\* Everything is in its place but for the options of the entry that plays.
Placed ==
  /\ Len(mpv.list) = Len(manifest)
  /\ mpv.list[Target(cur)].path = cur
  /\ \A i \in 1..Len(manifest) : i # Target(cur) => mpv.list[i] = manifest[i]

Filled ==
  /\ Len(mpv.list) = k - 1
  /\ \A i \in 1..(k - 1) : mpv.list[i] = manifest[i]

\* The list without the entry that is swapped.
Gap(i) == IF i < swap.index THEN i ELSE i + 1

\* What an mpv that is still the same has got to.
Progressed ==
  /\ pc \in Settled /\ applied # Nothing /\ screen = NoScreen => Holds(applied)
  /\ pc = "append" => Appended
  /\ pc = "settle" => Placed
  /\ pc = "fill" => Filled
  /\ pc = "remove" => PathsOf(mpv.list) = PathsOf(IF swap.readd THEN applied ELSE applied \o applied)
  /\ pc = "readd" => /\ Len(mpv.list) = Len(applied) - 1
                     /\ \A i \in 1..(Len(applied) - 1) : mpv.list[i].path = applied[Gap(i)].path
  /\ pc = "back" => /\ Len(mpv.list) = Len(applied)
                    /\ \A i \in 1..(Len(applied) - 1) : mpv.list[i].path = applied[Gap(i)].path
                    /\ mpv.list[Len(applied)].path = swap.path

ListRight == losses = 0 /\ Mine => Progressed

-----------------------------------------------------------------------------
Loops == \A m \in menu : Len(m) # 1

\* What the client remembers of a file's options is what mpv has it loaded with.
KnownTrue ==
  \A i \in DOMAIN mpv.list : \A p \in Paths :
    mpv.list[i].path = p /\ known[p] # Unknown => mpv.list[i].opts = known[p]

OldTrue ==
  pc \in Keeping /\ old # Unknown =>
    \A i \in DOMAIN mpv.list : mpv.list[i].path = cur => mpv.list[i].opts = old

\* A load never meets its own file in the list.
LoadedBefore ==
  /\ pc = "append" => \A i \in DOMAIN mpv.list :
       \/ mpv.list[i].path = cur
       \/ \E j \in 1..(k - 1) : j # Target(cur) /\ mpv.list[i].path = manifest[j].path
  /\ pc = "fill" => \A i \in DOMAIN mpv.list : \E j \in 1..(k - 1) : mpv.list[i].path = manifest[j].path
  /\ pc = "readd" => \A i \in DOMAIN mpv.list : mpv.list[i].path # swap.path

\* A new mpv, come up since the cycle began, holds nothing a swap could touch.
Vanished == ~Mine /\ (pc \in {"remove", "readd"} \/ (pc = "stale" /\ stale # Nothing)) => mpv.list = <<>>

InPlace == \A i \in DOMAIN mpv.list : ~(stale # Nothing /\ stale.index = i) => mpv.list[i].opts = applied[i].opts

OptionsInPlace ==
  Mine =>
    /\ pc \in Settled /\ applied # Nothing /\ screen = NoScreen => InPlace
    /\ pc = "remove" => \A i \in DOMAIN mpv.list : i # swap.index => mpv.list[i].opts = applied[i].opts
    /\ pc \in {"readd", "back"} => \A i \in 1..(Len(applied) - 1) : mpv.list[i].opts = applied[Gap(i)].opts
    /\ pc = "back" => mpv.list[Len(applied)].opts = swap.opts

Truthful == KnownTrue /\ OldTrue /\ LoadedBefore /\ Vanished /\ OptionsInPlace

OptionsTrue == losses = 0 /\ Loops => Truthful

-----------------------------------------------------------------------------
(* mpv's list, command by command.                                         *)

\* A list without its entry i.
LEMMA WithoutEntry ==
  ASSUME NEW s \in Seq(Entry), NEW i \in 1..Len(s)
  PROVE  /\ RemoveAt(s, i) \in Seq(Entry)
         /\ Len(RemoveAt(s, i)) = Len(s) - 1
         /\ \A j \in 1..(Len(s) - 1) : RemoveAt(s, i)[j] = IF j < i THEN s[j] ELSE s[j + 1]
<1> DEFINE u == SubSeq(s, 1, i - 1)
           v == SubSeq(s, i + 1, Len(s))
<1>1. Len(s) \in Nat /\ i \in Nat /\ i >= 1 /\ i <= Len(s) /\ \A j \in 1..Len(s) : s[j] \in Entry
  BY ElementOfSeq, LenProperties
<1>2. /\ u \in Seq(Entry) /\ Len(u) = i - 1
      /\ \A j \in 1..(i - 1) : u[j] = s[j]
  <2>1. \A j \in 1..(i - 1) : s[j] \in Entry
    BY <1>1
  <2>2. QED
    <3>1. /\ u \in Seq(Entry) /\ Len(u) = (IF 1 <= i - 1 THEN (i - 1) - 1 + 1 ELSE 0)
          /\ \A j \in 1..((i - 1) - 1 + 1) : u[j] = s[1 + j - 1]
      BY <1>1, <2>1, SubSeqProperties
    <3>2. QED
      BY <1>1, <3>1
<1>3. /\ v \in Seq(Entry) /\ Len(v) = Len(s) - i
      /\ \A j \in 1..(Len(s) - i) : v[j] = s[j + i]
  <2>1. \A j \in (i + 1)..Len(s) : s[j] \in Entry
    BY <1>1
  <2>2. /\ v \in Seq(Entry) /\ Len(v) = (IF i + 1 <= Len(s) THEN Len(s) - (i + 1) + 1 ELSE 0)
        /\ \A j \in 1..(Len(s) - (i + 1) + 1) : v[j] = s[(i + 1) + j - 1]
    BY <1>1, <2>1, SubSeqProperties
  <2>3. \A j \in 1..(Len(s) - i) : j \in 1..(Len(s) - (i + 1) + 1) /\ (i + 1) + j - 1 = j + i
    BY <1>1
  <2>4. QED
    BY <1>1, <2>2, <2>3
<1>4. RemoveAt(s, i) = u \o v
  BY DEF RemoveAt
<1>5. /\ u \o v \in Seq(Entry) /\ Len(u \o v) = Len(u) + Len(v)
      /\ \A j \in 1..(Len(u) + Len(v)) : (u \o v)[j] = IF j <= Len(u) THEN u[j] ELSE v[j - Len(u)]
  BY <1>2, <1>3, ConcatProperties
<1> HIDE DEF u, v
<1>6. QED
  BY <1>1, <1>2, <1>3, <1>4, <1>5

\* A list with e put in at place i.
LEMMA WithEntry ==
  ASSUME NEW s \in Seq(Entry), NEW i \in 1..(Len(s) + 1), NEW e \in Entry
  PROVE  /\ InsertAt(s, i, e) \in Seq(Entry)
         /\ Len(InsertAt(s, i, e)) = Len(s) + 1
         /\ \A j \in 1..(Len(s) + 1) :
              InsertAt(s, i, e)[j] = IF j < i THEN s[j] ELSE IF j = i THEN e ELSE s[j - 1]
<1> DEFINE u == SubSeq(s, 1, i - 1)
           v == SubSeq(s, i, Len(s))
           x == <<e>>
           w == u \o x
<1>1. Len(s) \in Nat /\ i \in Nat /\ i >= 1 /\ i <= Len(s) + 1 /\ \A j \in 1..Len(s) : s[j] \in Entry
  BY ElementOfSeq, LenProperties
<1>2. /\ u \in Seq(Entry) /\ Len(u) = i - 1
      /\ \A j \in 1..(i - 1) : u[j] = s[j]
  <2>1. \A j \in 1..(i - 1) : s[j] \in Entry
    BY <1>1
  <2>2. QED
    BY <1>1, <2>1, SubSeqProperties
<1>3. /\ v \in Seq(Entry) /\ Len(v) = Len(s) - i + 1
      /\ \A j \in 1..(Len(s) - i + 1) : v[j] = s[i + j - 1]
  <2>1. \A j \in i..Len(s) : s[j] \in Entry
    BY <1>1
  <2>2. QED
    BY <1>1, <2>1, SubSeqProperties
<1>4. x \in Seq(Entry) /\ Len(x) = 1 /\ x[1] = e
  OBVIOUS
<1>5. /\ w \in Seq(Entry) /\ Len(w) = i
      /\ \A j \in 1..i : w[j] = IF j < i THEN s[j] ELSE e
  <2>1. /\ w \in Seq(Entry) /\ Len(w) = Len(u) + 1
        /\ \A j \in 1..(Len(u) + 1) : w[j] = IF j <= Len(u) THEN u[j] ELSE x[j - Len(u)]
    BY <1>2, <1>4, ConcatProperties
  <2> HIDE DEF u, x, w
  <2>2. QED
    BY <1>1, <1>2, <1>4, <2>1
<1>6. InsertAt(s, i, e) = w \o v
  BY DEF InsertAt
<1> HIDE DEF u, v, w, x
<1>7. /\ w \o v \in Seq(Entry) /\ Len(w \o v) = Len(w) + Len(v)
      /\ \A j \in 1..(Len(w) + Len(v)) : (w \o v)[j] = IF j <= Len(w) THEN w[j] ELSE v[j - Len(w)]
  BY <1>3, <1>5, ConcatProperties
<1>8. QED
  BY <1>1, <1>3, <1>5, <1>6, <1>7

\* Whatever the command, the instance of mpv is the same after it.
SameInstance(m, n) == Sane(n) /\ n.up = m.up /\ n.pid = m.pid

\* A command changes the list and the position alone.
Edit(m, l, q) == [m EXCEPT !.list = l, !.pos = q]

LEMMA Edited ==
  ASSUME NEW m, Sane(m), NEW l \in Seq(Entry), NEW q \in Nat, q <= Len(l)
  PROVE  SameInstance(m, Edit(m, l, q)) /\ Edit(m, l, q).list = l /\ Edit(m, l, q).pos = q
<1> DEFINE n == Edit(m, l, q)
<1>1. m \in [up : BOOLEAN, pid : Nat, list : Seq(Entry), pos : Nat]
  BY DEF Sane
<1>2. n \in [up : BOOLEAN, pid : Nat, list : Seq(Entry), pos : Nat]
  BY <1>1 DEF Edit
<1>3. n.up = m.up /\ n.pid = m.pid /\ n.list = l /\ n.pos = q
  BY <1>1 DEF Edit
<1> HIDE DEF n
<1>4. SameInstance(m, n)
  BY <1>2, <1>3 DEF SameInstance, Sane
<1>5. QED
  BY <1>3, <1>4 DEF n

LEMMA FirstLoaded ==
  ASSUME NEW m, Sane(m), NEW e \in Entry
  PROVE  LET n == M!LoadReplace(m, e)
         IN SameInstance(m, n) /\ Len(n.list) = 1 /\ n.list[1] = e /\ n.pos = 1
<1> DEFINE x == <<e>>
<1>1. x \in Seq(Entry) /\ Len(x) = 1 /\ x[1] = e
  OBVIOUS
<1>2. M!LoadReplace(m, e) = Edit(m, x, 1)
  BY DEF M!LoadReplace, Edit
<1> HIDE DEF x
<1>3. QED
  BY <1>1, <1>2, Edited

LEMMA Queued ==
  ASSUME NEW m, Sane(m), NEW e \in Entry
  PROVE  LET n == M!LoadAppend(m, e)
         IN /\ SameInstance(m, n) /\ n.pos = m.pos
            /\ Len(n.list) = Len(m.list) + 1
            /\ \A i \in 1..Len(m.list) : n.list[i] = m.list[i]
            /\ n.list[Len(m.list) + 1] = e
<1> DEFINE x == Append(m.list, e)
<1>1. /\ x \in Seq(Entry) /\ Len(x) = Len(m.list) + 1
      /\ \A i \in 1..Len(m.list) : x[i] = m.list[i]
      /\ x[Len(m.list) + 1] = e
  BY AppendProperties DEF Sane
<1>2. M!LoadAppend(m, e) = Edit(m, x, m.pos)
  BY DEF M!LoadAppend, Sane, Edit
<1>3. m.list \in Seq(Entry) /\ Len(m.list) \in Nat
  BY LenProperties DEF Sane
<1>4. m.pos \in Nat /\ m.pos <= Len(x)
  BY <1>1, <1>3 DEF Sane
<1> HIDE DEF x
<1>5. QED
  BY <1>1, <1>2, <1>4, Edited

LEMMA Cleared ==
  ASSUME NEW m, Sane(m)
  PROVE  LET n == M!PlaylistClear(m)
         IN /\ SameInstance(m, n) /\ Len(n.list) <= 1
            /\ \A i \in 1..Len(n.list) : \E j \in 1..Len(m.list) : n.list[i] = m.list[j]
<1>1. CASE M!Playing(m)
  <2> DEFINE x == <<m.list[m.pos]>>
  <2>1. m.pos \in 1..Len(m.list) /\ m.list[m.pos] \in Entry
    BY <1>1, ElementOfSeq DEF Sane, M!Playing
  <2>2. x \in Seq(Entry) /\ Len(x) = 1 /\ x[1] = m.list[m.pos]
    BY <2>1
  <2>3. M!PlaylistClear(m) = Edit(m, x, 1)
    BY <1>1 DEF M!PlaylistClear, Edit
  <2>4. \A i \in 1..Len(x) : x[i] = m.list[m.pos]
    BY <2>2
  <2> HIDE DEF x
  <2>5. SameInstance(m, Edit(m, x, 1)) /\ Edit(m, x, 1).list = x
    BY <2>2, Edited
  <2>6. \A i \in 1..Len(x) : \E j \in 1..Len(m.list) : x[i] = m.list[j]
    BY <2>1, <2>4
  <2>7. Len(x) <= 1
    BY <2>2
  <2>8. QED
    BY <2>3, <2>5, <2>6, <2>7
<1>2. CASE ~M!Playing(m)
  <2> DEFINE x == <<>>
  <2>1. M!PlaylistClear(m) = Edit(m, x, 0)
    BY <1>2 DEF M!PlaylistClear, M!Playing, Sane, Edit
  <2>2. x \in Seq(Entry) /\ Len(x) = 0
    BY EmptySeq
  <2>3. 1..Len(x) = {} /\ 0 \in Nat /\ 0 <= Len(x) /\ Len(x) <= 1
    BY <2>2
  <2>6. x \in Seq(Entry)
    BY <2>2
  <2> HIDE DEF x
  <2>4. SameInstance(m, Edit(m, x, 0)) /\ Edit(m, x, 0).list = x
    BY <2>6, <2>3, Edited
  <2>5. QED
    BY <2>1, <2>3, <2>4
<1>3. QED
  BY <1>1, <1>2

\* n's list is m's with the entry at `from` taken out and put at `at`.
MovedTo(m, n, from, at) ==
  /\ SameInstance(m, n) /\ Len(n.list) = Len(m.list) /\ at \in 1..Len(m.list)
  /\ \A i \in 1..Len(m.list) :
       n.list[i] = IF i = at THEN m.list[from]
                   ELSE LET j == IF i < at THEN i ELSE i - 1
                        IN IF j < from THEN m.list[j] ELSE m.list[j + 1]

LEMMA Moved ==
  ASSUME NEW m, Sane(m), NEW from \in 1..Len(m.list), NEW to \in Nat \ {0}
  PROVE  MovedTo(m, M!PlaylistMove(m, from, to), from, M!Spot(m, from, to))
<1> DEFINE at == M!Spot(m, from, to)
           rest == RemoveAt(m.list, from)
           new == InsertAt(rest, at, m.list[from])
           on == M!PosAfterMove(m.pos, from, at)
<1>1. m.list \in Seq(Entry) /\ Len(m.list) \in Nat /\ m.list[from] \in Entry
  BY LenProperties, ElementOfSeq DEF Sane
<1>2. at \in 1..Len(m.list)
  BY <1>1 DEF M!Spot
<1>3. /\ rest \in Seq(Entry) /\ Len(rest) = Len(m.list) - 1
      /\ \A j \in 1..(Len(m.list) - 1) : rest[j] = IF j < from THEN m.list[j] ELSE m.list[j + 1]
  BY <1>1, WithoutEntry
<1>4. /\ new \in Seq(Entry) /\ Len(new) = Len(rest) + 1
      /\ \A j \in 1..(Len(rest) + 1) :
           new[j] = IF j < at THEN rest[j] ELSE IF j = at THEN m.list[from] ELSE rest[j - 1]
  <2>1. at \in 1..(Len(rest) + 1)
    BY <1>1, <1>2, <1>3
  <2>2. rest \in Seq(Entry) /\ m.list[from] \in Entry
    BY <1>1, <1>3
  <2> DEFINE e == m.list[from]
  <2>3. new = InsertAt(rest, at, e) /\ e = m.list[from]
    OBVIOUS
  <2>4. rest \in Seq(Entry) /\ e \in Entry
    BY <2>2
  <2> HIDE DEF rest, at, e, new
  <2>5. /\ InsertAt(rest, at, e) \in Seq(Entry)
        /\ Len(InsertAt(rest, at, e)) = Len(rest) + 1
        /\ \A j \in 1..(Len(rest) + 1) :
             InsertAt(rest, at, e)[j] = IF j < at THEN rest[j] ELSE IF j = at THEN e ELSE rest[j - 1]
    BY <2>1, <2>4, WithEntry
  <2>6. QED
    BY <2>3, <2>5
<1>5. on \in 0..Len(m.list)
  BY <1>1, <1>2 DEF Sane, M!PosAfterMove
<1>6. M!PlaylistMove(m, from, to) = Edit(m, new, on)
  <2>1. M!HasEntry(m, from)
    BY <1>1, LenProperties DEF M!HasEntry
  <2>2. QED
    BY <2>1 DEF M!PlaylistMove, Edit, M!InsertAt, M!RemoveAt, InsertAt, RemoveAt
<1> HIDE DEF rest, new, on
<1>7. \A i \in 1..Len(m.list) :
        new[i] = IF i = at THEN m.list[from]
                 ELSE LET j == IF i < at THEN i ELSE i - 1
                      IN IF j < from THEN m.list[j] ELSE m.list[j + 1]
  <2> HIDE DEF at
  <2> TAKE i \in 1..Len(m.list)
  <2>1. CASE i = at
    BY <1>1, <1>2, <1>3, <1>4, <2>1
  <2>2. CASE i < at
    <3>1. new[i] = rest[i] /\ i \in 1..(Len(m.list) - 1)
      BY <1>1, <1>2, <1>3, <1>4, <2>2
    <3>2. QED
      BY <1>2, <1>3, <2>2, <3>1
  <2>3. CASE i > at
    <3>1. new[i] = rest[i - 1] /\ i - 1 \in 1..(Len(m.list) - 1)
      BY <1>1, <1>2, <1>3, <1>4, <2>3
    <3>2. QED
      BY <1>2, <1>3, <2>3, <3>1
  <2>4. QED
    BY <1>2, <2>1, <2>2, <2>3
<1> HIDE DEF at
<1>8. SameInstance(m, M!PlaylistMove(m, from, to)) /\ M!PlaylistMove(m, from, to).list = new
  <2>1. on \in Nat /\ on <= Len(new)
    BY <1>1, <1>3, <1>4, <1>5
  <2>2. QED
    BY <1>4, <1>6, <2>1, Edited
<1> DEFINE n == M!PlaylistMove(m, from, to)
<1> HIDE DEF n
<1>9. MovedTo(m, n, from, at)
  <2>1. SameInstance(m, n) /\ n.list = new
    BY <1>8 DEF n
  <2>2. Len(n.list) = Len(m.list)
    BY <1>1, <1>3, <1>4, <2>1
  <2>3. QED
    BY <1>2, <1>7, <2>1, <2>2 DEF MovedTo
<1>10. QED
  BY <1>9 DEF at, n

LEMMA MovedSame ==
  ASSUME NEW m, Sane(m), NEW from \in 1..Len(m.list), NEW to \in Nat \ {0}
  PROVE  SameInstance(m, M!PlaylistMove(m, from, to))
<1>1. MovedTo(m, M!PlaylistMove(m, from, to), from, M!Spot(m, from, to))
  BY Moved
<1> DEFINE n == M!PlaylistMove(m, from, to)
           at == M!Spot(m, from, to)
<1>2. MovedTo(m, n, from, at)
  BY <1>1
<1> HIDE DEF n, at
<1>3. SameInstance(m, n)
  BY <1>2 DEF MovedTo
<1>4. QED
  BY <1>3 DEF n

LEMMA Removed ==
  ASSUME NEW m, Sane(m), NEW i \in 1..Len(m.list)
  PROVE  LET n == M!PlaylistRemove(m, i)
         IN /\ SameInstance(m, n) /\ Len(n.list) = Len(m.list) - 1
            /\ \A j \in 1..(Len(m.list) - 1) : n.list[j] = IF j < i THEN m.list[j] ELSE m.list[j + 1]
<1> DEFINE rest == RemoveAt(m.list, i)
           on == IF m.pos > i THEN m.pos - 1
                 ELSE IF m.pos < i THEN m.pos
                 ELSE IF rest = <<>> THEN 0
                 ELSE IF i <= Len(rest) THEN i ELSE 1
<1>1. m.list \in Seq(Entry) /\ Len(m.list) \in Nat
  BY LenProperties DEF Sane
<1>2. /\ rest \in Seq(Entry) /\ Len(rest) = Len(m.list) - 1
      /\ \A j \in 1..(Len(m.list) - 1) : rest[j] = IF j < i THEN m.list[j] ELSE m.list[j + 1]
  BY <1>1, WithoutEntry
<1>3. on \in Nat /\ on <= Len(rest)
  <2>1. rest # <<>> => Len(rest) >= 1
    BY <1>2, EmptySeq
  <2> HIDE DEF rest
  <2>2. QED
    BY <1>1, <1>2, <2>1 DEF Sane
<1>4. M!PlaylistRemove(m, i) = Edit(m, rest, on)
  <2>1. M!HasEntry(m, i)
    BY <1>1, LenProperties DEF M!HasEntry
  <2>2. QED
    BY <2>1 DEF M!PlaylistRemove, Edit, M!RemoveAt, RemoveAt
<1> HIDE DEF rest, on
<1>5. SameInstance(m, Edit(m, rest, on)) /\ Edit(m, rest, on).list = rest
  BY <1>2, <1>3, Edited
<1>6. QED
  BY <1>2, <1>4, <1>5

\* playlist-remove and playlist-move of an entry mpv has not.
LEMMA NotThere ==
  ASSUME NEW m, Sane(m), NEW i, ~M!HasEntry(m, i), NEW to
  PROVE  M!PlaylistRemove(m, i) = m /\ M!PlaylistMove(m, i, to) = m
BY DEF M!PlaylistRemove, M!PlaylistMove

LEMMA WentOn ==
  ASSUME NEW m, Sane(m), M!Playing(m)
  PROVE  SameInstance(m, M!NextFile(m)) /\ M!NextFile(m).list = m.list
<1> DEFINE on == IF m.pos = Len(m.list) THEN 1 ELSE m.pos + 1
<1>1. m.list \in Seq(Entry) /\ Len(m.list) \in Nat
  BY LenProperties DEF Sane
<1>2. on \in Nat /\ on <= Len(m.list)
  BY <1>1 DEF Sane, M!Playing
<1>3. M!NextFile(m) = Edit(m, m.list, on)
  BY DEF M!NextFile, Edit, Sane
<1> HIDE DEF on
<1>4. QED
  BY <1>1, <1>2, <1>3, Edited

LEMMA GaveUp ==
  ASSUME NEW m, Sane(m)
  PROVE  SameInstance(m, M!GiveUp(m)) /\ M!GiveUp(m).list = m.list
<1>1. m.list \in Seq(Entry) /\ 0 \in Nat /\ 0 <= Len(m.list)
  BY LenProperties DEF Sane
<1>2. M!GiveUp(m) = Edit(m, m.list, 0)
  BY DEF M!GiveUp, Edit, Sane
<1>3. QED
  BY <1>1, <1>2, Edited

-----------------------------------------------------------------------------
\* The same entry, wherever a command left it.
LEMMA MovedOn ==
  ASSUME NEW m, Sane(m), NEW t \in 2..Len(m.list)
  PROVE  LET n == M!PlaylistMove(m, 1, t + 1)
         IN /\ SameInstance(m, n) /\ Len(n.list) = Len(m.list)
            /\ n.list[t] = m.list[1]
            /\ \A i \in 1..Len(m.list) : /\ i < t => n.list[i] = m.list[i + 1]
                                         /\ i > t => n.list[i] = m.list[i]
<1>1. Len(m.list) \in Nat
  BY LenProperties DEF Sane
<1>2. 1 \in 1..Len(m.list) /\ t + 1 \in Nat \ {0} /\ M!Spot(m, 1, t + 1) = t
  BY <1>1 DEF M!Spot
<1> DEFINE n == M!PlaylistMove(m, 1, t + 1)
<1>3. MovedTo(m, M!PlaylistMove(m, 1, t + 1), 1, M!Spot(m, 1, t + 1))
  BY <1>2, Moved
<1>4. MovedTo(m, n, 1, t)
  BY <1>2, <1>3
<1> HIDE DEF n
<1>5. n.list[t] = m.list[1]
  BY <1>1, <1>4 DEF MovedTo
<1>6. \A i \in 1..Len(m.list) : /\ i < t => n.list[i] = m.list[i + 1]
                                /\ i > t => n.list[i] = m.list[i]
  BY <1>1, <1>4 DEF MovedTo
<1>7. SameInstance(m, n) /\ Len(n.list) = Len(m.list)
  BY <1>4 DEF MovedTo
<1>8. QED
  BY <1>5, <1>6, <1>7 DEF n

LEMMA MovedBack ==
  ASSUME NEW m, Sane(m), NEW t \in 1..(Len(m.list) - 1)
  PROVE  LET n == M!PlaylistMove(m, Len(m.list), t)
         IN /\ SameInstance(m, n) /\ Len(n.list) = Len(m.list)
            /\ n.list[t] = m.list[Len(m.list)]
            /\ \A i \in 1..Len(m.list) : /\ i < t => n.list[i] = m.list[i]
                                         /\ i > t => n.list[i] = m.list[i - 1]
<1>1. Len(m.list) \in Nat
  BY LenProperties DEF Sane
<1>2. Len(m.list) \in 1..Len(m.list) /\ t \in Nat \ {0} /\ M!Spot(m, Len(m.list), t) = t
  BY <1>1 DEF M!Spot
<1> DEFINE n == M!PlaylistMove(m, Len(m.list), t)
           h == Len(m.list)
<1>3. MovedTo(m, M!PlaylistMove(m, Len(m.list), t), Len(m.list), M!Spot(m, Len(m.list), t))
  BY <1>2, Moved
<1>4. MovedTo(m, n, h, t)
  BY <1>2, <1>3
<1> HIDE DEF n
<1>5. n.list[t] = m.list[h]
  BY <1>1, <1>4 DEF MovedTo
<1>6. \A i \in 1..h : /\ i < t => n.list[i] = m.list[i]
                      /\ i > t => n.list[i] = m.list[i - 1]
  BY <1>1, <1>4 DEF MovedTo
<1>7. SameInstance(m, n) /\ Len(n.list) = Len(m.list)
  BY <1>4 DEF MovedTo
<1>8. QED
  BY <1>5, <1>6, <1>7 DEF n

-----------------------------------------------------------------------------
(* Types.                                                                  *)

Item == [path : Paths, opts : Options]

LEMMA ListType ==
  ASSUME menu \in Menus, NEW list \in menu
  PROVE  /\ list \in Playlists /\ list \in Seq(Item) /\ Len(list) \in Nat /\ DOMAIN list = 1..Len(list)
         /\ \A i \in 1..Len(list) : list[i] \in Item /\ list[i].path \in Paths /\ list[i].opts \in Options
         /\ \A i \in 1..Len(list) : list[i] \in Entry
         /\ list # <<>> => Len(list) >= 1
<1>1. list \in Playlists
  BY DEF Playlists
<1>2. list \in Seq(Item)
  BY <1>1, PlaybackAssumption DEF Item
<1>3. Len(list) \in Nat /\ DOMAIN list = 1..Len(list)
  BY <1>2, LenProperties
<1>4. \A i \in 1..Len(list) : list[i] \in Item
  BY <1>2, ElementOfSeq
<1>5. \A e \in Item : e.path \in Paths /\ e.opts \in Options /\ e \in Entry
  BY DEF Item, Entry
<1>6. list # <<>> => Len(list) >= 1
  BY <1>2, EmptySeq
<1>7. QED
  BY <1>1, <1>2, <1>3, <1>4, <1>5, <1>6

\* An item of the manifest's list is at one place only.
LEMMA TargetIs ==
  ASSUME menu \in Menus, manifest \in menu, NEW p, Wanted(p)
  PROVE  /\ Target(p) \in 1..Len(manifest)
         /\ manifest[Target(p)].path = p
         /\ \A i \in 1..Len(manifest) : i # Target(p) => manifest[i].path # p
<1>1. manifest \in Playlists /\ Len(manifest) \in Nat /\ DOMAIN manifest = 1..Len(manifest)
  BY ListType
<1>2. PICK i \in DOMAIN manifest : manifest[i].path = p
  BY DEF Wanted
<1>3. \A j \in DOMAIN manifest : manifest[j].path = p => i = j
  BY <1>1, <1>2, OnceAssumption
<1>4. \A j \in DOMAIN manifest : manifest[j].path = p => i <= j
  BY <1>1, <1>2, <1>3
<1>5. Target(p) \in DOMAIN manifest /\ manifest[Target(p)].path = p
  BY <1>2, <1>4 DEF Target
<1>6. QED
  BY <1>1, <1>3, <1>5

\* A command that is answered, lost or not taken changes mpv as it would, or not at all.
LEMMA Commanded ==
  ASSUME Instances, NEW new, SameInstance(mpv, new), Answered(new) \/ Unanswered(new)
  PROVE  /\ SameInstance(mpv, mpv')
         /\ mpv' = mpv \/ (mpv.up /\ mpv' = new)
         /\ losses' \in Nat /\ losses' >= losses
         /\ Unanswered(new) /\ losses' = 0 => ~mpv.up /\ mpv' = mpv
<1>1. SameInstance(mpv, mpv)
  BY DEF SameInstance, Instances
<1>2. losses \in Nat
  BY DEF Instances
<1>3. QED
  BY <1>1, <1>2 DEF Answered, Unanswered

\* The entries that the daemon loads.
LEMMA Loadable ==
  ASSUME Typed
  PROVE  /\ \A s \in Screens : ScreenEntry(s) \in Entry
         /\ \A i \in 1..Len(manifest) : manifest[i] \in Entry
         /\ swap # Nothing => [path |-> swap.path, opts |-> swap.opts] \in Entry
<1>1. \A i \in 1..Len(manifest) : manifest[i] \in Entry
  BY ListType DEF Typed, TypeOK
<1>2. \A s \in Screens : ScreenEntry(s) \in Entry
  BY DEF ScreenEntry, Entry
<1>3. swap # Nothing => swap.path \in Paths /\ swap.opts \in Options
  BY DEF Typed, TypeOK, StaleEntry
<1>4. QED
  BY <1>1, <1>2, <1>3 DEF Entry

\* What every step of the daemon does to mpv: a command, or nothing.
Through == SameInstance(mpv, mpv') /\ (mpv' = mpv \/ mpv.up) /\ losses' \in Nat /\ losses' >= losses

LEMMA StillThrough ==
  ASSUME Instances, UNCHANGED <<mpv, losses>> \/ Read
  PROVE  Through
BY DEF Instances, SameInstance, Through, Read

LEMMA CommandThrough ==
  ASSUME Instances, NEW new, SameInstance(mpv, new), Answered(new) \/ Unanswered(new)
  PROVE  Through
BY Commanded DEF Through

LEMMA ShowThrough ==
  ASSUME Typed, NEW s \in Screens, ShowAnswered(s) \/ ShowUnanswered(s)
  PROVE  Through
<1>1. SameInstance(mpv, M!LoadReplace(mpv, ScreenEntry(s)))
  BY FirstLoaded, Loadable DEF Typed, Instances
<1>2. QED
  BY <1>1, CommandThrough DEF Typed, ShowAnswered, ShowUnanswered

LEMMA CycleThrough == Typed /\ Cycle => Through
<1> SUFFICES ASSUME Typed, Cycle PROVE Through
  OBVIOUS
<1>1. Instances
  BY DEF Typed
<1>2. CASE StartCycle
  BY <1>1, <1>2, StillThrough DEF StartCycle
<1>3. CASE Progress
  BY <1>1, <1>3, StillThrough, ShowThrough DEF Progress, Screens
<1>4. CASE MpvGone
  <2>1. SameInstance(mpv, mpv)
    BY <1>1 DEF Instances, SameInstance
  <2>2. QED
    BY <1>1, <1>4, <2>1, CommandThrough DEF MpvGone, Unread
<1>5. CASE Reconcile
  BY <1>1, <1>5, StillThrough DEF Reconcile
<1>6. CASE IdleScreen
  BY <1>1, <1>6, StillThrough, ShowThrough DEF IdleScreen, Screens
<1>7. CASE FaultScreen
  BY <1>1, <1>7, StillThrough, ShowThrough DEF FaultScreen, Screens
<1>8. QED
  BY <1>2, <1>3, <1>4, <1>5, <1>6, <1>7 DEF Cycle

LEMMA PushThrough == Typed /\ Push => Through
<1> SUFFICES ASSUME Typed, Push PROVE Through
  OBVIOUS
<1>1. Instances /\ Sane(mpv) /\ SameInstance(mpv, mpv)
  BY DEF Typed, Instances, SameInstance
<1>2. CASE ReadPath
  BY <1>1, <1>2, StillThrough, CommandThrough DEF ReadPath, Unread
<1>3. CASE Clear
  BY <1>1, <1>3, Cleared, CommandThrough DEF Clear
<1>4. CASE Kept
  BY <1>1, <1>4, StillThrough, CommandThrough DEF Kept, Unread
<1>5. CASE AppendOthers
  <2>1. k \in 1..Len(manifest)
    BY <1>5, ListType DEF AppendOthers, Pushing, Typed, TypeOK, Phases
  <2>2. SameInstance(mpv, M!LoadAppend(mpv, manifest[k]))
    BY <1>1, <2>1, Queued, Loadable
  <2>3. QED
    BY <1>1, <1>5, <2>2, StillThrough, CommandThrough DEF AppendOthers
<1>6. CASE MoveCurrent
  <2>1. Target(cur) \in 1..Len(manifest) /\ Len(manifest) \in Nat
    BY <1>6, TargetIs, ListType DEF MoveCurrent, Pushing, Typed, TypeOK, Phases, Keeping
  <2>2. MoveTo \in Nat \ {0}
    BY <2>1 DEF MoveTo
  <2>3. SameInstance(mpv, M!PlaylistMove(mpv, 1, MoveTo))
    <3>1. CASE M!HasEntry(mpv, 1)
      <4>1. 1 \in 1..Len(mpv.list)
        BY <1>1, <3>1, LenProperties DEF M!HasEntry, Sane
      <4>2. QED
        BY <1>1, <2>2, <4>1, MovedSame
    <3>2. CASE ~M!HasEntry(mpv, 1)
      BY <1>1, <3>2, NotThere
    <3>3. QED
      BY <3>1, <3>2
  <2>4. QED
    BY <1>1, <1>6, <2>3, StillThrough, CommandThrough DEF MoveCurrent, Refused
<1>7. CASE CurrentFirst
  BY <1>1, <1>7, StillThrough DEF CurrentFirst
<1>8. CASE SettleSame
  BY <1>1, <1>8, StillThrough DEF SettleSame
<1>9. CASE SettleStale
  BY <1>1, <1>9, StillThrough DEF SettleStale
<1>10. CASE SettleOne
  <2>1. SameInstance(mpv, M!LoadAppend(mpv, manifest[1]))
    BY <1>1, <1>10, Queued, Loadable DEF SettleOne
  <2>2. QED
    BY <1>1, <1>10, <2>1, CommandThrough DEF SettleOne
<1>11. CASE LoadFirst
  <2>1. 1 \in 1..Len(manifest)
    BY <1>11, ListType DEF LoadFirst, Pushing, Typed, TypeOK, Phases, Loading
  <2>2. SameInstance(mpv, M!LoadReplace(mpv, manifest[1]))
    BY <1>1, <2>1, FirstLoaded, Loadable
  <2>3. QED
    BY <1>1, <1>11, <2>2, CommandThrough DEF LoadFirst
<1>12. CASE LoadNext
  <2>1. k \in 1..Len(manifest)
    BY <1>12, ListType DEF LoadNext, Pushing, Typed, TypeOK, Phases
  <2>2. SameInstance(mpv, M!LoadAppend(mpv, manifest[k]))
    BY <1>1, <2>1, Queued, Loadable
  <2>3. QED
    BY <1>1, <1>12, <2>2, CommandThrough DEF LoadNext
<1>13. CASE Loaded
  BY <1>1, <1>13, StillThrough DEF Loaded
<1>14. QED
  BY <1>2, <1>3, <1>4, <1>5, <1>6, <1>7, <1>8, <1>9, <1>10, <1>11, <1>12, <1>13 DEF Push

LEMMA SwapThrough == Typed /\ Swap => Through
<1> SUFFICES ASSUME Typed, Swap PROVE Through
  OBVIOUS
<1>1. Instances /\ Sane(mpv) /\ SameInstance(mpv, mpv)
  BY DEF Typed, Instances, SameInstance
<1>2. CASE ReadPos
  BY <1>1, <1>2, StillThrough, CommandThrough DEF ReadPos, Unread
<1>3. CASE RemoveStale
  <2>1. SameInstance(mpv, M!PlaylistRemove(mpv, swap.index))
    <3>1. CASE M!HasEntry(mpv, swap.index)
      <4>1. swap.index \in 1..Len(mpv.list)
        BY <1>1, <3>1, LenProperties DEF M!HasEntry, Sane
      <4>2. QED
        BY <1>1, <4>1, Removed
    <3>2. CASE ~M!HasEntry(mpv, swap.index)
      BY <1>1, <3>2, NotThere
    <3>3. QED
      BY <3>1, <3>2
  <2>2. QED
    BY <1>1, <1>3, <2>1, StillThrough, CommandThrough DEF RemoveStale, Refused
<1>4. CASE ReAdd
  <2>1. SameInstance(mpv, M!LoadAppend(mpv, [path |-> swap.path, opts |-> swap.opts]))
    BY <1>1, <1>4, Queued, Loadable DEF ReAdd, Pushing, Typed, Phases, Swapping
  <2>2. QED
    BY <1>1, <1>4, <2>1, CommandThrough DEF ReAdd
<1>5. CASE MoveBack
  <2> DEFINE n == Len(mpv.list)
             new == IF n > swap.index THEN M!PlaylistMove(mpv, n, swap.index) ELSE mpv
  <2>1. SameInstance(mpv, new)
    <3>1. swap.index \in Nat \ {0} /\ n \in Nat
      <4>1. applied \in menu /\ swap # Nothing /\ Fits(swap, applied) /\ Len(applied) \in Nat
        BY <1>5, ListType DEF MoveBack, Pushing, Typed, TypeOK, Phases, Swapping
      <4>2. QED
        BY <1>1, <4>1, LenProperties DEF Fits, Sane
    <3>2. CASE n > swap.index
      <4>1. n \in 1..n
        BY <3>1, <3>2
      <4>2. QED
        BY <1>1, <3>1, <3>2, <4>1, MovedSame
    <3>3. QED
      BY <1>1, <3>2
  <2>2. MoveBack => Read \/ Answered(new) \/ Unanswered(new)
    BY DEF MoveBack
  <2> HIDE DEF new
  <2>3. QED
    BY <1>1, <1>5, <2>1, <2>2, StillThrough, CommandThrough
<1>6. QED
  BY <1>2, <1>3, <1>4, <1>5 DEF Swap

LEMMA DaemonThrough == Typed /\ Daemon => Through
BY CycleThrough, PushThrough, SwapThrough DEF Daemon

LEMMA InstancesStep == Typed /\ [Next]_vars => Instances'
<1> SUFFICES ASSUME Typed, [Next]_vars PROVE Instances'
  OBVIOUS
<1>1. /\ Instances /\ Sane(mpv) /\ deaths \in 0..MaxDeaths /\ MaxDeaths \in Nat
      /\ mpv.pid \in Nat /\ knownPid \in Nat /\ mpv.up \in BOOLEAN /\ mpv.list \in Seq(Entry)
      /\ mpv \in [up : BOOLEAN, pid : Nat, list : Seq(Entry), pos : Nat]
  BY PlaybackAssumption DEF Typed, Instances, Sane, TypeOK
<1>2. CASE Daemon
  <2>1. Through
    BY <1>2, DaemonThrough
  <2>2. deaths' = deaths /\ (knownPid' = knownPid \/ knownPid' = 0 \/ knownPid' = mpv.pid)
    <3>1. CASE Cycle
      BY <3>1 DEF Cycle, StartCycle, Progress, MpvGone, Reconcile, IdleScreen, FaultScreen, daemon, counts
    <3>2. CASE Push
      BY <3>2 DEF Push, ReadPath, Clear, Kept, AppendOthers, MoveCurrent, CurrentFirst, SettleSame,
                  SettleStale, SettleOne, LoadFirst, LoadNext, Loaded, Pushing, counts
    <3>3. CASE Swap
      BY <3>3 DEF Swap, ReadPos, RemoveStale, ReAdd, MoveBack, Pushing, counts
    <3>4. QED
      BY <1>2, <3>1, <3>2, <3>3 DEF Daemon
  <2>3. mpv'.up = mpv.up /\ mpv'.pid = mpv.pid /\ Sane(mpv')
    BY <2>1 DEF Through, SameInstance
  <2>4. ~mpv.up => mpv' = mpv
    BY <2>1 DEF Through
  <2>5. losses' \in Nat
    BY <2>1 DEF Through
  <2>6. QED
    BY <1>1, <2>2, <2>3, <2>4, <2>5 DEF Instances
<1>3. CASE FileEnds
  <2>1. SameInstance(mpv, mpv') /\ mpv.up
    BY <1>1, <1>3, WentOn DEF FileEnds
  <2>2. UNCHANGED <<deaths, losses, knownPid>>
    BY <1>3 DEF FileEnds, Environment, counts, daemon
  <2>3. QED
    BY <1>1, <2>1, <2>2 DEF Instances, SameInstance
<1>4. CASE GivesUp
  <2>1. SameInstance(mpv, mpv') /\ mpv.up
    BY <1>1, <1>4, GaveUp DEF GivesUp
  <2>2. UNCHANGED <<deaths, losses, knownPid>>
    BY <1>4 DEF GivesUp, Environment, counts, daemon
  <2>3. QED
    BY <1>1, <2>1, <2>2 DEF Instances, SameInstance
<1>5. CASE MpvDies
  <2>1. UNCHANGED <<losses, knownPid>> /\ deaths' = deaths + 1 /\ deaths < MaxDeaths /\ mpv.up
    BY <1>5 DEF MpvDies, Environment, daemon
  <2> DEFINE x == <<>>
  <2>2. x \in Seq(Entry) /\ 0 <= Len(x)
    BY EmptySeq
  <2>3. mpv' = [mpv EXCEPT !.up = FALSE, !.list = x, !.pos = 0]
    BY <1>5 DEF MpvDies
  <2>4. x = <<>>
    OBVIOUS
  <2> HIDE DEF x
  <2>5. /\ mpv' \in [up : BOOLEAN, pid : Nat, list : Seq(Entry), pos : Nat]
        /\ mpv'.up = FALSE /\ mpv'.list = x /\ mpv'.pos = 0 /\ mpv'.pid = mpv.pid
    BY <1>1, <2>2, <2>3
  <2>6. Sane(mpv')
    BY <2>2, <2>5 DEF Sane
  <2>7. QED
    BY <1>1, <2>1, <2>4, <2>5, <2>6 DEF Instances
<1>6. CASE MpvStarts
  <2>1. UNCHANGED <<deaths, losses, knownPid>> /\ ~mpv.up
    BY <1>6 DEF MpvStarts, Environment, daemon, counts
  <2> DEFINE q == mpv.pid + 1
  <2>2. mpv' = [mpv EXCEPT !.up = TRUE, !.pid = q]
    BY <1>1, <1>6 DEF MpvStarts
  <2>6. q \in Nat /\ q = mpv.pid + 1
    BY <1>1
  <2> HIDE DEF q
  <2>3. /\ mpv' \in [up : BOOLEAN, pid : Nat, list : Seq(Entry), pos : Nat]
        /\ mpv'.up = TRUE /\ mpv'.list = mpv.list /\ mpv'.pos = mpv.pos /\ mpv'.pid = q
    BY <1>1, <2>2, <2>6
  <2>4. Sane(mpv')
    BY <1>1, <2>3 DEF Sane
  <2>5. QED
    BY <1>1, <2>1, <2>3, <2>4, <2>6 DEF Instances
<1>7. CASE DaemonRestarts
  BY <1>1, <1>7 DEF DaemonRestarts, Instances
<1>8. CASE UNCHANGED vars
  BY <1>1, <1>8 DEF vars, Instances, counts, daemon
<1>9. QED
  BY <1>2, <1>3, <1>4, <1>5, <1>6, <1>7, <1>8 DEF Next, World

LEMMA TypesAfter ==
  ASSUME Instances', knownPid' \in Nat
  PROVE  /\ mpv'.up \in BOOLEAN /\ mpv'.pid \in 1..(MaxDeaths + 1)
         /\ mpv'.list \in Seq(Entry) /\ mpv'.pos \in 0..Len(mpv'.list)
         /\ knownPid' \in 0..(MaxDeaths + 1)
<1>1. mpv'.list \in Seq(Entry) /\ Len(mpv'.list) \in Nat
  BY LenProperties DEF Instances, Sane
<1>2. MaxDeaths \in Nat
  BY PlaybackAssumption
<1>3. /\ mpv'.pid \in Nat /\ mpv'.pos \in Nat /\ mpv'.pos <= Len(mpv'.list)
      /\ deaths' \in 0..MaxDeaths /\ knownPid' <= mpv'.pid
      /\ mpv'.pid = deaths' + 1 \/ (mpv'.pid = deaths' /\ deaths' > 0)
  BY DEF Instances, Sane
<1>4. mpv'.pid \in 1..(MaxDeaths + 1) /\ knownPid' \in 0..(MaxDeaths + 1) /\ mpv'.pos \in 0..Len(mpv'.list)
  BY <1>1, <1>2, <1>3
<1>5. mpv'.up \in BOOLEAN
  BY DEF Instances, Sane
<1>6. QED
  BY <1>1, <1>4, <1>5

\* What a step leaves of the types once mpv is seen to.
Others ==
  /\ menu \in Menus /\ manifest \in menu /\ applied \in menu \cup {Nothing}
  /\ knownPid \in Nat /\ screen \in Screens \cup {NoScreen}
  /\ idle \in 0..2 /\ streak \in 0..(2 * RetryEvery - 1)
  /\ known \in [Paths -> Options \cup {Unknown}]
  /\ stale \in StaleEntry \cup {Nothing} /\ swap \in StaleEntry \cup {Nothing}
  /\ pc \in Settled \cup Keeping \cup Loading \cup Swapping \cup {"idle", "push"}
  /\ cur \in Paths \cup {NoPath} /\ old \in Options \cup {Unknown} /\ k \in Nat

LEMMA OthersOfTypes == Typed => Others
BY DEF Typed, TypeOK, Others, Settled, Keeping, Loading, Swapping

LEMMA TypesOfOthers == Instances' /\ Others' => TypeOK'
BY TypesAfter DEF TypeOK, Others, Settled, Keeping, Loading, Swapping

LEMMA TargetItem ==
  ASSUME Typed, pc \in Keeping
  PROVE  /\ Target(cur) \in 1..Len(manifest) /\ Len(manifest) \in Nat /\ cur \in Paths
         /\ manifest[Target(cur)].path = cur
         /\ manifest[Target(cur)] = [path |-> cur, opts |-> NewOptions] /\ NewOptions \in Options
         /\ StaleAt(Target(cur)) \in StaleEntry /\ Fits(StaleAt(Target(cur)), manifest)
<1>1. /\ menu \in Menus /\ manifest \in menu /\ Wanted(cur) /\ cur \in Paths
  BY DEF Typed, TypeOK, Phases
<1>2. Target(cur) \in 1..Len(manifest) /\ Len(manifest) \in Nat /\ manifest[Target(cur)].path = cur
  BY <1>1, TargetIs, ListType
<1>3. NewOptions \in Options /\ manifest[Target(cur)] = [path |-> cur, opts |-> NewOptions]
  <2>1. manifest[Target(cur)] \in Item
    BY <1>1, <1>2, ListType
  <2>2. QED
    BY <1>2, <2>1 DEF Item, NewOptions
<1>4. StaleAt(Target(cur)) \in StaleEntry
  BY <1>1, <1>2, <1>3 DEF StaleAt, StaleEntry
<1>5. Fits(StaleAt(Target(cur)), manifest)
  BY <1>2, <1>3 DEF StaleAt, Fits
<1>6. QED
  BY <1>1, <1>2, <1>3, <1>4, <1>5

LEMMA WatchTypes ==
  ASSUME idle \in 0..2, streak \in 0..(2 * RetryEvery - 1), NEW s
  PROVE  /\ Watch(s).pc \in {"push", "fault", "stale"}
         /\ Watch(s).idle \in 0..2 /\ Watch(s).streak \in 0..(2 * RetryEvery - 1)
<1>1. RetryEvery \in Nat \ {0} /\ FaultAfter \in Nat \ {0}
  BY PlaybackAssumption
<1>2. NextStreak \in 0..(2 * RetryEvery - 1)
  BY <1>1 DEF NextStreak
<1>3. 0 \in 0..(2 * RetryEvery - 1)
  BY <1>1
<1>4. idle + 1 >= 2 \/ idle + 1 \in 0..2
  OBVIOUS
<1>5. (IF idle < 2 THEN idle + 1 ELSE 2) \in 0..2
  OBVIOUS
<1>6. QED
  BY <1>2, <1>3, <1>4, <1>5 DEF Watch

LEMMA OthersCycle == Typed /\ Cycle => Others'
<1> SUFFICES ASSUME Typed, Cycle PROVE Others'
  OBVIOUS
<1>1. Others /\ NothingKnown \in [Paths -> Options \cup {Unknown}] /\ Unknown \in Options \cup {Unknown}
  BY OthersOfTypes DEF NothingKnown
<1>2. mpv.pid \in Nat
  BY DEF Typed, TypeOK
<1>3. CASE StartCycle
  BY <1>1, <1>3 DEF StartCycle, Others, daemon, client, locals, Settled
<1>4. CASE Progress
  BY <1>1, <1>4 DEF Progress, Others, ShowAnswered, ShowUnanswered, Forget, PushAgain, client, locals, counts,
     Screens, Settled
<1>5. CASE MpvGone
  BY <1>1, <1>5 DEF MpvGone, Others, Sleep, client, counts, Settled
<1>6. CASE Reconcile
  <2>1. applied' \in {applied, Nothing} /\ screen' \in {screen, NoScreen}
    BY <1>6 DEF Reconcile, NoteInstance
  <2>2. \A s : Watch(s).pc \in {"push", "fault", "stale"}
               /\ Watch(s).idle \in 0..2 /\ Watch(s).streak \in 0..(2 * RetryEvery - 1)
    BY <1>1, WatchTypes DEF Others
  <2>3. /\ pc' \in {"idle", "push", "fault", "stale"} /\ idle' \in 0..2 /\ streak' \in 0..(2 * RetryEvery - 1)
    <3>1. CASE manifest # applied'
      BY <1>1, <1>6, <3>1 DEF Reconcile, Others
    <3>2. CASE manifest = applied'
      BY <1>6, <2>2, <3>2 DEF Reconcile
    <3>3. QED
      BY <3>1, <3>2
  <2>4. UNCHANGED <<menu, manifest, client, locals>> /\ knownPid' = mpv.pid
    BY <1>6 DEF Reconcile
  <2>5. QED
    BY <1>1, <1>2, <2>1, <2>3, <2>4 DEF Others, client, locals, Settled
<1>7. CASE IdleScreen
  BY <1>1, <1>7 DEF IdleScreen, Others, ShowAnswered, ShowUnanswered, Forget, PushAgain, Sleep, client, locals, counts,
     Screens, Settled
<1>8. CASE FaultScreen
  BY <1>1, <1>8 DEF FaultScreen, Others, ShowAnswered, ShowUnanswered, Forget, client, locals, counts,
     Screens, Settled
<1>9. QED
  BY <1>3, <1>4, <1>5, <1>6, <1>7, <1>8 DEF Cycle

\* The ways a push ends, and what it writes down on the way.
LEMMA OthersEnd ==
  ASSUME Others, UNCHANGED <<menu, manifest, knownPid, idle, streak>>,
         Pushed \/ PushFails \/ (Drifted /\ UNCHANGED screen),
         known' \in [Paths -> Options \cup {Unknown}], stale' \in StaleEntry \cup {Nothing}
  PROVE  Others'
BY DEF Others, Pushed, PushFails, Drifted, PushAgain, Sleep, Settled

LEMMA Noted ==
  ASSUME known \in [Paths -> Options \cup {Unknown}], NEW p \in Paths, NEW o \in Options \cup {Unknown}
  PROVE  [known EXCEPT ![p] = o] \in [Paths -> Options \cup {Unknown}]
OBVIOUS

LEMMA OthersPush == Typed /\ Push => Others'
<1> SUFFICES ASSUME Typed, Push PROVE Others'
  OBVIOUS
<1>1. /\ Others /\ NothingKnown \in [Paths -> Options \cup {Unknown}] /\ Unknown \in Options \cup {Unknown}
      /\ known \in [Paths -> Options \cup {Unknown}] /\ old \in Options \cup {Unknown}
      /\ menu \in Menus /\ manifest \in menu /\ k \in Nat /\ stale \in StaleEntry \cup {Nothing}
      /\ Nothing \in StaleEntry \cup {Nothing}
  BY OthersOfTypes DEF NothingKnown, Others
<1>2. UNCHANGED <<menu, manifest, knownPid, idle, streak>>
  BY DEF Push, ReadPath, Clear, Kept, AppendOthers, MoveCurrent, CurrentFirst, SettleSame,
         SettleStale, SettleOne, LoadFirst, LoadNext, Loaded, Pushing
<1>3. \A i \in 1..Len(manifest) : manifest[i].path \in Paths /\ manifest[i].opts \in Options \cup {Unknown}
  BY <1>1, ListType
<1>4. Len(manifest) \in Nat
  BY <1>1, ListType
<1>5. CASE ReadPath
  <2>1. /\ stale' = Nothing /\ UNCHANGED <<applied, screen, known, k, swap>>
        /\ \/ Wanted(cur') /\ old' = known[cur'] /\ pc' = "clear"
           \/ pc' = "full" /\ UNCHANGED <<cur, old>>
    BY <1>5 DEF ReadPath
  <2>2. CASE Wanted(cur') /\ old' = known[cur'] /\ pc' = "clear"
    <3>1. cur' \in Paths
      <4>1. \E i \in DOMAIN manifest : manifest[i].path = cur'
        BY <1>2, <2>2 DEF Wanted
      <4>2. QED
        BY <1>1, <1>3, <4>1, ListType
    <3>2. QED
      BY <1>1, <1>2, <2>1, <2>2, <3>1 DEF Others, Keeping
  <2>3. CASE pc' = "full" /\ UNCHANGED <<cur, old>>
    BY <1>1, <1>2, <2>1, <2>3 DEF Others, Loading
  <2>4. QED
    BY <2>1, <2>2, <2>3
<1>6. CASE Clear
  <2>1. UNCHANGED client
    BY <1>6 DEF Clear
  <2>2. CASE pc' = "kept" /\ UNCHANGED <<applied, screen, locals>>
    BY <1>1, <1>2, <2>1, <2>2 DEF Others, client, locals, Keeping
  <2>3. CASE PushFails
    BY <1>1, <1>2, <2>1, <2>3, OthersEnd DEF client
  <2>4. QED
    BY <1>6, <2>2, <2>3 DEF Clear
<1>7. CASE Kept
  BY <1>1, <1>2, <1>7 DEF Kept, Others, client, Keeping, Loading
<1>8. CASE AppendOthers
  <2>1. k \in 1..Len(manifest) /\ UNCHANGED stale
    BY <1>4, <1>8 DEF AppendOthers, Pushing, Typed, Phases
  <2>2. known' \in [Paths -> Options \cup {Unknown}]
    BY <1>1, <1>3, <1>8, <2>1, Noted DEF AppendOthers
  <2>3. k + 1 \in Nat
    BY <1>1
  <2>4. CASE k' = k + 1 /\ UNCHANGED <<applied, screen, pc, cur, old, swap>>
    BY <1>1, <1>2, <2>1, <2>2, <2>3, <2>4 DEF Others
  <2>5. CASE PushFails
    BY <1>1, <1>2, <2>1, <2>2, <2>5, OthersEnd
  <2>6. QED
    BY <1>8, <2>4, <2>5 DEF AppendOthers
<1>9. CASE MoveCurrent
  <2>1. UNCHANGED client
    BY <1>9 DEF MoveCurrent
  <2>2. CASE pc' = "settle" /\ UNCHANGED <<applied, screen, locals>>
    BY <1>1, <1>2, <2>1, <2>2 DEF Others, client, locals, Keeping
  <2>3. CASE PushFails
    BY <1>1, <1>2, <2>1, <2>3, OthersEnd DEF client
  <2>4. QED
    BY <1>9, <2>2, <2>3 DEF MoveCurrent
<1>10. CASE CurrentFirst
  BY <1>1, <1>2, <1>10 DEF CurrentFirst, Others, client, locals, Keeping
<1>11. CASE SettleSame \/ SettleStale \/ SettleOne
  <2>1. /\ pc \in Keeping
    BY <1>11 DEF SettleSame, SettleStale, SettleOne, Pushing, Keeping
  <2>2. /\ cur \in Paths /\ NewOptions \in Options /\ StaleAt(Target(cur)) \in StaleEntry
        /\ Target(cur) \in 1..Len(manifest)
    BY <2>1, TargetItem
  <2>3. known' \in [Paths -> Options \cup {Unknown}]
    BY <1>1, <1>11, <2>2, Noted DEF SettleSame, SettleStale, SettleOne
  <2>4. SettleOne => StaleAt(Target(cur)) = StaleAt(1)
    BY <1>4, <2>2 DEF SettleOne
  <2>5. stale' \in StaleEntry \cup {Nothing}
    BY <1>1, <1>11, <2>2, <2>4 DEF SettleSame, SettleStale, SettleOne
  <2>6. Pushed \/ PushFails
    BY <1>11 DEF SettleSame, SettleStale, SettleOne
  <2>7. QED
    BY <1>1, <1>2, <2>3, <2>5, <2>6, OthersEnd
<1>12. CASE LoadFirst
  <2>1. 1 \in 1..Len(manifest) /\ stale' = Nothing
    BY <1>1, <1>12, ListType DEF LoadFirst, Pushing, Typed, Phases, Loading
  <2>2. manifest[1].path \in Paths /\ manifest[1].opts \in Options
    BY <1>1, <2>1, ListType
  <2>3. known' \in [Paths -> Options \cup {Unknown}]
    BY <1>1, <1>12, <2>2 DEF LoadFirst
  <2>4. CASE pc' = "fill" /\ k' = 2 /\ UNCHANGED <<applied, screen, cur, old, swap>>
    BY <1>1, <1>2, <2>1, <2>3, <2>4 DEF Others, Loading
  <2>5. CASE PushFails
    BY <1>1, <1>2, <2>1, <2>3, <2>5, OthersEnd
  <2>6. QED
    BY <1>12, <2>4, <2>5 DEF LoadFirst
<1>13. CASE LoadNext
  <2>1. k \in 1..Len(manifest) /\ UNCHANGED stale
    BY <1>4, <1>13 DEF LoadNext, Pushing, Typed, Phases
  <2>2. known' \in [Paths -> Options \cup {Unknown}]
    BY <1>1, <1>3, <1>13, <2>1, Noted DEF LoadNext
  <2>3. k + 1 \in Nat
    BY <1>1
  <2>4. CASE k' = k + 1 /\ UNCHANGED <<applied, screen, pc, cur, old, swap>>
    BY <1>1, <1>2, <2>1, <2>2, <2>3, <2>4 DEF Others
  <2>5. CASE PushFails
    BY <1>1, <1>2, <2>1, <2>2, <2>5, OthersEnd
  <2>6. QED
    BY <1>13, <2>4, <2>5 DEF LoadNext
<1>14. CASE Loaded
  BY <1>1, <1>2, <1>14, OthersEnd DEF Loaded, client
<1>15. QED
  BY <1>5, <1>6, <1>7, <1>8, <1>9, <1>10, <1>11, <1>12, <1>13, <1>14 DEF Push

LEMMA OthersSwap == Typed /\ Swap => Others'
<1> SUFFICES ASSUME Typed, Swap PROVE Others'
  OBVIOUS
<1>1. /\ Others /\ known \in [Paths -> Options \cup {Unknown}] /\ stale \in StaleEntry \cup {Nothing}
      /\ Nothing \in StaleEntry \cup {Nothing} /\ Unknown \in Options \cup {Unknown}
  BY OthersOfTypes DEF Others
<1>2. UNCHANGED <<menu, manifest, knownPid, idle, streak, screen>>
  BY DEF Swap, ReadPos, RemoveStale, ReAdd, MoveBack, Pushing
<1>3. CASE ReadPos
  BY <1>1, <1>2, <1>3 DEF ReadPos, Others, Sleep, Settled, Swapping
<1>4. pc \in Swapping => swap.path \in Paths /\ swap.opts \in Options \cup {Unknown}
  BY DEF Typed, TypeOK, Phases, StaleEntry
<1>5. CASE RemoveStale
  <2>1. pc \in Swapping /\ UNCHANGED stale
    BY <1>5 DEF RemoveStale, Pushing, Swapping
  <2>2. known' \in [Paths -> Options \cup {Unknown}]
    BY <1>1, <1>4, <1>5, <2>1, Noted DEF RemoveStale
  <2>3. CASE pc' = "readd" /\ UNCHANGED <<applied, cur, old, k, swap>>
    BY <1>1, <1>2, <2>1, <2>2, <2>3 DEF Others, Swapping
  <2>4. CASE UNCHANGED applied /\ Sleep
    BY <1>1, <1>2, <2>1, <2>2, <2>4 DEF Others, Sleep, Settled
  <2>5. CASE Drifted
    BY <1>1, <1>2, <2>1, <2>2, <2>5, OthersEnd
  <2>6. QED
    BY <1>5, <2>3, <2>4, <2>5 DEF RemoveStale
<1>6. CASE ReAdd
  <2>1. pc \in Swapping /\ UNCHANGED stale
    BY <1>6 DEF ReAdd, Pushing, Swapping
  <2>2. known' \in [Paths -> Options \cup {Unknown}]
    BY <1>1, <1>4, <1>6, <2>1, Noted DEF ReAdd
  <2>3. CASE pc' = "back" /\ UNCHANGED <<applied, cur, old, k, swap>>
    BY <1>1, <1>2, <2>1, <2>2, <2>3 DEF Others, Swapping
  <2>4. CASE Drifted
    BY <1>1, <1>2, <2>1, <2>2, <2>4, OthersEnd
  <2>5. QED
    BY <1>6, <2>3, <2>4 DEF ReAdd
<1>7. CASE MoveBack
  <2>1. UNCHANGED <<known, stale>> /\ ((UNCHANGED applied /\ Sleep) \/ Drifted)
    BY <1>7 DEF MoveBack, client
  <2>2. QED
    BY <1>1, <1>2, <2>1, OthersEnd DEF Others, Sleep, Settled
<1>8. QED
  BY <1>3, <1>5, <1>6, <1>7 DEF Swap

LEMMA OthersStep == Typed /\ [Next]_vars => Others'
<1> SUFFICES ASSUME Typed, [Next]_vars PROVE Others'
  OBVIOUS
<1>1. Others
  BY OthersOfTypes
<1>2. CASE Daemon
  BY <1>2, OthersCycle, OthersPush, OthersSwap DEF Daemon
<1>3. CASE DaemonRestarts
  <2>1. NothingKnown \in [Paths -> Options \cup {Unknown}]
    BY DEF NothingKnown
  <2>2. 0 \in 0..2 /\ 0 \in 0..(2 * RetryEvery - 1) /\ 0 \in Nat
    BY PlaybackAssumption
  <2>3. UNCHANGED <<menu, manifest>>
    BY <1>3 DEF DaemonRestarts
  <2>4. /\ applied' = Nothing /\ knownPid' = 0 /\ screen' = NoScreen /\ idle' = 0 /\ streak' = 0
        /\ known' = NothingKnown /\ stale' = Nothing
        /\ pc' = "sleep" /\ cur' = NoPath /\ old' = Unknown /\ k' = 0 /\ swap' = Nothing
    BY <1>3 DEF DaemonRestarts
  <2>5. QED
    BY <1>1, <2>1, <2>2, <2>3, <2>4 DEF Others, Settled
<1>4. CASE UNCHANGED <<menu, manifest, daemon, client, pc, locals>>
  BY <1>1, <1>4 DEF Others, daemon, client, locals
<1>5. QED
  BY <1>2, <1>3, <1>4 DEF Next, World, FileEnds, GivesUp, MpvDies, MpvStarts, Environment, vars

-----------------------------------------------------------------------------
(* Where a push or a swap is, and what the client remembers.               *)

LEMMA BetweenOperations ==
  ASSUME pc' \in {"sleep", "progress", "reconcile", "idle"}
  PROVE  Phases'
BY DEF Phases, Keeping, Loading, Swapping

\* The memory of an operation that changes nothing of it, or forgets it all.
LEMMA SameMemory ==
  ASSUME Memory, UNCHANGED <<applied, screen, stale>>
  PROVE  Memory'
BY DEF Memory

LEMMA NoMemory ==
  ASSUME Memory, applied' \in {applied, Nothing}, stale' = Nothing
  PROVE  Memory'
BY DEF Memory

LEMMA PhasesCycle == Typed /\ Cycle => Phases' /\ Memory'
<1> SUFFICES ASSUME Typed, Cycle PROVE Phases' /\ Memory'
  OBVIOUS
<1>1. Phases /\ Memory
  BY DEF Typed
<1>2. CASE StartCycle
  <2>1. Phases'
    BY <1>2, BetweenOperations DEF StartCycle
  <2>2. Memory'
    BY <1>1, <1>2, SameMemory DEF StartCycle, daemon, client
  <2>3. QED
    BY <2>1, <2>2
<1>3. CASE Progress
  <2>1. Phases'
    BY <1>3, BetweenOperations DEF Progress
  <2>2. UNCHANGED <<client, screen, applied>> \/ (Forget /\ (PushAgain \/ UNCHANGED applied))
    BY <1>3 DEF Progress, ShowAnswered, ShowUnanswered
  <2>3. Memory'
    <3>1. CASE UNCHANGED <<client, screen, applied>>
      BY <1>1, <3>1, SameMemory DEF client
    <3>2. CASE Forget /\ (PushAgain \/ UNCHANGED applied)
      BY <1>1, <3>2, NoMemory DEF Forget, PushAgain
    <3>3. QED
      BY <2>2, <3>1, <3>2
  <2>4. QED
    BY <2>1, <2>3
<1>4. CASE MpvGone
  <2>1. Phases'
    BY <1>4, BetweenOperations DEF MpvGone, Sleep
  <2>2. Memory'
    BY <1>1, <1>4, SameMemory DEF MpvGone, client
  <2>3. QED
    BY <2>1, <2>2
<1>5. CASE Reconcile
  <2>1. (applied' = applied /\ screen' = screen) \/ (applied' = Nothing /\ screen' = NoScreen)
    <3>1. applied' = NoteInstance.applied /\ screen' = NoteInstance.screen
      BY <1>5 DEF Reconcile
    <3>2. CASE knownPid = mpv.pid
      BY <3>1, <3>2 DEF NoteInstance
    <3>3. CASE knownPid # mpv.pid
      BY <3>1, <3>3 DEF NoteInstance
    <3>4. QED
      BY <3>2, <3>3
  <2>2. UNCHANGED <<menu, manifest, client, locals>>
    BY <1>5 DEF Reconcile
  <2>3. Memory'
    BY <1>1, <2>1, <2>2 DEF Memory, client
  <2>4. Phases'
    <3>1. CASE manifest # applied'
      <4>1. pc' = "idle" \/ (pc' = "push" /\ manifest # <<>>)
        BY <1>5, <3>1 DEF Reconcile
      <4>2. QED
        BY <2>2, <4>1, BetweenOperations DEF Phases, Keeping, Loading, Swapping
    <3>2. CASE manifest = applied'
      <4>1. pc' \in {"push", "fault", "stale"}
        BY <1>5, <3>2, WatchTypes DEF Reconcile, Typed, TypeOK
      <4>2. manifest \in Playlists
        BY ListType DEF Typed, TypeOK
      <4>3. applied' # Nothing /\ manifest # <<>>
        BY <2>3, <3>2, <4>2, PlaybackAssumption DEF Memory
      <4>4. QED
        BY <2>2, <4>1, <4>3 DEF Phases, Keeping, Loading, Swapping
    <3>3. QED
      BY <3>1, <3>2
  <2>5. QED
    BY <2>3, <2>4
<1>6. CASE IdleScreen
  <2>1. Phases'
    BY <1>6, BetweenOperations DEF IdleScreen, Sleep
  <2>2. applied' = Nothing /\ (UNCHANGED <<client, screen>> \/ Forget)
    BY <1>6 DEF IdleScreen, PushAgain, ShowAnswered, ShowUnanswered
  <2>3. Memory'
    BY <1>1, <2>2 DEF Memory, client, Forget
  <2>4. QED
    BY <2>1, <2>3
<1>7. CASE FaultScreen
  <2>1. pc = "fault" /\ pc' = "stale" /\ UNCHANGED <<manifest, applied, locals>>
    BY <1>7 DEF FaultScreen
  <2>2. Phases'
    BY <1>1, <2>1 DEF Phases, Keeping, Loading, Swapping
  <2>3. UNCHANGED <<client, screen>> \/ Forget
    BY <1>7 DEF FaultScreen, ShowAnswered, ShowUnanswered
  <2>4. Memory'
    <3>1. CASE UNCHANGED <<client, screen>>
      BY <1>1, <2>1, <3>1, SameMemory DEF client
    <3>2. CASE Forget
      BY <1>1, <2>1, <3>2, NoMemory DEF Forget
    <3>3. QED
      BY <2>3, <3>1, <3>2
  <2>5. QED
    BY <2>2, <2>4
<1>8. QED
  BY <1>2, <1>3, <1>4, <1>5, <1>6, <1>7 DEF Cycle

LEMMA PhasesSwap == Typed /\ Swap => Phases' /\ Memory'
<1> SUFFICES ASSUME Typed, Swap PROVE Phases' /\ Memory'
  OBVIOUS
<1>1. Phases /\ Memory
  BY DEF Typed
<1>2. applied' \in {applied, Nothing} /\ UNCHANGED <<manifest, screen>>
  BY DEF Swap, ReadPos, RemoveStale, ReAdd, MoveBack, Pushing, Drifted, PushAgain
<1>3. stale' \in {stale, Nothing}
  BY DEF Swap, ReadPos, RemoveStale, ReAdd, MoveBack, client
<1>4. Memory'
  BY <1>1, <1>2, <1>3 DEF Memory
<1>5. CASE pc' = "sleep"
  BY <1>4, <1>5, BetweenOperations
<1>6. CASE ReadPos /\ pc' # "sleep"
  <2>1. /\ pc = "stale" /\ stale # Nothing /\ swap' = stale /\ stale' = Nothing /\ pc' = "remove"
        /\ UNCHANGED <<applied, screen>>
    BY <1>6 DEF ReadPos, Pushing, Sleep
  <2>2. QED
    BY <1>1, <1>2, <1>4, <2>1 DEF Phases, Memory, Keeping, Loading, Swapping
<1>7. CASE RemoveStale /\ pc' # "sleep"
  <2>1. /\ pc = "remove" /\ pc' = "readd" /\ swap.readd /\ UNCHANGED <<applied, screen, swap, stale>>
    BY <1>7 DEF RemoveStale, Pushing, Sleep, Drifted
  <2>2. QED
    BY <1>1, <1>2, <1>4, <2>1 DEF Phases, Keeping, Loading, Swapping
<1>8. CASE ReAdd /\ pc' # "sleep"
  <2>1. /\ pc = "readd" /\ pc' = "back" /\ UNCHANGED <<applied, screen, swap, stale>>
    BY <1>8 DEF ReAdd, Pushing, Sleep, Drifted
  <2>2. QED
    BY <1>1, <1>2, <1>4, <2>1 DEF Phases, Keeping, Loading, Swapping
<1>9. CASE MoveBack
  BY <1>5, <1>9 DEF MoveBack, Sleep, Drifted
<1>10. QED
  BY <1>5, <1>6, <1>7, <1>8, <1>9 DEF Swap

LEMMA PhasesPush == Typed /\ Push => Phases' /\ Memory'
<1> SUFFICES ASSUME Typed, Push PROVE Phases' /\ Memory'
  OBVIOUS
<1>1. /\ Phases /\ Memory /\ menu \in Menus /\ manifest \in menu /\ mpv.up \in BOOLEAN /\ Sane(mpv)
      /\ k \in Nat
  BY DEF Typed, TypeOK, Instances
<1>2. /\ manifest # <<>> /\ Len(manifest) \in Nat /\ Len(manifest) >= 1 /\ manifest # Nothing
      /\ \A i \in DOMAIN manifest : manifest[i].path \in Paths
  <2>1. pc \in Keeping \cup Loading \cup {"push"}
    BY DEF Push, ReadPath, Clear, Kept, AppendOthers, MoveCurrent, CurrentFirst, SettleSame,
           SettleStale, SettleOne, LoadFirst, LoadNext, Loaded, Pushing, Keeping, Loading
  <2>2. manifest # <<>>
    BY <1>1, <2>1 DEF Phases
  <2>3. QED
    BY <1>1, <2>2, ListType, PlaybackAssumption
<1>3. UNCHANGED manifest
  BY DEF Push, ReadPath, Clear, Kept, AppendOthers, MoveCurrent, CurrentFirst, SettleSame,
         SettleStale, SettleOne, LoadFirst, LoadNext, Loaded, Pushing
<1>4. CASE ReadPath
  <2>1. /\ stale' = Nothing /\ UNCHANGED <<applied, screen>>
        /\ (pc' = "clear" /\ Wanted(cur')) \/ pc' = "full"
    BY <1>4 DEF ReadPath
  <2>2. Memory'
    BY <1>1, <2>1, NoMemory
  <2>3. CASE pc' = "clear" /\ Wanted(cur')
    <3>1. cur' \in Paths /\ Wanted(cur)'
      BY <1>2, <1>3, <2>3 DEF Wanted
    <3>2. QED
      BY <1>2, <1>3, <2>1, <2>2, <2>3, <3>1 DEF Phases, Keeping, Loading, Swapping
  <2>4. CASE pc' = "full"
    BY <1>2, <1>3, <2>1, <2>2, <2>4 DEF Phases, Keeping, Loading, Swapping
  <2>5. QED
    BY <2>1, <2>3, <2>4
<1>5. CASE PushFails /\ ~ReadPath /\ ~Pushed
  <2>1. stale' = Nothing /\ pc' = "sleep" /\ applied' = applied
    BY <1>1, <1>5 DEF Push, Clear, Kept, AppendOthers, MoveCurrent, CurrentFirst, SettleSame,
       SettleStale, SettleOne, LoadFirst, LoadNext, Loaded, Pushing, PushFails, Sleep, Phases,
       Keeping, Loading, client, Pushed
  <2>2. QED
    BY <1>1, <2>1, NoMemory, BetweenOperations
<1>6. CASE Pushed
  <2>1. pc' = "sleep" /\ applied' = manifest /\ screen' = NoScreen
    BY <1>6 DEF Pushed, Sleep
  <2>2. pc \in Keeping \/ (pc \in Loading /\ stale' = Nothing)
    BY <1>1, <1>5, <1>6, <2>1 DEF Push, ReadPath, Clear, Kept, AppendOthers, MoveCurrent, CurrentFirst, SettleSame,
       SettleStale, SettleOne, LoadFirst, LoadNext, Loaded, Pushing, Keeping, Loading, Phases, client
  <2>3. CASE pc \in Keeping
    <3>1. Fits(StaleAt(Target(cur)), manifest) /\ Target(cur) \in 1..Len(manifest)
      BY <2>3, TargetItem
    <3>2. UNCHANGED stale \/ stale' = Nothing \/ stale' = StaleAt(Target(cur)) \/ SettleOne
      BY <2>3 DEF Push, ReadPath, Clear, Kept, AppendOthers, MoveCurrent, CurrentFirst, SettleSame,
         SettleStale, LoadFirst, LoadNext, Loaded, client
    <3>3. stale' = Nothing \/ stale' = StaleAt(Target(cur))
      <4>1. stale = Nothing
        BY <1>1, <2>3 DEF Phases
      <4>2. SettleOne => Target(cur) = 1 /\ stale' \in {stale, StaleAt(1)}
        BY <1>2, <3>1 DEF SettleOne
      <4>3. QED
        BY <3>2, <4>1, <4>2
    <3>4. stale' # Nothing => Fits(stale', manifest)
      BY <3>1, <3>3
    <3>5. Memory'
      BY <1>2, <2>1, <3>4 DEF Memory
    <3>6. QED
      BY <2>1, <3>5, BetweenOperations
  <2>4. CASE stale' = Nothing
    <3>1. Memory'
      BY <1>2, <2>1, <2>4 DEF Memory
    <3>2. QED
      BY <2>1, <3>1, BetweenOperations
  <2>5. QED
    BY <2>2, <2>3, <2>4
<1>7. CASE Clear /\ ~PushFails
  <2>1. pc = "clear" /\ pc' = "kept" /\ mpv' = M!PlaylistClear(mpv) /\ UNCHANGED <<applied, screen, client, locals>>
    BY <1>7 DEF Clear, Pushing, Answered
  <2>2. Len(mpv'.list) <= 1
    BY <1>1, <2>1, Cleared
  <2>3. Memory'
    BY <1>1, <2>1, SameMemory DEF client
  <2>4. Wanted(cur)' = Wanted(cur)
    BY <1>3, <2>1 DEF Wanted, locals
  <2>5. QED
    BY <1>1, <1>3, <2>1, <2>2, <2>3, <2>4 DEF Phases, Keeping, Loading, Swapping, client, locals
<1>8. CASE Kept
  <2>1. pc = "kept" /\ UNCHANGED <<applied, screen, client, cur>> /\ ((pc' = "append" /\ k' = 1) \/ pc' = "full")
    BY <1>8 DEF Kept, Pushing
  <2>2. Memory'
    BY <1>1, <2>1, SameMemory DEF client
  <2>3. Wanted(cur)' = Wanted(cur)
    BY <1>3, <2>1 DEF Wanted
  <2>4. 1 \in 1..(Len(manifest) + 1)
    BY <1>2
  <2>5. QED
    BY <1>1, <1>2, <1>3, <2>1, <2>2, <2>3, <2>4 DEF Phases, Keeping, Loading, Swapping, client
<1>9. CASE AppendOthers /\ ~PushFails
  <2>1. pc = "append" /\ pc' = pc /\ UNCHANGED <<applied, screen, stale, cur>> /\ k' = k + 1 /\ k <= Len(manifest)
    BY <1>9 DEF AppendOthers, Pushing
  <2>2. Memory'
    BY <1>1, <2>1, SameMemory
  <2>3. Wanted(cur)' = Wanted(cur)
    BY <1>3, <2>1 DEF Wanted
  <2>4. k + 1 \in 1..(Len(manifest) + 1)
    BY <1>1, <1>2, <2>1
  <2>5. QED
    BY <1>1, <1>2, <1>3, <2>1, <2>2, <2>3, <2>4 DEF Phases, Keeping, Loading, Swapping
<1>10. CASE (MoveCurrent /\ ~PushFails) \/ CurrentFirst
  <2>1. pc = "append" /\ pc' = "settle" /\ UNCHANGED <<applied, screen, client, cur>>
    BY <1>10 DEF MoveCurrent, CurrentFirst, Pushing, locals
  <2>2. Memory'
    BY <1>1, <2>1, SameMemory DEF client
  <2>3. Wanted(cur)' = Wanted(cur)
    BY <1>3, <2>1 DEF Wanted
  <2>4. QED
    BY <1>1, <1>2, <1>3, <2>1, <2>2, <2>3 DEF Phases, Keeping, Loading, Swapping, client
<1>11. CASE LoadFirst /\ ~PushFails
  <2>1. pc = "full" /\ pc' = "fill" /\ k' = 2 /\ stale' = Nothing /\ UNCHANGED <<applied, screen>>
    BY <1>11 DEF LoadFirst, Pushing
  <2>2. Memory'
    BY <1>1, <2>1, NoMemory
  <2>3. 2 \in 2..(Len(manifest) + 1)
    BY <1>2
  <2>4. QED
    BY <1>2, <1>3, <2>1, <2>2, <2>3 DEF Phases, Keeping, Loading, Swapping
<1>12. CASE LoadNext /\ ~PushFails
  <2>1. pc = "fill" /\ pc' = pc /\ UNCHANGED <<applied, screen, stale>> /\ k' = k + 1 /\ k <= Len(manifest)
    BY <1>12 DEF LoadNext, Pushing
  <2>2. Memory'
    BY <1>1, <2>1, SameMemory
  <2>3. k + 1 \in 2..(Len(manifest) + 1)
    BY <1>1, <1>2, <2>1 DEF Phases
  <2>4. QED
    BY <1>1, <1>2, <1>3, <2>1, <2>2, <2>3 DEF Phases, Keeping, Loading, Swapping
<1>13. QED
  BY <1>4, <1>5, <1>6, <1>7, <1>8, <1>9, <1>10, <1>11, <1>12
     DEF Push, SettleSame, SettleStale, SettleOne, Loaded, ReadPath

LEMMA TypedStep == Typed /\ [Next]_vars => Typed'
<1> SUFFICES ASSUME Typed, [Next]_vars PROVE Typed'
  OBVIOUS
<1>1. Instances' /\ Others'
  BY InstancesStep, OthersStep
<1>2. TypeOK'
  BY <1>1, TypesOfOthers
<1>3. Phases /\ Memory
  BY DEF Typed
<1>4. Phases' /\ Memory'
  <2>1. CASE Daemon
    BY <2>1, PhasesCycle, PhasesPush, PhasesSwap DEF Daemon
  <2>2. CASE DaemonRestarts
    <3>1. pc' = "sleep" /\ applied' = Nothing /\ stale' = Nothing
      BY <2>2 DEF DaemonRestarts
    <3>2. Memory'
      BY <1>3, <3>1, NoMemory
    <3>3. QED
      BY <3>1, <3>2, BetweenOperations
  <2>3. CASE /\ UNCHANGED <<menu, manifest, daemon, client, pc, locals>>
             /\ Len(mpv.list) <= 1 => Len(mpv'.list) <= 1
    <3>1. Memory'
      BY <1>3, <2>3, SameMemory DEF daemon, client
    <3>2. UNCHANGED <<manifest, applied, screen, stale, pc, cur, k, swap>>
      BY <2>3 DEF daemon, client, locals
    <3>3. Wanted(cur)' = Wanted(cur)
      BY <3>2 DEF Wanted
    <3>4. Phases'
      BY <1>3, <2>3, <3>2, <3>3 DEF Phases
    <3>5. QED
      BY <3>1, <3>4
  <2>4. CASE FileEnds \/ GivesUp \/ MpvDies \/ MpvStarts \/ UNCHANGED vars
    <3>1. UNCHANGED <<menu, manifest, daemon, client, pc, locals>>
      BY <2>4 DEF FileEnds, GivesUp, MpvDies, MpvStarts, Environment, vars
    <3>2. mpv'.list = mpv.list \/ mpv'.list = <<>>
      <4>1. Sane(mpv) /\ mpv \in [up : BOOLEAN, pid : Nat, list : Seq(Entry), pos : Nat]
        BY DEF Typed, Instances, Sane
      <4>2. CASE FileEnds \/ GivesUp
        BY <4>1, <4>2, WentOn, GaveUp DEF FileEnds, GivesUp
      <4>3. CASE MpvDies \/ MpvStarts
        BY <4>1, <4>3 DEF MpvDies, MpvStarts
      <4>4. QED
        BY <2>4, <4>2, <4>3 DEF vars
    <3>3. Len(mpv.list) <= 1 => Len(mpv'.list) <= 1
      <4>1. mpv'.list = <<>> => Len(mpv'.list) = 0
        OBVIOUS
      <4>2. QED
        BY <3>2, <4>1
    <3>4. QED
      BY <2>3, <3>1, <3>3
  <2>5. QED
    BY <2>1, <2>2, <2>4 DEF Next, World
<1>5. QED
  BY <1>1, <1>2, <1>4 DEF Typed

LEMMA TypedInit == Init => Typed
<1> SUFFICES ASSUME Init PROVE Typed
  OBVIOUS
<1> DEFINE x == <<>>
<1>1. x \in Seq(Entry) /\ Len(x) = 0
  BY EmptySeq
<1>2. mpv = [up |-> TRUE, pid |-> 1, list |-> x, pos |-> 0]
  BY DEF Init
<1>3. MaxDeaths \in Nat /\ 0 \in 0..(2 * RetryEvery - 1) /\ NothingKnown \in [Paths -> Options \cup {Unknown}]
  BY PlaybackAssumption DEF NothingKnown
<1>4. Sane(mpv) /\ mpv.up = TRUE /\ mpv.pid = 1 /\ mpv.list = x /\ mpv.pos = 0
  <2> HIDE DEF x
  <2>1. QED
    BY <1>1, <1>2 DEF Sane
<1> HIDE DEF x
<1>5. Instances
  BY <1>3, <1>4 DEF Init, Instances
<1>6. TypeOK
  BY <1>1, <1>3, <1>4 DEF Init, TypeOK
<1>7. Phases /\ Memory
  BY DEF Init, Phases, Memory, Keeping, Loading, Swapping
<1>8. QED
  BY <1>5, <1>6, <1>7 DEF Typed

\* mpv's playlist and everything the daemon remembers about it keep their types, whatever is
\* lost, however mpv dies and wherever the daemon is killed.
THEOREM TypesKept == Spec => []TypeOK
<1>1. Init => Typed
  BY TypedInit
<1>2. Typed /\ [Next]_vars => Typed'
  BY TypedStep
<1>3. Typed => TypeOK
  BY DEF Typed
<1>4. QED
  BY <1>1, <1>2, <1>3, PTL DEF Spec

-----------------------------------------------------------------------------
(* mpv's list as far as a push or a swap has got.                          *)

\* A list with the paths of another.
Same(l, list) == Len(l) = Len(list) /\ \A i \in 1..Len(list) : l[i].path = list[i].path

LEMMA SameUpTo ==
  ASSUME NEW a \in Nat, NEW b \in Nat, 1..a = 1..b
  PROVE  a = b
<1>1. a >= 1 => a \in 1..b
  OBVIOUS
<1>2. b >= 1 => b \in 1..a
  OBVIOUS
<1>3. QED
  BY <1>1, <1>2

LEMMA PathsSame ==
  ASSUME NEW S, NEW T, NEW l \in Seq(S), NEW list \in Seq(T)
  PROVE  PathsOf(l) = PathsOf(list) <=> Same(l, list)
<1>1. /\ Len(l) \in Nat /\ DOMAIN l = 1..Len(l)
      /\ Len(list) \in Nat /\ DOMAIN list = 1..Len(list)
  BY LenProperties
<1>2. ASSUME PathsOf(l) = PathsOf(list) PROVE Same(l, list)
  <2>1. \A i \in DOMAIN l : PathsOf(l)[i] = PathsOf(list)[i]
    BY <1>2
  <2>2. DOMAIN PathsOf(l) = DOMAIN l /\ DOMAIN PathsOf(list) = DOMAIN list
    BY DEF PathsOf
  <2>3. DOMAIN l = DOMAIN list
    BY <1>2, <2>2
  <2>4. 1..Len(l) = 1..Len(list)
    BY <1>1, <2>3
  <2>5. Len(l) = Len(list)
    BY <1>1, <2>4, SameUpTo
  <2>6. QED
    BY <1>1, <2>1, <2>3, <2>5 DEF PathsOf, Same
<1>3. ASSUME Same(l, list) PROVE PathsOf(l) = PathsOf(list)
  BY <1>1, <1>3 DEF PathsOf, Same
<1>4. QED
  BY <1>2, <1>3

\* A one-item list with its superseded entry in front.
LEMMA PathsTwice ==
  ASSUME NEW S, NEW T, NEW l \in Seq(S), NEW list \in Seq(T), Len(list) = 1
  PROVE  PathsOf(l) = PathsOf(list \o list)
           <=> Len(l) = 2 /\ l[1].path = list[1].path /\ l[2].path = list[1].path
<1> DEFINE b == list \o list
<1>1. b \in Seq(T) /\ Len(b) = 2 /\ b[1] = list[1] /\ b[2] = list[1]
  <2>1. /\ b \in Seq(T) /\ Len(b) = Len(list) + Len(list)
        /\ \A j \in 1..(Len(list) + Len(list)) : b[j] = IF j <= Len(list) THEN list[j] ELSE list[j - Len(list)]
    BY ConcatProperties
  <2> HIDE DEF b
  <2>2. QED
    BY <2>1
<1> HIDE DEF b
<1>2. PathsOf(l) = PathsOf(b) <=> Same(l, b)
  BY <1>1, PathsSame
<1>3. QED
  BY <1>1, <1>2 DEF b, Same

LEMMA AppliedType ==
  ASSUME Typed, applied # Nothing
  PROVE  applied \in menu /\ applied \in Seq(Item) /\ Len(applied) \in Nat /\ Len(applied) >= 1 /\ mpv.list \in Seq(Entry)
BY ListType DEF Typed, TypeOK, Memory

LEMMA AppliedTypeAfter ==
  ASSUME Typed', applied' # Nothing
  PROVE  applied' \in Seq(Item) /\ Len(applied') \in Nat /\ Len(applied') >= 1 /\ mpv'.list \in Seq(Entry)
<1>1. applied' \in UNION Menus /\ applied' # <<>> /\ mpv'.list \in Seq(Entry)
  BY DEF Typed, TypeOK, Memory
<1>2. applied' \in Seq(Item)
  BY <1>1, PlaybackAssumption DEF Playlists, Item
<1>3. QED
  BY <1>1, <1>2, EmptySeq, LenProperties

\* The two ways mpv's list is that of applied_hash.
LEMMA HoldsNow ==
  ASSUME Typed', applied' # Nothing, Same(mpv'.list, applied'), stale' = Nothing \/ stale'.readd
  PROVE  Holds(applied)'
<1>1. PathsOf(mpv'.list) = PathsOf(applied')
  BY AppliedTypeAfter, PathsSame
<1>2. QED
  BY <1>1 DEF Holds, OneStale

LEMMA HoldsTwice ==
  ASSUME Typed', applied' # Nothing, Len(applied') = 1, stale' # Nothing, ~stale'.readd,
         Len(mpv'.list) = 2, mpv'.list[1].path = applied'[1].path, mpv'.list[2].path = applied'[1].path
  PROVE  Holds(applied)'
<1>1. PathsOf(mpv'.list) = PathsOf(applied' \o applied')
  BY AppliedTypeAfter, PathsTwice
<1>2. QED
  BY <1>1 DEF Holds, OneStale

LEMMA HoldsStill ==
  ASSUME Holds(applied), mpv'.list = mpv.list, UNCHANGED <<applied, stale>>
  PROVE  Holds(applied)'
BY DEF Holds, OneStale

\* With no reply lost, an mpv that is up answers.
LEMMA NotLost ==
  ASSUME Typed, losses' = 0, mpv.up, NEW new
  PROVE  ~Unanswered(new)
BY DEF Unanswered, Typed, Instances

LEMMA Lossless ==
  ASSUME Typed, Daemon, losses' = 0, mpv'.up
  PROVE  losses = 0 /\ mpv.up /\ mpv'.pid = mpv.pid
<1>1. Through
  BY DaemonThrough
<1>2. losses \in Nat
  BY DEF Typed, Instances
<1>3. QED
  BY <1>1, <1>2 DEF Through, SameInstance

LEMMA SettledAfter ==
  ASSUME pc' \in Settled, applied' # Nothing /\ screen' = NoScreen => Holds(applied)'
  PROVE  Progressed'
BY DEF Progressed, Settled

LEMMA OpenAfter ==
  ASSUME pc' \in {"idle", "push", "clear", "kept", "full"}
  PROVE  Progressed'
BY DEF Progressed, Settled

LEMMA ListCycle ==
  ASSUME Typed, Typed', ListRight, Cycle, losses' = 0, Mine'
  PROVE  Progressed'
<1>1. losses = 0 /\ mpv.up /\ mpv'.pid = mpv.pid
  BY Lossless DEF Daemon, Mine
<1>2. mpv.pid >= 1 /\ knownPid' = mpv.pid
  BY <1>1 DEF Typed, TypeOK, Mine
<1>3. \A new : ~Unanswered(new)
  BY <1>1, NotLost
<1>4. ASSUME knownPid = mpv.pid, pc \in Settled, applied # Nothing, screen = NoScreen PROVE Holds(applied)
  BY <1>1, <1>4 DEF ListRight, Progressed, Mine
<1>5. CASE StartCycle
  <2>1. pc \in Settled /\ pc' \in Settled /\ UNCHANGED <<mpv, applied, screen, stale, knownPid>>
    BY <1>5 DEF StartCycle, daemon, client, Settled
  <2>2. QED
    BY <1>2, <1>4, <2>1, SettledAfter, HoldsStill
<1>6. CASE Progress
  <2>1. pc \in Settled /\ pc' \in Settled /\ knownPid' = knownPid
    BY <1>6 DEF Progress, Settled
  <2>2. UNCHANGED <<mpv, applied, screen, stale>> \/ screen' = "syncing"
    BY <1>3, <1>6 DEF Progress, client, ShowAnswered, ShowUnanswered
  <2>3. "syncing" # NoScreen
    BY PlaybackAssumption DEF Screens
  <2>4. QED
    BY <1>2, <1>4, <2>1, <2>2, <2>3, SettledAfter, HoldsStill
<1>7. CASE MpvGone
  BY <1>2, <1>7 DEF MpvGone
<1>8. CASE Reconcile
  <2>1. UNCHANGED <<mpv, stale>> /\ pc \in Settled
    BY <1>8 DEF Reconcile, Read, client, Settled
  <2>2. applied' # Nothing => knownPid = mpv.pid /\ applied' = applied /\ screen' = screen
    <3>1. applied' = NoteInstance.applied /\ screen' = NoteInstance.screen
      BY <1>8 DEF Reconcile
    <3>2. CASE knownPid = mpv.pid
      BY <3>1, <3>2 DEF NoteInstance
    <3>3. CASE knownPid # mpv.pid
      BY <3>1, <3>3 DEF NoteInstance
    <3>4. QED
      BY <3>2, <3>3
  <2>3. CASE pc' \in Settled
    BY <1>4, <2>1, <2>2, <2>3, SettledAfter, HoldsStill
  <2>4. pc' \in {"idle", "push", "fault", "stale"}
    <3>1. CASE manifest # applied'
      BY <1>8, <3>1 DEF Reconcile
    <3>2. CASE manifest = applied'
      BY <1>8, <3>2, WatchTypes DEF Reconcile, Typed, TypeOK
    <3>3. QED
      BY <3>1, <3>2
  <2>5. QED
    BY <2>3, <2>4, OpenAfter DEF Settled
<1>9. CASE IdleScreen
  BY <1>9, SettledAfter DEF IdleScreen, PushAgain, Sleep, Settled
<1>10. CASE FaultScreen
  <2>1. pc' \in Settled
    BY <1>10 DEF FaultScreen, Settled
  <2>2. screen' = "fault"
    BY <1>3, <1>10 DEF FaultScreen, Showing, ShowAnswered, ShowUnanswered
  <2>3. "fault" # NoScreen
    BY PlaybackAssumption DEF Screens
  <2>4. QED
    BY <2>1, <2>2, <2>3, SettledAfter
<1>11. QED
  BY <1>5, <1>6, <1>7, <1>8, <1>9, <1>10 DEF Cycle

LEMMA ListPush ==
  ASSUME Typed, Typed', ListRight, Push, losses' = 0, Mine'
  PROVE  Progressed'
<1>1. losses = 0 /\ mpv.up /\ mpv'.pid = mpv.pid
  BY Lossless DEF Daemon, Mine
<1>2. UNCHANGED <<menu, manifest, knownPid>>
  BY DEF Push, ReadPath, Clear, Kept, AppendOthers, MoveCurrent, CurrentFirst, SettleSame,
         SettleStale, SettleOne, LoadFirst, LoadNext, Loaded, Pushing
<1>3. Mine
  BY <1>1, <1>2 DEF Mine
<1>4. \A new : ~Unanswered(new)
  BY <1>1, NotLost
<1>5. /\ pc = "append" => Appended
      /\ pc = "settle" => Placed
      /\ pc = "fill" => Filled
  BY <1>1, <1>3 DEF ListRight, Progressed
<1>6. /\ Sane(mpv) /\ Phases /\ menu \in Menus /\ manifest \in menu /\ k \in Nat /\ Len(mpv.list) \in Nat
      /\ DOMAIN mpv.list = 1..Len(mpv.list)
  BY LenProperties DEF Typed, TypeOK, Instances, Sane
<1>7. Len(manifest) \in Nat /\ Len(manifest) >= 1 /\ manifest # Nothing /\ manifest \in Seq(Item)
      /\ \A i \in 1..Len(manifest) : manifest[i] \in Entry
  <2>1. pc \in Keeping \cup Loading \cup {"push"}
    BY DEF Push, ReadPath, Clear, Kept, AppendOthers, MoveCurrent, CurrentFirst, SettleSame,
           SettleStale, SettleOne, LoadFirst, LoadNext, Loaded, Pushing, Keeping, Loading
  <2>2. manifest # <<>>
    BY <1>6, <2>1 DEF Phases
  <2>3. QED
    BY <1>6, <2>2, ListType, PlaybackAssumption
<1> DEFINE t == Target(cur)
           n == Len(manifest)
<1>8. pc \in Keeping => /\ t \in 1..n /\ manifest[t].path = cur /\ cur \in Paths
                        /\ \A i \in 1..n : i # t => manifest[i].path # cur
                        /\ stale = Nothing
  BY <1>6, TargetIs DEF Phases
<1>9. cur' = cur => Target(cur)' = t
  BY <1>2 DEF Target
<1>10. CASE ReadPath
  BY <1>10, OpenAfter DEF ReadPath
<1>11. CASE Clear
  BY <1>4, <1>11, OpenAfter DEF Clear
<1>12. CASE Kept
  <2>1. CASE pc' = "full"
    BY <2>1, OpenAfter
  <2>2. CASE Read /\ KeptCurrent /\ pc' = "append" /\ k' = 1
    <3>1. pc = "kept" /\ cur' = cur /\ mpv' = mpv
      BY <1>12, <2>2 DEF Kept, Pushing, Read
    <3>2. Len(mpv.list) = 1 /\ mpv.list[1].path = cur
      <4>1. M!PathOf(mpv) # NoPath
        BY <1>8, <2>2, <3>1, PlaybackAssumption DEF KeptCurrent, Keeping
      <4>2. M!Playing(mpv) /\ mpv.list[mpv.pos].path = cur
        BY <2>2, <4>1 DEF M!PathOf, KeptCurrent
      <4> DEFINE q == mpv.pos
                 w == Len(mpv.list)
      <4>3. q \in Nat /\ q # 0 /\ q <= w /\ w \in Nat
        BY <1>6, <4>2 DEF Sane, M!Playing
      <4>4. w <= 1
        BY <1>6, <3>1 DEF Phases
      <4>5. q = 1 /\ w = 1
        <5> HIDE DEF q, w
        <5>1. QED
          BY <4>3, <4>4
      <4>6. QED
        BY <4>2, <4>5
    <3>3. Appended'
      <4>1. t \in 1..n /\ ~(t < 1)
        BY <1>8, <3>1 DEF Keeping
      <4>2. 1..(1 - 1) = {}
        OBVIOUS
      <4>3. QED
        BY <1>9, <2>2, <3>1, <3>2, <4>1, <4>2 DEF Appended
    <3>4. QED
      BY <2>2, <3>3 DEF Progressed, Settled
  <2>3. QED
    BY <1>12, <2>1, <2>2 DEF Kept
<1>13. CASE AppendOthers
  <2>1. /\ pc = "append" /\ pc' = "append" /\ cur' = cur /\ k' = k + 1 /\ k \in 1..n
    BY <1>4, <1>6, <1>7, <1>13 DEF AppendOthers, Pushing, Phases
  <2>2. Appended /\ t \in 1..n
    BY <1>5, <1>8, <2>1 DEF Keeping
  <2>3. Target(cur)' = t
    BY <1>9, <2>1
  <2> DEFINE l == mpv.list
             h == mpv'.list
  <2>4. /\ Len(l) = (IF t < k THEN k - 1 ELSE k) /\ l[1].path = cur
        /\ \A i \in 1..(k - 1) : /\ i < t => l[i + 1] = manifest[i]
                                 /\ i > t => l[i] = manifest[i]
    BY <2>2 DEF Appended
  <2>5. /\ Len(h) = (IF t < k + 1 THEN k ELSE k + 1) /\ h[1].path = cur
        /\ \A i \in 1..k : /\ i < t => h[i + 1] = manifest[i]
                           /\ i > t => h[i] = manifest[i]
    <3>1. CASE k = t
      <4>1. h = l
        BY <1>13, <3>1 DEF AppendOthers
      <4> HIDE DEF l, h
      <4>2. QED
        BY <2>1, <2>2, <2>4, <3>1, <4>1
    <3>2. CASE k # t
      <4>1. mpv' = M!LoadAppend(mpv, manifest[k])
        BY <1>4, <1>13, <3>2 DEF AppendOthers, Answered
      <4>2. /\ Len(h) = Len(l) + 1
            /\ \A i \in 1..Len(l) : h[i] = l[i]
            /\ h[Len(l) + 1] = manifest[k]
        BY <1>6, <1>7, <2>1, <4>1, Queued
      <4> HIDE DEF l, h, n, t
      <4>3. CASE t < k
        BY <2>1, <2>2, <2>4, <4>2, <4>3, SMTT(30)
      <4>4. CASE t > k
        BY <2>1, <2>2, <2>4, <4>2, <4>4
      <4>5. QED
        BY <2>1, <2>2, <3>2, <4>3, <4>4
    <3>3. QED
      BY <3>1, <3>2
  <2>6. (k + 1) - 1 = k
    BY <1>6
  <2>7. Appended'
    BY <1>2, <2>1, <2>3, <2>5, <2>6 DEF Appended
  <2>8. QED
    BY <2>1, <2>7 DEF Progressed, Settled
<1>14. CASE MoveCurrent
  <2>1. /\ pc = "append" /\ t \in 2..n /\ k = n + 1
    BY <1>6, <1>7, <1>8, <1>14 DEF MoveCurrent, Pushing, Phases, Keeping
  <2>2. Appended
    BY <1>5, <2>1
  <2>3. /\ Len(mpv.list) = n /\ mpv.list[1].path = cur
        /\ \A i \in 1..n : /\ i < t => mpv.list[i + 1] = manifest[i]
                           /\ i > t => mpv.list[i] = manifest[i]
    BY <1>7, <2>1, <2>2 DEF Appended
  <2>4. M!HasEntry(mpv, 1)
    BY <1>6, <1>7, <2>3 DEF M!HasEntry
  <2>5. mpv' = M!PlaylistMove(mpv, 1, t + 1) /\ pc' = "settle" /\ cur' = cur
    BY <1>4, <1>14, <2>4 DEF MoveCurrent, Refused, Answered, MoveTo, locals
  <2>6. /\ Len(mpv'.list) = n /\ mpv'.list[t] = mpv.list[1]
        /\ \A i \in 1..n : /\ i < t => mpv'.list[i] = mpv.list[i + 1]
                           /\ i > t => mpv'.list[i] = mpv.list[i]
    BY <1>6, <2>1, <2>3, <2>5, MovedOn
  <2>7. \A i \in 1..n : i # t => mpv'.list[i] = manifest[i]
    BY <1>7, <2>1, <2>3, <2>6
  <2>8. Placed'
    BY <1>2, <1>9, <2>3, <2>5, <2>6, <2>7 DEF Placed
  <2>9. QED
    BY <2>5, <2>8 DEF Progressed, Settled
<1>15. CASE CurrentFirst
  <2>1. /\ pc = "append" /\ t = 1 /\ k = n + 1 /\ UNCHANGED <<mpv, cur>> /\ pc' = "settle"
    BY <1>6, <1>7, <1>15 DEF CurrentFirst, Pushing, Phases, locals
  <2>2. Appended
    BY <1>5, <2>1
  <2>3. /\ Len(mpv.list) = n /\ mpv.list[1].path = cur
        /\ \A i \in 1..n : i > 1 => mpv.list[i] = manifest[i]
    BY <1>7, <2>1, <2>2 DEF Appended
  <2>4. Placed'
    BY <1>2, <1>7, <1>9, <2>1, <2>3 DEF Placed
  <2>5. QED
    BY <2>1, <2>4 DEF Progressed, Settled
<1>16. Placed /\ pc = "settle" => Same(mpv.list, manifest)
  <2> SUFFICES ASSUME Placed, pc = "settle" PROVE Same(mpv.list, manifest)
    OBVIOUS
  <2>1. \A i \in 1..n : mpv.list[i].path = manifest[i].path
    BY <1>8 DEF Placed, Keeping
  <2>2. QED
    BY <2>1 DEF Placed, Same
<1>17. CASE SettleSame
  <2>1. pc = "settle" /\ UNCHANGED <<mpv, stale>> /\ applied' = manifest /\ pc' = "sleep"
    BY <1>17 DEF SettleSame, Pushing, Pushed, Sleep
  <2>2. stale = Nothing
    BY <1>8, <2>1 DEF Keeping
  <2>3. QED
    BY <1>5, <1>7, <1>16, <2>1, <2>2, HoldsNow, SettledAfter DEF Settled
<1>18. CASE SettleStale
  <2>1. /\ pc = "settle" /\ UNCHANGED mpv /\ applied' = manifest /\ pc' = "sleep" /\ n > 1
        /\ stale' = StaleAt(t)
    BY <1>18 DEF SettleStale, Pushing, Pushed, Sleep
  <2>2. stale'.readd
    BY <2>1 DEF StaleAt
  <2>3. QED
    BY <1>5, <1>7, <1>16, <2>1, <2>2, HoldsNow, SettledAfter DEF Settled
<1>19. CASE SettleOne
  <2>1. /\ pc = "settle" /\ mpv' = M!LoadAppend(mpv, manifest[1]) /\ applied' = manifest /\ pc' = "sleep" /\ n = 1
        /\ stale' = StaleAt(1)
    BY <1>4, <1>19 DEF SettleOne, Pushing, Pushed, Sleep, Answered
  <2>2. t = 1 /\ StaleAt(t) \in StaleEntry /\ Fits(StaleAt(t), manifest)
    BY <1>8, <2>1, TargetItem DEF Keeping
  <2>3. ~stale'.readd /\ stale' # Nothing
    BY <2>1, <2>2, PlaybackAssumption DEF Fits
  <2>4. Len(mpv.list) = 1 /\ mpv.list[1].path = manifest[1].path
    <3>1. Same(mpv.list, manifest) /\ 1 \in 1..n
      BY <1>5, <1>7, <1>16, <2>1
    <3>2. QED
      BY <2>1, <3>1 DEF Same
  <2>5. Len(mpv'.list) = 2 /\ mpv'.list[1] = mpv.list[1] /\ mpv'.list[2] = manifest[1]
    <3>1. manifest[1] \in Entry
      BY <1>7
    <3>2. /\ Len(mpv'.list) = Len(mpv.list) + 1
          /\ \A i \in 1..Len(mpv.list) : mpv'.list[i] = mpv.list[i]
          /\ mpv'.list[Len(mpv.list) + 1] = manifest[1]
      BY <1>6, <2>1, <3>1, Queued
    <3>3. Len(mpv.list) = 1
      BY <2>4
    <3>4. QED
      BY <3>2, <3>3
  <2>6. Holds(applied)'
    BY <1>7, <2>1, <2>3, <2>4, <2>5, HoldsTwice
  <2>7. QED
    BY <2>1, <2>6, SettledAfter DEF Settled
<1>20. CASE LoadFirst
  <2>1. mpv' = M!LoadReplace(mpv, manifest[1]) /\ pc' = "fill" /\ k' = 2
    BY <1>4, <1>20 DEF LoadFirst, Answered
  <2>2. Len(mpv'.list) = 1 /\ mpv'.list[1] = manifest[1]
    BY <1>6, <1>7, <2>1, FirstLoaded
  <2>3. 2 - 1 = 1 /\ \A i \in 1..1 : i = 1
    OBVIOUS
  <2>4. Filled'
    BY <1>2, <2>1, <2>2, <2>3 DEF Filled
  <2>5. QED
    BY <2>1, <2>4 DEF Progressed, Settled
<1>21. CASE LoadNext
  <2>1. /\ pc = "fill" /\ pc' = "fill" /\ mpv' = M!LoadAppend(mpv, manifest[k]) /\ k' = k + 1 /\ k \in 2..n
    BY <1>4, <1>6, <1>7, <1>21 DEF LoadNext, Pushing, Phases, Answered
  <2>2. Len(mpv.list) = k - 1 /\ \A i \in 1..(k - 1) : mpv.list[i] = manifest[i]
    BY <1>5, <2>1 DEF Filled
  <2>3. /\ Len(mpv'.list) = Len(mpv.list) + 1
        /\ \A i \in 1..Len(mpv.list) : mpv'.list[i] = mpv.list[i]
        /\ mpv'.list[Len(mpv.list) + 1] = manifest[k]
    BY <1>6, <1>7, <2>1, Queued
  <2>4. Len(mpv'.list) = k /\ \A i \in 1..k : mpv'.list[i] = manifest[i]
    <3>1. k \in Nat \ {0}
      BY <1>6, <2>1
    <3>2. QED
      BY <2>2, <2>3, <3>1
  <2>5. (k + 1) - 1 = k
    BY <1>6
  <2>6. Filled'
    BY <1>2, <2>1, <2>4, <2>5 DEF Filled
  <2>7. QED
    BY <2>1, <2>6 DEF Progressed, Settled
<1>22. CASE Loaded
  <2>1. /\ pc = "fill" /\ UNCHANGED <<mpv, stale>> /\ applied' = manifest /\ pc' = "sleep" /\ k = n + 1
    BY <1>6, <1>7, <1>22 DEF Loaded, Pushing, Pushed, Sleep, client, Phases
  <2>2. stale = Nothing
    BY <1>6, <2>1 DEF Phases, Loading
  <2>3. Len(mpv.list) = n /\ \A i \in 1..n : mpv.list[i] = manifest[i]
    BY <1>5, <1>7, <2>1 DEF Filled
  <2>4. Same(mpv'.list, applied')
    BY <2>1, <2>3 DEF Same
  <2>5. QED
    BY <1>7, <2>1, <2>2, <2>4, HoldsNow, SettledAfter DEF Settled
<1>23. QED
  BY <1>10, <1>11, <1>12, <1>13, <1>14, <1>15, <1>17, <1>18, <1>19, <1>20, <1>21, <1>22 DEF Push

LEMMA ListSwap ==
  ASSUME Typed, Typed', ListRight, Swap, losses' = 0, Mine'
  PROVE  Progressed'
<1>1. losses = 0 /\ mpv.up /\ mpv'.pid = mpv.pid
  BY Lossless DEF Daemon, Mine
<1>2. UNCHANGED <<menu, manifest, knownPid, screen>>
  BY DEF Swap, ReadPos, RemoveStale, ReAdd, MoveBack, Pushing
<1>3. Mine
  BY <1>1, <1>2 DEF Mine
<1>4. \A new : ~Unanswered(new)
  BY <1>1, NotLost
<1>5. Progressed
  BY <1>1, <1>3 DEF ListRight, Progressed
<1>6. /\ Sane(mpv) /\ Phases /\ Memory /\ Len(mpv.list) \in Nat /\ DOMAIN mpv.list = 1..Len(mpv.list)
  BY LenProperties DEF Typed, Instances, Sane
<1>7. ASSUME pc' = "sleep", applied' = Nothing PROVE Progressed'
  BY <1>7, SettledAfter DEF Settled
<1> DEFINE n == Len(applied)
           g == swap.index
           l == mpv.list
           h == mpv'.list
<1>8. pc \in Swapping \/ (pc = "stale" /\ stale # Nothing) => /\ applied # Nothing /\ screen = NoScreen
                                       /\ applied \in Seq(Item) /\ n \in Nat /\ n >= 1 /\ mpv.list \in Seq(Entry)
  BY <1>6, AppliedType DEF Phases, Memory
<1>9. pc \in Swapping => /\ g \in 1..n /\ applied[g] = [path |-> swap.path, opts |-> swap.opts]
                         /\ swap.readd <=> n > 1
                         /\ stale = Nothing /\ applied[g].path = swap.path
  BY <1>6 DEF Phases, Fits
<1>10. CASE ReadPos
  <2>1. pc = "stale" /\ UNCHANGED <<mpv, applied>>
    BY <1>4, <1>10 DEF ReadPos, Pushing, Read, Unread
  <2>2. CASE pc' = "sleep" /\ UNCHANGED stale
    BY <1>2, <1>5, <2>1, <2>2, HoldsStill, SettledAfter DEF Progressed, Settled
  <2>3. CASE stale # Nothing /\ swap' = stale /\ pc' = "remove"
    <3>1. Holds(applied)
      BY <1>5, <1>8, <2>1, <2>3 DEF Progressed, Settled
    <3>2. PathsOf(mpv.list) = PathsOf(IF stale.readd THEN applied ELSE applied \o applied)
      BY <2>3, <3>1 DEF Holds, OneStale
    <3>3. PathsOf(mpv'.list) = PathsOf(IF swap'.readd THEN applied' ELSE applied' \o applied')
      BY <2>1, <2>3, <3>2
    <3>4. QED
      BY <2>3, <3>3 DEF Progressed, Settled
  <2>4. CASE pc' = "sleep" /\ stale = Nothing /\ UNCHANGED stale
    BY <2>2, <2>4
  <2>5. QED
    BY <1>10, <2>2, <2>3 DEF ReadPos, Sleep
<1>11. CASE RemoveStale
  <2>1. pc = "remove" /\ stale' = stale
    BY <1>11 DEF RemoveStale, Pushing
  <2>2. CASE Drifted
    BY <1>7, <2>2 DEF Drifted, PushAgain, Sleep
  <2>3. CASE M!HasEntry(mpv, g) /\ mpv' = M!PlaylistRemove(mpv, g) /\ applied' = applied
    <3>1. g \in 1..Len(l)
      BY <1>6, <2>3 DEF M!HasEntry
    <3>2. /\ Len(h) = Len(l) - 1
          /\ \A j \in 1..(Len(l) - 1) : h[j] = IF j < g THEN l[j] ELSE l[j + 1]
      BY <1>6, <2>3, <3>1, Removed
    <3>3. PathsOf(l) = PathsOf(IF swap.readd THEN applied ELSE applied \o applied)
      BY <1>5, <2>1 DEF Progressed
    <3>4. CASE swap.readd
      <4>1. pc' = "readd" /\ swap' = swap
        BY <1>4, <1>11, <2>1, <2>3, <3>4 DEF RemoveStale, Drifted, Refused
      <4>2. Same(l, applied)
        BY <1>8, <2>1, <3>3, <3>4, PathsSame DEF Swapping
      <4>3. Len(h) = n - 1 /\ \A i \in 1..(n - 1) : h[i].path = applied[Gap(i)].path
        <5>1. g \in Nat /\ n \in Nat
          BY <1>8, <1>9, <2>1 DEF Swapping
        <5> HIDE DEF l, h, g, n
        <5>2. Len(l) = n /\ \A i \in 1..n : l[i].path = applied[i].path
          BY <4>2 DEF Same, n
        <5>3. ASSUME NEW i \in 1..(n - 1) PROVE h[i].path = applied[Gap(i)].path
          <6>1. i \in 1..n /\ i + 1 \in 1..n /\ i \in 1..(Len(l) - 1)
            BY <5>1, <5>2
          <6>2. Gap(i) = IF i < g THEN i ELSE i + 1
            BY DEF Gap, g
          <6>3. QED
            BY <3>2, <5>2, <6>1, <6>2
        <5>4. QED
          BY <3>2, <5>2, <5>3
      <4>4. \A i : Gap(i)' = Gap(i)
        BY <4>1 DEF Gap
      <4>5. QED
        BY <2>3, <4>1, <4>3, <4>4 DEF Progressed, Settled
    <3>5. CASE ~swap.readd
      <4>1. pc' = "sleep"
        BY <1>11, <3>5 DEF RemoveStale, Drifted, Sleep
      <4>2. n = 1
        <5>1. n \in Nat /\ n >= 1 /\ ~(n > 1)
          BY <1>8, <1>9, <2>1, <3>5 DEF Swapping
        <5> HIDE DEF n
        <5>2. QED
          BY <5>1
      <4>3. Len(l) = 2 /\ l[1].path = applied[1].path /\ l[2].path = applied[1].path
        BY <1>8, <2>1, <3>3, <3>5, <4>2, PathsTwice DEF Swapping
      <4>4. Len(h) = 1 /\ h[1].path = applied[1].path
        <5> HIDE DEF l, h, g
        <5>1. QED
          BY <3>2, <4>3
      <4>5. \A i \in 1..1 : i = 1
        OBVIOUS
      <4>6. Same(h, applied)
        BY <4>2, <4>4, <4>5 DEF Same
      <4>7. stale' = Nothing
        BY <1>9, <2>1 DEF Swapping
      <4>8. Holds(applied)'
        BY <1>8, <2>1, <2>3, <4>6, <4>7, HoldsNow DEF Swapping
      <4>9. QED
        BY <4>1, <4>8, SettledAfter DEF Settled
    <3>6. QED
      BY <3>4, <3>5
  <2>4. QED
    BY <1>4, <1>11, <2>2, <2>3 DEF RemoveStale, Answered
<1>12. CASE ReAdd
  <2> DEFINE e == [path |-> swap.path, opts |-> swap.opts]
  <2>1. pc = "readd"
    BY <1>12 DEF ReAdd, Pushing
  <2>2. mpv' = M!LoadAppend(mpv, e) /\ pc' = "back" /\ UNCHANGED <<applied, swap>>
    BY <1>4, <1>12 DEF ReAdd, Answered
  <2>3. e \in Entry /\ e.path = swap.path
    BY <1>6, <2>1, Loadable DEF Phases, Swapping
  <2>4. /\ Len(h) = Len(l) + 1 /\ h[Len(l) + 1] = e
        /\ \A i \in 1..Len(l) : h[i] = l[i]
    <3> HIDE DEF e
    <3>1. QED
      BY <1>6, <2>2, <2>3, Queued
  <2>5. Len(l) = n - 1 /\ \A i \in 1..(n - 1) : l[i].path = applied[Gap(i)].path
    BY <1>5, <2>1 DEF Progressed
  <2>6. Len(h) = n /\ h[n].path = swap.path /\ \A i \in 1..(n - 1) : h[i].path = applied[Gap(i)].path
    <3>1. n \in Nat
      BY <1>8, <2>1 DEF Swapping
    <3> HIDE DEF n, e, l, h
    <3>2. QED
      BY <2>3, <2>4, <2>5, <3>1
  <2>7. \A i : Gap(i)' = Gap(i)
    BY <2>2 DEF Gap
  <2>8. QED
    BY <2>2, <2>6, <2>7 DEF Progressed, Settled
<1>13. CASE MoveBack
  <2>1. pc = "back" /\ stale' = stale
    BY <1>13 DEF MoveBack, Pushing, client
  <2>2. CASE Drifted
    BY <1>7, <2>2 DEF Drifted, PushAgain, Sleep
  <2>3. /\ n \in Nat /\ n >= 1 /\ g \in 1..n /\ applied[g].path = swap.path /\ stale' = Nothing
        /\ applied # Nothing
    BY <1>8, <1>9, <2>1 DEF Swapping
  <2>4. /\ Len(l) = n /\ l[n].path = swap.path
        /\ \A i \in 1..(n - 1) : l[i].path = applied[Gap(i)].path
    BY <1>5, <2>1 DEF Progressed
  <2>5. \A i : Gap(i) = IF i < g THEN i ELSE i + 1
    BY DEF Gap
  <2>6. CASE Sleep /\ applied' = applied
    <3>1. Len(h) = n /\ \A i \in 1..n : h[i].path = applied[i].path
      <4>1. CASE n <= g
        <5>1. h = l
          BY <1>4, <1>13, <2>4, <4>1, <2>3 DEF MoveBack, Read, Answered
        <5>2. g = n
          BY <2>3, <4>1
        <5> HIDE DEF l, h, n, g
        <5>3. QED
          BY <2>3, <2>4, <2>5, <5>1, <5>2
      <4>2. CASE n > g
        <5>1. mpv' = M!PlaylistMove(mpv, Len(l), g)
          BY <1>4, <1>13, <2>3, <2>4, <4>2 DEF MoveBack, Read, Answered
        <5>2. g \in 1..(Len(l) - 1)
          BY <2>3, <2>4, <4>2
        <5>3. /\ Len(h) = Len(l) /\ h[g] = l[Len(l)]
              /\ \A i \in 1..Len(l) : /\ i < g => h[i] = l[i]
                                      /\ i > g => h[i] = l[i - 1]
          BY <1>6, <5>1, <5>2, MovedBack
        <5> HIDE DEF l, h, n, g
        <5>4. ASSUME NEW i \in 1..n PROVE h[i].path = applied[i].path
          <6>1. CASE i = g
            BY <2>3, <2>4, <5>3, <6>1
          <6>2. CASE i < g
            BY <2>3, <2>4, <2>5, <4>2, <5>3, <6>2
          <6>3. CASE i > g
            <7>1. i - 1 \in 1..(n - 1) /\ ~(i - 1 < g) /\ (i - 1) + 1 = i
              BY <2>3, <6>3
            <7>2. QED
              BY <2>4, <2>5, <5>3, <6>3, <7>1
          <6>4. QED
            BY <2>3, <6>1, <6>2, <6>3
        <5>5. QED
          BY <2>4, <5>3, <5>4
      <4>3. QED
        BY <2>3, <4>1, <4>2
    <3>2. Same(h, applied)
      BY <3>1 DEF Same
    <3>3. Holds(applied)'
      BY <2>3, <2>6, <3>2, HoldsNow
    <3>4. QED
      BY <2>6, <3>3, SettledAfter DEF Settled, Sleep
  <2>7. QED
    BY <1>13, <2>2, <2>6 DEF MoveBack
<1>14. QED
  BY <1>10, <1>11, <1>12, <1>13 DEF Swap

\* mpv going on by itself changes its position only; a new mpv has a new pid.
LEMMA WorldThrough ==
  ASSUME Typed, World \/ UNCHANGED vars, Mine'
  PROVE  /\ mpv'.list = mpv.list /\ Mine
         /\ UNCHANGED <<menu, manifest, daemon, client, pc, locals, losses>>
<1>1. /\ Sane(mpv) /\ mpv \in [up : BOOLEAN, pid : Nat, list : Seq(Entry), pos : Nat] /\ knownPid <= mpv.pid
      /\ mpv.pid \in Nat /\ mpv.pid >= 1 /\ knownPid \in Nat
  BY DEF Typed, Instances, Sane, TypeOK
<1>2. CASE FileEnds
  <2>1. SameInstance(mpv, mpv') /\ mpv'.list = mpv.list
    BY <1>1, <1>2, WentOn DEF FileEnds
  <2>2. QED
    BY <1>2, <2>1 DEF FileEnds, Environment, SameInstance, Mine, daemon
<1>3. CASE GivesUp
  <2>1. SameInstance(mpv, mpv') /\ mpv'.list = mpv.list
    BY <1>1, <1>3, GaveUp DEF GivesUp
  <2>2. QED
    BY <1>3, <2>1 DEF GivesUp, Environment, SameInstance, Mine, daemon
<1>4. CASE MpvDies
  <2>1. mpv'.up = FALSE
    BY <1>1, <1>4 DEF MpvDies
  <2>2. QED
    BY <2>1 DEF Mine
<1>5. CASE MpvStarts
  <2>1. mpv'.pid = mpv.pid + 1
    BY <1>1, <1>5 DEF MpvStarts
  <2>2. knownPid' = knownPid
    BY <1>5 DEF MpvStarts, Environment, daemon
  <2>3. QED
    BY <1>1, <2>1, <2>2 DEF Mine
<1>6. CASE DaemonRestarts
  <2>1. knownPid' = 0 /\ mpv'.pid = mpv.pid
    BY <1>6 DEF DaemonRestarts
  <2>2. knownPid' = mpv'.pid
    BY DEF Mine
  <2>3. QED
    BY <1>1, <2>1, <2>2
<1>7. CASE UNCHANGED vars
  BY <1>7 DEF vars, Mine, daemon
<1>8. QED
  BY <1>2, <1>3, <1>4, <1>5, <1>6, <1>7 DEF World

LEMMA ListStep == Typed /\ ListRight /\ [Next]_vars => ListRight'
<1> SUFFICES ASSUME Typed, ListRight, [Next]_vars, losses' = 0, Mine' PROVE Progressed'
  BY DEF ListRight, Progressed
<1>1. Typed'
  BY TypedStep
<1>2. CASE Daemon
  BY <1>1, <1>2, ListCycle, ListPush, ListSwap DEF Daemon
<1>3. CASE World \/ UNCHANGED vars
  <2>1. /\ mpv'.list = mpv.list /\ Mine
        /\ UNCHANGED <<manifest, applied, screen, stale, pc, cur, k, swap, losses>>
    BY <1>3, WorldThrough DEF daemon, client, locals
  <2>2. Progressed
    BY <2>1 DEF ListRight, Progressed
  <2>3. Target(cur)' = Target(cur) /\ \A i : Gap(i)' = Gap(i)
    BY <2>1 DEF Target, Gap
  <2>4. pc \in Settled /\ applied # Nothing /\ screen = NoScreen => Holds(applied)'
    BY <2>1, <2>2, HoldsStill DEF Progressed
  <2>5. QED
    BY <2>1, <2>2, <2>3, <2>4 DEF Progressed, Appended, Placed, Filled
<1>4. QED
  BY <1>2, <1>3 DEF Next

LEMMA ListInit == Init => ListRight
<1> SUFFICES ASSUME Init PROVE ListRight
  OBVIOUS
<1>1. pc = "sleep" /\ applied = Nothing
  BY DEF Init
<1>2. QED
  BY <1>1 DEF ListRight, Progressed

\* As long as no reply of mpv's has been lost, mpv's playlist at rest is the list that
\* applied_hash says was pushed, in order and without duplicates: whatever mpv played, however
\* it died, wherever a push, a swap or the daemon was cut short, for playlists of any length.
THEOREM AppliedListKept == Spec => [](losses = 0 => AppliedListRight)
<1>1. Init => Typed /\ ListRight
  BY TypedInit, ListInit
<1>2. (Typed /\ ListRight) /\ [Next]_vars => (Typed /\ ListRight)'
  BY TypedStep, ListStep
<1>3. Typed /\ ListRight => (losses = 0 => AppliedListRight)
  BY DEF ListRight, Progressed, AppliedListRight, AtRest, Mine, Settled
<1>4. QED
  BY <1>1, <1>2, <1>3, PTL DEF Spec

LEMMA NoReplyLost == MaxLosses = 0 /\ Typed /\ losses = 0 /\ [Next]_vars => losses' = 0
<1> SUFFICES ASSUME MaxLosses = 0, Typed, losses = 0, [Next]_vars PROVE losses' = 0
  OBVIOUS
<1>1. ASSUME NEW new PROVE Answered(new) \/ Unanswered(new) => losses' = losses
  BY DEF Answered, Unanswered
<1>2. CASE Cycle
  BY <1>1, <1>2 DEF Cycle, StartCycle, Progress, MpvGone, Reconcile, IdleScreen, FaultScreen,
     ShowAnswered, ShowUnanswered, Read, Unread
<1>3. CASE Push
  BY <1>1, <1>3 DEF Push, ReadPath, Clear, Kept, AppendOthers, MoveCurrent, CurrentFirst, SettleSame,
     SettleStale, SettleOne, LoadFirst, LoadNext, Loaded, Read, Unread, Refused
<1>4. CASE Swap
  BY <1>1, <1>4 DEF Swap, ReadPos, RemoveStale, ReAdd, MoveBack, Read, Unread, Refused
<1>5. CASE World \/ UNCHANGED vars
  BY <1>5 DEF World, FileEnds, GivesUp, MpvDies, MpvStarts, DaemonRestarts, Environment, vars
<1>6. QED
  BY <1>2, <1>3, <1>4, <1>5 DEF Next, Daemon

\* So it is in every behaviour when replies are not lost at all.
COROLLARY AppliedListRightKept == MaxLosses = 0 => (Spec => []AppliedListRight)
<1> SUFFICES ASSUME MaxLosses = 0 PROVE Spec => []AppliedListRight
  OBVIOUS
<1>1. Init => Typed /\ losses = 0
  BY TypedInit DEF Init
<1>2. (Typed /\ losses = 0) /\ [Next]_vars => (Typed /\ losses = 0)'
  BY TypedStep, NoReplyLost
<1>3. QED
  BY <1>1, <1>2, AppliedListKept, PTL DEF Spec

-----------------------------------------------------------------------------
(* What the client's memory of the options is worth.                       *)

LEMMA LoopsStill ==
  ASSUME Typed, OptionsTrue, losses' = 0, Loops', menu' = menu, losses' >= losses
  PROVE  Truthful /\ losses = 0 /\ Loops
<1>1. losses = 0
  BY DEF Typed, Instances
<1>2. Loops
  BY DEF Loops
<1>3. QED
  BY <1>1, <1>2 DEF OptionsTrue

\* An mpv that holds nothing and was not seen by the daemon contradicts no memory.
LEMMA EmptyTruth ==
  ASSUME mpv'.list = <<>>, ~Mine'
  PROVE  Truthful'
<1>1. DOMAIN mpv'.list = {}
  OBVIOUS
<1>2. QED
  BY <1>1 DEF Truthful, KnownTrue, OldTrue, LoadedBefore, Vanished, OptionsInPlace

\* With no reply lost, an mpv that does not answer is down.
LEMMA SilentTruth ==
  ASSUME Typed, losses' = 0, NEW new, Unanswered(new)
  PROVE  Truthful'
<1>1. ~mpv.up /\ mpv' = mpv
  BY DEF Unanswered, Typed, Instances
<1>2. mpv'.list = <<>> /\ ~mpv'.up
  BY <1>1 DEF Typed, Instances
<1>3. QED
  BY <1>2, EmptyTruth DEF Mine

LEMMA SettledTruth ==
  ASSUME pc' \in {"sleep", "progress", "reconcile"}, KnownTrue',
         Mine' /\ applied' # Nothing /\ screen' = NoScreen => InPlace'
  PROVE  Truthful'
BY DEF Truthful, OldTrue, LoadedBefore, Vanished, OptionsInPlace, Keeping, Settled

LEMMA OpenTruth ==
  ASSUME pc' \in {"idle", "push", "clear", "kept", "settle", "full"}, KnownTrue', OldTrue'
  PROVE  Truthful'
BY DEF Truthful, LoadedBefore, Vanished, OptionsInPlace, Settled

LEMMA InPlaceStill ==
  ASSUME InPlace, mpv'.list = mpv.list, UNCHANGED <<applied, stale>>
  PROVE  InPlace'
BY DEF InPlace

\* The entries of mpv's list, but for new ones, were there before.
FromBefore(i) == \E j \in DOMAIN mpv.list : mpv'.list[i] = mpv.list[j]

LEMMA KnownStill ==
  ASSUME KnownTrue, known' = known, \A i \in DOMAIN mpv'.list : FromBefore(i)
  PROVE  KnownTrue'
BY DEF KnownTrue, FromBefore

LEMMA OldStill ==
  ASSUME OldTrue, pc \in Keeping, UNCHANGED <<cur, old>>, \A i \in DOMAIN mpv'.list : FromBefore(i)
  PROVE  OldTrue'
BY DEF OldTrue, FromBefore

LEMMA KnownForgotten ==
  ASSUME known' = NothingKnown
  PROVE  KnownTrue'
BY DEF KnownTrue, NothingKnown

LEMMA KnownNoted ==
  ASSUME KnownTrue, known \in [Paths -> Options \cup {Unknown}], NEW p \in Paths, NEW o \in Options \cup {Unknown},
         known' = [known EXCEPT ![p] = o],
         \A i \in DOMAIN mpv'.list : IF mpv'.list[i].path = p THEN o # Unknown => mpv'.list[i].opts = o ELSE FromBefore(i)
  PROVE  KnownTrue'
<1> SUFFICES ASSUME NEW i \in DOMAIN mpv'.list, NEW q \in Paths, mpv'.list[i].path = q, known'[q] # Unknown
             PROVE  mpv'.list[i].opts = known'[q]
  BY DEF KnownTrue
<1>1. CASE q = p
  BY <1>1
<1>2. CASE q # p
  <2>1. PICK j \in DOMAIN mpv.list : mpv'.list[i] = mpv.list[j]
    BY <1>2 DEF FromBefore
  <2>2. known'[q] = known[q]
    BY <1>2
  <2>3. QED
    BY <2>1, <2>2 DEF KnownTrue
<1>3. QED
  BY <1>1, <1>2

LEMMA SameBefore ==
  ASSUME mpv'.list = mpv.list
  PROVE  \A i \in DOMAIN mpv'.list : FromBefore(i)
BY DEF FromBefore

\* A list that one command has appended to.
LEMMA AppendedBefore ==
  ASSUME Sane(mpv), NEW e \in Entry, mpv' = M!LoadAppend(mpv, e), NEW i \in DOMAIN mpv'.list, mpv'.list[i] # e
  PROVE  FromBefore(i)
<1>1. /\ Sane(mpv') /\ Len(mpv'.list) = Len(mpv.list) + 1
      /\ \A j \in 1..Len(mpv.list) : mpv'.list[j] = mpv.list[j]
      /\ mpv'.list[Len(mpv.list) + 1] = e
  BY Queued DEF SameInstance
<1>2. /\ Len(mpv.list) \in Nat /\ DOMAIN mpv.list = 1..Len(mpv.list)
      /\ DOMAIN mpv'.list = 1..Len(mpv'.list)
  BY <1>1, LenProperties DEF Sane
<1>3. i \in 1..Len(mpv.list)
  BY <1>1, <1>2
<1>4. QED
  BY <1>1, <1>2, <1>3 DEF FromBefore

\* A list that one command has taken from, or has put in another order.
LEMMA ClearedBefore ==
  ASSUME Sane(mpv), mpv' = M!PlaylistClear(mpv), NEW i \in DOMAIN mpv'.list
  PROVE  FromBefore(i)
<1>1. /\ Sane(mpv') /\ \A j \in 1..Len(mpv'.list) : \E h \in 1..Len(mpv.list) : mpv'.list[j] = mpv.list[h]
  BY Cleared DEF SameInstance
<1>2. DOMAIN mpv.list = 1..Len(mpv.list) /\ DOMAIN mpv'.list = 1..Len(mpv'.list)
  BY <1>1, LenProperties DEF Sane
<1>3. QED
  BY <1>1, <1>2 DEF FromBefore

LEMMA RemovedBefore ==
  ASSUME Sane(mpv), NEW g \in 1..Len(mpv.list), mpv' = M!PlaylistRemove(mpv, g), NEW i \in DOMAIN mpv'.list
  PROVE  FromBefore(i)
<1>1. /\ Sane(mpv') /\ Len(mpv'.list) = Len(mpv.list) - 1
      /\ \A j \in 1..(Len(mpv.list) - 1) : mpv'.list[j] = IF j < g THEN mpv.list[j] ELSE mpv.list[j + 1]
  BY Removed DEF SameInstance
<1>2. /\ Len(mpv.list) \in Nat /\ DOMAIN mpv.list = 1..Len(mpv.list)
      /\ DOMAIN mpv'.list = 1..Len(mpv'.list)
  BY <1>1, LenProperties DEF Sane
<1>3. i \in 1..(Len(mpv.list) - 1) /\ i \in 1..Len(mpv.list) /\ i + 1 \in 1..Len(mpv.list)
  BY <1>1, <1>2
<1>4. QED
  BY <1>1, <1>2, <1>3 DEF FromBefore

LEMMA MovedBefore ==
  ASSUME Sane(mpv), NEW from \in 1..Len(mpv.list), NEW to \in Nat \ {0}, mpv' = M!PlaylistMove(mpv, from, to),
         NEW i \in DOMAIN mpv'.list
  PROVE  FromBefore(i)
<1> DEFINE at == M!Spot(mpv, from, to)
           j == IF i < at THEN i ELSE i - 1
<1>1. /\ Sane(mpv') /\ Len(mpv'.list) = Len(mpv.list) /\ at \in 1..Len(mpv.list)
      /\ \A h \in 1..Len(mpv.list) :
           mpv'.list[h] = IF h = at THEN mpv.list[from]
                          ELSE LET x == IF h < at THEN h ELSE h - 1
                               IN IF x < from THEN mpv.list[x] ELSE mpv.list[x + 1]
  <2>1. MovedTo(mpv, M!PlaylistMove(mpv, from, to), from, M!Spot(mpv, from, to))
    BY Moved
  <2>2. MovedTo(mpv, mpv', from, at)
    BY <2>1
  <2> HIDE DEF at
  <2>3. QED
    BY <2>2 DEF MovedTo, SameInstance
<1>2. /\ Len(mpv.list) \in Nat /\ DOMAIN mpv.list = 1..Len(mpv.list)
      /\ DOMAIN mpv'.list = 1..Len(mpv'.list)
  BY <1>1, LenProperties DEF Sane
<1> HIDE DEF at
<1>3. i \in 1..Len(mpv.list)
  BY <1>1, <1>2
<1>4. CASE i = at
  BY <1>1, <1>2, <1>3, <1>4 DEF FromBefore
<1>5. CASE i # at
  <2>1. mpv'.list[i] = IF j < from THEN mpv.list[j] ELSE mpv.list[j + 1]
    BY <1>1, <1>3, <1>5
  <2>2. j \in 0..(Len(mpv.list) - 1) \/ (i < at /\ j = i)
    BY <1>1, <1>2, <1>3, <1>5
  <2>3. j < from => j \in 1..Len(mpv.list)
    BY <1>1, <1>2, <1>3, <1>5
  <2>4. ~(j < from) => j + 1 \in 1..Len(mpv.list)
    BY <1>1, <1>2, <1>3, <1>5
  <2> HIDE DEF j
  <2>5. QED
    BY <1>2, <2>1, <2>3, <2>4 DEF FromBefore
<1>6. QED
  BY <1>4, <1>5

LEMMA OptionsCycle ==
  ASSUME Typed, Typed', OptionsTrue, Cycle, losses' = 0, Loops'
  PROVE  Truthful'
<1>1. Truthful
  <2>1. menu' = menu
    BY DEF Cycle, StartCycle, Progress, MpvGone, Reconcile, IdleScreen, FaultScreen
  <2>2. losses' >= losses
    BY CycleThrough DEF Through
  <2>3. QED
    BY <2>1, <2>2, LoopsStill
<1>2. CASE \E new : Unanswered(new)
  BY <1>2, SilentTruth
<1>3. CASE \A new : ~Unanswered(new)
  <2>1. KnownTrue /\ OptionsInPlace
    BY <1>1 DEF Truthful
  <2>2. Mine /\ pc \in Settled /\ applied # Nothing /\ screen = NoScreen => InPlace
    BY <2>1 DEF OptionsInPlace
  <2>3. CASE StartCycle
    <3>1. /\ pc = "sleep" /\ pc' \in {"progress", "reconcile"}
          /\ UNCHANGED <<mpv, applied, screen, stale, known, knownPid>>
      BY <2>3 DEF StartCycle, daemon, client
    <3>2. KnownTrue'
      BY <2>1, <3>1, KnownStill, SameBefore
    <3>3. Mine' => Mine
      BY <3>1 DEF Mine
    <3>4. QED
      BY <2>2, <3>1, <3>2, <3>3, InPlaceStill, SettledTruth DEF Settled
  <2>4. CASE Progress
    <3>1. /\ pc = "progress" /\ pc' = "reconcile" /\ UNCHANGED knownPid
          /\ UNCHANGED <<mpv, applied, screen, stale, known>> \/ (Forget /\ PushAgain)
      BY <1>3, <2>4 DEF Progress, client, ShowAnswered, ShowUnanswered
    <3>2. CASE UNCHANGED <<mpv, applied, screen, stale, known>>
      <4>1. KnownTrue'
        BY <2>1, <3>2, KnownStill, SameBefore
      <4>2. Mine' => Mine
        BY <3>1, <3>2 DEF Mine
      <4>3. QED
        BY <2>2, <3>1, <3>2, <4>1, <4>2, InPlaceStill, SettledTruth DEF Settled
    <3>3. CASE Forget /\ PushAgain
      BY <3>1, <3>3, KnownForgotten, SettledTruth DEF Forget, PushAgain
    <3>4. QED
      BY <3>1, <3>2, <3>3
  <2>5. CASE MpvGone
    BY <1>3, <2>5 DEF MpvGone, Unread
  <2>6. CASE Reconcile
    <3>1. UNCHANGED <<mpv, stale, known>> /\ pc = "reconcile" /\ mpv.up /\ knownPid' = mpv.pid
      BY <2>6 DEF Reconcile, Read, client
    <3>2. Mine'
      BY <3>1 DEF Mine
    <3>3. KnownTrue'
      BY <2>1, <3>1, KnownStill, SameBefore
    <3>4. applied' # Nothing => knownPid = mpv.pid /\ applied' = applied /\ screen' = screen
      <4>1. applied' = NoteInstance.applied /\ screen' = NoteInstance.screen
        BY <2>6 DEF Reconcile
      <4>2. CASE knownPid = mpv.pid
        BY <4>1, <4>2 DEF NoteInstance
      <4>3. CASE knownPid # mpv.pid
        BY <4>1, <4>3 DEF NoteInstance
      <4>4. QED
        BY <4>2, <4>3
    <3>5. applied' # Nothing /\ screen' = NoScreen => InPlace'
      BY <2>2, <3>1, <3>4, InPlaceStill DEF Mine, Settled
    <3>6. pc' \in {"idle", "push", "fault", "stale"}
      <4>1. CASE manifest # applied'
        BY <2>6, <4>1 DEF Reconcile
      <4>2. CASE manifest = applied'
        BY <2>6, <4>2, WatchTypes DEF Reconcile, Typed, TypeOK
      <4>3. QED
        BY <4>1, <4>2
    <3>7. QED
      BY <3>2, <3>3, <3>5, <3>6 DEF Truthful, OldTrue, LoadedBefore, Vanished, OptionsInPlace, Keeping
  <2>7. CASE IdleScreen
    <3>1. pc' = "sleep" /\ applied' = Nothing
      BY <2>7 DEF IdleScreen, Sleep, PushAgain
    <3>2. UNCHANGED <<mpv, known>> \/ Forget
      BY <1>3, <2>7 DEF IdleScreen, client, ShowAnswered, ShowUnanswered
    <3>3. KnownTrue'
      <4>1. CASE UNCHANGED <<mpv, known>>
        BY <2>1, <4>1, KnownStill, SameBefore
      <4>2. CASE Forget
        BY <4>2, KnownForgotten DEF Forget
      <4>3. QED
        BY <3>2, <4>1, <4>2
    <3>4. QED
      BY <3>1, <3>3, SettledTruth
  <2>8. CASE FaultScreen
    <3>1. pc = "fault" /\ pc' = "stale" /\ screen' = "fault"
      BY <1>3, <2>8 DEF FaultScreen, Showing, ShowAnswered, ShowUnanswered
    <3>2. screen' # NoScreen
      BY <3>1, PlaybackAssumption DEF Screens
    <3>3. stale' = Nothing
      BY <3>2 DEF Typed, Memory
    <3>4. UNCHANGED <<mpv, known>> \/ Forget
      BY <1>3, <2>8 DEF FaultScreen, client, ShowAnswered, ShowUnanswered
    <3>5. KnownTrue'
      <4>1. CASE UNCHANGED <<mpv, known>>
        BY <2>1, <4>1, KnownStill, SameBefore
      <4>2. CASE Forget
        BY <4>2, KnownForgotten DEF Forget
      <4>3. QED
        BY <3>4, <4>1, <4>2
    <3>6. QED
      BY <3>1, <3>2, <3>3, <3>5 DEF Truthful, OldTrue, LoadedBefore, Vanished, OptionsInPlace, Keeping
  <2>9. QED
    BY <2>3, <2>4, <2>5, <2>6, <2>7, <2>8 DEF Cycle
<1>4. QED
  BY <1>2, <1>3

LEMMA OptionsPush ==
  ASSUME Typed, Typed', ListRight, OptionsTrue, Push, losses' = 0, Loops'
  PROVE  Truthful'
<1>1. UNCHANGED <<menu, manifest, knownPid>>
  BY DEF Push, ReadPath, Clear, Kept, AppendOthers, MoveCurrent, CurrentFirst, SettleSame,
         SettleStale, SettleOne, LoadFirst, LoadNext, Loaded, Pushing
<1>2. Truthful /\ losses = 0 /\ Loops
  <2>1. losses' >= losses
    BY PushThrough DEF Through
  <2>2. QED
    BY <1>1, <2>1, LoopsStill
<1>3. CASE \E new : Unanswered(new)
  BY <1>3, SilentTruth
<1>4. CASE \A new : ~Unanswered(new)
  <2>1. KnownTrue /\ OldTrue /\ LoadedBefore
    BY <1>2 DEF Truthful
  <2>2. /\ Sane(mpv) /\ Sane(mpv') /\ Phases /\ menu \in Menus /\ manifest \in menu /\ k \in Nat
        /\ Len(mpv.list) \in Nat /\ DOMAIN mpv.list = 1..Len(mpv.list)
        /\ DOMAIN mpv'.list = 1..Len(mpv'.list)
        /\ known \in [Paths -> Options \cup {Unknown}] /\ old \in Options \cup {Unknown}
    BY LenProperties DEF Typed, TypeOK, Instances, Sane
  <2>3. /\ Len(manifest) \in Nat /\ Len(manifest) >= 1 /\ Len(manifest) # 1 /\ manifest \in Playlists
        /\ DOMAIN manifest = 1..Len(manifest)
        /\ \A i \in 1..Len(manifest) : manifest[i] \in Entry /\ manifest[i].path \in Paths /\ manifest[i].opts \in Options
    <3>1. pc \in Keeping \cup Loading \cup {"push"}
      BY DEF Push, ReadPath, Clear, Kept, AppendOthers, MoveCurrent, CurrentFirst, SettleSame,
             SettleStale, SettleOne, LoadFirst, LoadNext, Loaded, Pushing, Keeping, Loading
    <3>2. manifest # <<>>
      BY <2>2, <3>1 DEF Phases
    <3>3. QED
      BY <1>2, <2>2, <3>2, ListType DEF Loops
  <2> DEFINE t == Target(cur)
             n == Len(manifest)
  <2>4. \A i, j \in 1..n : i # j => manifest[i].path # manifest[j].path
    BY <2>3, OnceAssumption
  <2>5. pc \in Keeping => /\ t \in 1..n /\ manifest[t].path = cur /\ cur \in Paths
                          /\ \A i \in 1..n : i # t => manifest[i].path # cur
                          /\ manifest[t].opts = NewOptions /\ NewOptions \in Options \cup {Unknown}
    BY <2>2, TargetIs, TargetItem DEF Phases, NewOptions
  <2>6. cur' = cur => Target(cur)' = t
    BY <1>1 DEF Target
  <2>7. Mine' => Mine
    <3>1. SameInstance(mpv, mpv')
      BY PushThrough DEF Through
    <3>2. QED
      BY <1>1, <3>1 DEF SameInstance, Mine
  <2>8. Mine => (pc = "append" => Appended) /\ (pc = "settle" => Placed) /\ (pc = "fill" => Filled)
    BY <1>2 DEF ListRight, Progressed
  <2>9. mpv' = mpv => \A i \in DOMAIN mpv'.list : FromBefore(i)
    BY SameBefore
  <2>10. CASE ReadPath
    <3>1. UNCHANGED <<mpv, known>> /\ (pc' = "full" \/ (pc' = "clear" /\ old' = known[cur']))
      BY <1>4, <2>10 DEF ReadPath, Read, Unread
    <3>2. KnownTrue'
      BY <2>1, <2>9, <3>1, KnownStill
    <3>3. OldTrue'
      <4>1. CASE pc' = "full"
        BY <4>1 DEF OldTrue, Keeping
      <4>2. CASE pc' = "clear" /\ old' = known[cur']
        <5>1. cur' \in Paths
          BY <4>2 DEF Typed, Phases, Keeping
        <5>2. QED
          BY <2>1, <3>1, <4>2, <5>1 DEF OldTrue, KnownTrue
      <4>3. QED
        BY <3>1, <4>1, <4>2
    <3>4. QED
      BY <3>1, <3>2, <3>3, OpenTruth
  <2>11. CASE Clear
    <3>1. /\ pc = "clear" /\ pc' = "kept" /\ mpv' = M!PlaylistClear(mpv) /\ UNCHANGED <<known, cur, old>>
      BY <1>4, <2>11 DEF Clear, Pushing, Answered, client, locals
    <3>2. \A i \in DOMAIN mpv'.list : FromBefore(i)
      BY <2>2, <3>1, ClearedBefore
    <3>3. KnownTrue' /\ OldTrue'
      BY <2>1, <3>1, <3>2, KnownStill, OldStill DEF Keeping
    <3>4. QED
      BY <3>1, <3>3, OpenTruth
  <2>12. CASE Kept
    <3>1. /\ pc = "kept" /\ UNCHANGED <<mpv, known, cur, old>>
          /\ pc' = "full" \/ (pc' = "append" /\ KeptCurrent /\ k' = 1)
      BY <1>4, <2>12 DEF Kept, Pushing, Read, Unread, client
    <3>2. KnownTrue' /\ OldTrue'
      BY <2>1, <2>9, <3>1, KnownStill, OldStill DEF Keeping
    <3>3. CASE pc' = "full"
      BY <3>2, <3>3, OpenTruth
    <3>4. CASE pc' = "append" /\ KeptCurrent
      <4>1. M!PathOf(mpv) = cur /\ cur # NoPath
        BY <2>5, <3>1, <3>4, PlaybackAssumption DEF KeptCurrent, Keeping
      <4>2. mpv.pos # 0 /\ mpv.list[mpv.pos].path = cur
        BY <4>1 DEF M!PathOf, M!Playing
      <4> DEFINE q == mpv.pos
                 w == Len(mpv.list)
      <4>3. q \in Nat /\ q # 0 /\ q <= w /\ w \in Nat
        BY <2>2, <4>2 DEF Sane
      <4>4. w <= 1
        BY <2>2, <3>1 DEF Phases
      <4>5. q = 1 /\ \A i \in 1..w : i = 1
        <5> HIDE DEF q, w
        <5>1. QED
          BY <4>3, <4>4
      <4>6. \A i \in DOMAIN mpv'.list : mpv'.list[i].path = cur'
        BY <2>2, <3>1, <4>2, <4>5
      <4>7. QED
        BY <3>2, <3>4, <4>6 DEF Truthful, LoadedBefore, Vanished, OptionsInPlace, Settled
    <3>5. QED
      BY <3>1, <3>3, <3>4
  <2>13. CASE AppendOthers
    <3>1. /\ pc = "append" /\ pc' = "append" /\ UNCHANGED <<cur, old>> /\ k' = k + 1 /\ k \in 1..n
      BY <1>4, <2>2, <2>3, <2>13 DEF AppendOthers, Pushing, Phases
    <3>2. \A i \in DOMAIN mpv.list :
            \/ mpv.list[i].path = cur
            \/ \E j \in 1..(k - 1) : j # t /\ mpv.list[i].path = manifest[j].path
      BY <2>1, <3>1 DEF LoadedBefore
    <3>3. t \in 1..n /\ \A i \in 1..n : i # t => manifest[i].path # cur
      BY <2>5, <3>1 DEF Keeping
    <3>4. /\ KnownTrue' /\ OldTrue'
          /\ \A i \in DOMAIN mpv'.list :
               \/ mpv'.list[i].path = cur
               \/ \E j \in 1..k : j # t /\ mpv'.list[i].path = manifest[j].path
      <4>1. CASE k = t
        <5>1. UNCHANGED <<mpv, known>>
          BY <2>13, <4>1 DEF AppendOthers
        <5>2. KnownTrue' /\ OldTrue'
          BY <2>1, <2>9, <3>1, <5>1, KnownStill, OldStill DEF Keeping
        <5>3. 1..(k - 1) \subseteq 1..k
          BY <2>2
        <5>4. \A i \in DOMAIN mpv'.list :
               \/ mpv'.list[i].path = cur
               \/ \E j \in 1..k : j # t /\ mpv'.list[i].path = manifest[j].path
          BY <3>2, <5>1, <5>3
        <5>5. QED
          BY <5>2, <5>4
      <4>2. CASE k # t
        <5> DEFINE e == manifest[k]
        <5>1. mpv' = M!LoadAppend(mpv, e) /\ known' = [known EXCEPT ![e.path] = e.opts]
          BY <1>4, <2>13, <4>2 DEF AppendOthers, Answered
        <5>2. e \in Entry /\ e.path \in Paths /\ e.opts \in Options /\ e.path # cur
          BY <2>3, <3>1, <3>3, <4>2
        <5>3. \A i \in DOMAIN mpv.list : mpv.list[i].path # e.path
          <6> SUFFICES ASSUME NEW i \in DOMAIN mpv.list PROVE mpv.list[i].path # e.path
            OBVIOUS
          <6>1. CASE mpv.list[i].path = cur
            BY <5>2, <6>1
          <6>2. CASE \E j \in 1..(k - 1) : j # t /\ mpv.list[i].path = manifest[j].path
            <7>1. PICK j \in 1..(k - 1) : mpv.list[i].path = manifest[j].path
              BY <6>2
            <7>2. j \in 1..n /\ j # k
              BY <2>3, <3>1
            <7>3. QED
              BY <2>4, <3>1, <7>1, <7>2
          <6>3. QED
            BY <3>2, <6>1, <6>2
        <5>4. \A i \in DOMAIN mpv'.list : mpv'.list[i] = e \/ FromBefore(i)
          BY <2>2, <5>1, <5>2, AppendedBefore
        <5> HIDE DEF e
        <5>5. \A i \in DOMAIN mpv'.list : IF mpv'.list[i].path = e.path THEN mpv'.list[i].opts = e.opts ELSE FromBefore(i)
          <6> SUFFICES ASSUME NEW i \in DOMAIN mpv'.list
                       PROVE  IF mpv'.list[i].path = e.path THEN mpv'.list[i].opts = e.opts ELSE FromBefore(i)
            OBVIOUS
          <6>1. FromBefore(i) => mpv'.list[i].path # e.path
            BY <5>3 DEF FromBefore
          <6>2. QED
            BY <5>4, <6>1
        <5>6. KnownTrue'
          <6> DEFINE p == e.path
                     o == e.opts
          <6>1. p \in Paths /\ o \in Options \cup {Unknown} /\ known' = [known EXCEPT ![p] = o]
            BY <5>1, <5>2
          <6>2. \A i \in DOMAIN mpv'.list : IF mpv'.list[i].path = p THEN o # Unknown => mpv'.list[i].opts = o ELSE FromBefore(i)
            BY <5>5
          <6> HIDE DEF p, o
          <6>3. QED
            BY <2>1, <2>2, <6>1, <6>2, KnownNoted
        <5>7. OldTrue'
          BY <2>1, <3>1, <5>2, <5>4 DEF OldTrue, FromBefore, Keeping
        <5>8. \A i \in DOMAIN mpv'.list :
               \/ mpv'.list[i].path = cur
               \/ \E j \in 1..k : j # t /\ mpv'.list[i].path = manifest[j].path
          <6> SUFFICES ASSUME NEW i \in DOMAIN mpv'.list
                       PROVE  \/ mpv'.list[i].path = cur
                              \/ \E j \in 1..k : j # t /\ mpv'.list[i].path = manifest[j].path
            OBVIOUS
          <6>1. CASE mpv'.list[i] = e
            <7>1. k \in 1..k /\ mpv'.list[i].path = manifest[k].path
              BY <3>1, <6>1 DEF e
            <7>2. QED
              BY <4>2, <7>1
          <6>2. CASE FromBefore(i)
            <7>1. 1..(k - 1) \subseteq 1..k
              BY <2>2
            <7>2. QED
              BY <3>2, <6>2, <7>1 DEF FromBefore
          <6>3. QED
            BY <5>4, <6>1, <6>2
        <5>9. QED
          BY <5>6, <5>7, <5>8
      <4>3. QED
        BY <4>1, <4>2
    <3>5. (k + 1) - 1 = k
      BY <2>2
    <3>6. LoadedBefore'
      BY <1>1, <2>6, <3>1, <3>4, <3>5 DEF LoadedBefore
    <3>7. QED
      BY <3>1, <3>4, <3>6 DEF Truthful, Vanished, OptionsInPlace, Settled
  <2>14. CASE MoveCurrent
    <3>1. pc = "append" /\ known' = known /\ t \in 1..n /\ k = n + 1
      BY <2>2, <2>3, <2>5, <2>14 DEF MoveCurrent, Pushing, client, Keeping, Phases
    <3>2. CASE M!HasEntry(mpv, 1) /\ mpv' = M!PlaylistMove(mpv, 1, MoveTo) /\ pc' = "settle" /\ UNCHANGED locals
      <4>1. 1 \in 1..Len(mpv.list) /\ MoveTo \in Nat \ {0}
        BY <2>2, <2>3, <3>1, <3>2 DEF M!HasEntry, MoveTo
      <4>2. \A i \in DOMAIN mpv'.list : FromBefore(i)
        BY <2>2, <3>2, <4>1, MovedBefore
      <4>3. KnownTrue' /\ OldTrue'
        BY <2>1, <3>1, <3>2, <4>2, KnownStill, OldStill DEF Keeping, locals
      <4>4. QED
        BY <3>2, <4>3, OpenTruth
    <3>3. CASE Refused(1) /\ PushFails
      <4>1. mpv' = mpv /\ pc' = "sleep" /\ ~M!HasEntry(mpv, 1)
        BY <3>3 DEF Refused, PushFails, Sleep
      <4>2. KnownTrue'
        BY <2>1, <2>9, <3>1, <4>1, KnownStill
      <4>3. ~Mine
        <5> SUFFICES ASSUME Mine PROVE FALSE
          OBVIOUS
        <5>1. Len(mpv.list) = IF t < k THEN k - 1 ELSE k
          BY <2>8, <3>1 DEF Appended
        <5>2. 1 \in 1..Len(mpv.list)
          BY <2>2, <2>3, <3>1, <5>1
        <5>3. QED
          BY <2>2, <4>1, <5>2 DEF M!HasEntry
      <4>4. QED
        BY <2>7, <4>1, <4>2, <4>3, SettledTruth
    <3>4. QED
      BY <1>4, <2>14, <3>2, <3>3 DEF MoveCurrent, Answered
  <2>15. CASE CurrentFirst
    <3>1. pc = "append" /\ UNCHANGED <<mpv, known, cur, old>> /\ pc' = "settle"
      BY <2>15 DEF CurrentFirst, Pushing, client, locals
    <3>2. KnownTrue' /\ OldTrue'
      BY <2>1, <2>9, <3>1, KnownStill, OldStill DEF Keeping
    <3>3. QED
      BY <3>1, <3>2, OpenTruth
  <2>16. pc = "settle" /\ Mine => /\ DOMAIN mpv.list = 1..n /\ mpv.list[t].path = cur
                                  /\ \A i \in 1..n : i # t => mpv.list[i].opts = manifest[i].opts
    BY <2>2, <2>8 DEF Placed
  <2>17. CASE SettleSame
    <3>1. /\ pc = "settle" /\ UNCHANGED <<mpv, stale>> /\ applied' = manifest /\ pc' = "sleep"
          /\ known' = [known EXCEPT ![cur] = NewOptions] /\ old # Unknown /\ old = NewOptions
      BY <2>17 DEF SettleSame, Pushing, Pushed, Sleep, OptionsKept
    <3>2. \A i \in DOMAIN mpv'.list : IF mpv'.list[i].path = cur THEN mpv'.list[i].opts = NewOptions ELSE FromBefore(i)
      BY <2>1, <2>9, <3>1 DEF OldTrue, Keeping
    <3>3. KnownTrue'
      BY <2>1, <2>2, <2>5, <3>1, <3>2, KnownNoted DEF Keeping
    <3>4. Mine' => InPlace'
      <4> SUFFICES ASSUME Mine', NEW i \in DOMAIN mpv.list PROVE mpv.list[i].opts = manifest[i].opts
        BY <3>1 DEF InPlace
      <4>1. CASE i = t
        BY <2>1, <2>5, <2>7, <2>16, <3>1, <4>1 DEF OldTrue, Keeping
      <4>2. CASE i # t
        BY <2>7, <2>16, <3>1, <4>2
      <4>3. QED
        BY <4>1, <4>2
    <3>5. QED
      BY <3>1, <3>3, <3>4, SettledTruth
  <2>18. CASE SettleStale
    <3>1. /\ pc = "settle" /\ mpv' = mpv /\ applied' = manifest /\ pc' = "sleep"
          /\ known' = [known EXCEPT ![cur] = old] /\ stale' = StaleAt(t)
      BY <2>18 DEF SettleStale, Pushing, Pushed, Sleep
    <3>2. \A i \in DOMAIN mpv'.list :
            IF mpv'.list[i].path = cur THEN old # Unknown => mpv'.list[i].opts = old ELSE FromBefore(i)
      BY <2>1, <2>9, <3>1 DEF OldTrue, Keeping
    <3>3. KnownTrue'
      BY <2>1, <2>2, <2>5, <3>1, <3>2, KnownNoted DEF Keeping
    <3>4. stale'.index = t /\ stale' # Nothing
      <4>1. StaleAt(t) \in StaleEntry
        BY <3>1, TargetItem DEF Keeping
      <4>2. QED
        BY <3>1, <4>1, PlaybackAssumption DEF StaleAt
    <3>5. Mine' => InPlace'
      BY <2>7, <2>16, <3>1, <3>4 DEF InPlace
    <3>6. QED
      BY <3>1, <3>3, <3>5, SettledTruth
  <2>19. CASE SettleOne
    BY <2>3, <2>19 DEF SettleOne
  <2>20. CASE LoadFirst
    <3> DEFINE e == manifest[1]
    <3>1. mpv' = M!LoadReplace(mpv, e) /\ pc' = "fill" /\ k' = 2 /\ known' = [NothingKnown EXCEPT ![e.path] = e.opts]
      BY <1>4, <2>20 DEF LoadFirst, Answered
    <3>2. e \in Entry /\ e.path \in Paths
      BY <2>3
    <3>3. Len(mpv'.list) = 1 /\ mpv'.list[1] = e
      BY <2>2, <3>1, <3>2, FirstLoaded
    <3>4. \A i \in DOMAIN mpv'.list : mpv'.list[i] = e
      BY <2>2, <3>3
    <3>5. KnownTrue'
      <4> HIDE DEF e
      <4>1. \A p \in Paths : known'[p] = IF p = e.path THEN e.opts ELSE Unknown
        BY <3>1, <3>2 DEF NothingKnown
      <4>2. QED
        BY <3>4, <4>1 DEF KnownTrue
    <3>6. LoadedBefore'
      <4>1. 1 \in 1..(2 - 1)
        OBVIOUS
      <4>2. QED
        BY <1>1, <3>1, <3>4, <4>1 DEF LoadedBefore
    <3>7. QED
      BY <3>1, <3>5, <3>6 DEF Truthful, OldTrue, Vanished, OptionsInPlace, Keeping, Settled
  <2>21. CASE LoadNext
    <3> DEFINE e == manifest[k]
    <3>1. /\ pc = "fill" /\ pc' = "fill" /\ mpv' = M!LoadAppend(mpv, e) /\ k' = k + 1 /\ k \in 2..n
          /\ known' = [known EXCEPT ![e.path] = e.opts]
      BY <1>4, <2>2, <2>3, <2>21 DEF LoadNext, Pushing, Phases, Answered
    <3>2. e \in Entry /\ e.path \in Paths /\ e.opts \in Options
      BY <2>3, <3>1
    <3>3. \A i \in DOMAIN mpv.list : \E j \in 1..(k - 1) : mpv.list[i].path = manifest[j].path
      BY <2>1, <3>1 DEF LoadedBefore
    <3>4. \A i \in DOMAIN mpv.list : mpv.list[i].path # e.path
      <4> SUFFICES ASSUME NEW i \in DOMAIN mpv.list PROVE mpv.list[i].path # e.path
        OBVIOUS
      <4>1. PICK j \in 1..(k - 1) : mpv.list[i].path = manifest[j].path
        BY <3>3
      <4>2. j \in 1..n /\ k \in 1..n /\ j # k
        BY <2>3, <3>1
      <4>3. QED
        BY <2>4, <4>1, <4>2
    <3>5. \A i \in DOMAIN mpv'.list : mpv'.list[i] = e \/ FromBefore(i)
      BY <2>2, <3>1, <3>2, AppendedBefore
    <3> HIDE DEF e
    <3>6. \A i \in DOMAIN mpv'.list : IF mpv'.list[i].path = e.path THEN mpv'.list[i].opts = e.opts ELSE FromBefore(i)
      <4> SUFFICES ASSUME NEW i \in DOMAIN mpv'.list
                   PROVE  IF mpv'.list[i].path = e.path THEN mpv'.list[i].opts = e.opts ELSE FromBefore(i)
        OBVIOUS
      <4>1. FromBefore(i) => mpv'.list[i].path # e.path
        BY <3>4 DEF FromBefore
      <4>2. QED
        BY <3>5, <4>1
    <3>7. KnownTrue'
      <4> DEFINE p == e.path
                 o == e.opts
      <4>1. p \in Paths /\ o \in Options \cup {Unknown} /\ known' = [known EXCEPT ![p] = o]
        BY <3>1, <3>2
      <4>2. \A i \in DOMAIN mpv'.list : IF mpv'.list[i].path = p THEN o # Unknown => mpv'.list[i].opts = o ELSE FromBefore(i)
        BY <3>6
      <4> HIDE DEF p, o
      <4>3. QED
        BY <2>1, <2>2, <4>1, <4>2, KnownNoted
    <3>8. \A i \in DOMAIN mpv'.list : \E j \in 1..k : mpv'.list[i].path = manifest[j].path
      <4>1. 1..(k - 1) \subseteq 1..k /\ k \in 1..k
        BY <2>2, <3>1
      <4>2. QED
        BY <3>3, <3>5, <4>1 DEF FromBefore, e
    <3>9. LoadedBefore'
      <4>1. (k + 1) - 1 = k
        BY <2>2
      <4>2. QED
        BY <1>1, <3>1, <3>8, <4>1 DEF LoadedBefore
    <3>10. QED
      BY <3>1, <3>7, <3>9 DEF Truthful, OldTrue, Vanished, OptionsInPlace, Keeping, Settled
  <2>22. CASE Loaded
    <3>1. /\ pc = "fill" /\ UNCHANGED <<mpv, known>> /\ applied' = manifest /\ pc' = "sleep" /\ k = n + 1
      BY <2>2, <2>3, <2>22 DEF Loaded, Pushing, Pushed, Sleep, client, Phases
    <3>2. KnownTrue'
      BY <2>1, <2>9, <3>1, KnownStill
    <3>3. Mine' => InPlace'
      <4>1. Mine => Len(mpv.list) = n /\ \A i \in 1..n : mpv.list[i] = manifest[i]
        BY <2>3, <2>8, <3>1 DEF Filled
      <4>2. QED
        BY <2>2, <2>7, <3>1, <4>1 DEF InPlace
    <3>4. QED
      BY <3>1, <3>2, <3>3, SettledTruth
  <2>23. QED
    BY <2>10, <2>11, <2>12, <2>13, <2>14, <2>15, <2>17, <2>18, <2>19, <2>20, <2>21, <2>22 DEF Push
<1>5. QED
  BY <1>3, <1>4

LEMMA OptionsSwap ==
  ASSUME Typed, Typed', ListRight, OptionsTrue, Swap, losses' = 0, Loops'
  PROVE  Truthful'
<1>1. UNCHANGED <<menu, manifest, knownPid, screen>>
  BY DEF Swap, ReadPos, RemoveStale, ReAdd, MoveBack, Pushing
<1>2. Truthful /\ losses = 0 /\ Loops
  <2>1. losses' >= losses
    BY SwapThrough DEF Through
  <2>2. QED
    BY <1>1, <2>1, LoopsStill
<1>3. CASE \E new : Unanswered(new)
  BY <1>3, SilentTruth
<1>4. CASE \A new : ~Unanswered(new)
  <2> DEFINE n == Len(applied)
             g == swap.index
             l == mpv.list
             h == mpv'.list
  <2>1. KnownTrue /\ LoadedBefore /\ Vanished /\ OptionsInPlace
    BY <1>2 DEF Truthful
  <2>2. /\ Sane(mpv) /\ Sane(mpv') /\ Phases /\ Memory /\ menu \in Menus
        /\ Len(l) \in Nat /\ DOMAIN l = 1..Len(l) /\ DOMAIN h = 1..Len(h)
        /\ known \in [Paths -> Options \cup {Unknown}]
    BY LenProperties DEF Typed, TypeOK, Instances, Sane
  <2>3. Mine' <=> Mine
    <3>1. SameInstance(mpv, mpv')
      BY SwapThrough DEF Through
    <3>2. QED
      BY <1>1, <3>1 DEF SameInstance, Mine
  <2>4. Mine => Progressed
    BY <1>2 DEF ListRight
  <2>5. mpv' = mpv => \A i \in DOMAIN h : FromBefore(i)
    BY SameBefore
  <2>6. pc \in Swapping => /\ applied # Nothing /\ screen = NoScreen /\ stale = Nothing /\ swap # Nothing
                           /\ applied \in Playlists /\ applied \in Seq(Item)
                           /\ n \in Nat /\ n >= 2 /\ DOMAIN applied = 1..n
                           /\ g \in 1..n /\ applied[g].path = swap.path /\ applied[g].opts = swap.opts /\ swap.readd
    <3> SUFFICES ASSUME pc \in Swapping
                 PROVE  /\ applied # Nothing /\ screen = NoScreen /\ stale = Nothing /\ swap # Nothing
                        /\ applied \in Playlists /\ applied \in Seq(Item)
                        /\ n \in Nat /\ n >= 2 /\ DOMAIN applied = 1..n
                        /\ g \in 1..n /\ applied[g].path = swap.path /\ applied[g].opts = swap.opts /\ swap.readd
      OBVIOUS
    <3>1. applied # Nothing /\ screen = NoScreen /\ stale = Nothing /\ swap # Nothing /\ Fits(swap, applied)
      BY <2>2 DEF Phases
    <3>2. applied \in menu /\ applied \in Seq(Item) /\ n \in Nat /\ n >= 1
      BY <3>1, AppliedType
    <3>3. n # 1
      BY <1>2, <3>2 DEF Loops
    <3>4. n >= 2 /\ n > 1
      <4> HIDE DEF n
      <4>1. QED
        BY <3>2, <3>3
    <3>5. applied \in Playlists /\ DOMAIN applied = 1..n
      BY <2>2, <3>2, ListType
    <3>6. QED
      BY <3>1, <3>2, <3>4, <3>5 DEF Fits
  <2>7. pc = "stale" /\ stale # Nothing => applied # Nothing /\ screen = NoScreen
    BY <2>2 DEF Phases, Memory
  <2>8. \A i : Gap(i) = IF i < g THEN i ELSE i + 1
    BY DEF Gap
  <2>9. ASSUME mpv' = mpv, known' = known, pc' = "sleep", applied' = Nothing PROVE Truthful'
    <3>1. KnownTrue'
      BY <2>1, <2>5, <2>9, KnownStill
    <3>2. QED
      BY <2>9, <3>1, SettledTruth
  <2>10. CASE ReadPos
    <3>1. pc = "stale" /\ UNCHANGED <<mpv, applied, known>>
      BY <1>4, <2>10 DEF ReadPos, Pushing, Read, Unread
    <3>2. KnownTrue'
      BY <2>1, <2>5, <3>1, KnownStill
    <3>3. CASE pc' = "sleep" /\ UNCHANGED stale
      <4>1. Mine /\ applied # Nothing /\ screen = NoScreen => InPlace
        BY <2>1, <3>1 DEF OptionsInPlace, Settled
      <4>2. QED
        BY <1>1, <2>3, <3>1, <3>2, <3>3, <4>1, InPlaceStill, SettledTruth
    <3>4. CASE stale # Nothing /\ swap' = stale /\ stale' = Nothing /\ pc' = "remove"
      <4>1. Vanished'
        BY <2>1, <2>3, <3>1, <3>4 DEF Vanished
      <4>2. Mine => InPlace
        BY <2>1, <2>7, <3>1, <3>4 DEF OptionsInPlace, Settled
      <4>3. Mine' => \A i \in DOMAIN h : i # swap'.index => h[i].opts = applied'[i].opts
        BY <2>3, <3>1, <3>4, <4>2 DEF InPlace
      <4>4. QED
        BY <3>2, <3>4, <4>1, <4>3 DEF Truthful, OldTrue, LoadedBefore, OptionsInPlace, Keeping, Settled
    <3>5. QED
      BY <2>10, <3>3, <3>4 DEF ReadPos, Sleep
  <2>11. CASE RemoveStale
    <3>1. pc = "remove" /\ pc \in Swapping
      BY <2>11 DEF RemoveStale, Pushing, Swapping
    <3>2. CASE Refused(g) /\ Drifted
      BY <2>9, <2>11, <3>2 DEF RemoveStale, Refused, Drifted, PushAgain, Sleep, M!HasEntry
    <3>3. CASE /\ M!HasEntry(mpv, g) /\ mpv' = M!PlaylistRemove(mpv, g)
               /\ pc' = "readd" /\ UNCHANGED <<applied, swap, known>>
      <4>1. g \in 1..Len(l)
        BY <2>2, <3>3 DEF M!HasEntry
      <4>2. \A i \in DOMAIN h : FromBefore(i)
        BY <2>2, <3>3, <4>1, RemovedBefore
      <4>3. KnownTrue'
        BY <2>1, <3>3, <4>2, KnownStill
      <4>4. Mine
        <5>1. l # <<>>
          BY <2>2, <4>1
        <5>2. QED
          BY <2>1, <3>1, <5>1 DEF Vanished
      <4>5. Same(l, applied)
        <5>1. PathsOf(l) = PathsOf(applied) /\ l \in Seq(Entry)
          BY <2>2, <2>4, <2>6, <3>1, <4>4 DEF Progressed, Sane
        <5>2. QED
          BY <2>6, <3>1, <5>1, PathsSame
      <4>6. /\ Len(h) = Len(l) - 1
            /\ \A j \in 1..(Len(l) - 1) : h[j] = IF j < g THEN l[j] ELSE l[j + 1]
        BY <2>2, <3>3, <4>1, Removed
      <4>7. \A i \in DOMAIN l : i # g => l[i].opts = applied[i].opts
        BY <2>1, <3>1, <4>4 DEF OptionsInPlace
      <4>8. ASSUME NEW i \in 1..(n - 1)
            PROVE  /\ h[i].opts = applied[Gap(i)].opts
                   /\ h[i].path # swap.path
        <5>1. /\ n \in Nat /\ g \in 1..n /\ applied[g].path = swap.path
              /\ \A a, b \in 1..n : applied[a].path = applied[b].path => a = b
          BY <2>6, <3>1, OnceAssumption
        <5>2. Len(l) = n /\ DOMAIN l = 1..n /\ \A a \in 1..n : l[a].path = applied[a].path
          BY <2>2, <4>5 DEF Same
        <5> HIDE DEF n, g, l, h
        <5>3. Gap(i) \in 1..n /\ Gap(i) # g
          BY <2>8, <5>1
        <5>4. h[i] = l[Gap(i)]
          BY <2>8, <4>6, <5>1, <5>2
        <5>5. QED
          BY <4>7, <5>1, <5>2, <5>3, <5>4
      <4>9. \A i \in DOMAIN h : h[i].path # swap.path
        <5>1. DOMAIN h = 1..(n - 1)
          BY <2>2, <4>5, <4>6 DEF Same
        <5>2. QED
          BY <4>8, <5>1
      <4>10. LoadedBefore'
        BY <3>3, <4>9 DEF LoadedBefore
      <4>11. \A i : Gap(i)' = Gap(i)
        BY <3>3 DEF Gap
      <4>12. OptionsInPlace'
        BY <3>3, <4>8, <4>11 DEF OptionsInPlace, Settled
      <4>13. QED
        BY <2>3, <3>3, <4>3, <4>4, <4>10, <4>12 DEF Truthful, OldTrue, Vanished, Keeping
    <3>4. QED
      BY <1>4, <2>6, <2>11, <3>1, <3>2, <3>3 DEF RemoveStale, Answered
  <2>12. CASE ReAdd
    <3> DEFINE e == [path |-> swap.path, opts |-> swap.opts]
    <3>1. pc = "readd" /\ pc \in Swapping
      BY <2>12 DEF ReAdd, Pushing, Swapping
    <3>2. /\ mpv' = M!LoadAppend(mpv, e) /\ pc' = "back" /\ UNCHANGED <<applied, swap>>
          /\ known' = [known EXCEPT ![swap.path] = swap.opts]
      BY <1>4, <2>12 DEF ReAdd, Answered
    <3>3. e \in Entry /\ swap.path \in Paths /\ swap.opts \in Options \cup {Unknown}
      BY <2>6, <3>1, Loadable DEF Typed, TypeOK, StaleEntry
    <3>4. e.path = swap.path /\ e.opts = swap.opts
      OBVIOUS
    <3> HIDE DEF e
    <3>5. \A i \in DOMAIN h : h[i] = e \/ FromBefore(i)
      BY <2>2, <3>2, <3>3, AppendedBefore
    <3>6. \A i \in DOMAIN l : l[i].path # swap.path
      BY <2>1, <3>1 DEF LoadedBefore
    <3>7. \A i \in DOMAIN h : IF h[i].path = swap.path THEN h[i].opts = swap.opts ELSE FromBefore(i)
      <4> SUFFICES ASSUME NEW i \in DOMAIN h
                   PROVE  IF h[i].path = swap.path THEN h[i].opts = swap.opts ELSE FromBefore(i)
        OBVIOUS
      <4>1. FromBefore(i) => h[i].path # swap.path
        BY <3>6 DEF FromBefore
      <4>2. QED
        BY <3>4, <3>5, <4>1
    <3>8. KnownTrue'
      <4> DEFINE p == swap.path
                 o == swap.opts
      <4>1. p \in Paths /\ o \in Options \cup {Unknown} /\ known' = [known EXCEPT ![p] = o]
        BY <3>2, <3>3
      <4>2. \A i \in DOMAIN mpv'.list : IF mpv'.list[i].path = p THEN o # Unknown => mpv'.list[i].opts = o ELSE FromBefore(i)
        BY <3>7
      <4> HIDE DEF p, o
      <4>3. QED
        BY <2>1, <2>2, <4>1, <4>2, KnownNoted
    <3>9. ASSUME Mine
          PROVE  h[n].opts = swap.opts /\ \A i \in 1..(n - 1) : h[i].opts = applied[Gap(i)].opts
      <4>1. /\ Len(h) = Len(l) + 1 /\ h[Len(l) + 1] = e
            /\ \A i \in 1..Len(l) : h[i] = l[i]
        BY <2>2, <3>2, <3>3, Queued
      <4>2. Len(l) = n - 1 /\ n \in Nat
        BY <2>4, <2>6, <3>1, <3>9 DEF Progressed
      <4>3. \A i \in 1..(n - 1) : l[i].opts = applied[Gap(i)].opts
        BY <2>1, <3>1, <3>9 DEF OptionsInPlace
      <4> HIDE DEF n, l, h
      <4>4. QED
        BY <3>4, <4>1, <4>2, <4>3
    <3>10. \A i : Gap(i)' = Gap(i)
      BY <3>2 DEF Gap
    <3>11. OptionsInPlace'
      BY <2>3, <3>2, <3>9, <3>10 DEF OptionsInPlace, Settled
    <3>12. QED
      BY <3>2, <3>8, <3>11 DEF Truthful, OldTrue, LoadedBefore, Vanished, Keeping
  <2>13. CASE MoveBack
    <3>1. pc = "back" /\ pc \in Swapping /\ UNCHANGED <<known, stale>> /\ pc' = "sleep"
      BY <2>13 DEF MoveBack, Pushing, client, Swapping, Sleep, Drifted
    <3>2. g \in 1..n /\ n \in Nat
      BY <2>6, <3>1
    <3>3. CASE Len(l) <= g
      <4>1. mpv' = mpv
        BY <1>4, <2>2, <2>13, <3>2, <3>3 DEF MoveBack, Read
      <4>2. KnownTrue'
        BY <2>1, <2>5, <3>1, <4>1, KnownStill
      <4>3. applied' = applied
        BY <1>4, <2>2, <2>13, <3>2, <3>3 DEF MoveBack
      <4>4. Mine => InPlace'
        <5> SUFFICES ASSUME Mine, NEW i \in DOMAIN l PROVE l[i].opts = applied[i].opts
          BY <4>1, <4>3 DEF InPlace
        <5>1. Len(l) = n
          BY <2>4, <3>1 DEF Progressed
        <5>2. /\ l[n].opts = swap.opts /\ applied[g].opts = swap.opts
              /\ \A j \in 1..(n - 1) : l[j].opts = applied[Gap(j)].opts
          BY <2>1, <2>6, <3>1 DEF OptionsInPlace
        <5>3. i \in 1..n /\ n = g
          BY <2>2, <3>2, <3>3, <5>1
        <5> HIDE DEF n, g, l
        <5>4. QED
          BY <2>8, <3>2, <5>2, <5>3
      <4>5. QED
        BY <2>3, <3>1, <4>2, <4>4, SettledTruth
    <3>4. CASE Len(l) > g
      <4>1. mpv' = M!PlaylistMove(mpv, Len(l), g) /\ applied' = applied
        BY <1>4, <2>2, <2>13, <3>2, <3>4 DEF MoveBack, Answered
      <4>2. Len(l) \in 1..Len(l) /\ g \in Nat \ {0} /\ g \in 1..(Len(l) - 1)
        BY <2>2, <3>2, <3>4
      <4>3. \A i \in DOMAIN h : FromBefore(i)
        BY <2>2, <4>1, <4>2, MovedBefore
      <4>4. KnownTrue'
        BY <2>1, <3>1, <4>3, KnownStill
      <4>5. Mine => InPlace'
        <5> SUFFICES ASSUME Mine, NEW i \in DOMAIN h PROVE h[i].opts = applied[i].opts
          BY <4>1 DEF InPlace
        <5>1. Len(l) = n
          BY <2>4, <3>1 DEF Progressed
        <5>2. /\ l[n].opts = swap.opts /\ applied[g].opts = swap.opts
              /\ \A j \in 1..(n - 1) : l[j].opts = applied[Gap(j)].opts
          BY <2>1, <2>6, <3>1 DEF OptionsInPlace
        <5>3. /\ Len(h) = Len(l) /\ h[g] = l[Len(l)]
              /\ \A j \in 1..Len(l) : /\ j < g => h[j] = l[j]
                                      /\ j > g => h[j] = l[j - 1]
          BY <2>2, <4>1, <4>2, MovedBack, SMTT(60)
        <5>4. i \in 1..n
          BY <2>2, <5>1, <5>3
        <5> HIDE DEF n, g, l, h
        <5>5. CASE i = g
          BY <5>1, <5>2, <5>3, <5>5
        <5>6. CASE i < g
          BY <2>8, <3>2, <5>1, <5>2, <5>3, <5>4, <5>6
        <5>7. CASE i > g
          <6>1. i - 1 \in 1..(n - 1) /\ ~(i - 1 < g) /\ (i - 1) + 1 = i
            BY <3>2, <5>4, <5>7
          <6>2. QED
            BY <2>8, <5>1, <5>2, <5>3, <5>4, <5>7, <6>1
        <5>8. QED
          BY <3>2, <5>4, <5>5, <5>6, <5>7
      <4>6. QED
        BY <2>3, <3>1, <4>4, <4>5, SettledTruth
    <3>5. QED
      BY <2>2, <3>2, <3>3, <3>4
  <2>14. QED
    BY <2>10, <2>11, <2>12, <2>13 DEF Swap
<1>5. QED
  BY <1>3, <1>4

LEMMA OptionsWorld ==
  ASSUME Typed, OptionsTrue, World \/ UNCHANGED vars, losses' = 0, Loops'
  PROVE  Truthful'
<1>1. UNCHANGED <<menu, losses>> /\ (DaemonRestarts \/ UNCHANGED <<manifest, daemon, client, pc, locals>>)
  BY DEF World, FileEnds, GivesUp, MpvDies, MpvStarts, DaemonRestarts, Environment, vars
<1>2. Truthful
  <2>1. losses' >= losses
    BY <1>1 DEF Typed, Instances
  <2>2. QED
    BY <1>1, <2>1, LoopsStill
<1>3. /\ Sane(mpv) /\ mpv \in [up : BOOLEAN, pid : Nat, list : Seq(Entry), pos : Nat]
      /\ knownPid <= mpv.pid /\ mpv.pid \in Nat /\ mpv.pid >= 1 /\ knownPid \in Nat
  BY DEF Typed, Instances, Sane, TypeOK
<1>4. CASE MpvDies
  <2>1. mpv'.up = FALSE /\ mpv'.list = <<>>
    BY <1>3, <1>4 DEF MpvDies
  <2>2. QED
    BY <2>1, EmptyTruth DEF Mine
<1>5. CASE MpvStarts
  <2>1. mpv'.list = <<>> /\ mpv'.pid = mpv.pid + 1
    BY <1>3, <1>5 DEF MpvStarts, Typed, Instances
  <2>2. knownPid' = knownPid
    BY <1>5 DEF MpvStarts, Environment, daemon
  <2>3. ~Mine'
    BY <1>3, <2>1, <2>2 DEF Mine
  <2>4. QED
    BY <2>1, <2>3, EmptyTruth
<1>6. CASE DaemonRestarts
  <2>1. knownPid' = 0 /\ mpv'.pid = mpv.pid /\ known' = NothingKnown /\ pc' = "sleep"
    BY <1>6 DEF DaemonRestarts
  <2>2. ~Mine'
    BY <1>3, <2>1 DEF Mine
  <2>3. QED
    BY <2>1, <2>2, KnownForgotten, SettledTruth
<1>7. CASE FileEnds \/ GivesUp \/ UNCHANGED vars
  <2>1. mpv'.list = mpv.list /\ mpv'.up = mpv.up /\ mpv'.pid = mpv.pid
    BY <1>3, <1>7, WentOn, GaveUp DEF FileEnds, GivesUp, vars, SameInstance
  <2>2. UNCHANGED <<manifest, applied, knownPid, screen, known, stale, pc, cur, old, k, swap>>
    BY <1>7 DEF FileEnds, GivesUp, vars, Environment, daemon, client, locals
  <2>3. Mine' = Mine /\ Target(cur)' = Target(cur) /\ \A i : Gap(i)' = Gap(i)
    BY <2>1, <2>2 DEF Mine, Target, Gap
  <2>4. KnownTrue /\ OldTrue /\ LoadedBefore /\ Vanished /\ OptionsInPlace
    BY <1>2 DEF Truthful
  <2>5. KnownTrue'
    BY <2>1, <2>2, <2>4 DEF KnownTrue
  <2>6. OldTrue'
    BY <2>1, <2>2, <2>4 DEF OldTrue
  <2>7. LoadedBefore'
    BY <2>1, <2>2, <2>3, <2>4 DEF LoadedBefore
  <2>8. Vanished'
    BY <2>1, <2>2, <2>3, <2>4 DEF Vanished
  <2>9. OptionsInPlace'
    BY <2>1, <2>2, <2>3, <2>4 DEF OptionsInPlace, InPlace
  <2>10. QED
    BY <2>5, <2>6, <2>7, <2>8, <2>9 DEF Truthful
<1>8. QED
  BY <1>4, <1>5, <1>6, <1>7 DEF World

LEMMA OptionsStep == Typed /\ ListRight /\ OptionsTrue /\ [Next]_vars => OptionsTrue'
<1> SUFFICES ASSUME Typed, ListRight, OptionsTrue, [Next]_vars, losses' = 0, Loops' PROVE Truthful'
  BY DEF OptionsTrue
<1>1. Typed'
  BY TypedStep
<1>2. QED
  BY <1>1, OptionsCycle, OptionsPush, OptionsSwap, OptionsWorld DEF Next, Daemon

LEMMA OptionsInit == Init => OptionsTrue
<1> SUFFICES ASSUME Init PROVE Truthful
  BY DEF OptionsTrue
<1>1. mpv.list = <<>> /\ knownPid = 0 /\ mpv.pid = 1
  BY DEF Init
<1>2. DOMAIN mpv.list = {} /\ ~Mine
  BY <1>1 DEF Mine
<1>3. QED
  BY <1>1, <1>2 DEF Truthful, KnownTrue, OldTrue, LoadedBefore, Vanished, OptionsInPlace

\* What the invariant says of mpv at rest.
LEMMA OptionsAtRest == Typed /\ ListRight /\ OptionsTrue => (losses = 0 => LoopOptionsRight)
<1> SUFFICES ASSUME Typed, ListRight, OptionsTrue, losses = 0, Loops, AtRest,
                    NEW i \in DOMAIN mpv.list, NEW j \in DOMAIN applied,
                    mpv.list[i].path = applied[j].path, ~(stale # Nothing /\ stale.index = i)
             PROVE  mpv.list[i].opts = applied[j].opts
  BY DEF LoopOptionsRight, AppliedOptionsRight, Loops
<1>1. Mine /\ pc \in Settled /\ applied # Nothing /\ screen = NoScreen
  BY DEF AtRest, Mine, Settled
<1>2. mpv.list[i].opts = applied[i].opts
  BY <1>1 DEF OptionsTrue, Truthful, OptionsInPlace, InPlace
<1>3. /\ applied \in menu /\ applied \in Seq(Item) /\ Len(applied) \in Nat /\ Len(applied) >= 1
      /\ mpv.list \in Seq(Entry) /\ applied \in Playlists /\ DOMAIN applied = 1..Len(applied)
      /\ DOMAIN mpv.list = 1..Len(mpv.list)
  BY <1>1, AppliedType, ListType, LenProperties DEF Typed, TypeOK
<1>4. ~OneStale
  <2>1. Len(applied) # 1
    BY <1>3 DEF Loops
  <2> DEFINE n == Len(applied)
  <2>2. n > 1
    <3>1. n \in Nat /\ n >= 1 /\ n # 1
      BY <1>3, <2>1
    <3> HIDE DEF n
    <3>2. QED
      BY <3>1
  <2>3. stale # Nothing => stale.readd
    BY <1>1, <2>2 DEF Typed, Memory, Fits
  <2>4. QED
    BY <2>3 DEF OneStale
<1>5. Same(mpv.list, applied)
  <2>1. PathsOf(mpv.list) = PathsOf(applied)
    BY <1>1, <1>4 DEF ListRight, Progressed, Holds
  <2>2. QED
    BY <1>3, <2>1, PathsSame
<1>6. i \in DOMAIN applied /\ mpv.list[i].path = applied[i].path
  BY <1>3, <1>5 DEF Same
<1>7. i = j
  BY <1>3, <1>6, OnceAssumption
<1>8. QED
  BY <1>2, <1>7

\* As long as no reply of mpv's has been lost, every entry of a loop carries at rest the options
\* its list gives the file, but for the one entry remove_stale_entry has still to swap: what
\* _entry_options remembers through pushes and swaps cut short is never wrong.
THEOREM LoopOptionsKept == Spec => [](losses = 0 => LoopOptionsRight)
<1>1. Init => Typed /\ ListRight /\ OptionsTrue
  BY TypedInit, ListInit, OptionsInit
<1>2. (Typed /\ ListRight /\ OptionsTrue) /\ [Next]_vars => (Typed /\ ListRight /\ OptionsTrue)'
  BY TypedStep, ListStep, OptionsStep
<1>3. Typed /\ ListRight /\ OptionsTrue => (losses = 0 => LoopOptionsRight)
  BY OptionsAtRest
<1>4. QED
  BY <1>1, <1>2, <1>3, PTL DEF Spec

\* So it is in every behaviour when replies are not lost at all.
COROLLARY LoopOptionsRightKept == MaxLosses = 0 => (Spec => []LoopOptionsRight)
<1> SUFFICES ASSUME MaxLosses = 0 PROVE Spec => []LoopOptionsRight
  OBVIOUS
<1>1. Init => Typed /\ losses = 0
  BY TypedInit DEF Init
<1>2. (Typed /\ losses = 0) /\ [Next]_vars => (Typed /\ losses = 0)'
  BY TypedStep, NoReplyLost
<1>3. QED
  BY <1>1, <1>2, LoopOptionsKept, PTL DEF Spec
=============================================================================
