---- MODULE Schedules ----
(***************************************************************************)
(* Which playlist a device plays at a moment, when the next rule starts and *)
(* what its projector should do: cms/app/schedules.py, and                  *)
(* resolve_active_playlist_id and projector_want of cms/app/routes/api.py.  *)
(* A moment is a minute counted from a Monday 00:00 of day 0; a day is      *)
(* DayLength minutes long.  A rule's window belongs to the day it starts.   *)
(***************************************************************************)
EXTENDS Integers, FiniteSets, FiniteSetsExt

CONSTANTS RuleSets,      \* the schedules a device may have: sets of rules
          Fallbacks,     \* [list, groupList] a device may fall back to
          NULL,
          DayLength, WeekLength,   \* 1440 and 7 in the code
          LeadMinutes, IdleMinutes,
          LastDay        \* bound: the clock

VARIABLES rules,         \* [id, list, prio, start, end, days, from, to] each
          fallback, now

vars == <<rules, fallback, now>>

DayOf(t) == t \div DayLength
Minute(t) == t % DayLength
At(day, m) == day * DayLength + m

----------------------------------------------------------------------------
InTimeWindow(m, s, e) ==
  CASE s = NULL /\ e = NULL -> TRUE
    [] s # NULL /\ e = NULL -> m >= s
    [] s = NULL /\ e # NULL -> m < e
    [] s # NULL /\ e # NULL -> IF s <= e THEN s <= m /\ m < e ELSE m >= s \/ m < e

AnchorToday(r, t) == DayOf(t)
\* In the after-midnight tail of a wrapping window the day is yesterday.
Anchor(r, t) ==
  IF r.start # NULL /\ r.end # NULL /\ r.end <= r.start /\ Minute(t) < r.end
  THEN DayOf(t) - 1 ELSE DayOf(t)

DayAllowed(r, day) ==
  /\ r.from # NULL => day >= r.from
  /\ r.to # NULL => day <= r.to
  /\ r.days # {} => day % WeekLength \in r.days

ScheduleMatches(r, t) == DayAllowed(r, Anchor(r, t)) /\ InTimeWindow(Minute(t), r.start, r.end)

Above(r, q) == \/ r.prio > q.prio
               \/ r.prio = q.prio /\ r.id > q.id

PickActive(t) ==
  LET m == {r \in rules : ScheduleMatches(r, t)} IN
  IF m = {} THEN NULL ELSE CHOOSE r \in m : \A q \in m \ {r} : Above(r, q)

\* The first start of each rule in the next eight days that it would play at.
Horizon == 7
StartOf(r) == IF r.start = NULL THEN 0 ELSE r.start
Starts(r) == {t \in {At(DayOf(now) + k, StartOf(r)) : k \in 0..Horizon} :
                t > now /\ ScheduleMatches(r, t) /\ PickActive(t) = r}

NextStart == LET all == UNION {Starts(r) : r \in rules} IN IF all = {} THEN NULL ELSE Min(all)

ResolveActive(t) ==
  CASE PickActive(t) # NULL -> PickActive(t).list
    [] PickActive(t) = NULL /\ fallback.list # NULL -> fallback.list
    [] OTHER -> fallback.groupList

ProjectorWant ==
  IF \/ ResolveActive(now) # NULL
     \/ NextStart # NULL /\ NextStart - now <= LeadMinutes
     \/ \E back \in 1..IdleMinutes : ResolveActive(now - back) # NULL
  THEN "on" ELSE "off"

----------------------------------------------------------------------------
TypeOK == now \in At(1, 0)..At(LastDay + 1, 0)

Init ==
  /\ rules \in RuleSets /\ fallback \in Fallbacks
  /\ now = At(1, 0)

Tick == now < At(LastDay, DayLength - 1) /\ now' = now + 1 /\ UNCHANGED <<rules, fallback>>

Next == Tick

Spec == Init /\ [][Next]_vars

----------------------------------------------------------------------------
\* The reference: a rule is on in the windows of the days it names, each window a
\* stretch of minutes that begins on its day and may run into the next.
Window(r, day) ==
  LET s == IF r.start = NULL THEN 0 ELSE r.start
      e == IF r.end = NULL THEN DayLength ELSE r.end
  IN At(day, s)..At(IF e < s THEN day + 1 ELSE day, e) - 1

On(r, t) == \E day \in DayOf(t) - 1..DayOf(t) : DayAllowed(r, day) /\ t \in Window(r, day)

(* A rule matches exactly in the windows of its days: the tail of a window     *)
(* that wraps midnight belongs to the weekday and the dates it began on.       *)
MatchesItsWindows == \A r \in rules : ScheduleMatches(r, now) <=> On(r, now)

(* The start announced on the standby screen is the first future minute at      *)
(* which a rule's window opens and that rule plays.                            *)
AnnouncedStartIsNext ==
  LET opens(t) == \E r \in rules : \E day \in {DayOf(t)} :
                    DayAllowed(r, day) /\ Window(r, day) # {} /\ t = Min(Window(r, day)) /\ PickActive(t) = r
      soon == {t \in now + 1..At(DayOf(now) + Horizon + 1, 0) - 1 : opens(t)}
  IN NextStart = IF soon = {} THEN NULL ELSE Min(soon)

(* In auto mode the projector is on while something plays, for IdleMinutes      *)
(* after, and LeadMinutes before a playlist that begins with its rule's window. *)
ProjectorFollows ==
  LET plays(t) == ResolveActive(t) # NULL
      opens(t) == \E r \in rules : PickActive(t) = r /\ ~On(r, t - 1)
      near == \E t \in now - IdleMinutes..now : plays(t)
      ahead == \E t \in now + 1..now + LeadMinutes : opens(t) /\ Minute(t) = StartOf(PickActive(t))
  IN /\ near \/ ahead => ProjectorWant = "on"
     /\ ~near /\ (\A t \in now + 1..now + LeadMinutes : ~plays(t)) => ProjectorWant = "off"
====
