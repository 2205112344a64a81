---- MODULE LanThrottle ----
(***************************************************************************)
(* The failed-attempt throttle of cms/app/auth.py for one ip and slot, as   *)
(* login_submit and enroll use it: ask whether the slot is locked, check    *)
(* the password (slow: bcrypt) with no lock held, then record the outcome.  *)
(***************************************************************************)
EXTENDS Integers, Sequences, FiniteSets

CONSTANTS Workers,       \* requests that may be checking at once
          MaxFailures,   \* LOGIN_MAX_FAILURES, ENROLL_MAX_FAILURES
          LockSeconds,   \* LOGIN_LOCK_SECONDS, ENROLL_LOCK_SECONDS
          MaxTime        \* bound: the clock

VARIABLES now,           \* monotonic time
          failed,        \* when each wrong password since the slot was last cleared was
                         \* found wrong: a failure is known by its place here
          stamps,        \* the failures _login_failures[key] still lists
          checking       \* requests past the lock, checking a password

vars == <<now, stamps, checking, failed>>

Recent(s) == {k \in s : now - failed[k] < LockSeconds}

TypeOK ==
  /\ now \in 0..MaxTime /\ checking \subseteq Workers
  /\ failed \in Seq(0..now) /\ stamps \subseteq 1..Len(failed)

Init == now = 0 /\ stamps = {} /\ checking = {} /\ failed = <<>>

Tick == now < MaxTime /\ now' = now + 1 /\ UNCHANGED <<stamps, checking, failed>>

\* login_locked_for: stamps out of the window are dropped on the way.
Locked == Cardinality(Recent(stamps)) >= MaxFailures

Attempt(w) ==
  /\ w \notin checking
  /\ stamps' = Recent(stamps)
  /\ checking' = IF Locked THEN checking ELSE checking \cup {w}
  /\ UNCHANGED <<now, failed>>

Kept(s) == Recent(s)

Wrong(w) ==
  /\ w \in checking
  /\ checking' = checking \ {w}
  /\ stamps' = Kept(stamps) \cup {Len(failed) + 1}
  /\ failed' = Append(failed, now)
  /\ UNCHANGED now

Right(w) ==
  /\ w \in checking
  /\ checking' = checking \ {w} /\ stamps' = {} /\ failed' = <<>>
  /\ UNCHANGED now

Next == Tick \/ \E w \in Workers : Attempt(w) \/ Wrong(w) \/ Right(w)

Spec == Init /\ [][Next]_vars

----------------------------------------------------------------------------
(* In any stretch of LOGIN_LOCK_SECONDS a slot finds MAX_FAILURES wrong        *)
(* passwords, and at most one more for every other request that was already   *)
(* checking when the last of them came in.                                    *)
InWindow(i) == {j \in i..Len(failed) : failed[j] - failed[i] < LockSeconds}
GuessesBounded ==
  \A i \in 1..Len(failed) : Cardinality(InWindow(i)) <= MaxFailures + Cardinality(Workers) - 1
====
