--------------------------- MODULE CommandPromise ---------------------------
(***************************************************************************)
(* What the console and the player promise the operator about one command, *)
(* whatever happens to messages and processes in between.  Commands.tla    *)
(* implements it.  Several commands may move in one step.                  *)
(***************************************************************************)
EXTENDS Naturals

CONSTANT Ids

\* life[id].stage is where the command is, .once whether it must not run twice,
\* .ran how often it has run; failed counts the times the player could not remember a
\* command it was about to run.
VARIABLES life, failed

Stages == {"unissued", "waiting", "handed", "closed", "cancelled", "dropped"}
Life == [stage : Stages, once : BOOLEAN, ran : Nat]

Init ==
  /\ life = [id \in Ids |-> [stage |-> "unissued", once |-> FALSE, ran |-> 0]]
  /\ failed = 0

Moves(old, new, from, to) == old.stage = from /\ new.stage = to /\ new.ran = old.ran

Issue(old, new)    == Moves(old, new, "unissued", "waiting")
HandOut(old, new)  == Moves(old, new, "waiting", "handed") /\ new.once = old.once
Close(old, new)    == Moves(old, new, "handed", "closed") /\ new.once = old.once

\* Never picked up: cancelled by an operator or given up by the console.
Withdraw(old, new) == Moves(old, new, "waiting", "cancelled") \/ Moves(old, new, "waiting", "dropped")

Run(old, new) ==
  /\ old.stage \in {"handed", "closed"}
  /\ old.once => old.ran <= failed
  /\ new = [old EXCEPT !.ran = @ + 1]

Step(old, new) ==
  \/ Issue(old, new) \/ HandOut(old, new) \/ Close(old, new)
  \/ Withdraw(old, new) \/ Run(old, new) \/ new = old

Next ==
  /\ life' \in [Ids -> Life]
  /\ \A id \in Ids : Step(life[id], life'[id])
  /\ failed' \in {failed, failed + 1}

Spec == Init /\ [][Next]_<<life, failed>>
=============================================================================
