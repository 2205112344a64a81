---- MODULE Projector ----
(***************************************************************************)
(* Projector power on the player (player/player/projector.py): in auto mode *)
(* the console's `want` is applied when it changes, a failed transition is  *)
(* tried again after a cooldown, and after a restart the state of a remote  *)
(* with one power button is taken over, not sent.  Sending has no answer:   *)
(* a send that raised may have reached the projector.                       *)
(***************************************************************************)
EXTENDS Integers

CONSTANTS NULL,
          MaxWants, MaxMisses, MaxPresses, MaxStops   \* bounds: changes of the block, failed
                                                      \* transitions, commands, restarts

VARIABLES toggle,   \* one code for on and off
          power,    \* the projector's own power
          block,    \* the manifest's block: [auto, want]
          state, error, applied_want,
          retry,    \* retry_at: "none", "later" or "due"
          missed,   \* history: the toggle no longer goes with the commands sent
          wants, misses, presses, stops

self == <<state, error, applied_want, retry>>
counted == <<wants, misses, presses, stops>>
vars == <<toggle, power, block, self, missed, counted>>

Powers == {"on", "off"}

TypeOK ==
  /\ power \in Powers /\ block \in [auto : BOOLEAN, want : Powers]
  /\ state \in Powers \cup {"unknown"} /\ error \in BOOLEAN
  /\ applied_want \in Powers \cup {NULL} /\ retry \in {"none", "later", "due"}

Init ==
  /\ toggle \in BOOLEAN /\ power \in Powers /\ block \in [auto : BOOLEAN, want : Powers]
  /\ state = "unknown" /\ error = FALSE /\ applied_want = NULL /\ retry = "none"
  /\ missed = FALSE
  /\ wants = 0 /\ misses = 0 /\ presses = 0 /\ stops = 0

Flipped(p) == CHOOSE q \in Powers : q # p

\* The projector after a code for w came through n times.
After(w, n) == IF ~toggle THEN IF n = 0 THEN power ELSE w
               ELSE IF n % 2 = 0 THEN power ELSE Flipped(power)

\* An earlier transition failed, and is not tried again: the other one is sent.
Withdrawn == retry # "none" /\ block.want # applied_want

\* power(): a send that raised is made once more; n of the two reached the projector.
Sent(w) ==
  /\ \E n \in 1..2 :
       /\ n = 2 => misses < MaxMisses
       /\ misses' = misses + n - 1
       /\ power' = After(w, n) /\ missed' = (missed \/ n = 2 \/ Withdrawn)
  /\ state' = w /\ error' = FALSE

SendFails(w) ==
  /\ misses < MaxMisses /\ misses' = misses + 1
  /\ \E n \in 0..2 : power' = After(w, n) /\ missed' = (missed \/ n > 0 \/ Withdrawn)
  /\ state' = "unknown" /\ error' = TRUE

AdoptsNever == FALSE
Adopts == applied_want = NULL /\ toggle

\* maybe_apply, at the end of every cycle.
Wanted == block.auto /\ (block.want # applied_want \/ retry = "due")

Adopt ==
  /\ Wanted /\ Adopts
  /\ applied_want' = block.want
  /\ missed' = (missed \/ power # block.want)
  /\ UNCHANGED <<toggle, power, block, state, error, retry, counted>>

Apply ==
  /\ Wanted /\ ~Adopts
  /\ applied_want' = block.want
  /\ \/ Sent(block.want) /\ retry' = "none"
     \/ SendFails(block.want) /\ retry' = "later"
  /\ UNCHANGED <<toggle, block, wants, presses, stops>>

\* projector-on, projector-off.  A toggle does not know which of the two it is.
Command(w) ==
  /\ presses < MaxPresses /\ presses' = presses + 1
  /\ \/ Sent(w) \/ SendFails(w)
  /\ UNCHANGED <<toggle, block, applied_want, retry, wants, stops>>

----------------------------------------------------------------------------
SetBlock ==
  /\ wants < MaxWants /\ wants' = wants + 1
  /\ block' \in [auto : BOOLEAN, want : Powers] /\ block' # block
  /\ UNCHANGED <<toggle, power, self, missed, misses, presses, stops>>

CooldownOver ==
  /\ retry = "later" /\ retry' = "due"
  /\ UNCHANGED <<toggle, power, block, state, error, applied_want, missed, counted>>

\* The daemon restarts: none of this is kept.
Stop ==
  /\ stops < MaxStops /\ stops' = stops + 1
  /\ state' = "unknown" /\ error' = FALSE /\ applied_want' = NULL /\ retry' = "none"
  /\ UNCHANGED <<toggle, power, block, missed, wants, misses, presses>>

Next == Adopt \/ Apply \/ (\E w \in Powers : Command(w)) \/ SetBlock \/ CooldownOver \/ Stop

Spec == Init /\ [][Next]_vars

----------------------------------------------------------------------------
(* Once the `want` of auto mode has been applied and no retry is open, the     *)
(* projector is as wanted: with two codes, whatever failed and restarted in   *)
(* between; with a toggle, as long as no send was in doubt and no failed      *)
(* transition was withdrawn before its retry (the other one then turns the    *)
(* projector the wrong way).  Without commands by hand.                      *)
SwitchedAsWanted ==
  applied_want # NULL /\ retry = "none" /\ presses = 0 /\ (toggle => ~missed) =>
    power = applied_want

(* What is reported as the projector's state is its state, with two codes,     *)
(* commands or not.                                                           *)
ReportedAsIs == state # "unknown" /\ ~toggle => power = state
====
