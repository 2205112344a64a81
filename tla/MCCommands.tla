----------------------------- MODULE MCCommands -----------------------------
(* Small instances of Commands. *)
EXTENDS Commands, TLC

CONSTANTS reboot, sync     \* one kind recorded before it acts, one after
CONSTANTS h1, h2

mcKinds == {reboot, sync}
mcSelfKilling == {reboot}
mcOverlapping == {h1, h2}
mcSingle == {h1}

mcSymmetry == Permutations(mcOverlapping)
=============================================================================
