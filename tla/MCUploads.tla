----------------------------- MODULE MCUploads -----------------------------
(* Small instances of Uploads. *)
EXTENDS Uploads, TLC

CONSTANTS r1, r2nd, u1, u2

mcTwoRequests == {r1, r2nd}
mcOneUpload == {u1}
mcTwoUploads == {u1, u2}
mcTwoParts == {1, 2}
=============================================================================
