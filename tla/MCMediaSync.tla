---------------------------- MODULE MCMediaSync ----------------------------
(* Small instances of MediaSync: two files of three chunks. *)
EXTENDS MediaSync, TLC

CONSTANTS a, b

mcFiles == {a, b}

\* Nothing, one file, both.
mcPlaylists == {<<>>, <<a>>, <<b, a>>}
mcReplaced == {<<a>>, <<b>>}
=============================================================================
