----------------------------- MODULE MCPlayback -----------------------------
(* Small instances of Playback: up to three files, two option sets. *)
EXTENDS Playback, TLC

CONSTANTS a, b, c, x, y

E1(p, o) == <<[path |-> p, opts |-> o]>>

mcPaths == {a, b, c}
mcOptions == {x, y}

\* Nothing, a one-item loop, its options changed, a second item in front of it.
mcPlaylists ==
  {<<>>, E1(a, x), E1(a, y), E1(b, x) \o E1(a, x)}

\* Three files in two orders and with one's options changed, and without one of them.
mcLoops ==
  {E1(a, x) \o E1(b, x) \o E1(c, x), E1(b, x) \o E1(c, x) \o E1(a, x),
   E1(a, x) \o E1(b, y) \o E1(c, x), E1(b, x) \o E1(a, x)}

mcMenus == {mcPlaylists, mcLoops}
mcOneItem == {{E1(a, x), E1(a, y)}}
=============================================================================
