---------------------------- MODULE MCLyricsCollab ----------------------------
(***************************************************************************)
(* Two connections, one edit, a song the bundle does not know.             *)
(***************************************************************************)
EXTENDS LyricsCollab, TLC
Sym == Permutations(Peers)
=============================================================================
