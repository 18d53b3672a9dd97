-------------------------- MODULE MCFileProjection --------------------------
(***************************************************************************)
(* Model checking FileProjection.  The kinds of file share only the worker *)
(* and its counters, so each run has the kinds its properties are about:   *)
(*   StoryProjection      a side story and an event story, two editors and *)
(*                        the backfill                                     *)
(*   LyricsProjection     lyrics, one handler, a caller of AwaitPublished  *)
(*   CategoryProjection   a category and two handlers                      *)
(***************************************************************************)
EXTENDS FileProjection, TLC

CONSTANTS story, event, lyrics, category, h1, h2, backfill, a1

MCHandlers == {h1, h2}
MCSymmetry == Permutations(MCHandlers)
=============================================================================
