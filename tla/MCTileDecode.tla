---------------------------- MODULE MCTileDecode ----------------------------
(* Small instances of TileDecode for TLC. *)
EXTENDS TileDecode

\* Two code-blocks of one component, then one of a second component.
MCCompOf == <<1, 1, 2>>

\* Overlapping areas, so that a block is kept, dropped, or asked for again.
MCWindows == {{1, 2}, {2, 3}}
=============================================================================
