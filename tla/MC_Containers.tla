----------------------------- MODULE MC_Containers -----------------------------
(***************************************************************************)
(* The container classes with finite callers: the ring buffer gets arrays  *)
(* of up to MaxChunk elements, and two-element patterns.                   *)
(***************************************************************************)
EXTENDS Containers

CONSTANT MaxChunk

MCChunks   == UNION {[1..n -> Elem] : n \in 0..MaxChunk}
MCPatterns == [1..2 -> Elem]
=============================================================================
