---------------------------- MODULE MCArcRouting ----------------------------
(* Instances of ArcRouting for TLC: a1 and a2 are the API threads. *)
EXTENDS ArcRouting

CONSTANTS a1, a2
=============================================================================
