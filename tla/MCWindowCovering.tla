-------------------------- MODULE MCWindowCovering --------------------------
(* Values of the constants of WindowCovering for TLC. *)
EXTENDS WindowCovering

\* The positions a single input and the tile in Home ask for.
Limits == {FullyClosed, FullyOpen}
=============================================================================
