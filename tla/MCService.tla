------------------------------ MODULE MCService -----------------------------
(* Values of the constants of Service for TLC. *)
EXTENDS Service

\* A setting that gives one accessory and one that gives two.
CONSTANTS plain, detached
=============================================================================
