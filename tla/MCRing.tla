------------------------------- MODULE MCRing -------------------------------
(***************************************************************************)
(* Ring for TLC: the report ring and the event ring.                       *)
(***************************************************************************)
EXTENDS Ring
=============================================================================
