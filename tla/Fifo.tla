-------------------------------- MODULE Fifo --------------------------------
(***************************************************************************)
(* What the firmware's two rings do with an element that finds them full:  *)
(* the report ring refuses it, the event ring overrides its oldest one.    *)
(***************************************************************************)
EXTENDS Integers, Sequences

AppendOrRefuse(q, v, capacity) ==
    IF Len(q) = capacity THEN q ELSE Append(q, v)

AppendOrOverride(q, v, capacity) ==
    Append(IF Len(q) = capacity THEN Tail(q) ELSE q, v)
=============================================================================
