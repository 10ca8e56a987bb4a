---------------------------- MODULE BoundedQueue ----------------------------
(***************************************************************************)
(* What a ring of the firmware promises its callers: a first-in first-out  *)
(* queue of at most Capacity elements, which refuses a new element when    *)
(* full or, with override, gives up its oldest.  call is the last call,    *)
(* with its argument, ok its result, out what the last successful dequeue  *)
(* handed over.                                                            *)
(***************************************************************************)
EXTENDS Fifo

CONSTANTS Value, Zero, Capacity

VARIABLES override, queue, call, out, ok

vars == <<override, queue, call, out, ok>>

Called(op, arg) == call' = [op |-> op, arg |-> arg]

Init ==
    /\ override \in BOOLEAN
    /\ queue = <<>> /\ call = [op |-> "init", arg |-> Zero]
    /\ out = Zero /\ ok = TRUE

Put(v) ==
    /\ Called("enqueue", v)
    /\ queue' = IF override THEN AppendOrOverride(queue, v, Capacity)
                            ELSE AppendOrRefuse(queue, v, Capacity)
    /\ ok' = (override \/ Len(queue) # Capacity)
    /\ UNCHANGED <<override, out>>

Take ==
    /\ Called("dequeue", Zero)
    /\ \/ /\ queue # <<>>
          /\ queue' = Tail(queue) /\ out' = Head(queue) /\ ok' = TRUE
       \/ /\ queue = <<>>
          /\ ok' = FALSE /\ UNCHANGED <<queue, out>>
    /\ UNCHANGED override

Clear == Called("init", Zero) /\ queue' = <<>> /\ UNCHANGED <<override, out, ok>>

Next == Clear \/ Take \/ \E v \in Value : Put(v)

Spec == Init /\ [][Next]_vars
=============================================================================
