-------------------------------- MODULE Ring --------------------------------
(***************************************************************************)
(* The ring buffers of the wireless stack as the code has them: an array,  *)
(* the index head of the next free slot and the index tail of the oldest   *)
(* element, both counted modulo Size.  report_buffer.c has one that        *)
(* refuses an element when it is full, wireless.c one that overrides its   *)
(* oldest event.  call is the last call with its argument, ok what it      *)
(* returned, out what the last dequeue copied to its caller.               *)
(***************************************************************************)
EXTENDS Integers, Sequences

CONSTANTS
    Value,     \* elements
    Zero,      \* what memset leaves in a slot
    Size       \* REPORT_BUFFER_QUEUE_SIZE or WT_EVENT_QUEUE_SIZE

ASSUME SizeAssumption == Size \in Nat /\ Size > 1

VARIABLES
    override,  \* this is the event ring; it never changes
    slots, head, tail, call, out, ok

vars == <<override, slots, head, tail, call, out, ok>>

Ops == {"init", "enqueue", "dequeue"}
Call(op, arg) == [op |-> op, arg |-> arg]

Index == 0 .. Size - 1

\* Mutant: no wrap.
AfterWithoutWrap(i) == i + 1

After(i) == (i + 1) % Size

Zeroed == [i \in Index |-> Zero]

IsEmpty == head = tail

Init ==
    /\ override \in BOOLEAN
    /\ slots = Zeroed
    /\ head = 0 /\ tail = 0
    /\ call = Call("init", Zero) /\ out = Zero /\ ok = TRUE

\* report_buffer_init and wireless_event_queue_init, while the ring is in use.
Reinit ==
    /\ slots' = Zeroed
    /\ head' = 0 /\ tail' = 0
    /\ call' = Call("init", Zero)
    /\ UNCHANGED <<override, out, ok>>

\* report_buffer_enqueue.
EnqueueRefusing(v) ==
    /\ ~override
    /\ call' = Call("enqueue", v)
    /\ \/ /\ After(head) = tail
          /\ ok' = FALSE
          /\ UNCHANGED <<slots, head>>
       \/ /\ After(head) # tail
          /\ slots' = [slots EXCEPT ![head] = v]
          /\ head' = After(head)
          /\ ok' = TRUE
    /\ UNCHANGED <<override, tail, out>>

\* Mutant: the oldest event is not given up.
EnqueueOverwriting(v) ==
    /\ override
    /\ call' = Call("enqueue", v)
    /\ slots' = [slots EXCEPT ![head] = v]
    /\ head' = After(head)
    /\ ok' = TRUE
    /\ UNCHANGED <<override, tail, out>>

\* wireless_event_enqueue.
EnqueueOverriding(v) ==
    /\ override
    /\ call' = Call("enqueue", v)
    /\ tail' = IF After(head) = tail THEN After(tail) ELSE tail
    /\ slots' = [slots EXCEPT ![head] = v]
    /\ head' = After(head)
    /\ ok' = TRUE
    /\ UNCHANGED <<override, out>>

\* report_buffer_dequeue and wireless_event_dequeue.
Dequeue ==
    /\ call' = Call("dequeue", Zero)
    /\ \/ /\ IsEmpty
          /\ ok' = FALSE
          /\ UNCHANGED <<tail, out>>
       \/ /\ ~IsEmpty
          /\ out' = slots[tail]
          /\ tail' = After(tail)
          /\ ok' = TRUE
    /\ UNCHANGED <<override, slots, head>>

Next ==
    \/ Reinit
    \/ Dequeue
    \/ \E v \in Value : EnqueueRefusing(v) \/ EnqueueOverriding(v)

Spec == Init /\ [][Next]_vars

-----------------------------------------------------------------------------
\* The elements of array s between the indices t and h, oldest first.
Count(h, t) == IF h >= t THEN h - t ELSE h - t + Size

Slot(t, i) == IF t + i - 1 < Size THEN t + i - 1 ELSE t + i - 1 - Size

Between(s, h, t) == [i \in 1 .. Count(h, t) |-> s[Slot(t, i)]]

Contents == Between(slots, head, tail)

Queue == INSTANCE BoundedQueue WITH queue <- Contents, Capacity <- Size - 1

\* Type correctness: the indices never leave the array.
TypeOK ==
    /\ override \in BOOLEAN
    /\ slots \in [Index -> Value \cup {Zero}]
    /\ head \in Index /\ tail \in Index
    /\ call \in [op : Ops, arg : Value \cup {Zero}]
    /\ out \in Value \cup {Zero} /\ ok \in BOOLEAN

\* The ring of report_buffer.c and of wireless.c is a first-in first-out queue
\* of Size - 1 elements, also across the wrap of its indices, when it is full,
\* and when it is initialised while it holds elements.
IsQueue == Queue!Spec
=============================================================================
