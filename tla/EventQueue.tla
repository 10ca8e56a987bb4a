----------------------------- MODULE EventQueue -----------------------------
(***************************************************************************)
(* The event queue between the radio driver and the connection state       *)
(* machine (wireless.c, wireless_event_queue): a ring that overrides its   *)
(* oldest event when it is full.                                           *)
(***************************************************************************)
EXTENDS Fifo

CONSTANT EventQueueSize  \* WT_EVENT_QUEUE_SIZE (16)

ASSUME EventQueueSizeAssumption ==
    EventQueueSize \in Nat /\ EventQueueSize > 1

ConnectionEvents ==
    {"DISCOVERABLE", "RECONNECTING", "CONNECTED", "DISCONNECTED",
     "BT_PINCODE_ENTRY", "EXIT_BT_PINCODE_ENTRY", "SLEEP"}
EventTypes == ConnectionEvents \cup
    {"NONE", "RESET", "HID_SET_PROTOCOL", "HID_INDICATOR", "CONECTION_INTERVAL"}

\* param is the union params: reset reason, host index, LEDs or interval.
Event == [type : EventTypes, param : Nat]

\* The events in the ring, oldest first; one slot always stays free.
Events == Seq(Event)

NoEvents(q) == q = <<>>

\* "Override the first report": a full ring gives up its oldest event.
wireless_event_enqueue(q, e) ==
    AppendOrOverride(q, e, EventQueueSize - 1)

\* wireless_event_dequeue returns Head(q) and leaves Tail(q).
=============================================================================
