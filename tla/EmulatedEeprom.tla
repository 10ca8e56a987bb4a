--------------------------- MODULE EmulatedEeprom ---------------------------
(***************************************************************************)
(* What the emulated EEPROM promises the firmware: an array of bytes that  *)
(* keeps its contents while the power is off.  The power may fail while a  *)
(* write is in progress; then the bytes Damage names may be old, new or    *)
(* zero and every other byte is intact.  While the log is being folded     *)
(* into the consolidated data ("moving") the code warns of data loss: all  *)
(* bytes may be found zero, and single ones when the store is erased in    *)
(* several sectors, but none gets a value that was not written to it.      *)
(***************************************************************************)
EXTENDS Integers, Sequences

CONSTANTS
    Address,       \* logical addresses
    Writes,        \* arguments <<address, bytes>> of a write
    Instances,         \* kinds of backing store
    Sectors(_),        \* sectors such a store is erased in
    Damage(_, _, _)    \* the bytes that a cut write of so many bytes may change

VARIABLES
    mem,     \* what a read returns, or will return after power-on
    before,  \* the contents before the call in progress
    arg,     \* the argument of the write in progress
    instance,  \* the kind of backing store; never changes
    broken,    \* a call of the backing store has failed: nothing is promised
    phase      \* "off", "up", "writing", "moving" or "clearing"

vars == <<mem, before, arg, instance, broken, phase>>

None == <<0, <<>>>>
Zero == [a \in Address |-> 0]

Init ==
    /\ instance \in Instances /\ broken = FALSE
    /\ mem = Zero /\ before = Zero /\ arg = None /\ phase = "off"

\* A power-on may find the log full and fold it before it is ready.
PowerOn ==
    /\ phase = "off" /\ phase' \in {"up", "moving"}
    /\ before' = mem
    /\ UNCHANGED <<mem, arg>>

Write ==
    /\ phase = "up" /\ phase' = "writing"
    /\ \E x \in Writes :
          /\ arg' = x
          /\ mem' = [a \in Address |-> IF a \in x[1] .. x[1] + Len(x[2]) - 1
                                       THEN x[2][a - x[1] + 1] ELSE mem[a]]
    /\ before' = mem

Clear ==
    /\ phase = "up" /\ phase' = "clearing"
    /\ before' = mem
    /\ UNCHANGED <<mem, arg>>

Cleared ==
    /\ phase = "clearing" /\ phase' = "up"
    /\ mem' = Zero
    /\ UNCHANGED <<before, arg>>

Move ==
    /\ phase = "writing" /\ phase' = "moving"
    /\ UNCHANGED <<mem, before, arg>>

Done ==
    /\ phase \in {"writing", "moving"} /\ phase' = "up"
    /\ arg' = None
    /\ UNCHANGED <<mem, before>>

\* What byte a may be after the power has failed with part of the log intact.
Survivors(a) ==
    {mem[a]}
        \cup (IF phase \in {"writing", "moving"} /\ a \in Damage(instance, arg[1], Len(arg[2]))
              THEN {before[a], 0} ELSE {})
        \cup (IF phase \in {"moving", "clearing"} /\ Sectors(instance) > 1 THEN {0} ELSE {})

PowerLoss ==
    /\ phase # "off" /\ phase' = "off"
    /\ \/ \A a \in Address : mem'[a] \in Survivors(a)
       \/ phase \in {"moving", "clearing"} /\ mem' = Zero
    /\ before' = mem' /\ arg' = None

Works ==
    /\ PowerOn \/ Write \/ Clear \/ Cleared \/ Move \/ Done \/ PowerLoss
    /\ ~broken'

Next == (broken' \/ Works) /\ UNCHANGED instance

Spec == Init /\ [][Next]_vars
=============================================================================
