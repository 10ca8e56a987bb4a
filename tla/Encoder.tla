------------------------------ MODULE Encoder -------------------------------
(***************************************************************************)
(* The rotary encoder of the keyboard, encoder.c: both edges of both pads  *)
(* interrupt the main loop, and the interrupt handler counts the pulse     *)
(* (encoder_inerrupt_read); the main loop samples the pads too, and turns  *)
(* counted pulses into key events (encoder_read, encoder_update).  The two *)
(* share three plain variables.  The steps of the main loop are the        *)
(* accesses between which an interrupt may come; a read-modify-write is    *)
(* two of them.                                                            *)
(***************************************************************************)
EXTENDS Integers, Sequences

CONSTANTS
    Resolution,   \* ENCODER_RESOLUTION
    Uses,         \* how the knob is turned; Init chooses one
    MaxPulses     \* bound: pulses

Steps == {"idle", "test", "shift", "load", "add", "check", "mapping", "reverse", "reset", "clear"}

\* The directions, and the steps of encoder_read that pulses interrupt.
Use == [turns : SUBSET {1, -1}, interrupts : SUBSET (Steps \ {"idle"})]

ASSUME EncoderAssumption ==
    Resolution \in Nat \ {0} /\ Uses \subseteq Use /\ MaxPulses \in Nat

VARIABLES
    use,         \* the way the knob is turned; never changes
    pos,         \* position of the knob, in pulses
    state,       \* encoder_state & 0xF: the last two samples
    pulses,      \* encoder_pulses
    interrupt_update,
    pc,          \* step of the main loop
    new_status, loaded, argument,   \* its locals and registers
    events,      \* history: key events, 1 or -1
    turned       \* history: pulses so far in each direction

vars == <<use, pos, state, pulses, interrupt_update, pc, new_status, loaded, argument,
          events, turned>>

\* The pads at a position; both are high where the knob rests.
Gray == <<3, 1, 0, 2>>
Pads(p) == Gray[(p % 4) + 1]
DEFAULT_POS == 3

\* encoder_LUT: the next or the last position in the cycle, or neither.
LUT(s) ==
    CASE \E p \in 0 .. 3 : s = <<Pads(p), Pads(p + 1)>> -> 1
      [] \E p \in 0 .. 3 : s = <<Pads(p), Pads(p + 3)>> -> -1
      [] OTHER -> 0

Init ==
    /\ use \in Uses
    /\ pos = 0 /\ state = <<0, DEFAULT_POS>> /\ pulses = 0 /\ interrupt_update = FALSE
    /\ pc = "idle" /\ new_status = DEFAULT_POS /\ loaded = 0 /\ argument = state
    /\ events = <<>> /\ turned = [d \in {1, -1} |-> 0]

-----------------------------------------------------------------------------
\* The knob moves on by a pulse and encoder_inerrupt_read runs.
Turn(d) ==
    LET next == <<state[2], Pads(pos + d)>>
    IN /\ d \in use.turns /\ pc \in use.interrupts \cup {"idle"}
       /\ turned[1] + turned[-1] < MaxPulses
       /\ turned' = [turned EXCEPT ![d] = @ + 1]
       /\ pos' = pos + d
       /\ state' = next
       /\ pulses' = pulses + LUT(next)
       /\ interrupt_update' = TRUE
       /\ UNCHANGED <<use, pc, new_status, loaded, argument, events>>

Goto(step) == pc' = step /\ UNCHANGED <<use, pos, turned>>

\* encoder_read.
Sample ==
    /\ pc = "idle" /\ Goto("test")
    /\ new_status' = Pads(pos)
    /\ UNCHANGED <<state, pulses, interrupt_update, loaded, argument, events>>

\* Mutant: the flag of the handler is not looked at.
TestPads ==
    /\ pc = "test"
    /\ \/ state[2] # new_status /\ loaded' = state[2] /\ Goto("shift")
       \/ state[2] = new_status /\ Goto("idle") /\ UNCHANGED loaded
    /\ UNCHANGED <<state, pulses, interrupt_update, new_status, argument, events>>

Test ==
    /\ pc = "test"
    /\ \/ /\ state[2] # new_status \/ interrupt_update
          /\ loaded' = state[2] /\ Goto("shift")
       \/ /\ state[2] = new_status /\ ~interrupt_update
          /\ Goto("idle") /\ UNCHANGED loaded
    /\ UNCHANGED <<state, pulses, interrupt_update, new_status, argument, events>>

Shift ==
    /\ pc = "shift" /\ Goto("load")
    /\ state' = <<loaded, new_status>> /\ argument' = state'
    /\ UNCHANGED <<pulses, interrupt_update, new_status, loaded, events>>

\* encoder_update.  The compiler may pass the state it has or read it again.
Load ==
    /\ pc = "load" /\ Goto("add")
    /\ argument' \in {argument, state}
    /\ loaded' = pulses
    /\ UNCHANGED <<state, pulses, interrupt_update, new_status, events>>

Add ==
    /\ pc = "add" /\ Goto("check")
    /\ pulses' = loaded + LUT(argument)
    /\ UNCHANGED <<state, interrupt_update, new_status, loaded, argument, events>>

\* encoder_exec_mapping is called, and takes milliseconds: the main loop is in
\* it at step "mapping", and at step "reset" after an event in Reverse.
Check ==
    /\ pc = "check"
    /\ \/ /\ pulses >= Resolution \/ pulses <= -Resolution \/ argument[2] = DEFAULT_POS
          /\ \/ pulses >= 1 /\ events' = Append(events, 1) /\ Goto("mapping")
             \/ pulses < 1 /\ Goto("reverse") /\ UNCHANGED events
       \/ /\ pulses < Resolution /\ pulses > -Resolution /\ argument[2] # DEFAULT_POS
          /\ Goto("clear") /\ UNCHANGED events
    /\ UNCHANGED <<state, pulses, interrupt_update, new_status, loaded, argument>>

Mapped ==
    /\ pc = "mapping" /\ Goto("reverse")
    /\ UNCHANGED <<state, pulses, interrupt_update, new_status, loaded, argument, events>>

Reverse ==
    /\ pc = "reverse" /\ Goto("reset")
    /\ events' = IF pulses <= -1 THEN Append(events, -1) ELSE events
    /\ UNCHANGED <<state, pulses, interrupt_update, new_status, loaded, argument>>

\* Mutant: the pulses are kept.
KeepPulses ==
    /\ pc = "reset" /\ Goto("clear")
    /\ UNCHANGED <<state, pulses, interrupt_update, new_status, loaded, argument, events>>

Reset ==
    /\ pc = "reset" /\ Goto("clear")
    /\ pulses' = 0
    /\ UNCHANGED <<state, interrupt_update, new_status, loaded, argument, events>>

Clear ==
    /\ pc = "clear" /\ Goto("idle")
    /\ interrupt_update' = FALSE
    /\ UNCHANGED <<state, pulses, new_status, loaded, argument, events>>

Loop == Sample \/ Test \/ Shift \/ Load \/ Add \/ Check \/ Mapped \/ Reverse \/ Reset \/ Clear

Next == (\E d \in {1, -1} : Turn(d)) \/ Loop

\* The main loop goes on.
Spec == Init /\ [][Next]_vars /\ WF_vars(Loop)

-----------------------------------------------------------------------------
Count(d) == Len(SelectSeq(events, LAMBDA e : e = d))

\* The steps at which a pulse disturbs encoder_read.  From its look at the pads to
\* its load of encoder_pulses it counts the pulse again that the handler counts.
Recounts == {"test", "shift", "load"}
\* Where it takes the pulse for a step back, having seen the pads before, writes over
\* what the handler wrote, or clears its flag.
Misses == {"test", "shift", "add", "clear"}

Undisturbed(steps) == use.interrupts \cap steps = {}

\* Type correctness.
Counts == -2 * MaxPulses - 1 .. 2 * MaxPulses + 1
TypeOK ==
    /\ use \in Uses
    /\ pos \in -MaxPulses .. MaxPulses /\ turned \in [{1, -1} -> 0 .. MaxPulses]
    /\ state \in (0 .. 3) \X (0 .. 3) /\ argument \in (0 .. 3) \X (0 .. 3)
    /\ pulses \in Counts /\ interrupt_update \in BOOLEAN
    /\ pc \in Steps /\ new_status \in 0 .. 3 /\ loaded \in Counts
    /\ events \in Seq({1, -1})

\* Every event has a pulse of its own, and a knob that is turned one way gives no
\* more events than it has begun steps, and none in the other direction.
EventsFromTurns ==
    \A d \in {1, -1} :
        /\ Count(d) <= turned[d]
        /\ turned[-d] = 0 => Resolution * (Count(d) - 1) < turned[d]

\* As long as no pulse comes between the look at the pads and the load of
\* encoder_pulses, the code gives no event too many, also when pulses come within
\* the update of encoder_pulses, in the key mapping or before the flag is cleared.
NoExtraEvents == Undisturbed(Recounts) => EventsFromTurns


\* A knob turned one way through whole steps gives at least one event, unless
\* pulses come at the steps that miss them: the flag the handler sets brings the
\* main loop to the counted pulses even when the pads are back where it saw them last.
TurnIsSeen ==
    \A d \in {1, -1} :
        /\ Undisturbed(Misses)
        /\ turned = [[e \in {1, -1} |-> 0] EXCEPT ![d] = MaxPulses]
      ~> Count(d) > 0

\* encoder_tests.cpp: "send 4 pulses. with resolution 4, that's one step and we
\* should get 1 update".  It need not be so when the main loop is interrupted.
StepGivesUpdate == \A d \in {1, -1} : turned[d] = Resolution ~> [](Len(events) = 1)
=============================================================================
