----------------------------- MODULE MCEncoder ------------------------------
EXTENDS Encoder

\* A knob turned to and fro while encoder_read is not running; one turned fast,
\* whose pulses come at any step but those that count them again; and knobs turned
\* one way, whose pulses come at any step or at any but those that miss them.
Running == Steps \ {"idle"}
ToAndFro == [turns |-> {1, -1}, interrupts |-> {}]
Fast == [turns |-> {1, -1}, interrupts |-> Running \ Recounts]
OneWay(d, steps) == [turns |-> {d}, interrupts |-> steps]

SomeUses == {ToAndFro, Fast} \cup
    {OneWay(d, steps) : d \in {1, -1}, steps \in {Running, Running \ Misses}}
Race == {OneWay(-1, Running)}
=============================================================================
