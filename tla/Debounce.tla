------------------------------ MODULE Debounce ------------------------------
(***************************************************************************)
(* The key debouncing of the keyboard, sym_eager_pk.c, as matrix_scan      *)
(* calls it: a change of a key is taken at once, and the key is then       *)
(* ignored until its counter has run down.  The counters are lowered by    *)
(* the milliseconds since the last call, and only while one of them runs.  *)
(* One step is one scan: time passes, the switches close, open or bounce,  *)
(* and debounce runs on what the scan has read.                            *)
(***************************************************************************)
EXTENDS Integers

CONSTANTS
    Keys,        \* the switches
    DEBOUNCE,    \* milliseconds a key is ignored after a change
    CounterMax,  \* 255: UINT8_MAX
    TimerRange,  \* 2^32: values of the fast timer
    Gaps         \* milliseconds that may pass between two scans

ASSUME DebounceAssumption ==
    /\ CounterMax \in Nat /\ DEBOUNCE \in 1 .. CounterMax
    /\ TimerRange \in Nat /\ TimerRange > CounterMax
ASSUME GapAssumption == Gaps \subseteq 0 .. TimerRange - 1

VARIABLES
    raw,      \* raw_matrix
    cooked,   \* matrix, what the rest of the firmware sees
    counter,  \* debounce_counters
    now,      \* timer_read_fast()
    last_time, counters_need_update, matrix_need_update,
    since     \* history: milliseconds since the key last changed in cooked

vars == <<raw, cooked, counter, now, last_time, counters_need_update,
          matrix_need_update, since>>

Init ==
    /\ raw = [k \in Keys |-> FALSE] /\ cooked = [k \in Keys |-> FALSE]
    /\ counter = [k \in Keys |-> 0]
    /\ now \in 0 .. TimerRange - 1 /\ last_time = 0
    /\ counters_need_update = FALSE /\ matrix_need_update = FALSE
    /\ since = [k \in Keys |-> DEBOUNCE]

Least(x, y) == IF x <= y THEN x ELSE y

\* TIMER_DIFF_FAST.
TimerDiff(a, b) == IF a >= b THEN a - b ELSE TimerRange - b + a

\* Time and counters at a scan that comes gap milliseconds after the last one.
Later(gap) == IF now + gap < TimerRange THEN now + gap ELSE now + gap - TimerRange

Elapsed(gap) ==
    IF counters_need_update THEN Least(TimerDiff(Later(gap), last_time), CounterMax) ELSE 0

\* Mutant: an elapsed counter stops at one.
RunDownToOne(gap) ==
    [k \in Keys |-> IF counter[k] <= Elapsed(gap) + 1 THEN Least(counter[k], 1)
                    ELSE counter[k] - Elapsed(gap)]

\* Mutant: a counter runs past zero.
RunDownPastZero(gap) == [k \in Keys |-> counter[k] - Elapsed(gap)]

\* update_debounce_counters: the counters and what is left to do.
RunDown(gap) ==
    [k \in Keys |-> IF counter[k] <= Elapsed(gap) THEN 0 ELSE counter[k] - Elapsed(gap)]

Running(gap) ==
    IF Elapsed(gap) > 0 THEN \E k \in Keys : RunDown(gap)[k] # 0 ELSE counters_need_update

\* Mutant: a counter that ends does not ask for a look at the matrix.
NothingEnded(gap) == matrix_need_update

Ended(gap) ==
    IF Elapsed(gap) > 0 THEN \E k \in Keys : counter[k] # 0 /\ RunDown(gap)[k] = 0
    ELSE matrix_need_update

\* Mutant: running counters are not looked at.
FlipsAtOnce(gap, pressed) == {k \in Keys : pressed[k] # cooked[k]}

\* The keys transfer_matrix_values takes over.
Flips(gap, pressed) == {k \in Keys : pressed[k] # cooked[k] /\ RunDown(gap)[k] = 0}

\* matrix_scan and debounce; pressed is what the scan reads.
Scan(gap, pressed) ==
    LET transfer == pressed # raw \/ Ended(gap)
        flips == IF transfer THEN Flips(gap, pressed) ELSE {}
    IN /\ now' = Later(gap)
       /\ raw' = pressed
       /\ cooked' = [k \in Keys |-> IF k \in flips THEN ~cooked[k] ELSE cooked[k]]
       /\ counter' = [k \in Keys |-> IF k \in flips THEN DEBOUNCE ELSE RunDown(gap)[k]]
       /\ counters_need_update' = (Running(gap) \/ flips # {})
       /\ matrix_need_update' = (Ended(gap) /\ ~transfer)
       /\ last_time' = IF counters_need_update \/ transfer THEN now' ELSE last_time
       /\ since' = [k \in Keys |-> IF k \in flips THEN 0 ELSE Least(since[k] + gap, DEBOUNCE)]

Next == \E gap \in Gaps, pressed \in [Keys -> BOOLEAN] : Scan(gap, pressed)

Spec == Init /\ [][Next]_vars

-----------------------------------------------------------------------------
\* Type correctness.
TypeOK ==
    /\ raw \in [Keys -> BOOLEAN] /\ cooked \in [Keys -> BOOLEAN]
    /\ counter \in [Keys -> 0 .. DEBOUNCE] /\ since \in [Keys -> 0 .. DEBOUNCE]
    /\ now \in 0 .. TimerRange - 1 /\ last_time \in 0 .. TimerRange - 1
    /\ counters_need_update \in BOOLEAN /\ matrix_need_update \in BOOLEAN

\* sym_eager_pk.c takes every change that lasts: a key is seen in another
\* state than its switch only within DEBOUNCE milliseconds of its last change,
\* so no press or release is forgotten when the switch comes to rest while its
\* counter runs, and a key at rest is taken in the scan that reads it.
NoForgottenChange == \A k \in Keys : raw[k] # cooked[k] => since[k] < DEBOUNCE

\* "No further inputs are accepted until DEBOUNCE milliseconds have occurred":
\* two changes of a key are at least DEBOUNCE milliseconds apart, whatever the
\* other keys do and however the scans fall, across the wrap of the timer.
ChangesApart ==
    [][\A k \in Keys : cooked'[k] # cooked[k] =>
           \E gap \in Gaps : now' = Later(gap) /\ since[k] + gap >= DEBOUNCE]_vars

\* What a scan leaves: while a counter runs, it is the rest of the time the key
\* is ignored and last_time is the time of the scan; a key without a counter
\* agrees with its switch.
ScanInvariant ==
    /\ \A k \in Keys : counter[k] = DEBOUNCE - since[k]
    /\ \A k \in Keys : counter[k] # 0 => counters_need_update
    /\ counters_need_update => last_time = now
    /\ ~matrix_need_update
    /\ \A k \in Keys : counter[k] = 0 => raw[k] = cooked[k]
=============================================================================
