------------------------------ MODULE Tapping -------------------------------
(***************************************************************************)
(* Tap-or-hold keys, action_tapping.c: a key that sends a code when tapped *)
(* and is a modifier or a layer when held.  Until the key that waits for   *)
(* its decision (tapping_key) is decided, the events of other keys wait in *)
(* a buffer.  Every key event, and a tick event in each millisecond        *)
(* without one, goes through process_tapping, and then the buffer through  *)
(* it as far as it is accepted.                                            *)
(*                                                                         *)
(* One step is one key event, one tick, or one run of process_tapping; one *)
(* action is one branch of process_tapping.  What process_record does with *)
(* an accepted record is kept in "active", the effects that are on.        *)
(* typed is a history of the presses, and each record carries the number   *)
(* of its press in it: the properties compare what the fingers did with    *)
(* what came of it.                                                        *)
(***************************************************************************)
EXTENDS Integers, Sequences, FiniteSets

CONSTANTS
    Keys, NoKey,
    Builds,                 \* keymaps and build options; Init chooses one
    TAPPING_TERM, QUICK_TAP_TERM,
    TimerRange,             \* 2^16: values of timer_read()
    Gaps,                   \* milliseconds between two ticks
    MaxPresses              \* bound: presses

TapKinds == {"modtap", "layertap"}
Kinds == TapKinds \cup {"plain", "mod", "layer"}

\* The keymap; the layer keys whose own layer has a plain key in their place;
\* whether PERMISSIVE_HOLD and HOLD_ON_OTHER_KEY_PRESS are defined.
Build == [Kind : [Keys -> Kinds], Opaque : SUBSET Keys, PermissiveHold : BOOLEAN,
          HoldOnOtherKeyPress : BOOLEAN, WAITING_BUFFER_SIZE : Nat \ {0}]

ASSUME BuildAssumption == Builds \subseteq Build /\ NoKey \notin Keys
ASSUME TermAssumption ==
    /\ TAPPING_TERM \in Nat \ {0} /\ QUICK_TAP_TERM \in 0 .. TAPPING_TERM
    /\ TimerRange \in Nat /\ TimerRange > TAPPING_TERM
    /\ Gaps \subseteq 1 .. TimerRange - 1
ASSUME BoundAssumption == MaxPresses \in Nat

VARIABLES
    build,           \* the keymap and the options; never changes
    tapping_key,     \* the record of the key that is decided, or NoRecord
    waiting_buffer,
    now,             \* timer_read()
    pc,              \* "ready", "process" a new record, "drain" the buffer
    record,          \* the new record
    active,          \* effects that are on: <<key, role>>
    source,          \* source_layers_cache: the kind the last press had
    down,            \* keys that are down
    settling,        \* keys that changed in this millisecond: debounce
    typed            \* history: the presses, in order

vars == <<build, tapping_key, waiting_buffer, now, pc, record, active, source, down, settling, typed>>

Kind == build.Kind
Opaque == build.Opaque
PermissiveHold == build.PermissiveHold
HoldOnOtherKeyPress == build.HoldOnOtherKeyPress
WAITING_BUFFER_SIZE == build.WAITING_BUFFER_SIZE

Record == [key : Keys \cup {NoKey}, pressed : BOOLEAN, time : 0 .. TimerRange - 1,
           count : 0 .. 15, interrupted : BOOLEAN, press : 0 .. MaxPresses]
MakeEvent(k, pressed, press) ==
    [key |-> k, pressed |-> pressed, time |-> now, count |-> 0, interrupted |-> FALSE,
     press |-> press]
NoRecord == [key |-> NoKey, pressed |-> FALSE, time |-> 0, count |-> 0, interrupted |-> FALSE,
             press |-> 0]
IsTick(r) == r.key = NoKey

Init ==
    /\ build \in Builds
    /\ tapping_key = NoRecord /\ waiting_buffer = <<>>
    /\ now = 0 /\ pc = "ready" /\ record = NoRecord
    /\ active = {} /\ source = Kind
    /\ down = {} /\ settling = {} /\ typed = <<>>

-----------------------------------------------------------------------------
(***************************************************************************)
(* What the keymap and process_record make of a record                     *)
(***************************************************************************)
\* layer_switch_get_action: the key on the layers that are on now.
CurrentKind(k) == IF k \in Opaque /\ <<k, "hold">> \in active THEN "plain" ELSE Kind[k]

is_tap_record(r) == r.key # NoKey /\ CurrentKind(r.key) \in TapKinds

Role(kind, count) ==
    CASE kind = "plain" -> "code"
      [] kind \in TapKinds /\ count > 0 -> "code"
      [] OTHER -> "hold"

Holds == {x[1] : x \in {y \in active : y[2] = "hold"}}

First(S) == CHOOSE i \in S : \A j \in S : i <= j

\* The press of r becomes role.
Settle(r, role) == [typed EXCEPT ![r.press] = [@ EXCEPT !.role = role, !.holds = Holds]]

\* process_record: presses look up the keymap, releases the kind of the press.
process_record(r) ==
    LET kind == IF r.pressed THEN CurrentKind(r.key) ELSE source[r.key]
        role == Role(kind, r.count)
    IN /\ source' = [source EXCEPT ![r.key] = kind]
       /\ active' = IF r.pressed THEN active \cup {<<r.key, role>>}
                    ELSE active \ {<<r.key, role>>}
       /\ typed' = IF r.pressed THEN Settle(r, role) ELSE typed

NothingProcessed == UNCHANGED <<active, source, typed>>

\* clear_keyboard: codes and modifiers go, layers stay.
clear_keyboard ==
    /\ active' = {x \in active : x[2] = "hold" /\ source[x[1]] \in {"layer", "layertap"}}
    /\ typed' = [i \in DOMAIN typed |-> IF typed[i].role = "waiting"
                                        THEN [typed[i] EXCEPT !.role = "dropped"]
                                        ELSE typed[i]]
    /\ UNCHANGED source

-----------------------------------------------------------------------------
(***************************************************************************)
(* The keyboard and the clock                                              *)
(***************************************************************************)
NewRecord(r) ==
    /\ pc = "ready" /\ pc' = "process"
    /\ record' = r
    /\ UNCHANGED <<build, tapping_key, waiting_buffer, active, source>>

KeyDown(k) ==
    /\ k \notin down \cup settling /\ Len(typed) < MaxPresses
    /\ NewRecord(MakeEvent(k, TRUE, Len(typed) + 1))
    /\ down' = down \cup {k} /\ settling' = settling \cup {k}
    /\ typed' = Append(typed, [key |-> k, held |-> 0, up |-> FALSE, role |-> "waiting",
                               under |-> {i \in DOMAIN typed : ~typed[i].up},
                               over |-> {}, holds |-> {}])
    /\ UNCHANGED now

\* The press that has the key down.
Held(k) == CHOOSE i \in DOMAIN typed : typed[i].key = k /\ ~typed[i].up

\* The presses that came and went while the key was down are noted as over.
KeyUp(k) ==
    /\ k \in down \ settling
    /\ NewRecord(MakeEvent(k, FALSE, Held(k)))
    /\ down' = down \ {k} /\ settling' = settling \cup {k}
    /\ typed' = [i \in DOMAIN typed |->
                    IF i = Held(k)
                    THEN [typed[i] EXCEPT !.up = TRUE,
                             !.over = {j \in DOMAIN typed : i \in typed[j].under /\ typed[j].up}]
                    ELSE typed[i]]
    /\ UNCHANGED now

\* generate_tick_event; the loop may have taken several milliseconds.
Tick(gap) ==
    /\ now' = (now + gap) % TimerRange
    /\ NewRecord([MakeEvent(NoKey, FALSE, 0) EXCEPT !.time = (now + gap) % TimerRange])
    /\ typed' = [i \in DOMAIN typed |->
                    [typed[i] EXCEPT !.held = IF typed[i].up THEN @
                                              ELSE IF @ + gap > TAPPING_TERM THEN TAPPING_TERM
                                              ELSE @ + gap]]
    /\ settling' = {} /\ UNCHANGED down

-----------------------------------------------------------------------------
(***************************************************************************)
(* process_tapping                                                         *)
(***************************************************************************)
\* The record process_tapping is called with.
Called ==
    CASE pc = "process" -> {record}
      [] pc = "drain" /\ waiting_buffer # <<>> -> {Head(waiting_buffer)}
      [] OTHER -> {}

\* It returns.
Return == record' = NoRecord /\ UNCHANGED <<build, now, down, settling>>

\* It returns true; buffer is the waiting buffer it leaves.
ConsumedFrom(buffer) ==
    /\ waiting_buffer' = IF pc = "drain" THEN Tail(buffer) ELSE buffer
    /\ pc' = "drain"
    /\ Return
Consumed == ConsumedFrom(waiting_buffer)

\* Mutant: the buffer is never full.
NeverFull == FALSE

IsFull == Len(waiting_buffer) = WAITING_BUFFER_SIZE - 1

\* Mutant: a refused record overtakes the ones in the buffer.
RefusedFirst(r) ==
    /\ pc' = IF pc = "process" THEN "drain" ELSE "ready"
    /\ waiting_buffer' = CASE pc = "drain" -> <<r>> \o Tail(waiting_buffer)
                           [] IsTick(r) \/ IsFull -> waiting_buffer
                           [] OTHER -> <<r>> \o waiting_buffer
    /\ Return

\* It returns false.  A new record is buffered; the buffer is left for later
\* when its own head is not accepted.
Refused(r) ==
    /\ \/ /\ pc = "process" /\ IsTick(r)
          /\ pc' = "drain" /\ UNCHANGED waiting_buffer
       \/ /\ pc = "process" /\ ~IsTick(r) /\ ~IsFull
          /\ pc' = "drain" /\ waiting_buffer' = Append(waiting_buffer, r)
       \/ /\ pc = "process" /\ ~IsTick(r) /\ IsFull
          /\ pc' = "overflow" /\ UNCHANGED waiting_buffer
       \/ /\ pc = "drain"
          /\ pc' = "ready" /\ waiting_buffer' = <<r>> \o Tail(waiting_buffer)
    /\ Return

\* A refused record found the buffer full: everything is cleared.
Overflow ==
    /\ pc = "overflow" /\ pc' = "drain"
    /\ waiting_buffer' = <<>> /\ tapping_key' = NoRecord
    /\ clear_keyboard
    /\ Return

Drained ==
    /\ pc = "drain" /\ waiting_buffer = <<>> /\ pc' = "ready"
    /\ UNCHANGED <<build, tapping_key, waiting_buffer, now, record, active, source, down,
                   settling, typed>>

Elapsed(r) == (r.time - tapping_key.time) % TimerRange

\* Mutants: the last millisecond counts as within; a tick never ends the term.
WithinInclusive(r) == Elapsed(r) <= TAPPING_TERM
WithinAtTicks(r) == IsTick(r) \/ Elapsed(r) < TAPPING_TERM

Within(r) == Elapsed(r) < TAPPING_TERM
IsTapping(r) == r.key = tapping_key.key

waiting_buffer_typed(r) ==
    \E i \in DOMAIN waiting_buffer :
        waiting_buffer[i].key = r.key /\ waiting_buffer[i].pressed # r.pressed

Undecided == tapping_key # NoRecord /\ tapping_key.pressed /\ tapping_key.count = 0
TapHeld == tapping_key # NoRecord /\ tapping_key.pressed /\ tapping_key.count > 0
TapReleased == tapping_key # NoRecord /\ ~tapping_key.pressed

\* The release of the key t in the buffer, if it comes in time.
TapsWaiting(t) ==
    {i \in DOMAIN waiting_buffer :
        /\ waiting_buffer[i].key = t.key /\ ~waiting_buffer[i].pressed
        /\ (waiting_buffer[i].time - t.time) % TimerRange < TAPPING_TERM}

\* A tap key begins to be decided, with waiting_buffer_scan_tap: when its
\* release is in the buffer already it is a tap.
StartTapping(t) ==
    \/ /\ TapsWaiting(t) = {}
       /\ tapping_key' = t
       /\ NothingProcessed
       /\ Consumed
    \/ /\ TapsWaiting(t) # {}
       /\ tapping_key' = [t EXCEPT !.count = 1]
       /\ process_record(tapping_key')
       /\ ConsumedFrom([waiting_buffer EXCEPT ![First(TapsWaiting(t))].count = 1])

Ignore(r) ==
    /\ IsTick(r) /\ (tapping_key = NoRecord \/ TapHeld \/ Within(r))
    /\ NothingProcessed
    /\ Consumed
    /\ UNCHANGED tapping_key

\* No key is decided: a pressed tap key is from now on.
Start(r) ==
    /\ tapping_key = NoRecord /\ r.pressed /\ is_tap_record(r)
    /\ StartTapping(r)

PassOn(r) ==
    /\ tapping_key = NoRecord /\ ~IsTick(r) /\ ~(r.pressed /\ is_tap_record(r))
    /\ process_record(r)
    /\ Consumed
    /\ UNCHANGED tapping_key

\* The key that is decided comes up within the term: a tap.  Its release is
\* processed from the buffer, after the events that came before it.
FirstTap(r) ==
    /\ Undecided /\ Within(r) /\ IsTapping(r) /\ ~r.pressed
    /\ tapping_key' = [tapping_key EXCEPT !.count = 1]
    /\ process_record(tapping_key')
    /\ Refused([r EXCEPT !.count = 1, !.interrupted = tapping_key.interrupted])

Interrupted(r) == Undecided /\ Within(r) /\ ~IsTick(r) /\ ~(IsTapping(r) /\ ~r.pressed)

\* It is a hold: another key was typed (PERMISSIVE_HOLD) or pressed
\* (HOLD_ON_OTHER_KEY_PRESS), or the term is over.
HoldNow(r) ==
    /\ tapping_key' = NoRecord
    /\ process_record(tapping_key)
    /\ Refused(r)

HoldWhenTyped(r) ==
    /\ Interrupted(r) /\ ~r.pressed /\ waiting_buffer_typed(r) /\ PermissiveHold
    /\ HoldNow(r)

HoldWhenPressed(r) ==
    /\ Interrupted(r) /\ r.pressed /\ HoldOnOtherKeyPress
    /\ HoldNow(r)

Timeout(r) ==
    /\ Undecided /\ ~Within(r)
    /\ HoldNow(r)

\* Mutant: all releases are processed at once.
RetainedNever(r) == FALSE

\* Modifiers and layers are retained until the key is decided.
Retained(r) ==
    \/ CurrentKind(r.key) \in {"mod", "layer", "layertap"}
    \/ CurrentKind(r.key) = "modtap" /\ r.count = 0

ReleaseOfEarlierKey(r) ==
    /\ Interrupted(r) /\ ~r.pressed /\ ~waiting_buffer_typed(r) /\ ~Retained(r)
    /\ process_record(r)
    /\ Consumed
    /\ UNCHANGED tapping_key

Wait(r) ==
    /\ Interrupted(r)
    /\ \/ r.pressed /\ ~HoldOnOtherKeyPress
       \/ ~r.pressed /\ waiting_buffer_typed(r) /\ ~PermissiveHold
       \/ ~r.pressed /\ ~waiting_buffer_typed(r) /\ Retained(r)
    /\ tapping_key' = [tapping_key EXCEPT !.interrupted = @ \/ r.pressed]
    /\ NothingProcessed
    /\ Refused(r)

\* It was a tap and its release comes.
TapRelease(r) ==
    /\ TapHeld /\ IsTapping(r) /\ ~r.pressed
    /\ LET released == [r EXCEPT !.count = tapping_key.count,
                                 !.interrupted = tapping_key.interrupted]
       IN /\ process_record(released)
          /\ tapping_key' = IF Within(r) THEN released ELSE NoRecord
    /\ Consumed

\* It was a tap, and another tap key is pressed.  A second tap is still on: it
\* is released first.
StartAnother(r) ==
    /\ TapHeld /\ tapping_key.count = 1 /\ r.pressed /\ is_tap_record(r)
    /\ StartTapping(r)

ReleaseLastTap(r) ==
    /\ TapHeld /\ tapping_key.count > 1 /\ r.pressed /\ is_tap_record(r)
    /\ process_record([tapping_key EXCEPT !.pressed = FALSE])
    /\ tapping_key' = NoRecord  \* and goes on with Start
    /\ UNCHANGED <<build, waiting_buffer, now, pc, record, down, settling>>

PassOnAfterTap(r) ==
    /\ TapHeld /\ ~IsTick(r)
    /\ ~(IsTapping(r) /\ ~r.pressed) /\ ~(r.pressed /\ is_tap_record(r))
    /\ process_record(r)
    /\ Consumed
    /\ UNCHANGED tapping_key

\* The tap is over; the key is pressed again within the term.
QuickTap(r) ==
    /\ TapReleased /\ Within(r) /\ r.pressed /\ IsTapping(r)
    /\ Elapsed(r) < QUICK_TAP_TERM /\ ~tapping_key.interrupted /\ tapping_key.count > 0
    /\ LET again == [r EXCEPT !.count = IF tapping_key.count < 15 THEN tapping_key.count + 1 ELSE 15]
       IN process_record(again) /\ tapping_key' = again
    /\ Consumed

StartAgain(r) ==
    /\ TapReleased /\ Within(r) /\ r.pressed /\ IsTapping(r)
    /\ ~(Elapsed(r) < QUICK_TAP_TERM /\ ~tapping_key.interrupted /\ tapping_key.count > 0)
    /\ tapping_key' = r
    /\ NothingProcessed
    /\ Consumed

StartOther(r) ==
    /\ TapReleased /\ Within(r) /\ r.pressed /\ ~IsTapping(r) /\ is_tap_record(r)
    /\ StartTapping(r)

PassOnReleased(r) ==
    /\ TapReleased /\ Within(r) /\ ~IsTick(r)
    /\ ~r.pressed \/ (~IsTapping(r) /\ ~is_tap_record(r))
    /\ process_record(r)
    /\ tapping_key' = [tapping_key EXCEPT !.interrupted = @ \/ r.pressed]
    /\ Consumed

Reset(r) ==
    /\ TapReleased /\ ~Within(r)
    /\ tapping_key' = NoRecord
    /\ NothingProcessed
    /\ Refused(r)

Process(r) ==
    \/ Ignore(r) \/ Start(r) \/ PassOn(r)
    \/ FirstTap(r) \/ HoldWhenTyped(r) \/ HoldWhenPressed(r) \/ Timeout(r)
    \/ ReleaseOfEarlierKey(r) \/ Wait(r)
    \/ TapRelease(r) \/ StartAnother(r) \/ ReleaseLastTap(r) \/ PassOnAfterTap(r)
    \/ QuickTap(r) \/ StartAgain(r) \/ StartOther(r) \/ PassOnReleased(r) \/ Reset(r)

Next ==
    \/ \E k \in Keys : KeyDown(k) \/ KeyUp(k)
    \/ \E gap \in Gaps : Tick(gap)
    \/ \E r \in Called : Process(r)
    \/ Overflow \/ Drained

\* The main loop goes on: it finishes each event, and ticks.
Fairness ==
    /\ WF_vars(\E r \in Called : Process(r))
    /\ WF_vars(Overflow \/ Drained)
    /\ WF_vars(\E gap \in Gaps : Tick(gap))

Spec == Init /\ [][Next]_vars /\ Fairness

-----------------------------------------------------------------------------
(***************************************************************************)
(* Properties                                                              *)
(***************************************************************************)
Press == [key : Keys, held : 0 .. TAPPING_TERM, up : BOOLEAN,
          role : {"waiting", "code", "hold", "dropped"},
          under : SUBSET (1 .. MaxPresses), over : SUBSET (1 .. MaxPresses),
          holds : SUBSET Keys]

\* Type correctness.
TypeOK ==
    /\ build \in Builds
    /\ tapping_key \in Record /\ record \in Record
    /\ waiting_buffer \in Seq(Record) /\ Len(waiting_buffer) < WAITING_BUFFER_SIZE
    /\ now \in 0 .. TimerRange - 1
    /\ pc \in {"ready", "process", "drain", "overflow"}
    /\ active \subseteq Keys \X {"code", "hold"} /\ source \in [Keys -> Kinds]
    /\ down \subseteq Keys /\ settling \subseteq Keys
    /\ typed \in Seq(Press) /\ Len(typed) <= MaxPresses

\* Once all keys are up and the buffer is empty, nothing is on: whatever the
\* buffer delayed, retained or processed out of turn, every effect of a press
\* is ended by the release that process_tapping pairs with it.
NoStuckKey == pc = "ready" /\ down = {} /\ waiting_buffer = <<>> => active = {}

\* Presses take effect in the order in which the keys were pressed.
InOrder ==
    \A j \in DOMAIN typed : typed[j].role # "waiting" =>
        \A i \in 1 .. j - 1 : typed[i].role # "waiting"

\* A key is processed under exactly the modifiers and layers whose keys were
\* down when it was pressed: a hold that is decided late still applies to the
\* keys pressed after it, and the release of an earlier modifier or layer is
\* retained while a key is undecided.
HoldsApply ==
    \A j \in DOMAIN typed : typed[j].role \in {"code", "hold"} =>
        typed[j].holds = {typed[i].key : i \in {i \in typed[j].under : typed[i].role = "hold"}}

\* The key was tapped before and no key was pressed after that tap: it repeats.
Repeats(i) ==
    /\ typed[i].role = "code"
    /\ \E h \in 1 .. i - 1 :
          /\ typed[h].key = typed[i].key /\ typed[h].role = "code"
          /\ \A j \in h + 1 .. i - 1 : h \in typed[j].under

Decided == {i \in DOMAIN typed : /\ typed[i].up /\ typed[i].role \in {"code", "hold"}
                                 /\ Kind[typed[i].key] \in TapKinds /\ ~Repeats(i)}

\* tap_hold.md: the hold action is selected if the key is held down for the
\* tapping term, if another key is tapped meanwhile (PERMISSIVE_HOLD), or if
\* another key is pressed meanwhile (HOLD_ON_OTHER_KEY_PRESS), and the tap
\* action otherwise.
DecisionRule ==
    \A i \in Decided :
        typed[i].role = "hold" <=>
            \/ typed[i].held = TAPPING_TERM
            \/ PermissiveHold /\ typed[i].over # {}
            \/ HoldOnOtherKeyPress /\ \E j \in DOMAIN typed : i \in typed[j].under

\* No event waits for ever: the term of the key that is decided ends, and the
\* buffer is processed.
BufferDrains == waiting_buffer # <<>> ~> waiting_buffer = <<>>
=============================================================================
