--------------------------- MODULE DebounceProofs ---------------------------
(***************************************************************************)
(* Proofs about Debounce, for every set of keys, debounce time, counter    *)
(* width, timer range and set of gaps between scans.  ScanInvariant is     *)
(* inductive given the types; the other properties follow from it.         *)
(***************************************************************************)
EXTENDS Debounce, TLAPS

Inv == TypeOK /\ ScanInvariant

-----------------------------------------------------------------------------
\* The clock stays in its range, and the fast timer measures the gap since the
\* last scan across its wrap.
LEMMA LaterType ==
    ASSUME NEW gap \in 0 .. TimerRange - 1, now \in 0 .. TimerRange - 1
    PROVE  Later(gap) \in 0 .. TimerRange - 1 /\ TimerDiff(Later(gap), now) = gap
BY DebounceAssumption DEF Later, TimerDiff

\* update_debounce_counters subtracts at most the time that has passed, and all
\* of it when a counter runs and the time fits a counter.
LEMMA ElapsedIsGap ==
    ASSUME Inv, NEW gap \in Gaps
    PROVE  /\ Elapsed(gap) \in Nat /\ Elapsed(gap) <= gap
           /\ counters_need_update => Elapsed(gap) = Least(gap, CounterMax)
           /\ ~counters_need_update => Elapsed(gap) = 0
<1>1. gap \in 0 .. TimerRange - 1
  BY GapAssumption
<1>2. TimerDiff(Later(gap), now) = gap
  BY <1>1, LaterType DEF Inv, TypeOK
<1>3. CASE counters_need_update
  <2>1. last_time = now
    BY <1>3 DEF Inv, ScanInvariant
  <2>2. Elapsed(gap) = Least(gap, CounterMax)
    BY <1>2, <1>3, <2>1 DEF Elapsed
  <2> QED
    BY <1>1, <1>3, <2>2, DebounceAssumption DEF Least
<1>4. CASE ~counters_need_update
  BY <1>1, <1>4, DebounceAssumption DEF Elapsed
<1> QED
  BY <1>3, <1>4

\* A counter that is lowered stays the rest of the time its key is ignored.
LEMMA RunDownIsRest ==
    ASSUME Inv, NEW gap \in Gaps, NEW k \in Keys
    PROVE  /\ RunDown(gap)[k] \in 0 .. DEBOUNCE
           /\ RunDown(gap)[k] = DEBOUNCE - Least(since[k] + gap, DEBOUNCE)
<1>1. gap \in Nat
  BY GapAssumption, DebounceAssumption
<1>2. /\ counter[k] \in 0 .. DEBOUNCE /\ since[k] \in 0 .. DEBOUNCE
      /\ counter[k] = DEBOUNCE - since[k]
  BY DEF Inv, TypeOK, ScanInvariant
<1>3. RunDown(gap)[k] = IF counter[k] <= Elapsed(gap) THEN 0 ELSE counter[k] - Elapsed(gap)
  BY DEF RunDown
<1>4. CASE counters_need_update
  <2>1. Elapsed(gap) = IF gap <= CounterMax THEN gap ELSE CounterMax
    BY <1>4, ElapsedIsGap DEF Least
  <2> QED
    BY <1>1, <1>2, <1>3, <2>1, DebounceAssumption DEF Least
<1>5. CASE ~counters_need_update
  <2>1. Elapsed(gap) = 0 /\ counter[k] = 0
    BY <1>5, ElapsedIsGap DEF Inv, ScanInvariant
  <2> QED
    BY <1>1, <1>2, <1>3, <2>1, DebounceAssumption DEF Least
<1> QED
  BY <1>4, <1>5

\* Counters are lowered, and counters end, only while the code keeps track of
\* running counters.
LEMMA RunningAndEnded ==
    ASSUME Inv, NEW gap \in Gaps
    PROVE  /\ Running(gap) \in BOOLEAN /\ Ended(gap) \in BOOLEAN
           /\ Running(gap) => counters_need_update
           /\ \A k \in Keys : RunDown(gap)[k] # 0 => Running(gap)
           /\ ~Ended(gap) => \A k \in Keys : RunDown(gap)[k] = 0 => counter[k] = 0
<1>1. /\ counters_need_update \in BOOLEAN /\ matrix_need_update \in BOOLEAN
      /\ ~matrix_need_update
      /\ \A k \in Keys : counter[k] # 0 => counters_need_update
  BY DEF Inv, TypeOK, ScanInvariant
<1>2. Elapsed(gap) \in Nat /\ (~counters_need_update => Elapsed(gap) = 0)
  BY ElapsedIsGap
<1>3. CASE Elapsed(gap) > 0
  BY <1>1, <1>2, <1>3 DEF Running, Ended
<1>4. CASE ~(Elapsed(gap) > 0)
  <2>1. Elapsed(gap) = 0
    BY <1>2, <1>4
  <2>2. \A k \in Keys : RunDown(gap)[k] = counter[k]
    BY <2>1 DEF RunDown, Inv, TypeOK
  <2> QED
    BY <1>1, <1>4, <2>2 DEF Running, Ended
<1> QED
  BY <1>3, <1>4

-----------------------------------------------------------------------------
\* debounce_init starts with no counter running and all keys up.
LEMMA InitInv == Init => Inv
<1> SUFFICES ASSUME Init PROVE Inv
  OBVIOUS
<1>1. /\ DEBOUNCE \in Nat /\ 0 \in 0 .. DEBOUNCE /\ DEBOUNCE \in 0 .. DEBOUNCE
      /\ 0 \in 0 .. TimerRange - 1 /\ DEBOUNCE - DEBOUNCE = 0
  BY DebounceAssumption
<1>2. TypeOK
  <2>1. counter \in [Keys -> 0 .. DEBOUNCE] /\ since \in [Keys -> 0 .. DEBOUNCE]
    BY <1>1 DEF Init
  <2>2. raw \in [Keys -> BOOLEAN] /\ cooked \in [Keys -> BOOLEAN]
    BY Zenon DEF Init
  <2> QED
    BY <1>1, <2>1, <2>2 DEF Init, TypeOK
<1>3. ScanInvariant
  <2>1. \A k \in Keys : counter[k] = DEBOUNCE - since[k]
    BY <1>1 DEF Init
  <2>2. \A k \in Keys : counter[k] = 0 /\ raw[k] = cooked[k]
    BY Zenon DEF Init
  <2> QED
    BY <2>1, <2>2 DEF Init, ScanInvariant
<1> QED
  BY <1>2, <1>3 DEF Inv

\* A scan keeps the types.
LEMMA ScanType ==
    ASSUME Inv, NEW gap \in Gaps, NEW pressed \in [Keys -> BOOLEAN], Scan(gap, pressed)
    PROVE  TypeOK'
<1>1. raw' \in [Keys -> BOOLEAN]
  BY DEF Scan
<1>2. cooked' \in [Keys -> BOOLEAN]
  BY DEF Scan, Inv, TypeOK
<1>3. counter' \in [Keys -> 0 .. DEBOUNCE]
  BY RunDownIsRest, DebounceAssumption DEF Scan
<1>4. since' \in [Keys -> 0 .. DEBOUNCE]
  <2>1. gap \in Nat
    BY GapAssumption, DebounceAssumption
  <2>2. \A k \in Keys : Least(since[k] + gap, DEBOUNCE) \in 0 .. DEBOUNCE
    BY <2>1, DebounceAssumption DEF Least, Inv, TypeOK
  <2> QED
    BY <2>2, DebounceAssumption DEF Scan
<1>5. now' \in 0 .. TimerRange - 1 /\ last_time' \in 0 .. TimerRange - 1
  BY LaterType, GapAssumption DEF Scan, Inv, TypeOK
<1>6. counters_need_update' \in BOOLEAN /\ matrix_need_update' \in BOOLEAN
  BY RunningAndEnded DEF Scan
<1> QED
  BY <1>1, <1>2, <1>3, <1>4, <1>5, <1>6 DEF TypeOK

\* A scan leaves every counter, the time stamp and the flags consistent.
LEMMA ScanKeeps ==
    ASSUME Inv, NEW gap \in Gaps, NEW pressed \in [Keys -> BOOLEAN], Scan(gap, pressed)
    PROVE  ScanInvariant'
<1> DEFINE transfer == pressed # raw \/ Ended(gap)
           flips == IF transfer THEN Flips(gap, pressed) ELSE {}
<1>1. /\ now' = Later(gap) /\ raw' = pressed
      /\ cooked' = [k \in Keys |-> IF k \in flips THEN ~cooked[k] ELSE cooked[k]]
      /\ counter' = [k \in Keys |-> IF k \in flips THEN DEBOUNCE ELSE RunDown(gap)[k]]
      /\ counters_need_update' = (Running(gap) \/ flips # {})
      /\ matrix_need_update' = (Ended(gap) /\ ~transfer)
      /\ last_time' = IF counters_need_update \/ transfer THEN now' ELSE last_time
      /\ since' = [k \in Keys |-> IF k \in flips THEN 0 ELSE Least(since[k] + gap, DEBOUNCE)]
  BY DEF Scan
<1>2. flips # {} => transfer
  OBVIOUS
<1>3. \A k \in flips : k \in Keys /\ pressed[k] # cooked[k]
  BY DEF Flips
<1>4. \A k \in Keys \ flips : transfer => pressed[k] = cooked[k] \/ RunDown(gap)[k] # 0
  BY DEF Flips
<1>5. ~transfer => pressed = raw /\ ~Ended(gap)
  OBVIOUS
<1> HIDE DEF transfer, flips
<1>6. \A k \in Keys : counter'[k] = DEBOUNCE - since'[k]
  BY <1>1, RunDownIsRest, DebounceAssumption
<1>7. \A k \in Keys : counter'[k] # 0 => counters_need_update'
  BY <1>1, RunningAndEnded
<1>8. counters_need_update' => last_time' = now'
  BY <1>1, <1>2, RunningAndEnded
<1>9. ~matrix_need_update'
  BY <1>1, <1>5 DEF transfer
<1>10. \A k \in Keys : counter'[k] = 0 => raw'[k] = cooked'[k]
  <2> SUFFICES ASSUME NEW k \in Keys, counter'[k] = 0 PROVE raw'[k] = cooked'[k]
    OBVIOUS
  <2>1. k \notin flips /\ RunDown(gap)[k] = 0
    BY <1>1, DebounceAssumption
  <2>2. cooked'[k] = cooked[k] /\ raw'[k] = pressed[k]
    BY <1>1, <2>1
  <2>3. CASE transfer
    BY <1>4, <2>1, <2>2, <2>3
  <2>4. CASE ~transfer
    <3>1. counter[k] = 0
      BY <1>5, <2>1, <2>4, RunningAndEnded
    <3> QED
      BY <1>5, <2>2, <2>4, <3>1 DEF Inv, ScanInvariant
  <2> QED
    BY <2>3, <2>4
<1> QED
  BY <1>6, <1>7, <1>8, <1>9, <1>10 DEF ScanInvariant

LEMMA NextInv == Inv /\ [Next]_vars => Inv'
<1> SUFFICES ASSUME Inv, [Next]_vars PROVE Inv'
  OBVIOUS
<1>1. CASE Next
  BY <1>1, ScanType, ScanKeeps DEF Next, Inv
<1>2. CASE UNCHANGED vars
  BY <1>2 DEF vars, Inv, TypeOK, ScanInvariant
<1> QED
  BY <1>1, <1>2

LEMMA Invariant == Spec => []Inv
BY InitInv, NextInv, PTL DEF Spec

-----------------------------------------------------------------------------
\* Type correctness: no counter of sym_eager_pk.c exceeds DEBOUNCE or runs
\* below zero, whatever the gaps between scans.
THEOREM DebounceType == Spec => []TypeOK
<1>1. Inv => TypeOK
  BY DEF Inv
<1> QED
  BY <1>1, Invariant, PTL

\* What debounce leaves after every scan: counters, time stamp and flags agree.
THEOREM ScansConsistent == Spec => []ScanInvariant
<1>1. Inv => ScanInvariant
  BY DEF Inv
<1> QED
  BY <1>1, Invariant, PTL

\* transfer_matrix_values and the end of a counter together take every change
\* that lasts: a key differs from its switch only while it is ignored.
THEOREM ChangesTaken == Spec => []NoForgottenChange
<1>1. Inv => NoForgottenChange
  <2> SUFFICES ASSUME Inv, NEW k \in Keys, raw[k] # cooked[k] PROVE since[k] < DEBOUNCE
    BY DEF NoForgottenChange
  <2>1. counter[k] # 0
    BY DEF Inv, ScanInvariant
  <2>2. counter[k] \in 0 .. DEBOUNCE /\ since[k] \in 0 .. DEBOUNCE
        /\ counter[k] = DEBOUNCE - since[k]
    BY DEF Inv, TypeOK, ScanInvariant
  <2> QED
    BY <2>1, <2>2, DebounceAssumption
<1> QED
  BY <1>1, Invariant, PTL

\* No bounce gets through: two changes of a key in the debounced matrix are at
\* least DEBOUNCE milliseconds apart, across the wrap of the timer.
THEOREM BouncesIgnored == Spec => ChangesApart
<1> DEFINE Apart ==
        \A k \in Keys : cooked'[k] # cooked[k] =>
            \E gap \in Gaps : now' = Later(gap) /\ since[k] + gap >= DEBOUNCE
<1>1. Inv /\ [Next]_vars => [Apart]_vars
  <2> SUFFICES ASSUME Inv, Next PROVE Apart
    OBVIOUS
  <2> SUFFICES ASSUME NEW k \in Keys, cooked'[k] # cooked[k]
               PROVE  \E gap \in Gaps : now' = Later(gap) /\ since[k] + gap >= DEBOUNCE
    OBVIOUS
  <2>1. PICK gap \in Gaps, pressed \in [Keys -> BOOLEAN] : Scan(gap, pressed)
    BY DEF Next
  <2>2. now' = Later(gap) /\ RunDown(gap)[k] = 0
    BY <2>1 DEF Scan, Flips
  <2>3. RunDown(gap)[k] = DEBOUNCE - Least(since[k] + gap, DEBOUNCE)
    BY RunDownIsRest
  <2>4. gap \in Nat /\ since[k] \in Nat
    BY GapAssumption, DebounceAssumption DEF Inv, TypeOK
  <2>5. since[k] + gap >= DEBOUNCE
    BY <2>2, <2>3, <2>4, DebounceAssumption DEF Least
  <2> QED
    BY <2>2, <2>5
<1>2. Spec => [][Apart]_vars
  BY <1>1, Invariant, PTL DEF Spec
<1> QED
  BY <1>2 DEF ChangesApart
=============================================================================
