---------------------------- MODULE TappingProofs ----------------------------
(***************************************************************************)
(* Proofs about Tapping, for every keymap and set of build options, every  *)
(* term, timer range and set of gaps between ticks, and every number of    *)
(* presses.                                                                *)
(***************************************************************************)
EXTENDS Tapping, WellFoundedInduction, TLAPS

-----------------------------------------------------------------------------
(***************************************************************************)
(* Types                                                                   *)
(***************************************************************************)
\* The key that is decided and the records in the buffer are of real keys.
KeysKnown ==
    /\ tapping_key # NoRecord => tapping_key.key \in Keys
    /\ \A p \in DOMAIN waiting_buffer : waiting_buffer[p].key \in Keys
    /\ IsTick(record) => ~record.pressed

\* A key is down for the last of its presses, and for no other.
Fingers ==
    /\ \A i \in DOMAIN typed : ~typed[i].up => typed[i].key \in down
    /\ \A k \in down : \E i \in DOMAIN typed : typed[i].key = k /\ ~typed[i].up
    /\ \A i, j \in DOMAIN typed : i < j /\ typed[i].key = typed[j].key => typed[i].up

Inv0 == TypeOK /\ KeysKnown /\ Fingers

LEMMA BuildTyped ==
    ASSUME build \in Builds
    PROVE  /\ Kind \in [Keys -> Kinds] /\ Opaque \subseteq Keys
           /\ PermissiveHold \in BOOLEAN /\ HoldOnOtherKeyPress \in BOOLEAN
           /\ WAITING_BUFFER_SIZE \in Nat \ {0}
BY BuildAssumption DEF Build, Kind, Opaque, PermissiveHold, HoldOnOtherKeyPress,
                       WAITING_BUFFER_SIZE

LEMMA RecordFields ==
    ASSUME NEW r \in Record
    PROVE  /\ r.key \in Keys \cup {NoKey} /\ r.pressed \in BOOLEAN
           /\ r.time \in 0 .. TimerRange - 1 /\ r.count \in 0 .. 15
           /\ r.interrupted \in BOOLEAN /\ r.press \in 0 .. MaxPresses
BY DEF Record

LEMMA NoRecordTyped == NoRecord \in Record /\ NoRecord.key = NoKey /\ ~NoRecord.pressed
BY TermAssumption, BoundAssumption DEF NoRecord, Record

\* Changing the count or the mark of a record keeps the rest.
LEMMA RecordChanged ==
    ASSUME NEW r \in Record, NEW c \in 0 .. 15, NEW b \in BOOLEAN
    PROVE  /\ [r EXCEPT !.count = c] \in Record
           /\ [r EXCEPT !.interrupted = b] \in Record
           /\ [r EXCEPT !.pressed = b] \in Record
           /\ [r EXCEPT !.count = c, !.interrupted = b] \in Record
           /\ [r EXCEPT !.count = c].key = r.key
           /\ [r EXCEPT !.interrupted = b].key = r.key
           /\ [r EXCEPT !.pressed = b].key = r.key
           /\ [r EXCEPT !.count = c, !.interrupted = b].key = r.key
BY DEF Record

\* The mark of a tap.
LEMMA RecordMarked ==
    ASSUME NEW r \in Record, NEW b \in BOOLEAN
    PROVE  /\ [r EXCEPT !.count = 1] \in Record
           /\ [r EXCEPT !.count = 1, !.interrupted = b] \in Record
           /\ [r EXCEPT !.count = 1].key = r.key
           /\ [r EXCEPT !.count = 1, !.interrupted = b].key = r.key
<1>1. 1 \in 0 .. 15
  OBVIOUS
<1> QED
  BY <1>1, RecordChanged

LEMMA KindTyped ==
    ASSUME TypeOK, NEW k \in Keys
    PROVE  Kind[k] \in Kinds /\ CurrentKind(k) \in Kinds /\ source[k] \in Kinds
BY BuildTyped DEF TypeOK, CurrentKind, Kinds, TapKinds

LEMMA HoldsTyped ==
    ASSUME active \subseteq Keys \X {"code", "hold"}
    PROVE  Holds \subseteq Keys
BY DEF Holds

\* What is known of the fingers does not change.
SamePresses ==
    /\ DOMAIN typed' = DOMAIN typed
    /\ \A i \in DOMAIN typed : /\ typed'[i].key = typed[i].key /\ typed'[i].up = typed[i].up
                               /\ typed'[i].under = typed[i].under

\* process_record keeps the types.
EffectsTyped ==
    /\ SamePresses
    /\ active' \subseteq Keys \X {"code", "hold"} /\ source' \in [Keys -> Kinds]
    /\ typed' \in Seq(Press) /\ Len(typed') <= MaxPresses

LEMMA SettleTyped ==
    ASSUME TypeOK, NEW r, NEW role \in {"code", "hold"}
    PROVE  /\ Settle(r, role) \in Seq(Press) /\ Len(Settle(r, role)) = Len(typed)
           /\ DOMAIN Settle(r, role) = DOMAIN typed
           /\ \A i \in DOMAIN typed :
                 Settle(r, role)[i] = IF i = r.press
                                      THEN [typed[i] EXCEPT !.role = role, !.holds = Holds]
                                      ELSE typed[i]
<1>1. typed \in Seq(Press) /\ Holds \subseteq Keys
  BY HoldsTyped DEF TypeOK
<1>2. \A i \in DOMAIN typed : typed[i] \in Press
  BY <1>1
<1>3. \A i \in DOMAIN typed : [typed[i] EXCEPT !.role = role, !.holds = Holds] \in Press
  BY <1>1, <1>2 DEF Press
<1> DEFINE S == Settle(r, role)
<1>4. /\ DOMAIN S = DOMAIN typed
      /\ \A i \in DOMAIN typed :
            S[i] = IF i = r.press THEN [typed[i] EXCEPT !.role = role, !.holds = Holds]
                   ELSE typed[i]
  BY DEF Settle
<1>5. \A i \in DOMAIN typed : S[i] \in Press
  BY <1>2, <1>3, <1>4
<1>6. DOMAIN typed = 1 .. Len(typed) /\ Len(typed) \in Nat
  BY <1>1
<1>7. S \in [1 .. Len(typed) -> Press]
  <2>1. S = [i \in DOMAIN typed |-> S[i]]
    BY DEF Settle
  <2> HIDE DEF S
  <2> QED
    BY <1>5, <1>6, <2>1
<1>8. S \in Seq(Press) /\ Len(S) = Len(typed)
  <2> HIDE DEF S
  <2> QED
    BY <1>6, <1>7
<1> QED
  BY <1>4, <1>8

LEMMA ProcessedTyped ==
    ASSUME TypeOK, NEW r \in Record, r.key \in Keys, process_record(r)
    PROVE  EffectsTyped
<1> DEFINE kind == IF r.pressed THEN CurrentKind(r.key) ELSE source[r.key]
           role == Role(kind, r.count)
<1>1. kind \in Kinds
  BY KindTyped
<1>2. role \in {"code", "hold"}
  BY DEF Role
<1>3. /\ source' = [source EXCEPT ![r.key] = kind]
      /\ active' = IF r.pressed THEN active \cup {<<r.key, role>>} ELSE active \ {<<r.key, role>>}
      /\ typed' = IF r.pressed THEN Settle(r, role) ELSE typed
  BY DEF process_record
<1> HIDE DEF kind, role
<1>4. source' \in [Keys -> Kinds]
  BY <1>1, <1>3 DEF TypeOK
<1>5. active' \subseteq Keys \X {"code", "hold"}
  BY <1>2, <1>3 DEF TypeOK
<1>6. CASE r.pressed
  <2>1. typed' = Settle(r, role) /\ \A i \in DOMAIN typed : typed[i] \in Press
    BY <1>3, <1>6 DEF TypeOK
  <2>2. /\ typed' \in Seq(Press) /\ Len(typed') <= MaxPresses /\ DOMAIN typed' = DOMAIN typed
        /\ \A i \in DOMAIN typed :
              typed'[i] = IF i = r.press THEN [typed[i] EXCEPT !.role = role, !.holds = Holds]
                          ELSE typed[i]
    BY <1>2, <2>1, SettleTyped DEF TypeOK
  <2>3. \A i \in DOMAIN typed :
           LET p == [typed[i] EXCEPT !.role = role, !.holds = Holds]
           IN p.key = typed[i].key /\ p.up = typed[i].up /\ p.under = typed[i].under
    BY <2>1 DEF Press
  <2>4. SamePresses
    BY <2>2, <2>3 DEF SamePresses
  <2> QED
    BY <1>4, <1>5, <2>2, <2>4 DEF EffectsTyped
<1>7. CASE ~r.pressed
  BY <1>3, <1>4, <1>5, <1>7 DEF EffectsTyped, SamePresses, TypeOK
<1> QED
  BY <1>6, <1>7

LEMMA NothingProcessedTyped ==
    ASSUME TypeOK, NothingProcessed
    PROVE  EffectsTyped
BY DEF TypeOK, NothingProcessed, EffectsTyped, SamePresses

\* The buffer and the control state keep their types.
BufferTyped ==
    /\ build' = build /\ now' = now /\ down' = down /\ settling' = settling
    /\ record' \in Record /\ (IsTick(record') => ~record'.pressed)
    /\ waiting_buffer' \in Seq(Record) /\ Len(waiting_buffer') < WAITING_BUFFER_SIZE
    /\ \A p \in DOMAIN waiting_buffer' : waiting_buffer'[p].key \in Keys
    /\ pc' \in {"ready", "process", "drain", "overflow"}

LEMMA CalledTyped ==
    ASSUME Inv0, NEW r \in Called
    PROVE  /\ r \in Record /\ (IsTick(r) => ~r.pressed) /\ (~IsTick(r) => r.key \in Keys)
           /\ \/ pc = "process" /\ r = record
              \/ pc = "drain" /\ waiting_buffer # <<>> /\ r = Head(waiting_buffer) /\ r.key \in Keys
<1>1. CASE pc = "process"
  BY <1>1, RecordFields DEF Inv0, TypeOK, KeysKnown, Called, IsTick
<1>2. CASE pc = "drain" /\ waiting_buffer # <<>>
  <2>1. r = Head(waiting_buffer)
    BY <1>2 DEF Called
  <2>2. 1 \in DOMAIN waiting_buffer /\ r = waiting_buffer[1]
    BY <1>2, <2>1 DEF Inv0, TypeOK
  <2>3. r \in Record /\ r.key \in Keys
    BY <2>2 DEF Inv0, TypeOK, KeysKnown
  <2> QED
    BY <1>2, <2>1, <2>3, BuildAssumption DEF IsTick
<1>3. CASE pc # "process" /\ ~(pc = "drain" /\ waiting_buffer # <<>>)
  BY <1>3 DEF Called
<1> QED
  BY <1>1, <1>2, <1>3

LEMMA ConsumedTyped ==
    ASSUME Inv0, NEW r \in Called, NEW buffer \in Seq(Record),
           Len(buffer) = Len(waiting_buffer),
           \A p \in DOMAIN buffer : buffer[p].key \in Keys,
           ConsumedFrom(buffer)
    PROVE  BufferTyped
<1>1. /\ record' = NoRecord /\ UNCHANGED <<build, now, down, settling>> /\ pc' = "drain"
  BY DEF ConsumedFrom, Return
<1>2. CASE pc = "drain"
  <2>1. Len(buffer) # 0 /\ waiting_buffer' = Tail(buffer)
    BY <1>2, CalledTyped DEF ConsumedFrom, Inv0, TypeOK
  <2>2. waiting_buffer' \in Seq(Record) /\ Len(waiting_buffer') = Len(buffer) - 1
    BY <2>1
  <2>3. \A p \in DOMAIN waiting_buffer' : waiting_buffer'[p].key \in Keys
    BY <2>1
  <2> QED
    BY <1>1, <2>2, <2>3, NoRecordTyped, BuildTyped DEF BufferTyped, Inv0, TypeOK
<1>3. CASE pc # "drain"
  <2>1. waiting_buffer' = buffer
    BY <1>3 DEF ConsumedFrom
  <2> QED
    BY <1>1, <2>1, NoRecordTyped DEF BufferTyped, Inv0, TypeOK
<1> QED
  BY <1>2, <1>3

LEMMA RefusedTyped ==
    ASSUME Inv0, NEW r \in Called, NEW s \in Record, s.key = r.key, Refused(s)
    PROVE  BufferTyped
<1>1. record' = NoRecord /\ UNCHANGED <<build, now, down, settling>>
  BY DEF Refused, Return
<1>2. /\ waiting_buffer \in Seq(Record) /\ Len(waiting_buffer) < WAITING_BUFFER_SIZE
      /\ WAITING_BUFFER_SIZE \in Nat
      /\ \A p \in DOMAIN waiting_buffer : waiting_buffer[p].key \in Keys
  BY BuildTyped DEF Inv0, TypeOK, KeysKnown
<1>3. CASE UNCHANGED waiting_buffer /\ pc' \in {"drain", "overflow"}
  BY <1>1, <1>2, <1>3, NoRecordTyped DEF BufferTyped
<1>4. CASE pc = "process" /\ ~IsTick(s) /\ ~IsFull /\ pc' = "drain"
           /\ waiting_buffer' = Append(waiting_buffer, s)
  <2>1. s.key \in Keys
    BY <1>4, RecordFields DEF IsTick
  <2>2. Len(waiting_buffer) + 1 < WAITING_BUFFER_SIZE
    BY <1>2, <1>4 DEF IsFull
  <2>3. waiting_buffer' \in Seq(Record) /\ Len(waiting_buffer') = Len(waiting_buffer) + 1
    BY <1>2, <1>4
  <2>4. \A p \in DOMAIN waiting_buffer' : waiting_buffer'[p].key \in Keys
    BY <1>2, <1>4, <2>1
  <2> QED
    BY <1>1, <1>2, <1>4, <2>2, <2>3, <2>4, NoRecordTyped DEF BufferTyped
<1>5. CASE pc = "drain" /\ pc' = "ready" /\ waiting_buffer' = <<s>> \o Tail(waiting_buffer)
  <2>1. Len(waiting_buffer) # 0 /\ s.key \in Keys
    BY <1>2, <1>5, CalledTyped
  <2>2. /\ waiting_buffer' \in Seq(Record) /\ Len(waiting_buffer') = Len(waiting_buffer)
        /\ \A p \in DOMAIN waiting_buffer' :
              waiting_buffer'[p] = IF p = 1 THEN s ELSE waiting_buffer[p]
    BY <1>2, <1>5, <2>1
  <2> QED
    BY <1>1, <1>2, <1>5, <2>1, <2>2, NoRecordTyped DEF BufferTyped
<1> QED
  BY <1>3, <1>4, <1>5 DEF Refused

LEMMA StepTyped ==
    ASSUME Inv0, BufferTyped, EffectsTyped,
           tapping_key' \in Record, tapping_key' # NoRecord => tapping_key'.key \in Keys
    PROVE  Inv0'
<1>1. WAITING_BUFFER_SIZE' = WAITING_BUFFER_SIZE
  BY DEF BufferTyped, WAITING_BUFFER_SIZE
<1>2. TypeOK'
  BY <1>1 DEF Inv0, TypeOK, BufferTyped, EffectsTyped
<1>3. KeysKnown'
  BY DEF KeysKnown, BufferTyped, IsTick
<1>4. Fingers'
  BY DEF Fingers, Inv0, BufferTyped, EffectsTyped, SamePresses
<1> QED
  BY <1>2, <1>3, <1>4 DEF Inv0

LEMMA ConsumedPlain ==
    ASSUME Inv0, NEW r \in Called, Consumed
    PROVE  BufferTyped
BY ConsumedTyped DEF Consumed, Inv0, TypeOK, KeysKnown

LEMMA TapsWaitingTyped ==
    ASSUME Inv0, NEW t, TapsWaiting(t) # {}
    PROVE  /\ First(TapsWaiting(t)) \in TapsWaiting(t)
           /\ \A i \in TapsWaiting(t) : First(TapsWaiting(t)) <= i
<1>1. TapsWaiting(t) \subseteq Nat
  BY DEF TapsWaiting, Inv0, TypeOK
<1> DEFINE less == OpToRel(<, Nat)
<1>2. PICK m \in TapsWaiting(t) : \A i \in TapsWaiting(t) : <<i, m>> \notin less
  BY <1>1, NatLessThanWellFounded, WFMin
<1>3. \A i \in TapsWaiting(t) : m <= i
  <2> SUFFICES ASSUME NEW i \in TapsWaiting(t), i < m PROVE FALSE
    BY <1>1
  <2>1. <<i, m>> \in Nat \X Nat /\ <<i, m>>[1] < <<i, m>>[2]
    BY <1>1
  <2>2. <<i, m>> \in less
    BY <2>1 DEF OpToRel
  <2> QED
    BY <1>2, <2>2
<1> QED
  BY <1>3 DEF First

LEMMA ScanTyped ==
    ASSUME Inv0, NEW t, TapsWaiting(t) # {}
    PROVE  LET b == [waiting_buffer EXCEPT ![First(TapsWaiting(t))].count = 1]
           IN /\ b \in Seq(Record) /\ Len(b) = Len(waiting_buffer)
              /\ DOMAIN b = DOMAIN waiting_buffer
              /\ \A p \in DOMAIN b :
                    b[p] = IF p = First(TapsWaiting(t)) THEN [waiting_buffer[p] EXCEPT !.count = 1]
                           ELSE waiting_buffer[p]
              /\ \A p \in DOMAIN b : b[p].key \in Keys
<1> DEFINE m == First(TapsWaiting(t))
           b == [waiting_buffer EXCEPT ![m].count = 1]
<1>1. m \in DOMAIN waiting_buffer
  BY TapsWaitingTyped DEF TapsWaiting
<1>2. waiting_buffer \in Seq(Record) /\ \A p \in DOMAIN waiting_buffer : waiting_buffer[p] \in Record
  BY DEF Inv0, TypeOK
<1>3. [waiting_buffer[m] EXCEPT !.count = 1] \in Record
      /\ [waiting_buffer[m] EXCEPT !.count = 1].key = waiting_buffer[m].key
  BY <1>1, <1>2, RecordMarked
<1> HIDE DEF m
<1>4. b \in Seq(Record) /\ Len(b) = Len(waiting_buffer)
  BY <1>1, <1>2, <1>3
<1>5. DOMAIN b = DOMAIN waiting_buffer
      /\ \A p \in DOMAIN b :
            b[p] = IF p = m THEN [waiting_buffer[p] EXCEPT !.count = 1] ELSE waiting_buffer[p]
  BY <1>1, <1>2
<1>6. \A p \in DOMAIN b : b[p].key \in Keys
  BY <1>3, <1>5 DEF Inv0, KeysKnown
<1> QED
  BY <1>4, <1>5, <1>6 DEF m

LEMMA StartTappingTyped ==
    ASSUME Inv0, NEW r \in Called, r.key \in Keys, StartTapping(r)
    PROVE  Inv0'
<1>1. r \in Record
  BY CalledTyped
<1>2. CASE TapsWaiting(r) = {} /\ tapping_key' = r /\ NothingProcessed /\ Consumed
  BY <1>1, <1>2, ConsumedPlain, NothingProcessedTyped, StepTyped DEF Inv0
<1>3. CASE /\ TapsWaiting(r) # {}
           /\ tapping_key' = [r EXCEPT !.count = 1]
           /\ process_record(tapping_key')
           /\ ConsumedFrom([waiting_buffer EXCEPT ![First(TapsWaiting(r))].count = 1])
  <2>1. tapping_key' \in Record /\ tapping_key'.key \in Keys
    BY <1>1, <1>3, RecordMarked
  <2>2. EffectsTyped
    BY <1>3, <2>1, ProcessedTyped DEF Inv0
  <2>3. BufferTyped
    BY <1>3, ScanTyped, ConsumedTyped
  <2> QED
    BY <2>1, <2>2, <2>3, StepTyped
<1> QED
  BY <1>2, <1>3 DEF StartTapping

LEMMA HoldNowTyped ==
    ASSUME Inv0, NEW r \in Called, Undecided, HoldNow(r)
    PROVE  Inv0'
<1>1. EffectsTyped
  BY ProcessedTyped DEF HoldNow, Undecided, Inv0, TypeOK, KeysKnown
<1>2. BufferTyped
  BY RefusedTyped, CalledTyped DEF HoldNow
<1> QED
  BY <1>1, <1>2, StepTyped, NoRecordTyped DEF HoldNow

\* Every branch of process_tapping keeps the types.
LEMMA ProcessTyped ==
    ASSUME Inv0, NEW r \in Called, Process(r)
    PROVE  Inv0'
<1>r. /\ r \in Record /\ (~IsTick(r) => r.key \in Keys)
      /\ r.count \in 0 .. 15 /\ r.pressed \in BOOLEAN
  BY CalledTyped, RecordFields
<1>t. /\ tapping_key \in Record /\ (tapping_key # NoRecord => tapping_key.key \in Keys)
      /\ tapping_key.count \in 0 .. 15 /\ tapping_key.interrupted \in BOOLEAN
  BY RecordFields DEF Inv0, TypeOK, KeysKnown
<1>n. NoRecord \in Record
  BY NoRecordTyped
<1>k. is_tap_record(r) => r.key \in Keys
  BY <1>r DEF is_tap_record, IsTick
<1>i. tapping_key # NoRecord /\ IsTapping(r) => r.key \in Keys
  BY <1>t DEF IsTapping
<1>1. CASE Ignore(r)
  BY <1>1, <1>t, ConsumedPlain, NothingProcessedTyped, StepTyped DEF Ignore, Inv0
<1>2. CASE Start(r) \/ StartAnother(r) \/ StartOther(r)
  BY <1>2, <1>k, StartTappingTyped DEF Start, StartAnother, StartOther
<1>3. CASE PassOn(r) \/ PassOnAfterTap(r) \/ ReleaseOfEarlierKey(r)
  <2>1. process_record(r) /\ r.key \in Keys /\ Consumed /\ tapping_key' = tapping_key
    BY <1>3, <1>r DEF PassOn, PassOnAfterTap, ReleaseOfEarlierKey, Interrupted
  <2> QED
    BY <2>1, <1>r, <1>t, ConsumedPlain, ProcessedTyped, StepTyped DEF Inv0
<1>4. CASE FirstTap(r)
  <2>1. /\ tapping_key' = [tapping_key EXCEPT !.count = 1] /\ tapping_key # NoRecord
        /\ process_record(tapping_key')
        /\ Refused([r EXCEPT !.count = 1, !.interrupted = tapping_key.interrupted])
    BY <1>4 DEF FirstTap, Undecided
  <2>2. tapping_key' \in Record /\ tapping_key'.key \in Keys
    BY <2>1, <1>t, RecordMarked
  <2>3. EffectsTyped
    BY <2>1, <2>2, ProcessedTyped DEF Inv0
  <2>4. BufferTyped
    BY <2>1, <1>r, <1>t, RecordMarked, RefusedTyped
  <2> QED
    BY <2>2, <2>3, <2>4, StepTyped
<1>5. CASE HoldWhenTyped(r) \/ HoldWhenPressed(r) \/ Timeout(r)
  BY <1>5, HoldNowTyped DEF HoldWhenTyped, HoldWhenPressed, Timeout, Interrupted
<1>6. CASE Wait(r)
  <2>1. /\ tapping_key' = [tapping_key EXCEPT !.interrupted = @ \/ r.pressed]
        /\ tapping_key # NoRecord /\ NothingProcessed /\ Refused(r)
    BY <1>6 DEF Wait, Interrupted, Undecided
  <2>2. tapping_key' \in Record /\ tapping_key'.key \in Keys
    BY <2>1, <1>t, RecordChanged
  <2> QED
    BY <2>1, <2>2, <1>r, RefusedTyped, NothingProcessedTyped, StepTyped DEF Inv0
<1>7. CASE TapRelease(r)
  <2> DEFINE released == [r EXCEPT !.count = tapping_key.count,
                                   !.interrupted = tapping_key.interrupted]
  <2>1. /\ process_record(released) /\ Consumed /\ r.key \in Keys
        /\ tapping_key' = released \/ tapping_key' = NoRecord
    BY <1>7, <1>i DEF TapRelease, TapHeld
  <2>2. released \in Record /\ released.key \in Keys
    BY <2>1, <1>r, <1>t, RecordChanged
  <2> HIDE DEF released
  <2> QED
    BY <2>1, <2>2, <1>n, ConsumedPlain, ProcessedTyped, StepTyped DEF Inv0
<1>8. CASE ReleaseLastTap(r)
  <2>1. /\ process_record([tapping_key EXCEPT !.pressed = FALSE]) /\ tapping_key # NoRecord
        /\ tapping_key' = NoRecord
        /\ UNCHANGED <<build, waiting_buffer, now, pc, record, down, settling>>
    BY <1>8 DEF ReleaseLastTap, TapHeld
  <2>2. EffectsTyped
    BY <2>1, <1>t, RecordChanged, ProcessedTyped DEF Inv0
  <2>3. BufferTyped
    BY <2>1 DEF BufferTyped, Inv0, TypeOK, KeysKnown, IsTick
  <2> QED
    BY <2>1, <2>2, <2>3, <1>n, StepTyped
<1>9. CASE QuickTap(r)
  <2> DEFINE again == [r EXCEPT !.count = IF tapping_key.count < 15 THEN tapping_key.count + 1
                                          ELSE 15]
  <2>1. process_record(again) /\ tapping_key' = again /\ Consumed /\ r.key \in Keys
    BY <1>9, <1>i DEF QuickTap, TapReleased
  <2>2. (IF tapping_key.count < 15 THEN tapping_key.count + 1 ELSE 15) \in 0 .. 15
    BY <1>t
  <2>3. again \in Record /\ again.key \in Keys
    BY <2>1, <2>2, <1>r, RecordChanged
  <2> HIDE DEF again
  <2> QED
    BY <2>1, <2>3, ConsumedPlain, ProcessedTyped, StepTyped DEF Inv0
<1>10. CASE StartAgain(r)
  <2>1. tapping_key' = r /\ r.key \in Keys /\ NothingProcessed /\ Consumed
    BY <1>10, <1>i DEF StartAgain, TapReleased
  <2> QED
    BY <2>1, <1>r, ConsumedPlain, NothingProcessedTyped, StepTyped DEF Inv0
<1>11. CASE PassOnReleased(r)
  <2>1. /\ tapping_key' = [tapping_key EXCEPT !.interrupted = @ \/ r.pressed]
        /\ tapping_key # NoRecord /\ r.key \in Keys /\ process_record(r) /\ Consumed
    BY <1>11, <1>r DEF PassOnReleased, TapReleased
  <2>2. tapping_key' \in Record /\ tapping_key'.key \in Keys
    BY <2>1, <1>t, <1>r, RecordChanged
  <2> QED
    BY <2>1, <2>2, <1>r, ConsumedPlain, ProcessedTyped, StepTyped DEF Inv0
<1>12. CASE Reset(r)
  <2>1. tapping_key' = NoRecord /\ NothingProcessed /\ Refused(r)
    BY <1>12 DEF Reset
  <2> QED
    BY <2>1, <1>r, <1>n, RefusedTyped, NothingProcessedTyped, StepTyped DEF Inv0
<1> QED
  BY <1>1, <1>2, <1>3, <1>4, <1>5, <1>6, <1>7, <1>8, <1>9, <1>10, <1>11, <1>12 DEF Process

\* So do the keys, the clock, the end of the buffer and its overflow.
LEMMA KeyDownTyped ==
    ASSUME Inv0, NEW k \in Keys, KeyDown(k)
    PROVE  Inv0'
<1>1. /\ typed \in Seq(Press) /\ Len(typed) \in Nat /\ DOMAIN typed = 1 .. Len(typed)
      /\ Len(typed) < MaxPresses /\ MaxPresses \in Nat
      /\ now \in 0 .. TimerRange - 1 /\ 0 \in 0 .. TAPPING_TERM
  BY BoundAssumption, TermAssumption DEF KeyDown, Inv0, TypeOK
<1> DEFINE p == [key |-> k, held |-> 0, up |-> FALSE, role |-> "waiting",
                 under |-> {i \in DOMAIN typed : ~typed[i].up}, over |-> {}, holds |-> {}]
<1>2. p \in Press
  BY <1>1 DEF Press
<1>3. typed' = Append(typed, p)
  BY DEF KeyDown
<1> HIDE DEF p
<1>4. typed' \in Seq(Press) /\ Len(typed') <= MaxPresses
  BY <1>1, <1>2, <1>3
<1>5. MakeEvent(k, TRUE, Len(typed) + 1) \in Record
  BY <1>1 DEF MakeEvent, Record
<1>6. /\ record' = MakeEvent(k, TRUE, Len(typed) + 1) /\ record'.key = k /\ pc' = "process"
      /\ UNCHANGED <<build, tapping_key, waiting_buffer, active, source, now>>
      /\ down' \subseteq Keys /\ settling' \subseteq Keys
  BY DEF KeyDown, NewRecord, MakeEvent, Inv0, TypeOK
<1>7. TypeOK'
  BY <1>4, <1>5, <1>6 DEF Inv0, TypeOK, WAITING_BUFFER_SIZE
<1>8. KeysKnown'
  BY <1>6, BuildAssumption DEF KeysKnown, Inv0, IsTick
<1>9. Fingers'
  <2>1. /\ DOMAIN typed' = 1 .. Len(typed) + 1 /\ typed'[Len(typed) + 1] = p
        /\ \A i \in DOMAIN typed : typed'[i] = typed[i]
    BY <1>1, <1>2, <1>3
  <2>2. p.key = k /\ ~p.up
    BY DEF p
  <2>3. down' = down \cup {k} /\ k \notin down
    BY DEF KeyDown
  <2>4. \A i \in DOMAIN typed : typed[i].key = k => typed[i].up
    BY <2>3 DEF Inv0, Fingers
  <2>5. \A i \in DOMAIN typed' : ~typed'[i].up => typed'[i].key \in down'
    BY <1>1, <2>1, <2>2, <2>3 DEF Inv0, Fingers
  <2>6. \A j \in down' : \E i \in DOMAIN typed' : typed'[i].key = j /\ ~typed'[i].up
    <3> SUFFICES ASSUME NEW j \in down'
                 PROVE  \E i \in DOMAIN typed' : typed'[i].key = j /\ ~typed'[i].up
      OBVIOUS
    <3>1. CASE j = k
      BY <1>1, <2>1, <2>2, <3>1
    <3>2. CASE j \in down
      <4>1. PICK i \in DOMAIN typed : typed[i].key = j /\ ~typed[i].up
        BY <3>2 DEF Inv0, Fingers
      <4> QED
        BY <1>1, <2>1, <4>1
    <3> QED
      BY <2>3, <3>1, <3>2
  <2>7. \A i, j \in DOMAIN typed' : i < j /\ typed'[i].key = typed'[j].key => typed'[i].up
    BY <1>1, <2>1, <2>2, <2>4 DEF Inv0, Fingers
  <2> QED
    BY <2>5, <2>6, <2>7 DEF Fingers
<1> QED
  BY <1>7, <1>8, <1>9 DEF Inv0

\* A history whose entries are rewritten one by one.
LEMMA TypedMapped ==
    ASSUME TypeOK, \A i \in DOMAIN typed : typed'[i] \in Press, DOMAIN typed' = DOMAIN typed,
           typed' = [i \in DOMAIN typed |-> typed'[i]]
    PROVE  typed' \in Seq(Press) /\ Len(typed') = Len(typed)
<1>1. DOMAIN typed = 1 .. Len(typed) /\ Len(typed) \in Nat
  BY DEF TypeOK
<1>2. typed' \in [1 .. Len(typed) -> Press]
  BY <1>1
<1> QED
  BY <1>1, <1>2

\* The press that has a key down.
LEMMA HeldIs ==
    ASSUME Inv0, NEW k \in down
    PROVE  /\ Held(k) \in DOMAIN typed /\ typed[Held(k)].key = k /\ ~typed[Held(k)].up
           /\ \A i \in DOMAIN typed : typed[i].key = k /\ ~typed[i].up => i = Held(k)
<1>1. /\ Held(k) \in DOMAIN typed /\ typed[Held(k)].key = k /\ ~typed[Held(k)].up
  BY DEF Held, Inv0, Fingers
<1>2. DOMAIN typed \subseteq Nat
  BY DEF Inv0, TypeOK
<1> QED
  BY <1>1, <1>2 DEF Inv0, Fingers

LEMMA KeyUpTyped ==
    ASSUME Inv0, NEW k \in Keys, KeyUp(k)
    PROVE  /\ Inv0' /\ DOMAIN typed' = DOMAIN typed
           /\ \A i \in DOMAIN typed :
                 /\ typed'[i].key = typed[i].key /\ typed'[i].under = typed[i].under
                 /\ typed'[i].role = typed[i].role /\ typed'[i].holds = typed[i].holds
                 /\ typed'[i].up <=> (typed[i].up \/ i = Held(k))
<1> DEFINE over(i) == {j \in DOMAIN typed : i \in typed[j].under /\ typed[j].up}
<1>1. /\ k \in down /\ down' = down \ {k} /\ settling' = settling \cup {k}
      /\ record' = MakeEvent(k, FALSE, Held(k)) /\ pc' = "process"
      /\ UNCHANGED <<build, tapping_key, waiting_buffer, active, source, now>>
      /\ typed' = [i \in DOMAIN typed |->
                      IF i = Held(k) THEN [typed[i] EXCEPT !.up = TRUE, !.over = over(i)]
                      ELSE typed[i]]
  BY DEF KeyUp, NewRecord
<1>2. /\ \A i \in DOMAIN typed : typed[i] \in Press
      /\ DOMAIN typed \subseteq 1 .. MaxPresses /\ DOMAIN typed \subseteq 0 .. MaxPresses
      /\ \A i \in DOMAIN typed : typed[i].up \in BOOLEAN
  <2>1. \A i \in DOMAIN typed : typed[i] \in Press
    BY DEF Inv0, TypeOK
  <2>2. DOMAIN typed = 1 .. Len(typed) /\ Len(typed) \in Nat /\ Len(typed) <= MaxPresses
    BY DEF Inv0, TypeOK
  <2>3. \A i \in DOMAIN typed : typed[i].up \in BOOLEAN
    BY <2>1 DEF Press
  <2> QED
    BY <2>1, <2>2, <2>3, BoundAssumption
<1>h. /\ Held(k) \in DOMAIN typed /\ typed[Held(k)].key = k /\ ~typed[Held(k)].up
      /\ \A i \in DOMAIN typed : typed[i].key = k /\ ~typed[i].up => i = Held(k)
  BY <1>1, HeldIs
<1>3. \A i \in DOMAIN typed : over(i) \in SUBSET (1 .. MaxPresses)
  BY <1>2
<1>4. \A i \in DOMAIN typed :
         LET p == [typed[i] EXCEPT !.up = TRUE, !.over = over(i)]
         IN /\ p \in Press /\ p.key = typed[i].key /\ p.under = typed[i].under
            /\ p.role = typed[i].role /\ p.holds = typed[i].holds /\ p.up = TRUE
  <2> HIDE DEF over
  <2> QED
    BY <1>2, <1>3 DEF Press
<1>5. /\ DOMAIN typed' = DOMAIN typed /\ typed' = [i \in DOMAIN typed |-> typed'[i]]
      /\ \A i \in DOMAIN typed : typed'[i] \in Press
  <2> HIDE DEF over
  <2> QED
    BY <1>1, <1>2, <1>4
<1>6. \A i \in DOMAIN typed :
         /\ typed'[i].key = typed[i].key /\ typed'[i].under = typed[i].under
         /\ typed'[i].role = typed[i].role /\ typed'[i].holds = typed[i].holds
         /\ typed'[i].up <=> (typed[i].up \/ i = Held(k))
  <2> HIDE DEF over
  <2> QED
    BY <1>1, <1>2, <1>4, <1>h
<1>7. typed' \in Seq(Press) /\ Len(typed') = Len(typed)
  BY <1>5, TypedMapped DEF Inv0
<1>8. MakeEvent(k, FALSE, Held(k)) \in Record
  BY <1>2, <1>h DEF MakeEvent, Record, Inv0, TypeOK
<1>9. TypeOK'
  BY <1>1, <1>7, <1>8 DEF Inv0, TypeOK, WAITING_BUFFER_SIZE
<1>10. KeysKnown'
  BY <1>1 DEF KeysKnown, Inv0, IsTick, MakeEvent
<1>11. Fingers'
  <2>1. \A i \in DOMAIN typed' : ~typed'[i].up => typed'[i].key \in down'
    BY <1>1, <1>5, <1>6, <1>h DEF Inv0, Fingers
  <2>2. \A j \in down' : \E i \in DOMAIN typed' : typed'[i].key = j /\ ~typed'[i].up
    <3> SUFFICES ASSUME NEW j \in down'
                 PROVE  \E i \in DOMAIN typed' : typed'[i].key = j /\ ~typed'[i].up
      OBVIOUS
    <3>1. PICK i \in DOMAIN typed : typed[i].key = j /\ ~typed[i].up
      BY <1>1 DEF Inv0, Fingers
    <3> QED
      BY <1>1, <1>5, <1>6, <1>h, <3>1
  <2>3. \A i, j \in DOMAIN typed' : i < j /\ typed'[i].key = typed'[j].key => typed'[i].up
    BY <1>5, <1>6 DEF Inv0, Fingers
  <2> QED
    BY <2>1, <2>2, <2>3 DEF Fingers
<1> QED
  BY <1>5, <1>6, <1>9, <1>10, <1>11 DEF Inv0

LEMMA TickTyped ==
    ASSUME Inv0, NEW gap \in Gaps, Tick(gap)
    PROVE  /\ Inv0' /\ SamePresses
           /\ \A i \in DOMAIN typed :
                 typed'[i].role = typed[i].role /\ typed'[i].holds = typed[i].holds
<1> DEFINE held(i) == IF typed[i].up THEN typed[i].held
                      ELSE IF typed[i].held + gap > TAPPING_TERM THEN TAPPING_TERM
                      ELSE typed[i].held + gap
<1>1. /\ now' = (now + gap) % TimerRange /\ down' = down /\ settling' = {}
      /\ record' = [MakeEvent(NoKey, FALSE, 0) EXCEPT !.time = (now + gap) % TimerRange]
      /\ pc' = "process"
      /\ UNCHANGED <<build, tapping_key, waiting_buffer, active, source>>
      /\ typed' = [i \in DOMAIN typed |-> [typed[i] EXCEPT !.held = held(i)]]
  BY DEF Tick, NewRecord
<1>2. \A i \in DOMAIN typed : typed[i] \in Press
  BY DEF Inv0, TypeOK
<1>3. \A i \in DOMAIN typed : held(i) \in 0 .. TAPPING_TERM
  BY <1>2, TermAssumption DEF Press
<1>4. \A i \in DOMAIN typed :
         LET p == [typed[i] EXCEPT !.held = held(i)]
         IN /\ p \in Press /\ p.key = typed[i].key /\ p.under = typed[i].under
            /\ p.role = typed[i].role /\ p.holds = typed[i].holds /\ p.up = typed[i].up
  <2> HIDE DEF held
  <2> QED
    BY <1>2, <1>3 DEF Press
<1>5. /\ DOMAIN typed' = DOMAIN typed /\ typed' = [i \in DOMAIN typed |-> typed'[i]]
      /\ \A i \in DOMAIN typed :
            /\ typed'[i] \in Press /\ typed'[i].role = typed[i].role
            /\ typed'[i].holds = typed[i].holds
      /\ SamePresses
  <2> HIDE DEF held
  <2> QED
    BY <1>1, <1>4 DEF SamePresses
<1>6. typed' \in Seq(Press) /\ Len(typed') = Len(typed)
  BY <1>5, TypedMapped DEF Inv0
<1>7. now' \in 0 .. TimerRange - 1
  BY <1>1, TermAssumption DEF Inv0, TypeOK
<1>8. record' \in Record /\ ~record'.pressed
  <2>1. MakeEvent(NoKey, FALSE, 0) \in Record /\ ~MakeEvent(NoKey, FALSE, 0).pressed
    BY BoundAssumption DEF MakeEvent, Record, Inv0, TypeOK
  <2>2. record' = [MakeEvent(NoKey, FALSE, 0) EXCEPT !.time = now']
    BY <1>1
  <2> QED
    BY <1>7, <2>1, <2>2 DEF Record
<1>9. TypeOK'
  BY <1>1, <1>6, <1>7, <1>8 DEF Inv0, TypeOK, WAITING_BUFFER_SIZE
<1>10. KeysKnown'
  BY <1>1, <1>8 DEF KeysKnown, Inv0
<1>11. Fingers'
  <2>1. \A i \in DOMAIN typed : typed'[i].key = typed[i].key /\ typed'[i].up = typed[i].up
    BY <1>5 DEF SamePresses
  <2>2. DOMAIN typed' = DOMAIN typed /\ down' = down
    BY <1>1, <1>5
  <2> QED
    BY <2>1, <2>2 DEF Fingers, Inv0
<1> QED
  BY <1>5, <1>9, <1>10, <1>11 DEF Inv0

LEMMA OverflowTyped ==
    ASSUME Inv0, Overflow
    PROVE  /\ Inv0' /\ SamePresses
           /\ \A i \in DOMAIN typed :
                 /\ typed'[i].holds = typed[i].holds
                 /\ typed'[i].role = IF typed[i].role = "waiting" THEN "dropped" ELSE typed[i].role
<1>1. /\ waiting_buffer' = <<>> /\ tapping_key' = NoRecord /\ pc' = "drain"
      /\ record' = NoRecord /\ UNCHANGED <<build, now, down, settling>>
      /\ active' \subseteq active /\ source' = source
      /\ typed' = [i \in DOMAIN typed |-> IF typed[i].role = "waiting"
                                          THEN [typed[i] EXCEPT !.role = "dropped"]
                                          ELSE typed[i]]
  BY DEF Overflow, clear_keyboard, Return
<1>2. \A i \in DOMAIN typed : typed[i] \in Press
  BY DEF Inv0, TypeOK
<1>3. \A i \in DOMAIN typed :
         LET p == [typed[i] EXCEPT !.role = "dropped"]
         IN /\ p \in Press /\ p.key = typed[i].key /\ p.under = typed[i].under
            /\ p.role = "dropped" /\ p.holds = typed[i].holds /\ p.up = typed[i].up
  BY <1>2 DEF Press
<1>4. /\ DOMAIN typed' = DOMAIN typed /\ typed' = [i \in DOMAIN typed |-> typed'[i]]
      /\ \A i \in DOMAIN typed :
            /\ typed'[i] \in Press /\ typed'[i].holds = typed[i].holds
            /\ typed'[i].role = IF typed[i].role = "waiting" THEN "dropped" ELSE typed[i].role
      /\ SamePresses
  BY <1>1, <1>2, <1>3 DEF SamePresses
<1>5. typed' \in Seq(Press) /\ Len(typed') = Len(typed)
  BY <1>4, TypedMapped DEF Inv0
<1>6. EffectsTyped
  BY <1>1, <1>4, <1>5 DEF EffectsTyped, Inv0, TypeOK
<1>7. BufferTyped
  BY <1>1, NoRecordTyped, BuildTyped DEF BufferTyped, Inv0, TypeOK
<1> QED
  BY <1>1, <1>4, <1>6, <1>7, NoRecordTyped, StepTyped

LEMMA NextTyped ==
    ASSUME Inv0, [Next]_vars
    PROVE  Inv0'
<1>1. CASE \E k \in Keys : KeyDown(k) \/ KeyUp(k)
  BY <1>1, KeyDownTyped, KeyUpTyped
<1>2. CASE \E gap \in Gaps : Tick(gap)
  BY <1>2, TickTyped
<1>3. CASE \E r \in Called : Process(r)
  BY <1>3, ProcessTyped
<1>4. CASE Overflow
  BY <1>4, OverflowTyped
<1>5. CASE Drained \/ UNCHANGED vars
  <2>1. UNCHANGED <<build, tapping_key, waiting_buffer, now, record, active, source, down,
                    settling, typed>>
        /\ pc' \in {"ready", pc}
    BY <1>5 DEF Drained, vars
  <2> QED
    BY <2>1 DEF Inv0, TypeOK, KeysKnown, Fingers, WAITING_BUFFER_SIZE, IsTick
<1> QED
  BY <1>1, <1>2, <1>3, <1>4, <1>5 DEF Next

LEMMA InitTyped ==
    ASSUME Init
    PROVE  Inv0
<1>1. build \in Builds /\ Kind \in [Keys -> Kinds] /\ WAITING_BUFFER_SIZE \in Nat \ {0}
  BY BuildTyped DEF Init
<1>2. TypeOK
  BY <1>1, NoRecordTyped, TermAssumption, BoundAssumption DEF Init, TypeOK
<1> QED
  BY <1>2, NoRecordTyped DEF Init, Inv0, KeysKnown, Fingers, IsTick

\* process_tapping and its buffer keep their types, whatever the keymap, the
\* options and the sequence of key events: every record in the buffer and the
\* key that is decided are of real keys, the buffer stays below its size, and
\* process_record is only called with a key's record.
THEOREM Typed == Spec => []TypeOK
<1>1. Init => Inv0
  BY InitTyped
<1>2. Inv0 /\ [Next]_vars => Inv0'
  BY NextTyped
<1>3. Inv0 => TypeOK
  BY DEF Inv0
<1> QED
  BY <1>1, <1>2, <1>3, PTL DEF Spec

-----------------------------------------------------------------------------
(***************************************************************************)
(* The line of waiting events                                              *)
(*                                                                         *)
(* The key that is undecided, the buffer and the new record stand in one   *)
(* line, at the places 0, 1, 2, ...  A branch of process_tapping takes at  *)
(* most one event out of it and keeps the order of the others.             *)
(***************************************************************************)
Places ==
    {p \in 0 .. Len(waiting_buffer) + 1 :
        \/ p = 0 /\ Undecided
        \/ p \in 1 .. Len(waiting_buffer)
        \/ p = Len(waiting_buffer) + 1 /\ pc = "process" /\ ~IsTick(record)}

At(p) ==
    IF p = 0 THEN tapping_key
    ELSE IF p <= Len(waiting_buffer) THEN waiting_buffer[p] ELSE record

\* The event is the same; its count may differ.
Alike(r, s) ==
    s.key = r.key /\ s.pressed = r.pressed /\ s.time = r.time /\ s.press = r.press

\* The event at place p was at place g[p]; those at the places "gone" have left
\* the line and the ones at "marked" have become taps.  No other one is lost,
\* except in an overflow.
Carried(g, gone, marked) ==
    /\ g \in [Nat -> Nat] /\ \A p, q \in Nat : p < q => g[p] < g[q]
    /\ \A p \in Places' :
          /\ g[p] \in Places \ gone /\ Alike(At(g[p]), At(p)')
          /\ At(p)'.count = IF g[p] \in marked THEN 1 ELSE At(g[p]).count
    /\ pc' # "overflow" => \A q \in Places \ gone : \E p \in Places' : g[p] = q

Stay == [p \in Nat |-> p]
Shift == [p \in Nat |-> p + 1]
Pull == [p \in Nat |-> IF p = 0 THEN 0 ELSE p + 1]

LEMMA Maps ==
    \A g \in {Stay, Shift, Pull} :
        g \in [Nat -> Nat] /\ \A p, q \in Nat : p < q => g[p] < g[q]
<1>1. Stay \in [Nat -> Nat] /\ \A p, q \in Nat : p < q => Stay[p] < Stay[q]
  BY DEF Stay
<1>2. Shift \in [Nat -> Nat] /\ \A p, q \in Nat : p < q => Shift[p] < Shift[q]
  BY DEF Shift
<1>3. Pull \in [Nat -> Nat] /\ \A p, q \in Nat : p < q => Pull[p] < Pull[q]
  BY DEF Pull
<1> QED
  BY <1>1, <1>2, <1>3

LEMMA BufferTypes ==
    ASSUME Inv0
    PROVE  /\ waiting_buffer \in Seq(Record) /\ Len(waiting_buffer) \in Nat
           /\ DOMAIN waiting_buffer = 1 .. Len(waiting_buffer)
           /\ Places \subseteq Nat
           /\ \A p \in Places : At(p) \in Record
           /\ \A p \in Places : At(p).key \in Keys
<1>1. /\ waiting_buffer \in Seq(Record) /\ Len(waiting_buffer) \in Nat
      /\ DOMAIN waiting_buffer = 1 .. Len(waiting_buffer)
  BY DEF Inv0, TypeOK
<1>2. \A p \in Places : At(p) \in Record /\ At(p).key \in Keys
  <2> SUFFICES ASSUME NEW p \in Places PROVE At(p) \in Record /\ At(p).key \in Keys
    OBVIOUS
  <2>1. CASE p = 0
    BY <2>1, <1>1 DEF Places, At, Undecided, Inv0, TypeOK, KeysKnown
  <2>2. CASE p \in 1 .. Len(waiting_buffer)
    BY <2>2, <1>1 DEF At, Inv0, KeysKnown
  <2>3. CASE p = Len(waiting_buffer) + 1 /\ pc = "process" /\ ~IsTick(record)
    BY <2>3, <1>1, RecordFields DEF At, Inv0, TypeOK, IsTick
  <2> QED
    BY <1>1, <2>1, <2>2, <2>3 DEF Places
<1> QED
  BY <1>1, <1>2 DEF Places

\* A key event that is processed, refused or buffered comes from the line.
CalledAt == IF pc = "process" THEN Len(waiting_buffer) + 1 ELSE 1

LEMMA CalledPlace ==
    ASSUME Inv0, NEW r \in Called, ~IsTick(r)
    PROVE  CalledAt \in Places /\ CalledAt # 0 /\ At(CalledAt) = r
<1>1. CASE pc = "process" /\ r = record
  BY <1>1, BufferTypes DEF CalledAt, Places, At
<1>2. CASE pc = "drain" /\ waiting_buffer # <<>> /\ r = Head(waiting_buffer)
  BY <1>2, BufferTypes DEF CalledAt, Places, At
<1> QED
  BY <1>1, <1>2, CalledTyped

\* A new event goes to the end of an empty line unless a key is undecided.
Alone == pc = "process" /\ ~IsTick(record) /\ waiting_buffer # <<>> => Undecided

LEMMA NextPlaces ==
    ASSUME Inv0'
    PROVE  Places' \subseteq Nat
BY DEF Places, Inv0, TypeOK

LEMMA StayCarries ==
    ASSUME Inv0, Inv0', NEW gone, NEW marked,
           \A p \in Places' : /\ p \in Places \ gone /\ Alike(At(p), At(p)')
                              /\ At(p)'.count = IF p \in marked THEN 1 ELSE At(p).count,
           pc' # "overflow" => \A p \in Places \ gone : p \in Places'
    PROVE  Carried(Stay, gone, marked)
<1>1. \A p \in Places \cup Places' : Stay[p] = p
  BY BufferTypes, NextPlaces DEF Stay
<1> QED
  BY <1>1, Maps DEF Carried

LEMMA ShiftCarries ==
    ASSUME Inv0, Inv0', NEW gone, NEW marked, 0 \notin Places \ gone,
           \A p \in Places' :
               /\ p + 1 \in Places \ gone /\ Alike(At(p + 1), At(p)')
               /\ At(p)'.count = IF p + 1 \in marked THEN 1 ELSE At(p + 1).count,
           pc' # "overflow" => \A p \in Places \ gone : p - 1 \in Places'
    PROVE  Carried(Shift, gone, marked)
<1>1. \A p \in Places' : Shift[p] = p + 1
  BY NextPlaces DEF Shift
<1>2. ASSUME pc' # "overflow", NEW q \in Places \ gone PROVE \E p \in Places' : Shift[p] = q
  BY <1>1, <1>2, BufferTypes
<1> QED
  BY <1>1, <1>2, Maps DEF Carried

\* process_tapping returns false: the events keep their places.
LEMMA RefusedCarries ==
    ASSUME Inv0, Inv0', NEW r \in Called, NEW s \in Record, Alike(r, s), Refused(s),
           Undecided' => /\ Undecided /\ Alike(tapping_key, tapping_key')
                         /\ tapping_key'.count = tapping_key.count,
           NEW gone, gone = IF Undecided /\ ~Undecided' THEN {0} ELSE {},
           NEW marked,
           (marked = {} /\ s.count = r.count) \/ (marked = {CalledAt} /\ s.count = 1)
    PROVE  Carried(Stay, gone, marked)
<1> DEFINE n == Len(waiting_buffer)
<1>b. /\ waiting_buffer \in Seq(Record) /\ n \in Nat /\ DOMAIN waiting_buffer = 1 .. n
  BY BufferTypes
<1>n. IsTick(record') /\ pc' # "process"
  BY NoRecordTyped DEF Refused, Return, IsTick
<1>0. 0 \in Places' => /\ 0 \in Places \ gone /\ Alike(At(0), At(0)')
                       /\ At(0)'.count = At(0).count /\ 0 \notin marked
  BY <1>b DEF Places, At, CalledAt
<1>z. 0 \in Places \ gone => 0 \in Places'
  BY <1>b DEF Places, Inv0, TypeOK
<1>1. CASE UNCHANGED waiting_buffer /\ pc = "process" /\ (IsTick(s) \/ pc' = "overflow")
  <2>1. IsTick(s) => IsTick(record)
    BY <1>1, CalledTyped DEF Alike, IsTick
  <2>2. \A p \in Places' : p # 0 => p \in 1 .. n
    BY <1>1, <1>b, <1>n DEF Places
  <2>3. \A p \in 1 .. n : p \in Places /\ At(p)' = At(p) /\ p \notin gone /\ p \notin marked
    BY <1>1, <1>b DEF At, CalledAt, Places
  <2>4. \A p \in Places' : /\ p \in Places \ gone /\ Alike(At(p), At(p)')
                           /\ At(p)'.count = IF p \in marked THEN 1 ELSE At(p).count
    BY <1>0, <2>2, <2>3 DEF Alike
  <2>5. pc' # "overflow" => \A p \in Places \ gone : p # 0 => p \in 1 .. n
    BY <1>1, <2>1, <1>b DEF Places
  <2>6. \A p \in 1 .. n : p \in Places'
    BY <1>1, <1>b DEF Places
  <2> QED
    BY <1>z, <2>4, <2>5, <2>6, StayCarries
<1>2. CASE pc = "process" /\ ~IsTick(s) /\ pc' = "drain" /\ waiting_buffer' = Append(waiting_buffer, s)
  <2>1. r = record /\ ~IsTick(record) /\ CalledAt = n + 1
    BY <1>2, CalledTyped DEF Alike, IsTick, CalledAt
  <2>2. /\ Len(waiting_buffer') = n + 1
        /\ \A p \in 1 .. n : waiting_buffer'[p] = waiting_buffer[p]
        /\ waiting_buffer'[n + 1] = s
    BY <1>2, <1>b
  <2>3. \A p \in Places' : p # 0 => p \in 1 .. n + 1
    BY <1>n, <1>b, <2>2 DEF Places
  <2>4. \A p \in 1 .. n + 1 : p \in Places /\ p \in Places' /\ p \notin gone
    BY <1>2, <1>b, <2>1, <2>2 DEF Places
  <2>5. \A p \in 1 .. n : At(p)' = At(p) /\ p \notin marked
    BY <1>b, <2>1, <2>2 DEF At
  <2>6. \A p \in Nat : p = n + 1 => At(p)' = s /\ At(p) = r
    BY <1>b, <2>1, <2>2 DEF At
  <2>7. \A p \in Places' : /\ p \in Places \ gone /\ Alike(At(p), At(p)')
                           /\ At(p)'.count = IF p \in marked THEN 1 ELSE At(p).count
    BY <1>0, <1>b, <2>1, <2>3, <2>4, <2>5, <2>6 DEF Alike
  <2>8. \A p \in Places \ gone : p # 0 => p \in 1 .. n + 1
    BY <1>b DEF Places
  <2> QED
    BY <1>z, <2>4, <2>7, <2>8, StayCarries
<1>3. CASE pc = "drain" /\ pc' = "ready" /\ waiting_buffer' = <<s>> \o Tail(waiting_buffer)
  <2>1. r = Head(waiting_buffer) /\ n # 0 /\ CalledAt = 1
    BY <1>3, <1>b, CalledTyped DEF CalledAt
  <2>2. /\ Len(waiting_buffer') = n
        /\ \A p \in 1 .. n : waiting_buffer'[p] = IF p = 1 THEN s ELSE waiting_buffer[p]
    BY <1>3, <1>b, <2>1
  <2>3. \A p \in Places' : p # 0 => p \in 1 .. n
    BY <1>n, <1>b, <2>2 DEF Places
  <2>4. \A p \in 1 .. n : p \in Places /\ p \in Places' /\ p \notin gone
    BY <1>3, <1>b, <2>1, <2>2 DEF Places
  <2>5. \A p \in 1 .. n : p # 1 => At(p)' = At(p) /\ p \notin marked
    BY <1>b, <2>1, <2>2 DEF At
  <2>6. At(1)' = s /\ At(1) = r
    BY <1>b, <2>1, <2>2 DEF At
  <2>7. \A p \in Places' : /\ p \in Places \ gone /\ Alike(At(p), At(p)')
                           /\ At(p)'.count = IF p \in marked THEN 1 ELSE At(p).count
    BY <1>0, <1>b, <2>1, <2>3, <2>4, <2>5, <2>6 DEF Alike
  <2>8. \A p \in Places \ gone : p # 0 => p \in 1 .. n
    BY <1>3, <1>b DEF Places
  <2> QED
    BY <1>z, <2>4, <2>7, <2>8, StayCarries
<1> QED
  BY <1>1, <1>2, <1>3 DEF Refused

\* process_tapping returns true and no key was undecided: the event that it was
\* called with was the first one, and the others move up.
LEMMA ConsumedCarries ==
    ASSUME Inv0, Inv0', Alone, NEW r \in Called, ~IsTick(r), ~Undecided,
           NEW buffer \in Seq(Record), Len(buffer) = Len(waiting_buffer), ConsumedFrom(buffer),
           NEW gone, NEW marked,
           \/ Undecided' /\ Alike(r, tapping_key') /\ tapping_key'.count = r.count
              /\ gone = {} /\ CalledAt \notin marked
           \/ ~Undecided' /\ gone = {CalledAt},
           \A p \in 1 .. Len(buffer) :
               /\ Alike(waiting_buffer[p], buffer[p])
               /\ buffer[p].count = IF p \in marked THEN 1 ELSE waiting_buffer[p].count
    PROVE  /\ Carried(Shift, gone, marked)
           /\ \A p \in Places : CalledAt <= p
<1> DEFINE n == Len(waiting_buffer)
<1>b. /\ waiting_buffer \in Seq(Record) /\ n \in Nat /\ DOMAIN waiting_buffer = 1 .. n
  BY BufferTypes
<1>n. IsTick(record') /\ pc' = "drain"
  BY NoRecordTyped DEF ConsumedFrom, Return, IsTick
<1>1. CASE pc = "process"
  <2>1. n = 0 /\ r = record /\ CalledAt = 1
    BY <1>1, <1>b, CalledTyped DEF Alone, CalledAt
  <2>2. waiting_buffer' = buffer /\ Len(buffer) = 0
    BY <1>1, <2>1 DEF ConsumedFrom
  <2>3. \A p : p \in Places <=> p = 1
    BY <1>1, <2>1 DEF Places
  <2>4. \A p : p \in Places' <=> p = 0 /\ Undecided'
    BY <1>n, <2>2 DEF Places
  <2>5. At(1) = r /\ At(0)' = tapping_key'
    BY <2>1 DEF At
  <2> QED
    BY <2>1, <2>3, <2>4, <2>5, ShiftCarries
<1>2. CASE pc = "drain"
  <2>1. n # 0 /\ r = waiting_buffer[1] /\ CalledAt = 1
    BY <1>2, <1>b, CalledTyped DEF CalledAt
  <2>2. /\ Len(waiting_buffer') = n - 1
        /\ \A p \in 1 .. n - 1 : waiting_buffer'[p] = buffer[p + 1]
    BY <1>2, <1>b, <2>1 DEF ConsumedFrom
  <2>3. \A p : p \in Places <=> p \in 1 .. n
    BY <1>2, <1>b DEF Places
  <2>4. \A p : p \in Places' <=> (p = 0 /\ Undecided') \/ p \in 1 .. n - 1
    BY <1>n, <1>b, <2>1, <2>2 DEF Places
  <2>5. \A p \in 1 .. n : At(p) = waiting_buffer[p]
    BY <1>b DEF At
  <2>6. \A p \in 1 .. n - 1 : At(p)' = buffer[p + 1]
    BY <1>b, <2>2 DEF At
  <2>7. At(0)' = tapping_key'
    BY DEF At
  <2>8. \A p \in Places' :
           /\ p + 1 \in Places \ gone /\ Alike(At(p + 1), At(p)')
           /\ At(p)'.count = IF p + 1 \in marked THEN 1 ELSE At(p + 1).count
    <3> SUFFICES ASSUME NEW p \in Places'
                 PROVE  /\ p + 1 \in Places \ gone /\ Alike(At(p + 1), At(p)')
                        /\ At(p)'.count = IF p + 1 \in marked THEN 1 ELSE At(p + 1).count
      OBVIOUS
    <3>1. CASE p = 0 /\ Undecided'
      BY <1>b, <2>1, <2>3, <2>5, <2>7, <3>1
    <3>2. CASE p \in 1 .. n - 1
      BY <1>b, <2>1, <2>3, <2>5, <2>6, <3>2
    <3> QED
      BY <2>4, <3>1, <3>2
  <2>9. \A p \in Places \ gone : p - 1 \in Places'
    BY <1>b, <2>1, <2>3, <2>4
  <2>10. 0 \notin Places
    BY <1>b, <2>3
  <2>11. \A p \in Places : CalledAt <= p
    BY <1>b, <2>1, <2>3
  <2> QED
    BY <2>8, <2>9, <2>10, <2>11, ShiftCarries
<1> QED
  BY <1>1, <1>2, CalledTyped

\* The event of a key whose press is not in the buffer is taken although a key
\* is undecided.
LEMMA EarlierKeyCarries ==
    ASSUME Inv0, Inv0', NEW r \in Called, ReleaseOfEarlierKey(r)
    PROVE  \E g : Carried(g, {CalledAt}, {})
<1> DEFINE n == Len(waiting_buffer)
<1>b. /\ waiting_buffer \in Seq(Record) /\ n \in Nat /\ DOMAIN waiting_buffer = 1 .. n
  BY BufferTypes
<1>r. /\ ~IsTick(r) /\ Undecided /\ Undecided' /\ tapping_key' = tapping_key
      /\ ConsumedFrom(waiting_buffer)
  BY DEF ReleaseOfEarlierKey, Interrupted, Undecided, Consumed
<1>n. IsTick(record') /\ pc' = "drain"
  BY <1>r, NoRecordTyped DEF ConsumedFrom, Return, IsTick
<1>0. At(0)' = At(0)
  BY <1>r DEF At
<1>1. CASE pc = "process"
  <2>1. r = record /\ CalledAt = n + 1 /\ waiting_buffer' = waiting_buffer
    BY <1>1, <1>r, CalledTyped DEF CalledAt, ConsumedFrom
  <2>2. \A p : (p \in Places <=> p \in 0 .. n + 1) /\ (p \in Places' <=> p \in 0 .. n)
    BY <1>1, <1>b, <1>n, <1>r, <2>1 DEF Places
  <2>3. \A p \in 0 .. n : At(p)' = At(p)
    BY <1>0, <1>b, <2>1 DEF At
  <2>4. Carried(Stay, {CalledAt}, {})
    BY <1>b, <2>1, <2>2, <2>3, StayCarries DEF Alike
  <2> QED
    BY <2>4
<1>2. CASE pc = "drain"
  <2>1. n # 0 /\ CalledAt = 1
    BY <1>2, <1>b, CalledTyped DEF CalledAt
  <2>2. /\ Len(waiting_buffer') = n - 1
        /\ \A p \in 1 .. n - 1 : waiting_buffer'[p] = waiting_buffer[p + 1]
    BY <1>2, <1>b, <1>r, <2>1 DEF ConsumedFrom
  <2>3. \A p : (p \in Places <=> p \in 0 .. n) /\ (p \in Places' <=> p \in 0 .. n - 1)
    BY <1>2, <1>b, <1>n, <1>r, <2>1, <2>2 DEF Places
  <2>4. \A p \in 1 .. n - 1 : At(p)' = At(p + 1)
    BY <1>b, <2>2 DEF At
  <2>5. \A p \in 0 .. n - 1 : Pull[p] = (IF p = 0 THEN 0 ELSE p + 1) /\ At(p)' = At(Pull[p])
    BY <1>b, <1>0, <2>4 DEF Pull
  <2>6. \A p \in Places' : /\ Pull[p] \in Places \ {CalledAt} /\ Alike(At(Pull[p]), At(p)')
                           /\ At(p)'.count = At(Pull[p]).count
    BY <1>b, <2>1, <2>3, <2>5 DEF Alike
  <2>7. ASSUME NEW q \in Places \ {CalledAt} PROVE \E p \in Places' : Pull[p] = q
    <3>1. CASE q = 0
      BY <1>b, <2>1, <2>3, <2>5, <3>1
    <3>2. CASE q # 0
      <4>1. q - 1 \in Places' /\ Pull[q - 1] = q
        BY <1>b, <2>1, <2>3, <2>5, <3>2
      <4> QED
        BY <4>1
    <3> QED
      BY <3>1, <3>2
  <2>8. Carried(Pull, {CalledAt}, {})
    BY <2>6, <2>7, Maps DEF Carried
  <2> QED
    BY <2>8
<1> QED
  BY <1>1, <1>2, CalledTyped

\* Nothing happens to the line.
LEMMA SameCarries ==
    ASSUME Inv0, Inv0', waiting_buffer' = waiting_buffer,
           Undecided' <=> Undecided, Undecided => tapping_key' = tapping_key,
           \/ pc' = pc /\ record' = record
           \/ (pc = "process" => IsTick(record)) /\ pc' # "process"
    PROVE  Carried(Stay, {}, {})
<1> DEFINE n == Len(waiting_buffer)
<1>b. /\ waiting_buffer \in Seq(Record) /\ n \in Nat
  BY BufferTypes
<1>1. \A p : p \in Places' <=> p \in Places
  BY <1>b DEF Places, IsTick
<1>2. \A p \in Places : At(p)' = At(p)
  BY <1>b DEF At, Places, IsTick
<1> QED
  BY <1>1, <1>2, StayCarries DEF Alike

\* A press in the line has not been processed.
Pressed ==
    \A p \in Places : At(p).pressed =>
        /\ At(p).press \in DOMAIN typed /\ typed[At(p).press].role = "waiting"
        /\ At(p).count = 0

-----------------------------------------------------------------------------
(***************************************************************************)
(* What a branch of process_tapping does                                   *)
(***************************************************************************)
\* A second tap stays until its release; no other key becomes a tap.
LongTapKept == TapHeld /\ tapping_key.count > 1 => tapping_key' = tapping_key
NoOtherTap == TapHeld' => TapHeld /\ tapping_key' = tapping_key

\* The event at place m is a release of the key t, in time.
TapAt(m, t) ==
    /\ m \in Places /\ At(m).key = t.key /\ ~At(m).pressed
    /\ (At(m).time - t.time) % TimerRange < TAPPING_TERM

\* No event is processed.
Silent ==
    /\ \E g : Carried(g, {}, {})
    /\ NothingProcessed /\ LongTapKept /\ NoOtherTap

\* The press at place p, the first one, is processed as the record s: it is no
\* tap; or a tap whose release is marked; or a second tap.
PressTaken(p, s, marked) ==
    /\ p \in Places /\ At(p).pressed /\ \A q \in Places : p <= q
    /\ Alike(At(p), s) /\ process_record(s)
    /\ \E g : Carried(g, {p}, marked)
    /\ LongTapKept
    /\ \/ /\ s.count = At(p).count /\ marked = {} /\ (Undecided \/ ~is_tap_record(At(p)))
          /\ NoOtherTap
       \/ /\ s.count = 1 /\ tapping_key' = s
          /\ \E m : /\ marked = {m} /\ TapAt(m, s)
                    /\ \/ \A q \in Places : TapAt(q, s) => m <= q
                       \/ Undecided /\ m = CalledAt
       \/ s.count > 1 /\ marked = {} /\ tapping_key' = s /\ TapReleased /\ IsTapping(s)

\* The release at place p is processed as the record s.  The press of its key
\* is not in the line before it; when other events are, they wait for a key that
\* is undecided and the release need not be retained.
ReleaseTaken(p, s) ==
    /\ p \in Places /\ ~At(p).pressed
    /\ \A q \in Places : q < p /\ At(q).pressed => At(q).key # At(p).key
    /\ Alike(At(p), s) /\ process_record(s)
    /\ \E g : Carried(g, {p}, {})
    /\ (\A q \in Places : p <= q) \/ ~Retained(At(p))
    /\ NoOtherTap
    /\ \/ TapHeld /\ IsTapping(s) /\ s.count = tapping_key.count /\ ~TapHeld'
       \/ ~(TapHeld /\ IsTapping(s)) /\ s.count = At(p).count /\ LongTapKept

\* The second tap is released before another tap key is decided.
LastTapReleased ==
    /\ Carried(Stay, {}, {})
    /\ TapHeld /\ tapping_key.count > 1 /\ tapping_key' = NoRecord
    /\ process_record([tapping_key EXCEPT !.pressed = FALSE])

Shape ==
    \/ Silent
    \/ \E p \in Places, s \in Record : \E marked : PressTaken(p, s, marked)
    \/ \E p \in Places, s \in Record : ReleaseTaken(p, s)
    \/ LastTapReleased

\* The record of a press or a release, with another count.
LEMMA AlikeChanged ==
    ASSUME NEW r \in Record, NEW c, NEW b
    PROVE  /\ Alike(r, r)
           /\ Alike(r, [r EXCEPT !.count = c]) /\ [r EXCEPT !.count = c].count = c
           /\ Alike(r, [r EXCEPT !.interrupted = b]) /\ [r EXCEPT !.interrupted = b].count = r.count
           /\ Alike(r, [r EXCEPT !.count = c, !.interrupted = b])
           /\ [r EXCEPT !.count = c, !.interrupted = b].count = c
BY DEF Record, Alike

LEMMA MarkedAlike ==
    ASSUME NEW r \in Record
    PROVE  /\ [r EXCEPT !.count = 1] \in Record
           /\ Alike(r, [r EXCEPT !.count = 1]) /\ [r EXCEPT !.count = 1].count = 1
<1>1. TRUE \in BOOLEAN
  OBVIOUS
<1> QED
  BY <1>1, RecordMarked, AlikeChanged

LEMMA NoRecordDecided ==
    /\ NoRecord.count = 0
    /\ tapping_key' = NoRecord => ~Undecided' /\ ~TapHeld'
BY NoRecordTyped DEF Undecided, TapHeld, NoRecord

\* Start, StartAnother, StartOther and StartAgain: the key waits at place 0.
LEMMA StartShape ==
    ASSUME Inv0, Inv0', Alone, Pressed, NEW r \in Called, ~IsTick(r), r.pressed, ~Undecided,
           tapping_key' = r, NothingProcessed, Consumed, ~(TapHeld /\ tapping_key.count > 1)
    PROVE  Silent
<1>1. r.count = 0 /\ r # NoRecord
  BY CalledPlace, NoRecordTyped DEF Pressed, IsTick
<1>2. Undecided'
  BY <1>1 DEF Undecided
<1>3. waiting_buffer \in Seq(Record) /\ ConsumedFrom(waiting_buffer)
  BY BufferTypes DEF Consumed
<1>4. Alike(r, tapping_key') /\ tapping_key'.count = r.count
  BY DEF Alike
<1>5. Carried(Shift, {}, {})
  BY <1>2, <1>3, <1>4, ConsumedCarries DEF Alike
<1>6. NoOtherTap
  BY <1>1 DEF NoOtherTap, TapHeld
<1> QED
  BY <1>5, <1>6 DEF Silent, LongTapKept

\* The same with the release in the buffer.
LEMMA ScanShape ==
    ASSUME Inv0, Inv0', Alone, Pressed, NEW r \in Called, is_tap_record(r), r.pressed, ~Undecided,
           StartTapping(r), TapsWaiting(r) # {}, ~(TapHeld /\ tapping_key.count > 1)
    PROVE  Shape
<1> DEFINE s == [r EXCEPT !.count = 1]
           m == First(TapsWaiting(r))
           buffer == [waiting_buffer EXCEPT ![m].count = 1]
           n == Len(waiting_buffer)
<1>1. r \in Record /\ ~IsTick(r) /\ s \in Record /\ Alike(r, s) /\ s.count = 1
  BY CalledTyped, MarkedAlike DEF is_tap_record, IsTick
<1>2. tapping_key' = s /\ process_record(s) /\ ConsumedFrom(buffer)
  BY DEF StartTapping
<1>3. /\ buffer \in Seq(Record) /\ Len(buffer) = n /\ DOMAIN buffer = DOMAIN waiting_buffer
      /\ \A p \in DOMAIN buffer :
            buffer[p] = IF p = m THEN [waiting_buffer[p] EXCEPT !.count = 1] ELSE waiting_buffer[p]
  BY ScanTyped
<1>4. m \in TapsWaiting(r) /\ \A i \in TapsWaiting(r) : m <= i
  BY TapsWaitingTyped
<1>5. waiting_buffer \in Seq(Record) /\ n \in Nat /\ DOMAIN waiting_buffer = 1 .. n
  BY BufferTypes
<1>p. CalledAt \in Places /\ At(CalledAt) = r
  BY <1>1, CalledPlace
<1> HIDE DEF s, m, buffer
<1>6. ~Undecided' /\ ~Undecided
  BY <1>1, <1>2 DEF Undecided
<1>7. \A p \in 1 .. Len(buffer) :
         /\ Alike(waiting_buffer[p], buffer[p])
         /\ buffer[p].count = IF p \in {m} THEN 1 ELSE waiting_buffer[p].count
  <2>1. \A p \in 1 .. n : waiting_buffer[p] \in Record
    BY <1>5
  <2> SUFFICES ASSUME NEW p \in 1 .. n
               PROVE  /\ Alike(waiting_buffer[p], buffer[p])
                      /\ buffer[p].count = IF p = m THEN 1 ELSE waiting_buffer[p].count
    BY <1>3
  <2>2. CASE p = m
    BY <1>3, <1>5, <2>1, <2>2, MarkedAlike
  <2>3. CASE p # m
    BY <1>3, <1>5, <2>3 DEF Alike
  <2> QED
    BY <2>2, <2>3
<1>8. Carried(Shift, {CalledAt}, {m}) /\ \A p \in Places : CalledAt <= p
  BY <1>1, <1>2, <1>3, <1>6, <1>7, ConsumedCarries
<1>9. pc = "drain"
  <2>1. m \in 1 .. n
    BY <1>4, <1>5 DEF TapsWaiting
  <2> QED
    BY <2>1, <1>1, <1>5, CalledTyped DEF Alone
<1>10. \A q : TapAt(q, s) <=> q \in TapsWaiting(r)
  <2>1. \A q \in Places : q \in 1 .. n /\ At(q) = waiting_buffer[q]
    BY <1>5, <1>6, <1>9 DEF Places, At
  <2>2. \A q \in 1 .. n : q \in Places
    BY <1>5 DEF Places
  <2> QED
    BY <1>1, <1>5, <2>1, <2>2 DEF TapAt, TapsWaiting, Alike
<1>11. PressTaken(CalledAt, s, {m})
  BY <1>1, <1>2, <1>p, <1>4, <1>8, <1>10 DEF PressTaken, LongTapKept
<1> QED
  BY <1>1, <1>11, <1>p DEF Shape

\* PassOn, PassOnAfterTap, PassOnReleased, TapRelease and QuickTap take the first
\* event.
LEMMA TakenFirst ==
    ASSUME Inv0, Inv0', Alone, NEW r \in Called, ~IsTick(r), ~Undecided, ~Undecided', Consumed
    PROVE  /\ \E g : Carried(g, {CalledAt}, {})
           /\ CalledAt \in Places /\ At(CalledAt) = r /\ \A p \in Places : CalledAt <= p
           /\ \A p \in Places : ~(p < CalledAt)
<1>1. waiting_buffer \in Seq(Record) /\ ConsumedFrom(waiting_buffer)
  BY BufferTypes DEF Consumed
<1>2. Carried(Shift, {CalledAt}, {}) /\ \A p \in Places : CalledAt <= p
  BY <1>1, ConsumedCarries DEF Alike
<1>3. CalledAt \in Nat /\ Places \subseteq Nat
  BY BufferTypes, CalledPlace
<1> QED
  BY <1>2, <1>3, CalledPlace

LEMMA HoldShape ==
    ASSUME Inv0, Inv0', NEW r \in Called, Undecided, HoldNow(r)
    PROVE  PressTaken(0, tapping_key, {})
<1>1. tapping_key' = NoRecord /\ process_record(tapping_key) /\ Refused(r) /\ ~Undecided'
  BY NoRecordDecided DEF HoldNow
<1>2. r \in Record /\ Alike(r, r)
  BY CalledTyped DEF Alike
<1>3. Carried(Stay, {0}, {})
  <2>1. \A s \in Record : \A gone, marked :
           Alike(r, s) /\ Refused(s) /\ gone = {0} /\ marked = {} /\ s.count = r.count
               => Carried(Stay, gone, marked)
    BY <1>1, RefusedCarries
  <2> QED
    BY <1>1, <1>2, <2>1
<1>4. 0 \in Places /\ At(0) = tapping_key /\ Places \subseteq Nat
  BY BufferTypes DEF Places, At
<1>5. ~TapHeld
  BY DEF Undecided, TapHeld
<1>6. tapping_key.pressed /\ Alike(tapping_key, tapping_key)
  BY DEF Undecided, Alike
<1> QED
  BY <1>1, <1>3, <1>4, <1>5, <1>6, NoRecordDecided DEF PressTaken, LongTapKept, NoOtherTap

LEMMA FirstTapShape ==
    ASSUME Inv0, Inv0', NEW r \in Called, FirstTap(r)
    PROVE  \E s \in Record : PressTaken(0, s, {CalledAt})
<1> DEFINE s == [tapping_key EXCEPT !.count = 1]
           t == [r EXCEPT !.count = 1, !.interrupted = tapping_key.interrupted]
<1>1. /\ Undecided /\ Within(r) /\ IsTapping(r) /\ ~r.pressed
      /\ tapping_key' = s /\ process_record(s) /\ Refused(t)
  BY DEF FirstTap
<1>2. s \in Record /\ Alike(tapping_key, s) /\ s.count = 1
  BY MarkedAlike DEF Inv0, TypeOK
<1>3. t \in Record /\ Alike(r, t) /\ t.count = 1 /\ r \in Record
  <2>1. r \in Record /\ tapping_key.interrupted \in BOOLEAN
    BY CalledTyped, RecordFields DEF Inv0, TypeOK
  <2>2. t \in Record
    BY <2>1, RecordMarked
  <2>3. Alike(r, t) /\ t.count = 1
    BY <2>1 DEF Alike, Record
  <2> QED
    BY <2>1, <2>2, <2>3
<1>4. ~IsTick(r)
  BY <1>1, BuildAssumption DEF IsTapping, IsTick, Undecided, Inv0, KeysKnown
<1>p. CalledAt \in Places /\ At(CalledAt) = r
  BY <1>4, CalledPlace
<1> HIDE DEF s, t
<1>5. ~Undecided'
  BY <1>1, <1>2 DEF Undecided
<1>6. Carried(Stay, {0}, {CalledAt})
  BY <1>1, <1>3, <1>5, RefusedCarries
<1>7. 0 \in Places /\ At(0) = tapping_key /\ Places \subseteq Nat
  BY <1>1, BufferTypes DEF Places, At
<1>8. ~TapHeld /\ tapping_key.pressed
  BY <1>1 DEF Undecided, TapHeld
<1>9. TapAt(CalledAt, s)
  BY <1>1, <1>2, <1>p DEF TapAt, Alike, Within, Elapsed, IsTapping
<1> QED
  BY <1>1, <1>2, <1>6, <1>7, <1>8, <1>9 DEF PressTaken, LongTapKept

LEMMA RefusedShape ==
    ASSUME Inv0, Inv0', NEW r \in Called, NothingProcessed, Refused(r), ~TapHeld,
           Undecided' <=> Undecided,
           Undecided => Alike(tapping_key, tapping_key') /\ tapping_key'.count = tapping_key.count,
           ~TapHeld'
    PROVE  Silent
<1>1. r \in Record /\ Alike(r, r)
  BY CalledTyped DEF Alike
<1>2. \A s \in Record : \A gone, marked :
         Alike(r, s) /\ Refused(s) /\ gone = {} /\ marked = {} /\ s.count = r.count
             => Carried(Stay, gone, marked)
  BY RefusedCarries
<1>3. Carried(Stay, {}, {})
  BY <1>1, <1>2
<1> QED
  BY <1>3 DEF Silent, LongTapKept, NoOtherTap

\* PassOn, PassOnAfterTap, PassOnReleased.
LEMMA PassOnShape ==
    ASSUME Inv0, Inv0', Alone, NEW r \in Called, ~IsTick(r), ~Undecided, ~Undecided',
           process_record(r), Consumed, LongTapKept, NoOtherTap,
           ~(r.pressed /\ is_tap_record(r)), ~(TapHeld /\ IsTapping(r) /\ ~r.pressed)
    PROVE  Shape
<1>1. /\ \E g : Carried(g, {CalledAt}, {})
      /\ CalledAt \in Places /\ At(CalledAt) = r /\ \A p \in Places : CalledAt <= p
      /\ \A p \in Places : ~(p < CalledAt)
  BY TakenFirst
<1>2. r \in Record /\ Alike(r, r)
  BY CalledTyped DEF Alike
<1>3. CASE r.pressed
  <2>1. PressTaken(CalledAt, r, {})
    BY <1>1, <1>2, <1>3 DEF PressTaken
  <2> QED
    BY <1>1, <1>2, <2>1 DEF Shape
<1>4. CASE ~r.pressed
  <2>1. ReleaseTaken(CalledAt, r)
    BY <1>1, <1>2, <1>4 DEF ReleaseTaken
  <2> QED
    BY <1>1, <1>2, <2>1 DEF Shape
<1> QED
  BY <1>3, <1>4

LEMMA EarlierKeyShape ==
    ASSUME Inv0, Inv0', NEW r \in Called, ReleaseOfEarlierKey(r)
    PROVE  ReleaseTaken(CalledAt, r) /\ r \in Record /\ CalledAt \in Places
<1>1. /\ Undecided /\ ~IsTick(r) /\ ~r.pressed /\ ~IsTapping(r) /\ ~waiting_buffer_typed(r)
      /\ ~Retained(r) /\ process_record(r) /\ tapping_key' = tapping_key
  BY DEF ReleaseOfEarlierKey, Interrupted
<1>2. CalledAt \in Places /\ At(CalledAt) = r
  BY <1>1, CalledPlace
<1>3. \E g : Carried(g, {CalledAt}, {})
  BY EarlierKeyCarries
<1>4. \A q \in Places : q < CalledAt /\ At(q).pressed => At(q).key # r.key
  <2> SUFFICES ASSUME NEW q \in Places, q < CalledAt, At(q).pressed PROVE At(q).key # r.key
    OBVIOUS
  <2>1. CASE q = 0
    BY <1>1, <2>1 DEF At, IsTapping
  <2>2. CASE q # 0
    <3>1. Len(waiting_buffer) \in Nat /\ DOMAIN waiting_buffer = 1 .. Len(waiting_buffer)
      BY BufferTypes
    <3>2. q \in 1 .. Len(waiting_buffer) /\ At(q) = waiting_buffer[q]
      BY <2>2, <3>1 DEF CalledAt, Places, At
    <3> QED
      BY <1>1, <3>1, <3>2 DEF waiting_buffer_typed
  <2> QED
    BY <2>1, <2>2
<1>5. r \in Record /\ Alike(r, r)
  BY CalledTyped DEF Alike
<1> QED
  BY <1>1, <1>2, <1>3, <1>4, <1>5 DEF ReleaseTaken, LongTapKept, NoOtherTap, TapHeld

LEMMA ProcessShape ==
    ASSUME Inv0, Inv0', Alone, Pressed, NEW r \in Called, Process(r)
    PROVE  Shape
<1>r. /\ r \in Record /\ r.pressed \in BOOLEAN /\ (pc = "drain" => ~IsTick(r))
      /\ (pc = "process" => r = record) /\ pc \in {"process", "drain"}
  BY CalledTyped, RecordFields, BuildAssumption DEF IsTick
<1>t. /\ tapping_key \in Record /\ tapping_key.count \in 0 .. 15
      /\ tapping_key.interrupted \in BOOLEAN /\ tapping_key.pressed \in BOOLEAN
  BY RecordFields DEF Inv0, TypeOK
<1>k. is_tap_record(r) => ~IsTick(r)
  BY DEF is_tap_record, IsTick
<1>i. tapping_key # NoRecord /\ IsTapping(r) => ~IsTick(r)
  BY BuildAssumption DEF IsTapping, IsTick, Inv0, KeysKnown
<1>u. /\ TapHeld => ~Undecided
      /\ TapReleased => ~Undecided /\ ~TapHeld
      /\ tapping_key = NoRecord => ~Undecided /\ ~TapHeld
      /\ Undecided => ~TapHeld
  BY <1>t DEF TapHeld, TapReleased, Undecided
<1>0. ASSUME NEW b \in BOOLEAN, tapping_key' = [tapping_key EXCEPT !.interrupted = b],
             tapping_key # NoRecord
      PROVE  /\ Alike(tapping_key, tapping_key') /\ tapping_key'.count = tapping_key.count
             /\ Undecided => Undecided' /\ ~TapHeld'
             /\ TapReleased => ~Undecided' /\ ~TapHeld'
  <2>1. Alike(tapping_key, tapping_key') /\ tapping_key'.count = tapping_key.count
    BY <1>0, <1>t, AlikeChanged
  <2>2. tapping_key.pressed => tapping_key' # NoRecord
    BY <2>1, NoRecordTyped DEF Alike
  <2> QED
    BY <1>t, <2>1, <2>2 DEF Undecided, TapReleased, TapHeld, Alike
<1>1. CASE Ignore(r)
  <2>1. Carried(Stay, {}, {})
    <3>1. /\ IsTick(record) /\ waiting_buffer' = waiting_buffer /\ tapping_key' = tapping_key
          /\ pc' = "drain"
      BY <1>1, <1>r DEF Ignore, Consumed, ConsumedFrom
    <3> QED
      BY <3>1, SameCarries DEF Undecided
  <2> QED
    BY <1>1, <2>1 DEF Ignore, Shape, Silent, LongTapKept, NoOtherTap, TapHeld
<1>2. CASE Start(r) \/ StartAnother(r) \/ StartOther(r)
  <2>1. /\ StartTapping(r) /\ is_tap_record(r) /\ r.pressed /\ ~Undecided
        /\ ~(TapHeld /\ tapping_key.count > 1)
    BY <1>2, <1>u DEF Start, StartAnother, StartOther
  <2>2. CASE TapsWaiting(r) = {}
    <3>1. tapping_key' = r /\ NothingProcessed /\ Consumed
      BY <2>1, <2>2 DEF StartTapping
    <3> QED
      BY <1>k, <2>1, <3>1, StartShape DEF Shape
  <2>3. CASE TapsWaiting(r) # {}
    BY <2>1, <2>3, ScanShape
  <2> QED
    BY <2>2, <2>3
<1>3. CASE PassOn(r) \/ PassOnAfterTap(r)
  <2>1. /\ ~IsTick(r) /\ process_record(r) /\ Consumed /\ tapping_key' = tapping_key /\ ~Undecided
        /\ ~(r.pressed /\ is_tap_record(r)) /\ ~(TapHeld /\ IsTapping(r) /\ ~r.pressed)
    BY <1>3, <1>u DEF PassOn, PassOnAfterTap
  <2> QED
    BY <2>1, PassOnShape DEF LongTapKept, NoOtherTap, Undecided, TapHeld
<1>4. CASE FirstTap(r)
  <2>1. 0 \in Places
    BY <1>4, BufferTypes DEF FirstTap, Places
  <2> QED
    BY <1>4, <2>1, FirstTapShape DEF Shape
<1>5. CASE HoldWhenTyped(r) \/ HoldWhenPressed(r) \/ Timeout(r)
  <2>1. Undecided /\ HoldNow(r)
    BY <1>5 DEF HoldWhenTyped, HoldWhenPressed, Timeout, Interrupted
  <2>2. 0 \in Places
    BY <2>1, BufferTypes DEF Places
  <2> QED
    BY <1>t, <2>1, <2>2, HoldShape DEF Shape
<1>6. CASE ReleaseOfEarlierKey(r)
  BY <1>6, EarlierKeyShape DEF Shape
<1>7. CASE Wait(r)
  <2>1. /\ Undecided /\ tapping_key # NoRecord /\ NothingProcessed /\ Refused(r)
        /\ tapping_key' = [tapping_key EXCEPT !.interrupted = @ \/ r.pressed]
    BY <1>7 DEF Wait, Interrupted, Undecided
  <2>2. /\ Undecided' /\ ~TapHeld' /\ Alike(tapping_key, tapping_key')
        /\ tapping_key'.count = tapping_key.count
    BY <1>0, <1>r, <1>t, <2>1
  <2> QED
    BY <1>u, <2>1, <2>2, RefusedShape DEF Shape
<1>8. CASE TapRelease(r)
  <2> DEFINE released == [r EXCEPT !.count = tapping_key.count,
                                   !.interrupted = tapping_key.interrupted]
  <2>1. /\ TapHeld /\ IsTapping(r) /\ ~r.pressed /\ ~IsTick(r) /\ ~Undecided
        /\ process_record(released) /\ Consumed
        /\ tapping_key' = released \/ tapping_key' = NoRecord
    BY <1>8, <1>i, <1>u DEF TapRelease, TapHeld
  <2>2. released \in Record
    BY <1>r, <1>t, RecordChanged
  <2>3. Alike(r, released) /\ released.count = tapping_key.count
    BY <1>r DEF Alike, Record
  <2> HIDE DEF released
  <2>4. ~Undecided' /\ ~TapHeld'
    BY <2>1, <2>3, NoRecordDecided DEF Undecided, TapHeld, Alike
  <2>5. /\ \E g : Carried(g, {CalledAt}, {})
        /\ CalledAt \in Places /\ At(CalledAt) = r /\ \A p \in Places : CalledAt <= p
        /\ \A p \in Places : ~(p < CalledAt)
    BY <2>1, <2>4, TakenFirst
  <2>6. ReleaseTaken(CalledAt, released)
    BY <2>1, <2>3, <2>4, <2>5 DEF ReleaseTaken, IsTapping, Alike, NoOtherTap
  <2> QED
    BY <2>2, <2>5, <2>6 DEF Shape
<1>9. CASE ReleaseLastTap(r)
  <2>1. /\ TapHeld /\ tapping_key.count > 1 /\ tapping_key' = NoRecord
        /\ process_record([tapping_key EXCEPT !.pressed = FALSE])
        /\ waiting_buffer' = waiting_buffer /\ pc' = pc /\ record' = record
    BY <1>9 DEF ReleaseLastTap
  <2>2. Carried(Stay, {}, {})
    BY <1>u, <2>1, NoRecordDecided, SameCarries
  <2> QED
    BY <2>1, <2>2 DEF Shape, LastTapReleased
<1>10. CASE QuickTap(r)
  <2> DEFINE c == IF tapping_key.count < 15 THEN tapping_key.count + 1 ELSE 15
             again == [r EXCEPT !.count = c]
  <2>1. /\ TapReleased /\ IsTapping(r) /\ r.pressed /\ ~IsTick(r) /\ ~Undecided
        /\ tapping_key.count > 0
        /\ process_record(again) /\ tapping_key' = again /\ Consumed
    BY <1>10, <1>i, <1>u DEF QuickTap, TapReleased
  <2>2. c \in 0 .. 15 /\ c > 1
    BY <1>t, <2>1
  <2> HIDE DEF c
  <2>3. again \in Record /\ Alike(r, again) /\ again.count = c
    BY <1>r, <2>2, RecordChanged, AlikeChanged
  <2> HIDE DEF again
  <2>4. ~Undecided'
    BY <2>1, <2>2, <2>3 DEF Undecided
  <2>5. /\ \E g : Carried(g, {CalledAt}, {})
        /\ CalledAt \in Places /\ At(CalledAt) = r /\ \A p \in Places : CalledAt <= p
    BY <2>1, <2>4, TakenFirst
  <2>6. PressTaken(CalledAt, again, {})
    BY <1>u, <2>1, <2>2, <2>3, <2>5 DEF PressTaken, IsTapping, Alike, LongTapKept
  <2> QED
    BY <2>3, <2>5, <2>6 DEF Shape
<1>11. CASE StartAgain(r)
  <2>1. /\ r.pressed /\ ~IsTick(r) /\ ~Undecided /\ ~TapHeld
        /\ tapping_key' = r /\ NothingProcessed /\ Consumed
    BY <1>11, <1>i, <1>u DEF StartAgain, TapReleased
  <2> QED
    BY <2>1, StartShape DEF Shape
<1>12. CASE PassOnReleased(r)
  <2>1. /\ ~IsTick(r) /\ process_record(r) /\ Consumed /\ ~Undecided /\ ~TapHeld
        /\ ~(r.pressed /\ is_tap_record(r)) /\ tapping_key # NoRecord /\ TapReleased
        /\ tapping_key' = [tapping_key EXCEPT !.interrupted = @ \/ r.pressed]
    BY <1>12, <1>u DEF PassOnReleased, TapReleased
  <2>2. ~Undecided' /\ ~TapHeld'
    BY <1>0, <1>r, <1>t, <2>1
  <2> QED
    BY <2>1, <2>2, PassOnShape DEF LongTapKept, NoOtherTap
<1>13. CASE Reset(r)
  <2>1. tapping_key' = NoRecord /\ NothingProcessed /\ Refused(r) /\ ~Undecided /\ ~TapHeld
    BY <1>13, <1>u DEF Reset
  <2> QED
    BY <2>1, NoRecordDecided, RefusedShape DEF Shape
<1> QED
  BY <1>1, <1>2, <1>3, <1>4, <1>5, <1>6, <1>7, <1>8, <1>9, <1>10, <1>11, <1>12, <1>13 DEF Process

-----------------------------------------------------------------------------
(***************************************************************************)
(* Presses in order                                                        *)
(***************************************************************************)
\* process_record of a press and of a release.
LEMMA PressEffect ==
    ASSUME Inv0, NEW s \in Record, s.key \in Keys, s.pressed, process_record(s)
    PROVE  LET role == Role(CurrentKind(s.key), s.count)
           IN /\ role \in {"code", "hold"}
              /\ active' = active \cup {<<s.key, role>>}
              /\ source' = [source EXCEPT ![s.key] = CurrentKind(s.key)]
              /\ SamePresses
              /\ \A i \in DOMAIN typed : i # s.press => typed'[i] = typed[i]
              /\ \A i \in DOMAIN typed : i = s.press => typed'[i].role = role /\ typed'[i].holds = Holds
<1> DEFINE role == Role(CurrentKind(s.key), s.count)
<1>1. role \in {"code", "hold"}
  BY DEF Role
<1>2. /\ active' = active \cup {<<s.key, role>>}
      /\ source' = [source EXCEPT ![s.key] = CurrentKind(s.key)]
      /\ typed' = Settle(s, role)
  BY DEF process_record
<1>3. EffectsTyped
  BY ProcessedTyped DEF Inv0
<1>4. \A i \in DOMAIN typed : typed[i] \in Press
  BY DEF Inv0, TypeOK
<1> HIDE DEF role
<1>5. \A i \in DOMAIN typed :
         typed'[i] = IF i = s.press THEN [typed[i] EXCEPT !.role = role, !.holds = Holds]
                     ELSE typed[i]
  BY <1>1, <1>2, SettleTyped DEF Inv0
<1>6. \A i \in DOMAIN typed :
         LET p == [typed[i] EXCEPT !.role = role, !.holds = Holds]
         IN p.role = role /\ p.holds = Holds
  BY <1>4 DEF Press
<1>7. ASSUME NEW i \in DOMAIN typed
      PROVE  /\ i # s.press => typed'[i] = typed[i]
             /\ i = s.press => typed'[i].role = role /\ typed'[i].holds = Holds
  <2> DEFINE p == [typed[i] EXCEPT !.role = role, !.holds = Holds]
  <2>1. typed'[i] = IF i = s.press THEN p ELSE typed[i]
    BY <1>5
  <2>2. p.role = role /\ p.holds = Holds
    BY <1>6
  <2> HIDE DEF p
  <2> QED
    BY <2>1, <2>2
<1>8. SamePresses
  BY <1>3 DEF EffectsTyped
<1> QED
  BY <1>1, <1>2, <1>7, <1>8 DEF role

LEMMA ReleaseEffect ==
    ASSUME Inv0, NEW s \in Record, s.key \in Keys, ~s.pressed, process_record(s)
    PROVE  /\ active' = active \ {<<s.key, Role(source[s.key], s.count)>>}
           /\ source' = source /\ typed' = typed
BY DEF process_record, Inv0, TypeOK

\* The presses in the line stand in the order in which they were made.
PressOrder ==
    \A p, q \in Places : p < q /\ At(p).pressed /\ At(q).pressed => At(p).press < At(q).press

\* Every press that has not been processed is in the line.
NoneLost ==
    pc # "overflow" =>
        \A i \in DOMAIN typed : typed[i].role = "waiting" =>
            \E p \in Places : At(p).pressed /\ At(p).press = i

Inv1 == Inv0 /\ Alone /\ Pressed /\ PressOrder /\ NoneLost /\ InOrder

LEMMA CarriedOrder ==
    ASSUME Inv0, Inv0', NEW g, NEW gone, NEW marked, Carried(g, gone, marked), PressOrder
    PROVE  PressOrder'
<1> SUFFICES ASSUME NEW p \in Places', NEW q \in Places', p < q, At(p)'.pressed, At(q)'.pressed
             PROVE  At(p)'.press < At(q)'.press
  BY DEF PressOrder
<1>1. p \in Nat /\ q \in Nat
  BY NextPlaces
<1>2. g[p] \in Places /\ g[q] \in Places /\ g[p] < g[q]
  BY <1>1 DEF Carried
<1>3. At(g[p]).pressed /\ At(g[q]).pressed
  BY DEF Carried, Alike
<1>4. At(g[p]).press < At(g[q]).press
  BY <1>2, <1>3 DEF PressOrder
<1> QED
  BY <1>4 DEF Carried, Alike

\* Steps that process no press keep the presses in the line waiting.
LEMMA CarriedWaiting ==
    ASSUME Inv1, Inv0', NEW g, NEW gone, NEW marked, Carried(g, gone, marked), pc # "overflow",
           \A p \in gone : p \in Places => ~At(p).pressed,
           \A p \in marked : p \in Places => ~At(p).pressed,
           DOMAIN typed' = DOMAIN typed, \A i \in DOMAIN typed : typed'[i].role = typed[i].role
    PROVE  Pressed' /\ NoneLost'
<1>1. Pressed'
  <2> SUFFICES ASSUME NEW p \in Places', At(p)'.pressed
               PROVE  /\ At(p)'.press \in DOMAIN typed'
                      /\ typed'[At(p)'.press].role = "waiting" /\ At(p)'.count = 0
    BY DEF Pressed
  <2>1. g[p] \in Places /\ At(g[p]).pressed /\ At(p)'.press = At(g[p]).press
    BY DEF Carried, Alike
  <2>2. At(p)'.count = At(g[p]).count
    BY <2>1 DEF Carried
  <2> QED
    BY <2>1, <2>2 DEF Inv1, Pressed
<1>2. NoneLost'
  <2> SUFFICES ASSUME pc' # "overflow", NEW i \in DOMAIN typed', typed'[i].role = "waiting"
               PROVE  \E p \in Places' : At(p)'.pressed /\ At(p)'.press = i
    BY DEF NoneLost
  <2>1. PICK q \in Places : At(q).pressed /\ At(q).press = i
    BY DEF Inv1, NoneLost
  <2>2. q \notin gone
    BY <2>1
  <2>3. PICK p \in Places' : g[p] = q
    BY <2>2 DEF Carried
  <2> QED
    BY <2>1, <2>3 DEF Carried, Alike
<1> QED
  BY <1>1, <1>2

\* The first press in the line is the first one that waits.
LEMMA FirstPressWaits ==
    ASSUME Inv1, pc # "overflow", NEW p \in Places, At(p).pressed, \A q \in Places : p <= q
    PROVE  /\ At(p).press \in DOMAIN typed /\ typed[At(p).press].role = "waiting"
           /\ \A i \in 1 .. At(p).press - 1 : typed[i].role # "waiting"
           /\ \A q \in Places : At(q).pressed /\ q # p => At(q).press # At(p).press
           /\ \A i \in DOMAIN typed : i > At(p).press => typed[i].role = "waiting"
<1>1. At(p).press \in DOMAIN typed /\ typed[At(p).press].role = "waiting"
  BY DEF Inv1, Pressed
<1>2. DOMAIN typed = 1 .. Len(typed) /\ Len(typed) \in Nat
  BY DEF Inv1, Inv0, TypeOK
<1>3. \A q \in Places : At(q).press \in Int
  BY BufferTypes, RecordFields, BoundAssumption DEF Inv1
<1>4. \A q \in Places : At(q).pressed /\ q # p => At(p).press < At(q).press
  BY BufferTypes DEF Inv1, PressOrder
<1>5. \A i \in 1 .. At(p).press - 1 : typed[i].role # "waiting"
  <2> SUFFICES ASSUME NEW i \in 1 .. At(p).press - 1, typed[i].role = "waiting" PROVE FALSE
    OBVIOUS
  <2>1. i \in DOMAIN typed /\ i < At(p).press
    BY <1>1, <1>2
  <2>2. PICK q \in Places : At(q).pressed /\ At(q).press = i
    BY <2>1 DEF Inv1, NoneLost
  <2> QED
    BY <1>2, <1>3, <1>4, <2>1, <2>2
<1>6. \A i \in DOMAIN typed : i > At(p).press => typed[i].role = "waiting"
  BY <1>1, <1>2 DEF Inv1, InOrder
<1> QED
  BY <1>1, <1>3, <1>4, <1>5, <1>6

LEMMA InOrderKept ==
    ASSUME Inv1, DOMAIN typed' = DOMAIN typed,
           \A i \in DOMAIN typed : typed'[i].role = typed[i].role
    PROVE  InOrder'
<1>1. DOMAIN typed = 1 .. Len(typed) /\ Len(typed) \in Nat
  BY DEF Inv1, Inv0, TypeOK
<1> QED
  BY <1>1 DEF Inv1, InOrder

LEMMA PressTakenOrder ==
    ASSUME Inv1, Inv0', pc # "overflow", NEW p \in Places, NEW s \in Record, NEW marked,
           PressTaken(p, s, marked)
    PROVE  Pressed' /\ PressOrder' /\ NoneLost' /\ InOrder'
<1>0. Inv0 /\ At(p) \in Record /\ At(p).key \in Keys /\ DOMAIN typed = 1 .. Len(typed)
      /\ Len(typed) \in Nat
  BY BufferTypes DEF Inv1, Inv0, TypeOK
<1>1. PICK g : Carried(g, {p}, marked)
  BY DEF PressTaken
<1>2. /\ At(p).pressed /\ \A q \in Places : p <= q
      /\ s.key = At(p).key /\ s.pressed /\ s.press = At(p).press /\ process_record(s)
  BY DEF PressTaken, Alike
<1>3. \A q \in marked : q \in Places /\ ~At(q).pressed
  BY DEF PressTaken, TapAt
<1>4. /\ At(p).press \in DOMAIN typed /\ typed[At(p).press].role = "waiting"
      /\ \A i \in 1 .. At(p).press - 1 : typed[i].role # "waiting"
      /\ \A q \in Places : At(q).pressed /\ q # p => At(q).press # At(p).press
  BY <1>2, FirstPressWaits
<1>5. /\ DOMAIN typed' = DOMAIN typed
      /\ \A i \in DOMAIN typed : i # At(p).press => typed'[i].role = typed[i].role
      /\ typed'[At(p).press].role \in {"code", "hold"}
  BY <1>0, <1>2, <1>4, PressEffect DEF SamePresses
<1>6. Pressed'
  <2> SUFFICES ASSUME NEW q \in Places', At(q)'.pressed
               PROVE  /\ At(q)'.press \in DOMAIN typed'
                      /\ typed'[At(q)'.press].role = "waiting" /\ At(q)'.count = 0
    BY DEF Pressed
  <2>1. /\ g[q] \in Places /\ g[q] # p /\ At(g[q]).pressed /\ At(q)'.press = At(g[q]).press
        /\ g[q] \notin marked
    BY <1>1, <1>3 DEF Carried, Alike
  <2>2. At(q)'.count = At(g[q]).count
    BY <1>1, <2>1 DEF Carried
  <2> QED
    BY <1>4, <1>5, <2>1, <2>2 DEF Inv1, Pressed
<1>7. NoneLost'
  <2> SUFFICES ASSUME pc' # "overflow", NEW i \in DOMAIN typed', typed'[i].role = "waiting"
               PROVE  \E q \in Places' : At(q)'.pressed /\ At(q)'.press = i
    BY DEF NoneLost
  <2>1. i \in DOMAIN typed /\ i # At(p).press /\ typed[i].role = "waiting"
    BY <1>5
  <2>2. PICK q \in Places : At(q).pressed /\ At(q).press = i
    BY <2>1 DEF Inv1, NoneLost
  <2>3. PICK q1 \in Places' : g[q1] = q
    BY <1>1, <2>1, <2>2 DEF Carried
  <2> QED
    BY <1>1, <2>2, <2>3 DEF Carried, Alike
<1>8. InOrder'
  BY <1>0, <1>4, <1>5 DEF Inv1, InOrder
<1>9. PressOrder'
  BY <1>0, <1>1, CarriedOrder DEF Inv1
<1> QED
  BY <1>6, <1>7, <1>8, <1>9

LEMMA ShapeOrder ==
    ASSUME Inv1, Inv0', pc # "overflow", Shape
    PROVE  Pressed' /\ PressOrder' /\ NoneLost' /\ InOrder'
<1>0. Inv0 /\ PressOrder
  BY DEF Inv1
<1>1. ASSUME NEW g, NEW gone, Carried(g, gone, {}),
             \A p \in gone : p \in Places => ~At(p).pressed, typed' = typed
      PROVE  Pressed' /\ PressOrder' /\ NoneLost' /\ InOrder'
  BY <1>0, <1>1, CarriedOrder, CarriedWaiting, InOrderKept
<1>2. CASE Silent
  BY <1>1, <1>2 DEF Silent, NothingProcessed
<1>3. ASSUME NEW p \in Places, NEW s \in Record, ReleaseTaken(p, s)
      PROVE  Pressed' /\ PressOrder' /\ NoneLost' /\ InOrder'
  <2>1. s.key \in Keys /\ ~s.pressed /\ process_record(s) /\ ~At(p).pressed
    BY <1>0, <1>3, BufferTypes DEF ReleaseTaken, Alike
  <2>2. typed' = typed
    BY <1>0, <2>1, ReleaseEffect
  <2>3. PICK g : Carried(g, {p}, {})
    BY <1>3 DEF ReleaseTaken
  <2> QED
    BY <1>1, <2>1, <2>2, <2>3
<1>4. CASE LastTapReleased
  <2> DEFINE s == [tapping_key EXCEPT !.pressed = FALSE]
  <2>1. tapping_key \in Record /\ tapping_key.key \in Keys
    BY <1>0, <1>4 DEF Inv0, TypeOK, KeysKnown, LastTapReleased, TapHeld
  <2>2. s \in Record /\ s.key \in Keys /\ ~s.pressed
    BY <2>1 DEF Record
  <2>3. process_record(s) /\ Carried(Stay, {}, {})
    BY <1>4 DEF LastTapReleased
  <2> HIDE DEF s
  <2>4. typed' = typed
    BY <1>0, <2>2, <2>3, ReleaseEffect
  <2> QED
    BY <1>1, <2>3, <2>4
<1> QED
  BY <1>2, <1>3, <1>4, PressTakenOrder DEF Shape

LEMMA ProcessAlone ==
    ASSUME Inv0, Alone, NEW r \in Called, Process(r)
    PROVE  Alone' /\ pc # "overflow"
<1>1. CASE ReleaseLastTap(r)
  <2>1. ~Undecided
    BY <1>1, RecordFields DEF ReleaseLastTap, TapHeld, Undecided, Inv0, TypeOK
  <2> QED
    BY <1>1, <2>1, CalledTyped DEF ReleaseLastTap, Alone, IsTick
<1>2. CASE ~ReleaseLastTap(r)
  <2>1. \/ \E b : ConsumedFrom(b)
        \/ \E s : Refused(s)
    BY <1>2 DEF Process, Ignore, Start, PassOn, FirstTap, HoldWhenTyped, HoldWhenPressed, Timeout,
       HoldNow, ReleaseOfEarlierKey, Wait, TapRelease, StartAnother, PassOnAfterTap, QuickTap,
       StartAgain, StartOther, PassOnReleased, Reset, StartTapping, Consumed
  <2>2. pc' # "process"
    BY <2>1 DEF ConsumedFrom, Refused
  <2> QED
    BY <2>2, CalledTyped DEF Alone
<1> QED
  BY <1>1, <1>2

\* A new event comes to the end of the line.
LEMMA NewPlaces ==
    ASSUME Inv0, Inv0', pc = "ready", pc' = "process", UNCHANGED <<tapping_key, waiting_buffer>>
    PROVE  /\ \A p \in Places : p \in Places' /\ p <= Len(waiting_buffer) /\ At(p)' = At(p)
           /\ \A p \in Places' : \/ p \in Places
                                 \/ /\ p = Len(waiting_buffer) + 1 /\ ~IsTick(record')
                                    /\ At(p)' = record'
           /\ ~IsTick(record') => \E p \in Places' : p = Len(waiting_buffer) + 1 /\ At(p)' = record'
<1>1. Len(waiting_buffer) \in Nat
  BY BufferTypes
<1>2. \A p : p \in Places <=> (p = 0 /\ Undecided) \/ p \in 1 .. Len(waiting_buffer)
  BY <1>1 DEF Places
<1>3. \A p : p \in Places' <=> \/ p \in Places
                               \/ p = Len(waiting_buffer) + 1 /\ ~IsTick(record')
  BY <1>1, <1>2 DEF Places, Undecided, IsTick
<1>4. \A p \in 0 .. Len(waiting_buffer) : At(p)' = At(p)
  BY <1>1 DEF At
<1>5. \A p : p = Len(waiting_buffer) + 1 => At(p)' = record'
  BY <1>1 DEF At
<1> QED
  BY <1>1, <1>2, <1>3, <1>4, <1>5

LEMMA NewPresses ==
    ASSUME Inv1, Inv0', pc = "ready", pc' = "process", UNCHANGED <<tapping_key, waiting_buffer>>,
           ~record'.pressed,
           DOMAIN typed' = DOMAIN typed, \A i \in DOMAIN typed : typed'[i].role = typed[i].role
    PROVE  Pressed' /\ PressOrder' /\ NoneLost' /\ InOrder'
<1>0. Inv0
  BY DEF Inv1
<1>1. /\ \A p \in Places : p \in Places' /\ At(p)' = At(p)
      /\ \A p \in Places' : At(p)'.pressed => p \in Places
  BY <1>0, NewPlaces
<1>2. Pressed'
  BY <1>1 DEF Inv1, Pressed
<1>3. PressOrder'
  BY <1>1 DEF Inv1, PressOrder
<1>4. NoneLost'
  <2> SUFFICES ASSUME NEW i \in DOMAIN typed', typed'[i].role = "waiting"
               PROVE  \E p \in Places' : At(p)'.pressed /\ At(p)'.press = i
    BY DEF NoneLost
  <2>1. PICK q \in Places : At(q).pressed /\ At(q).press = i
    BY DEF Inv1, NoneLost
  <2> QED
    BY <1>1, <2>1
<1> QED
  BY <1>2, <1>3, <1>4, InOrderKept

\* A key event overtakes the buffer: no key is undecided and the buffer was
\* left with events in it (action_tapping_process, the break of its loop).
Overtaking ==
    /\ pc = "ready" /\ waiting_buffer # <<>> /\ ~Undecided
    /\ pc' = "process" /\ ~IsTick(record')

LEMMA KeyDownOrder ==
    ASSUME Inv1, Inv0', NEW k \in Keys, KeyDown(k), ~Overtaking
    PROVE  Inv1'
<1>0. /\ Inv0 /\ typed \in Seq(Press) /\ Len(typed) \in Nat /\ DOMAIN typed = 1 .. Len(typed)
      /\ waiting_buffer \in Seq(Record)
  BY DEF Inv1, Inv0, TypeOK
<1>1. /\ pc = "ready" /\ pc' = "process" /\ UNCHANGED <<tapping_key, waiting_buffer>>
      /\ record' = MakeEvent(k, TRUE, Len(typed) + 1)
  BY DEF KeyDown, NewRecord
<1>2. /\ ~IsTick(record') /\ record'.pressed /\ record'.press = Len(typed) + 1
      /\ record'.count = 0
  BY <1>1, BuildAssumption DEF MakeEvent, IsTick
<1>3. /\ DOMAIN typed' = 1 .. Len(typed) + 1
      /\ \A i \in DOMAIN typed : typed'[i] = typed[i]
      /\ typed'[Len(typed) + 1].role = "waiting"
  BY <1>0 DEF KeyDown
<1>4. /\ \A p \in Places : p \in Places' /\ p <= Len(waiting_buffer) /\ At(p)' = At(p)
      /\ \A p \in Places' : \/ p \in Places
                            \/ p = Len(waiting_buffer) + 1 /\ At(p)' = record'
      /\ \E p \in Places' : p = Len(waiting_buffer) + 1 /\ At(p)' = record'
  <2>1. /\ \A p \in Places : p \in Places' /\ p <= Len(waiting_buffer) /\ At(p)' = At(p)
        /\ \A p \in Places' : \/ p \in Places
                              \/ /\ p = Len(waiting_buffer) + 1 /\ ~IsTick(record')
                                 /\ At(p)' = record'
        /\ ~IsTick(record') => \E p \in Places' : p = Len(waiting_buffer) + 1 /\ At(p)' = record'
    BY <1>0, <1>1, NewPlaces
  <2> QED
    BY <1>2, <2>1
<1>5. Alone'
  BY <1>1, <1>2 DEF Alone, Overtaking, Undecided
<1>6. Pressed'
  <2> SUFFICES ASSUME NEW p \in Places', At(p)'.pressed
               PROVE  /\ At(p)'.press \in DOMAIN typed'
                      /\ typed'[At(p)'.press].role = "waiting" /\ At(p)'.count = 0
    BY DEF Pressed
  <2>1. CASE p \in Places
    <3>1. /\ At(p).press \in DOMAIN typed /\ typed[At(p).press].role = "waiting"
          /\ At(p).count = 0
      BY <1>4, <2>1 DEF Inv1, Pressed
    <3> QED
      BY <1>0, <1>3, <1>4, <2>1, <3>1
  <2>2. CASE At(p)' = record'
    BY <1>0, <1>2, <1>3, <2>2
  <2> QED
    BY <1>4, <2>1, <2>2
<1>7. PressOrder'
  <2> SUFFICES ASSUME NEW p \in Places', NEW q \in Places', p < q, At(p)'.pressed, At(q)'.pressed
               PROVE  At(p)'.press < At(q)'.press
    BY DEF PressOrder
  <2>1. p \in Nat /\ q \in Nat /\ Len(waiting_buffer) \in Nat
    BY <1>0, NextPlaces
  <2>2. p \in Places
    <3>1. CASE q \in Places
      BY <1>4, <2>1, <3>1
    <3>2. CASE q = Len(waiting_buffer) + 1
      BY <1>4, <2>1, <3>2
    <3> QED
      BY <1>4, <3>1, <3>2
  <2>3. CASE q \in Places
    BY <1>4, <2>2, <2>3 DEF Inv1, PressOrder
  <2>4. CASE q \notin Places
    <3>1. At(q)'.press = Len(typed) + 1
      BY <1>2, <1>4, <2>4
    <3>2. At(p)'.press \in DOMAIN typed
      BY <1>4, <2>2 DEF Inv1, Pressed
    <3> QED
      BY <1>0, <3>1, <3>2
  <2> QED
    BY <2>3, <2>4
<1>8. NoneLost'
  <2> SUFFICES ASSUME NEW i \in DOMAIN typed', typed'[i].role = "waiting"
               PROVE  \E p \in Places' : At(p)'.pressed /\ At(p)'.press = i
    BY DEF NoneLost
  <2>1. CASE i = Len(typed) + 1
    BY <1>2, <1>4, <2>1
  <2>2. CASE i \in DOMAIN typed
    <3>1. PICK q \in Places : At(q).pressed /\ At(q).press = i
      BY <1>1, <1>3, <2>2 DEF Inv1, NoneLost
    <3> QED
      BY <1>4, <3>1
  <2> QED
    BY <1>0, <1>3, <2>1, <2>2
<1>9. InOrder'
  BY <1>0, <1>3 DEF Inv1, InOrder
<1> QED
  BY <1>5, <1>6, <1>7, <1>8, <1>9 DEF Inv1

LEMMA KeyUpOrder ==
    ASSUME Inv1, NEW k \in Keys, KeyUp(k), ~Overtaking
    PROVE  Inv1'
<1>1. /\ Inv0 /\ Inv0' /\ DOMAIN typed' = DOMAIN typed
      /\ \A i \in DOMAIN typed : typed'[i].role = typed[i].role
  BY KeyUpTyped DEF Inv1
<1>2. /\ pc = "ready" /\ pc' = "process" /\ UNCHANGED <<tapping_key, waiting_buffer>>
      /\ ~record'.pressed /\ ~IsTick(record')
  BY BuildAssumption DEF KeyUp, NewRecord, MakeEvent, IsTick
<1>3. Alone'
  BY <1>2 DEF Alone, Overtaking, Undecided
<1> QED
  BY <1>1, <1>2, <1>3, NewPresses DEF Inv1

LEMMA TickOrder ==
    ASSUME Inv1, NEW gap \in Gaps, Tick(gap)
    PROVE  Inv1'
<1>1. /\ Inv0 /\ Inv0' /\ DOMAIN typed' = DOMAIN typed
      /\ \A i \in DOMAIN typed : typed'[i].role = typed[i].role
  BY TickTyped DEF Inv1, SamePresses
<1>2. /\ pc = "ready" /\ pc' = "process" /\ UNCHANGED <<tapping_key, waiting_buffer>>
      /\ ~record'.pressed /\ IsTick(record')
  BY DEF Tick, NewRecord, MakeEvent, IsTick
<1>3. Alone'
  BY <1>2 DEF Alone, IsTick
<1> QED
  BY <1>1, <1>2, <1>3, NewPresses DEF Inv1

LEMMA OverflowOrder ==
    ASSUME Inv1, Overflow
    PROVE  Inv1' /\ Places' = {}
<1>1. /\ Inv0' /\ DOMAIN typed' = DOMAIN typed
      /\ \A i \in DOMAIN typed :
            typed'[i].role = IF typed[i].role = "waiting" THEN "dropped" ELSE typed[i].role
  BY OverflowTyped DEF Inv1, SamePresses
<1>2. /\ waiting_buffer' = <<>> /\ tapping_key' = NoRecord /\ pc' = "drain"
  BY DEF Overflow
<1>3. Places' = {}
  BY <1>2, NoRecordTyped DEF Places, Undecided
<1>4. \A i \in DOMAIN typed' : typed'[i].role # "waiting"
  BY <1>1
<1>5. DOMAIN typed' = 1 .. Len(typed') /\ Len(typed') \in Nat
  BY <1>1 DEF Inv0, TypeOK
<1>6. InOrder'
  BY <1>4, <1>5 DEF InOrder
<1> QED
  BY <1>1, <1>2, <1>3, <1>4, <1>6 DEF Inv1, Alone, Pressed, PressOrder, NoneLost

LEMMA IdleOrder ==
    ASSUME Inv1, Drained \/ UNCHANGED vars
    PROVE  Inv1' /\ Carried(Stay, {}, {})
<1>0. Inv0 /\ Inv0' /\ Alone /\ PressOrder
  BY NextTyped DEF Inv1, Next
<1>1. /\ UNCHANGED <<tapping_key, waiting_buffer, record, typed, source, active, down, now>>
      /\ pc' = pc \/ (pc = "drain" /\ pc' = "ready")
  BY DEF Drained, vars
<1>2. Carried(Stay, {}, {})
  BY <1>0, <1>1, SameCarries DEF Undecided
<1>3. Alone'
  BY <1>0, <1>1 DEF Alone, Undecided, IsTick
<1>4. CASE pc # "overflow"
  BY <1>0, <1>1, <1>2, <1>3, <1>4, CarriedOrder, CarriedWaiting, InOrderKept DEF Inv1
<1>5. CASE pc = "overflow"
  <2>1. UNCHANGED vars
    BY <1>5 DEF Drained
  <2> QED
    BY <1>2, <2>1 DEF vars, Inv1, Inv0, TypeOK, KeysKnown, Fingers, WAITING_BUFFER_SIZE, IsTick,
       Alone, Pressed, PressOrder, NoneLost, InOrder, Places, At, Undecided
<1> QED
  BY <1>4, <1>5

LEMMA NextOrder ==
    ASSUME Inv1, [Next]_vars, [~Overtaking]_vars
    PROVE  Inv1'
<1>0. Inv0'
  BY NextTyped DEF Inv1
<1>1. ASSUME NEW k \in Keys, KeyDown(k) \/ KeyUp(k)
      PROVE  Inv1'
  <2>1. ~Overtaking
    BY <1>1 DEF vars, KeyDown, KeyUp, NewRecord
  <2> QED
    BY <1>0, <1>1, <2>1, KeyDownOrder, KeyUpOrder
<1>2. CASE \E gap \in Gaps : Tick(gap)
  BY <1>2, TickOrder
<1>3. ASSUME NEW r \in Called, Process(r)
      PROVE  Inv1'
  <2>1. Inv0 /\ Alone /\ Pressed
    BY DEF Inv1
  <2>2. Alone' /\ pc # "overflow"
    BY <1>3, <2>1, ProcessAlone
  <2>3. Shape
    BY <1>0, <1>3, <2>1, ProcessShape
  <2> QED
    BY <1>0, <2>2, <2>3, ShapeOrder DEF Inv1
<1>4. CASE Overflow
  BY <1>4, OverflowOrder
<1>5. CASE Drained \/ UNCHANGED vars
  BY <1>5, IdleOrder
<1> QED
  BY <1>1, <1>2, <1>3, <1>4, <1>5 DEF Next

LEMMA InitOrder ==
    ASSUME Init
    PROVE  Inv1
BY InitTyped, NoRecordTyped
   DEF Init, Inv1, Alone, Pressed, PressOrder, NoneLost, InOrder, Places, Undecided

\* Presses take effect in the order in which the keys were pressed, in every
\* build and with every timing, overflows of the buffer included, as long as no
\* key event overtakes a buffer that action_tapping_process has left although no
\* key is undecided.
THEOREM PressesInOrder == Spec /\ [][~Overtaking]_vars => []InOrder
<1>1. Init => Inv1
  BY InitOrder
<1>2. Inv1 /\ [Next]_vars /\ [~Overtaking]_vars => Inv1'
  BY NextOrder
<1>3. Inv1 => InOrder
  BY DEF Inv1
<1> QED
  BY <1>1, <1>2, <1>3, PTL DEF Spec

-----------------------------------------------------------------------------
(***************************************************************************)
(* No key sticks                                                           *)
(***************************************************************************)
\* The age of an event, as timer_elapsed measures it.
Age(r) == (now - r.time) % TimerRange

\* The event r comes before the event s of the same key.
Before(r, s) == r.press < s.press \/ (r.press = s.press /\ r.pressed /\ ~s.pressed)

\* The release of press i is in the line.
Pending(i) == \E p \in Places : ~At(p).pressed /\ At(p).press = i

\* Every event in the line is one of its press, and no release of a press that
\* waits is lost.
Paired ==
    /\ \A p \in Places : /\ At(p).press \in DOMAIN typed /\ typed[At(p).press].key = At(p).key
                         /\ ~At(p).pressed => typed[At(p).press].up
    /\ pc # "overflow" =>
          \A i \in DOMAIN typed : typed[i].role = "waiting" /\ typed[i].up => Pending(i)

\* Earlier events stand first, and those of one key in the order of the key.
KeyOrder ==
    \A p, q \in Places : p < q =>
        /\ Age(At(p)) >= Age(At(q))
        /\ At(p).key = At(q).key => Before(At(p), At(q))

\* The events in the line are of the last press of their key that was processed
\* or of later ones.
Follows ==
    \A p \in Places, i \in DOMAIN typed :
        typed[i].key = At(p).key /\ typed[i].role # "waiting" => i <= At(p).press

\* Only releases of taps are marked.
Marks ==
    \A p \in Places :
        At(p).pressed \/ typed[At(p).press].role \in {"waiting", "hold"} => At(p).count = 0

\* The buffer does not decide the key that is undecided.
NoTap == Undecided => TapsWaiting(tapping_key) = {}

\* The key that is decided is a tap key.
TapKind == tapping_key # NoRecord => Kind[tapping_key.key] \in TapKinds

\* A tap that is held is the last press of its key.
LastTap ==
    TapHeld =>
        /\ tapping_key.press \in DOMAIN typed
        /\ typed[tapping_key.press].key = tapping_key.key
        /\ typed[tapping_key.press].role = "code"
        /\ \A i \in DOMAIN typed :
              i > tapping_key.press /\ typed[i].key = tapping_key.key => typed[i].role = "waiting"

\* The keymap decides what keys become that are no tap keys.
Roles ==
    /\ Opaque = {} /\ source = Kind
    /\ \A i \in DOMAIN typed :
          typed[i].role \in {"code", "hold"} /\ Kind[typed[i].key] \notin TapKinds
              => typed[i].role = Role(Kind[typed[i].key], 0)

\* The effect x is that of press i, and its release ends it: it is still to
\* come or in the line, and for a tap it is marked or the key that is decided.
Effect(x, i) ==
    /\ typed[i].key = x[1] /\ typed[i].role = x[2]
    /\ ~typed[i].up \/ Pending(i)
    /\ Kind[x[1]] \in TapKinds /\ x[2] = "code" =>
          \/ TapHeld /\ tapping_key.press = i /\ tapping_key.count > 1
          \/ \E p \in Places : ~At(p).pressed /\ At(p).press = i /\ At(p).count > 0

Effects == pc # "overflow" => \A x \in active : \E i \in DOMAIN typed : Effect(x, i)

Inv2 == /\ Inv1 /\ NoTap /\ TapKind
        /\ Paired /\ KeyOrder /\ Follows /\ Marks /\ LastTap /\ Roles /\ Effects

LEMMA Modulo ==
    ASSUME NEW a \in 0 .. TimerRange - 1, NEW b \in 0 .. TimerRange - 1
    PROVE  (a - b) % TimerRange = IF a >= b THEN a - b ELSE a - b + TimerRange
BY TermAssumption

LEMMA RoundOnce ==
    ASSUME NEW a \in 0 .. TimerRange - 1, NEW b \in 1 .. TimerRange - 1
    PROVE  (a + b) % TimerRange = IF a + b < TimerRange THEN a + b ELSE a + b - TimerRange
BY TermAssumption

LEMMA AgeDifference ==
    ASSUME NEW n \in 0 .. TimerRange - 1, NEW a \in 0 .. TimerRange - 1,
           NEW b \in 0 .. TimerRange - 1, (n - a) % TimerRange >= (n - b) % TimerRange
    PROVE  (b - a) % TimerRange = ((n - a) % TimerRange) - ((n - b) % TimerRange)
<1>1. (n - a) % TimerRange = IF n >= a THEN n - a ELSE n - a + TimerRange
  BY Modulo
<1>2. (n - b) % TimerRange = IF n >= b THEN n - b ELSE n - b + TimerRange
  BY Modulo
<1>3. (b - a) % TimerRange = IF b >= a THEN b - a ELSE b - a + TimerRange
  BY Modulo
<1> DEFINE x == (n - a) % TimerRange
           y == (n - b) % TimerRange
           z == (b - a) % TimerRange
<1>4. /\ x = IF n >= a THEN n - a ELSE n - a + TimerRange
      /\ y = IF n >= b THEN n - b ELSE n - b + TimerRange
      /\ z = IF b >= a THEN b - a ELSE b - a + TimerRange
      /\ x >= y /\ TimerRange \in Nat
  BY <1>1, <1>2, <1>3, TermAssumption
<1> HIDE DEF x, y, z
<1>5. z = x - y
  BY <1>4
<1> QED
  BY <1>5 DEF x, y, z

LEMMA LineTypes ==
    ASSUME Inv2
    PROVE  /\ Inv0 /\ Places \subseteq Nat
           /\ DOMAIN typed = 1 .. Len(typed) /\ Len(typed) \in Nat
           /\ now \in 0 .. TimerRange - 1
           /\ \A p \in Places :
                 /\ At(p) \in Record /\ At(p).key \in Keys /\ At(p).pressed \in BOOLEAN
                 /\ At(p).time \in 0 .. TimerRange - 1 /\ At(p).count \in Nat
                 /\ At(p).press \in Nat /\ Age(At(p)) \in 0 .. TimerRange - 1
<1>1. Inv0 /\ now \in 0 .. TimerRange - 1
      /\ DOMAIN typed = 1 .. Len(typed) /\ Len(typed) \in Nat
  BY DEF Inv2, Inv1, Inv0, TypeOK
<1>2. \A p \in Places :
         /\ At(p) \in Record /\ At(p).key \in Keys /\ At(p).pressed \in BOOLEAN
         /\ At(p).time \in 0 .. TimerRange - 1 /\ At(p).count \in Nat /\ At(p).press \in Nat
  <2> SUFFICES ASSUME NEW p \in Places
               PROVE  /\ At(p) \in Record /\ At(p).key \in Keys /\ At(p).pressed \in BOOLEAN
                      /\ At(p).time \in 0 .. TimerRange - 1 /\ At(p).count \in Nat
                      /\ At(p).press \in Nat
    OBVIOUS
  <2>1. At(p) \in Record /\ At(p).key \in Keys
    BY <1>1, BufferTypes
  <2>2. /\ At(p).pressed \in BOOLEAN /\ At(p).time \in 0 .. TimerRange - 1
        /\ At(p).count \in 0 .. 15 /\ At(p).press \in 0 .. MaxPresses
    BY <2>1, RecordFields
  <2> QED
    BY <2>1, <2>2, BoundAssumption
<1>3. \A p \in Places : Age(At(p)) \in 0 .. TimerRange - 1
  BY <1>1, <1>2, Modulo, TermAssumption DEF Age
<1> QED
  BY <1>1, <1>2, <1>3, BufferTypes

\* The time between two events is the difference of their ages.
LEMMA Between ==
    ASSUME Inv2, NEW p \in Places, NEW q \in Places, p <= q
    PROVE  (At(q).time - At(p).time) % TimerRange = Age(At(p)) - Age(At(q))
<1>1. Age(At(p)) >= Age(At(q))
  <2>1. CASE p = q
    BY <2>1, LineTypes
  <2>2. CASE p < q
    BY <2>2 DEF Inv2, KeyOrder
  <2> QED
    BY <2>1, <2>2, LineTypes
<1>2. /\ now \in 0 .. TimerRange - 1 /\ TimerRange \in Nat
      /\ At(p).time \in 0 .. TimerRange - 1 /\ At(q).time \in 0 .. TimerRange - 1
  BY LineTypes, TermAssumption
<1> QED
  BY <1>1, <1>2, AgeDifference DEF Age

\* Two events of one press: no two presses, no two releases.
LEMMA OnePlace ==
    ASSUME Inv2, NEW p \in Places, NEW q \in Places, At(p).press = At(q).press,
           At(p).pressed = At(q).pressed
    PROVE  p = q
<1>1. At(p).key = At(q).key
  BY DEF Inv2, Paired
<1>2. ~(p < q) /\ ~(q < p)
  BY <1>1, LineTypes DEF Inv2, KeyOrder, Before
<1> QED
  BY <1>2, LineTypes

\* The release that is marked is the one of the press that becomes a tap.
LEMMA MarkedIsOwn ==
    ASSUME Inv2, pc # "overflow", NEW p \in Places, NEW s \in Record, NEW marked,
           PressTaken(p, s, marked), NEW m \in marked
    PROVE  /\ m \in Places /\ ~At(m).pressed /\ At(m).press = At(p).press /\ s.count = 1
           /\ tapping_key' = s
<1>1. /\ s.count = 1 /\ marked = {m} /\ TapAt(m, s) /\ tapping_key' = s
      /\ (\A q \in Places : TapAt(q, s) => m <= q) \/ (Undecided /\ m = CalledAt)
  BY DEF PressTaken
<1>2. /\ At(p).pressed /\ \A q \in Places : p <= q
      /\ s.key = At(p).key /\ s.time = At(p).time /\ s.press = At(p).press
  BY DEF PressTaken, Alike
<1>3. m \in Places /\ At(m).key = At(p).key /\ ~At(m).pressed
      /\ (At(m).time - At(p).time) % TimerRange < TAPPING_TERM
  BY <1>1, <1>2 DEF TapAt
<1>4. SUFFICES ASSUME At(m).press # At(p).press PROVE FALSE
  BY <1>1, <1>3
<1>5. p < m /\ At(p).press < At(m).press
  <2>1. p < m
    BY <1>2, <1>3, LineTypes
  <2> QED
    BY <1>3, <1>4, <2>1 DEF Inv2, KeyOrder, Before
<1>6. typed[At(p).press].role = "waiting" /\ typed[At(p).press].up
  <2>1. At(p).press \in DOMAIN typed /\ At(m).press \in DOMAIN typed
        /\ typed[At(p).press].key = typed[At(m).press].key
    BY <1>3 DEF Inv2, Paired
  <2> QED
    BY <1>2, <1>5, <2>1 DEF Inv2, Inv1, Inv0, Fingers, Pressed
<1>7. PICK q \in Places : ~At(q).pressed /\ At(q).press = At(p).press
  BY <1>6 DEF Inv2, Paired, Pending
<1>8. At(q).key = At(p).key
  BY <1>7 DEF Inv2, Paired
<1>9. q < m /\ p <= q /\ p # q
  <2>1. ~(m < q)
    BY <1>3, <1>5, <1>7, <1>8, LineTypes DEF Inv2, KeyOrder, Before
  <2>2. q # m /\ p # q
    BY <1>2, <1>4, <1>7
  <2> QED
    BY <1>2, <1>3, <2>1, <2>2, LineTypes
<1>10. (At(q).time - At(p).time) % TimerRange < TAPPING_TERM
  <2>1. Age(At(q)) >= Age(At(m))
    BY <1>3, <1>9 DEF Inv2, KeyOrder
  <2>2. (At(q).time - At(p).time) % TimerRange = Age(At(p)) - Age(At(q))
    BY <1>9, Between
  <2>3. (At(m).time - At(p).time) % TimerRange = Age(At(p)) - Age(At(m))
    BY <1>2, <1>3, Between
  <2> QED
    BY <1>3, <2>1, <2>2, <2>3, LineTypes, TermAssumption
<1>11. TapAt(q, s)
  BY <1>2, <1>7, <1>8, <1>10 DEF TapAt
<1>12. CASE \A j \in Places : TapAt(j, s) => m <= j
  BY <1>3, <1>9, <1>11, <1>12, LineTypes
<1>13. CASE Undecided /\ m = CalledAt
  <2>1. waiting_buffer \in Seq(Record) /\ Len(waiting_buffer) \in Nat
        /\ DOMAIN waiting_buffer = 1 .. Len(waiting_buffer)
    BY BufferTypes, LineTypes
  <2>2. 0 \in Places /\ p = 0 /\ At(p) = tapping_key
    BY <1>2, <1>13, <2>1, LineTypes DEF Places, At
  <2>3. q \in 1 .. Len(waiting_buffer) /\ At(q) = waiting_buffer[q]
    BY <1>9, <1>13, <2>1, <2>2, LineTypes DEF CalledAt, Places, At
  <2>4. q \in TapsWaiting(tapping_key)
    BY <1>7, <1>8, <1>10, <2>1, <2>2, <2>3 DEF TapsWaiting
  <2> QED
    BY <1>13, <2>4 DEF Inv2, NoTap
<1> QED
  BY <1>1, <1>12, <1>13

LEMMA ProcessKeeps ==
    ASSUME NEW r, Process(r)
    PROVE  UNCHANGED <<build, now, down, settling>>
BY DEF Process, Ignore, Start, PassOn, FirstTap, HoldWhenTyped, HoldWhenPressed, Timeout, HoldNow,
   ReleaseOfEarlierKey, Wait, TapRelease, StartAnother, ReleaseLastTap, PassOnAfterTap, QuickTap,
   StartAgain, StartOther, PassOnReleased, Reset, StartTapping, Consumed, ConsumedFrom, Refused,
   Return

\* The tap key that is pressed again is not scanned for (StartAgain).
NotScanned == \E r \in Called : StartAgain(r) /\ TapsWaiting(r) # {}

\* The events of the new buffer are those of the old one and the new one.
LEMMA BufferFrom ==
    ASSUME Inv0, NEW r \in Called, Consumed \/ Refused(r)
    PROVE  \A p \in DOMAIN waiting_buffer' :
              \/ \E q \in DOMAIN waiting_buffer : waiting_buffer'[p] = waiting_buffer[q]
              \/ waiting_buffer'[p] = r
<1>b. waiting_buffer \in Seq(Record)
  BY BufferTypes
<1>1. CASE waiting_buffer' = waiting_buffer
  BY <1>1
<1>2. CASE waiting_buffer' = Append(waiting_buffer, r)
  BY <1>b, <1>2
<1>3. CASE /\ pc = "drain"
           /\ waiting_buffer' = Tail(waiting_buffer) \/ waiting_buffer' = <<r>> \o Tail(waiting_buffer)
  <2>1. Len(waiting_buffer) # 0 /\ r = waiting_buffer[1]
    BY <1>3, <1>b, CalledTyped
  <2>2. CASE waiting_buffer' = Tail(waiting_buffer)
    <3>1. \A p \in DOMAIN waiting_buffer' : p + 1 \in DOMAIN waiting_buffer
                                            /\ waiting_buffer'[p] = waiting_buffer[p + 1]
      BY <1>b, <2>1, <2>2
    <3> QED
      BY <3>1
  <2>3. CASE waiting_buffer' = <<r>> \o Tail(waiting_buffer)
    <3>1. \A p \in DOMAIN waiting_buffer' : p \in DOMAIN waiting_buffer
                                            /\ waiting_buffer'[p] = waiting_buffer[p]
      BY <1>b, <2>1, <2>3
    <3> QED
      BY <3>1
  <2> QED
    BY <1>3, <2>2, <2>3
<1> QED
  BY <1>1, <1>2, <1>3 DEF Consumed, ConsumedFrom, Refused

LEMMA NoTapFrom ==
    ASSUME Inv0, NEW r \in Called, Consumed \/ Refused(r), NEW t,
           TapsWaiting(t) = {}, tapping_key'.key = t.key, tapping_key'.time = t.time,
           ~(r.key = t.key /\ ~r.pressed)
    PROVE  NoTap'
<1> SUFFICES ASSUME NEW i \in DOMAIN waiting_buffer', waiting_buffer'[i].key = t.key,
                    ~waiting_buffer'[i].pressed,
                    (waiting_buffer'[i].time - t.time) % TimerRange < TAPPING_TERM
             PROVE  FALSE
  BY DEF NoTap, TapsWaiting
<1>1. PICK q \in DOMAIN waiting_buffer : waiting_buffer'[i] = waiting_buffer[q]
  BY BufferFrom
<1>2. q \in TapsWaiting(t)
  BY <1>1 DEF TapsWaiting
<1> QED
  BY <1>2

LEMMA NoOpaque ==
    ASSUME Opaque = {}, NEW k
    PROVE  CurrentKind(k) = Kind[k]
BY DEF CurrentKind

\* Every branch of process_tapping keeps NoTap and TapKind.
LEMMA ProcessTap ==
    ASSUME Inv0, Inv0', Pressed, NoTap, TapKind, Opaque = {}, NEW r \in Called, Process(r),
           ~NotScanned
    PROVE  NoTap' /\ TapKind'
<1>r. r \in Record /\ r.pressed \in BOOLEAN
  BY CalledTyped, RecordFields
<1>t. /\ tapping_key \in Record /\ tapping_key.count \in 0 .. 15
      /\ tapping_key.interrupted \in BOOLEAN /\ tapping_key.pressed \in BOOLEAN
  BY RecordFields DEF Inv0, TypeOK
<1>k. is_tap_record(r) => Kind[r.key] \in TapKinds
  BY NoOpaque DEF is_tap_record
<1>b. Kind' = Kind
  BY ProcessKeeps DEF Kind
<1>n. tapping_key' = NoRecord => NoTap' /\ TapKind'
  BY NoRecordDecided DEF NoTap, TapKind
<1>0. ASSUME NEW b \in BOOLEAN, tapping_key' = [tapping_key EXCEPT !.interrupted = b],
             tapping_key # NoRecord
      PROVE  /\ Alike(tapping_key, tapping_key') /\ TapKind' /\ (TapReleased => NoTap')
  <2>1. Alike(tapping_key, tapping_key')
    BY <1>0, <1>t, AlikeChanged
  <2> QED
    BY <1>0, <1>b, <2>1 DEF Alike, TapKind, NoTap, TapReleased, Undecided
<1>1. CASE Ignore(r)
  <2>1. Consumed /\ tapping_key' = tapping_key
    BY <1>1 DEF Ignore
  <2>2. CASE Undecided
    <3>1. TapsWaiting(tapping_key) = {}
      BY <2>2 DEF NoTap
    <3>2. tapping_key.key # r.key
      BY <1>1, <2>2, BuildAssumption DEF Ignore, IsTick, Undecided, Inv0, KeysKnown
    <3> QED
      BY <1>b, <2>1, <3>1, <3>2, NoTapFrom DEF TapKind
  <2>3. CASE ~Undecided
    BY <1>b, <2>1, <2>3 DEF TapKind, NoTap, Undecided
  <2> QED
    BY <2>2, <2>3
<1>2. CASE Start(r) \/ StartAnother(r) \/ StartOther(r) \/ StartAgain(r)
  <2>1. r.pressed /\ Kind[r.key] \in TapKinds
    BY <1>2, <1>k DEF Start, StartAnother, StartOther, StartAgain, IsTapping, TapReleased, TapKind
  <2>2. CASE TapsWaiting(r) = {}
    <3>1. tapping_key' = r /\ Consumed
      BY <1>2, <2>2 DEF Start, StartAnother, StartOther, StartAgain, StartTapping
    <3> QED
      BY <1>b, <2>1, <2>2, <3>1, NoTapFrom DEF TapKind
  <2>3. CASE TapsWaiting(r) # {}
    <3>1. tapping_key' = [r EXCEPT !.count = 1]
      BY <1>2, <2>3 DEF Start, StartAnother, StartOther, StartTapping, NotScanned
    <3>2. tapping_key'.key = r.key /\ tapping_key'.count = 1
      BY <1>r, <3>1, MarkedAlike DEF Alike
    <3> QED
      BY <1>b, <2>1, <3>2 DEF TapKind, NoTap, Undecided
  <2> QED
    BY <2>2, <2>3
<1>3. CASE PassOn(r) \/ PassOnAfterTap(r)
  <2>1. tapping_key' = tapping_key /\ ~Undecided
    BY <1>3, <1>t DEF PassOn, PassOnAfterTap, TapHeld, Undecided
  <2> QED
    BY <1>b, <2>1 DEF TapKind, NoTap, Undecided
<1>4. CASE FirstTap(r)
  <2>1. tapping_key' = [tapping_key EXCEPT !.count = 1] /\ tapping_key # NoRecord
    BY <1>4 DEF FirstTap, Undecided
  <2>2. tapping_key'.key = tapping_key.key /\ tapping_key'.count = 1
    BY <1>t, <2>1, MarkedAlike DEF Alike
  <2> QED
    BY <1>b, <2>1, <2>2 DEF TapKind, NoTap, Undecided
<1>5. CASE HoldWhenTyped(r) \/ HoldWhenPressed(r) \/ Timeout(r) \/ ReleaseLastTap(r) \/ Reset(r)
  BY <1>5, <1>n DEF HoldWhenTyped, HoldWhenPressed, Timeout, HoldNow, ReleaseLastTap, Reset
<1>6. CASE ReleaseOfEarlierKey(r)
  <2>1. /\ Undecided /\ ~(IsTapping(r) /\ ~r.pressed) /\ tapping_key' = tapping_key /\ Consumed
    BY <1>6 DEF ReleaseOfEarlierKey, Interrupted
  <2>2. TapsWaiting(tapping_key) = {}
    BY <2>1 DEF NoTap
  <2> QED
    BY <1>b, <2>1, <2>2, NoTapFrom DEF TapKind, IsTapping
<1>7. CASE Wait(r)
  <2>1. /\ Undecided /\ ~(IsTapping(r) /\ ~r.pressed) /\ Refused(r) /\ tapping_key # NoRecord
        /\ tapping_key' = [tapping_key EXCEPT !.interrupted = @ \/ r.pressed]
    BY <1>7 DEF Wait, Interrupted, Undecided
  <2>2. TapsWaiting(tapping_key) = {}
    BY <2>1 DEF NoTap
  <2>3. Alike(tapping_key, tapping_key') /\ TapKind'
    BY <1>0, <1>r, <1>t, <2>1
  <2> QED
    BY <2>1, <2>2, <2>3, NoTapFrom DEF IsTapping, Alike
<1>8. CASE TapRelease(r)
  <2> DEFINE released == [r EXCEPT !.count = tapping_key.count,
                                   !.interrupted = tapping_key.interrupted]
  <2>1. /\ tapping_key # NoRecord /\ IsTapping(r) /\ ~r.pressed
        /\ tapping_key' = released \/ tapping_key' = NoRecord
    BY <1>8 DEF TapRelease, TapHeld
  <2>2. Alike(r, released)
    BY <1>r DEF Alike, Record
  <2> HIDE DEF released
  <2> QED
    BY <1>b, <1>n, <2>1, <2>2 DEF TapKind, NoTap, Undecided, Alike, IsTapping
<1>9. CASE QuickTap(r)
  <2> DEFINE c == IF tapping_key.count < 15 THEN tapping_key.count + 1 ELSE 15
  <2>1. /\ tapping_key # NoRecord /\ IsTapping(r) /\ tapping_key' = [r EXCEPT !.count = c]
    BY <1>9 DEF QuickTap, TapReleased
  <2>2. c > 0
    BY <1>t
  <2> HIDE DEF c
  <2>3. tapping_key'.key = r.key /\ tapping_key'.count = c
    BY <1>r, <2>1, AlikeChanged DEF Alike
  <2> QED
    BY <1>b, <2>1, <2>2, <2>3 DEF TapKind, NoTap, Undecided, IsTapping
<1>10. CASE PassOnReleased(r)
  <2>1. /\ tapping_key # NoRecord /\ TapReleased
        /\ tapping_key' = [tapping_key EXCEPT !.interrupted = @ \/ r.pressed]
    BY <1>10 DEF PassOnReleased, TapReleased
  <2> QED
    BY <1>0, <1>r, <1>t, <2>1
<1> QED
  BY <1>1, <1>2, <1>3, <1>4, <1>5, <1>6, <1>7, <1>8, <1>9, <1>10 DEF Process

\* A line that is carried keeps its order and its presses.
LEMMA CarriedLine ==
    ASSUME Inv2, Inv0', NEW g, NEW gone, NEW marked, Carried(g, gone, marked), SamePresses,
           now' = now
    PROVE  /\ KeyOrder'
           /\ \A p \in Places' :
                 /\ At(p)'.press \in DOMAIN typed' /\ typed'[At(p)'.press].key = At(p)'.key
                 /\ ~At(p)'.pressed => typed'[At(p)'.press].up
<1>1. \A p \in Places' :
         /\ g[p] \in Places /\ At(p)'.key = At(g[p]).key /\ At(p)'.pressed = At(g[p]).pressed
         /\ At(p)'.time = At(g[p]).time /\ At(p)'.press = At(g[p]).press
  BY DEF Carried, Alike
<1>2. KeyOrder'
  <2> SUFFICES ASSUME NEW p \in Places', NEW q \in Places', p < q
               PROVE  /\ (now' - At(p)'.time) % TimerRange >= (now' - At(q)'.time) % TimerRange
                      /\ At(p)'.key = At(q)'.key => Before(At(p)', At(q)')
    BY DEF KeyOrder, Age, Before
  <2>1. g[p] < g[q]
    BY NextPlaces DEF Carried
  <2>2. /\ Age(At(g[p])) >= Age(At(g[q]))
        /\ At(g[p]).key = At(g[q]).key => Before(At(g[p]), At(g[q]))
    BY <1>1, <2>1 DEF Inv2, KeyOrder
  <2> QED
    BY <1>1, <2>2 DEF Age, Before
<1>3. ASSUME NEW p \in Places'
      PROVE  /\ At(p)'.press \in DOMAIN typed' /\ typed'[At(p)'.press].key = At(p)'.key
             /\ ~At(p)'.pressed => typed'[At(p)'.press].up
  BY <1>1, <1>3 DEF Inv2, Paired, SamePresses
<1> QED
  BY <1>2, <1>3

\* A release that stays in the line stays marked.
LEMMA CarriedPending ==
    ASSUME Inv2, NEW g, NEW gone, NEW marked, Carried(g, gone, marked), pc' # "overflow",
           NEW q \in Places, q \notin gone, ~At(q).pressed
    PROVE  \E p \in Places' : /\ ~At(p)'.pressed /\ At(p)'.press = At(q).press
                              /\ At(q).count > 0 => At(p)'.count > 0
<1>1. PICK p \in Places' : g[p] = q
  BY DEF Carried
<1>2. ~At(p)'.pressed /\ At(p)'.press = At(q).press
  BY <1>1 DEF Carried, Alike
<1>3. At(q).count > 0 => At(p)'.count > 0
  BY <1>1 DEF Carried
<1> QED
  BY <1>2, <1>3

\* What a branch of process_tapping has to keep of Inv2 above Inv1.
Kept2 == Paired' /\ KeyOrder' /\ Follows' /\ Marks' /\ LastTap' /\ Roles' /\ Effects'

\* An effect stays that of its press while its release stays in the line.
LEMMA EffectKept ==
    ASSUME Inv2, NEW g, NEW gone, NEW marked, Carried(g, gone, marked), pc' # "overflow",
           SamePresses, build' = build, NEW x, NEW i \in DOMAIN typed, Effect(x, i),
           typed'[i].role = typed[i].role,
           \A p \in gone : p \in Places /\ ~At(p).pressed => At(p).press # i,
           TapHeld /\ tapping_key.press = i /\ tapping_key.count > 1 => tapping_key' = tapping_key
    PROVE  Effect(x, i)'
<1>1. typed'[i].key = typed[i].key /\ typed'[i].up = typed[i].up /\ Kind' = Kind
  BY DEF SamePresses, Kind
<1>2. Pending(i) => Pending(i)'
  <2> SUFFICES ASSUME NEW q \in Places, ~At(q).pressed, At(q).press = i
               PROVE  \E p \in Places' : ~At(p)'.pressed /\ At(p)'.press = i
    BY DEF Pending
  <2> QED
    BY CarriedPending
<1>3. ASSUME NEW q \in Places, ~At(q).pressed, At(q).press = i, At(q).count > 0
      PROVE  \E p \in Places' : ~At(p)'.pressed /\ At(p)'.press = i /\ At(p)'.count > 0
  BY <1>3, CarriedPending
<1>4. TapHeld /\ tapping_key.press = i /\ tapping_key.count > 1 =>
         (TapHeld /\ tapping_key.press = i /\ tapping_key.count > 1)'
  BY DEF TapHeld
<1> QED
  BY <1>1, <1>2, <1>3, <1>4 DEF Effect

LEMMA SilentKeeps ==
    ASSUME Inv2, Inv0', NEW g, Carried(g, {}, {}), UNCHANGED <<build, now, typed, source, active>>,
           LongTapKept, NoOtherTap, pc # "overflow"
    PROVE  Kept2
<1>0. SamePresses /\ Kind' = Kind /\ Opaque' = Opaque
  BY DEF SamePresses, Kind, Opaque
<1>1. \A p \in Places' :
         /\ g[p] \in Places /\ At(p)'.key = At(g[p]).key /\ At(p)'.pressed = At(g[p]).pressed
         /\ At(p)'.press = At(g[p]).press /\ At(p)'.count = At(g[p]).count
  BY DEF Carried, Alike
<1>2. /\ KeyOrder'
      /\ \A p \in Places' :
            /\ At(p)'.press \in DOMAIN typed' /\ typed'[At(p)'.press].key = At(p)'.key
            /\ ~At(p)'.pressed => typed'[At(p)'.press].up
  BY <1>0, CarriedLine
<1>3. Paired'
  <2>1. ASSUME pc' # "overflow", NEW i \in DOMAIN typed, typed[i].role = "waiting", typed[i].up
        PROVE  \E p \in Places' : ~At(p)'.pressed /\ At(p)'.press = i
    <3>1. PICK q \in Places : ~At(q).pressed /\ At(q).press = i
      BY <2>1 DEF Inv2, Paired, Pending
    <3> QED
      BY <2>1, <3>1, CarriedPending
  <2> QED
    BY <1>2, <2>1 DEF Paired, Pending
<1>4. Follows'
  BY <1>1 DEF Inv2, Follows
<1>5. Marks'
  BY <1>1 DEF Inv2, Marks
<1>6. LastTap'
  BY DEF Inv2, LastTap, NoOtherTap
<1>7. Roles'
  BY <1>0 DEF Inv2, Roles
<1>8. Effects'
  <2> SUFFICES ASSUME pc' # "overflow", NEW x \in active
               PROVE  \E i \in DOMAIN typed' : Effect(x, i)'
    BY DEF Effects
  <2>1. PICK i \in DOMAIN typed : Effect(x, i)
    BY DEF Inv2, Effects
  <2>2. Effect(x, i)'
    BY <1>0, <2>1, EffectKept DEF LongTapKept
  <2> QED
    BY <2>2
<1> QED
  BY <1>2, <1>3, <1>4, <1>5, <1>6, <1>7, <1>8 DEF Kept2

LEMMA PressTakenKeeps ==
    ASSUME Inv2, Inv0', TapKind', NEW p \in Places, NEW s \in Record, NEW marked,
           PressTaken(p, s, marked), UNCHANGED <<build, now>>, pc # "overflow"
    PROVE  Kept2
<1> DEFINE j == At(p).press
           k == At(p).key
           role == Role(Kind[k], s.count)
<1>0. /\ Inv0 /\ k \in Keys /\ Kind' = Kind /\ Opaque' = Opaque /\ Opaque = {} /\ source = Kind
      /\ j \in DOMAIN typed /\ typed[j].key = k /\ DOMAIN typed = 1 .. Len(typed)
      /\ Len(typed) \in Nat /\ Kind \in [Keys -> Kinds]
  BY LineTypes, BuildTyped DEF Inv2, Roles, Kind, Opaque, Paired, Inv0, TypeOK
<1>1. PICK g : Carried(g, {p}, marked)
  BY DEF PressTaken
<1>2. /\ At(p).pressed /\ \A q \in Places : p <= q
      /\ s.key = k /\ s.pressed /\ s.press = j /\ process_record(s)
  BY DEF PressTaken, Alike
<1>3. /\ typed[j].role = "waiting"
      /\ \A q \in Places : At(q).pressed /\ q # p => At(q).press # j
      /\ \A i \in DOMAIN typed : i > j => typed[i].role = "waiting"
  BY <1>2, FirstPressWaits DEF Inv2
<1>4. CurrentKind(k) = Kind[k]
  BY <1>0, NoOpaque
<1>5. /\ role \in {"code", "hold"} /\ active' = active \cup {<<k, role>>}
      /\ source' = [source EXCEPT ![k] = Kind[k]] /\ SamePresses
      /\ \A i \in DOMAIN typed : i # j => typed'[i] = typed[i]
      /\ typed'[j].role = role
  BY <1>0, <1>2, <1>4, PressEffect
<1>6. DOMAIN typed' = DOMAIN typed
      /\ \A i \in DOMAIN typed : typed'[i].key = typed[i].key /\ typed'[i].up = typed[i].up
  BY <1>5 DEF SamePresses
<1>7. \A m \in marked :
         m \in Places /\ ~At(m).pressed /\ At(m).press = j /\ s.count = 1 /\ tapping_key' = s
  BY MarkedIsOwn
<1>8. \A q \in Places' :
         /\ g[q] \in Places /\ g[q] # p
         /\ At(q)'.key = At(g[q]).key /\ At(q)'.pressed = At(g[q]).pressed
         /\ At(q)'.press = At(g[q]).press
         /\ At(q)'.count = IF g[q] \in marked THEN 1 ELSE At(g[q]).count
  BY <1>1 DEF Carried, Alike
\* A tap: it is of a tap key, whose release is marked or which is decided.
<1>9. s.count > 0 => /\ tapping_key' = s /\ Kind[k] \in TapKinds /\ role = "code"
                     /\ (\E m \in Places : m \in marked) \/ s.count > 1
  <2> SUFFICES ASSUME s.count > 0
               PROVE  /\ tapping_key' = s /\ Kind[k] \in TapKinds /\ role = "code"
                      /\ (\E m \in Places : m \in marked) \/ s.count > 1
    OBVIOUS
  <2>1. At(p).count = 0
    BY <1>2 DEF Inv2, Inv1, Pressed
  <2>2. tapping_key' = s /\ ((\E m \in Places : m \in marked) \/ s.count > 1)
    BY <2>1 DEF PressTaken, TapAt
  <2>3. s # NoRecord
    BY <1>2, NoRecordTyped
  <2>4. Kind[k] \in TapKinds
    BY <1>0, <1>2, <2>2, <2>3 DEF TapKind
  <2>5. role = "code"
    BY <2>4 DEF Role, TapKinds
  <2> QED
    BY <2>2, <2>4, <2>5
<1>10. s.count \in Nat
  BY RecordFields
<1>11. Kind[k] \in TapKinds /\ role = "code" => s.count > 0
  BY <1>10 DEF Role, TapKinds
<1>12. Kind[k] \notin TapKinds => role = Role(Kind[k], 0)
  BY DEF Role
<1> HIDE DEF role
<1>13. /\ KeyOrder'
       /\ \A q \in Places' :
             /\ At(q)'.press \in DOMAIN typed' /\ typed'[At(q)'.press].key = At(q)'.key
             /\ ~At(q)'.pressed => typed'[At(q)'.press].up
  BY <1>1, <1>5, CarriedLine
<1>14. Paired'
  <2>1. ASSUME pc' # "overflow", NEW i \in DOMAIN typed', typed'[i].role = "waiting", typed'[i].up
        PROVE  \E q \in Places' : ~At(q)'.pressed /\ At(q)'.press = i
    <3>1. i \in DOMAIN typed /\ typed[i].role = "waiting" /\ typed[i].up
      BY <1>5, <1>6, <2>1
    <3>2. PICK q \in Places : ~At(q).pressed /\ At(q).press = i
      BY <3>1 DEF Inv2, Paired, Pending
    <3> QED
      BY <1>1, <1>2, <2>1, <3>2, CarriedPending
  <2> QED
    BY <1>13, <2>1 DEF Paired, Pending
<1>15. Follows'
  <2> SUFFICES ASSUME NEW q \in Places', NEW i \in DOMAIN typed', typed'[i].key = At(q)'.key,
                      typed'[i].role # "waiting"
               PROVE  i <= At(q)'.press
    BY DEF Follows
  <2>1. CASE i = j
    <3>1. p < g[q] /\ At(p).key = At(g[q]).key
      BY <1>0, <1>2, <1>6, <1>8, <2>1, LineTypes
    <3>2. Before(At(p), At(g[q]))
      BY <1>8, <3>1 DEF Inv2, KeyOrder
    <3> QED
      BY <1>8, <2>1, <3>2, LineTypes DEF Before
  <2>2. CASE i # j
    BY <1>5, <1>6, <1>8, <2>2 DEF Inv2, Follows
  <2> QED
    BY <2>1, <2>2
<1>16. Marks'
  <2> SUFFICES ASSUME NEW q \in Places',
                      At(q)'.pressed \/ typed'[At(q)'.press].role \in {"waiting", "hold"}
               PROVE  At(q)'.count = 0
    BY DEF Marks
  <2>1. g[q] \notin marked
    <3> SUFFICES ASSUME g[q] \in marked PROVE FALSE
      OBVIOUS
    <3>1. ~At(g[q]).pressed /\ At(g[q]).press = j /\ s.count = 1
      BY <1>7
    <3>2. typed'[j].role = "code"
      BY <1>5, <1>9, <3>1
    <3> QED
      BY <1>8, <3>1, <3>2
  <2>2. At(g[q]).press = j \/ typed'[At(g[q]).press] = typed[At(g[q]).press]
    BY <1>5, <1>8 DEF Inv2, Paired
  <2>3. At(g[q]).pressed \/ typed[At(g[q]).press].role \in {"waiting", "hold"}
    BY <1>3, <1>8, <2>2
  <2> QED
    BY <1>8, <2>1, <2>3 DEF Inv2, Marks
<1>17. LastTap'
  <2> SUFFICES ASSUME TapHeld'
               PROVE  /\ tapping_key'.press \in DOMAIN typed'
                      /\ typed'[tapping_key'.press].key = tapping_key'.key
                      /\ typed'[tapping_key'.press].role = "code"
                      /\ \A i \in DOMAIN typed' :
                            i > tapping_key'.press /\ typed'[i].key = tapping_key'.key
                                => typed'[i].role = "waiting"
    BY DEF LastTap
  <2>1. CASE s.count > 0
    <3>1. tapping_key'.press = j /\ tapping_key'.key = k /\ typed'[j].role = "code"
      BY <1>2, <1>5, <1>9, <2>1
    <3> QED
      BY <1>0, <1>3, <1>5, <1>6, <3>1
  <2>2. CASE ~(s.count > 0)
    <3>1. NoOtherTap /\ (Undecided \/ ~is_tap_record(At(p)))
      BY <1>10, <2>2 DEF PressTaken
    <3>2. TapHeld /\ tapping_key' = tapping_key /\ ~is_tap_record(At(p))
      BY <3>1 DEF NoOtherTap, TapHeld, Undecided
    <3>3. Kind[k] \notin TapKinds
      BY <1>0, <1>4, <3>2, BuildAssumption DEF is_tap_record
    <3>4. tapping_key.key # k
      BY <3>2, <3>3 DEF Inv2, TapKind, TapHeld
    <3>5. /\ tapping_key.press \in DOMAIN typed /\ typed[tapping_key.press].key = tapping_key.key
          /\ typed[tapping_key.press].role = "code"
          /\ \A i \in DOMAIN typed :
                i > tapping_key.press /\ typed[i].key = tapping_key.key => typed[i].role = "waiting"
      BY <3>2 DEF Inv2, LastTap
    <3> QED
      BY <1>0, <1>5, <1>6, <3>2, <3>4, <3>5
  <2> QED
    BY <2>1, <2>2
<1>18. Roles'
  <2>1. source' = Kind'
    BY <1>0, <1>5
  <2>2. ASSUME NEW i \in DOMAIN typed', typed'[i].role \in {"code", "hold"},
               Kind[typed'[i].key] \notin TapKinds
        PROVE  typed'[i].role = Role(Kind[typed'[i].key], 0)
    <3>1. CASE i = j
      BY <1>0, <1>5, <1>6, <1>12, <2>2, <3>1
    <3>2. CASE i # j
      BY <1>5, <1>6, <2>2, <3>2 DEF Inv2, Roles
    <3> QED
      BY <3>1, <3>2
  <2> QED
    BY <1>0, <2>1, <2>2 DEF Roles
<1>19. Effects'
  <2> SUFFICES ASSUME pc' # "overflow", NEW x \in active'
               PROVE  \E i \in DOMAIN typed' : Effect(x, i)'
    BY DEF Effects
  <2>1. CASE x \in active
    <3>1. PICK i \in DOMAIN typed : Effect(x, i)
      BY <2>1 DEF Inv2, Effects
    <3>2. i # j
      <4>1. x[2] \in {"code", "hold"}
        BY <1>0, <2>1 DEF Inv0, TypeOK
      <4> QED
        BY <1>3, <3>1, <4>1 DEF Effect
    <3>3. TapHeld /\ tapping_key.press = i /\ tapping_key.count > 1 => tapping_key' = tapping_key
      BY DEF PressTaken, LongTapKept
    <3>4. Effect(x, i)'
      BY <1>1, <1>2, <1>5, <3>1, <3>2, <3>3, EffectKept
    <3> QED
      BY <1>6, <3>4
  <2>2. CASE x = <<k, role>>
    <3>0. PICK i \in DOMAIN typed : i = j
      BY <1>0
    <3>1. typed'[i].key = x[1] /\ typed'[i].role = x[2]
      BY <1>0, <1>5, <1>6, <2>2, <3>0
    <3>2. ~typed'[i].up \/ Pending(i)'
      <4> SUFFICES ASSUME typed[i].up
                   PROVE  \E q \in Places' : ~At(q)'.pressed /\ At(q)'.press = i
        BY <1>6 DEF Pending
      <4>1. PICK q \in Places : ~At(q).pressed /\ At(q).press = i
        BY <1>3, <3>0 DEF Inv2, Paired, Pending
      <4> QED
        BY <1>1, <1>2, <4>1, CarriedPending
    <3>3. ASSUME Kind[x[1]] \in TapKinds, x[2] = "code"
          PROVE  \/ TapHeld' /\ tapping_key'.press = i /\ tapping_key'.count > 1
                 \/ \E q \in Places' : ~At(q)'.pressed /\ At(q)'.press = i /\ At(q)'.count > 0
      <4>1. s.count > 0
        BY <1>11, <2>2, <3>3
      <4>2. CASE s.count > 1
        BY <1>2, <1>9, <1>10, <3>0, <4>1, <4>2, NoRecordTyped DEF TapHeld
      <4>3. CASE \E m \in Places : m \in marked
        <5>1. PICK m \in Places : m \in marked
          BY <4>3
        <5>2. ~At(m).pressed /\ At(m).press = i
          BY <1>7, <3>0, <5>1
        <5>3. PICK q \in Places' : g[q] = m
          BY <1>1, <1>2, <5>2 DEF Carried
        <5>4. At(q)'.count = 1 /\ ~At(q)'.pressed /\ At(q)'.press = i
          BY <1>8, <5>1, <5>2, <5>3
        <5> QED
          BY <5>4
      <4> QED
        BY <1>9, <4>1, <4>2, <4>3
    <3>4. Effect(x, i)'
      BY <1>0, <3>1, <3>2, <3>3 DEF Effect
    <3> QED
      BY <1>6, <3>4
  <2> QED
    BY <1>5, <2>1, <2>2
<1> QED
  BY <1>13, <1>14, <1>15, <1>16, <1>17, <1>18, <1>19 DEF Kept2

LEMMA ReleaseTakenKeeps ==
    ASSUME Inv2, Inv0', NEW p \in Places, NEW s \in Record, ReleaseTaken(p, s),
           UNCHANGED <<build, now>>, pc # "overflow"
    PROVE  Kept2
<1> DEFINE j == At(p).press
           k == At(p).key
           role == Role(Kind[k], s.count)
<1>0. /\ Inv0 /\ k \in Keys /\ Kind' = Kind /\ Opaque' = Opaque /\ source = Kind
      /\ j \in DOMAIN typed /\ typed[j].key = k /\ DOMAIN typed = 1 .. Len(typed)
      /\ Len(typed) \in Nat /\ Kind \in [Keys -> Kinds]
  BY LineTypes, BuildTyped DEF Inv2, Roles, Kind, Opaque, Paired, Inv0, TypeOK
<1>1. PICK g : Carried(g, {p}, {})
  BY DEF ReleaseTaken
<1>2. /\ ~At(p).pressed /\ s.key = k /\ ~s.pressed /\ s.press = j /\ process_record(s)
      /\ \A q \in Places : q < p /\ At(q).pressed => At(q).key # k
  BY DEF ReleaseTaken, Alike
<1>3. active' = active \ {<<k, role>>} /\ source' = source /\ typed' = typed
  BY <1>0, <1>2, ReleaseEffect
<1>4. SamePresses
  BY <1>3 DEF SamePresses
<1>5. \A q \in Places' :
         /\ g[q] \in Places /\ g[q] # p
         /\ At(q)'.key = At(g[q]).key /\ At(q)'.pressed = At(g[q]).pressed
         /\ At(q)'.press = At(g[q]).press /\ At(q)'.count = At(g[q]).count
  BY <1>1 DEF Carried, Alike
<1>6. typed[j].role # "waiting"
  <2> SUFFICES ASSUME typed[j].role = "waiting" PROVE FALSE
    OBVIOUS
  <2>1. PICK q \in Places : At(q).pressed /\ At(q).press = j
    BY <1>0 DEF Inv2, Inv1, NoneLost
  <2>2. At(q).key = k
    BY <1>0, <2>1 DEF Inv2, Paired
  <2>3. ~(p < q)
    BY <1>2, <2>1, <2>2, LineTypes DEF Inv2, KeyOrder, Before
  <2>4. p # q
    BY <1>2, <2>1
  <2> QED
    BY <1>2, <2>1, <2>2, <2>3, <2>4, LineTypes
<1>7. /\ KeyOrder'
      /\ \A q \in Places' :
            /\ At(q)'.press \in DOMAIN typed' /\ typed'[At(q)'.press].key = At(q)'.key
            /\ ~At(q)'.pressed => typed'[At(q)'.press].up
  BY <1>1, <1>4, CarriedLine
<1>8. Paired'
  <2>1. ASSUME pc' # "overflow", NEW i \in DOMAIN typed', typed'[i].role = "waiting", typed'[i].up
        PROVE  \E q \in Places' : ~At(q)'.pressed /\ At(q)'.press = i
    <3>1. PICK q \in Places : ~At(q).pressed /\ At(q).press = i
      BY <1>3, <2>1 DEF Inv2, Paired, Pending
    <3>2. q # p
      BY <1>3, <1>6, <2>1, <3>1
    <3> QED
      BY <1>1, <2>1, <3>1, <3>2, CarriedPending
  <2> QED
    BY <1>7, <2>1 DEF Paired, Pending
<1>9. Follows'
  BY <1>3, <1>5 DEF Inv2, Follows
<1>10. Marks'
  BY <1>3, <1>5 DEF Inv2, Marks
<1>11. LastTap'
  BY <1>3 DEF Inv2, LastTap, NoOtherTap, ReleaseTaken
<1>12. Roles'
  BY <1>0, <1>3 DEF Inv2, Roles
\* The effect of the press is the one that ends.
<1>13. ASSUME NEW x \in active, Effect(x, j) PROVE x = <<k, role>>
  <2>1. x = <<k, x[2]>> /\ typed[j].role = x[2] /\ x[2] \in {"code", "hold"}
    BY <1>0, <1>13 DEF Effect, Inv0, TypeOK
  <2>2. CASE Kind[k] \notin TapKinds
    <3>1. x[2] = Role(Kind[k], 0)
      BY <1>0, <2>1, <2>2 DEF Inv2, Roles
    <3>2. role = Role(Kind[k], 0)
      BY <2>2 DEF Role
    <3> QED
      BY <2>1, <3>1, <3>2
  <2>3. CASE Kind[k] \in TapKinds /\ x[2] = "hold"
    <3>1. At(p).count = 0
      BY <2>1, <2>3 DEF Inv2, Marks
    <3>2. ~(TapHeld /\ IsTapping(s))
      <4> SUFFICES ASSUME TapHeld, tapping_key.key = k PROVE FALSE
        BY <1>2 DEF IsTapping
      <4>1. /\ tapping_key.press \in DOMAIN typed /\ typed[tapping_key.press].key = k
            /\ typed[tapping_key.press].role = "code"
            /\ \A i \in DOMAIN typed :
                  i > tapping_key.press /\ typed[i].key = k => typed[i].role = "waiting"
        BY DEF Inv2, LastTap
      <4>2. tapping_key.press <= j
        BY <4>1 DEF Inv2, Follows
      <4>3. tapping_key.press # j
        BY <2>1, <2>3, <4>1
      <4> QED
        BY <1>0, <1>6, <4>1, <4>2, <4>3
    <3>3. s.count = 0
      BY <3>1, <3>2 DEF ReleaseTaken
    <3>4. role = "hold"
      BY <2>3, <3>3 DEF Role, TapKinds
    <3> QED
      BY <2>1, <2>3, <3>4
  <2>4. CASE Kind[k] \in TapKinds /\ x[2] = "code"
    <3>1. s.count > 0
      <4>1. CASE TapHeld /\ IsTapping(s)
        BY <4>1, RecordFields DEF ReleaseTaken, TapHeld
      <4>2. CASE ~(TapHeld /\ IsTapping(s))
        <5>1. s.count = At(p).count
          BY <4>2 DEF ReleaseTaken
        <5>2. ~(TapHeld /\ tapping_key.press = j)
          <6>1. TapHeld /\ tapping_key.press = j => tapping_key.key = k
            BY <1>0 DEF Inv2, LastTap
          <6> QED
            BY <1>2, <4>2, <6>1 DEF IsTapping
        <5>3. PICK q \in Places : ~At(q).pressed /\ At(q).press = j /\ At(q).count > 0
          BY <1>13, <2>1, <2>4, <5>2 DEF Effect
        <5>4. q = p
          BY <1>2, <5>3, OnePlace, LineTypes
        <5> QED
          BY <5>1, <5>3, <5>4
      <4> QED
        BY <4>1, <4>2
    <3>2. role = "code"
      BY <2>4, <3>1 DEF Role, TapKinds
    <3> QED
      BY <2>1, <2>4, <3>2
  <2> QED
    BY <2>1, <2>2, <2>3, <2>4
<1>14. Effects'
  <2> SUFFICES ASSUME pc' # "overflow", NEW x \in active'
               PROVE  \E i \in DOMAIN typed' : Effect(x, i)'
    BY DEF Effects
  <2>1. x \in active /\ x # <<k, role>>
    BY <1>3
  <2>2. PICK i \in DOMAIN typed : Effect(x, i)
    BY <2>1 DEF Inv2, Effects
  <2>3. i # j
    BY <1>13, <2>1, <2>2
  <2>4. TapHeld /\ tapping_key.press = i /\ tapping_key.count > 1 => tapping_key' = tapping_key
    <3> SUFFICES ASSUME TapHeld, tapping_key.press = i, tapping_key.count > 1, IsTapping(s),
                        s.count = tapping_key.count
                 PROVE  FALSE
      BY DEF ReleaseTaken, LongTapKept
    <3>1. typed[i].key = k /\ typed[i].role = "code" /\ Kind[k] \in TapKinds
      BY <1>2 DEF Inv2, LastTap, TapKind, IsTapping, TapHeld
    <3>2. role = "code"
      <4>1. s.count > 0
        BY RecordFields
      <4> QED
        BY <3>1, <4>1 DEF Role, TapKinds
    <3>3. x = <<x[1], x[2]>>
      BY <1>0, <2>1 DEF Inv0, TypeOK
    <3> QED
      BY <2>1, <2>2, <3>1, <3>2, <3>3 DEF Effect
  <2>5. Effect(x, i)'
    BY <1>1, <1>3, <1>4, <2>2, <2>3, <2>4, EffectKept
  <2> QED
    BY <1>3, <2>5
<1> QED
  BY <1>7, <1>8, <1>9, <1>10, <1>11, <1>12, <1>14 DEF Kept2

LEMMA LastTapKeeps ==
    ASSUME Inv2, Inv0', LastTapReleased, UNCHANGED <<build, now>>, pc # "overflow"
    PROVE  Kept2
<1> DEFINE s == [tapping_key EXCEPT !.pressed = FALSE]
           k == tapping_key.key
<1>0. /\ Inv0 /\ Kind' = Kind /\ Opaque' = Opaque /\ source = Kind
      /\ tapping_key \in Record /\ k \in Keys /\ Kind[k] \in TapKinds
  BY DEF Inv2, Inv1, Inv0, TypeOK, KeysKnown, Roles, Kind, Opaque, TapKind, LastTapReleased, TapHeld
<1>1. /\ Carried(Stay, {}, {}) /\ TapHeld /\ tapping_key.count > 1 /\ tapping_key' = NoRecord
      /\ process_record(s)
  BY DEF LastTapReleased
<1>2. s \in Record /\ s.key = k /\ ~s.pressed /\ s.count = tapping_key.count
  BY <1>0 DEF Record
<1> HIDE DEF s
<1>3. active' = active \ {<<k, Role(Kind[k], s.count)>>} /\ source' = source /\ typed' = typed
  BY <1>0, <1>1, <1>2, ReleaseEffect
<1>4. Role(Kind[k], s.count) = "code"
  <2>1. s.count > 0
    BY <1>0, <1>1, <1>2, RecordFields
  <2> QED
    BY <1>0, <2>1 DEF Role, TapKinds
<1>5. SamePresses
  BY <1>3 DEF SamePresses
<1>6. \A q \in Places' :
         /\ Stay[q] \in Places /\ At(q)'.key = At(Stay[q]).key
         /\ At(q)'.pressed = At(Stay[q]).pressed
         /\ At(q)'.press = At(Stay[q]).press /\ At(q)'.count = At(Stay[q]).count
  BY <1>1 DEF Carried, Alike
<1>7. /\ KeyOrder'
      /\ \A q \in Places' :
            /\ At(q)'.press \in DOMAIN typed' /\ typed'[At(q)'.press].key = At(q)'.key
            /\ ~At(q)'.pressed => typed'[At(q)'.press].up
  BY <1>1, <1>5, CarriedLine
<1>8. Paired'
  <2>1. ASSUME pc' # "overflow", NEW i \in DOMAIN typed', typed'[i].role = "waiting", typed'[i].up
        PROVE  \E q \in Places' : ~At(q)'.pressed /\ At(q)'.press = i
    <3>1. PICK q \in Places : ~At(q).pressed /\ At(q).press = i
      BY <1>3, <2>1 DEF Inv2, Paired, Pending
    <3> QED
      BY <1>1, <2>1, <3>1, CarriedPending
  <2> QED
    BY <1>7, <2>1 DEF Paired, Pending
<1>9. Follows'
  BY <1>3, <1>6 DEF Inv2, Follows
<1>10. Marks'
  BY <1>3, <1>6 DEF Inv2, Marks
<1>11. LastTap'
  BY <1>1, NoRecordDecided DEF LastTap
<1>12. Roles'
  BY <1>0, <1>3 DEF Inv2, Roles
<1>13. Effects'
  <2> SUFFICES ASSUME pc' # "overflow", NEW x \in active'
               PROVE  \E i \in DOMAIN typed' : Effect(x, i)'
    BY DEF Effects
  <2>1. x \in active /\ x # <<k, "code">> /\ x = <<x[1], x[2]>>
    BY <1>0, <1>3, <1>4 DEF Inv0, TypeOK
  <2>2. PICK i \in DOMAIN typed : Effect(x, i)
    BY <2>1 DEF Inv2, Effects
  <2>3. tapping_key.press # i
    <3>1. /\ typed[tapping_key.press].key = k /\ typed[tapping_key.press].role = "code"
      BY <1>1 DEF Inv2, LastTap
    <3> QED
      BY <2>1, <2>2, <3>1 DEF Effect
  <2>4. Effect(x, i)'
    BY <1>1, <1>3, <1>5, <2>2, <2>3, EffectKept
  <2> QED
    BY <1>3, <2>4
<1> QED
  BY <1>7, <1>8, <1>9, <1>10, <1>11, <1>12, <1>13 DEF Kept2

LEMMA ShapeKeeps ==
    ASSUME Inv2, Inv0', TapKind', Shape, UNCHANGED <<build, now>>, pc # "overflow"
    PROVE  Kept2
<1>1. CASE Silent
  BY <1>1, SilentKeeps DEF Silent, NothingProcessed
<1> QED
  BY <1>1, PressTakenKeeps, ReleaseTakenKeeps, LastTapKeeps DEF Shape

\* The timer goes round once while an event waits.
TimerWraps == \E p \in Places : (now' - At(p).time) % TimerRange < Age(At(p))

\* clear_keyboard leaves a layer on.
LayerForgotten ==
    /\ pc = "overflow"
    /\ \E x \in active : x[2] = "hold" /\ source[x[1]] \in {"layer", "layertap"}

\* A new event at the end of the line, of press "press" of key k.
LEMMA NewEventKeeps ==
    ASSUME Inv2, Inv0', pc = "ready", pc' = "process",
           UNCHANGED <<build, tapping_key, waiting_buffer, active, source, now>>,
           NEW k \in Keys, NEW press \in DOMAIN typed', NEW pressed \in BOOLEAN,
           record'.key = k, record'.pressed = pressed, record'.press = press,
           record'.time = now, record'.count = 0,
           DOMAIN typed \subseteq DOMAIN typed',
           \A i \in DOMAIN typed' :
               IF i \in DOMAIN typed
               THEN /\ typed'[i].key = typed[i].key /\ typed'[i].role = typed[i].role
                    /\ typed'[i].up <=> (typed[i].up \/ (i = press /\ ~pressed))
               ELSE i = press /\ pressed /\ ~typed'[i].up /\ typed'[i].role = "waiting",
           pressed <=> press \notin DOMAIN typed,
           typed'[press].key = k, ~pressed => ~typed[press].up,
           \A i \in DOMAIN typed : typed[i].key = k => i < press \/ (i = press /\ ~pressed),
           \A i \in DOMAIN typed : pressed => i < press
    PROVE  Kept2 /\ NoTap' /\ TapKind'
<1>0. /\ Kind' = Kind /\ Opaque' = Opaque /\ DOMAIN typed \subseteq Nat /\ press \in Nat
      /\ DOMAIN typed' \subseteq Nat
  BY DEF Kind, Opaque, Inv2, Inv1, Inv0, TypeOK
<1>1. ~IsTick(record')
  BY BuildAssumption DEF IsTick
<1>2. /\ \A p \in Places : p \in Places' /\ p <= Len(waiting_buffer) /\ At(p)' = At(p)
      /\ \A p \in Places' : \/ p \in Places
                            \/ p = Len(waiting_buffer) + 1 /\ At(p)' = record'
      /\ \E p \in Places' : p = Len(waiting_buffer) + 1 /\ At(p)' = record'
  <2>1. /\ \A p \in Places : p \in Places' /\ p <= Len(waiting_buffer) /\ At(p)' = At(p)
        /\ \A p \in Places' : \/ p \in Places
                              \/ /\ p = Len(waiting_buffer) + 1 /\ ~IsTick(record')
                                 /\ At(p)' = record'
        /\ ~IsTick(record') => \E p \in Places' : p = Len(waiting_buffer) + 1 /\ At(p)' = record'
    BY LineTypes, NewPlaces
  <2> QED
    BY <1>1, <2>1
<1>3. PICK e \in Places' : e = Len(waiting_buffer) + 1 /\ At(e)' = record'
  BY <1>2
<1>4. /\ e \in Nat /\ Len(waiting_buffer) \in Nat /\ e \notin Places
      /\ \A p \in Places : p < e
      /\ \A p \in Places' : p \in Places \/ p = e
  BY <1>2, <1>3, LineTypes, BufferTypes
\* The presses in the line are old.
<1>5. \A p \in Places : /\ At(p).press \in DOMAIN typed /\ typed[At(p).press].key = At(p).key
                        /\ ~At(p).pressed => typed[At(p).press].up
  BY DEF Inv2, Paired
<1>6. Paired'
  <2>1. ASSUME NEW p \in Places'
        PROVE  /\ At(p)'.press \in DOMAIN typed' /\ typed'[At(p)'.press].key = At(p)'.key
               /\ ~At(p)'.pressed => typed'[At(p)'.press].up
    <3>1. CASE p \in Places
      BY <1>2, <1>5, <3>1
    <3>2. CASE p = e
      BY <1>3, <3>2
    <3> QED
      BY <1>4, <2>1, <3>1, <3>2
  <2>2. ASSUME NEW i \in DOMAIN typed', typed'[i].role = "waiting", typed'[i].up
        PROVE  \E p \in Places' : ~At(p)'.pressed /\ At(p)'.press = i
    <3>1. i \in DOMAIN typed
      BY <2>2
    <3>2. CASE typed[i].up
      <4>1. PICK q \in Places : ~At(q).pressed /\ At(q).press = i
        BY <2>2, <3>1, <3>2 DEF Inv2, Paired, Pending
      <4> QED
        BY <1>2, <4>1
    <3>3. CASE ~typed[i].up
      BY <1>3, <2>2, <3>1, <3>3
    <3> QED
      BY <3>2, <3>3
  <2> QED
    BY <2>1, <2>2 DEF Paired, Pending
<1>7. KeyOrder'
  <2> SUFFICES ASSUME NEW p \in Places', NEW q \in Places', p < q
               PROVE  /\ (now' - At(p)'.time) % TimerRange >= (now' - At(q)'.time) % TimerRange
                      /\ At(p)'.key = At(q)'.key => Before(At(p)', At(q)')
    BY DEF KeyOrder, Age, Before
  <2>1. p \in Places /\ At(p)' = At(p)
    <3>1. \A n \in Places : n \in Nat
      BY LineTypes
    <3>2. p # e
      <4> SUFFICES ASSUME p = e PROVE FALSE
        OBVIOUS
      <4>1. e < q /\ q # e
        BY <1>4, LineTypes
      <4>2. q \in Places
        BY <1>4, <4>1
      <4>3. q < e /\ q \in Nat
        BY <1>4, <3>1, <4>2
      <4> QED
        BY <1>4, <4>1, <4>3
    <3> QED
      BY <1>2, <1>4, <3>2
  <2>2. CASE q \in Places
    <3>1. Age(At(p)) >= Age(At(q)) /\ (At(p).key = At(q).key => Before(At(p), At(q)))
      BY <2>1, <2>2 DEF Inv2, KeyOrder
    <3> QED
      BY <1>2, <2>1, <2>2, <3>1 DEF Age, Before
  <2>3. CASE q = e
    <3>1. (now' - At(q)'.time) % TimerRange = 0
      <4>1. (now - now) % TimerRange = 0
        BY Modulo, LineTypes
      <4> QED
        BY <1>3, <2>3, <4>1
    <3>2. Age(At(p)) >= 0
      BY <2>1, LineTypes
    <3>3. At(p).key = k => Before(At(p), record')
      <4> SUFFICES ASSUME At(p).key = k PROVE Before(At(p), record')
        OBVIOUS
      <4>1. At(p).press \in DOMAIN typed /\ typed[At(p).press].key = k
        BY <1>5, <2>1
      <4>2. CASE At(p).press < press
        BY <4>2 DEF Before
      <4>3. CASE At(p).press = press /\ ~pressed
        BY <1>5, <2>1, <4>3 DEF Before
      <4> QED
        BY <4>1, <4>2, <4>3
    <3> QED
      BY <1>3, <2>1, <2>3, <3>1, <3>2, <3>3 DEF Age, Before
  <2> QED
    BY <1>4, <2>2, <2>3
<1>8. Follows'
  <2> SUFFICES ASSUME NEW p \in Places', NEW i \in DOMAIN typed', typed'[i].key = At(p)'.key,
                      typed'[i].role # "waiting"
               PROVE  i <= At(p)'.press
    BY DEF Follows
  <2>1. i \in DOMAIN typed /\ typed[i].key = typed'[i].key /\ typed[i].role # "waiting"
    OBVIOUS
  <2>2. CASE p \in Places
    BY <1>2, <2>1, <2>2 DEF Inv2, Follows
  <2>3. CASE p = e
    BY <1>0, <1>3, <2>1, <2>3
  <2> QED
    BY <1>4, <2>2, <2>3
<1>9. Marks'
  <2> SUFFICES ASSUME NEW p \in Places',
                      At(p)'.pressed \/ typed'[At(p)'.press].role \in {"waiting", "hold"}
               PROVE  At(p)'.count = 0
    BY DEF Marks
  <2>1. CASE p \in Places
    BY <1>2, <1>5, <2>1 DEF Inv2, Marks
  <2>2. CASE p = e
    BY <1>3, <2>2
  <2> QED
    BY <1>4, <2>1, <2>2
<1>10. LastTap'
  <2>1. TapHeld' = TapHeld
    BY DEF TapHeld
  <2> QED
    BY <1>0, <2>1 DEF Inv2, LastTap
<1>11. Roles'
  BY <1>0 DEF Inv2, Roles
<1>12. Effects'
  <2> SUFFICES ASSUME NEW x \in active PROVE \E i \in DOMAIN typed' : Effect(x, i)'
    BY DEF Effects
  <2>1. PICK i \in DOMAIN typed : Effect(x, i)
    BY DEF Inv2, Effects
  <2>2. i \in DOMAIN typed' /\ typed'[i].key = x[1] /\ typed'[i].role = x[2]
    BY <2>1 DEF Effect
  <2>3. Pending(i) => Pending(i)'
    BY <1>2 DEF Pending
  <2>4. ~typed'[i].up \/ Pending(i)'
    <3>1. CASE i = press /\ ~pressed
      BY <1>3, <3>1 DEF Pending
    <3>2. CASE ~(i = press /\ ~pressed)
      BY <2>1, <2>3, <3>2 DEF Effect
    <3> QED
      BY <3>1, <3>2
  <2>5. ASSUME NEW q \in Places, ~At(q).pressed, At(q).press = i, At(q).count > 0
        PROVE  \E p \in Places' : ~At(p)'.pressed /\ At(p)'.press = i /\ At(p)'.count > 0
    BY <1>2, <2>5
  <2>6. Effect(x, i)'
    BY <1>0, <2>1, <2>2, <2>4, <2>5 DEF Effect, TapHeld
  <2> QED
    BY <2>2, <2>6
<1>13. NoTap' /\ TapKind'
  BY <1>0 DEF Inv2, NoTap, TapKind, Undecided, TapsWaiting
<1> QED
  BY <1>6, <1>7, <1>8, <1>9, <1>10, <1>11, <1>12, <1>13 DEF Kept2

LEMMA KeyDownKeeps ==
    ASSUME Inv2, Inv1', NEW k \in Keys, KeyDown(k)
    PROVE  Inv2'
<1>1. /\ Inv0 /\ Inv0' /\ typed \in Seq(Press) /\ Len(typed) \in Nat
      /\ DOMAIN typed = 1 .. Len(typed)
  BY DEF Inv2, Inv1, Inv0, TypeOK
<1>2. /\ pc = "ready" /\ pc' = "process"
      /\ UNCHANGED <<build, tapping_key, waiting_buffer, active, source, now>>
      /\ record' = MakeEvent(k, TRUE, Len(typed) + 1)
  BY DEF KeyDown, NewRecord
<1>3. /\ DOMAIN typed' = 1 .. Len(typed) + 1
      /\ \A i \in DOMAIN typed : typed'[i] = typed[i]
      /\ typed'[Len(typed) + 1].role = "waiting" /\ typed'[Len(typed) + 1].key = k
      /\ ~typed'[Len(typed) + 1].up
  BY <1>1 DEF KeyDown
<1>4. PICK press \in DOMAIN typed' : press = Len(typed) + 1
  BY <1>1, <1>3
<1>5. /\ record'.key = k /\ record'.pressed /\ record'.pressed = TRUE /\ record'.press = press
      /\ record'.time = now /\ record'.count = 0
  BY <1>2, <1>4 DEF MakeEvent
<1>6. /\ press \notin DOMAIN typed /\ DOMAIN typed \subseteq DOMAIN typed'
      /\ \A i \in DOMAIN typed : i < press
      /\ typed'[press].key = k
  BY <1>1, <1>3, <1>4
<1>7. \A i \in DOMAIN typed' :
          IF i \in DOMAIN typed
          THEN /\ typed'[i].key = typed[i].key /\ typed'[i].role = typed[i].role
               /\ typed'[i].up <=> (typed[i].up \/ (i = press /\ ~TRUE))
          ELSE i = press /\ TRUE /\ ~typed'[i].up /\ typed'[i].role = "waiting"
  BY <1>1, <1>3, <1>4
<1>8. Kept2 /\ NoTap' /\ TapKind'
  BY <1>1, <1>2, <1>5, <1>6, <1>7, NewEventKeeps
<1> QED
  BY <1>8 DEF Inv2, Kept2

LEMMA KeyUpKeeps ==
    ASSUME Inv2, Inv1', NEW k \in Keys, KeyUp(k)
    PROVE  Inv2'
<1>1. /\ Inv0 /\ Inv0' /\ DOMAIN typed = 1 .. Len(typed) /\ Len(typed) \in Nat
      /\ DOMAIN typed' = DOMAIN typed
      /\ \A i \in DOMAIN typed :
            /\ typed'[i].key = typed[i].key /\ typed'[i].role = typed[i].role
            /\ typed'[i].up <=> (typed[i].up \/ i = Held(k))
  BY KeyUpTyped, LineTypes DEF Inv1
<1>2. /\ pc = "ready" /\ pc' = "process" /\ k \in down
      /\ UNCHANGED <<build, tapping_key, waiting_buffer, active, source, now>>
      /\ record' = MakeEvent(k, FALSE, Held(k))
  BY DEF KeyUp, NewRecord
<1>3. PICK press \in DOMAIN typed : press = Held(k)
  BY <1>1, <1>2, HeldIs
<1>4. /\ typed[press].key = k /\ ~typed[press].up
      /\ \A i \in DOMAIN typed : typed[i].key = k /\ ~typed[i].up => i = press
  BY <1>1, <1>2, <1>3, HeldIs
<1>5. /\ record'.key = k /\ ~record'.pressed /\ record'.pressed = FALSE /\ record'.press = press
      /\ record'.time = now /\ record'.count = 0
  BY <1>2, <1>3 DEF MakeEvent
<1>6. \A i \in DOMAIN typed : typed[i].key = k => i < press \/ i = press
  BY <1>1, <1>4 DEF Inv0, Fingers
<1>7. \A i \in DOMAIN typed' :
          IF i \in DOMAIN typed
          THEN /\ typed'[i].key = typed[i].key /\ typed'[i].role = typed[i].role
               /\ typed'[i].up <=> (typed[i].up \/ (i = press /\ ~FALSE))
          ELSE i = press /\ FALSE /\ ~typed'[i].up /\ typed'[i].role = "waiting"
  BY <1>1, <1>3
<1>8. /\ press \in DOMAIN typed' /\ DOMAIN typed \subseteq DOMAIN typed'
      /\ typed'[press].key = k
  BY <1>1, <1>4
<1>9. Kept2 /\ NoTap' /\ TapKind'
  BY <1>1, <1>2, <1>4, <1>5, <1>6, <1>7, <1>8, NewEventKeeps
<1> QED
  BY <1>9 DEF Inv2, Kept2

\* A tick makes every event that waits older by the gap.
LEMMA AgesGrow ==
    ASSUME Inv2, NEW gap \in Gaps, Tick(gap), ~TimerWraps
    PROVE  \A p \in Places : (now' - At(p).time) % TimerRange = Age(At(p)) + gap
<1>0. /\ now' = (now + gap) % TimerRange /\ gap \in 1 .. TimerRange - 1
      /\ TimerRange \in Nat
  BY TermAssumption DEF Tick
<1> SUFFICES ASSUME NEW p \in Places
             PROVE  (now' - At(p).time) % TimerRange = Age(At(p)) + gap
  OBVIOUS
<1>1. At(p).time \in 0 .. TimerRange - 1 /\ now \in 0 .. TimerRange - 1
  BY LineTypes
<1>2. now' = IF now + gap < TimerRange THEN now + gap ELSE now + gap - TimerRange
  BY <1>0, <1>1, RoundOnce
<1>3. now' \in 0 .. TimerRange - 1
  BY <1>0, <1>1, <1>2
<1>4. /\ Age(At(p)) = IF now >= At(p).time THEN now - At(p).time
                      ELSE now - At(p).time + TimerRange
      /\ (now' - At(p).time) % TimerRange = IF now' >= At(p).time THEN now' - At(p).time
                                            ELSE now' - At(p).time + TimerRange
  BY <1>1, <1>3, Modulo DEF Age
<1>5. (now' - At(p).time) % TimerRange >= Age(At(p))
  <2>1. ~((now' - At(p).time) % TimerRange < Age(At(p)))
    BY DEF TimerWraps
  <2> QED
    BY <1>0, <1>1, <1>3, <1>4, <2>1
<1> QED
  BY <1>0, <1>1, <1>2, <1>4, <1>5

\* The line and the history are as before and everything is as old as before or
\* older by the same time.
LEMMA TickKeeps ==
    ASSUME Inv2, Inv1', NEW gap \in Gaps, Tick(gap), ~TimerWraps
    PROVE  Inv2'
<1>1. /\ Inv0 /\ Inv0' /\ DOMAIN typed' = DOMAIN typed
      /\ \A i \in DOMAIN typed :
            /\ typed'[i].key = typed[i].key /\ typed'[i].up = typed[i].up
            /\ typed'[i].role = typed[i].role
  BY TickTyped DEF Inv2, Inv1, SamePresses
<1>2. /\ pc = "ready" /\ pc' = "process" /\ IsTick(record')
      /\ UNCHANGED <<build, tapping_key, waiting_buffer, active, source>>
      /\ now' = (now + gap) % TimerRange /\ gap \in 1 .. TimerRange - 1
      /\ TimerRange \in Nat
  BY TermAssumption DEF Tick, NewRecord, MakeEvent, IsTick
<1>3. /\ \A p \in Places : p \in Places' /\ At(p)' = At(p)
      /\ \A p \in Places' : p \in Places
  <2>1. /\ \A p \in Places : p \in Places' /\ p <= Len(waiting_buffer) /\ At(p)' = At(p)
        /\ \A p \in Places' : \/ p \in Places
                              \/ /\ p = Len(waiting_buffer) + 1 /\ ~IsTick(record')
                                 /\ At(p)' = record'
        /\ ~IsTick(record') => \E p \in Places' : p = Len(waiting_buffer) + 1 /\ At(p)' = record'
    BY <1>1, <1>2, NewPlaces
  <2> QED
    BY <1>2, <2>1
<1>4. \A i \in DOMAIN typed : Pending(i) <=> Pending(i)'
  BY <1>3 DEF Pending
<1>5. \A p \in Places : (now' - At(p).time) % TimerRange = Age(At(p)) + gap
  BY AgesGrow
<1>6. KeyOrder'
  <2> SUFFICES ASSUME NEW p \in Places, NEW q \in Places, p < q
               PROVE  /\ (now' - At(p).time) % TimerRange >= (now' - At(q).time) % TimerRange
                      /\ At(p).key = At(q).key => Before(At(p), At(q))
    BY <1>3 DEF KeyOrder, Age, Before
  <2>1. Age(At(p)) >= Age(At(q)) /\ (At(p).key = At(q).key => Before(At(p), At(q)))
    BY DEF Inv2, KeyOrder
  <2>2. Age(At(p)) \in Nat /\ Age(At(q)) \in Nat /\ gap \in Nat
    BY <1>2, LineTypes
  <2> QED
    BY <1>5, <2>1, <2>2
<1>7. Kind' = Kind /\ Opaque' = Opaque /\ TapHeld' = TapHeld
  BY <1>2 DEF Kind, Opaque, TapHeld
<1>8. Paired'
  BY <1>1, <1>2, <1>3, <1>4 DEF Inv2, Paired
<1>9. Follows' /\ Marks'
  <2>1. Follows'
    BY <1>1, <1>3 DEF Inv2, Follows
  <2>2. Marks'
    <3>1. \A p \in Places : At(p).press \in DOMAIN typed
      BY DEF Inv2, Paired
    <3> QED
      BY <1>1, <1>3, <3>1 DEF Inv2, Marks
  <2> QED
    BY <2>1, <2>2
<1>10. LastTap' /\ Roles' /\ NoTap' /\ TapKind'
  <2>1. LastTap'
    BY <1>1, <1>2, <1>7 DEF Inv2, LastTap
  <2>2. Roles'
    BY <1>1, <1>2, <1>7 DEF Inv2, Roles
  <2>3. NoTap' /\ TapKind'
    BY <1>2, <1>7 DEF Inv2, NoTap, TapKind, Undecided, TapsWaiting
  <2> QED
    BY <2>1, <2>2, <2>3
<1>11. Effects'
  <2> SUFFICES ASSUME NEW x \in active PROVE \E i \in DOMAIN typed : Effect(x, i)'
    BY <1>1, <1>2 DEF Effects
  <2>1. PICK i \in DOMAIN typed : Effect(x, i)
    BY <1>2 DEF Inv2, Effects
  <2>2. (\E p \in Places : ~At(p).pressed /\ At(p).press = i /\ At(p).count > 0)
           => \E p \in Places' : ~At(p)'.pressed /\ At(p)'.press = i /\ At(p)'.count > 0
    BY <1>3
  <2>3. Effect(x, i)'
    BY <1>1, <1>2, <1>4, <1>7, <2>1, <2>2 DEF Effect
  <2> QED
    BY <2>3
<1> QED
  BY <1>6, <1>8, <1>9, <1>10, <1>11 DEF Inv2

LEMMA OverflowKeeps ==
    ASSUME Inv2, Inv1', Overflow, ~LayerForgotten
    PROVE  Inv2'
<1>1. /\ SamePresses /\ Places' = {}
      /\ \A i \in DOMAIN typed :
            typed'[i].role = IF typed[i].role = "waiting" THEN "dropped" ELSE typed[i].role
  BY OverflowTyped, OverflowOrder DEF Inv2, Inv1
<1>2. /\ waiting_buffer' = <<>> /\ tapping_key' = NoRecord /\ source' = source /\ build' = build
      /\ active' = {x \in active : x[2] = "hold" /\ source[x[1]] \in {"layer", "layertap"}}
      /\ pc = "overflow"
  BY DEF Overflow, clear_keyboard, Return
<1>3. active' = {}
  BY <1>2 DEF LayerForgotten
<1>4. Paired' /\ KeyOrder' /\ Follows' /\ Marks' /\ Effects'
  <2>1. \A i \in DOMAIN typed' : typed'[i].role # "waiting"
    BY <1>1 DEF SamePresses
  <2> QED
    BY <1>1, <1>3, <2>1 DEF Paired, KeyOrder, Follows, Marks, Effects
<1>5. LastTap' /\ NoTap' /\ TapKind'
  BY <1>2, NoRecordDecided DEF LastTap, NoTap, TapKind
<1>6. Roles'
  <2>1. Kind' = Kind /\ Opaque' = Opaque
    BY <1>2 DEF Kind, Opaque
  <2> QED
    BY <1>1, <1>2, <2>1 DEF Inv2, Roles, SamePresses
<1> QED
  BY <1>4, <1>5, <1>6 DEF Inv2

LEMMA IdleKeeps ==
    ASSUME Inv2, Inv1', Drained \/ UNCHANGED vars
    PROVE  Inv2'
<1>1. CASE UNCHANGED vars
  BY <1>1 DEF vars, Inv2, NoTap, TapKind, Paired, KeyOrder, Follows, Marks, LastTap, Roles,
     Effects, Effect, Pending, Places, At, Age, Before, Undecided, TapHeld, TapsWaiting, Kind,
     Opaque, IsTick
<1>2. CASE Drained
  <2>1. /\ UNCHANGED <<build, now, typed, source, active, tapping_key, waiting_buffer>>
        /\ pc # "overflow"
    BY <1>2 DEF Drained
  <2>2. Carried(Stay, {}, {}) /\ Inv0'
    BY <1>2, IdleOrder DEF Inv2, Inv1
  <2>3. Kept2
    BY <2>1, <2>2, SilentKeeps DEF LongTapKept, NoOtherTap, TapHeld
  <2>4. NoTap' /\ TapKind'
    BY <2>1 DEF Inv2, NoTap, TapKind, Undecided, TapsWaiting, Kind
  <2> QED
    BY <2>3, <2>4 DEF Inv2, Kept2
<1> QED
  BY <1>1, <1>2

\* What disturbs the pairing of presses and releases, and what TLC finds in each
\* of these cases: a key event overtakes the buffer (MCTapOvertaken); a tap key
\* begins again unscanned (MCTapUnscanned); an event waits for a whole round of
\* the 16-bit timer, and its age is taken for a small one; an overflow clears
\* the keyboard and a layer stays on (MCTapOverflow).
Undisturbed == ~Overtaking /\ ~NotScanned /\ ~TimerWraps /\ ~LayerForgotten

LEMMA NextKeeps ==
    ASSUME Inv2, [Next]_vars, [Undisturbed]_vars
    PROVE  Inv2'
<1>0. Inv1' /\ Inv0' /\ Inv0
  <2>1. [~Overtaking]_vars
    BY DEF Undisturbed
  <2> QED
    BY <2>1, NextOrder DEF Inv2, Inv1
<1>1. ASSUME NEW k \in Keys, KeyDown(k) \/ KeyUp(k)
      PROVE  Inv2'
  BY <1>0, <1>1, KeyDownKeeps, KeyUpKeeps
<1>2. ASSUME NEW gap \in Gaps, Tick(gap)
      PROVE  Inv2'
  <2>1. ~TimerWraps
    BY <1>2 DEF Tick, NewRecord, vars, Undisturbed
  <2> QED
    BY <1>0, <1>2, <2>1, TickKeeps
<1>3. ASSUME NEW r \in Called, Process(r), UNCHANGED vars \/ Undisturbed
      PROVE  Inv2'
  <2>1. CASE UNCHANGED vars
    BY <1>0, <2>1, IdleKeeps
  <2>2. CASE Undisturbed
    <3>1. Inv0 /\ Alone /\ Pressed /\ NoTap /\ TapKind /\ Opaque = {}
      BY DEF Inv2, Inv1, Roles
    <3>2. pc # "overflow"
      BY <1>3, <3>1, ProcessAlone
    <3>3. Shape
      BY <1>0, <1>3, <3>1, ProcessShape
    <3>4. NoTap' /\ TapKind'
      BY <1>0, <1>3, <2>2, <3>1, ProcessTap DEF Undisturbed
    <3>5. UNCHANGED <<build, now>>
      BY <1>3, ProcessKeeps
    <3>6. Kept2
      BY <1>0, <3>2, <3>3, <3>4, <3>5, ShapeKeeps
    <3> QED
      BY <1>0, <3>4, <3>6 DEF Inv2, Kept2
  <2> QED
    BY <1>3, <2>1, <2>2
<1>4. CASE Overflow
  <2>1. ~LayerForgotten
    BY <1>4 DEF Overflow, vars, Undisturbed
  <2> QED
    BY <1>0, <1>4, <2>1, OverflowKeeps
<1>5. CASE Drained \/ UNCHANGED vars
  BY <1>0, <1>5, IdleKeeps
<1> QED
  BY <1>1, <1>2, <1>3, <1>4, <1>5 DEF Next

LEMMA InitKeeps ==
    ASSUME Init, Opaque = {}
    PROVE  Inv2
<1>1. Inv1
  BY InitOrder
<1>2. /\ Places = {} /\ typed = <<>> /\ active = {} /\ source = Kind /\ tapping_key = NoRecord
      /\ ~Undecided /\ ~TapHeld /\ Opaque = {}
  BY NoRecordTyped DEF Init, Places, Undecided, TapHeld
<1> QED
  BY <1>1, <1>2 DEF Inv2, NoTap, TapKind, Paired, KeyOrder, Follows, Marks, LastTap, Roles,
     Effects

LEMMA NothingOn ==
    ASSUME Inv2
    PROVE  NoStuckKey
<1> SUFFICES ASSUME pc = "ready", down = {}, waiting_buffer = <<>>, NEW x \in active
             PROVE  FALSE
  BY DEF NoStuckKey
<1>1. PICK i \in DOMAIN typed : Effect(x, i)
  BY DEF Inv2, Effects
<1>2. typed[i].up
  BY DEF Inv2, Inv1, Inv0, Fingers
<1>3. PICK p \in Places : ~At(p).pressed
  BY <1>1, <1>2 DEF Effect, Pending
<1>4. p = 0 /\ Undecided
  BY DEF Places
<1> QED
  BY <1>3, <1>4 DEF At, Undecided

\* Once all keys are up and the buffer is empty, nothing is on: whatever
\* process_tapping buffers, retains or processes out of turn, the release it
\* pairs with a press ends the effect of that press, in every keymap without a
\* layer key that has another key in its place on its own layer (MCTapOpaque),
\* with every timing in which nothing disturbs the line.
THEOREM NoKeySticks ==
    Spec /\ Opaque = {} /\ [][Undisturbed]_vars => []NoStuckKey
<1>1. Init /\ Opaque = {} => Inv2
  BY InitKeeps
<1>2. Inv2 /\ [Next]_vars /\ [Undisturbed]_vars => Inv2'
  BY NextKeeps
<1>3. Inv2 => NoStuckKey
  BY NothingOn
<1> QED
  BY <1>1, <1>2, <1>3, PTL DEF Spec

-----------------------------------------------------------------------------
(***************************************************************************)
(* Which keys were down when a key was pressed                             *)
(***************************************************************************)
\* The presses under press j are earlier ones; those whose key is still down are
\* among them.
UnderEarlier ==
    \A j \in DOMAIN typed :
        /\ \A i \in typed[j].under : i \in DOMAIN typed /\ i < j
        /\ \A i \in DOMAIN typed : i < j /\ ~typed[i].up => i \in typed[j].under

\* A press in the line was made under an earlier one whose release is in the
\* line as well exactly if it stands before that release.
UnderLine ==
    \A p, q \in Places :
        At(p).pressed /\ ~At(q).pressed /\ At(q).press < At(p).press
            => (At(q).press \in typed[At(p).press].under <=> p < q)

Inv3 == Inv2 /\ UnderEarlier /\ UnderLine

LEMMA CarriedUnder ==
    ASSUME Inv3, Inv0', NEW g, NEW gone, NEW marked, Carried(g, gone, marked), SamePresses
    PROVE  UnderEarlier' /\ UnderLine'
<1>1. UnderEarlier'
  BY DEF Inv3, UnderEarlier, SamePresses
<1>2. UnderLine'
  <2> SUFFICES ASSUME NEW p \in Places', NEW q \in Places', At(p)'.pressed, ~At(q)'.pressed,
                      At(q)'.press < At(p)'.press
               PROVE  At(q)'.press \in typed'[At(p)'.press].under <=> p < q
    BY DEF UnderLine
  <2>1. /\ g \in [Nat -> Nat] /\ \A m, n \in Nat : m < n => g[m] < g[n]
        /\ p \in Nat /\ q \in Nat
        /\ g[p] \in Places /\ Alike(At(g[p]), At(p)') /\ g[q] \in Places /\ Alike(At(g[q]), At(q)')
    BY NextPlaces DEF Carried
  <2>2. /\ At(g[p]).pressed /\ ~At(g[q]).pressed
        /\ At(g[p]).press = At(p)'.press /\ At(g[q]).press = At(q)'.press
    BY <2>1 DEF Alike
  <2>3. At(q)'.press \in typed[At(p)'.press].under <=> g[p] < g[q]
    BY <2>1, <2>2 DEF Inv3, UnderLine
  <2>4. At(p)'.press \in DOMAIN typed
    BY <2>1, <2>2 DEF Inv3, Inv2, Paired
  <2>5. g[p] < g[q] <=> p < q
    <3>1. g[p] \in Nat /\ g[q] \in Nat /\ (p < q \/ p = q \/ q < p)
      BY <2>1
    <3>2. CASE p < q
      BY <2>1, <3>2
    <3>3. CASE p = q
      BY <2>1, <3>1, <3>3
    <3>4. CASE q < p
      <4>1. g[q] < g[p]
        BY <2>1, <3>4
      <4> QED
        BY <2>1, <3>1, <3>4, <4>1
    <3> QED
      BY <3>1, <3>2, <3>3, <3>4
  <2> QED
    BY <2>3, <2>4, <2>5 DEF SamePresses
<1> QED
  BY <1>1, <1>2

LEMMA ShapeUnder ==
    ASSUME Inv3, Inv0', Shape
    PROVE  UnderEarlier' /\ UnderLine'
<1>0. Inv0 /\ \A p \in Places : At(p) \in Record /\ At(p).key \in Keys
  BY LineTypes DEF Inv3
<1>1. CASE Silent
  <2>1. SamePresses
    BY <1>1 DEF Silent, NothingProcessed, SamePresses
  <2> QED
    BY <1>1, <2>1, CarriedUnder DEF Silent
<1>2. ASSUME NEW p \in Places, NEW s \in Record, NEW marked, PressTaken(p, s, marked)
      PROVE  UnderEarlier' /\ UnderLine'
  <2>1. s.key \in Keys /\ s.pressed /\ process_record(s)
    BY <1>0, <1>2 DEF PressTaken, Alike
  <2>2. SamePresses
    BY <1>0, <2>1, PressEffect
  <2> QED
    BY <1>2, <2>2, CarriedUnder DEF PressTaken
<1>3. ASSUME NEW p \in Places, NEW s \in Record, ReleaseTaken(p, s)
      PROVE  UnderEarlier' /\ UnderLine'
  <2>1. s.key \in Keys /\ ~s.pressed /\ process_record(s)
    BY <1>0, <1>3 DEF ReleaseTaken, Alike
  <2>2. SamePresses
    BY <1>0, <2>1, ReleaseEffect DEF SamePresses
  <2> QED
    BY <1>3, <2>2, CarriedUnder DEF ReleaseTaken
<1>4. CASE LastTapReleased
  <2>1. SamePresses
    <3>1. PICK s : s = [tapping_key EXCEPT !.pressed = FALSE]
      OBVIOUS
    <3>2. tapping_key \in Record /\ tapping_key # NoRecord
      BY <1>0, <1>4 DEF LastTapReleased, TapHeld, Inv0, TypeOK
    <3>3. s \in Record /\ ~s.pressed /\ s.key \in Keys /\ process_record(s)
      BY <1>0, <1>4, <3>1, <3>2 DEF Record, LastTapReleased, Inv0, KeysKnown
    <3> QED
      BY <1>0, <3>3, ReleaseEffect DEF SamePresses
  <2> QED
    BY <1>4, <2>1, CarriedUnder DEF LastTapReleased
<1> QED
  BY <1>1, <1>2, <1>3, <1>4 DEF Shape

LEMMA KeyDownUnder ==
    ASSUME Inv3, Inv0', NEW k \in Keys, KeyDown(k)
    PROVE  UnderEarlier' /\ UnderLine'
<1>1. /\ Inv2 /\ Inv0 /\ typed \in Seq(Press) /\ Len(typed) \in Nat
      /\ DOMAIN typed = 1 .. Len(typed)
  BY DEF Inv3, Inv2, Inv1, Inv0, TypeOK
<1>2. /\ pc = "ready" /\ pc' = "process"
      /\ UNCHANGED <<build, tapping_key, waiting_buffer, active, source, now>>
      /\ record' = MakeEvent(k, TRUE, Len(typed) + 1)
  BY DEF KeyDown, NewRecord
<1>3. PICK new : new = Len(typed) + 1
  OBVIOUS
<1>4. /\ DOMAIN typed' = 1 .. new /\ new \in Nat /\ new \in DOMAIN typed'
      /\ \A i \in DOMAIN typed : typed'[i] = typed[i] /\ i < new /\ i \in DOMAIN typed'
      /\ \A i \in DOMAIN typed' : i \in DOMAIN typed \/ i = new
      /\ typed'[new].role = "waiting" /\ ~typed'[new].up
      /\ typed'[new].under = {i \in DOMAIN typed : ~typed[i].up}
  BY <1>1, <1>3 DEF KeyDown
<1>5. /\ record'.pressed /\ record'.press = new
  BY <1>2, <1>3 DEF MakeEvent
<1>6. /\ \A p \in Places : p \in Places' /\ p <= Len(waiting_buffer) /\ At(p)' = At(p)
      /\ \A p \in Places' : \/ p \in Places
                            \/ /\ p = Len(waiting_buffer) + 1 /\ ~IsTick(record')
                               /\ At(p)' = record'
  BY <1>1, <1>2, NewPlaces
<1>7. /\ \A p \in Places : At(p).press \in DOMAIN typed
      /\ \A q \in Places : ~At(q).pressed => typed[At(q).press].up
      /\ Places \subseteq Nat
  BY <1>1, LineTypes DEF Inv2, Paired
<1>10. UnderEarlier'
  <2> SUFFICES ASSUME NEW j \in DOMAIN typed'
               PROVE  /\ \A i \in typed'[j].under : i \in DOMAIN typed' /\ i < j
                      /\ \A i \in DOMAIN typed' : i < j /\ ~typed'[i].up => i \in typed'[j].under
    BY DEF UnderEarlier
  <2>1. CASE j = new
    BY <1>1, <1>4, <2>1
  <2>2. CASE j \in DOMAIN typed
    <3>1. /\ \A i \in typed[j].under : i \in DOMAIN typed /\ i < j
          /\ \A i \in DOMAIN typed : i < j /\ ~typed[i].up => i \in typed[j].under
      BY <2>2 DEF Inv3, UnderEarlier
    <3>2. \A i \in DOMAIN typed' : i < j => i \in DOMAIN typed
      BY <1>1, <1>4, <2>2
    <3> QED
      BY <1>4, <2>2, <3>1, <3>2
  <2> QED
    BY <1>4, <2>1, <2>2
<1>11. UnderLine'
  <2> SUFFICES ASSUME NEW p \in Places', NEW q \in Places', At(p)'.pressed, ~At(q)'.pressed,
                      At(q)'.press < At(p)'.press
               PROVE  At(q)'.press \in typed'[At(p)'.press].under <=> p < q
    BY DEF UnderLine
  <2>1. q \in Places /\ At(q)' = At(q)
    BY <1>5, <1>6
  <2>2. CASE p \in Places
    BY <1>4, <1>6, <1>7, <2>1, <2>2 DEF Inv3, UnderLine
  <2>3. CASE p = Len(waiting_buffer) + 1 /\ At(p)' = record'
    <3>1. At(q).press \notin typed'[new].under
      BY <1>4, <1>7, <2>1
    <3>2. ~(p < q)
      <4>1. q <= Len(waiting_buffer) /\ q \in Nat /\ Len(waiting_buffer) \in Nat
        BY <1>1, <1>6, <1>7, <2>1, BufferTypes
      <4> QED
        BY <2>3, <4>1
    <3> QED
      BY <1>5, <2>1, <2>3, <3>1, <3>2
  <2> QED
    BY <1>6, <2>2, <2>3
<1> QED
  BY <1>10, <1>11

LEMMA KeyUpUnder ==
    ASSUME Inv3, Inv0', NEW k \in Keys, KeyUp(k)
    PROVE  UnderEarlier' /\ UnderLine'
<1>1. /\ Inv2 /\ Inv0 /\ DOMAIN typed' = DOMAIN typed
      /\ DOMAIN typed = 1 .. Len(typed) /\ Len(typed) \in Nat
      /\ \A i \in DOMAIN typed :
            /\ typed'[i].key = typed[i].key /\ typed'[i].under = typed[i].under
            /\ typed'[i].role = typed[i].role /\ typed'[i].holds = typed[i].holds
            /\ typed'[i].up <=> (typed[i].up \/ i = Held(k))
  BY KeyUpTyped, LineTypes DEF Inv3, Inv2, Inv1
<1>2. /\ pc = "ready" /\ pc' = "process" /\ k \in down
      /\ UNCHANGED <<build, tapping_key, waiting_buffer, active, source, now>>
      /\ record' = MakeEvent(k, FALSE, Held(k))
  BY DEF KeyUp, NewRecord
<1>3. PICK press \in DOMAIN typed : press = Held(k)
  BY <1>1, <1>2, HeldIs
<1>4. /\ ~typed[press].up /\ \A i \in DOMAIN typed : typed'[i].up <=> (typed[i].up \/ i = press)
  BY <1>1, <1>2, <1>3, HeldIs
<1>5. /\ ~record'.pressed /\ record'.press = press /\ ~IsTick(record')
  BY <1>2, <1>3, BuildAssumption DEF MakeEvent, IsTick
<1>6. /\ \A p \in Places : p \in Places' /\ p <= Len(waiting_buffer) /\ At(p)' = At(p)
      /\ \A p \in Places' : \/ p \in Places
                            \/ /\ p = Len(waiting_buffer) + 1 /\ ~IsTick(record')
                               /\ At(p)' = record'
      /\ ~IsTick(record') => \E p \in Places' : p = Len(waiting_buffer) + 1 /\ At(p)' = record'
  BY <1>1, <1>2, NewPlaces
<1>10. UnderEarlier'
  BY <1>1 DEF Inv3, UnderEarlier
<1>11. UnderLine'
  <2> SUFFICES ASSUME NEW p \in Places', NEW q \in Places', At(p)'.pressed, ~At(q)'.pressed,
                      At(q)'.press < At(p)'.press
               PROVE  At(q)'.press \in typed'[At(p)'.press].under <=> p < q
    BY DEF UnderLine
  <2>1. p \in Places /\ At(p)' = At(p)
    BY <1>5, <1>6
  <2>2. At(p).press \in DOMAIN typed
    BY <1>1, <2>1 DEF Inv2, Paired
  <2>3. CASE q \in Places
    BY <1>1, <1>6, <2>1, <2>2, <2>3 DEF Inv3, UnderLine
  <2>4. CASE q = Len(waiting_buffer) + 1 /\ At(q)' = record'
    <3>1. press \in typed[At(p).press].under
      BY <1>4, <1>5, <2>1, <2>2, <2>4 DEF Inv3, UnderEarlier
    <3>2. p < q
      <4>1. p <= Len(waiting_buffer) /\ p \in Nat /\ Len(waiting_buffer) \in Nat
        BY <1>1, <1>6, <2>1, BufferTypes
      <4> QED
        BY <2>4, <4>1
    <3> QED
      BY <1>1, <1>5, <2>1, <2>2, <2>4, <3>1, <3>2
  <2> QED
    BY <1>6, <2>3, <2>4
<1> QED
  BY <1>10, <1>11

LEMMA TickUnder ==
    ASSUME Inv3, Inv0', NEW gap \in Gaps, Tick(gap)
    PROVE  UnderEarlier' /\ UnderLine'
<1>1. /\ Inv0 /\ DOMAIN typed' = DOMAIN typed
      /\ \A i \in DOMAIN typed :
            /\ typed'[i].key = typed[i].key /\ typed'[i].up = typed[i].up
            /\ typed'[i].under = typed[i].under
            /\ typed'[i].role = typed[i].role /\ typed'[i].holds = typed[i].holds
  BY TickTyped DEF Inv3, Inv2, Inv1, SamePresses
<1>2. /\ pc = "ready" /\ pc' = "process" /\ IsTick(record')
      /\ UNCHANGED <<build, tapping_key, waiting_buffer, active, source>>
  BY DEF Tick, NewRecord, MakeEvent, IsTick
<1>3. /\ \A p \in Places : p \in Places' /\ At(p)' = At(p)
      /\ \A p \in Places' : p \in Places
  <2>1. /\ \A p \in Places : p \in Places' /\ p <= Len(waiting_buffer) /\ At(p)' = At(p)
        /\ \A p \in Places' : \/ p \in Places
                              \/ /\ p = Len(waiting_buffer) + 1 /\ ~IsTick(record')
                                 /\ At(p)' = record'
        /\ ~IsTick(record') => \E p \in Places' : p = Len(waiting_buffer) + 1 /\ At(p)' = record'
    BY <1>1, <1>2, NewPlaces
  <2> QED
    BY <1>2, <2>1
<1>6. UnderEarlier'
  BY <1>1 DEF Inv3, UnderEarlier
<1>7. UnderLine'
  <2>1. \A p \in Places : At(p).press \in DOMAIN typed
    BY DEF Inv3, Inv2, Paired
  <2> QED
    BY <1>1, <1>3, <2>1 DEF Inv3, UnderLine
<1> QED
  BY <1>6, <1>7

LEMMA NextUnder ==
    ASSUME Inv3, [Next]_vars, [Undisturbed]_vars
    PROVE  Inv3'
<1>0. Inv2' /\ Inv0' /\ Inv0 /\ Inv1
  <2>1. Inv2'
    BY NextKeeps DEF Inv3
  <2> QED
    BY <2>1 DEF Inv3, Inv2, Inv1
<1>1. ASSUME NEW k \in Keys, KeyDown(k) \/ KeyUp(k)
      PROVE  Inv3'
  BY <1>0, <1>1, KeyDownUnder, KeyUpUnder DEF Inv3
<1>2. ASSUME NEW gap \in Gaps, Tick(gap)
      PROVE  Inv3'
  BY <1>0, <1>2, TickUnder DEF Inv3
<1>3. ASSUME NEW r \in Called, Process(r)
      PROVE  Inv3'
  <2>1. Shape
    BY <1>0, <1>3, ProcessShape DEF Inv1
  <2> QED
    BY <1>0, <2>1, ShapeUnder DEF Inv3
<1>4. CASE Overflow
  <2>1. SamePresses /\ Places' = {}
    BY <1>0, <1>4, OverflowTyped, OverflowOrder
  <2> QED
    BY <1>0, <2>1 DEF Inv3, UnderEarlier, UnderLine, SamePresses
<1>5. CASE Drained \/ UNCHANGED vars
  <2>1. SamePresses
    BY <1>5 DEF Drained, vars, SamePresses
  <2>2. Carried(Stay, {}, {})
    BY <1>0, <1>5, IdleOrder
  <2>3. UnderEarlier' /\ UnderLine'
    BY <1>0, <2>1, <2>2, CarriedUnder
  <2> QED
    BY <1>0, <2>3 DEF Inv3
<1> QED
  BY <1>1, <1>2, <1>3, <1>4, <1>5 DEF Next

LEMMA InitUnder ==
    ASSUME Init, Opaque = {}
    PROVE  Inv3
<1>1. Inv2
  BY InitKeeps
<1>2. Places = {} /\ typed = <<>>
  BY NoRecordTyped DEF Init, Places, Undecided
<1> QED
  BY <1>1, <1>2 DEF Inv3, UnderEarlier, UnderLine

-----------------------------------------------------------------------------
(***************************************************************************)
(* A key is processed under the holds that were down when it was pressed   *)
(***************************************************************************)
\* A hold whose release is still to be processed is on.
Lasting ==
    \A i \in DOMAIN typed :
        typed[i].role = "hold" /\ (~typed[i].up \/ Pending(i)) => <<typed[i].key, "hold">> \in active

\* The holds a waiting press is under are not over.
UnderWaiting ==
    pc # "overflow" =>
        \A j \in DOMAIN typed : typed[j].role = "waiting" =>
            \A i \in typed[j].under : typed[i].role = "hold" => ~typed[i].up \/ Pending(i)

Inv4 == Inv3 /\ Lasting /\ UnderWaiting /\ HoldsApply

\* What a step has to keep of Inv4 above Inv3.
Kept4 == Lasting' /\ UnderWaiting' /\ HoldsApply'

LEMMA PendingBefore ==
    ASSUME NEW g, NEW gone, NEW marked, Carried(g, gone, marked), NEW i, Pending(i)'
    PROVE  \E q \in Places : q \notin gone /\ ~At(q).pressed /\ At(q).press = i
<1>1. PICK p \in Places' : ~At(p)'.pressed /\ At(p)'.press = i
  BY DEF Pending
<1>2. g[p] \in Places /\ g[p] \notin gone /\ Alike(At(g[p]), At(p)')
  BY DEF Carried
<1>3. ~At(g[p]).pressed /\ At(g[p]).press = i
  BY <1>1, <1>2 DEF Alike
<1> QED
  BY <1>2, <1>3

\* Nothing is decided and no hold ends.
LEMMA QuietHolds ==
    ASSUME Inv4, Inv0', NEW g, Carried(g, {}, {}), typed' = typed, pc # "overflow",
           \A k : <<k, "hold">> \in active => <<k, "hold">> \in active'
    PROVE  Kept4
<1>1. SamePresses
  BY DEF SamePresses
<1>3. Lasting'
  <2> SUFFICES ASSUME NEW i \in DOMAIN typed, typed[i].role = "hold", ~typed[i].up \/ Pending(i)'
               PROVE  <<typed[i].key, "hold">> \in active'
    BY DEF Lasting
  <2>1. ~typed[i].up \/ Pending(i)
    <3>1. Pending(i)' => Pending(i)
      BY PendingBefore DEF Pending
    <3> QED
      BY <3>1
  <2> QED
    BY <2>1 DEF Inv4, Inv3, Lasting
<1>4. UnderWaiting'
  <2> SUFFICES ASSUME pc' # "overflow", NEW j \in DOMAIN typed, typed[j].role = "waiting",
                      NEW i \in typed[j].under, typed[i].role = "hold", typed[i].up
               PROVE  Pending(i)'
    BY DEF UnderWaiting
  <2>1. PICK q \in Places : ~At(q).pressed /\ At(q).press = i
    BY DEF Inv4, Inv3, UnderWaiting, Pending
  <2>2. q \notin {}
    OBVIOUS
  <2> QED
    BY <2>1, <2>2, CarriedPending DEF Pending, Inv4, Inv3
<1>5. HoldsApply'
  BY DEF Inv4, Inv3, HoldsApply
<1> QED
  BY <1>3, <1>4, <1>5 DEF Kept4

\* What is on when the first press of the line is processed.
LEMMA HoldsAtFirst ==
    ASSUME Inv4, pc # "overflow", NEW p \in Places, At(p).pressed, \A q \in Places : p <= q
    PROVE  Holds = {typed[i].key : i \in {i \in typed[At(p).press].under : typed[i].role = "hold"}}
<1> DEFINE j == At(p).press
<1>0. /\ j \in DOMAIN typed /\ typed[j].role = "waiting" /\ j \in Nat
      /\ \A i \in DOMAIN typed : i > j => typed[i].role = "waiting"
      /\ DOMAIN typed \subseteq Nat
  BY FirstPressWaits, LineTypes DEF Inv4, Inv3, Inv2
<1> HIDE DEF j
<1>1. ASSUME NEW k \in Holds
      PROVE  \E i \in typed[j].under : typed[i].role = "hold" /\ typed[i].key = k
  <2>1. PICK x \in active : x[2] = "hold" /\ x[1] = k
    BY <1>1 DEF Holds
  <2>2. PICK i \in DOMAIN typed : Effect(x, i)
    BY DEF Inv4, Inv3, Inv2, Effects
  <2>3. typed[i].key = k /\ typed[i].role = "hold" /\ (~typed[i].up \/ Pending(i))
    BY <2>1, <2>2 DEF Effect
  <2>4. i < j
    BY <1>0, <2>3
  <2>5. CASE ~typed[i].up
    BY <1>0, <2>3, <2>4, <2>5 DEF Inv4, Inv3, UnderEarlier
  <2>6. CASE Pending(i)
    <3>1. PICK q \in Places : ~At(q).pressed /\ At(q).press = i
      BY <2>6 DEF Pending
    <3>2. p < q
      <4>1. p <= q /\ p # q /\ p \in Nat /\ q \in Nat
        BY <3>1, LineTypes DEF Inv4, Inv3
      <4> QED
        BY <4>1
    <3>3. i \in typed[j].under
      BY <2>4, <3>1, <3>2 DEF Inv4, Inv3, UnderLine, j
    <3> QED
      BY <2>3, <3>3
  <2> QED
    BY <2>3, <2>5, <2>6
<1>2. ASSUME NEW i \in typed[j].under, typed[i].role = "hold"
      PROVE  typed[i].key \in Holds
  <2>1. i \in DOMAIN typed
    BY <1>0 DEF Inv4, Inv3, UnderEarlier
  <2>2. ~typed[i].up \/ Pending(i)
    BY <1>0, <1>2 DEF Inv4, Inv3, UnderWaiting
  <2>3. <<typed[i].key, "hold">> \in active
    BY <1>2, <2>1, <2>2 DEF Inv4, Inv3, Lasting
  <2> QED
    BY <2>3 DEF Holds
<1>3. Holds = {typed[i].key : i \in {i \in typed[j].under : typed[i].role = "hold"}}
  BY <1>1, <1>2
<1> QED
  BY <1>3 DEF j

LEMMA PressTakenHolds ==
    ASSUME Inv4, Inv0', NEW p \in Places, NEW s \in Record, NEW marked,
           PressTaken(p, s, marked), pc # "overflow"
    PROVE  Kept4
<1> DEFINE j == At(p).press
<1>0. /\ Inv0 /\ At(p).pressed /\ \A q \in Places : p <= q
      /\ Alike(At(p), s) /\ process_record(s) /\ s.key \in Keys /\ s.pressed /\ s.press = j
  BY LineTypes DEF PressTaken, Alike, Inv4, Inv3
<1>1. PICK g : Carried(g, {p}, marked)
  BY DEF PressTaken
<1>2. PICK role : role = Role(CurrentKind(s.key), s.count)
  OBVIOUS
<1>3. /\ active' = active \cup {<<s.key, role>>} /\ SamePresses
      /\ \A i \in DOMAIN typed : i # j => typed'[i] = typed[i]
      /\ \A i \in DOMAIN typed : i = j => typed'[i].role = role /\ typed'[i].holds = Holds
  BY <1>0, <1>2, PressEffect
<1>4. /\ j \in DOMAIN typed /\ typed[j].role = "waiting" /\ j \in Nat
      /\ \A i \in DOMAIN typed : i > j => typed[i].role = "waiting"
      /\ DOMAIN typed \subseteq Nat /\ typed[j].key = s.key
      /\ DOMAIN typed' = DOMAIN typed
  <2>1. /\ j \in DOMAIN typed /\ typed[j].role = "waiting"
        /\ \A i \in DOMAIN typed : i > j => typed[i].role = "waiting"
    BY <1>0, FirstPressWaits DEF Inv4, Inv3, Inv2
  <2>2. DOMAIN typed \subseteq Nat
    BY LineTypes DEF Inv4, Inv3
  <2>3. typed[j].key = s.key
    BY <1>0 DEF Inv4, Inv3, Inv2, Paired, Alike
  <2> QED
    BY <1>3, <2>1, <2>2, <2>3 DEF SamePresses
<1>5. Holds = {typed[i].key : i \in {i \in typed[j].under : typed[i].role = "hold"}}
  BY <1>0, HoldsAtFirst
<1>6. \A i \in DOMAIN typed : Pending(i)' => Pending(i)
  BY <1>1, PendingBefore DEF Pending
<1>7. ASSUME pc' # "overflow", NEW i \in DOMAIN typed, Pending(i)
      PROVE  Pending(i)'
  <2>1. PICK q \in Places : ~At(q).pressed /\ At(q).press = i
    BY <1>7 DEF Pending
  <2>2. q \notin {p}
    BY <1>0, <2>1
  <2> QED
    BY <1>1, <1>7, <2>1, <2>2, CarriedPending DEF Pending, Inv4, Inv3
<1> HIDE DEF j
<1>9. Lasting'
  <2> SUFFICES ASSUME NEW i \in DOMAIN typed, typed'[i].role = "hold",
                      ~typed'[i].up \/ Pending(i)'
               PROVE  <<typed'[i].key, "hold">> \in active'
    BY <1>4 DEF Lasting
  <2>1. CASE i = j
    BY <1>3, <1>4, <2>1 DEF SamePresses
  <2>2. CASE i # j
    <3>1. typed[i] = typed'[i] /\ (~typed[i].up \/ Pending(i))
      BY <1>3, <1>6, <2>2
    <3>2. <<typed[i].key, "hold">> \in active
      BY <3>1 DEF Inv4, Inv3, Lasting
    <3> QED
      BY <1>3, <3>1, <3>2
  <2> QED
    BY <2>1, <2>2
<1>10. UnderWaiting'
  <2> SUFFICES ASSUME pc' # "overflow", NEW h \in DOMAIN typed, typed'[h].role = "waiting",
                      NEW i \in typed'[h].under, typed'[i].role = "hold", typed'[i].up
               PROVE  Pending(i)'
    BY <1>4 DEF UnderWaiting
  <2>1. i \in typed[h].under /\ i \in DOMAIN typed /\ i < h /\ typed[i].up
    BY <1>3 DEF Inv4, Inv3, UnderEarlier, SamePresses
  <2>2. CASE i = j
    <3>1. Pending(i)
      BY <1>4, <2>1, <2>2 DEF Inv4, Inv3, Inv2, Paired
    <3> QED
      BY <1>7, <2>1, <3>1
  <2>3. CASE i # j
    <3>1. typed[i].role = "hold"
      BY <1>3, <2>1, <2>3
    <3>2. typed[h].role = "waiting"
      BY <1>3, <1>4
    <3>3. Pending(i)
      BY <2>1, <3>1, <3>2 DEF Inv4, Inv3, UnderWaiting
    <3> QED
      BY <1>7, <2>1, <3>3
  <2> QED
    BY <2>2, <2>3
<1>11. HoldsApply'
  <2> SUFFICES ASSUME NEW h \in DOMAIN typed, typed'[h].role \in {"code", "hold"}
               PROVE  typed'[h].holds =
                          {typed'[i].key : i \in {i \in typed'[h].under : typed'[i].role = "hold"}}
    BY <1>4 DEF HoldsApply
  <2>1. h <= j
    <3>1. h > j => typed'[h] = typed[h] /\ typed[h].role = "waiting"
      BY <1>3, <1>4
    <3> QED
      BY <1>4, <3>1
  <2>2. /\ typed'[h].under = typed[h].under
        /\ \A i \in typed[h].under : typed'[i] = typed[i]
    BY <1>3, <1>4, <2>1 DEF Inv4, Inv3, UnderEarlier, SamePresses
  <2>3. {typed'[i].key : i \in {i \in typed'[h].under : typed'[i].role = "hold"}}
           = {typed[i].key : i \in {i \in typed[h].under : typed[i].role = "hold"}}
    BY <2>2
  <2>4. CASE h = j
    BY <1>3, <1>5, <2>3, <2>4
  <2>5. CASE h # j
    <3>1. typed'[h] = typed[h]
      BY <1>3, <2>5
    <3> QED
      BY <2>3, <3>1 DEF Inv4, Inv3, HoldsApply
  <2> QED
    BY <2>4, <2>5
<1> QED
  BY <1>9, <1>10, <1>11 DEF Kept4

LEMMA ReleaseTakenHolds ==
    ASSUME Inv4, Inv0', NEW p \in Places, NEW s \in Record, ReleaseTaken(p, s), pc # "overflow"
    PROVE  Kept4
<1>0. /\ Inv0 /\ Inv2 /\ ~At(p).pressed /\ Alike(At(p), s) /\ process_record(s)
      /\ s.key = At(p).key /\ s.key \in Keys /\ ~s.pressed
  BY LineTypes DEF ReleaseTaken, Alike, Inv4, Inv3
<1>1. PICK g : Carried(g, {p}, {})
  BY DEF ReleaseTaken
<1>2. /\ active' = active \ {<<s.key, Role(source[s.key], s.count)>>} /\ typed' = typed
  BY <1>0, ReleaseEffect
<1>3. SamePresses
  BY <1>2 DEF SamePresses
<1>5. PICK r : r = At(p).press
  OBVIOUS
<1>6. /\ r \in DOMAIN typed /\ typed[r].key = s.key /\ typed[r].up /\ r \in Nat
      /\ DOMAIN typed \subseteq Nat
  BY <1>0, <1>5, LineTypes DEF Inv2, Paired
\* No earlier press of the key waits for its release.
<1>7. ASSUME NEW i \in DOMAIN typed, typed[i].role = "hold", Pending(i)', typed[i].key = s.key
      PROVE  FALSE
  <2>1. PICK q \in Places : q \notin {p} /\ ~At(q).pressed /\ At(q).press = i
    BY <1>1, <1>7, PendingBefore
  <2>2. q \in Nat /\ p \in Nat /\ q # p /\ At(q).key = s.key /\ i \in Nat
    BY <1>0, <1>6, <1>7, <2>1, LineTypes DEF Inv2, Paired
  <2>3. i <= r
    BY <1>0, <1>5, <1>7 DEF Inv2, Follows
  <2>4. i # r
    <3>1. At(p).pressed = At(q).pressed
      BY <1>0, <2>1, LineTypes
    <3> QED
      BY <1>0, <1>5, <2>1, <2>2, <3>1, OnePlace
  <2>5. typed[r].role = "waiting"
    <3>1. ~(r <= i)
      BY <1>6, <2>2, <2>3, <2>4
    <3>2. typed[r].role # "waiting" => r <= i
      BY <1>0, <1>6, <2>1, <2>2 DEF Inv2, Follows
    <3> QED
      BY <3>1, <3>2
  <2>6. PICK m \in Places : At(m).pressed /\ At(m).press = r
    BY <1>0, <1>6, <2>5 DEF Inv2, Inv1, NoneLost
  <2>7. m \in Nat /\ m # p /\ At(m).key = s.key
    BY <1>0, <1>6, <2>6, LineTypes DEF Inv2, Paired
  <2>8. ~(p < m)
    <3>1. p < m => Before(At(p), At(m))
      BY <1>0, <2>7 DEF Inv2, KeyOrder
    <3>2. ~Before(At(p), At(m))
      BY <1>0, <1>5, <1>6, <2>6 DEF Before
    <3> QED
      BY <3>1, <3>2
  <2>9. m < p
    BY <2>2, <2>7, <2>8
  <2> QED
    BY <1>0, <2>6, <2>7, <2>9 DEF ReleaseTaken
<1>8. Lasting'
  <2> SUFFICES ASSUME NEW i \in DOMAIN typed, typed[i].role = "hold", ~typed[i].up \/ Pending(i)'
               PROVE  <<typed[i].key, "hold">> \in active'
    BY <1>2 DEF Lasting
  <2>1. ~typed[i].up \/ Pending(i)
    <3>1. Pending(i)' => Pending(i)
      BY <1>1, PendingBefore DEF Pending
    <3> QED
      BY <3>1
  <2>2. <<typed[i].key, "hold">> \in active
    BY <2>1 DEF Inv4, Inv3, Lasting
  <2>3. typed[i].key # s.key
    <3>1. CASE Pending(i)'
      BY <1>7, <3>1
    <3>2. CASE ~typed[i].up
      <4> SUFFICES ASSUME typed[i].key = s.key PROVE FALSE
        OBVIOUS
      <4>1. i <= r /\ i # r
        BY <1>0, <1>5, <1>6, <3>2 DEF Inv2, Follows
      <4>2. i < r
        BY <1>6, <4>1
      <4> QED
        BY <1>0, <1>6, <3>2, <4>2 DEF Inv0, Fingers
    <3> QED
      BY <3>1, <3>2
  <2> QED
    BY <1>2, <2>2, <2>3
<1>9. UnderWaiting'
  <2> SUFFICES ASSUME pc' # "overflow", NEW j \in DOMAIN typed, typed[j].role = "waiting",
                      NEW i \in typed[j].under, typed[i].role = "hold", typed[i].up
               PROVE  Pending(i)'
    BY <1>2 DEF UnderWaiting
  <2>1. PICK q \in Places : ~At(q).pressed /\ At(q).press = i
    BY DEF Inv4, Inv3, UnderWaiting, Pending
  <2>2. CASE q # p
    <3>1. q \notin {p}
      BY <2>2
    <3> QED
      BY <1>0, <1>1, <2>1, <3>1, CarriedPending DEF Pending
  <2>3. CASE q = p
    <3>1. i \in DOMAIN typed /\ i < j
      BY DEF Inv4, Inv3, UnderEarlier
    <3>2. PICK m \in Places : At(m).pressed /\ At(m).press = j
      BY <1>0 DEF Inv2, Inv1, NoneLost
    <3>3. m < p
      BY <2>1, <2>3, <3>1, <3>2 DEF Inv4, Inv3, UnderLine
    <3>4. ~(p <= m)
      BY <3>3, LineTypes, <1>0
    <3>5. ~Retained(At(p))
      BY <3>4 DEF ReleaseTaken
    <3>6. CurrentKind(s.key) = Kind[s.key] /\ Kind[s.key] \in Kinds
      BY <1>0, NoOpaque, KindTyped DEF Inv2, Roles, Inv0
    <3>7. At(p).count = 0 /\ typed[i].key = s.key
      BY <1>0, <2>1, <2>3 DEF Inv2, Marks, Paired
    <3>8. Kind[s.key] = "plain"
      BY <1>0, <3>5, <3>6, <3>7 DEF Retained, Kinds, TapKinds
    <3>9. typed[i].role = Role(Kind[s.key], 0)
      BY <1>0, <3>1, <3>7, <3>8 DEF Inv2, Roles, TapKinds
    <3> QED
      BY <3>8, <3>9 DEF Role
  <2> QED
    BY <2>2, <2>3
<1>10. HoldsApply'
  BY <1>2 DEF Inv4, Inv3, HoldsApply
<1> QED
  BY <1>8, <1>9, <1>10 DEF Kept4

LEMMA LastTapHolds ==
    ASSUME Inv4, Inv0', LastTapReleased, pc # "overflow"
    PROVE  Kept4
<1>1. PICK s : s = [tapping_key EXCEPT !.pressed = FALSE]
  OBVIOUS
<1>2. tapping_key \in Record /\ tapping_key # NoRecord /\ tapping_key.count > 1
  BY DEF LastTapReleased, TapHeld, Inv4, Inv3, Inv2, Inv1, Inv0, TypeOK
<1>3. /\ s \in Record /\ ~s.pressed /\ s.key = tapping_key.key /\ s.count = tapping_key.count
      /\ s.key \in Keys /\ process_record(s)
  BY <1>1, <1>2 DEF Record, LastTapReleased, Inv4, Inv3, Inv2, Inv1, Inv0, KeysKnown
<1>4. active' = active \ {<<s.key, Role(source[s.key], s.count)>>} /\ typed' = typed
  BY <1>3, ReleaseEffect DEF Inv4, Inv3, Inv2, Inv1
<1>5. Role(source[s.key], s.count) = "code"
  <2>1. source[s.key] \in TapKinds
    BY <1>2, <1>3 DEF Inv4, Inv3, Inv2, Roles, TapKind
  <2>2. s.count > 0
    BY <1>2, <1>3 DEF Record
  <2> QED
    BY <2>1, <2>2 DEF Role, TapKinds
<1>6. \A k : <<k, "hold">> \in active => <<k, "hold">> \in active'
  BY <1>4, <1>5
<1> QED
  BY <1>4, <1>6, QuietHolds DEF LastTapReleased

LEMMA ShapeHolds ==
    ASSUME Inv4, Inv0', Shape, pc # "overflow"
    PROVE  Kept4
<1>1. CASE Silent
  BY <1>1, QuietHolds DEF Silent, NothingProcessed
<1> QED
  BY <1>1, PressTakenHolds, ReleaseTakenHolds, LastTapHolds DEF Shape

\* The history says the same of holds as before.
LEMMA SameHolds ==
    ASSUME HoldsApply, UnderEarlier, DOMAIN typed' = DOMAIN typed,
           \A i \in DOMAIN typed :
               /\ typed'[i].key = typed[i].key /\ typed'[i].under = typed[i].under
               /\ typed'[i].role = typed[i].role /\ typed'[i].holds = typed[i].holds
    PROVE  HoldsApply'
<1> SUFFICES ASSUME NEW j \in DOMAIN typed, typed[j].role \in {"code", "hold"}
             PROVE  typed[j].holds =
                        {typed'[i].key : i \in {i \in typed[j].under : typed'[i].role = "hold"}}
  BY DEF HoldsApply
<1>1. \A i \in typed[j].under : typed'[i].key = typed[i].key /\ typed'[i].role = typed[i].role
  BY DEF UnderEarlier
<1>2. typed[j].holds = {typed[i].key : i \in {i \in typed[j].under : typed[i].role = "hold"}}
  BY DEF HoldsApply
<1> QED
  BY <1>1, <1>2

LEMMA KeyDownHolds ==
    ASSUME Inv4, Inv0', NEW k \in Keys, KeyDown(k)
    PROVE  Kept4
<1>1. /\ Inv2 /\ Inv0 /\ typed \in Seq(Press) /\ Len(typed) \in Nat
      /\ DOMAIN typed = 1 .. Len(typed)
  BY DEF Inv4, Inv3, Inv2, Inv1, Inv0, TypeOK
<1>2. /\ pc = "ready" /\ pc' = "process"
      /\ UNCHANGED <<build, tapping_key, waiting_buffer, active, source, now>>
      /\ record' = MakeEvent(k, TRUE, Len(typed) + 1)
  BY DEF KeyDown, NewRecord
<1>3. PICK new : new = Len(typed) + 1
  OBVIOUS
<1>4. /\ DOMAIN typed' = 1 .. new /\ new \in Nat /\ new \in DOMAIN typed'
      /\ \A i \in DOMAIN typed : typed'[i] = typed[i] /\ i < new /\ i \in DOMAIN typed'
      /\ \A i \in DOMAIN typed' : i \in DOMAIN typed \/ i = new
      /\ typed'[new].role = "waiting" /\ ~typed'[new].up
      /\ typed'[new].under = {i \in DOMAIN typed : ~typed[i].up}
  BY <1>1, <1>3 DEF KeyDown
<1>5. /\ record'.pressed /\ record'.press = new
  BY <1>2, <1>3 DEF MakeEvent
<1>6. /\ \A p \in Places : p \in Places' /\ p <= Len(waiting_buffer) /\ At(p)' = At(p)
      /\ \A p \in Places' : \/ p \in Places
                            \/ /\ p = Len(waiting_buffer) + 1 /\ ~IsTick(record')
                               /\ At(p)' = record'
  BY <1>1, <1>2, NewPlaces
<1>7. /\ \A p \in Places : At(p).press \in DOMAIN typed
      /\ \A q \in Places : ~At(q).pressed => typed[At(q).press].up
      /\ Places \subseteq Nat
  BY <1>1, LineTypes DEF Inv2, Paired
<1>8. \A i \in DOMAIN typed' : Pending(i)' <=> Pending(i)
  <2> SUFFICES ASSUME NEW i \in DOMAIN typed' PROVE Pending(i)' <=> Pending(i)
    OBVIOUS
  <2>1. Pending(i) => Pending(i)'
    BY <1>6 DEF Pending
  <2>2. ASSUME Pending(i)' PROVE Pending(i)
    <3>1. PICK p \in Places' : ~At(p)'.pressed /\ At(p)'.press = i
      BY <2>2 DEF Pending
    <3>2. p \in Places
      BY <1>5, <1>6, <3>1
    <3> QED
      BY <1>6, <3>1, <3>2 DEF Pending
  <2> QED
    BY <2>1, <2>2
<1>9. Lasting'
  BY <1>2, <1>4, <1>8 DEF Inv4, Inv3, Lasting
<1>12. UnderWaiting'
  <2> SUFFICES ASSUME NEW j \in DOMAIN typed', typed'[j].role = "waiting",
                      NEW i \in typed'[j].under, typed'[i].role = "hold"
               PROVE  ~typed'[i].up \/ Pending(i)'
    BY DEF UnderWaiting
  <2>1. CASE j = new
    BY <1>4, <2>1
  <2>2. CASE j \in DOMAIN typed
    <3>1. i \in typed[j].under /\ i \in DOMAIN typed
      BY <1>4, <2>2 DEF Inv4, Inv3, UnderEarlier
    <3>2. ~typed[i].up \/ Pending(i)
      BY <1>2, <1>4, <2>2, <3>1 DEF Inv4, Inv3, UnderWaiting
    <3> QED
      BY <1>4, <1>8, <3>1, <3>2
  <2> QED
    BY <1>4, <2>1, <2>2
<1>13. HoldsApply'
  <2> SUFFICES ASSUME NEW j \in DOMAIN typed', typed'[j].role \in {"code", "hold"}
               PROVE  typed'[j].holds =
                          {typed'[i].key : i \in {i \in typed'[j].under : typed'[i].role = "hold"}}
    BY DEF HoldsApply
  <2>1. j \in DOMAIN typed /\ typed'[j] = typed[j]
    BY <1>4
  <2>2. \A i \in typed[j].under : typed'[i] = typed[i]
    BY <1>4, <2>1 DEF Inv4, Inv3, UnderEarlier
  <2>3. typed[j].holds = {typed[i].key : i \in {i \in typed[j].under : typed[i].role = "hold"}}
    BY <2>1 DEF Inv4, Inv3, HoldsApply
  <2> QED
    BY <2>1, <2>2, <2>3
<1> QED
  BY <1>9, <1>12, <1>13 DEF Kept4

LEMMA KeyUpHolds ==
    ASSUME Inv4, Inv0', NEW k \in Keys, KeyUp(k)
    PROVE  Kept4
<1>1. /\ Inv2 /\ Inv0 /\ DOMAIN typed' = DOMAIN typed
      /\ DOMAIN typed = 1 .. Len(typed) /\ Len(typed) \in Nat
      /\ \A i \in DOMAIN typed :
            /\ typed'[i].key = typed[i].key /\ typed'[i].under = typed[i].under
            /\ typed'[i].role = typed[i].role /\ typed'[i].holds = typed[i].holds
            /\ typed'[i].up <=> (typed[i].up \/ i = Held(k))
  BY KeyUpTyped, LineTypes DEF Inv4, Inv3, Inv2, Inv1
<1>2. /\ pc = "ready" /\ pc' = "process" /\ k \in down
      /\ UNCHANGED <<build, tapping_key, waiting_buffer, active, source, now>>
      /\ record' = MakeEvent(k, FALSE, Held(k))
  BY DEF KeyUp, NewRecord
<1>3. PICK press \in DOMAIN typed : press = Held(k)
  BY <1>1, <1>2, HeldIs
<1>4. /\ ~typed[press].up /\ \A i \in DOMAIN typed : typed'[i].up <=> (typed[i].up \/ i = press)
  BY <1>1, <1>2, <1>3, HeldIs
<1>5. /\ ~record'.pressed /\ record'.press = press /\ ~IsTick(record')
  BY <1>2, <1>3, BuildAssumption DEF MakeEvent, IsTick
<1>6. /\ \A p \in Places : p \in Places' /\ p <= Len(waiting_buffer) /\ At(p)' = At(p)
      /\ \A p \in Places' : \/ p \in Places
                            \/ /\ p = Len(waiting_buffer) + 1 /\ ~IsTick(record')
                               /\ At(p)' = record'
      /\ ~IsTick(record') => \E p \in Places' : p = Len(waiting_buffer) + 1 /\ At(p)' = record'
  BY <1>1, <1>2, NewPlaces
<1>7. Pending(press)'
  BY <1>5, <1>6 DEF Pending
<1>8. \A i \in DOMAIN typed : (~typed'[i].up \/ Pending(i)') <=> (~typed[i].up \/ Pending(i))
  <2> SUFFICES ASSUME NEW i \in DOMAIN typed
               PROVE  (~typed'[i].up \/ Pending(i)') <=> (~typed[i].up \/ Pending(i))
    OBVIOUS
  <2>1. Pending(i) => Pending(i)'
    BY <1>6 DEF Pending
  <2>2. ASSUME Pending(i)' PROVE Pending(i) \/ i = press
    <3>1. PICK p \in Places' : ~At(p)'.pressed /\ At(p)'.press = i
      BY <2>2 DEF Pending
    <3> QED
      BY <1>5, <1>6, <3>1 DEF Pending
  <2> QED
    BY <1>4, <1>7, <2>1, <2>2
<1>9. Lasting'
  BY <1>1, <1>2, <1>8 DEF Inv4, Inv3, Lasting
<1>12. UnderWaiting'
  <2> SUFFICES ASSUME NEW j \in DOMAIN typed, typed[j].role = "waiting",
                      NEW i \in typed[j].under, i \in DOMAIN typed, typed[i].role = "hold"
               PROVE  ~typed'[i].up \/ Pending(i)'
    BY <1>1 DEF UnderWaiting, Inv4, Inv3, UnderEarlier
  <2>1. ~typed[i].up \/ Pending(i)
    BY <1>2 DEF Inv4, Inv3, UnderWaiting
  <2> QED
    BY <1>8, <2>1
<1>13. HoldsApply'
  BY <1>1, SameHolds DEF Inv4, Inv3
<1> QED
  BY <1>9, <1>12, <1>13 DEF Kept4

LEMMA TickHolds ==
    ASSUME Inv4, Inv0', NEW gap \in Gaps, Tick(gap)
    PROVE  Kept4
<1>1. /\ Inv0 /\ DOMAIN typed' = DOMAIN typed
      /\ \A i \in DOMAIN typed :
            /\ typed'[i].key = typed[i].key /\ typed'[i].up = typed[i].up
            /\ typed'[i].under = typed[i].under
            /\ typed'[i].role = typed[i].role /\ typed'[i].holds = typed[i].holds
  BY TickTyped DEF Inv4, Inv3, Inv2, Inv1, SamePresses
<1>2. /\ pc = "ready" /\ pc' = "process" /\ IsTick(record')
      /\ UNCHANGED <<build, tapping_key, waiting_buffer, active, source>>
  BY DEF Tick, NewRecord, MakeEvent, IsTick
<1>3. /\ \A p \in Places : p \in Places' /\ At(p)' = At(p)
      /\ \A p \in Places' : p \in Places
  <2>1. /\ \A p \in Places : p \in Places' /\ p <= Len(waiting_buffer) /\ At(p)' = At(p)
        /\ \A p \in Places' : \/ p \in Places
                              \/ /\ p = Len(waiting_buffer) + 1 /\ ~IsTick(record')
                                 /\ At(p)' = record'
        /\ ~IsTick(record') => \E p \in Places' : p = Len(waiting_buffer) + 1 /\ At(p)' = record'
    BY <1>1, <1>2, NewPlaces
  <2> QED
    BY <1>2, <2>1
<1>4. \A i \in DOMAIN typed : Pending(i) <=> Pending(i)'
  BY <1>3 DEF Pending
<1>5. Lasting'
  BY <1>1, <1>2, <1>4 DEF Inv4, Inv3, Lasting
<1>8. UnderWaiting'
  <2>1. \A j \in DOMAIN typed : \A i \in typed[j].under : i \in DOMAIN typed
    BY DEF Inv4, Inv3, UnderEarlier
  <2> QED
    BY <1>1, <1>2, <1>4, <2>1 DEF Inv4, Inv3, UnderWaiting
<1>9. HoldsApply'
  BY <1>1, SameHolds DEF Inv4, Inv3
<1> QED
  BY <1>5, <1>8, <1>9 DEF Kept4

\* The buffer does not overflow.
NoOverflow == pc # "overflow"

LEMMA NextHolds ==
    ASSUME Inv4, [Next]_vars, [Undisturbed /\ NoOverflow]_vars
    PROVE  Inv4'
<1>0. Inv3' /\ Inv0' /\ Inv0
  <2>1. [Undisturbed]_vars
    OBVIOUS
  <2>2. Inv3'
    BY <2>1, NextUnder DEF Inv4
  <2> QED
    BY <2>2 DEF Inv4, Inv3, Inv2, Inv1
<1>1. ASSUME NEW k \in Keys, KeyDown(k) \/ KeyUp(k)
      PROVE  Inv4'
  BY <1>0, <1>1, KeyDownHolds, KeyUpHolds DEF Inv4, Kept4
<1>2. ASSUME NEW gap \in Gaps, Tick(gap)
      PROVE  Inv4'
  BY <1>0, <1>2, TickHolds DEF Inv4, Kept4
<1>3. ASSUME NEW r \in Called, Process(r)
      PROVE  Inv4'
  <2>1. Inv0 /\ Alone /\ Pressed
    BY DEF Inv4, Inv3, Inv2, Inv1
  <2>2. pc # "overflow"
    BY <1>3, <2>1, ProcessAlone
  <2>3. Shape
    BY <1>0, <1>3, <2>1, ProcessShape
  <2>4. Kept4
    BY <1>0, <2>2, <2>3, ShapeHolds
  <2> QED
    BY <1>0, <2>4 DEF Inv4, Kept4
<1>4. CASE UNCHANGED vars
  BY <1>0, <1>4 DEF vars, Inv4, Lasting, UnderWaiting, HoldsApply, Pending,
     Places, At, Undecided, IsTick
<1>5. CASE Overflow
  <2>1. UNCHANGED vars
    BY <1>5 DEF Overflow, NoOverflow
  <2> QED
    BY <1>4, <2>1
<1>6. CASE Drained
  <2>1. /\ typed' = typed /\ active' = active /\ pc # "overflow"
    BY <1>6 DEF Drained
  <2>2. Carried(Stay, {}, {})
    BY <1>6, IdleOrder DEF Inv4, Inv3, Inv2
  <2>3. Kept4
    BY <1>0, <2>1, <2>2, QuietHolds
  <2> QED
    BY <1>0, <2>3 DEF Inv4, Kept4
<1> QED
  BY <1>1, <1>2, <1>3, <1>4, <1>5, <1>6 DEF Next

LEMMA InitHolds ==
    ASSUME Init, Opaque = {}
    PROVE  Inv4
<1>1. Inv3
  BY InitUnder
<1>2. Places = {} /\ typed = <<>>
  BY NoRecordTyped DEF Init, Places, Undecided
<1> QED
  BY <1>1, <1>2 DEF Inv4, Lasting, UnderWaiting, HoldsApply

\* A key is processed under exactly the modifiers and layers whose keys were
\* down when it was pressed, although the buffer delays the key and
\* process_tapping processes some releases before it: under the conditions of
\* NoKeySticks, and as long as clear_keyboard does not take the modifiers that
\* are down away in an overflow.
THEOREM UnderItsHolds ==
    Spec /\ Opaque = {} /\ [][Undisturbed /\ NoOverflow]_vars => []HoldsApply
<1>1. Init /\ Opaque = {} => Inv4
  BY InitHolds
<1>2. Inv4 /\ [Next]_vars /\ [Undisturbed /\ NoOverflow]_vars => Inv4'
  BY NextHolds
<1>3. Inv4 => HoldsApply
  BY DEF Inv4, Inv3
<1> QED
  BY <1>1, <1>2, <1>3, PTL DEF Spec

-----------------------------------------------------------------------------
(***************************************************************************)
(* The decision                                                            *)
(***************************************************************************)
Shorter(x) == IF x < TAPPING_TERM THEN x ELSE TAPPING_TERM

\* How long the key of a press in the line was or is held shows in the line.
HeldTime ==
    \A p \in Places : At(p).pressed =>
        /\ ~typed[At(p).press].up => typed[At(p).press].held = Shorter(Age(At(p)))
        /\ \A q \in Places :
              ~At(q).pressed /\ At(q).press = At(p).press
                  => typed[At(p).press].held = Shorter(Age(At(p)) - Age(At(q)))

TickNow == pc = "process" => record.time = now

\* All presses processed after press h were made while its key was down.
AllUnder(h) == \A j \in DOMAIN typed : j > h /\ typed[j].role # "waiting" => h \in typed[j].under

TapOn ==
    TapHeld => /\ AllUnder(tapping_key.press)
               /\ pc # "overflow" => \/ ~typed[tapping_key.press].up
                                     \/ Pending(tapping_key.press)

TapOver ==
    TapReleased /\ ~tapping_key.interrupted =>
        /\ tapping_key.press \in DOMAIN typed
        /\ typed[tapping_key.press].key = tapping_key.key
        /\ typed[tapping_key.press].role = "code"
        /\ AllUnder(tapping_key.press)

\* With HOLD_ON_OTHER_KEY_PRESS a press never waits for the event after it, and
\* not at all for a key that is undecided.
OnlyLast ==
    HoldOnOtherKeyPress => \A m, q \in Places : 0 < m /\ m < q => ~At(m).pressed
Clean ==
    HoldOnOtherKeyPress /\ Undecided =>
        \A m \in 1 .. Len(waiting_buffer) : ~waiting_buffer[m].pressed

\* What decides for the hold, and for the tap, without PERMISSIVE_HOLD.
HoldIsDue(i) ==
    \/ typed[i].held = TAPPING_TERM
    \/ HoldOnOtherKeyPress /\ \E j \in DOMAIN typed : i \in typed[j].under
TapIsDue(i) ==
    /\ typed[i].up /\ typed[i].held < TAPPING_TERM
    /\ HoldOnOtherKeyPress => \A j \in DOMAIN typed : i \notin typed[j].under

\* DecisionRule without PERMISSIVE_HOLD, also for keys that are still down.
Rule ==
    \A i \in DOMAIN typed : Kind[typed[i].key] \in TapKinds =>
        /\ typed[i].role = "hold" => HoldIsDue(i)
        /\ typed[i].role = "code" => Repeats(i) \/ TapIsDue(i)

Inv5 == /\ Inv3 /\ ~PermissiveHold
        /\ HeldTime /\ TickNow /\ TapOn /\ TapOver /\ OnlyLast /\ Clean /\ Rule

SameHeld == \A i \in DOMAIN typed : typed'[i].held = typed[i].held

LEMMA LineTypes5 ==
    ASSUME Inv5
    PROVE  /\ Inv0 /\ Inv1 /\ Inv2 /\ Inv3 /\ Places \subseteq Nat /\ DOMAIN typed \subseteq Nat
           /\ DOMAIN typed = 1 .. Len(typed) /\ Len(typed) \in Nat
           /\ now \in 0 .. TimerRange - 1
           /\ \A p \in Places :
                 /\ At(p) \in Record /\ At(p).key \in Keys /\ At(p).pressed \in BOOLEAN
                 /\ At(p).time \in 0 .. TimerRange - 1 /\ At(p).count \in Nat
                 /\ At(p).press \in DOMAIN typed /\ Age(At(p)) \in 0 .. TimerRange - 1
                 /\ typed[At(p).press].key = At(p).key
                 /\ ~At(p).pressed => typed[At(p).press].up
           /\ \A i \in DOMAIN typed : typed[i] \in Press
<1>1. Inv3 /\ Inv2 /\ Inv1 /\ Inv0
  BY DEF Inv5, Inv3, Inv2, Inv1
<1>2. \A p \in Places : /\ At(p).press \in DOMAIN typed /\ typed[At(p).press].key = At(p).key
                        /\ ~At(p).pressed => typed[At(p).press].up
  BY <1>1 DEF Inv2, Paired
<1>3. \A i \in DOMAIN typed : typed[i] \in Press
  BY <1>1 DEF Inv0, TypeOK
<1> QED
  BY <1>1, <1>2, <1>3, LineTypes

LEMMA PressHeld ==
    ASSUME Inv0, NEW s \in Record, s.key \in Keys, s.pressed, process_record(s)
    PROVE  SameHeld
<1>1. PICK role : role = Role(CurrentKind(s.key), s.count)
  OBVIOUS
<1>2. role \in {"code", "hold"}
  BY <1>1 DEF Role
<1>3. typed' = Settle(s, role)
  BY <1>1 DEF process_record
<1>4. \A i \in DOMAIN typed : typed[i] \in Press
  BY DEF Inv0, TypeOK
<1>5. \A i \in DOMAIN typed :
         typed'[i] = IF i = s.press THEN [typed[i] EXCEPT !.role = role, !.holds = Holds]
                     ELSE typed[i]
  BY <1>2, <1>3, SettleTyped DEF Inv0
<1>6. \A i \in DOMAIN typed :
         [typed[i] EXCEPT !.role = role, !.holds = Holds].held = typed[i].held
  BY <1>4 DEF Press
<1> QED
  BY <1>5, <1>6 DEF SameHeld

LEMMA ShapeHeld ==
    ASSUME Inv3, Shape
    PROVE  SamePresses /\ SameHeld
<1>0. Inv0 /\ \A p \in Places : At(p) \in Record /\ At(p).key \in Keys
  BY LineTypes DEF Inv3
<1>1. CASE Silent
  BY <1>1 DEF Silent, NothingProcessed, SamePresses, SameHeld
<1>2. ASSUME NEW p \in Places, NEW s \in Record, NEW marked, PressTaken(p, s, marked)
      PROVE  SamePresses /\ SameHeld
  <2>1. s.key \in Keys /\ s.pressed /\ process_record(s)
    BY <1>0, <1>2 DEF PressTaken, Alike
  <2> QED
    BY <1>0, <2>1, PressEffect, PressHeld
<1>3. ASSUME NEW p \in Places, NEW s \in Record, ReleaseTaken(p, s)
      PROVE  SamePresses /\ SameHeld
  <2>1. s.key \in Keys /\ ~s.pressed /\ process_record(s)
    BY <1>0, <1>3 DEF ReleaseTaken, Alike
  <2> QED
    BY <1>0, <2>1, ReleaseEffect DEF SamePresses, SameHeld
<1>4. CASE LastTapReleased
  <2>1. PICK s : s = [tapping_key EXCEPT !.pressed = FALSE]
    OBVIOUS
  <2>2. tapping_key \in Record /\ tapping_key # NoRecord
    BY <1>0, <1>4 DEF LastTapReleased, TapHeld, Inv0, TypeOK
  <2>3. s \in Record /\ ~s.pressed /\ s.key \in Keys /\ process_record(s)
    BY <1>0, <1>4, <2>1, <2>2 DEF Record, LastTapReleased, Inv0, KeysKnown
  <2> QED
    BY <1>0, <2>3, ReleaseEffect DEF SamePresses, SameHeld
<1> QED
  BY <1>1, <1>2, <1>3, <1>4 DEF Shape

LEMMA CarriedTimes ==
    ASSUME Inv5, Inv0', NEW g, NEW gone, NEW marked, Carried(g, gone, marked), SamePresses, SameHeld,
           now' = now, build' = build
    PROVE  HeldTime' /\ OnlyLast'
<1>0. /\ g \in [Nat -> Nat] /\ \A p, q \in Nat : p < q => g[p] < g[q]
      /\ \A p \in Places' : g[p] \in Places /\ Alike(At(g[p]), At(p)')
  BY DEF Carried
<1>1. HeldTime'
  <2> SUFFICES ASSUME NEW p \in Places', At(p)'.pressed
               PROVE  /\ ~typed'[At(p)'.press].up
                            => typed'[At(p)'.press].held
                                  = Shorter((now' - At(p)'.time) % TimerRange)
                      /\ \A q \in Places' :
                            ~At(q)'.pressed /\ At(q)'.press = At(p)'.press
                                => typed'[At(p)'.press].held
                                      = Shorter(((now' - At(p)'.time) % TimerRange)
                                                   - ((now' - At(q)'.time) % TimerRange))
    BY DEF HeldTime, Age, Shorter
  <2>1. /\ g[p] \in Places /\ At(g[p]).pressed /\ At(g[p]).press = At(p)'.press
        /\ At(g[p]).time = At(p)'.time /\ At(p)'.press \in DOMAIN typed
    BY <1>0, LineTypes5 DEF Alike
  <2>2. /\ typed'[At(p)'.press].up = typed[At(p)'.press].up
        /\ typed'[At(p)'.press].held = typed[At(p)'.press].held
    BY <2>1 DEF SamePresses, SameHeld
  <2>3. ASSUME NEW q \in Places', ~At(q)'.pressed, At(q)'.press = At(p)'.press
        PROVE  typed'[At(p)'.press].held = Shorter(((now' - At(p)'.time) % TimerRange)
                                                       - ((now' - At(q)'.time) % TimerRange))
    <3>1. /\ g[q] \in Places /\ ~At(g[q]).pressed /\ At(g[q]).press = At(g[p]).press
          /\ At(g[q]).time = At(q)'.time
      BY <1>0, <2>1, <2>3 DEF Alike
    <3>2. typed[At(g[p]).press].held = Shorter(Age(At(g[p])) - Age(At(g[q])))
      BY <2>1, <3>1 DEF Inv5, HeldTime
    <3> QED
      BY <2>1, <2>2, <3>1, <3>2 DEF Age
  <2>4. ~typed[At(g[p]).press].up => typed[At(g[p]).press].held = Shorter(Age(At(g[p])))
    BY <2>1 DEF Inv5, HeldTime
  <2> QED
    BY <2>1, <2>2, <2>3, <2>4 DEF Age
<1>2. OnlyLast'
  <2> SUFFICES ASSUME HoldOnOtherKeyPress, NEW m \in Places', NEW q \in Places', 0 < m, m < q
               PROVE  ~At(m)'.pressed
    BY DEF OnlyLast, HoldOnOtherKeyPress
  <2>1. m \in Nat /\ q \in Nat
    BY NextPlaces
  <2>2. g[0] \in Nat /\ g[0] < g[m] /\ g[m] < g[q]
    BY <1>0, <2>1
  <2>3. g[m] \in Places /\ g[q] \in Places /\ g[m] \in Nat /\ g[q] \in Nat
    BY <1>0, LineTypes5
  <2>4. 0 < g[m]
    BY <2>2, <2>3
  <2>5. OnlyLast
    BY DEF Inv5
  <2>6. ~At(g[m]).pressed
    BY <2>2, <2>3, <2>4, <2>5 DEF OnlyLast
  <2> QED
    BY <1>0, <2>6 DEF Alike
<1> QED
  BY <1>1, <1>2

\* The rule stays when only the role of a waiting press j changes, to one the
\* rule gives it.
LEMMA RuleKept ==
    ASSUME Inv5, SamePresses, SameHeld, build' = build, NEW j,
           \A i \in DOMAIN typed : i # j => typed'[i].role = typed[i].role,
           j \in DOMAIN typed /\ Kind[typed[j].key] \in TapKinds =>
               /\ typed[j].role = "waiting"
               /\ typed'[j].role = "hold" => HoldIsDue(j)
               /\ typed'[j].role = "code" => Repeats(j)' \/ TapIsDue(j),
           j \in DOMAIN typed => typed[j].role = "waiting"
    PROVE  Rule'
<1> SUFFICES ASSUME NEW i \in DOMAIN typed, Kind[typed[i].key] \in TapKinds
             PROVE  /\ typed'[i].role = "hold" => HoldIsDue(i)'
                    /\ typed'[i].role = "code" => Repeats(i)' \/ TapIsDue(i)'
  BY DEF Rule, SamePresses, Kind
<1>1. /\ HoldIsDue(i) <=> HoldIsDue(i)'
      /\ TapIsDue(i) <=> TapIsDue(i)'
  BY DEF HoldIsDue, TapIsDue, SamePresses, SameHeld, HoldOnOtherKeyPress
<1>2. CASE i = j
  BY <1>1, <1>2
<1>3. CASE i # j
  <2>1. typed'[i].role = typed[i].role
    BY <1>3
  <2>2. Repeats(i) => Repeats(i)'
    <3> SUFFICES ASSUME Repeats(i)
                 PROVE  Repeats(i)'
      OBVIOUS
    <3>1. PICK h \in 1 .. i - 1 : /\ typed[h].key = typed[i].key /\ typed[h].role = "code"
                                 /\ \A m \in h + 1 .. i - 1 : h \in typed[m].under
      BY DEF Repeats
    <3>2. typed[i].role = "code"
      BY DEF Repeats
    <3>3. /\ h \in DOMAIN typed /\ \A m \in h + 1 .. i - 1 : m \in DOMAIN typed
      BY <3>1, LineTypes5
    <3>4. h # j
      BY <3>1, <3>3
    <3>5. /\ typed'[h].key = typed'[i].key /\ typed'[h].role = "code" /\ typed'[i].role = "code"
          /\ \A m \in h + 1 .. i - 1 : h \in typed'[m].under
      BY <2>1, <3>1, <3>2, <3>3, <3>4 DEF SamePresses
    <3> QED
      BY <3>1, <3>5 DEF Repeats
  <2> QED
    BY <1>1, <2>1, <2>2 DEF Inv5, Rule
<1> QED
  BY <1>2, <1>3

\* When the release of the undecided key waits in the buffer, it came too late.
LEMMA ReleaseIsLate ==
    ASSUME Inv5, Undecided, NEW q \in Places, ~At(q).pressed,
           At(q).press = tapping_key.press, q <= Len(waiting_buffer)
    PROVE  HoldIsDue(tapping_key.press)
<1>1. /\ waiting_buffer \in Seq(Record) /\ Len(waiting_buffer) \in Nat
      /\ DOMAIN waiting_buffer = 1 .. Len(waiting_buffer)
  BY BufferTypes, LineTypes5
<1>2. 0 \in Places /\ At(0) = tapping_key /\ tapping_key.pressed
  BY <1>1 DEF Places, At, Undecided
<1>3. q # 0 /\ q \in Nat
  BY <1>2, LineTypes5
<1>4. q \in DOMAIN waiting_buffer /\ waiting_buffer[q] = At(q)
  BY <1>1, <1>3 DEF At
<1>5. At(q).key = tapping_key.key
  BY <1>2, LineTypes5
<1>6. ~((At(q).time - tapping_key.time) % TimerRange < TAPPING_TERM)
  BY <1>4, <1>5 DEF Inv5, Inv3, Inv2, NoTap, TapsWaiting
<1>7. (At(q).time - tapping_key.time) % TimerRange = Age(At(0)) - Age(At(q))
  BY <1>2, <1>3, Between, LineTypes5
<1>8. typed[tapping_key.press].held = Shorter(Age(At(0)) - Age(At(q)))
  BY <1>2 DEF Inv5, HeldTime
<1>9. Age(At(0)) \in Nat /\ Age(At(q)) \in Nat
  BY <1>2, LineTypes5, TermAssumption
<1> QED
  BY <1>6, <1>7, <1>8, <1>9, TermAssumption DEF Shorter, HoldIsDue

\* The code that decides for the hold follows the rule: a timeout or, with
\* HOLD_ON_OTHER_KEY_PRESS, a press.
LEMMA DecidesHold ==
    ASSUME Inv5, Undecided, NEW r \in Called, Timeout(r) \/ HoldWhenPressed(r)
    PROVE  HoldIsDue(tapping_key.press)
<1>1. /\ waiting_buffer \in Seq(Record) /\ Len(waiting_buffer) \in Nat
      /\ DOMAIN waiting_buffer = 1 .. Len(waiting_buffer)
  BY BufferTypes, LineTypes5
<1>2. 0 \in Places /\ At(0) = tapping_key /\ tapping_key.pressed
  BY <1>1 DEF Places, At, Undecided
<1> DEFINE j == tapping_key.press
<1>3. /\ j \in DOMAIN typed /\ typed[j].role = "waiting" /\ typed[j].up \in BOOLEAN
      /\ typed[j].key = tapping_key.key /\ j \in Nat
  BY <1>2, LineTypes5 DEF Inv1, Pressed, Press
<1>4. pc # "overflow"
  BY DEF Called
<1>5. typed[j].up => \E q \in Places : ~At(q).pressed /\ At(q).press = j
  BY <1>3, <1>4, LineTypes5 DEF Inv2, Paired, Pending
<1>6. ~typed[j].up => typed[j].held = Shorter(Age(At(0)))
  BY <1>2 DEF Inv5, HeldTime
<1>7. ~IsTick(r) => CalledAt \in Places /\ CalledAt # 0 /\ At(CalledAt) = r /\ CalledAt \in Nat
  BY CalledPlace, LineTypes5
<1>8. \A q \in Places : /\ q \in Nat
                        /\ q <= Len(waiting_buffer) \/ (q = CalledAt /\ ~IsTick(r))
  BY <1>1, LineTypes5, CalledTyped DEF Places, CalledAt
<1>9. CASE Timeout(r)
  <2>1. Elapsed(r) >= TAPPING_TERM
    <3>1. r.time \in Int /\ tapping_key.time \in Int
      BY <1>2, LineTypes5, CalledTyped, RecordFields
    <3>2. Elapsed(r) \in Int
      BY <3>1, TermAssumption DEF Elapsed
    <3> QED
      BY <1>9, <3>2, TermAssumption DEF Timeout, Within
  <2>2. Age(At(0)) >= TAPPING_TERM
    <3>1. CASE IsTick(r)
      <4>1. r = record /\ pc = "process"
        BY <3>1, CalledTyped, LineTypes5, BuildAssumption DEF IsTick
      <4> QED
        BY <1>2, <2>1, <4>1 DEF Inv5, TickNow, Age, Elapsed
    <3>2. CASE ~IsTick(r)
      <4>1. Elapsed(r) = Age(At(0)) - Age(At(CalledAt))
        BY <1>2, <1>7, <3>2, Between, LineTypes5 DEF Elapsed
      <4> QED
        BY <1>2, <1>7, <2>1, <3>2, <4>1, LineTypes5, TermAssumption
    <3> QED
      BY <3>1, <3>2
  <2>3. CASE ~typed[j].up
    BY <1>2, <1>6, <2>2, <2>3, LineTypes5, TermAssumption DEF Shorter, HoldIsDue
  <2>4. CASE typed[j].up
    <3>1. PICK q \in Places : ~At(q).pressed /\ At(q).press = j
      BY <1>5, <2>4
    <3>2. CASE q <= Len(waiting_buffer)
      BY <3>1, <3>2, ReleaseIsLate
    <3>3. CASE q = CalledAt /\ ~IsTick(r)
      <4>1. Elapsed(r) = Age(At(0)) - Age(At(q))
        BY <1>2, <1>7, <3>3, Between, LineTypes5 DEF Elapsed
      <4>2. typed[j].held = Shorter(Age(At(0)) - Age(At(q)))
        BY <1>2, <3>1 DEF Inv5, HeldTime
      <4> QED
        BY <1>2, <2>1, <4>1, <4>2, LineTypes5, TermAssumption DEF Shorter, HoldIsDue
    <3> QED
      BY <1>8, <3>2, <3>3
  <2> QED
    BY <1>3, <2>3, <2>4
<1>10. CASE HoldWhenPressed(r)
  <2>1. HoldOnOtherKeyPress /\ r.pressed /\ ~IsTick(r)
    BY <1>10 DEF HoldWhenPressed, Interrupted
  <2>2. CASE typed[j].up
    <3>1. PICK q \in Places : ~At(q).pressed /\ At(q).press = j
      BY <1>5, <2>2
    <3>2. q <= Len(waiting_buffer)
      BY <1>7, <1>8, <2>1, <3>1
    <3> QED
      BY <3>1, <3>2, ReleaseIsLate
  <2>3. CASE ~typed[j].up
    <3>1. r.press \in DOMAIN typed /\ j < r.press
      BY <1>2, <1>7, <2>1, LineTypes5 DEF Inv1, PressOrder
    <3>2. j \in typed[r.press].under
      BY <1>3, <2>3, <3>1 DEF Inv5, Inv3, UnderEarlier
    <3> QED
      BY <2>1, <3>1, <3>2 DEF HoldIsDue
  <2> QED
    BY <1>3, <2>2, <2>3
<1> QED
  BY <1>9, <1>10

\* The code that decides for the tap follows the rule.
LEMMA DecidesTap ==
    ASSUME Inv5, pc # "overflow", NEW p \in Places, NEW s \in Record, NEW marked,
           PressTaken(p, s, marked), NEW m \in marked
    PROVE  TapIsDue(s.press)
<1>1. /\ m \in Places /\ ~At(m).pressed /\ At(m).press = At(p).press
  BY MarkedIsOwn, LineTypes5
<1>2. /\ At(p).pressed /\ s.press = At(p).press /\ s.time = At(p).time
      /\ \A q \in Places : p <= q
  BY DEF PressTaken, Alike
<1> DEFINE j == At(p).press
<1>3. typed[j].up
  BY <1>1, LineTypes5
<1>4. typed[j].held < TAPPING_TERM
  <2>1. (At(m).time - At(p).time) % TimerRange < TAPPING_TERM
    BY <1>1, <1>2, LineTypes5 DEF PressTaken, TapAt
  <2>2. (At(m).time - At(p).time) % TimerRange = Age(At(p)) - Age(At(m))
    BY <1>1, <1>2, Between, LineTypes5
  <2>3. typed[j].held = Shorter(Age(At(p)) - Age(At(m)))
    BY <1>1, <1>2 DEF Inv5, HeldTime
  <2> QED
    BY <2>1, <2>2, <2>3 DEF Shorter
<1>5. ASSUME HoldOnOtherKeyPress, NEW i \in DOMAIN typed, j \in typed[i].under
      PROVE  FALSE
  <2>1. j \in DOMAIN typed /\ j < i
    BY <1>5 DEF Inv5, Inv3, UnderEarlier
  <2>2. typed[i].role = "waiting"
    BY <1>2, <2>1, FirstPressWaits, LineTypes5
  <2>3. PICK b \in Places : At(b).pressed /\ At(b).press = i
    BY <2>2, LineTypes5 DEF Inv1, NoneLost
  <2>4. b < m
    BY <1>1, <1>5, <2>1, <2>3 DEF Inv5, Inv3, UnderLine
  <2>5. 0 < b
    <3>1. b # p /\ p <= b /\ p \in Nat /\ b \in Nat
      BY <1>2, <2>1, <2>3, LineTypes5
    <3> QED
      BY <3>1
  <2> QED
    BY <1>1, <1>5, <2>3, <2>4, <2>5 DEF Inv5, OnlyLast
<1> QED
  BY <1>2, <1>3, <1>4, <1>5 DEF TapIsDue

\* With HOLD_ON_OTHER_KEY_PRESS the buffer is empty after a press is consumed.
LEMMA PressLeavesEmpty ==
    ASSUME Inv5, NEW r \in Called, r.pressed, ~Undecided, Consumed, HoldOnOtherKeyPress
    PROVE  DOMAIN waiting_buffer' = {}
<1>1. /\ waiting_buffer \in Seq(Record) /\ Len(waiting_buffer) \in Nat
      /\ DOMAIN waiting_buffer = 1 .. Len(waiting_buffer)
  BY BufferTypes, LineTypes5
<1>2. ~IsTick(r)
  BY CalledTyped, LineTypes5
<1>3. CASE pc = "process"
  <2>1. waiting_buffer = <<>>
    BY <1>2, <1>3, CalledTyped, LineTypes5 DEF Inv1, Alone
  <2> QED
    BY <1>3, <2>1 DEF Consumed, ConsumedFrom
<1>4. CASE pc = "drain"
  <2>1. waiting_buffer # <<>> /\ r = waiting_buffer[1]
    BY <1>1, <1>4, CalledTyped, LineTypes5
  <2>2. ASSUME Len(waiting_buffer) > 1
        PROVE  FALSE
    <3>1. 1 \in Places /\ 2 \in Places /\ At(1) = r
      BY <1>1, <2>1, <2>2 DEF Places, At
    <3> QED
      BY <3>1 DEF Inv5, OnlyLast
  <2>3. Len(waiting_buffer) = 1
    BY <1>1, <2>1, <2>2
  <2>4. waiting_buffer' = Tail(waiting_buffer)
    BY <1>4 DEF Consumed, ConsumedFrom
  <2> QED
    BY <1>1, <2>3, <2>4
<1> QED
  BY <1>3, <1>4, CalledTyped, LineTypes5

LEMMA BufferClean ==
    ASSUME Inv5, NEW r \in Called, Consumed \/ Refused(r), ~r.pressed, Undecided,
           HoldOnOtherKeyPress
    PROVE  \A m \in DOMAIN waiting_buffer' : ~waiting_buffer'[m].pressed
<1>1. \A p \in DOMAIN waiting_buffer' :
              \/ \E q \in DOMAIN waiting_buffer : waiting_buffer'[p] = waiting_buffer[q]
              \/ waiting_buffer'[p] = r
  BY BufferFrom, LineTypes5
<1>2. DOMAIN waiting_buffer = 1 .. Len(waiting_buffer)
  BY BufferTypes, LineTypes5
<1>3. \A m \in DOMAIN waiting_buffer : ~waiting_buffer[m].pressed
  BY <1>2 DEF Inv5, Clean
<1> QED
  BY <1>1, <1>3

LEMMA ProcessClean ==
    ASSUME Inv5, Inv0', NEW r \in Called, Process(r), ~NotScanned
    PROVE  Clean'
<1>r. r \in Record /\ r.pressed \in BOOLEAN /\ (IsTick(r) => ~r.pressed)
  BY CalledTyped, RecordFields, LineTypes5
<1>t. /\ tapping_key \in Record /\ tapping_key.count \in 0 .. 15
      /\ tapping_key.interrupted \in BOOLEAN /\ tapping_key.pressed \in BOOLEAN
  BY RecordFields, LineTypes5 DEF Inv0, TypeOK
<1>b. HoldOnOtherKeyPress' = HoldOnOtherKeyPress
  BY ProcessKeeps DEF HoldOnOtherKeyPress
<1>d. DOMAIN waiting_buffer' = 1 .. Len(waiting_buffer')
  BY DEF Inv0, TypeOK
<1>n. tapping_key' = NoRecord => Clean'
  BY NoRecordDecided DEF Clean
<1>u. ~Undecided' => Clean'
  BY DEF Clean
<1>1. CASE Ignore(r)
  <2>1. Consumed /\ tapping_key' = tapping_key /\ ~r.pressed
    BY <1>1, <1>r DEF Ignore
  <2>2. Undecided' => Undecided
    BY <2>1 DEF Undecided
  <2> QED
    BY <1>b, <1>d, <2>1, <2>2, BufferClean DEF Clean
<1>2. CASE Start(r) \/ StartAnother(r) \/ StartOther(r) \/ StartAgain(r)
  <2>1. r.pressed /\ ~Undecided
    BY <1>2, <1>t
       DEF Start, StartAnother, StartOther, StartAgain, TapHeld, TapReleased, Undecided
  <2>2. CASE TapsWaiting(r) = {}
    <3>1. Consumed
      BY <1>2, <2>2 DEF Start, StartAnother, StartOther, StartAgain, StartTapping
    <3> QED
      BY <1>b, <1>d, <2>1, <3>1, PressLeavesEmpty DEF Clean
  <2>3. CASE TapsWaiting(r) # {}
    <3>1. tapping_key' = [r EXCEPT !.count = 1]
      BY <1>2, <2>3 DEF Start, StartAnother, StartOther, StartTapping, NotScanned
    <3>2. tapping_key'.count = 1
      BY <1>r, <3>1, MarkedAlike
    <3> QED
      BY <1>u, <3>2 DEF Undecided
  <2> QED
    BY <2>2, <2>3
<1>3. CASE PassOn(r) \/ PassOnAfterTap(r)
  <2>1. tapping_key' = tapping_key /\ ~Undecided
    BY <1>3, <1>t DEF PassOn, PassOnAfterTap, TapHeld, Undecided
  <2> QED
    BY <1>u, <2>1 DEF Undecided
<1>4. CASE FirstTap(r)
  <2>1. tapping_key' = [tapping_key EXCEPT !.count = 1]
    BY <1>4 DEF FirstTap
  <2>2. tapping_key'.count = 1
    BY <1>t, <2>1, MarkedAlike
  <2> QED
    BY <1>u, <2>2 DEF Undecided
<1>5. CASE HoldWhenTyped(r) \/ HoldWhenPressed(r) \/ Timeout(r) \/ ReleaseLastTap(r) \/ Reset(r)
  BY <1>5, <1>n DEF HoldWhenTyped, HoldWhenPressed, Timeout, HoldNow, ReleaseLastTap, Reset
<1>6. CASE ReleaseOfEarlierKey(r)
  <2>1. Undecided /\ ~r.pressed /\ Consumed
    BY <1>6 DEF ReleaseOfEarlierKey, Interrupted
  <2> QED
    BY <1>b, <1>d, <2>1, BufferClean DEF Clean
<1>7. CASE Wait(r)
  <2>1. Undecided /\ Refused(r) /\ (HoldOnOtherKeyPress => ~r.pressed)
    BY <1>7 DEF Wait, Interrupted
  <2> QED
    BY <1>b, <1>d, <2>1, BufferClean DEF Clean
<1>8. CASE TapRelease(r)
  <2> DEFINE released == [r EXCEPT !.count = tapping_key.count,
                                   !.interrupted = tapping_key.interrupted]
  <2>1. ~r.pressed /\ (tapping_key' = released \/ tapping_key' = NoRecord)
    BY <1>8 DEF TapRelease
  <2>2. Alike(r, released)
    BY <1>r DEF Alike, Record
  <2> HIDE DEF released
  <2> QED
    BY <1>n, <1>u, <2>1, <2>2 DEF Undecided, Alike
<1>9. CASE QuickTap(r)
  <2> DEFINE c == IF tapping_key.count < 15 THEN tapping_key.count + 1 ELSE 15
  <2>1. tapping_key' = [r EXCEPT !.count = c]
    BY <1>9 DEF QuickTap
  <2>2. c > 0
    BY <1>t
  <2> HIDE DEF c
  <2>3. tapping_key'.count = c
    BY <1>r, <2>1, AlikeChanged
  <2> QED
    BY <1>u, <2>2, <2>3 DEF Undecided
<1>10. CASE PassOnReleased(r)
  <2> DEFINE b == tapping_key.interrupted \/ r.pressed
  <2>1. TapReleased /\ tapping_key' = [tapping_key EXCEPT !.interrupted = b]
    BY <1>10 DEF PassOnReleased
  <2> HIDE DEF b
  <2>2. tapping_key'.pressed = tapping_key.pressed
    BY <1>t, <2>1, AlikeChanged DEF Alike
  <2> QED
    BY <1>u, <2>1, <2>2 DEF Undecided, TapReleased
<1> QED
  BY <1>1, <1>2, <1>3, <1>4, <1>5, <1>6, <1>7, <1>8, <1>9, <1>10 DEF Process

\* A key that was tapped is still the last tap, or its release comes now.
LEMMA ProcessHistory ==
    ASSUME Inv5, Inv0', NEW r \in Called, Process(r), TapReleased'
    PROVE  \/ TapRelease(r)
           \/ /\ TapReleased
              /\ tapping_key'.press = tapping_key.press /\ tapping_key'.key = tapping_key.key
              /\ ~tapping_key'.interrupted => ~tapping_key.interrupted /\ typed' = typed
<1>r. r \in Record /\ r.pressed \in BOOLEAN
  BY CalledTyped, RecordFields, LineTypes5
<1>t. /\ tapping_key \in Record /\ tapping_key.count \in 0 .. 15
      /\ tapping_key.interrupted \in BOOLEAN /\ tapping_key.pressed \in BOOLEAN
  BY RecordFields, LineTypes5 DEF Inv0, TypeOK
<1>n. tapping_key' # NoRecord /\ ~tapping_key'.pressed
  BY DEF TapReleased
<1>1. CASE Ignore(r)
  BY <1>1 DEF Ignore, NothingProcessed, TapReleased
<1>2. CASE Start(r) \/ StartAnother(r) \/ StartOther(r) \/ StartAgain(r)
  <2>1. r.pressed /\ (tapping_key' = r \/ tapping_key' = [r EXCEPT !.count = 1])
    BY <1>2 DEF Start, StartAnother, StartOther, StartAgain, StartTapping
  <2>2. tapping_key'.pressed
    BY <1>r, <2>1, MarkedAlike DEF Alike
  <2> QED
    BY <1>n, <2>2
<1>3. CASE PassOn(r) \/ PassOnAfterTap(r)
  BY <1>3, <1>n DEF PassOn, PassOnAfterTap, TapHeld
<1>4. CASE FirstTap(r)
  <2>1. tapping_key' = [tapping_key EXCEPT !.count = 1] /\ tapping_key.pressed
    BY <1>4 DEF FirstTap, Undecided
  <2>2. tapping_key'.pressed
    BY <1>t, <2>1, MarkedAlike DEF Alike
  <2> QED
    BY <1>n, <2>2
<1>5. CASE HoldWhenTyped(r) \/ HoldWhenPressed(r) \/ Timeout(r) \/ ReleaseLastTap(r) \/ Reset(r)
  BY <1>5, <1>n DEF HoldWhenTyped, HoldWhenPressed, Timeout, HoldNow, ReleaseLastTap, Reset
<1>6. CASE ReleaseOfEarlierKey(r)
  BY <1>6, <1>n DEF ReleaseOfEarlierKey, Interrupted, Undecided
<1>7. CASE Wait(r)
  <2> DEFINE b == tapping_key.interrupted \/ r.pressed
  <2>1. tapping_key.pressed /\ tapping_key' = [tapping_key EXCEPT !.interrupted = b]
    BY <1>7 DEF Wait, Interrupted, Undecided
  <2> HIDE DEF b
  <2>2. tapping_key'.pressed = tapping_key.pressed
    BY <1>t, <2>1, AlikeChanged DEF Alike
  <2> QED
    BY <1>n, <2>1, <2>2
<1>9. CASE QuickTap(r)
  <2> DEFINE c == IF tapping_key.count < 15 THEN tapping_key.count + 1 ELSE 15
  <2>1. r.pressed /\ tapping_key' = [r EXCEPT !.count = c]
    BY <1>9 DEF QuickTap
  <2> HIDE DEF c
  <2>2. Alike(r, [r EXCEPT !.count = c])
    BY <1>r, AlikeChanged
  <2>3. tapping_key'.pressed = r.pressed
    BY <2>1, <2>2 DEF Alike
  <2> QED
    BY <1>n, <2>1, <2>3
<1>10. CASE PassOnReleased(r)
  <2> DEFINE b == tapping_key.interrupted \/ r.pressed
  <2>1. TapReleased /\ tapping_key' = [tapping_key EXCEPT !.interrupted = b] /\ process_record(r)
    BY <1>10 DEF PassOnReleased
  <2>2. b \in BOOLEAN /\ (~b => ~tapping_key.interrupted /\ ~r.pressed)
    OBVIOUS
  <2>3. ~r.pressed => typed' = typed
    BY <2>1 DEF process_record
  <2> HIDE DEF b
  <2>4. Alike(tapping_key, tapping_key') /\ tapping_key'.interrupted = b
    BY <1>t, <2>1, <2>2 DEF Alike, Record
  <2> QED
    BY <2>1, <2>2, <2>3, <2>4 DEF Alike
<1> QED
  BY <1>1, <1>2, <1>3, <1>4, <1>5, <1>6, <1>7, <1>9, <1>10 DEF Process

\* A tap key repeats only when no key was pressed since it was tapped.
LEMMA RepeatIsFresh ==
    ASSUME Inv5, NEW r \in Called, Process(r), TapReleased, tapping_key'.pressed,
           tapping_key'.count > 1
    PROVE  ~tapping_key.interrupted
<1>r. r \in Record /\ r.pressed \in BOOLEAN /\ (IsTick(r) => ~r.pressed)
  BY CalledTyped, RecordFields, LineTypes5
<1>t. /\ tapping_key \in Record /\ tapping_key.count \in 0 .. 15
      /\ tapping_key.interrupted \in BOOLEAN /\ tapping_key.pressed \in BOOLEAN
  BY RecordFields, LineTypes5 DEF Inv0, TypeOK
<1>1. CASE Ignore(r)
  BY <1>1 DEF Ignore, TapReleased
<1>2. CASE StartOther(r) \/ StartAgain(r)
  <2>1. r.pressed /\ (tapping_key' = r \/ tapping_key' = [r EXCEPT !.count = 1])
    BY <1>2 DEF StartOther, StartAgain, StartTapping
  <2>2. CalledAt \in Places /\ At(CalledAt) = r
    BY <1>r, <2>1, CalledPlace, LineTypes5
  <2>3. r.count = 0
    BY <2>1, <2>2, LineTypes5 DEF Inv1, Pressed
  <2>4. [r EXCEPT !.count = 1].count = 1
    BY <1>r, MarkedAlike
  <2>5. tapping_key'.count = 0 \/ tapping_key'.count = 1
    BY <2>1, <2>3, <2>4
  <2> QED
    BY <2>5
<1>3. CASE PassOnReleased(r)
  <2> DEFINE b == tapping_key.interrupted \/ r.pressed
  <2>1. tapping_key' = [tapping_key EXCEPT !.interrupted = b]
    BY <1>3 DEF PassOnReleased
  <2> HIDE DEF b
  <2>2. tapping_key'.pressed = tapping_key.pressed
    BY <1>t, <2>1, AlikeChanged DEF Alike
  <2> QED
    BY <2>2 DEF TapReleased
<1>4. CASE QuickTap(r)
  BY <1>4 DEF QuickTap
<1>5. CASE Reset(r) \/ Start(r) \/ PassOn(r) \/ Timeout(r) \/ HoldWhenTyped(r) \/ HoldWhenPressed(r)
  BY <1>5, NoRecordTyped
     DEF Reset, Start, PassOn, TapReleased, Timeout, HoldWhenTyped, HoldWhenPressed, HoldNow
<1>6. CASE FirstTap(r) \/ ReleaseOfEarlierKey(r) \/ Wait(r)
  BY <1>6 DEF FirstTap, ReleaseOfEarlierKey, Wait, Interrupted, TapReleased, Undecided
<1>7. CASE TapRelease(r) \/ StartAnother(r) \/ ReleaseLastTap(r) \/ PassOnAfterTap(r)
  BY <1>7 DEF TapRelease, StartAnother, ReleaseLastTap, PassOnAfterTap, TapHeld, TapReleased
<1> QED
  BY <1>1, <1>2, <1>3, <1>4, <1>5, <1>6, <1>7 DEF Process

\* What decides the key that is undecided.
LEMMA DecidedBy ==
    ASSUME Inv5, NEW r \in Called, Process(r), Undecided
    PROVE  typed' = typed \/ FirstTap(r) \/ Timeout(r) \/ HoldWhenPressed(r)
<1>1. CASE Ignore(r)
  BY <1>1 DEF Ignore, NothingProcessed
<1>2. CASE ReleaseOfEarlierKey(r)
  BY <1>2 DEF ReleaseOfEarlierKey, process_record
<1>3. CASE Wait(r)
  BY <1>3 DEF Wait, NothingProcessed
<1>4. ~HoldWhenTyped(r)
  BY DEF Inv5, HoldWhenTyped
<1>5. ~Start(r) /\ ~PassOn(r)
  BY DEF Start, PassOn, Undecided
<1>6. ~TapHeld /\ ~TapReleased
  <2>1. tapping_key.count \in 0 .. 15
    BY RecordFields, LineTypes5 DEF Inv0, TypeOK
  <2> QED
    BY <2>1 DEF TapHeld, TapReleased, Undecided
<1>7. /\ ~TapRelease(r) /\ ~StartAnother(r) /\ ~ReleaseLastTap(r) /\ ~PassOnAfterTap(r)
      /\ ~QuickTap(r) /\ ~StartAgain(r) /\ ~StartOther(r) /\ ~PassOnReleased(r) /\ ~Reset(r)
  BY <1>6 DEF TapRelease, StartAnother, ReleaseLastTap, PassOnAfterTap, QuickTap, StartAgain,
     StartOther, PassOnReleased, Reset
<1> QED
  BY <1>1, <1>2, <1>3, <1>4, <1>5, <1>7 DEF Process

\* A press that is processed gets the role the rule gives it.
LEMMA TapRuled ==
    ASSUME Inv5, Inv0', NEW r \in Called, Process(r), pc # "overflow",
           NEW p \in Places, NEW s \in Record, NEW marked, PressTaken(p, s, marked), NEW m \in marked
    PROVE  Rule'
<1>1. /\ s.press \in DOMAIN typed /\ s.key = At(p).key /\ s.key \in Keys /\ s.pressed
      /\ typed[s.press].key = s.key /\ typed[s.press].role = "waiting"
  BY LineTypes5 DEF PressTaken, Alike, Inv1, Pressed
<1>2. process_record(s)
  BY DEF PressTaken
<1>3. /\ SamePresses /\ SameHeld
      /\ \A i \in DOMAIN typed : i # s.press => typed'[i] = typed[i]
      /\ typed'[s.press].role = Role(CurrentKind(s.key), s.count)
  BY <1>1, <1>2, PressEffect, PressHeld, LineTypes5
<1>4. s.count = 1
  BY MarkedIsOwn, LineTypes5
<1>5. Kind[s.key] \in TapKinds => typed'[s.press].role = "code"
  BY <1>3, <1>4, NoOpaque, LineTypes5 DEF Role, TapKinds, Inv2, Roles
<1>6. TapIsDue(s.press)
  BY DecidesTap
<1>7. build' = build
  BY ProcessKeeps
<1> QED
  BY <1>1, <1>3, <1>5, <1>6, <1>7, RuleKept

LEMMA HoldRuled ==
    ASSUME Inv5, Inv0', NEW r \in Called, Process(r), Undecided, Timeout(r) \/ HoldWhenPressed(r)
    PROVE  Rule'
<1>1. 0 \in Places /\ At(0) = tapping_key /\ tapping_key.pressed
  <2>1. Len(waiting_buffer) \in Nat
    BY BufferTypes, LineTypes5
  <2> QED
    BY <2>1 DEF Places, At, Undecided
<1> DEFINE j == tapping_key.press
<1>2. /\ j \in DOMAIN typed /\ tapping_key.key \in Keys /\ tapping_key \in Record
      /\ typed[j].key = tapping_key.key /\ typed[j].role = "waiting" /\ tapping_key.count = 0
  BY <1>1, LineTypes5 DEF Inv1, Pressed
<1>3. process_record(tapping_key)
  BY DEF Timeout, HoldWhenPressed, HoldNow
<1>4. /\ SamePresses /\ SameHeld
      /\ \A i \in DOMAIN typed : i # j => typed'[i] = typed[i]
      /\ typed'[j].role = Role(CurrentKind(tapping_key.key), 0)
  BY <1>1, <1>2, <1>3, PressEffect, PressHeld, LineTypes5
<1>5. Kind[tapping_key.key] \in TapKinds => typed'[j].role = "hold"
  BY <1>4, NoOpaque, LineTypes5 DEF Role, TapKinds, Inv2, Roles
<1>6. HoldIsDue(j)
  BY DecidesHold
<1>7. build' = build
  BY ProcessKeeps
<1> QED
  BY <1>2, <1>4, <1>5, <1>6, <1>7, RuleKept

\* The rule also holds for repeated taps, and for keys that are no tap keys.
LEMMA OtherRuled ==
    ASSUME Inv5, Inv0', NEW r \in Called, Process(r), pc # "overflow", ~Undecided,
           NEW p \in Places, NEW s \in Record, NEW marked, PressTaken(p, s, marked), marked = {}
    PROVE  Rule'
<1>1. /\ s.press \in DOMAIN typed /\ s.key = At(p).key /\ s.key \in Keys /\ s.pressed
      /\ typed[s.press].key = s.key /\ typed[s.press].role = "waiting" /\ s.press = At(p).press
      /\ At(p).pressed /\ \A q \in Places : p <= q
  BY LineTypes5 DEF PressTaken, Alike, Inv1, Pressed
<1>2. process_record(s)
  BY DEF PressTaken
<1> DEFINE j == s.press
<1>3. /\ SamePresses /\ SameHeld
      /\ \A i \in DOMAIN typed : i # j => typed'[i] = typed[i]
      /\ typed'[j].role = Role(CurrentKind(s.key), s.count)
  BY <1>1, <1>2, PressEffect, PressHeld, LineTypes5
<1>4. build' = build
  BY ProcessKeeps
<1>5. Kind[s.key] \notin TapKinds \/ (s.count > 1 /\ tapping_key' = s /\ TapReleased /\ IsTapping(s))
  <2>1. \/ Undecided \/ ~is_tap_record(At(p))
        \/ s.count > 1 /\ tapping_key' = s /\ TapReleased /\ IsTapping(s)
    BY DEF PressTaken
  <2>2. ~is_tap_record(At(p)) => CurrentKind(s.key) \notin TapKinds
    BY <1>1, BuildAssumption DEF is_tap_record
  <2>3. CurrentKind(s.key) = Kind[s.key]
    BY NoOpaque, LineTypes5 DEF Inv2, Roles
  <2> QED
    BY <2>1, <2>2, <2>3
<1>6. CASE Kind[s.key] \notin TapKinds
  BY <1>1, <1>3, <1>4, <1>6, RuleKept
<1>7. CASE Kind[s.key] \in TapKinds
  <2>1. s.count > 1 /\ tapping_key' = s /\ TapReleased /\ IsTapping(s) /\ s.count \in 0 .. 15
    BY <1>5, <1>7, RecordFields
  <2>2. typed'[j].role = "code"
    BY <1>3, <1>7, <2>1, NoOpaque, LineTypes5 DEF Role, Inv2, Roles
  <2>3. ~tapping_key.interrupted
    BY <1>1, <2>1, RepeatIsFresh
  <2> DEFINE h == tapping_key.press
  <2>4. /\ h \in DOMAIN typed /\ typed[h].key = tapping_key.key /\ typed[h].role = "code"
        /\ AllUnder(h) /\ h \in Nat /\ j \in Nat
    BY <1>1, <2>1, <2>3, LineTypes5 DEF Inv5, TapOver
  <2>5. /\ \A i \in 1 .. j - 1 : typed[i].role # "waiting"
        /\ \A i \in DOMAIN typed : i > j => typed[i].role = "waiting"
    BY <1>1, FirstPressWaits, LineTypes5
  <2>6. h < j /\ h \in 1 .. j - 1
    <3>1. ~(h > j) /\ h # j
      BY <1>1, <2>4, <2>5
    <3> QED
      BY <2>4, <3>1, LineTypes5
  <2>7. \A m \in h + 1 .. j - 1 : m \in DOMAIN typed /\ m > h /\ typed[m].role # "waiting"
    BY <1>1, <2>4, <2>5, <2>6, LineTypes5
  <2>8. \A m \in h + 1 .. j - 1 : m \in DOMAIN typed /\ h \in typed[m].under
    BY <2>4, <2>7 DEF AllUnder
  <2>9. /\ typed'[h].key = typed'[j].key /\ typed'[h].role = "code"
        /\ \A m \in h + 1 .. j - 1 : h \in typed'[m].under
    BY <1>1, <1>3, <2>1, <2>4, <2>6, <2>8 DEF SamePresses, IsTapping
  <2>10. Repeats(j)'
    BY <2>2, <2>6, <2>9 DEF Repeats
  <2> QED
    BY <1>1, <1>3, <1>4, <2>2, <2>10, RuleKept
<1> QED
  BY <1>6, <1>7

\* Nothing is processed but a release: the rule stays.
LEMMA QuietRule ==
    ASSUME Inv5, build' = build, typed' = typed
    PROVE  Rule'
<1>1. SamePresses /\ SameHeld /\ 0 \notin DOMAIN typed
      /\ \A i \in DOMAIN typed : typed'[i].role = typed[i].role
  BY LineTypes5 DEF SamePresses, SameHeld
<1> QED
  BY <1>1, RuleKept

LEMMA ProcessRule ==
    ASSUME Inv5, Inv0', NEW r \in Called, Process(r), Shape, pc # "overflow"
    PROVE  Rule'
<1>b. build' = build
  BY ProcessKeeps
<1>q. typed' = typed => Rule'
  BY <1>b, QuietRule
<1>1. CASE Undecided
  <2>1. CASE FirstTap(r)
    <3>1. PICK s \in Record : PressTaken(0, s, {CalledAt})
      BY <2>1, FirstTapShape, LineTypes5
    <3>2. 0 \in Places
      BY <3>1 DEF PressTaken
    <3> QED
      BY <3>1, <3>2, TapRuled
  <2>2. CASE Timeout(r) \/ HoldWhenPressed(r)
    BY <1>1, <2>2, HoldRuled
  <2> QED
    BY <1>q, <1>1, <2>1, <2>2, DecidedBy
<1>2. CASE ~Undecided
  <2>1. CASE Silent
    BY <1>q, <2>1 DEF Silent, NothingProcessed
  <2>2. ASSUME NEW p \in Places, NEW s \in Record, NEW marked, PressTaken(p, s, marked)
        PROVE  Rule'
    <3>1. CASE marked = {}
      BY <1>2, <2>2, <3>1, OtherRuled
    <3>2. CASE marked # {}
      <4>1. PICK m \in marked : TRUE
        BY <3>2
      <4> QED
        BY <2>2, <4>1, TapRuled
    <3> QED
      BY <3>1, <3>2
  <2>3. ASSUME NEW p \in Places, NEW s \in Record, ReleaseTaken(p, s)
        PROVE  Rule'
    <3>1. process_record(s) /\ ~s.pressed
      BY <2>3 DEF ReleaseTaken, Alike
    <3> QED
      BY <1>q, <3>1 DEF process_record
  <2>4. CASE LastTapReleased
    <3>1. process_record([tapping_key EXCEPT !.pressed = FALSE])
      BY <2>4 DEF LastTapReleased
    <3>2. ~[tapping_key EXCEPT !.pressed = FALSE].pressed
      BY LineTypes5 DEF Inv0, TypeOK, Record
    <3> QED
      BY <1>q, <3>1, <3>2 DEF process_record
  <2> QED
    BY <2>1, <2>2, <2>3, <2>4 DEF Shape
<1> QED
  BY <1>1, <1>2

\* A tap that is on stays on.
LEMMA TapStaysOn ==
    ASSUME Inv5, NEW g, NEW gone, NEW marked, Carried(g, gone, marked), SamePresses, TapHeld,
           tapping_key' = tapping_key, pc # "overflow", NEW j,
           \A i \in DOMAIN typed : i # j => typed'[i].role = typed[i].role,
           j \in DOMAIN typed => tapping_key.press \in typed[j].under,
           \A q \in gone : q \in Places /\ ~At(q).pressed => At(q).press # tapping_key.press
    PROVE  TapOn'
<1>1. PICK h : h = tapping_key.press
  OBVIOUS
<1>2. AllUnder(h) /\ h \in DOMAIN typed /\ (~typed[h].up \/ Pending(h))
  BY <1>1, LineTypes5 DEF Inv5, TapOn, Inv2, LastTap
<1>3. AllUnder(h)'
  <2> SUFFICES ASSUME NEW i \in DOMAIN typed, i > h, typed'[i].role # "waiting"
               PROVE  h \in typed[i].under
    BY DEF AllUnder, SamePresses
  <2>1. CASE i = j
    BY <1>1, <2>1
  <2>2. CASE i # j
    BY <1>2, <2>2 DEF AllUnder
  <2> QED
    BY <2>1, <2>2
<1>4. ASSUME pc' # "overflow"
      PROVE  ~typed'[h].up \/ Pending(h)'
  <2>1. CASE ~typed[h].up
    BY <1>2, <2>1 DEF SamePresses
  <2>2. CASE Pending(h)
    <3>1. PICK q \in Places : ~At(q).pressed /\ At(q).press = h
      BY <2>2 DEF Pending
    <3>2. q \notin gone
      BY <1>1, <3>1
    <3>3. \E p \in Places' : ~At(p)'.pressed /\ At(p)'.press = h
      BY <1>4, <3>1, <3>2, CarriedPending, LineTypes5
    <3> QED
      BY <3>3 DEF Pending
  <2> QED
    BY <1>2, <2>1, <2>2
<1> QED
  BY <1>1, <1>3, <1>4 DEF TapOn

\* A press that comes while a tap key is held is under it.
LEMMA UnderTheTap ==
    ASSUME Inv5, pc # "overflow", TapHeld, NEW p \in Places, At(p).pressed, \A q \in Places : p <= q
    PROVE  tapping_key.press \in typed[At(p).press].under
<1>1. PICK h : h = tapping_key.press
  OBVIOUS
<1>2. /\ h \in DOMAIN typed /\ typed[h].role = "code" /\ typed[h].up \in BOOLEAN
      /\ ~typed[h].up \/ Pending(h)
  BY <1>1, LineTypes5 DEF Inv5, TapOn, Inv2, LastTap, Press
<1>3. /\ At(p).press \in DOMAIN typed /\ typed[At(p).press].role = "waiting"
      /\ \A i \in DOMAIN typed : i > At(p).press => typed[i].role = "waiting"
  BY FirstPressWaits, LineTypes5
<1>4. h < At(p).press
  <2>1. ~(h > At(p).press) /\ h # At(p).press
    BY <1>2, <1>3
  <2> QED
    BY <1>2, <1>3, <2>1, LineTypes5
<1>5. CASE ~typed[h].up
  BY <1>1, <1>2, <1>3, <1>4, <1>5 DEF Inv5, Inv3, UnderEarlier
<1>6. CASE Pending(h)
  <2>1. PICK q \in Places : ~At(q).pressed /\ At(q).press = h
    BY <1>6 DEF Pending
  <2>2. p < q
    <3>1. p # q /\ p <= q /\ p \in Nat /\ q \in Nat
      BY <2>1, LineTypes5
    <3> QED
      BY <3>1
  <2> QED
    BY <1>1, <1>4, <2>1, <2>2 DEF Inv5, Inv3, UnderLine
<1> QED
  BY <1>2, <1>5, <1>6

\* A press that becomes a tap is on, and no later one has been processed.
LEMMA TapGoesOn ==
    ASSUME Inv5, Inv0', pc # "overflow", NEW p \in Places, NEW s \in Record, NEW marked,
           PressTaken(p, s, marked), tapping_key' = s
    PROVE  TapOn'
<1>1. PICK h : h = s.press
  OBVIOUS
<1>2. /\ h \in DOMAIN typed /\ h = At(p).press /\ s.key \in Keys /\ s.pressed
      /\ At(p).pressed /\ \A q \in Places : p <= q
  BY <1>1, LineTypes5 DEF PressTaken, Alike
<1>3. process_record(s)
  BY DEF PressTaken
<1>4. /\ SamePresses /\ \A i \in DOMAIN typed : i # h => typed'[i] = typed[i]
  BY <1>1, <1>2, <1>3, PressEffect, LineTypes5
<1>5. /\ typed[h].role = "waiting"
      /\ \A i \in DOMAIN typed : i > h => typed[i].role = "waiting"
  BY <1>2, FirstPressWaits, LineTypes5
<1>6. AllUnder(h)'
  <2> SUFFICES ASSUME NEW i \in DOMAIN typed, i > h, typed'[i].role # "waiting"
               PROVE  FALSE
    BY <1>4 DEF AllUnder, SamePresses
  <2>1. i # h
    BY <1>2, LineTypes5
  <2> QED
    BY <1>4, <1>5, <2>1
<1>7. ASSUME pc' # "overflow"
      PROVE  ~typed'[h].up \/ Pending(h)'
  <2>1. CASE ~typed[h].up
    BY <1>2, <1>4, <2>1 DEF SamePresses
  <2>2. CASE typed[h].up
    <3>1. PICK q \in Places : ~At(q).pressed /\ At(q).press = h
      BY <1>2, <1>5, <2>2, LineTypes5 DEF Inv2, Paired, Pending
    <3>2. PICK g : Carried(g, {p}, marked)
      BY DEF PressTaken
    <3>3. q \notin {p}
      BY <1>2, <3>1
    <3>4. \E m \in Places' : ~At(m)'.pressed /\ At(m)'.press = h
      BY <1>7, <3>1, <3>2, <3>3, CarriedPending, LineTypes5
    <3> QED
      BY <3>4 DEF Pending
  <2>3. typed[h].up \in BOOLEAN
    BY <1>2, LineTypes5 DEF Press
  <2> QED
    BY <2>1, <2>2, <2>3
<1> QED
  BY <1>1, <1>6, <1>7 DEF TapOn

LEMMA ShapeTapOn ==
    ASSUME Inv5, Inv0', Shape, pc # "overflow"
    PROVE  TapOn'
<1>0. SamePresses
  BY ShapeHeld, LineTypes5
<1>h. ~TapHeld' => TapOn'
  BY DEF TapOn
<1>z. 0 \notin DOMAIN typed
  BY LineTypes5
<1>1. CASE Silent
  <2>1. PICK g : Carried(g, {}, {})
    BY <1>1 DEF Silent
  <2>2. typed' = typed /\ NoOtherTap
    BY <1>1 DEF Silent, NothingProcessed
  <2>3. CASE TapHeld'
    <3>1. TapHeld /\ tapping_key' = tapping_key
      BY <2>2, <2>3 DEF NoOtherTap
    <3> QED
      BY <1>0, <1>z, <2>1, <2>2, <3>1, TapStaysOn
  <2> QED
    BY <1>h, <2>3
<1>2. ASSUME NEW p \in Places, NEW s \in Record, NEW marked, PressTaken(p, s, marked)
      PROVE  TapOn'
  <2>1. CASE tapping_key' = s
    BY <1>2, <2>1, TapGoesOn
  <2>2. CASE NoOtherTap
    <3>1. CASE TapHeld'
      <4>1. TapHeld /\ tapping_key' = tapping_key
        BY <2>2, <3>1 DEF NoOtherTap
      <4>2. PICK g : Carried(g, {p}, marked)
        BY <1>2 DEF PressTaken
      <4>3. /\ At(p).pressed /\ (\A q \in Places : p <= q) /\ process_record(s) /\ s.pressed
            /\ s.press = At(p).press /\ s.key \in Keys
        BY <1>2, LineTypes5 DEF PressTaken, Alike
      <4>4. \A i \in DOMAIN typed : i # At(p).press => typed'[i] = typed[i]
        BY <4>3, PressEffect, LineTypes5
      <4>5. tapping_key.press \in typed[At(p).press].under
        BY <4>1, <4>3, UnderTheTap
      <4> QED
        BY <1>0, <4>1, <4>2, <4>3, <4>4, <4>5, TapStaysOn
    <3> QED
      BY <1>h, <3>1
  <2> QED
    BY <1>2, <2>1, <2>2 DEF PressTaken
<1>3. ASSUME NEW p \in Places, NEW s \in Record, ReleaseTaken(p, s)
      PROVE  TapOn'
  <2>1. CASE TapHeld'
    <3>1. TapHeld /\ tapping_key' = tapping_key /\ ~IsTapping(s)
      BY <1>3, <2>1 DEF ReleaseTaken, NoOtherTap
    <3>2. PICK g : Carried(g, {p}, {})
      BY <1>3 DEF ReleaseTaken
    <3>3. process_record(s) /\ ~s.pressed /\ s.key = At(p).key
      BY <1>3 DEF ReleaseTaken, Alike
    <3>4. typed' = typed
      BY <3>3 DEF process_record
    <3>5. At(p).press # tapping_key.press
      BY <3>1, <3>3, LineTypes5 DEF IsTapping, Inv2, LastTap
    <3> QED
      BY <1>0, <1>z, <3>1, <3>2, <3>4, <3>5, TapStaysOn
  <2> QED
    BY <1>h, <2>1
<1>4. CASE LastTapReleased
  BY <1>4, <1>h, NoRecordDecided DEF LastTapReleased
<1> QED
  BY <1>1, <1>2, <1>3, <1>4 DEF Shape

\* The release that ends a tap is that of its own press.
LEMMA OwnRelease ==
    ASSUME Inv5, Inv0', NEW r \in Called, TapRelease(r)
    PROVE  r.press = tapping_key.press
<1>1. /\ TapHeld /\ IsTapping(r) /\ ~r.pressed /\ Consumed /\ pc # "overflow"
      /\ tapping_key.pressed /\ tapping_key.count > 0 /\ tapping_key # NoRecord
  BY DEF TapRelease, TapHeld, Called
<1>2. PICK h : h = tapping_key.press
  OBVIOUS
<1>3. /\ h \in DOMAIN typed /\ typed[h].key = tapping_key.key /\ typed[h].role = "code"
      /\ \A i \in DOMAIN typed : i > h /\ typed[i].key = tapping_key.key => typed[i].role = "waiting"
      /\ typed[h].up \in BOOLEAN
      /\ ~typed[h].up \/ Pending(h)
  BY <1>1, <1>2, LineTypes5 DEF Inv5, TapOn, Inv2, LastTap, Press
<1>4. ~IsTick(r)
  BY <1>1, LineTypes5, BuildAssumption DEF IsTick, IsTapping, Inv0, KeysKnown
<1>5. CalledAt \in Places /\ At(CalledAt) = r /\ CalledAt \in Nat
  BY <1>4, CalledPlace, LineTypes5
<1>6. r.press \in DOMAIN typed /\ typed[r.press].key = tapping_key.key /\ r.key = tapping_key.key
  BY <1>1, <1>5, LineTypes5 DEF IsTapping
<1>7. h <= r.press
  BY <1>3, <1>5, <1>6 DEF Inv5, Inv3, Inv2, Follows
<1>8. ASSUME h < r.press
      PROVE  FALSE
  <2>1. typed[h].up
    BY <1>3, <1>6, <1>8, LineTypes5 DEF Inv0, Fingers
  <2>2. PICK q \in Places : ~At(q).pressed /\ At(q).press = h
    BY <1>3, <2>1 DEF Pending
  <2>3. ~(CalledAt < q)
    <3>1. At(q).key = r.key
      BY <1>3, <1>6, <2>2, LineTypes5
    <3>2. ~Before(r, At(q))
      BY <1>1, <1>6, <1>8, <2>2, LineTypes5 DEF Before
    <3> QED
      BY <1>5, <3>1, <3>2 DEF Inv5, Inv3, Inv2, KeyOrder
  <2>4. ~Undecided /\ ~Undecided'
    <3>1. ~Undecided
      BY <1>1, LineTypes5 DEF Undecided, Inv0, TypeOK, Record
    <3>2. Undecided' => tapping_key' # NoRecord /\ tapping_key'.pressed
      BY DEF Undecided
    <3>3. ~tapping_key'.pressed
      <4>1. r \in Record
        BY CalledTyped, LineTypes5
      <4> DEFINE released == [r EXCEPT !.count = tapping_key.count,
                                       !.interrupted = tapping_key.interrupted]
      <4>2. tapping_key' = NoRecord \/ tapping_key' = released
        BY DEF TapRelease
      <4>3. Alike(r, released)
        BY <4>1 DEF Alike, Record
      <4> HIDE DEF released
      <4> QED
        BY <1>1, <4>2, <4>3, NoRecordTyped DEF Alike
    <3> QED
      BY <3>1, <3>2, <3>3
  <2>5. CalledAt <= q
    BY <1>1, <1>4, <2>2, <2>4, TakenFirst, LineTypes5 DEF Inv1
  <2> QED
    BY <1>1, <1>5, <2>2, <2>3, <2>5, <1>8, LineTypes5
<1> QED
  BY <1>2, <1>3, <1>6, <1>7, <1>8, LineTypes5

LEMMA ProcessTapOver ==
    ASSUME Inv5, Inv0', NEW r \in Called, Process(r), Shape, pc # "overflow"
    PROVE  TapOver'
<1> SUFFICES ASSUME TapReleased', ~tapping_key'.interrupted, NEW h, h = tapping_key'.press
             PROVE  /\ h \in DOMAIN typed' /\ typed'[h].key = tapping_key'.key
                    /\ typed'[h].role = "code" /\ AllUnder(h)'
  BY DEF TapOver
<1>1. CASE TapRelease(r)
  <2> DEFINE released == [r EXCEPT !.count = tapping_key.count,
                                   !.interrupted = tapping_key.interrupted]
  <2>1. /\ TapHeld /\ IsTapping(r) /\ ~r.pressed /\ process_record(released)
        /\ tapping_key' = released \/ tapping_key' = NoRecord
    BY <1>1 DEF TapRelease
  <2>2. Alike(r, released)
    BY CalledTyped, LineTypes5 DEF Alike, Record
  <2> HIDE DEF released
  <2>3. tapping_key'.press = r.press /\ tapping_key'.key = r.key
    BY <2>1, <2>2 DEF TapReleased, Alike
  <2>4. typed' = typed
    BY <2>1, <2>2 DEF process_record, Alike
  <2>5. h = tapping_key.press
    BY <1>1, <2>3, OwnRelease
  <2>6. /\ h \in DOMAIN typed /\ typed[h].key = r.key /\ typed[h].role = "code" /\ AllUnder(h)
    BY <2>1, <2>5, LineTypes5 DEF Inv5, TapOn, Inv2, LastTap, IsTapping
  <2> QED
    BY <2>3, <2>4, <2>6 DEF AllUnder
<1>2. CASE ~TapRelease(r)
  <2>1. /\ TapReleased /\ typed' = typed /\ ~tapping_key.interrupted
        /\ tapping_key'.press = tapping_key.press /\ tapping_key'.key = tapping_key.key
    BY <1>2, ProcessHistory
  <2>2. h = tapping_key.press
    BY <2>1
  <2>3. /\ h \in DOMAIN typed /\ typed[h].key = tapping_key.key /\ typed[h].role = "code"
        /\ AllUnder(h)
    BY <2>1, <2>2 DEF Inv5, TapOver
  <2> QED
    BY <2>1, <2>2, <2>3 DEF AllUnder
<1> QED
  BY <1>1, <1>2

\* Only the release of the last tap goes on with the same record.
LEMMA ProcessGoesOn ==
    ASSUME NEW r, Process(r), pc' = "process"
    PROVE  record' = record /\ pc = "process"
<1>1. \A buffer : ~ConsumedFrom(buffer)
  BY DEF ConsumedFrom
<1>2. \A s : ~Refused(s)
  BY DEF Refused
<1>3. ~StartTapping(r) /\ ~Consumed /\ ~HoldNow(r)
  BY <1>1, <1>2 DEF StartTapping, Consumed, HoldNow
<1>4. ReleaseLastTap(r)
  BY <1>2, <1>3 DEF Process, Ignore, Start, PassOn, FirstTap, HoldWhenTyped, HoldWhenPressed,
     Timeout, ReleaseOfEarlierKey, Wait, TapRelease, StartAnother, PassOnAfterTap, QuickTap,
     StartAgain, StartOther, PassOnReleased, Reset
<1> QED
  BY <1>4 DEF ReleaseLastTap

\* What a step has to keep of Inv5 above Inv3.
Kept5 == /\ ~PermissiveHold' /\ HeldTime' /\ TickNow' /\ TapOn' /\ TapOver' /\ OnlyLast'
         /\ Clean' /\ Rule'

LEMMA ProcessDecides ==
    ASSUME Inv5, Inv0', NEW r \in Called, Process(r), ~NotScanned
    PROVE  Kept5
<1>1. Inv0 /\ Alone /\ Pressed /\ pc # "overflow" /\ UNCHANGED <<build, now>>
  BY LineTypes5, ProcessKeeps DEF Inv1, Called
<1>2. Shape
  BY <1>1, ProcessShape
<1>3. SamePresses /\ SameHeld
  BY <1>2, ShapeHeld, LineTypes5
<1>4. \E g, gone, marked : Carried(g, gone, marked)
  BY <1>2 DEF Shape, Silent, PressTaken, ReleaseTaken, LastTapReleased
<1>5. HeldTime' /\ OnlyLast'
  BY <1>1, <1>3, <1>4, CarriedTimes
<1>6. TickNow'
  BY <1>1, ProcessGoesOn DEF Inv5, TickNow
<1>7. ~PermissiveHold'
  BY <1>1 DEF Inv5, PermissiveHold
<1> QED
  BY <1>1, <1>2, <1>5, <1>6, <1>7, ProcessClean, ProcessRule, ShapeTapOn, ProcessTapOver DEF Kept5

LEMMA KeyUpHeld ==
    ASSUME Inv0, NEW k \in Keys, KeyUp(k)
    PROVE  SameHeld
<1> DEFINE over(i) == {j \in DOMAIN typed : i \in typed[j].under /\ typed[j].up}
<1>1. typed' = [i \in DOMAIN typed |->
                   IF i = Held(k) THEN [typed[i] EXCEPT !.up = TRUE, !.over = over(i)]
                   ELSE typed[i]]
  BY DEF KeyUp
<1>2. \A i \in DOMAIN typed : typed[i] \in Press
  BY DEF Inv0, TypeOK
<1> HIDE DEF over
<1>3. \A i \in DOMAIN typed : [typed[i] EXCEPT !.up = TRUE, !.over = over(i)].held = typed[i].held
  BY <1>2 DEF Press
<1> QED
  BY <1>1, <1>3 DEF SameHeld

LEMMA TickHeld ==
    ASSUME Inv0, NEW gap \in Gaps, Tick(gap)
    PROVE  \A i \in DOMAIN typed :
              typed'[i].held = IF typed[i].up THEN typed[i].held ELSE Shorter(typed[i].held + gap)
<1> DEFINE held(i) == IF typed[i].up THEN typed[i].held
                      ELSE IF typed[i].held + gap > TAPPING_TERM THEN TAPPING_TERM
                      ELSE typed[i].held + gap
<1>1. typed' = [i \in DOMAIN typed |-> [typed[i] EXCEPT !.held = held(i)]]
  BY DEF Tick
<1>2. \A i \in DOMAIN typed : typed[i] \in Press /\ typed[i].held \in 0 .. TAPPING_TERM
  <2>1. \A i \in DOMAIN typed : typed[i] \in Press
    BY DEF Inv0, TypeOK
  <2> QED
    BY <2>1 DEF Press
<1>3. \A i \in DOMAIN typed :
         held(i) = IF typed[i].up THEN typed[i].held ELSE Shorter(typed[i].held + gap)
  BY <1>2, TermAssumption DEF Shorter
<1> HIDE DEF held
<1>4. \A i \in DOMAIN typed : [typed[i] EXCEPT !.held = held(i)].held = held(i)
  BY <1>2 DEF Press
<1> QED
  BY <1>1, <1>3, <1>4

LEMMA OverflowHeld ==
    ASSUME Inv0, Overflow
    PROVE  SameHeld
<1>1. \A i \in DOMAIN typed : typed[i] \in Press
  BY DEF Inv0, TypeOK
<1>2. \A i \in DOMAIN typed : [typed[i] EXCEPT !.role = "dropped"].held = typed[i].held
  BY <1>1 DEF Press
<1> QED
  BY <1>2 DEF Overflow, clear_keyboard, SameHeld

\* The rule stays when no role that counts is given, and the presses go on.
LEMMA RuleStays ==
    ASSUME Inv5, build' = build, DOMAIN typed \subseteq DOMAIN typed',
           DOMAIN typed' \subseteq Nat,
           \A i \in DOMAIN typed' :
               IF i \in DOMAIN typed
               THEN /\ typed'[i].key = typed[i].key /\ typed'[i].under = typed[i].under
                    /\ typed[i].role \in {"code", "hold"} => typed'[i].role = typed[i].role
                    /\ typed[i].role \notin {"code", "hold"} => typed'[i].role \notin {"code", "hold"}
                    /\ HoldIsDue(i) => HoldIsDue(i)'
                    /\ TapIsDue(i) => TapIsDue(i)'
               ELSE typed'[i].role = "waiting"
    PROVE  Rule'
<1> SUFFICES ASSUME NEW i \in DOMAIN typed', i \in DOMAIN typed, Kind[typed[i].key] \in TapKinds
             PROVE  /\ typed'[i].role = "hold" => HoldIsDue(i)'
                    /\ typed'[i].role = "code" => Repeats(i)' \/ TapIsDue(i)'
  BY DEF Rule, Kind
<1>1. typed'[i].role = "hold" => typed[i].role = "hold"
  OBVIOUS
<1>2. typed'[i].role = "code" => typed[i].role = "code"
  OBVIOUS
<1>3. Repeats(i) => Repeats(i)'
  <2> SUFFICES ASSUME Repeats(i)
               PROVE  Repeats(i)'
    OBVIOUS
  <2>1. PICK h \in 1 .. i - 1 : /\ typed[h].key = typed[i].key /\ typed[h].role = "code"
                               /\ \A m \in h + 1 .. i - 1 : h \in typed[m].under
    BY DEF Repeats
  <2>2. typed[i].role = "code"
    BY DEF Repeats
  <2>3. h \in DOMAIN typed /\ \A m \in h + 1 .. i - 1 : m \in DOMAIN typed
    BY <2>1, LineTypes5
  <2>4. /\ typed'[h].key = typed'[i].key /\ typed'[h].role = "code" /\ typed'[i].role = "code"
        /\ \A m \in h + 1 .. i - 1 : h \in typed'[m].under
    BY <2>1, <2>2, <2>3
  <2> QED
    BY <2>1, <2>4 DEF Repeats
<1> QED
  BY <1>1, <1>2, <1>3 DEF Inv5, Rule

\* A new event does not come behind a press that waits in the buffer.
LEMMA NewOnlyLast ==
    ASSUME Inv5, Inv0', pc = "ready", pc' = "process",
           UNCHANGED <<build, tapping_key, waiting_buffer>>, ~IsTick(record') => ~Overtaking
    PROVE  OnlyLast' /\ Clean'
<1>1. /\ \A p \in Places : p \in Places' /\ p <= Len(waiting_buffer) /\ At(p)' = At(p)
      /\ \A p \in Places' : \/ p \in Places
                            \/ /\ p = Len(waiting_buffer) + 1 /\ ~IsTick(record')
                               /\ At(p)' = record'
  BY LineTypes5, NewPlaces
<1>2. Len(waiting_buffer) \in Nat /\ waiting_buffer \in Seq(Record)
  BY BufferTypes, LineTypes5
<1>3. HoldOnOtherKeyPress' = HoldOnOtherKeyPress
  BY DEF HoldOnOtherKeyPress
<1>4. OnlyLast'
  <2> SUFFICES ASSUME HoldOnOtherKeyPress, NEW m \in Places', NEW q \in Places', 0 < m, m < q
               PROVE  ~At(m)'.pressed
    BY <1>3 DEF OnlyLast
  <2>1. m \in Nat /\ q \in Nat
    BY NextPlaces
  <2>2. m \in Places /\ m <= Len(waiting_buffer) /\ At(m)' = At(m)
    BY <1>1, <1>2, <2>1
  <2>3. CASE q \in Places
    BY <2>2, <2>3 DEF Inv5, OnlyLast
  <2>4. CASE q \notin Places
    <3>1. ~IsTick(record')
      BY <1>1, <2>4
    <3>2. waiting_buffer # <<>>
      BY <1>2, <2>1, <2>2
    <3>3. Undecided
      BY <3>1, <3>2 DEF Overtaking
    <3>4. At(m) = waiting_buffer[m] /\ m \in 1 .. Len(waiting_buffer)
      BY <1>2, <2>1, <2>2 DEF At
    <3> QED
      BY <2>2, <3>3, <3>4 DEF Inv5, Clean
  <2> QED
    BY <2>3, <2>4
<1>5. Clean'
  BY <1>3 DEF Inv5, Clean, Undecided
<1> QED
  BY <1>4, <1>5

\* The histories of the last tap go on when no press is processed.
LEMMA TapsGoOn ==
    ASSUME Inv5, tapping_key' = tapping_key, pc # "overflow",
           DOMAIN typed \subseteq DOMAIN typed',
           \A i \in DOMAIN typed' :
               IF i \in DOMAIN typed
               THEN /\ typed'[i].key = typed[i].key /\ typed'[i].under = typed[i].under
                    /\ typed'[i].role = typed[i].role
                    /\ ~typed[i].up \/ Pending(i) => ~typed'[i].up \/ Pending(i)'
               ELSE typed'[i].role = "waiting"
    PROVE  TapOn' /\ TapOver'
<1>1. PICK h : h = tapping_key.press
  OBVIOUS
<1>2. AllUnder(h) => AllUnder(h)'
  BY DEF AllUnder
<1>3. TapHeld => h \in DOMAIN typed
  BY <1>1, LineTypes5 DEF Inv2, LastTap
<1>4. TapOn'
  <2>1. TapHeld' = TapHeld
    BY DEF TapHeld
  <2>2. CASE TapHeld
    <3>1. AllUnder(h) /\ (~typed[h].up \/ Pending(h))
      BY <1>1, <2>2 DEF Inv5, TapOn
    <3> QED
      BY <1>1, <1>2, <1>3, <2>2, <3>1 DEF TapOn
  <2> QED
    BY <2>1, <2>2 DEF TapOn
<1>5. TapOver'
  <2>1. TapReleased' = TapReleased
    BY DEF TapReleased
  <2>2. CASE TapReleased /\ ~tapping_key.interrupted
    <3>1. /\ AllUnder(h) /\ h \in DOMAIN typed /\ typed[h].key = tapping_key.key
          /\ typed[h].role = "code"
      BY <1>1, <2>2 DEF Inv5, TapOver
    <3> QED
      BY <1>1, <1>2, <3>1 DEF TapOver
  <2> QED
    BY <2>1, <2>2 DEF TapOver
<1> QED
  BY <1>4, <1>5

LEMMA KeyDownDecides ==
    ASSUME Inv5, Inv0', NEW k \in Keys, KeyDown(k), ~Overtaking
    PROVE  Kept5
<1>1. /\ typed \in Seq(Press) /\ Len(typed) \in Nat /\ DOMAIN typed = 1 .. Len(typed)
      /\ now \in 0 .. TimerRange - 1
  BY LineTypes5 DEF Inv0, TypeOK
<1>2. /\ pc = "ready" /\ pc' = "process"
      /\ UNCHANGED <<build, tapping_key, waiting_buffer, active, source, now>>
      /\ record' = MakeEvent(k, TRUE, Len(typed) + 1)
  BY DEF KeyDown, NewRecord
<1>3. PICK new : new = Len(typed) + 1
  OBVIOUS
<1>4. /\ DOMAIN typed' = 1 .. new /\ new \in Nat /\ new \in DOMAIN typed' /\ new \notin DOMAIN typed
      /\ \A i \in DOMAIN typed : typed'[i] = typed[i] /\ i \in DOMAIN typed'
      /\ \A i \in DOMAIN typed' : i \in DOMAIN typed \/ i = new
      /\ typed'[new].role = "waiting" /\ ~typed'[new].up /\ typed'[new].held = 0
      /\ typed'[new].under = {i \in DOMAIN typed : ~typed[i].up}
  BY <1>1, <1>3 DEF KeyDown
<1>5. record'.pressed /\ record'.press = new /\ record'.time = now
  BY <1>2, <1>3 DEF MakeEvent
<1>6. /\ \A p \in Places : p \in Places' /\ p <= Len(waiting_buffer) /\ At(p)' = At(p)
      /\ \A p \in Places' : \/ p \in Places
                            \/ /\ p = Len(waiting_buffer) + 1 /\ ~IsTick(record')
                               /\ At(p)' = record'
  BY LineTypes5, <1>2, NewPlaces
<1>7. HeldTime'
  <2> SUFFICES ASSUME NEW p \in Places', At(p)'.pressed
               PROVE  /\ ~typed'[At(p)'.press].up
                            => typed'[At(p)'.press].held
                                  = Shorter((now - At(p)'.time) % TimerRange)
                      /\ \A q \in Places' :
                            ~At(q)'.pressed /\ At(q)'.press = At(p)'.press
                                => typed'[At(p)'.press].held
                                      = Shorter(((now - At(p)'.time) % TimerRange)
                                                   - ((now - At(q)'.time) % TimerRange))
    BY <1>2 DEF HeldTime, Age, Shorter
  <2>1. CASE p \in Places
    <3>1. /\ At(p)' = At(p) /\ At(p).press \in DOMAIN typed
          /\ typed'[At(p).press] = typed[At(p).press] /\ At(p).press # new
      BY <1>4, <1>6, <2>1, LineTypes5
    <3>2. \A q \in Places' : At(q)'.press = At(p).press => q \in Places /\ At(q)' = At(q)
      BY <1>5, <1>6, <3>1
    <3> QED
      BY <2>1, <3>1, <3>2 DEF Inv5, HeldTime, Age
  <2>2. CASE p \notin Places
    <3>1. At(p)' = record'
      BY <1>6, <2>2
    <3>2. \A q \in Places' : At(q)'.press = new => At(q)'.pressed
      BY <1>4, <1>5, <1>6, LineTypes5
    <3>3. (now - now) % TimerRange = 0
      BY <1>1, Modulo
    <3>4. Shorter(0) = 0
      BY TermAssumption DEF Shorter
    <3> QED
      BY <1>4, <1>5, <3>1, <3>2, <3>3, <3>4
  <2> QED
    BY <2>1, <2>2
<1>8. TickNow' /\ ~PermissiveHold'
  BY <1>2, <1>5 DEF TickNow, PermissiveHold, Inv5
<1>9. OnlyLast' /\ Clean'
  BY <1>2, NewOnlyLast
<1>10. TapOn' /\ TapOver'
  <2>1. \A i \in DOMAIN typed : Pending(i) => Pending(i)'
    BY <1>6 DEF Pending
  <2> QED
    BY <1>2, <1>4, <2>1, TapsGoOn
<1>11. Rule'
  <2>1. ASSUME NEW i \in DOMAIN typed
        PROVE  /\ HoldIsDue(i) => HoldIsDue(i)'
               /\ TapIsDue(i) => TapIsDue(i)'
    BY <1>2, <1>4 DEF HoldIsDue, TapIsDue, HoldOnOtherKeyPress
  <2> QED
    BY <1>2, <1>4, <2>1, RuleStays
<1> QED
  BY <1>7, <1>8, <1>9, <1>10, <1>11 DEF Kept5

LEMMA KeyUpDecides ==
    ASSUME Inv5, Inv0', NEW k \in Keys, KeyUp(k), ~Overtaking
    PROVE  Kept5
<1>1. /\ DOMAIN typed' = DOMAIN typed /\ now \in 0 .. TimerRange - 1
      /\ \A i \in DOMAIN typed :
            /\ typed'[i].key = typed[i].key /\ typed'[i].under = typed[i].under
            /\ typed'[i].role = typed[i].role
            /\ typed'[i].up <=> (typed[i].up \/ i = Held(k))
            /\ typed'[i].held = typed[i].held
  BY KeyUpTyped, KeyUpHeld, LineTypes5 DEF SameHeld
<1>2. /\ pc = "ready" /\ pc' = "process" /\ k \in down
      /\ UNCHANGED <<build, tapping_key, waiting_buffer, active, source, now>>
      /\ record' = MakeEvent(k, FALSE, Held(k))
  BY DEF KeyUp, NewRecord
<1>3. PICK press \in DOMAIN typed : press = Held(k)
  BY <1>2, HeldIs, LineTypes5
<1>4. /\ ~typed[press].up /\ \A i \in DOMAIN typed : typed'[i].up <=> (typed[i].up \/ i = press)
  BY <1>1, <1>2, <1>3, HeldIs, LineTypes5
<1>5. /\ ~record'.pressed /\ record'.press = press /\ ~IsTick(record') /\ record'.time = now
  BY <1>2, <1>3, BuildAssumption DEF MakeEvent, IsTick
<1>6. /\ \A p \in Places : p \in Places' /\ p <= Len(waiting_buffer) /\ At(p)' = At(p)
      /\ \A p \in Places' : \/ p \in Places
                            \/ /\ p = Len(waiting_buffer) + 1 /\ ~IsTick(record')
                               /\ At(p)' = record'
      /\ ~IsTick(record') => \E p \in Places' : p = Len(waiting_buffer) + 1 /\ At(p)' = record'
  BY LineTypes5, <1>2, NewPlaces
<1>7. HeldTime'
  <2> SUFFICES ASSUME NEW p \in Places', At(p)'.pressed
               PROVE  /\ ~typed'[At(p)'.press].up
                            => typed'[At(p)'.press].held
                                  = Shorter((now - At(p)'.time) % TimerRange)
                      /\ \A q \in Places' :
                            ~At(q)'.pressed /\ At(q)'.press = At(p)'.press
                                => typed'[At(p)'.press].held
                                      = Shorter(((now - At(p)'.time) % TimerRange)
                                                   - ((now - At(q)'.time) % TimerRange))
    BY <1>2 DEF HeldTime, Age, Shorter
  <2>1. /\ p \in Places /\ At(p)' = At(p) /\ At(p).press \in DOMAIN typed /\ At(p).pressed
        /\ typed'[At(p).press].held = typed[At(p).press].held
        /\ ~typed'[At(p).press].up => ~typed[At(p).press].up
    BY <1>1, <1>5, <1>6, LineTypes5
  <2>2. ~typed[At(p).press].up => typed[At(p).press].held = Shorter(Age(At(p)))
    BY <2>1 DEF Inv5, HeldTime
  <2>3. ASSUME NEW q \in Places', ~At(q)'.pressed, At(q)'.press = At(p).press
        PROVE  typed[At(p).press].held
                   = Shorter(((now - At(p).time) % TimerRange) - ((now - At(q)'.time) % TimerRange))
    <3>1. CASE q \in Places
      <4>1. At(q)' = At(q)
        BY <1>6, <3>1
      <4> QED
        BY <2>1, <2>3, <3>1, <4>1 DEF Inv5, HeldTime, Age
    <3>2. CASE q \notin Places
      <4>1. At(q)' = record' /\ At(p).press = press
        BY <1>5, <1>6, <2>3, <3>2
      <4>2. (now - now) % TimerRange = 0
        BY <1>1, Modulo
      <4>3. Age(At(p)) \in Nat
        BY <2>1, LineTypes5
      <4> QED
        BY <1>4, <1>5, <2>2, <4>1, <4>2, <4>3 DEF Age
    <3> QED
      BY <3>1, <3>2
  <2> QED
    BY <2>1, <2>2, <2>3 DEF Age
<1>8. TickNow' /\ ~PermissiveHold'
  BY <1>2, <1>5 DEF TickNow, PermissiveHold, Inv5
<1>9. OnlyLast' /\ Clean'
  BY <1>2, NewOnlyLast
<1>10. TapOn' /\ TapOver'
  <2>1. \A i \in DOMAIN typed : ~typed[i].up \/ Pending(i) => ~typed'[i].up \/ Pending(i)'
    <3>1. \A i \in DOMAIN typed : Pending(i) => Pending(i)'
      BY <1>6 DEF Pending
    <3>2. Pending(press)'
      BY <1>5, <1>6 DEF Pending
    <3> QED
      BY <1>4, <3>1, <3>2
  <2> QED
    BY <1>1, <1>2, <2>1, TapsGoOn
<1>11. Rule'
  <2>1. ASSUME NEW i \in DOMAIN typed
        PROVE  /\ HoldIsDue(i) => HoldIsDue(i)'
               /\ TapIsDue(i) => TapIsDue(i)'
    BY <1>1, <1>2 DEF HoldIsDue, TapIsDue, HoldOnOtherKeyPress
  <2> QED
    BY <1>1, <1>2, <2>1, RuleStays, LineTypes5
<1> QED
  BY <1>7, <1>8, <1>9, <1>10, <1>11 DEF Kept5

LEMMA TickDecides ==
    ASSUME Inv5, Inv0', NEW gap \in Gaps, Tick(gap), ~TimerWraps
    PROVE  Kept5
<1>1. /\ DOMAIN typed' = DOMAIN typed
      /\ \A i \in DOMAIN typed :
            /\ typed'[i].key = typed[i].key /\ typed'[i].up = typed[i].up
            /\ typed'[i].under = typed[i].under /\ typed'[i].role = typed[i].role
            /\ typed[i].up \in BOOLEAN /\ typed[i].held \in Nat
            /\ typed'[i].held = IF typed[i].up THEN typed[i].held
                                ELSE Shorter(typed[i].held + gap)
  <2>1. \A i \in DOMAIN typed : typed[i].up \in BOOLEAN /\ typed[i].held \in Nat
    BY LineTypes5, TermAssumption DEF Press
  <2> QED
    BY <2>1, TickTyped, TickHeld, LineTypes5 DEF SamePresses
<1>2. /\ pc = "ready" /\ pc' = "process" /\ IsTick(record') /\ gap \in Nat
      /\ UNCHANGED <<build, tapping_key, waiting_buffer, active, source>>
  BY TermAssumption DEF Tick, NewRecord, MakeEvent, IsTick
<1>3. /\ \A p \in Places : p \in Places' /\ At(p)' = At(p)
      /\ \A p \in Places' : p \in Places
  <2>1. /\ \A p \in Places : p \in Places' /\ p <= Len(waiting_buffer) /\ At(p)' = At(p)
        /\ \A p \in Places' : \/ p \in Places
                              \/ /\ p = Len(waiting_buffer) + 1 /\ ~IsTick(record')
                                 /\ At(p)' = record'
    BY LineTypes5, <1>2, NewPlaces
  <2> QED
    BY <1>2, <2>1
<1>4. \A p \in Places : (now' - At(p).time) % TimerRange = Age(At(p)) + gap
  BY AgesGrow, LineTypes5
<1>5. HeldTime'
  <2> SUFFICES ASSUME NEW p \in Places, At(p).pressed
               PROVE  /\ ~typed[At(p).press].up
                            => typed'[At(p).press].held
                                  = Shorter((now' - At(p).time) % TimerRange)
                      /\ \A q \in Places :
                            ~At(q).pressed /\ At(q).press = At(p).press
                                => typed'[At(p).press].held
                                      = Shorter(((now' - At(p).time) % TimerRange)
                                                   - ((now' - At(q).time) % TimerRange))
    <3>1. \A p \in Places : typed'[At(p).press].up = typed[At(p).press].up
      BY <1>1, LineTypes5
    <3> QED
      BY <1>3, <3>1 DEF HeldTime, Age, Shorter
  <2>1. At(p).press \in DOMAIN typed /\ Age(At(p)) \in Nat
    BY LineTypes5
  <2>2. ASSUME ~typed[At(p).press].up
        PROVE  typed'[At(p).press].held = Shorter(Age(At(p)) + gap)
    <3>1. typed[At(p).press].held = Shorter(Age(At(p)))
      BY <2>2 DEF Inv5, HeldTime
    <3>2. typed'[At(p).press].held = Shorter(typed[At(p).press].held + gap)
      BY <1>1, <2>1, <2>2
    <3> QED
      BY <1>2, <2>1, <3>1, <3>2, TermAssumption DEF Shorter
  <2>3. ASSUME NEW q \in Places, ~At(q).pressed, At(q).press = At(p).press
        PROVE  typed'[At(p).press].held = Shorter((Age(At(p)) + gap) - (Age(At(q)) + gap))
    <3>1. typed[At(p).press].held = Shorter(Age(At(p)) - Age(At(q)))
      BY <2>3 DEF Inv5, HeldTime
    <3>2. typed[At(p).press].up
      BY <2>3, LineTypes5
    <3>3. typed'[At(p).press].held = typed[At(p).press].held
      BY <1>1, <2>1, <3>2
    <3>4. (Age(At(p)) + gap) - (Age(At(q)) + gap) = Age(At(p)) - Age(At(q))
      BY <1>2, <2>1, LineTypes5
    <3> QED
      BY <3>1, <3>3, <3>4
  <2> QED
    BY <1>4, <2>2, <2>3
<1>6. TickNow' /\ ~PermissiveHold'
  <2>1. record'.time = now'
    BY DEF Tick, NewRecord, MakeEvent
  <2> QED
    BY <1>2, <2>1 DEF TickNow, PermissiveHold, Inv5
<1>7. OnlyLast' /\ Clean'
  BY <1>2, NewOnlyLast
<1>8. TapOn' /\ TapOver'
  <2>1. \A i \in DOMAIN typed : Pending(i) => Pending(i)'
    BY <1>3 DEF Pending
  <2> QED
    BY <1>1, <1>2, <2>1, TapsGoOn
<1>9. Rule'
  <2>1. ASSUME NEW i \in DOMAIN typed
        PROVE  /\ HoldIsDue(i) => HoldIsDue(i)'
               /\ TapIsDue(i) => TapIsDue(i)'
    <3>1. typed[i].held = TAPPING_TERM => typed'[i].held = TAPPING_TERM
      BY <1>1, <1>2, TermAssumption DEF Shorter
    <3>2. HoldIsDue(i) => HoldIsDue(i)'
      BY <1>1, <1>2, <3>1 DEF HoldIsDue, HoldOnOtherKeyPress
    <3>3. TapIsDue(i) => TapIsDue(i)'
      BY <1>1, <1>2 DEF TapIsDue, HoldOnOtherKeyPress
    <3> QED
      BY <3>2, <3>3
  <2> QED
    BY <1>1, <1>2, <2>1, RuleStays, LineTypes5
<1> QED
  BY <1>5, <1>6, <1>7, <1>8, <1>9 DEF Kept5

LEMMA OverflowDecides ==
    ASSUME Inv5, Inv0', Overflow
    PROVE  Kept5
<1>1. /\ SamePresses /\ SameHeld /\ Places' = {}
      /\ \A i \in DOMAIN typed :
            typed'[i].role = IF typed[i].role = "waiting" THEN "dropped" ELSE typed[i].role
  BY OverflowTyped, OverflowOrder, OverflowHeld, LineTypes5
<1>2. tapping_key' = NoRecord /\ build' = build /\ pc' = "drain"
  BY DEF Overflow, Return
<1>3. ~Undecided' /\ ~TapHeld' /\ ~TapReleased'
  BY <1>2, NoRecordDecided DEF TapReleased
<1>4. HeldTime' /\ OnlyLast' /\ Clean' /\ TapOn' /\ TapOver'
  BY <1>1, <1>3 DEF HeldTime, OnlyLast, Clean, TapOn, TapOver
<1>5. TickNow' /\ ~PermissiveHold'
  BY <1>2 DEF TickNow, PermissiveHold, Inv5
<1>6. Rule'
  <2>1. ASSUME NEW i \in DOMAIN typed
        PROVE  /\ HoldIsDue(i) => HoldIsDue(i)'
               /\ TapIsDue(i) => TapIsDue(i)'
    BY <1>1, <1>2 DEF HoldIsDue, TapIsDue, HoldOnOtherKeyPress, SamePresses, SameHeld
  <2> QED
    BY <1>1, <1>2, <2>1, RuleStays, LineTypes5 DEF SamePresses
<1> QED
  BY <1>4, <1>5, <1>6 DEF Kept5

LEMMA IdleDecides ==
    ASSUME Inv5, Inv0', Drained \/ UNCHANGED vars
    PROVE  Kept5
<1>1. /\ UNCHANGED <<build, tapping_key, waiting_buffer, now, record, typed>>
      /\ pc = "overflow" => pc' = "overflow"
      /\ pc' = "process" => pc = "process"
  BY DEF Drained, vars
<1>2. /\ SamePresses /\ SameHeld /\ HoldOnOtherKeyPress' = HoldOnOtherKeyPress
      /\ PermissiveHold' = PermissiveHold /\ TapReleased' = TapReleased /\ Undecided' = Undecided
  BY <1>1 DEF SamePresses, SameHeld, HoldOnOtherKeyPress, PermissiveHold, TapReleased, Undecided
<1>3. Carried(Stay, {}, {})
  BY IdleOrder, LineTypes5
<1>4. HeldTime' /\ OnlyLast'
  BY <1>1, <1>2, <1>3, CarriedTimes
<1>5. TickNow' /\ ~PermissiveHold' /\ Clean'
  BY <1>1, <1>2 DEF TickNow, Inv5, Clean
<1>6. Rule'
  BY <1>1, QuietRule
<1>7. TapOn' /\ TapOver'
  <2>1. CASE UNCHANGED vars
    BY <2>1 DEF vars, Inv5, TapOn, TapOver, AllUnder, TapHeld, TapReleased, Pending, Places, At,
       Undecided, IsTick
  <2>2. CASE Drained
    <3>1. pc # "overflow" /\ pc' # "overflow"
      BY <2>2 DEF Drained
    <3>2. \A i \in DOMAIN typed : Pending(i) => Pending(i)'
      <4> SUFFICES ASSUME NEW i \in DOMAIN typed, Pending(i)
                   PROVE  Pending(i)'
        OBVIOUS
      <4>1. PICK q \in Places : ~At(q).pressed /\ At(q).press = i
        BY DEF Pending
      <4>2. \E p \in Places' : ~At(p)'.pressed /\ At(p)'.press = i
        BY <1>3, <3>1, <4>1, CarriedPending, LineTypes5
      <4> QED
        BY <4>2 DEF Pending
    <3> QED
      BY <1>1, <3>1, <3>2, TapsGoOn
  <2> QED
    BY <2>1, <2>2
<1> QED
  BY <1>4, <1>5, <1>6, <1>7 DEF Kept5

LEMMA NextDecides ==
    ASSUME Inv5, [Next]_vars, [Undisturbed]_vars
    PROVE  Inv5'
<1>0. Inv3' /\ Inv0'
  <2>1. Inv3'
    BY NextUnder DEF Inv5
  <2> QED
    BY <2>1 DEF Inv3, Inv2, Inv1
<1>1. ASSUME NEW k \in Keys, KeyDown(k) \/ KeyUp(k)
      PROVE  Inv5'
  <2>1. ~Overtaking
    BY <1>1 DEF KeyDown, KeyUp, NewRecord, vars, Undisturbed
  <2> QED
    BY <1>0, <1>1, <2>1, KeyDownDecides, KeyUpDecides DEF Inv5, Kept5
<1>2. ASSUME NEW gap \in Gaps, Tick(gap)
      PROVE  Inv5'
  <2>1. ~TimerWraps
    BY <1>2 DEF Tick, NewRecord, vars, Undisturbed
  <2> QED
    BY <1>0, <1>2, <2>1, TickDecides DEF Inv5, Kept5
<1>3. CASE Drained \/ UNCHANGED vars
  BY <1>0, <1>3, IdleDecides DEF Inv5, Kept5
<1>4. ASSUME NEW r \in Called, Process(r)
      PROVE  Inv5'
  <2>1. CASE UNCHANGED vars
    BY <1>3, <2>1
  <2>2. CASE Undisturbed
    BY <1>0, <1>4, <2>2, ProcessDecides DEF Inv5, Kept5, Undisturbed
  <2> QED
    BY <2>1, <2>2
<1>5. CASE Overflow
  BY <1>0, <1>5, OverflowDecides DEF Inv5, Kept5
<1> QED
  BY <1>1, <1>2, <1>3, <1>4, <1>5 DEF Next

LEMMA InitDecides ==
    ASSUME Init, Opaque = {}, ~PermissiveHold
    PROVE  Inv5
<1>1. Inv3
  BY InitUnder
<1>2. Places = {} /\ typed = <<>> /\ waiting_buffer = <<>> /\ pc = "ready"
      /\ ~TapHeld /\ ~TapReleased /\ ~Undecided
  BY NoRecordTyped DEF Init, Places, Undecided, TapHeld, TapReleased
<1> QED
  BY <1>1, <1>2 DEF Inv5, HeldTime, TickNow, TapOn, TapOver, OnlyLast, Clean, Rule

\* A tap key that came up is a hold exactly when it was held for the tapping
\* term or, with HOLD_ON_OTHER_KEY_PRESS, another key was pressed meanwhile,
\* and a tap otherwise, or a repeated tap: for every timing, also when both its
\* events waited in the buffer for the decision on another key, under the
\* conditions of NoKeySticks, in the builds without PERMISSIVE_HOLD (MCTapNested
\* shows that the rule of PERMISSIVE_HOLD is not kept).
THEOREM DecidedByRule ==
    Spec /\ Opaque = {} /\ ~PermissiveHold /\ [][Undisturbed]_vars => []DecisionRule
<1>1. Init /\ Opaque = {} /\ ~PermissiveHold => Inv5
  BY InitDecides
<1>2. Inv5 /\ [Next]_vars /\ [Undisturbed]_vars => Inv5'
  BY NextDecides
<1>3. Inv5 => DecisionRule
  <2> SUFFICES ASSUME Inv5, NEW i \in Decided
               PROVE  typed[i].role = "hold" <=>
                          \/ typed[i].held = TAPPING_TERM
                          \/ PermissiveHold /\ typed[i].over # {}
                          \/ HoldOnOtherKeyPress /\ \E j \in DOMAIN typed : i \in typed[j].under
    BY DEF DecisionRule
  <2>1. /\ i \in DOMAIN typed /\ typed[i].role \in {"code", "hold"}
        /\ Kind[typed[i].key] \in TapKinds /\ ~Repeats(i)
    BY DEF Decided
  <2>2. /\ typed[i].role = "hold" => HoldIsDue(i)
        /\ typed[i].role = "code" => TapIsDue(i)
    BY <2>1 DEF Inv5, Rule
  <2>3. ~(HoldIsDue(i) /\ TapIsDue(i))
    <3>1. typed[i].held \in 0 .. TAPPING_TERM
      BY <2>1, LineTypes5 DEF Press
    <3> QED
      BY <3>1, TermAssumption DEF HoldIsDue, TapIsDue
  <2> QED
    BY <2>1, <2>2, <2>3 DEF HoldIsDue, Inv5
<1> QED
  BY <1>1, <1>2, <1>3, PTL DEF Spec
=============================================================================
