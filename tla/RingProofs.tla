----------------------------- MODULE RingProofs -----------------------------
(***************************************************************************)
(* The rings of the wireless stack implement bounded queues, for every     *)
(* size and every set of elements.                                         *)
(***************************************************************************)
EXTENDS Ring, TLAPS

\* The index arithmetic of the rings: the slot after i wraps to 0.
LEMMA AfterWraps ==
    \A i \in Index : After(i) = IF i = Size - 1 THEN 0 ELSE i + 1
<1> SUFFICES ASSUME NEW i \in Index
             PROVE  After(i) = IF i = Size - 1 THEN 0 ELSE i + 1
  OBVIOUS
<1>1. i + 1 \in 1 .. Size
  BY SizeAssumption DEF Index
<1>2. CASE i = Size - 1
  <2>1. Size % Size = 0
    BY SizeAssumption
  <2> QED BY <1>2, <2>1, SizeAssumption DEF After
<1>3. CASE i # Size - 1
  <2>1. i + 1 \in 0 .. Size - 1
    BY <1>1, <1>3, SizeAssumption DEF Index
  <2>2. (i + 1) % Size = i + 1
    BY <2>1, SizeAssumption
  <2> QED BY <1>3, <2>2 DEF After
<1> QED BY <1>2, <1>3

\* The index after an index is an index.
LEMMA AfterIndex == \A i \in Index : After(i) \in Index
  BY AfterWraps, SizeAssumption DEF Index

-----------------------------------------------------------------------------
(***************************************************************************)
(* What the code's index tests and updates mean for the elements between   *)
(* the indices.                                                            *)
(***************************************************************************)
Element == Value \cup {Zero}

\* Two sequences with the same length and elements are equal.
LEMMA SeqEqual ==
    ASSUME NEW S, NEW s \in Seq(S), NEW t \in Seq(S), Len(s) = Len(t),
           \A i \in 1 .. Len(s) : s[i] = t[i]
    PROVE  s = t
  OBVIOUS

\* The contents of a ring are a sequence, one element for each slot from the
\* tail to the head.
LEMMA BetweenSeq ==
    ASSUME NEW s \in [Index -> Element], NEW h \in Index, NEW t \in Index
    PROVE  /\ Count(h, t) \in 0 .. Size - 1
           /\ \A i \in 1 .. Count(h, t) : Slot(t, i) \in Index
           /\ Between(s, h, t) \in Seq(Element)
           /\ Len(Between(s, h, t)) = Count(h, t)
           /\ \A i \in 1 .. Count(h, t) : Between(s, h, t)[i] = s[Slot(t, i)]
<1>1. Count(h, t) \in 0 .. Size - 1
  BY SizeAssumption DEF Count, Index
<1>2. \A i \in 1 .. Count(h, t) : Slot(t, i) \in Index
  BY <1>1, SizeAssumption DEF Slot, Index
<1>3. \A i \in 1 .. Count(h, t) : s[Slot(t, i)] \in Element
  BY <1>2
<1> QED BY <1>1, <1>2, <1>3 DEF Between

\* Equal indices are the empty queue, and a head just before the tail is the
\* full one.
LEMMA EmptyAndFull ==
    ASSUME NEW s \in [Index -> Element], NEW h \in Index, NEW t \in Index
    PROVE  /\ h = t <=> Between(s, h, t) = <<>>
           /\ After(h) = t <=> Len(Between(s, h, t)) = Size - 1
<1>1. h = t <=> Count(h, t) = 0
  BY SizeAssumption DEF Count, Index
<1>2. Between(s, h, t) = <<>> <=> Len(Between(s, h, t)) = 0
  BY BetweenSeq
<1>3. After(h) = IF h = Size - 1 THEN 0 ELSE h + 1
  BY AfterWraps
<1>4. After(h) = t <=> Count(h, t) = Size - 1
  BY <1>3, SizeAssumption DEF Count, Index
<1> QED BY <1>1, <1>2, <1>4, BetweenSeq

\* Advancing the tail takes the oldest element.
LEMMA TakeOldest ==
    ASSUME NEW s \in [Index -> Element], NEW h \in Index, NEW t \in Index, h # t
    PROVE  /\ Between(s, h, After(t)) = Tail(Between(s, h, t))
           /\ Head(Between(s, h, t)) = s[t]
<1> DEFINE u == After(t)
           n == Count(h, t)
           old == Between(s, h, t)
           new == Between(s, h, u)
<1>1. u \in Index /\ u = IF t = Size - 1 THEN 0 ELSE t + 1
  BY AfterWraps, AfterIndex
<1>2. n \in 1 .. Size - 1 /\ Count(h, u) = n - 1
  BY <1>1, SizeAssumption DEF Count, Index
<1>3. \A i \in 1 .. n - 1 : Slot(u, i) = Slot(t, i + 1)
  BY <1>1, <1>2, SizeAssumption DEF Slot, Index
<1>4. Slot(t, 1) = t
  BY SizeAssumption DEF Slot, Index
<1> HIDE DEF u, n, old, new
<1>5. /\ old \in Seq(Element) /\ Len(old) = n
      /\ \A i \in 1 .. n : old[i] = s[Slot(t, i)]
  BY BetweenSeq DEF old, n
<1>6. /\ new \in Seq(Element) /\ Len(new) = n - 1
      /\ \A i \in 1 .. n - 1 : new[i] = s[Slot(u, i)]
  <2>1. /\ new \in Seq(Element) /\ Len(new) = Count(h, u)
        /\ \A i \in 1 .. Count(h, u) : new[i] = s[Slot(u, i)]
    BY <1>1, BetweenSeq DEF new
  <2> QED BY <1>2, <2>1
<1>7. old # <<>>
  BY <1>2, <1>5
<1>8. /\ Tail(old) \in Seq(Element) /\ Len(Tail(old)) = n - 1
      /\ \A i \in 1 .. n - 1 : Tail(old)[i] = old[i + 1]
  BY <1>2, <1>5, <1>7
<1>9. \A i \in 1 .. n - 1 : new[i] = Tail(old)[i]
  BY <1>2, <1>3, <1>5, <1>6, <1>8
<1>10. new = Tail(old)
  BY <1>6, <1>8, <1>9, SeqEqual
<1>11. Head(old) = s[t]
  BY <1>2, <1>4, <1>5, <1>7
<1> QED BY <1>10, <1>11 DEF old, new, u

\* Writing the head's slot and advancing the head adds the newest element.
LEMMA AddNewest ==
    ASSUME NEW s \in [Index -> Element], NEW h \in Index, NEW t \in Index,
           After(h) # t, NEW v \in Element
    PROVE  Between([s EXCEPT ![h] = v], After(h), t) = Append(Between(s, h, t), v)
<1> DEFINE g == After(h)
           r == [s EXCEPT ![h] = v]
           n == Count(h, t)
           old == Between(s, h, t)
           new == Between(r, g, t)
<1>1. g \in Index /\ g = IF h = Size - 1 THEN 0 ELSE h + 1
  BY AfterWraps, AfterIndex
<1>2. n \in 0 .. Size - 2 /\ Count(g, t) = n + 1
  BY <1>1, SizeAssumption DEF Count, Index
<1>3. Slot(t, n + 1) = h /\ \A i \in 1 .. n : Slot(t, i) # h
  BY <1>2, SizeAssumption DEF Slot, Count, Index
<1>4. r \in [Index -> Element]
  OBVIOUS
<1>5. r[h] = v /\ \A j \in Index : j # h => r[j] = s[j]
  OBVIOUS
<1> HIDE DEF g, r, n, old, new
<1>6. /\ old \in Seq(Element) /\ Len(old) = n
      /\ \A i \in 1 .. n : Slot(t, i) \in Index /\ old[i] = s[Slot(t, i)]
  BY BetweenSeq DEF old, n
<1>7. /\ new \in Seq(Element) /\ Len(new) = n + 1
      /\ \A i \in 1 .. n + 1 : new[i] = r[Slot(t, i)]
  <2>1. /\ new \in Seq(Element) /\ Len(new) = Count(g, t)
        /\ \A i \in 1 .. Count(g, t) : new[i] = r[Slot(t, i)]
    BY <1>1, <1>4, BetweenSeq DEF new
  <2> QED BY <1>2, <2>1
<1>8. /\ Append(old, v) \in Seq(Element) /\ Len(Append(old, v)) = n + 1
      /\ Append(old, v)[n + 1] = v
      /\ \A i \in 1 .. n : Append(old, v)[i] = old[i]
  BY <1>2, <1>6
<1>9. \A i \in 1 .. n + 1 : new[i] = Append(old, v)[i]
  BY <1>2, <1>3, <1>5, <1>6, <1>7, <1>8
<1>10. new = Append(old, v)
  BY <1>7, <1>8, <1>9, SeqEqual
<1> QED BY <1>10 DEF old, new, g, r

-----------------------------------------------------------------------------
\* Type correctness of a ring: no sequence of calls moves an index out of the
\* array (report_buffer.c, wireless.c).
THEOREM RingType == Spec => []TypeOK
<1>1. Init => TypeOK
  BY SizeAssumption DEF Init, TypeOK, Zeroed, Index, Call, Ops
<1>2. TypeOK /\ [Next]_vars => TypeOK'
  <2> SUFFICES ASSUME TypeOK, [Next]_vars PROVE TypeOK'
    OBVIOUS
  <2> USE DEF TypeOK, Call, Ops
  <2>1. CASE Reinit
    BY <2>1, SizeAssumption DEF Reinit, Zeroed, Index
  <2>2. CASE Dequeue
    BY <2>2, AfterIndex DEF Dequeue, IsEmpty
  <2>3. ASSUME NEW v \in Value, EnqueueRefusing(v) PROVE TypeOK'
    BY <2>3, AfterIndex DEF EnqueueRefusing
  <2>4. ASSUME NEW v \in Value, EnqueueOverriding(v) PROVE TypeOK'
    BY <2>4, AfterIndex DEF EnqueueOverriding
  <2>5. CASE UNCHANGED vars
    BY <2>5 DEF vars
  <2> QED BY <2>1, <2>2, <2>3, <2>4, <2>5 DEF Next
<1> QED BY <1>1, <1>2, PTL DEF Spec

-----------------------------------------------------------------------------
\* The rings of report_buffer.c and wireless.c are bounded queues: whatever
\* the size, every call is the queue's, with the same result.
THEOREM RingIsQueue == Spec => IsQueue
<1>1. Init => Queue!Init
  <2> SUFFICES ASSUME Init PROVE Queue!Init
    OBVIOUS
  <2>1. slots \in [Index -> Element] /\ head \in Index /\ tail = head
    BY SizeAssumption DEF Init, Zeroed, Index, Element
  <2>2. Contents = <<>>
    BY <2>1, EmptyAndFull DEF Contents
  <2> QED BY <2>2 DEF Init, Call, Queue!Init
<1>2. TypeOK /\ TypeOK' /\ [Next]_vars => [Queue!Next]_(Queue!vars)
  <2> SUFFICES ASSUME TypeOK, TypeOK', [Next]_vars
               PROVE  [Queue!Next]_(Queue!vars)
    OBVIOUS
  <2>1. /\ slots \in [Index -> Element] /\ slots' \in [Index -> Element]
        /\ head \in Index /\ tail \in Index /\ head' \in Index /\ tail' \in Index
    BY DEF TypeOK, Element
  <2>2. CASE Reinit
    <3>1. Contents' = <<>>
      BY <2>1, <2>2, EmptyAndFull DEF Reinit, Contents
    <3> QED BY <2>2, <3>1 DEF Reinit, Call, Queue!Next, Queue!Clear, Queue!Called
  <2>3. CASE Dequeue
    <3>1. CASE IsEmpty
      <4>1. Contents = <<>> /\ Contents' = Contents
        BY <2>1, <2>3, <3>1, EmptyAndFull DEF Dequeue, IsEmpty, Contents
      <4> QED BY <2>3, <3>1, <4>1 
              DEF Dequeue, Call, Queue!Next, Queue!Take, Queue!Called
    <3>2. CASE ~IsEmpty
      <4>1. /\ Contents # <<>>
            /\ Contents' = Tail(Contents)
            /\ Head(Contents) = slots[tail]
        BY <2>1, <2>3, <3>2, EmptyAndFull, TakeOldest DEF Dequeue, IsEmpty, Contents
      <4> QED BY <2>3, <3>2, <4>1 
              DEF Dequeue, Call, Queue!Next, Queue!Take, Queue!Called
    <3> QED BY <3>1, <3>2
  <2>4. ASSUME NEW v \in Value, EnqueueRefusing(v)
        PROVE  Queue!Put(v)
    <3>1. CASE After(head) = tail
      <4>1. Contents' = Contents /\ Len(Contents) = Size - 1
        BY <2>1, <2>4, <3>1, EmptyAndFull DEF EnqueueRefusing, Contents
      <4> QED BY <2>4, <3>1, <4>1
              DEF EnqueueRefusing, Call,
                  Queue!Put, Queue!Called, Queue!AppendOrRefuse
    <3>2. CASE After(head) # tail
      <4> DEFINE written == [slots EXCEPT ![head] = v]
      <4>1. Between(written, After(head), tail) = Append(Contents, v)
        <5>1. v \in Element
          BY DEF Element
        <5> QED BY <2>1, <3>2, <5>1, AddNewest DEF Contents
      <4>2. Contents' = Append(Contents, v)
        BY <2>4, <3>2, <4>1 DEF EnqueueRefusing, Contents
      <4>3. Len(Contents) # Size - 1
        BY <2>1, <3>2, EmptyAndFull DEF Contents
      <4> QED BY <2>4, <3>2, <4>2, <4>3
              DEF EnqueueRefusing, Call,
                  Queue!Put, Queue!Called, Queue!AppendOrRefuse
    <3> QED BY <3>1, <3>2
  <2>5. ASSUME NEW v \in Value, EnqueueOverriding(v)
        PROVE  Queue!Put(v)
    <3>1. CASE After(head) = tail
      <4>1. head # tail /\ After(head) # After(tail)
        BY <2>1, <3>1, AfterWraps, SizeAssumption DEF Index
      <4>2. /\ Between(slots, head, After(tail)) = Tail(Contents)
            /\ Len(Contents) = Size - 1
        BY <2>1, <3>1, <4>1, EmptyAndFull, TakeOldest DEF Contents
      <4> DEFINE written == [slots EXCEPT ![head] = v]
                 next == After(tail)
      <4>3. next \in Index /\ After(head) # next
        BY <2>1, <4>1, AfterIndex
      <4>4. Between(written, After(head), next)
              = Append(Between(slots, head, next), v)
        <5> HIDE DEF next
        <5>1. v \in Element
          BY DEF Element
        <5> QED BY <2>1, <4>3, <5>1, AddNewest
      <4>5. Contents' = Append(Tail(Contents), v)
        BY <2>5, <3>1, <4>2, <4>4 DEF EnqueueOverriding, Contents
      <4> QED BY <2>5, <4>2, <4>5
              DEF EnqueueOverriding, Call,
                  Queue!Put, Queue!Called, Queue!AppendOrOverride
    <3>2. CASE After(head) # tail
      <4> DEFINE written == [slots EXCEPT ![head] = v]
      <4>1. Between(written, After(head), tail) = Append(Contents, v)
        <5>1. v \in Element
          BY DEF Element
        <5> QED BY <2>1, <3>2, <5>1, AddNewest DEF Contents
      <4>2. Contents' = Append(Contents, v)
        BY <2>5, <3>2, <4>1 DEF EnqueueOverriding, Contents
      <4>3. Len(Contents) # Size - 1
        BY <2>1, <3>2, EmptyAndFull DEF Contents
      <4> QED BY <2>5, <4>2, <4>3
              DEF EnqueueOverriding, Call,
                  Queue!Put, Queue!Called, Queue!AppendOrOverride
    <3> QED BY <3>1, <3>2
  <2>6. CASE UNCHANGED vars
    BY <2>6 DEF vars, Queue!vars, Contents
  <2> QED BY <2>2, <2>3, <2>4, <2>5, <2>6 DEF Next, Queue!Next
<1> QED BY <1>1, <1>2, RingType, PTL DEF Spec, IsQueue, Queue!Spec
=============================================================================
