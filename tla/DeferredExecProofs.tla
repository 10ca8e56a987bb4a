------------------------- MODULE DeferredExecProofs -------------------------
(***************************************************************************)
(* Proofs about DeferredExec, for every size of the table, every range of  *)
(* tokens and of the timer, and all delays that DelayAssumption admits, as *)
(* long as no callback cancels its own token.  Registered ties the table   *)
(* to the history of calls; Timely bounds, for each slot, how late it can  *)
(* be, which depends on whether the task has passed it in its current run. *)
(***************************************************************************)
EXTENDS DeferredExec, TLAPS, WellFoundedInduction

Occupied(i) == table[i].token # INVALID_DEFERRED_TOKEN

\* An occupied slot belongs to the one pending call with its token.
Registered ==
    /\ \A i \in Slots : Occupied(i) =>
           /\ table[i].job \in DOMAIN jobs /\ jobs[table[i].job].state = "pending"
           /\ jobs[table[i].job].token = table[i].token
    /\ \A i, k \in Slots : Occupied(i) /\ table[i].token = table[k].token => i = k
    /\ \A j \in DOMAIN jobs : jobs[j].state = "pending" =>
           \E i \in Slots : table[i].job = j /\ table[i].token = jobs[j].token

\* The task goes by the time at which it began, and the slot whose callback runs
\* stays its own.
TaskKept ==
    /\ task.slot = 0 => task = Idle
    /\ task.slot # 0 => task.since = last
    /\ InCallback => Occupied(task.slot) /\ table[task.slot].job = task.job

\* Milliseconds since the task last began.
Lag == (now - last) % TimerRange
Left(i) == jobs[table[i].job].left
Passed(i) == task.slot = 0 \/ i < task.slot
Running(i) == i = task.slot /\ InCallback

\* The trigger time of slot i is the time left from now, and far enough from half
\* the timer's range for all the comparisons to come: a slot that the task has
\* passed was not due when it began, one it has still to pass was not due when it
\* began the time before.
Timely(i) ==
    /\ table[i].trigger_time = (now + Left(i)) % TimerRange
    /\ 2 * Left(i) < TimerRange
    /\ Left(i) >= 1 - Lag - (IF Passed(i) THEN 0 ELSE Stall)
    /\ ~Passed(i) /\ ~Running(i) => 2 * (Left(i) + Lag) < TimerRange
    /\ Running(i) => \A r \in Repeats : 2 * (Left(i) + r) < TimerRange

Timing == Lag \in 0 .. Stall /\ \A i \in Slots : Occupied(i) => Timely(i)

Inv == TypeOK /\ Registered /\ TaskKept /\ Timing

-----------------------------------------------------------------------------
(***************************************************************************)
(* The arithmetic of the timer and the choice of slots and tokens          *)
(***************************************************************************)
\* A time less than half the range from another is read back by the signed
\* difference, across the wrap.
LEMMA SignedDiffIs ==
    ASSUME NEW a \in 0 .. TimerRange - 1, NEW d \in Int,
           -TimerRange <= 2 * d, 2 * d < TimerRange
    PROVE  SignedDiff((a + d) % TimerRange, a) = d
<1>1. TimerRange \in Nat /\ TimerRange > 0
  BY TableAssumption
<1>2. (((a + d) % TimerRange) - a) % TimerRange = IF d >= 0 THEN d ELSE d + TimerRange
  BY <1>1
<1> QED
  BY <1>1, <1>2 DEF SignedDiff

\* The time at which the task began is Lag before now.
LEMMA SinceIs ==
    ASSUME now \in 0 .. TimerRange - 1, last \in 0 .. TimerRange - 1, NEW d \in Int,
           -TimerRange <= 2 * d, 2 * (d + Lag) < TimerRange, Lag \in Nat
    PROVE  SignedDiff((now + d) % TimerRange, last) = d + Lag
<1>1. TimerRange \in Nat /\ TimerRange > 0
  BY TableAssumption
<1>2. Lag = IF now >= last THEN now - last ELSE now - last + TimerRange
  BY <1>1 DEF Lag
<1>3. (now + d) % TimerRange = (last + (d + Lag)) % TimerRange
  BY <1>1, <1>2
<1>4. SignedDiff((last + (d + Lag)) % TimerRange, last) = d + Lag
  BY <1>1, SignedDiffIs
<1> QED
  BY <1>3, <1>4

\* A trigger time that is moved is the time left that is moved.
LEMMA MovedIs ==
    ASSUME now \in 0 .. TimerRange - 1, NEW d \in Int, NEW r \in Nat,
           -TimerRange <= 2 * d, 2 * d < TimerRange, 2 * r < TimerRange, 2 * (d + r) < TimerRange
    PROVE  (((now + d) % TimerRange) + r) % TimerRange = (now + (d + r)) % TimerRange
BY TableAssumption

\* A millisecond makes the time left, and nothing else of a trigger time, one less.
LEMMA TickIs ==
    ASSUME now \in 0 .. TimerRange - 1, last \in 0 .. TimerRange - 1
    PROVE  /\ After(1) \in 0 .. TimerRange - 1
           /\ Lag + 1 < TimerRange => (After(1) - last) % TimerRange = Lag + 1
           /\ \A d \in Int : -TimerRange <= 2 * (d - 1) /\ 2 * d < TimerRange =>
                  (After(1) + (d - 1)) % TimerRange = (now + d) % TimerRange
<1>1. TimerRange \in Nat /\ TimerRange > 0
  BY TableAssumption
<1>2. After(1) = IF now = TimerRange - 1 THEN 0 ELSE now + 1
  BY <1>1 DEF After
<1>3. Lag + 1 < TimerRange => (After(1) - last) % TimerRange = Lag + 1
  BY <1>1, <1>2 DEF Lag
<1>4. ASSUME NEW d \in Int, -TimerRange <= 2 * (d - 1), 2 * d < TimerRange
      PROVE  (After(1) + (d - 1)) % TimerRange = (now + d) % TimerRange
  BY <1>1, <1>2, <1>4
<1> QED
  BY <1>1, <1>2, <1>3, <1>4

\* A search from the start finds a member of a set of numbers that is not empty.
LEMMA FirstIsMember ==
    ASSUME NEW S, S \subseteq Nat, S # {}
    PROVE  First(S) \in S
<1>1. PICK x \in S : \A y \in S : ~(<<y, x>> \in OpToRel(<, Nat))
  BY NatLessThanWellFounded, WFMin, Zenon
<1>2. \A y \in S : ~(y < x)
  BY <1>1, Zenon DEF OpToRel
<1>3. \A y \in S : x <= y
  BY <1>2
<1> QED
  BY <1>3 DEF First

-----------------------------------------------------------------------------
\* Facts about slots that the lemmas below need.
LEMMA SlotFacts ==
    ASSUME Inv, NEW i \in Slots
    PROVE  /\ table[i] \in Executor
           /\ Occupied(i) => /\ Left(i) \in Int /\ table[i].token \in 1 .. TokenRange - 1
                             /\ table[i].job \in DOMAIN jobs /\ table[i].job # 0
<1>1. table[i] \in Executor
  BY DEF Inv, TypeOK
<1>2. ASSUME Occupied(i)
      PROVE  /\ Left(i) \in Int /\ table[i].token \in 1 .. TokenRange - 1
             /\ table[i].job \in DOMAIN jobs /\ table[i].job # 0
  <2>1. table[i].job \in DOMAIN jobs
    BY <1>2 DEF Inv, Registered
  <2>2. jobs[table[i].job] \in Job
    BY <2>1 DEF Inv, TypeOK
  <2> QED
    BY <1>1, <1>2, <2>1, <2>2, TableAssumption
       DEF Inv, TypeOK, Left, Job, Executor, Occupied, INVALID_DEFERRED_TOKEN
<1> QED
  BY <1>1, <1>2

\* A call has a token.
LEMMA JobFacts ==
    ASSUME Inv, NEW j \in DOMAIN jobs
    PROVE  /\ jobs[j] \in Job /\ jobs[j].left \in Int
           /\ jobs[j].token # INVALID_DEFERRED_TOKEN
<1>1. jobs[j] \in Job
  BY DEF Inv, TypeOK
<1> QED
  BY <1>1 DEF Job, INVALID_DEFERRED_TOKEN

\* A call whose state and time left change is still a call.
LEMMA JobUpdated ==
    ASSUME NEW c \in Job, NEW state \in {"pending", "ended", "cancelled"}, NEW left \in Int
    PROVE  /\ [c EXCEPT !.state = state, !.left = left] \in Job
           /\ [c EXCEPT !.state = state, !.left = left].state = state
BY DEF Job

\* The user's token leads to the slot of its own call.
LEMMA SlotOfJob ==
    ASSUME Inv, NEW j \in DOMAIN jobs, jobs[j].state = "pending"
    PROVE  /\ First(SlotsOf(j)) \in Slots /\ Occupied(First(SlotsOf(j)))
           /\ table[First(SlotsOf(j))].job = j
           /\ \A i \in Slots : Occupied(i) /\ table[i].job = j => i = First(SlotsOf(j))
<1>1. jobs[j].token # INVALID_DEFERRED_TOKEN
  BY JobFacts
<1>2. PICK k \in Slots : table[k].job = j /\ table[k].token = jobs[j].token
  BY DEF Inv, Registered
<1>3. SlotsOf(j) \subseteq Nat /\ SlotsOf(j) # {}
  BY <1>2 DEF SlotsOf, Slots
<1>4. First(SlotsOf(j)) \in SlotsOf(j)
  BY <1>3, FirstIsMember
<1>5. First(SlotsOf(j)) = k
  BY <1>1, <1>2, <1>4 DEF SlotsOf, Inv, Registered, Occupied
<1>6. \A i \in Slots : Occupied(i) /\ table[i].job = j => i = k
  BY <1>2 DEF Inv, Registered
<1> QED
  BY <1>1, <1>2, <1>5, <1>6 DEF Occupied

\* A slot that a step leaves alone, with its time left, stays timely while the
\* clock and the task stand still.
LEMMA TimelyStays ==
    ASSUME NEW i \in Slots, Timely(i), UNCHANGED <<now, last, task>>, table'[i] = table[i],
           jobs'[table[i].job].left = jobs[table[i].job].left
    PROVE  Timely(i)'
BY DEF Timely, Left, Lag, Passed, Running, InCallback

\* A slot with a delay that a user asked for is timely.
LEMMA AskedIsTimely ==
    ASSUME Inv, NEW i \in Slots, NEW d \in Delays, d # 0, UNCHANGED <<now, last, task>>,
           table'[i].trigger_time = After(d), jobs'[table'[i].job].left = d
    PROVE  Timely(i)'
<1>1. /\ d \in Nat /\ d >= 1 /\ 2 * (d + Stall) < TimerRange
      /\ \A r \in Repeats : r \in Nat /\ 2 * (d + r) < TimerRange
  <2>1. d \in Nat /\ Repeats \subseteq Nat
    BY DelayAssumption
  <2>2. \A r \in Repeats \cup {Stall} : 2 * (d + r) < TimerRange
    BY DelayAssumption
  <2>3. 2 * (d + Stall) < TimerRange
    BY <2>2
  <2>4. \A r \in Repeats : r \in Nat /\ 2 * (d + r) < TimerRange
    BY <2>1, <2>2
  <2> QED
    BY <2>1, <2>3, <2>4
<1>2. Lag' = Lag /\ Lag \in 0 .. Stall /\ Stall \in Nat
  BY TableAssumption DEF Inv, Timing, Lag
<1>3. Left(i)' = d /\ now' = now
  BY DEF Left
<1>4. table'[i].trigger_time = (now' + Left(i)') % TimerRange
  BY <1>3 DEF After
<1>5. /\ 2 * Left(i)' < TimerRange
      /\ Left(i)' >= 1 - Lag' - (IF Passed(i)' THEN 0 ELSE Stall)
      /\ 2 * (Left(i)' + Lag') < TimerRange
      /\ \A r \in Repeats : 2 * (Left(i)' + r) < TimerRange
  BY <1>1, <1>2, <1>3, TableAssumption
<1> QED
  BY <1>4, <1>5 DEF Timely

-----------------------------------------------------------------------------
\* defer_exec takes a free slot and a token that no slot has.
LEMMA DeferKeeps == ASSUME Inv, NEW d \in Delays, Defer(d) PROVE Inv'
<1> DEFINE token == (current_token + First(UsableTokens)) % TokenRange
           new == Len(jobs) + 1
<1>1. PICK slot \in Slots : slot = First(FreeSlots) /\ ~Occupied(slot)
  <2>1. FreeSlots \subseteq Nat /\ FreeSlots # {}
    BY DEF FreeSlots, Slots, Defer
  <2>2. First(FreeSlots) \in FreeSlots
    BY <2>1, FirstIsMember
  <2> QED
    BY <2>2 DEF FreeSlots, Occupied
<1>2. token \in 1 .. TokenRange - 1 /\ \A i \in Slots : table[i].token # token
  <2>1. UsableTokens \subseteq Nat /\ UsableTokens # {}
    BY DEF UsableTokens, Defer
  <2>2. First(UsableTokens) \in UsableTokens
    BY <2>1, FirstIsMember
  <2>3. token \in 0 .. TokenRange - 1
    <3>1. current_token \in Nat
      BY TableAssumption DEF Inv, TypeOK
    <3>2. First(UsableTokens) \in Nat
      BY <2>1, <2>2
    <3> QED
      BY <3>1, <3>2, TableAssumption
  <2>4. token_can_be_used(token)
    BY <2>2 DEF UsableTokens
  <2> QED
    BY <2>3, <2>4 DEF token_can_be_used, INVALID_DEFERRED_TOKEN
<1>3. d \in Nat /\ d # 0 /\ Len(jobs) < MaxJobs /\ UNCHANGED <<now, last, task>>
  BY DelayAssumption DEF Defer
<1>4. After(d) \in 0 .. TimerRange - 1
  BY <1>3, TableAssumption DEF Inv, TypeOK, After
<1>5. /\ table' = [table EXCEPT ![slot] =
                      [token |-> token, trigger_time |-> After(d), job |-> new]]
      /\ jobs' = Append(jobs, [token |-> token, left |-> d, state |-> "pending"])
      /\ current_token' = token
  BY <1>1 DEF Defer
<1> HIDE DEF token
<1>6. /\ table' \in [Slots -> Executor]
      /\ table'[slot] = [token |-> token, trigger_time |-> After(d), job |-> new]
      /\ \A i \in Slots : i # slot => table'[i] = table[i]
  <2>1. new \in 0 .. MaxJobs /\ token \in 0 .. TokenRange - 1
    BY <1>2, <1>3, TableAssumption DEF Inv, TypeOK
  <2> QED
    BY <1>1, <1>4, <1>5, <2>1 DEF Inv, TypeOK, Executor
<1>7. /\ jobs' \in Seq(Job) /\ Len(jobs') = new /\ DOMAIN jobs' = 1 .. new
      /\ DOMAIN jobs = 1 .. Len(jobs) /\ Len(jobs) \in Nat
      /\ \A j \in DOMAIN jobs : jobs'[j] = jobs[j]
      /\ jobs'[new] = [token |-> token, left |-> d, state |-> "pending"]
  <2>1. [token |-> token, left |-> d, state |-> "pending"] \in Job
    BY <1>2, <1>3 DEF Job
  <2> QED
    BY <1>5, <2>1 DEF Inv, TypeOK
<1>8. TypeOK'
  BY <1>2, <1>3, <1>5, <1>6, <1>7, TableAssumption DEF Inv, TypeOK
<1>9. Registered'
  <2>1. ASSUME NEW i \in Slots, Occupied(i)'
        PROVE  /\ table'[i].job \in DOMAIN jobs' /\ jobs'[table'[i].job].state = "pending"
               /\ jobs'[table'[i].job].token = table'[i].token
    BY <1>6, <1>7, <2>1 DEF Inv, Registered, Occupied
  <2>2. ASSUME NEW i \in Slots, NEW k \in Slots, Occupied(i)', table'[i].token = table'[k].token
        PROVE  i = k
    BY <1>1, <1>2, <1>6, <2>2 DEF Inv, Registered, Occupied
  <2>3. ASSUME NEW j \in DOMAIN jobs', jobs'[j].state = "pending"
        PROVE  \E i \in Slots : table'[i].job = j /\ table'[i].token = jobs'[j].token
    <3>1. CASE j = new
      BY <1>1, <1>6, <1>7, <3>1
    <3>2. CASE j # new
      <4>1. j \in DOMAIN jobs /\ jobs[j].state = "pending" /\ jobs[j].token # INVALID_DEFERRED_TOKEN
        BY <1>7, <2>3, <3>2, JobFacts
      <4>2. PICK i \in Slots : table[i].job = j /\ table[i].token = jobs[j].token
        BY <4>1 DEF Inv, Registered
      <4> QED
        BY <1>1, <1>6, <1>7, <4>1, <4>2 DEF Occupied
    <3> QED
      BY <3>1, <3>2
  <2> QED
    BY <2>1, <2>2, <2>3 DEF Registered
<1>10. TaskKept'
  <2>1. InCallback => task.slot \in Slots /\ task.slot # slot
    BY <1>1 DEF Inv, TypeOK, TaskKept, Slots, InCallback, Idle
  <2> QED
    BY <1>3, <1>6, <2>1 DEF Inv, TaskKept, Occupied, InCallback
<1>11. Timing'
  <2>1. Lag' \in 0 .. Stall
    BY <1>3 DEF Inv, Timing, Lag
  <2>2. Timely(slot)'
    <3>1. table'[slot].trigger_time = After(d) /\ jobs'[table'[slot].job].left = d
      BY <1>6, <1>7
    <3> QED
      BY <1>3, <3>1, AskedIsTimely
  <2>3. ASSUME NEW i \in Slots, i # slot, Occupied(i)'
        PROVE  Timely(i)'
    <3>1. table'[i] = table[i] /\ Occupied(i)
      BY <1>6, <2>3 DEF Occupied
    <3>2. jobs'[table[i].job] = jobs[table[i].job]
      BY <1>7, <3>1, SlotFacts
    <3> QED
      BY <1>3, <3>1, <3>2, TimelyStays DEF Inv, Timing
  <2> QED
    BY <1>1, <2>1, <2>2, <2>3 DEF Timing
<1> QED
  BY <1>8, <1>9, <1>10, <1>11 DEF Inv

\* A refused call may still move the token counter.
LEMMA DeferRefusedKeeps == ASSUME Inv, NEW d \in Delays, DeferRefused(d) PROVE Inv'
<1>1. current_token' \in 0 .. TokenRange - 1
  BY TableAssumption DEF Inv, TypeOK, DeferRefused
<1>2. UNCHANGED <<table, now, last, task, jobs>>
  BY DEF DeferRefused
<1>3. TypeOK' /\ Registered'
  BY <1>1, <1>2 DEF Inv, TypeOK, Registered, Occupied
<1>4. TaskKept'
  BY <1>2 DEF Inv, TaskKept, Occupied, InCallback
<1>5. Timing'
  BY <1>2 DEF Inv, Timing, Timely, Occupied, Lag, Left, Passed, Running, InCallback
<1> QED
  BY <1>3, <1>4, <1>5 DEF Inv

\* extend_deferred_exec moves the trigger time of the slot of the call.
LEMMA ExtendKeeps ==
    ASSUME Inv, NEW j \in DOMAIN jobs, NEW d \in Delays, Extend(j, d)
    PROVE  Inv'
<1>1. jobs[j].state = "pending" /\ d \in Nat /\ d # 0 /\ UNCHANGED <<current_token, now, last, task>>
  BY DelayAssumption DEF Extend
<1>2. PICK slot \in Slots :
          /\ slot = First(SlotsOf(j)) /\ Occupied(slot) /\ table[slot].job = j
          /\ \A i \in Slots : Occupied(i) /\ table[i].job = j => i = slot
  BY <1>1, SlotOfJob
<1>3. After(d) \in 0 .. TimerRange - 1
  BY <1>1, TableAssumption DEF Inv, TypeOK, After
<1>4. /\ table' = [table EXCEPT ![slot].trigger_time = After(d)]
      /\ jobs' = [jobs EXCEPT ![j].left = d]
  BY <1>2 DEF Extend
<1>5. /\ table' \in [Slots -> Executor] /\ table'[slot].trigger_time = After(d)
      /\ \A i \in Slots : /\ table'[i].token = table[i].token /\ table'[i].job = table[i].job
                          /\ i # slot => table'[i] = table[i]
  BY <1>3, <1>4 DEF Inv, TypeOK, Executor
<1>6. /\ jobs' \in Seq(Job) /\ Len(jobs') = Len(jobs) /\ DOMAIN jobs' = DOMAIN jobs
      /\ jobs'[j].left = d
      /\ \A k \in DOMAIN jobs : /\ jobs'[k].token = jobs[k].token
                                /\ jobs'[k].state = jobs[k].state
                                /\ k # j => jobs'[k] = jobs[k]
  <2>1. [jobs[j] EXCEPT !.left = d] \in Job
    BY <1>1, JobFacts DEF Job
  <2>2. jobs' = [jobs EXCEPT ![j] = [jobs[j] EXCEPT !.left = d]]
    BY <1>4
  <2>3. /\ jobs' \in Seq(Job) /\ Len(jobs') = Len(jobs) /\ DOMAIN jobs' = DOMAIN jobs
        /\ jobs'[j] = [jobs[j] EXCEPT !.left = d]
        /\ \A k \in DOMAIN jobs : k # j => jobs'[k] = jobs[k]
    BY <2>1, <2>2 DEF Inv, TypeOK
  <2>4. jobs'[j].left = d /\ jobs'[j].token = jobs[j].token /\ jobs'[j].state = jobs[j].state
    BY <2>3, JobFacts DEF Job
  <2> QED
    BY <2>3, <2>4
<1>7. TypeOK'
  BY <1>1, <1>5, <1>6 DEF Inv, TypeOK
<1>8. Registered'
  BY <1>5, <1>6 DEF Inv, Registered, Occupied
<1>9. TaskKept'
  <2>1. InCallback => task.slot \in Slots
    BY DEF Inv, TypeOK, TaskKept, Slots, InCallback, Idle
  <2> QED
    BY <1>1, <1>5, <2>1 DEF Inv, TaskKept, Occupied, InCallback
<1>10. Timing'
  <2>1. Lag' \in 0 .. Stall
    BY <1>1 DEF Inv, Timing, Lag
  <2>2. Timely(slot)'
    BY <1>1, <1>2, <1>5, <1>6, AskedIsTimely
  <2>3. ASSUME NEW i \in Slots, i # slot, Occupied(i)'
        PROVE  Timely(i)'
    <3>1. table'[i] = table[i] /\ Occupied(i)
      BY <1>5, <2>3 DEF Occupied
    <3>2. jobs'[table[i].job] = jobs[table[i].job]
      BY <1>2, <1>6, <2>3, <3>1, SlotFacts
    <3> QED
      BY <1>1, <3>1, <3>2, TimelyStays DEF Inv, Timing
  <2> QED
    BY <2>1, <2>2, <2>3 DEF Timing
<1> QED
  BY <1>7, <1>8, <1>9, <1>10 DEF Inv

\* cancel_deferred_exec frees the slot of the call, which is not the one whose
\* callback runs.
LEMMA CancelKeeps ==
    ASSUME Inv, ~SelfCancel, NEW j \in DOMAIN jobs, Cancel(j)
    PROVE  Inv'
<1>1. jobs[j].state = "pending" /\ task.job # j /\ UNCHANGED <<current_token, now, last, task>>
  BY DEF Cancel
<1>2. PICK slot \in Slots :
          /\ slot = First(SlotsOf(j)) /\ Occupied(slot) /\ table[slot].job = j
          /\ \A i \in Slots : Occupied(i) /\ table[i].job = j => i = slot
  BY <1>1, SlotOfJob
<1>3. /\ table' = [table EXCEPT ![slot] = Free]
      /\ jobs' = [jobs EXCEPT ![j] = [jobs[j] EXCEPT !.state = "cancelled", !.left = 0]]
  BY <1>2 DEF Cancel
<1>4. /\ table' \in [Slots -> Executor] /\ table'[slot].token = INVALID_DEFERRED_TOKEN
      /\ \A i \in Slots : i # slot => table'[i] = table[i]
  <2>1. Free \in Executor
    BY TableAssumption DEF Free, Executor, INVALID_DEFERRED_TOKEN, Inv, TypeOK
  <2> QED
    BY <1>3, <2>1 DEF Inv, TypeOK, Free
<1>5. /\ jobs' \in Seq(Job) /\ Len(jobs') = Len(jobs) /\ DOMAIN jobs' = DOMAIN jobs
      /\ jobs'[j].state = "cancelled"
      /\ \A k \in DOMAIN jobs : k # j => jobs'[k] = jobs[k]
  <2> DEFINE c == [jobs[j] EXCEPT !.state = "cancelled", !.left = 0]
  <2>1. jobs[j] \in Job
    BY JobFacts
  <2>2. c \in Job /\ c.state = "cancelled"
    <3>1. 0 \in Int
      OBVIOUS
    <3> QED
      BY <2>1, <3>1, JobUpdated, Zenon
  <2>3. jobs' = [jobs EXCEPT ![j] = c]
    BY <1>3
  <2> HIDE DEF c
  <2> QED
    BY <2>2, <2>3 DEF Inv, TypeOK
<1>6. \A i \in Slots : Occupied(i)' => i # slot /\ Occupied(i) /\ table'[i] = table[i]
  BY <1>4 DEF Occupied
<1>7. TypeOK'
  BY <1>1, <1>4, <1>5 DEF Inv, TypeOK
<1>8. Registered'
  <2>1. ASSUME NEW i \in Slots, Occupied(i)'
        PROVE  /\ table'[i].job \in DOMAIN jobs' /\ jobs'[table'[i].job].state = "pending"
               /\ jobs'[table'[i].job].token = table'[i].token
    BY <1>2, <1>5, <1>6, <2>1 DEF Inv, Registered
  <2>2. ASSUME NEW i \in Slots, NEW k \in Slots, Occupied(i)', table'[i].token = table'[k].token
        PROVE  i = k
    BY <1>4, <1>6, <2>2 DEF Inv, Registered, Occupied
  <2>3. ASSUME NEW k \in DOMAIN jobs', jobs'[k].state = "pending"
        PROVE  \E i \in Slots : table'[i].job = k /\ table'[i].token = jobs'[k].token
    <3>1. k \in DOMAIN jobs /\ k # j /\ jobs'[k] = jobs[k] /\ jobs[k].state = "pending"
      BY <1>5, <2>3
    <3>2. PICK i \in Slots : table[i].job = k /\ table[i].token = jobs[k].token
      BY <3>1 DEF Inv, Registered
    <3> QED
      BY <1>2, <1>4, <3>1, <3>2
  <2> QED
    BY <2>1, <2>2, <2>3 DEF Registered
<1>9. TaskKept'
  <2>1. InCallback => task.slot \in Slots /\ task.slot # slot
    BY <1>1, <1>2 DEF Inv, TypeOK, TaskKept, Slots, InCallback, Idle
  <2> QED
    BY <1>1, <1>4, <2>1 DEF Inv, TaskKept, Occupied, InCallback
<1>10. Timing'
  <2>1. Lag' \in 0 .. Stall
    BY <1>1 DEF Inv, Timing, Lag
  <2>2. ASSUME NEW i \in Slots, Occupied(i)'
        PROVE  Timely(i)'
    <3>1. i # slot /\ table'[i] = table[i] /\ Occupied(i)
      BY <1>6, <2>2
    <3>2. jobs'[table[i].job] = jobs[table[i].job]
      BY <1>2, <1>5, <3>1, SlotFacts
    <3> QED
      BY <1>1, <3>1, <3>2, TimelyStays DEF Inv, Timing
  <2> QED
    BY <2>1, <2>2 DEF Timing
<1> QED
  BY <1>7, <1>8, <1>9, <1>10 DEF Inv

-----------------------------------------------------------------------------
\* The task begins a run: what was not due when the last one began is at most
\* Stall late.
LEMMA BeginKeeps == ASSUME Inv, Begin PROVE Inv'
<1>1. /\ task = Idle /\ last' = now /\ UNCHANGED <<table, current_token, now, jobs>>
      /\ task' = [slot |-> 1, since |-> now, job |-> 0]
  BY DEF Begin, Idle
<1>2. task.slot = 0 /\ task'.slot = 1 /\ task'.since = now /\ task'.job = 0
  BY <1>1 DEF Idle
<1>3. TypeOK'
  <2>1. 1 \in 0 .. MAX_DEFERRED_EXECUTORS /\ 0 \in 0 .. MaxJobs
    BY TableAssumption
  <2> QED
    BY <1>1, <2>1 DEF Inv, TypeOK
<1>4. Registered'
  BY <1>1 DEF Inv, Registered, Occupied
<1>5. TaskKept'
  BY <1>1, <1>2 DEF TaskKept, InCallback
<1>6. Timing'
  <2>1. Lag' = 0 /\ Lag \in 0 .. Stall /\ Stall \in Nat
    BY <1>1, TableAssumption DEF Inv, TypeOK, Timing, Lag
  <2>2. ASSUME NEW i \in Slots, Occupied(i)'
        PROVE  Timely(i)'
    <3>1. Timely(i) /\ Left(i) \in Int /\ Passed(i)
      BY <1>1, <1>2, <2>2, SlotFacts DEF Inv, Timing, Occupied, Passed
    <3>2. Left(i)' = Left(i) /\ ~Passed(i)' /\ ~Running(i)'
      BY <1>1, <1>2 DEF Left, Passed, Running, InCallback, Slots
    <3>3. Left(i) >= 1 - Lag /\ 2 * Left(i) < TimerRange
      BY <3>1, <2>1 DEF Timely
    <3>4. Left(i)' >= 1 - Lag' - Stall /\ 2 * (Left(i)' + Lag') < TimerRange
      BY <2>1, <3>1, <3>2, <3>3
    <3>5. table'[i].trigger_time = (now' + Left(i)') % TimerRange
      BY <1>1, <3>1, <3>2 DEF Timely
    <3> QED
      BY <3>2, <3>3, <3>4, <3>5 DEF Timely
  <2> QED
    BY <2>1, <2>2, TableAssumption DEF Timing
<1> QED
  BY <1>3, <1>4, <1>5, <1>6 DEF Inv

\* The task goes on to the next slot, or its run ends.
LEMMA NextSlotFacts ==
    ASSUME Inv, task.slot # 0
    PROVE  /\ task.slot \in Slots
           /\ NextSlot \in [slot : 0 .. MAX_DEFERRED_EXECUTORS, since : 0 .. TimerRange - 1,
                            job : 0 .. MaxJobs]
           /\ NextSlot.job = 0
           /\ NextSlot.slot = 0 => NextSlot = Idle
           /\ NextSlot.slot # 0 => NextSlot.since = last
           /\ \A i \in Slots : NextSlot.slot = 0 \/ i < NextSlot.slot <=> Passed(i) \/ i = task.slot
<1>1. /\ task \in [slot : 0 .. MAX_DEFERRED_EXECUTORS, since : 0 .. TimerRange - 1,
                   job : 0 .. MaxJobs]
      /\ task.since = last /\ MAX_DEFERRED_EXECUTORS \in Nat
      /\ 0 \in 0 .. MaxJobs /\ 0 \in 0 .. TimerRange - 1
  BY TableAssumption DEF Inv, TypeOK, TaskKept
<1>2. task.slot \in 1 .. MAX_DEFERRED_EXECUTORS
  BY <1>1
<1>3. CASE task.slot = MAX_DEFERRED_EXECUTORS
  <2>1. NextSlot = Idle /\ Idle.slot = 0 /\ Idle.job = 0
    BY <1>3 DEF NextSlot, Idle
  <2>2. Idle \in [slot : 0 .. MAX_DEFERRED_EXECUTORS, since : 0 .. TimerRange - 1,
                  job : 0 .. MaxJobs]
    BY <1>1 DEF Idle
  <2>3. \A i \in Slots : Passed(i) \/ i = task.slot
    BY <1>1, <1>3 DEF Slots, Passed
  <2> QED
    BY <1>2, <2>1, <2>2, <2>3 DEF Slots
<1>4. CASE task.slot # MAX_DEFERRED_EXECUTORS
  <2>1. NextSlot = [task EXCEPT !.slot = @ + 1, !.job = 0]
    BY <1>4 DEF NextSlot
  <2>2. task.slot + 1 \in 0 .. MAX_DEFERRED_EXECUTORS /\ task.slot + 1 # 0
    BY <1>1, <1>2, <1>4
  <2>3. /\ NextSlot.slot = task.slot + 1 /\ NextSlot.job = 0 /\ NextSlot.since = last
        /\ NextSlot \in [slot : 0 .. MAX_DEFERRED_EXECUTORS, since : 0 .. TimerRange - 1,
                         job : 0 .. MaxJobs]
    BY <1>1, <2>1, <2>2
  <2>4. \A i \in Slots : i < task.slot + 1 <=> Passed(i) \/ i = task.slot
    BY <1>1, <1>2 DEF Slots, Passed
  <2> QED
    BY <1>2, <2>2, <2>3, <2>4 DEF Slots
<1> QED
  BY <1>3, <1>4

\* The comparison of a slot's trigger time with the time the task began tells
\* what was due then.
LEMMA DueIs ==
    ASSUME Inv, task.slot # 0, ~InCallback, Occupied(task.slot)
    PROVE  IsDue(task.slot) <=> Left(task.slot) + Lag <= 0
<1> DEFINE i == task.slot
<1>1. i \in Slots /\ task.since = last
  BY NextSlotFacts DEF Inv, TaskKept
<1>2. /\ Timely(i) /\ Left(i) \in Int /\ ~Passed(i) /\ ~Running(i)
      /\ Lag \in 0 .. Stall /\ Stall \in Nat /\ TimerRange \in Nat /\ 4 * Stall <= TimerRange
  BY <1>1, SlotFacts, TableAssumption, DelayAssumption
     DEF Inv, Timing, Passed, Running, Slots
<1>3. /\ Left(i) >= 1 - Lag - Stall /\ 2 * (Left(i) + Lag) < TimerRange
      /\ table[i].trigger_time = (now + Left(i)) % TimerRange
  BY <1>2 DEF Timely
<1>4. SignedDiff(table[i].trigger_time, last) = Left(i) + Lag
  <2>1. -TimerRange <= 2 * Left(i) /\ Lag \in Nat
    BY <1>2, <1>3
  <2>2. now \in 0 .. TimerRange - 1 /\ last \in 0 .. TimerRange - 1
    BY DEF Inv, TypeOK
  <2> QED
    BY <1>2, <1>3, <2>1, <2>2, SinceIs
<1> QED
  BY <1>1, <1>4 DEF IsDue, Occupied

\* A slot that was not due is passed.
LEMMA SkipKeeps == ASSUME Inv, Skip PROVE Inv'
<1>1. /\ task.slot # 0 /\ ~InCallback /\ ~IsDue(task.slot) /\ task' = NextSlot
      /\ UNCHANGED <<table, current_token, now, last, jobs>>
  BY DEF Skip
<1>2. TypeOK'
  BY <1>1, NextSlotFacts DEF Inv, TypeOK
<1>3. Registered'
  BY <1>1 DEF Inv, Registered, Occupied
<1>4. TaskKept'
  BY <1>1, NextSlotFacts DEF TaskKept, InCallback
<1>5. Timing'
  <2>1. Lag' = Lag /\ Lag \in 0 .. Stall
    BY <1>1 DEF Inv, Timing, Lag
  <2>2. ASSUME NEW i \in Slots, Occupied(i)'
        PROVE  Timely(i)'
    <3>1. /\ Timely(i) /\ Left(i) \in Int /\ ~Running(i) /\ Occupied(i)
          /\ Lag \in Int /\ Stall \in Nat
      BY <1>1, <2>1, <2>2, SlotFacts, TableAssumption DEF Inv, Timing, Occupied, Running
    <3>2. Left(i)' = Left(i) /\ ~Running(i)' /\ (Passed(i)' <=> Passed(i) \/ i = task.slot)
      BY <1>1, NextSlotFacts DEF Left, Passed, Running, InCallback
    <3>3. i = task.slot => Left(i) >= 1 - Lag
      BY <1>1, <3>1, DueIs
    <3>4. Left(i)' >= 1 - Lag' - (IF Passed(i)' THEN 0 ELSE Stall)
      BY <2>1, <3>1, <3>2, <3>3 DEF Timely
    <3>5. /\ table'[i].trigger_time = (now' + Left(i)') % TimerRange
          /\ 2 * Left(i)' < TimerRange
          /\ ~Passed(i)' => 2 * (Left(i)' + Lag') < TimerRange
      BY <1>1, <2>1, <3>1, <3>2 DEF Timely
    <3> QED
      BY <3>2, <3>4, <3>5 DEF Timely
  <2> QED
    BY <2>1, <2>2 DEF Timing
<1> QED
  BY <1>2, <1>3, <1>4, <1>5 DEF Inv

\* The callback of a slot that was due runs.
LEMMA InvokeKeeps == ASSUME Inv, Invoke PROVE Inv'
<1>1. /\ task.slot # 0 /\ ~InCallback /\ IsDue(task.slot)
      /\ task' = [task EXCEPT !.job = table[task.slot].job]
      /\ UNCHANGED <<table, current_token, now, last, jobs>>
  BY DEF Invoke
<1>2. task.slot \in Slots /\ Occupied(task.slot)
  BY <1>1, NextSlotFacts DEF IsDue, Occupied
<1>3. table[task.slot].job \in 0 .. MaxJobs /\ table[task.slot].job # 0
  BY <1>2, SlotFacts DEF Executor
<1>4. /\ task' \in [slot : 0 .. MAX_DEFERRED_EXECUTORS, since : 0 .. TimerRange - 1,
                    job : 0 .. MaxJobs]
      /\ task'.slot = task.slot /\ task'.since = task.since /\ task'.job = table[task.slot].job
  BY <1>1, <1>3 DEF Inv, TypeOK
<1>5. TypeOK'
  BY <1>1, <1>4 DEF Inv, TypeOK
<1>6. Registered'
  BY <1>1 DEF Inv, Registered, Occupied
<1>7. TaskKept'
  BY <1>1, <1>2, <1>3, <1>4 DEF Inv, TaskKept, InCallback, Occupied
<1>8. Timing'
  <2>1. Lag' = Lag /\ Lag \in 0 .. Stall
    BY <1>1 DEF Inv, Timing, Lag
  <2>2. ASSUME NEW i \in Slots, Occupied(i)'
        PROVE  Timely(i)'
    <3>1. Timely(i) /\ Left(i) \in Int /\ ~Running(i) /\ Occupied(i) /\ Lag \in Nat
      BY <1>1, <2>1, <2>2, SlotFacts, TableAssumption DEF Inv, Timing, Occupied, Running
    <3>2. Left(i)' = Left(i) /\ (Passed(i)' <=> Passed(i)) /\ (Running(i)' <=> i = task.slot)
      BY <1>1, <1>3, <1>4 DEF Left, Passed, Running, InCallback
    <3>3. ASSUME i = task.slot, NEW r \in Repeats
          PROVE  2 * (Left(i) + r) < TimerRange
      <4>1. Left(i) + Lag <= 0
        BY <1>1, <1>2, <3>3, DueIs
      <4>2. r \in Nat /\ 2 * r < TimerRange /\ TimerRange \in Nat
        BY DelayAssumption, TableAssumption
      <4> QED
        BY <3>1, <4>1, <4>2
    <3> QED
      BY <1>1, <2>1, <3>1, <3>2, <3>3 DEF Timely
  <2> QED
    BY <2>1, <2>2 DEF Timing
<1> QED
  BY <1>5, <1>6, <1>7, <1>8 DEF Inv

\* The callback returns 0, and its slot and its call are done with.
LEMMA EndKeeps == ASSUME Inv, 0 \in Repeats, Returns(0) PROVE Inv'
<1>1. /\ InCallback /\ task' = NextSlot /\ UNCHANGED <<current_token, now, last>>
      /\ table' = [table EXCEPT ![task.slot] = Free]
  BY DEF Returns
<1>2. PICK slot \in Slots : /\ slot = task.slot /\ Occupied(slot) /\ table[slot].job = task.job
  <2>1. task.slot # 0
    BY <1>1 DEF Inv, TaskKept, InCallback, Idle
  <2> QED
    BY <1>1, <2>1, NextSlotFacts DEF Inv, TaskKept
<1>3. PICK j \in DOMAIN jobs : j = task.job /\ jobs[j].state = "pending"
  BY <1>2 DEF Inv, Registered
<1>4. task.slot # 0
  BY <1>2 DEF Slots
<1>5. /\ table' \in [Slots -> Executor] /\ table'[slot].token = INVALID_DEFERRED_TOKEN
      /\ \A i \in Slots : i # slot => table'[i] = table[i]
  <2>1. Free \in Executor
    BY TableAssumption DEF Free, Executor, INVALID_DEFERRED_TOKEN, Inv, TypeOK
  <2> QED
    BY <1>1, <1>2, <2>1 DEF Inv, TypeOK, Free
<1>6. /\ jobs' \in Seq(Job) /\ Len(jobs') = Len(jobs) /\ DOMAIN jobs' = DOMAIN jobs
      /\ jobs'[j].state = "ended"
      /\ \A k \in DOMAIN jobs : k # j => jobs'[k] = jobs[k]
  <2> DEFINE c == [jobs[j] EXCEPT !.state = "ended", !.left = 0]
  <2>1. jobs[j] \in Job
    BY JobFacts
  <2>2. c \in Job /\ c.state = "ended"
    <3>1. 0 \in Int
      OBVIOUS
    <3> QED
      BY <2>1, <3>1, JobUpdated, Zenon
  <2>3. jobs' = [jobs EXCEPT ![j] = c]
    BY <1>3 DEF Returns, Returned
  <2> HIDE DEF c
  <2> QED
    BY <2>2, <2>3 DEF Inv, TypeOK
<1>7. \A i \in Slots : Occupied(i)' => i # slot /\ Occupied(i) /\ table'[i] = table[i]
  BY <1>5 DEF Occupied
<1>8. \A i \in Slots : Occupied(i) /\ table[i].job = j => i = slot
  BY <1>2, <1>3 DEF Inv, Registered
<1>9. TypeOK'
  BY <1>1, <1>4, <1>5, <1>6, NextSlotFacts DEF Inv, TypeOK
<1>10. Registered'
  <2>1. ASSUME NEW i \in Slots, Occupied(i)'
        PROVE  /\ table'[i].job \in DOMAIN jobs' /\ jobs'[table'[i].job].state = "pending"
               /\ jobs'[table'[i].job].token = table'[i].token
    BY <1>6, <1>7, <1>8, <2>1 DEF Inv, Registered
  <2>2. ASSUME NEW i \in Slots, NEW k \in Slots, Occupied(i)', table'[i].token = table'[k].token
        PROVE  i = k
    BY <1>5, <1>7, <2>2 DEF Inv, Registered, Occupied
  <2>3. ASSUME NEW k \in DOMAIN jobs', jobs'[k].state = "pending"
        PROVE  \E i \in Slots : table'[i].job = k /\ table'[i].token = jobs'[k].token
    <3>1. k \in DOMAIN jobs /\ k # j /\ jobs'[k] = jobs[k] /\ jobs[k].state = "pending"
      BY <1>6, <2>3
    <3>2. PICK i \in Slots : table[i].job = k /\ table[i].token = jobs[k].token
      BY <3>1 DEF Inv, Registered
    <3> QED
      BY <1>2, <1>3, <1>5, <3>1, <3>2
  <2> QED
    BY <2>1, <2>2, <2>3 DEF Registered
<1>11. TaskKept'
  BY <1>1, <1>4, NextSlotFacts DEF TaskKept, InCallback
<1>12. Timing'
  <2>1. Lag' = Lag /\ Lag \in 0 .. Stall
    BY <1>1 DEF Inv, Timing, Lag
  <2>2. ASSUME NEW i \in Slots, Occupied(i)'
        PROVE  Timely(i)'
    <3>1. i # slot /\ table'[i] = table[i] /\ Occupied(i) /\ Timely(i)
      BY <1>7, <2>2 DEF Inv, Timing
    <3>2. Left(i)' = Left(i)
      BY <1>6, <1>8, <3>1, SlotFacts DEF Left
    <3>3. ~Running(i) /\ ~Running(i)' /\ (Passed(i)' <=> Passed(i))
      BY <1>1, <1>2, <1>4, <3>1, NextSlotFacts DEF Passed, Running, InCallback
    <3> QED
      BY <1>1, <2>1, <3>1, <3>2, <3>3 DEF Timely
  <2> QED
    BY <2>1, <2>2 DEF Timing
<1> QED
  BY <1>9, <1>10, <1>11, <1>12 DEF Inv

\* The callback returns a delay: the next trigger is that much after the last.
LEMMA RepeatKeeps == ASSUME Inv, NEW r \in Repeats, r > 0, Returns(r) PROVE Inv'
<1>1. /\ InCallback /\ task' = NextSlot /\ UNCHANGED <<current_token, now, last>>
      /\ r \in Nat /\ r >= Stall /\ 2 * r < TimerRange
  BY DelayAssumption DEF Returns
<1>2. PICK slot \in Slots : slot = task.slot /\ Occupied(slot) /\ table[slot].job = task.job
  <2>1. task.slot # 0
    BY <1>1 DEF Inv, TaskKept, InCallback, Idle
  <2> QED
    BY <1>1, <2>1, NextSlotFacts DEF Inv, TaskKept
<1>3. PICK j \in DOMAIN jobs : j = task.job /\ jobs[j].state = "pending"
  BY <1>2 DEF Inv, Registered
<1>4. task.slot # 0
  BY <1>2 DEF Slots
<1>5. /\ table' \in [Slots -> Executor]
      /\ table'[slot].trigger_time = (table[slot].trigger_time + r) % TimerRange
      /\ \A i \in Slots : /\ table'[i].token = table[i].token /\ table'[i].job = table[i].job
                          /\ i # slot => table'[i] = table[i]
  <2>1. (table[slot].trigger_time + r) % TimerRange \in 0 .. TimerRange - 1
    BY <1>1, SlotFacts, TableAssumption DEF Executor
  <2>2. table' = [table EXCEPT ![slot] =
                     [table[slot] EXCEPT !.trigger_time = (table[slot].trigger_time + r) % TimerRange]]
    BY <1>1, <1>2 DEF Returns, TriggeredAgain
  <2> QED
    BY <2>1, <2>2 DEF Inv, TypeOK, Executor
<1>6. /\ jobs' \in Seq(Job) /\ Len(jobs') = Len(jobs) /\ DOMAIN jobs' = DOMAIN jobs
      /\ jobs'[j].left = jobs[j].left + r
      /\ \A k \in DOMAIN jobs : /\ jobs'[k].token = jobs[k].token
                                /\ jobs'[k].state = jobs[k].state
                                /\ k # j => jobs'[k] = jobs[k]
  <2>1. jobs[j] \in Job /\ jobs[j].left + r \in Int
    BY <1>1, JobFacts
  <2>2. [jobs[j] EXCEPT !.left = jobs[j].left + r] \in Job
    BY <2>1 DEF Job
  <2>3. jobs' = [jobs EXCEPT ![j] = [jobs[j] EXCEPT !.left = jobs[j].left + r]]
    BY <1>1, <1>3 DEF Returns, Returned
  <2>4. /\ jobs' \in Seq(Job) /\ Len(jobs') = Len(jobs) /\ DOMAIN jobs' = DOMAIN jobs
        /\ jobs'[j] = [jobs[j] EXCEPT !.left = jobs[j].left + r]
        /\ \A k \in DOMAIN jobs : k # j => jobs'[k] = jobs[k]
    BY <2>2, <2>3 DEF Inv, TypeOK
  <2>5. /\ jobs'[j].left = jobs[j].left + r /\ jobs'[j].token = jobs[j].token
        /\ jobs'[j].state = jobs[j].state
    BY <2>1, <2>4 DEF Job
  <2> QED
    BY <2>4, <2>5
<1>7. TypeOK'
  BY <1>1, <1>4, <1>5, <1>6, NextSlotFacts DEF Inv, TypeOK
<1>8. Registered'
  BY <1>5, <1>6 DEF Inv, Registered, Occupied
<1>9. TaskKept'
  BY <1>1, <1>4, NextSlotFacts DEF TaskKept, InCallback
<1>10. Timing'
  <2>1. Lag' = Lag /\ Lag \in 0 .. Stall /\ Stall \in Nat /\ 4 * Stall <= TimerRange
        /\ TimerRange \in Nat
    BY <1>1, TableAssumption, DelayAssumption DEF Inv, Timing, Lag
  <2>2. ASSUME NEW i \in Slots, Occupied(i)', i # slot
        PROVE  Timely(i)'
    <3>1. table'[i] = table[i] /\ Occupied(i) /\ Timely(i)
      BY <1>5, <2>2 DEF Inv, Timing, Occupied
    <3>2. Left(i)' = Left(i)
      <4>1. table[i].job # j
        BY <1>2, <1>3, <2>2, <3>1 DEF Inv, Registered
      <4> QED
        BY <1>6, <3>1, <4>1, SlotFacts DEF Left
    <3>3. ~Running(i) /\ ~Running(i)' /\ (Passed(i)' <=> Passed(i))
      BY <1>1, <1>2, <1>4, <2>2, NextSlotFacts DEF Passed, Running, InCallback
    <3> QED
      BY <1>1, <2>1, <3>1, <3>2, <3>3 DEF Timely
  <2>3. Timely(slot)'
    <3>1. Timely(slot) /\ Left(slot) \in Int /\ Running(slot) /\ ~Passed(slot)
      BY <1>1, <1>2, SlotFacts DEF Inv, Timing, Running, Passed, Slots
    <3>2. Left(slot)' = Left(slot) + r
      BY <1>2, <1>3, <1>5, <1>6 DEF Left
    <3>3. Passed(slot)' /\ ~Running(slot)'
      BY <1>1, <1>2, <1>4, NextSlotFacts DEF Passed, Running, InCallback
    <3>4. /\ Left(slot) >= 1 - Lag - Stall /\ 2 * Left(slot) < TimerRange
          /\ 2 * (Left(slot) + r) < TimerRange
          /\ table[slot].trigger_time = (now + Left(slot)) % TimerRange
      BY <3>1 DEF Timely
    <3>5. table'[slot].trigger_time = (now + (Left(slot) + r)) % TimerRange
      <4>1. -TimerRange <= 2 * Left(slot) /\ now \in 0 .. TimerRange - 1
        BY <2>1, <3>1, <3>4 DEF Inv, TypeOK
      <4> QED
        BY <1>1, <1>5, <3>1, <3>4, <4>1, MovedIs
    <3>6. Left(slot)' >= 1 - Lag'
      BY <1>1, <2>1, <3>1, <3>2, <3>4
    <3> QED
      BY <1>1, <2>1, <3>1, <3>2, <3>3, <3>4, <3>5, <3>6 DEF Timely
  <2> QED
    BY <2>1, <2>2, <2>3 DEF Timing
<1> QED
  BY <1>7, <1>8, <1>9, <1>10 DEF Inv

\* A millisecond passes for every pending call, as long as the task is not kept
\* from running.
LEMMA TickKeeps == ASSUME Inv, Tick PROVE Inv'
<1>1. /\ Lag < Stall /\ now' = After(1) /\ UNCHANGED <<table, current_token, last, task>>
      /\ now \in 0 .. TimerRange - 1 /\ last \in 0 .. TimerRange - 1
      /\ Lag \in 0 .. Stall /\ Stall \in Nat /\ TimerRange \in Nat
      /\ Stall > 0 /\ 4 * Stall <= TimerRange
  BY TableAssumption, DelayAssumption DEF Tick, Lag, Inv, TypeOK, Timing
<1>2. now' \in 0 .. TimerRange - 1 /\ Lag' = Lag + 1
  BY <1>1, TickIs DEF Lag
<1>3. /\ jobs' \in Seq(Job) /\ Len(jobs') = Len(jobs) /\ DOMAIN jobs' = DOMAIN jobs
      /\ \A j \in DOMAIN jobs : /\ jobs'[j].token = jobs[j].token /\ jobs'[j].state = jobs[j].state
                                /\ jobs[j].state = "pending" /\ jobs[j].left > -LateCap =>
                                       jobs'[j].left = jobs[j].left - 1
  <2> DEFINE Older(c) == IF c.state = "pending"
                         THEN [c EXCEPT !.left = IF @ > -LateCap THEN @ - 1 ELSE @] ELSE c
  <2>1. ASSUME NEW c \in Job
        PROVE  /\ Older(c) \in Job /\ Older(c).token = c.token /\ Older(c).state = c.state
               /\ c.state = "pending" /\ c.left > -LateCap => Older(c).left = c.left - 1
    BY DEF Job
  <2>2. jobs' = [j \in DOMAIN jobs |-> Older(jobs[j])]
    BY DEF Tick
  <2> HIDE DEF Older
  <2>3. \A j \in DOMAIN jobs : jobs[j] \in Job /\ Older(jobs[j]) \in Job
    BY <2>1, JobFacts
  <2>4. /\ jobs' \in Seq(Job) /\ Len(jobs') = Len(jobs) /\ DOMAIN jobs' = DOMAIN jobs
    BY <2>2, <2>3 DEF Inv, TypeOK
  <2> QED
    BY <2>1, <2>2, <2>3, <2>4
<1>4. TypeOK'
  BY <1>1, <1>2, <1>3 DEF Inv, TypeOK
<1>5. Registered'
  BY <1>1, <1>3 DEF Inv, Registered, Occupied
<1>6. TaskKept'
  BY <1>1 DEF Inv, TaskKept, InCallback, Occupied
<1>7. Timing'
  <2>1. ASSUME NEW i \in Slots, Occupied(i)'
        PROVE  Timely(i)'
    <3>1. /\ Timely(i) /\ Left(i) \in Int /\ Occupied(i) /\ table'[i] = table[i]
          /\ (Passed(i)' <=> Passed(i)) /\ (Running(i)' <=> Running(i))
      BY <1>1, <2>1, SlotFacts DEF Inv, Timing, Occupied, Passed, Running, InCallback
    <3>2. /\ Left(i) >= 1 - Lag - Stall /\ 2 * Left(i) < TimerRange
          /\ table[i].trigger_time = (now + Left(i)) % TimerRange
      BY <1>1, <3>1 DEF Timely
    <3>3. Left(i)' = Left(i) - 1
      <4>1. LateCap \in Nat /\ 2 * LateCap >= TimerRange - 1
        BY <1>1 DEF LateCap
      <4>2. Left(i) > -LateCap
        BY <1>1, <3>1, <3>2, <4>1
      <4> QED
        BY <1>3, <3>1, <4>2 DEF Left, Inv, Registered
    <3>4. table'[i].trigger_time = (now' + Left(i)') % TimerRange
      BY <1>1, <3>1, <3>2, <3>3, TickIs
    <3>5. ASSUME NEW r \in Repeats, 2 * (Left(i) + r) < TimerRange
          PROVE  2 * (Left(i)' + r) < TimerRange
      <4>1. r \in Nat
        BY DelayAssumption
      <4> QED
        BY <1>1, <3>1, <3>3, <3>5, <4>1
    <3> QED
      BY <1>1, <1>2, <3>1, <3>2, <3>3, <3>4, <3>5 DEF Timely
  <2> QED
    BY <1>1, <1>2, <2>1 DEF Timing
<1> QED
  BY <1>4, <1>5, <1>6, <1>7 DEF Inv

-----------------------------------------------------------------------------
\* The table starts empty.
LEMMA InitInv == Init => Inv
<1> SUFFICES ASSUME Init PROVE Inv
  OBVIOUS
<1>1. /\ 0 \in 0 .. TokenRange - 1 /\ 0 \in 0 .. TimerRange - 1 /\ 0 \in 0 .. MaxJobs
      /\ 0 \in 0 .. MAX_DEFERRED_EXECUTORS /\ 0 \in 0 .. Stall
  BY TableAssumption, DelayAssumption
<1>2. TypeOK
  <2>1. Free \in Executor
    BY <1>1 DEF Free, Executor, INVALID_DEFERRED_TOKEN
  <2>2. jobs \in Seq(Job) /\ Len(jobs) <= MaxJobs
    BY TableAssumption DEF Init
  <2> QED
    BY <1>1, <2>1, <2>2 DEF Init, TypeOK, Idle
<1>3. \A i \in Slots : ~Occupied(i)
  BY DEF Init, Occupied, Free
<1>4. Registered
  BY <1>3 DEF Init, Registered
<1>5. TaskKept
  BY DEF Init, TaskKept, Idle, InCallback
<1>6. Timing
  <2>1. Lag = 0
    BY TableAssumption, DelayAssumption DEF Init, Lag
  <2> QED
    BY <1>1, <1>3, <2>1 DEF Timing
<1> QED
  BY <1>2, <1>4, <1>5, <1>6 DEF Inv

\* Every step keeps the invariant when no callback cancels its own token.
LEMMA NextInv == ASSUME ~SelfCancel, Inv, [Next]_vars PROVE Inv'
<1>1. CASE \E d \in Delays : Defer(d) \/ DeferRefused(d)
  BY <1>1, DeferKeeps, DeferRefusedKeeps
<1>2. CASE \E j \in DOMAIN jobs : Cancel(j) \/ \E d \in Delays : Extend(j, d)
  BY <1>2, CancelKeeps, ExtendKeeps
<1>3. CASE Begin \/ Skip \/ Invoke \/ Tick
  BY <1>3, BeginKeeps, SkipKeeps, InvokeKeeps, TickKeeps
<1>4. CASE \E d \in Repeats : Returns(d)
  <2>1. PICK d \in Repeats : Returns(d)
    BY <1>4
  <2>2. d \in Nat
    BY DelayAssumption
  <2>3. CASE d = 0
    BY <2>1, <2>3, EndKeeps
  <2>4. CASE d > 0
    BY <2>1, <2>4, RepeatKeeps
  <2> QED
    BY <2>2, <2>3, <2>4
<1>5. CASE UNCHANGED vars
  <2>1. UNCHANGED <<table, current_token, now, last, task, jobs>>
    BY <1>5 DEF vars
  <2>2. TypeOK' /\ Registered'
    BY <2>1 DEF Inv, TypeOK, Registered, Occupied
  <2>3. TaskKept' /\ Timing'
    BY <2>1 DEF Inv, TaskKept, Timing, Timely, Occupied, Lag, Left, Passed, Running, InCallback
  <2> QED
    BY <2>2, <2>3 DEF Inv
<1> QED
  BY <1>1, <1>2, <1>3, <1>4, <1>5 DEF Next

\* The inductive invariant, of every behaviour in which no callback cancels its
\* own token.
THEOREM Invariance == ASSUME ~SelfCancel PROVE Spec => []Inv
<1>1. Inv /\ [Next]_vars => Inv'
  BY NextInv
<1> QED
  BY <1>1, InitInv, PTL DEF Spec

\* The table holds the pending calls, each once and under its own token, for every
\* size of the table and range of the tokens and in every order of user calls,
\* callbacks and steps of the task.
THEOREM TableIsRight == ASSUME ~SelfCancel PROVE Spec => []TableHoldsPending
<1>1. Inv => TableHoldsPending
  <2> SUFFICES ASSUME Inv PROVE TableHoldsPending
    OBVIOUS
  <2>1. \A j \in Pending : \E i \in Slots : table[i].job = j /\ table[i].token = jobs[j].token
    BY DEF Inv, Registered, Pending
  <2>2. \A i \in Slots \ FreeSlots : Occupied(i) /\ table[i].job \in Pending
    BY DEF Inv, Registered, Pending, FreeSlots, Occupied
  <2>3. \A i, k \in Slots \ FreeSlots : i # k => /\ table[i].job # table[k].job
                                               /\ table[i].token # table[k].token
    BY <2>2 DEF Inv, Registered
  <2> QED
    BY <2>1, <2>2, <2>3 DEF TableHoldsPending
<1> QED
  BY <1>1, Invariance, PTL

\* The trigger times are those that were asked for, across the wrap of the timer
\* and whatever the drift of callbacks that run late.
THEOREM TimesAreRight == ASSUME ~SelfCancel PROVE Spec => []OnSchedule
<1>1. Inv => OnSchedule
  <2> SUFFICES ASSUME Inv, NEW i \in Slots \ FreeSlots
               PROVE  SignedDiff(table[i].trigger_time, now) = jobs[table[i].job].left
    BY DEF OnSchedule
  <2>1. i \in Slots /\ Occupied(i)
    BY DEF FreeSlots, Occupied
  <2>2. /\ Timely(i) /\ Left(i) \in Int /\ now \in 0 .. TimerRange - 1
        /\ Lag \in 0 .. Stall /\ Stall \in Nat /\ TimerRange \in Nat /\ 4 * Stall <= TimerRange
    BY <2>1, SlotFacts, TableAssumption, DelayAssumption DEF Inv, TypeOK, Timing
  <2>3. /\ Left(i) >= 1 - Lag - Stall /\ 2 * Left(i) < TimerRange
        /\ table[i].trigger_time = (now + Left(i)) % TimerRange
    BY <2>2 DEF Timely
  <2>4. -TimerRange <= 2 * Left(i)
    BY <2>2, <2>3
  <2> QED
    BY <2>2, <2>3, <2>4, SignedDiffIs DEF Left
<1> QED
  BY <1>1, Invariance, PTL

\* A step that invokes a callback finds its time come.
THEOREM NeverEarly == ASSUME ~SelfCancel PROVE Spec => NotEarly
<1>1. Inv /\ [Next]_vars => [Invoke => jobs[table[task.slot].job].left <= 0]_vars
  <2> SUFFICES ASSUME Inv, Invoke PROVE jobs[table[task.slot].job].left <= 0
    OBVIOUS
  <2>1. task.slot # 0 /\ ~InCallback /\ IsDue(task.slot)
    BY DEF Invoke
  <2>2. task.slot \in Slots /\ Occupied(task.slot)
    BY <2>1, NextSlotFacts DEF IsDue, Occupied
  <2>3. Left(task.slot) + Lag <= 0
    BY <2>1, <2>2, DueIs
  <2>4. Left(task.slot) \in Int /\ Lag \in 0 .. Stall /\ Stall \in Nat
    BY <2>2, SlotFacts, TableAssumption DEF Inv, Timing
  <2> QED
    BY <2>3, <2>4 DEF Left
<1> QED
  BY <1>1, Invariance, PTL DEF Spec, NotEarly
=============================================================================
