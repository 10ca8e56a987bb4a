---------------------------- MODULE DeferredExec ----------------------------
(***************************************************************************)
(* Deferred execution, deferred_exec.c: a table of callbacks with trigger  *)
(* times, known to their users by tokens.  The task runs through the table *)
(* at most once in a millisecond; a callback may itself defer, extend and  *)
(* cancel, and takes time.  The history jobs has one entry per accepted    *)
(* defer_exec.  Users keep to the documented rule that a token is not used *)
(* once its callback has ended or was cancelled.                           *)
(***************************************************************************)
EXTENDS Integers, Sequences, FiniteSets

CONSTANTS
    MAX_DEFERRED_EXECUTORS,
    TokenRange,    \* 256: values of a deferred_token
    TimerRange,    \* 2^32: values of timer_read32()
    Delays,        \* delays users ask for
    Repeats,       \* what callbacks return
    SelfCancel,    \* callbacks may cancel their own token
    Stall,         \* bound: milliseconds the table may go without the task
    MaxJobs        \* bound: accepted calls of defer_exec

ASSUME TableAssumption ==
    /\ MAX_DEFERRED_EXECUTORS \in Nat \ {0} /\ TokenRange \in Nat \ {0, 1}
    /\ TimerRange \in Nat /\ MaxJobs \in Nat /\ Stall \in Nat \ {0}
    /\ SelfCancel \in BOOLEAN
\* A trigger time must not be half the timer's range away, also when a callback
\* puts itself off and then returns a delay.
ASSUME DelayAssumption ==
    /\ Delays \subseteq Nat /\ Repeats \subseteq Nat /\ 4 * Stall <= TimerRange
    /\ \A d \in Delays, r \in Repeats \cup {Stall} : 2 * (d + r) < TimerRange
    /\ \A r \in Repeats : 2 * r < TimerRange /\ (r = 0 \/ r >= Stall)

VARIABLES
    table,          \* basic_executors
    current_token,
    now,            \* timer_read32()
    last,           \* last_deferred_exec_check
    task,           \* the task: where it is in the table and since when
    jobs            \* history: [token, left, state], left in milliseconds

vars == <<table, current_token, now, last, task, jobs>>

Slots == 1 .. MAX_DEFERRED_EXECUTORS
INVALID_DEFERRED_TOKEN == 0
Free == [token |-> INVALID_DEFERRED_TOKEN, trigger_time |-> 0, job |-> 0]
Idle == [slot |-> 0, since |-> 0, job |-> 0]
InCallback == task.job # 0

Init ==
    /\ table = [i \in Slots |-> Free] /\ current_token = 0
    /\ now = 0 /\ last = 0
    /\ task = Idle /\ jobs = <<>>

After(delay) == (now + delay) % TimerRange
\* (int32_t)TIMER_DIFF_32(a, b)
SignedDiff(a, b) ==
    LET d == (a - b) % TimerRange IN IF 2 * d >= TimerRange THEN d - TimerRange ELSE d
First(S) == CHOOSE i \in S : \A j \in S : i <= j

-----------------------------------------------------------------------------
(***************************************************************************)
(* The calls of users, from their own code or from a callback              *)
(***************************************************************************)
UsersTurn == task = Idle \/ InCallback

token_can_be_used(t) == t # INVALID_DEFERRED_TOKEN /\ \A i \in Slots : table[i].token # t

\* Mutant: a token in use is not looked for.
NextTokens == {k \in 1 .. TokenRange : (current_token + k) % TokenRange # INVALID_DEFERRED_TOKEN}

\* allocate_token: how far the tokens that can be used are from the last one.
UsableTokens == {k \in 1 .. TokenRange : token_can_be_used((current_token + k) % TokenRange)}

FreeSlots == {i \in Slots : table[i].token = INVALID_DEFERRED_TOKEN}

Defer(delay) ==
    LET token == (current_token + First(UsableTokens)) % TokenRange
    IN /\ UsersTurn /\ Len(jobs) < MaxJobs
       /\ delay # 0 /\ FreeSlots # {} /\ UsableTokens # {}
       /\ current_token' = token
       /\ table' = [table EXCEPT ![First(FreeSlots)] =
                       [token |-> token, trigger_time |-> After(delay), job |-> Len(jobs) + 1]]
       /\ jobs' = Append(jobs, [token |-> token, left |-> delay, state |-> "pending"])
       /\ UNCHANGED <<now, last, task>>

\* defer_exec returns INVALID_DEFERRED_TOKEN.
DeferRefused(delay) ==
    /\ UsersTurn
    /\ delay = 0 \/ FreeSlots = {} \/ UsableTokens = {}
    /\ current_token' = IF delay # 0 /\ FreeSlots # {} THEN (current_token + 1) % TokenRange
                        ELSE current_token
    /\ UNCHANGED <<table, now, last, task, jobs>>

\* The slots whose token is that of job j.
SlotsOf(j) == {i \in Slots : table[i].token = jobs[j].token}

Extend(j, delay) ==
    /\ UsersTurn /\ jobs[j].state = "pending"
    /\ delay # 0 /\ SlotsOf(j) # {}
    /\ table' = [table EXCEPT ![First(SlotsOf(j))].trigger_time = After(delay)]
    /\ jobs' = [jobs EXCEPT ![j].left = delay]
    /\ UNCHANGED <<current_token, now, last, task>>

Cancel(j) ==
    /\ UsersTurn /\ jobs[j].state = "pending" /\ (SelfCancel \/ task.job # j)
    /\ SlotsOf(j) # {}
    /\ table' = [table EXCEPT ![First(SlotsOf(j))] = Free]
    /\ jobs' = [jobs EXCEPT ![j].state = "cancelled", ![j].left = 0]
    /\ UNCHANGED <<current_token, now, last, task>>

-----------------------------------------------------------------------------
(***************************************************************************)
(* deferred_exec_task                                                      *)
(***************************************************************************)
\* Mutant: the times are compared as they are.
BeginUnwrapped ==
    /\ task = Idle /\ now > last
    /\ last' = now
    /\ task' = [Idle EXCEPT !.slot = 1, !.since = now]
    /\ UNCHANGED <<table, current_token, now, jobs>>

Begin ==
    /\ task = Idle /\ SignedDiff(now, last) > 0
    /\ last' = now
    /\ task' = [Idle EXCEPT !.slot = 1, !.since = now]
    /\ UNCHANGED <<table, current_token, now, jobs>>

\* Mutant: a slot is due in the millisecond before its trigger time.
DueEarly(i) ==
    /\ table[i].token # INVALID_DEFERRED_TOKEN
    /\ SignedDiff(table[i].trigger_time, task.since) <= 1

IsDue(i) ==
    /\ table[i].token # INVALID_DEFERRED_TOKEN
    /\ SignedDiff(table[i].trigger_time, task.since) <= 0

NextSlot == IF task.slot = MAX_DEFERRED_EXECUTORS THEN Idle
            ELSE [task EXCEPT !.slot = @ + 1, !.job = 0]

Skip ==
    /\ task.slot # 0 /\ ~InCallback /\ ~IsDue(task.slot)
    /\ task' = NextSlot
    /\ UNCHANGED <<table, current_token, now, last, jobs>>

Invoke ==
    /\ task.slot # 0 /\ ~InCallback /\ IsDue(task.slot)
    /\ task' = [task EXCEPT !.job = table[task.slot].job]
    /\ UNCHANGED <<table, current_token, now, last, jobs>>

\* What a returned delay means for a slot and for a call.
TriggeredAgain(e, delay) == [e EXCEPT !.trigger_time = (@ + delay) % TimerRange]
Returned(c, delay) ==
    IF c.state = "cancelled" THEN c
    ELSE IF delay > 0 THEN [c EXCEPT !.left = @ + delay]
    ELSE [c EXCEPT !.state = "ended", !.left = 0]

\* Mutant: the next trigger is counted from now.
ReturnsFromNow(delay) ==
    /\ InCallback
    /\ table' = [table EXCEPT ![task.slot] = IF delay > 0 THEN [@ EXCEPT !.trigger_time = After(delay)]
                                             ELSE Free]
    /\ jobs' = [jobs EXCEPT ![task.job] = Returned(@, delay)]
    /\ task' = NextSlot
    /\ UNCHANGED <<current_token, now, last>>

\* The callback returns: its slot is triggered again that much after the last
\* trigger, or is freed.
Returns(delay) ==
    /\ InCallback
    /\ table' = [table EXCEPT ![task.slot] =
                    IF delay > 0 THEN TriggeredAgain(@, delay) ELSE Free]
    /\ jobs' = [jobs EXCEPT ![task.job] = Returned(@, delay)]
    /\ task' = NextSlot
    /\ UNCHANGED <<current_token, now, last>>

\* A millisecond passes.  More than half the range of the timer late is not
\* told from early: the history stops there.
LateCap == TimerRange \div 2
Tick ==
    /\ (now - last) % TimerRange < Stall
    /\ now' = After(1)
    /\ jobs' = [j \in DOMAIN jobs |-> IF jobs[j].state = "pending"
                                      THEN [jobs[j] EXCEPT !.left = IF @ > -LateCap THEN @ - 1 ELSE @]
                                      ELSE jobs[j]]
    /\ UNCHANGED <<table, current_token, last, task>>

Next ==
    \/ \E d \in Delays : Defer(d) \/ DeferRefused(d)
    \/ \E j \in DOMAIN jobs : Cancel(j) \/ \E d \in Delays : Extend(j, d)
    \/ Begin \/ Skip \/ Invoke
    \/ \E d \in Repeats : Returns(d)
    \/ Tick

\* The main loop calls the task again and again, time passes, callbacks return.
Fairness ==
    /\ WF_vars(Begin) /\ WF_vars(Skip) /\ WF_vars(Invoke) /\ WF_vars(Tick)
    /\ WF_vars(\E d \in Repeats : Returns(d))

Spec == Init /\ [][Next]_vars /\ Fairness

-----------------------------------------------------------------------------
(***************************************************************************)
(* Properties                                                              *)
(***************************************************************************)
Pending == {j \in DOMAIN jobs : jobs[j].state = "pending"}

Executor == [token : 0 .. TokenRange - 1, trigger_time : 0 .. TimerRange - 1,
             job : 0 .. MaxJobs]
Job == [token : 1 .. TokenRange - 1, left : Int, state : {"pending", "ended", "cancelled"}]

\* Type correctness.
TypeOK ==
    /\ table \in [Slots -> Executor] /\ current_token \in 0 .. TokenRange - 1
    /\ now \in 0 .. TimerRange - 1 /\ last \in 0 .. TimerRange - 1
    /\ task \in [slot : 0 .. MAX_DEFERRED_EXECUTORS, since : 0 .. TimerRange - 1,
                 job : 0 .. MaxJobs]
    /\ jobs \in Seq(Job) /\ Len(jobs) <= MaxJobs

\* Each callback that was deferred, and has neither ended nor been cancelled,
\* is in the table once, under its own token, and nothing else is in the table:
\* no token is given twice, no slot is freed or reused under its owner, also
\* when callbacks use the table while the task runs through it.
TableHoldsPending ==
    /\ \A j \in Pending : \E i \in Slots : table[i].job = j /\ table[i].token = jobs[j].token
    /\ \A i \in Slots \ FreeSlots : table[i].job \in Pending
    /\ \A i, k \in Slots \ FreeSlots : i # k => table[i].job # table[k].job
                                                /\ table[i].token # table[k].token

\* The trigger times count down to what was asked for, across the wrap of the
\* timer: the delay of the last defer_exec or extend_deferred_exec, and for a
\* repetition the delay after the last trigger.
OnSchedule ==
    \A i \in Slots \ FreeSlots :
        SignedDiff(table[i].trigger_time, now) = jobs[table[i].job].left

\* No callback is invoked before its time.
NotEarly == [][Invoke => jobs[table[task.slot].job].left <= 0]_vars

Overdue(j) == j \in Pending /\ jobs[j].left <= 0

\* A callback whose time has come is invoked (or cancelled or put off by its
\* user), however often the others repeat, defer and extend.
DueIsInvoked == \A j \in 1 .. MaxJobs : Overdue(j) ~> task.job = j \/ ~Overdue(j)
=============================================================================
