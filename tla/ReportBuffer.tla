---------------------------- MODULE ReportBuffer ----------------------------
(***************************************************************************)
(* The wireless report buffer (keychron/common/wireless/report_buffer.c):  *)
(* a ring of HID reports between the key processing and the radio module,  *)
(* and the one report in flight, which is retransmitted until the module   *)
(* acknowledges it or its retries run out.                                 *)
(*                                                                         *)
(* Every C function is an operator that maps a buffer record to a buffer   *)
(* record, so that a caller can run several of them in one step, as the    *)
(* single-threaded firmware does.  The ring's contents are the sequence    *)
(* queue; module Ring has the ring itself, and RingProofs proves that it   *)
(* is this sequence.  A timer is its age in milliseconds, counted up to    *)
(* AgeCap: the code only asks whether it exceeds an interval, and every    *)
(* interval is smaller than AgeCap.                                        *)
(***************************************************************************)
EXTENDS Fifo

CONSTANTS
    QueueSize,   \* REPORT_BUFFER_QUEUE_SIZE (256): slots of the ring
    RetryCount,  \* RETPORT_RETRY_COUNT (30): retransmissions of a report
    RetryWait,   \* 2: milliseconds a transmission waits for its answer
    AgeCap       \* ages are counted up to this bound

ASSUME QueueSizeAssumption == QueueSize \in Nat /\ QueueSize > 1
ASSUME RetryAssumption == RetryCount \in Nat /\ RetryCount > 0
ASSUME AgeAssumption == /\ RetryWait \in Nat
                        /\ AgeCap \in Nat
                        /\ RetryWait < AgeCap

(***************************************************************************)
(* A report is its type, a number that tells it from the others, and the   *)
(* host it was typed for.  kb_rpt is NoReport until the first one.         *)
(***************************************************************************)
ReportTypes == {"NONE", "KB", "NKRO", "CONSUMER", "SYSTEM"}
Report == [type : ReportTypes, id : Nat, dst : Nat]
NoReport == [type |-> "NONE", id |-> 0, dst |-> 0]

Ages == 0 .. AgeCap

Buffer == [queue : Seq(Report), kb_rpt : Report, retry : 0 .. RetryCount,
           age : Ages, retry_age : Ages, interval : Nat]

(***************************************************************************)
(* The statics of report_buffer.c before report_buffer_init; report_timer  *)
(* and retry_time are 0, so both timers have long expired.                 *)
(***************************************************************************)
PowerOnBuffer(interval) ==
    [queue |-> <<>>, kb_rpt |-> NoReport, retry |-> 0,
     age |-> AgeCap, retry_age |-> AgeCap, interval |-> interval]

report_buffer_init(b) == [b EXCEPT !.queue = <<>>, !.retry = 0, !.age = 0]

report_buffer_is_empty(b) == b.queue = <<>>

\* One slot of the ring always stays free.
IsFull(b) == Len(b.queue) = QueueSize - 1

\* Mutant: no test for the full ring.
enqueue_unchecked(b, r) == [b EXCEPT !.queue = Append(@, r)]

\* A full ring refuses the report, and no caller looks at the result.
report_buffer_enqueue(b, r) ==
    [b EXCEPT !.queue = AppendOrRefuse(@, r, QueueSize - 1)]

\* Mutant: takes the newest report.
dequeue_newest(b) ==
    IF report_buffer_is_empty(b) THEN b
    ELSE [b EXCEPT !.kb_rpt = b.queue[Len(b.queue)],
                   !.queue = SubSeq(@, 1, Len(@) - 1)]

report_buffer_dequeue(b) ==
    IF report_buffer_is_empty(b) THEN b
    ELSE [b EXCEPT !.kb_rpt = Head(b.queue), !.queue = Tail(@)]

report_buffer_update_timer(b) == [b EXCEPT !.age = 0]

report_buffer_next_inverval(b) == b.age > b.interval

report_buffer_set_inverval(b, interval) == [b EXCEPT !.interval = interval]

report_buffer_set_retry(b, times) == [b EXCEPT !.retry = times]

(***************************************************************************)
(* report_buffer_task.  Pending: the outer condition.  Transmits: the task *)
(* hands kb_rpt to the module.  uptime is timer_read32(), and only whether *)
(* it exceeds 2 matters: a report fetched in that window is never sent.    *)
(***************************************************************************)
\* Mutant: the report in flight alone does not count as work.
pending_when_queued(b, connected) ==
    connected /\ ~report_buffer_is_empty(b) /\ report_buffer_next_inverval(b)

Pending(b, connected) ==
    /\ connected
    /\ ~report_buffer_is_empty(b) \/ b.retry > 0
    /\ report_buffer_next_inverval(b)

Transmits(b, connected, uptime) ==
    /\ Pending(b, connected)
    /\ IF b.retry = 0
       THEN Head(b.queue).type # "NONE" /\ uptime > 2
       ELSE b.retry_age > RetryWait

\* Mutant: a retransmission does not count the retry down.
task_without_countdown(b, connected, uptime) ==
    LET c == IF Pending(b, connected) /\ b.retry = 0
             THEN report_buffer_dequeue(b) ELSE b
    IN  IF Transmits(b, connected, uptime)
        THEN [c EXCEPT !.retry = RetryCount, !.retry_age = 0, !.age = 0]
        ELSE c

report_buffer_task(b, connected, uptime) ==
    LET c == IF Pending(b, connected) /\ b.retry = 0
             THEN report_buffer_dequeue(b) ELSE b
    IN  IF Transmits(b, connected, uptime)
        THEN [c EXCEPT !.retry = IF b.retry = 0 THEN RetryCount ELSE b.retry - 1,
                       !.retry_age = 0, !.age = 0]
        ELSE c

\* dt milliseconds pass.
Older(age, dt) == IF age + dt > AgeCap THEN AgeCap ELSE age + dt
Elapse(b, dt) == [b EXCEPT !.age = Older(@, dt), !.retry_age = Older(@, dt)]

QueuedIds(b) == {b.queue[i].id : i \in 1 .. Len(b.queue)}
=============================================================================
