------------------------------ MODULE LowPower ------------------------------
(***************************************************************************)
(* Low-power mode: lpm_task decides over flags that other parts of the     *)
(* main loop left behind, and the MCU is stopped until an edge on one of   *)
(* its lines: a row of the key matrix, the interrupt line of the radio     *)
(* module, USB power, the mode switch.  The world goes on between the last *)
(* look at a line and the stop.                                            *)
(*                                                                         *)
(* A round of the main loop is the matrix scan ("scan"), the mode switch   *)
(* ("switch"), the module's frames ("frames"), report_buffer_task          *)
(* ("reports"), indicator_task ("indicator") and lpm_task ("lpm").  On the *)
(* way into stop mode, "arming" is before and "armed" after the interrupts *)
(* of the lines are enabled, and "woken" is after the stop.                *)
(***************************************************************************)
EXTENDS Integers, FiniteSets

CONSTANTS
    Keys, Rows, Row,       \* the matrix: Row[k] is the row of key k
    RUN_MODE_PROCESS_TIME, \* 1000: milliseconds without activity before a stop
    SwitchTime,            \* 100: milliseconds the mode switch must rest
    ReportInterval,        \* milliseconds between reports
    KeyReports,            \* reports one key event may produce (macros)
    MaxChanges             \* bound: changes of the lines

ASSUME LowPowerAssumption ==
    /\ Row \in [Keys -> Rows] /\ Rows \cap {"usb", "module", "switch"} = {}
    /\ RUN_MODE_PROCESS_TIME \in Nat /\ ReportInterval \in Nat /\ SwitchTime \in Nat
    /\ SwitchTime < RUN_MODE_PROCESS_TIME
    /\ ReportInterval <= RUN_MODE_PROCESS_TIME
    /\ KeyReports \subseteq Nat /\ MaxChanges \in Nat

VARIABLES
    pc,
    down, usb, frame, wireless,  \* lines: keys held, USB power, unread frame, switch
    fw,                          \* the firmware's static variables
    late,                        \* history: lines that changed since the last look
    changes                      \* for the bound

vars == <<pc, down, usb, frame, wireless, fw, late, changes>>

LowRows(keys) == {Row[k] : k \in keys}

Init ==
    /\ pc = "scan" /\ down = {} /\ usb \in BOOLEAN /\ frame = FALSE /\ wireless \in BOOLEAN
    /\ fw = [matrix |-> {}, wireless |-> wireless, rest |-> 0, connected |-> FALSE, lit |-> TRUE,
             indicator |-> FALSE, lpm_time_up |-> FALSE, idle |-> 0,
             power_mode |-> "RUN", queue |-> 0, age |-> ReportInterval]
    /\ late = {} /\ changes = 0

-----------------------------------------------------------------------------
lpm_timer_reset(f) == [f EXCEPT !.lpm_time_up = FALSE, !.idle = 0]
\* A timer buffer of 0 is long ago.
lpm_timer_stop(f) == [f EXCEPT !.lpm_time_up = FALSE, !.idle = RUN_MODE_PROCESS_TIME + 1]

Goto(step) == pc' = step /\ UNCHANGED <<down, usb, frame, wireless, changes>>

\* matrix_task and process_record_wireless.  A key event lights the keys.
Typed(f, n) ==
    LET g == [f EXCEPT !.matrix = down, !.lit = TRUE,
                       !.queue = IF f.connected THEN @ + n ELSE @]
    IN  IF f.wireless THEN lpm_timer_reset(g) ELSE g
Scan ==
    /\ pc = "scan" /\ Goto("switch")
    /\ \/ down = fw.matrix /\ UNCHANGED fw
       \/ /\ down # fw.matrix
          /\ \E n \in KeyReports : fw' = Typed(fw, n)
    /\ late' = late \ Rows

\* wireless_pre_task: the new position is adopted when it has rested.
SwitchKept ==
    /\ pc = "switch" /\ Goto("frames")
    /\ \/ wireless = fw.wireless /\ fw' = [fw EXCEPT !.rest = 0]
       \/ /\ wireless # fw.wireless /\ fw.rest <= SwitchTime
          /\ fw' = [fw EXCEPT !.rest = @ + 1]
    /\ late' = IF wireless = fw.wireless THEN late \ {"switch"} ELSE late
SwitchAdopted ==
    /\ pc = "switch" /\ Goto("frames") /\ wireless # fw.wireless /\ fw.rest > SwitchTime
    /\ fw' = LET f == [fw EXCEPT !.wireless = wireless, !.rest = 0]
             IN  IF wireless THEN lpm_timer_reset(f) ELSE lpm_timer_stop(f)
    /\ late' = late \ {"switch"}

\* lkbt51_task and wireless_event_task: the frame says nothing of interest, or
\* that the connection is up or gone.
Connected(f) == [f EXCEPT !.connected = TRUE, !.indicator = TRUE]
Disconnected(f) == LET g == [f EXCEPT !.connected = FALSE, !.indicator = TRUE, !.queue = 0]
                   IN  IF f.connected THEN lpm_timer_reset(g) ELSE g
Frames ==
    /\ pc = "frames" /\ pc' = "reports"
    /\ \/ ~frame /\ UNCHANGED fw
       \/ frame /\ fw' \in {fw, Connected(fw), Disconnected(fw)}
    /\ frame' = FALSE /\ late' = late \ {"module"}
    /\ UNCHANGED <<down, usb, wireless, changes>>

Due(f) == f.connected /\ f.queue > 0 /\ f.age >= ReportInterval

\* Mutant: sending is no activity.
ReportsUncounted ==
    /\ pc = "reports" /\ Goto("indicator")
    /\ fw' = IF Due(fw) THEN [fw EXCEPT !.queue = @ - 1, !.age = 0] ELSE fw
    /\ UNCHANGED late

\* report_buffer_task.
Reports ==
    /\ pc = "reports" /\ Goto("indicator")
    /\ fw' = IF Due(fw) THEN lpm_timer_reset([fw EXCEPT !.queue = @ - 1, !.age = 0]) ELSE fw
    /\ UNCHANGED late

\* indicator_task: the indication goes on or its time is up.
IndicatorOn ==
    /\ pc = "indicator" /\ Goto("lpm")
    /\ UNCHANGED <<fw, late>>
IndicatorUp ==
    /\ pc = "indicator" /\ Goto("lpm") /\ fw.indicator
    /\ fw' = lpm_timer_reset([fw EXCEPT !.indicator = FALSE])
    /\ UNCHANGED late

\* The backlight times out.
Dim ==
    /\ fw.lit /\ pc = "scan"
    /\ fw' = [fw EXCEPT !.lit = FALSE]
    /\ UNCHANGED <<pc, down, usb, frame, wireless, late, changes>>

-----------------------------------------------------------------------------
(***************************************************************************)
(* lpm_task.                                                               *)
(***************************************************************************)
TimeUp(f) == IF f.idle > RUN_MODE_PROCESS_TIME THEN [f EXCEPT !.lpm_time_up = TRUE] ELSE f

lpm_any_matrix_action(f) == f.matrix # {}

\* Mutant: held keys do not matter.
AllowsStopHeld(f) ==
    f.wireless /\ f.lpm_time_up /\ ~f.indicator /\ ~f.lit /\ ~usb /\ f.power_mode = "RUN"

\* The conditions of lpm_task, pre_enter_low_power_mode and lpm_set.
AllowsStop(f) ==
    /\ f.wireless /\ f.lpm_time_up /\ ~f.indicator /\ ~f.lit /\ ~lpm_any_matrix_action(f)
    /\ ~usb /\ f.power_mode = "RUN"

\* The round is over.
Capped(n, max) == IF n < max THEN n + 1 ELSE max
Run ==
    /\ pc = "lpm" /\ ~AllowsStop(TimeUp(fw)) /\ Goto("scan")
    /\ fw' = [TimeUp(fw) EXCEPT !.idle = Capped(@, RUN_MODE_PROCESS_TIME + 1),
                                !.age = Capped(@, ReportInterval)]
    /\ late' = late \ {"usb"}

Stop ==
    /\ pc = "lpm" /\ AllowsStop(TimeUp(fw)) /\ Goto("arming")
    /\ fw' = [TimeUp(fw) EXCEPT !.power_mode = "STOP"]
    /\ late' = late \ {"usb"}

\* The rest of pre_enter_low_power_mode.
Arm == pc = "arming" /\ Goto("armed") /\ UNCHANGED <<fw, late>>

\* An interrupt that came before has been served and does not end the wait.
WFI == pc = "armed" /\ Goto("stopped") /\ UNCHANGED <<fw, late>>

\* Mutant: the power mode is not set back.
WakeUnset ==
    /\ pc = "woken" /\ Goto("scan")
    /\ fw' = lpm_timer_reset([fw EXCEPT !.matrix = {}, !.queue = 0])
    /\ UNCHANGED late

\* lpm_wakeup and what follows it.
Wake ==
    /\ pc = "woken" /\ Goto("scan")
    /\ fw' = lpm_timer_reset([fw EXCEPT !.matrix = {}, !.queue = 0, !.power_mode = "RUN"])
    /\ UNCHANGED late

-----------------------------------------------------------------------------
(***************************************************************************)
(* The lines.  An edge ends the stop; at any other time the change of the  *)
(* line is late for this round.                                            *)
(***************************************************************************)
Change(line, edge) ==
    /\ changes < MaxChanges /\ changes' = changes + 1
    /\ pc' = IF pc = "stopped" /\ edge THEN "woken" ELSE pc
    /\ late' = IF pc = "stopped" THEN late ELSE late \cup {line}
    /\ UNCHANGED fw

Press(k) ==
    /\ k \notin down /\ down' = down \cup {k}
    /\ Change(Row[k], Row[k] \notin LowRows(down))
    /\ UNCHANGED <<usb, frame, wireless>>

Release(k) ==
    /\ k \in down /\ down' = down \ {k}
    /\ Change(Row[k], Row[k] \notin LowRows(down'))
    /\ UNCHANGED <<usb, frame, wireless>>

Plug == usb' = ~usb /\ Change("usb", TRUE) /\ UNCHANGED <<down, frame, wireless>>
Move == wireless' = ~wireless /\ Change("switch", TRUE) /\ UNCHANGED <<down, usb, frame>>
Frame == ~frame /\ frame' = TRUE /\ Change("module", TRUE) /\ UNCHANGED <<down, usb, wireless>>

Loop ==
    \/ Scan \/ SwitchKept \/ SwitchAdopted \/ Frames \/ Reports \/ IndicatorOn \/ IndicatorUp
    \/ Run \/ Stop \/ Arm \/ WFI \/ Wake

Next ==
    \/ Loop \/ Dim \/ Plug \/ Move \/ Frame
    \/ \E k \in Keys : Press(k) \/ Release(k)

\* The main loop goes on; indications and the backlight end.
Spec ==
    /\ Init /\ [][Next]_vars
    /\ WF_vars(Loop) /\ SF_vars(IndicatorUp) /\ SF_vars(Dim)

-----------------------------------------------------------------------------
\* The values of the static variables.
Firmware ==
    [matrix : SUBSET Keys, wireless : BOOLEAN, rest : 0 .. SwitchTime + 1,
     connected : BOOLEAN, lit : BOOLEAN, indicator : BOOLEAN, lpm_time_up : BOOLEAN,
     idle : 0 .. RUN_MODE_PROCESS_TIME + 1, power_mode : {"RUN", "STOP"},
     queue : Nat, age : 0 .. ReportInterval]

\* Type correctness.
TypeOK ==
    /\ pc \in {"scan", "switch", "frames", "reports", "indicator", "lpm",
               "arming", "armed", "stopped", "woken"}
    /\ down \subseteq Keys /\ {usb, frame, wireless} \subseteq BOOLEAN
    /\ fw \in Firmware
    /\ late \subseteq Rows \cup {"usb", "module", "switch"}

\* Lines whose level the firmware does not know.
Unseen ==
    LowRows(down \ fw.matrix) \cup (IF usb THEN {"usb"} ELSE {})
    \cup (IF frame THEN {"module"} ELSE {})
    \cup (IF wireless # fw.wireless THEN {"switch"} ELSE {})

\* A stopped MCU waits for an edge, so a level that changed before is not
\* noticed.  That happens only to a line that changed between the firmware's
\* last look at it and the stop; no key that was already down, no frame that
\* was already there, no switch that had settled, is slept over.
NothingMissed == pc = "stopped" => Unseen \cup LowRows(down) \subseteq late

\* Waking up empties the report buffer: nothing may be in it when the MCU
\* stops, or key releases never reach the host.  lpm_task does not ask the
\* buffer; the timer does, because every report sent restarts it.
StopsDrained == pc = "stopped" => fw.queue = 0

\* The battery lasts: a keyboard left alone in a wireless mode without USB power
\* stops, and does so again after every wake-up.
LeftAlone == down = {} /\ ~usb /\ wireless
StopsAgain == <>[]LeftAlone => []<>(pc = "stopped")

\* lpm.c: "Don't enter low power mode if attached to the host".
AttachedStaysAwake == pc = "stopped" => ~usb
=============================================================================
