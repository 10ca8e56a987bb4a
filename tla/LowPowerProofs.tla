--------------------------- MODULE LowPowerProofs ---------------------------
(***************************************************************************)
(* Proofs about LowPower, for every key matrix, every set of report counts *)
(* and all times that LowPowerAssumption admits.  lpm_task stops the MCU   *)
(* on flags and timers only; the inductive invariant says, for each line   *)
(* and for the report buffer, what these tell lpm_task about it at each    *)
(* point of the round.                                                     *)
(***************************************************************************)
EXTENDS LowPower, TLAPS

Stopping == {"arming", "armed", "stopped"}

\* Between a scan and the next, the matrix differs from the keys only in rows
\* that changed since.
MatrixSeen ==
    /\ pc \notin {"scan", "woken"} =>
           \A k \in Keys : (k \in down) # (k \in fw.matrix) => Row[k] \in late
    /\ pc \in Stopping => fw.matrix = {}

\* A switch in a new position that is not adopted yet, and not late, has rested
\* at least as long as the timer of lpm_task has run.
SwitchSeen ==
    wireless # fw.wireless /\ "switch" \notin late =>
        \/ pc = "woken"
        \/ pc \in {"scan", "switch"} /\ ~fw.lpm_time_up /\ fw.idle <= fw.rest
        \/ /\ pc \in {"frames", "reports", "indicator", "lpm"}
           /\ ~fw.lpm_time_up /\ fw.idle + 1 <= fw.rest

\* After lkbt51_task an unread frame is a late one; after lpm_task has asked for
\* USB power, so is that power.
FrameSeen ==
    pc \in {"reports", "indicator", "lpm"} \cup Stopping /\ frame => "module" \in late
UsbSeen == pc \in Stopping /\ usb => "usb" \in late

\* While reports wait for the host in a wireless mode, the timer of lpm_task has
\* not run longer than the wait for the next report.
QueueWatched ==
    /\ fw.queue > 0 => fw.connected
    /\ fw.queue > 0 /\ fw.wireless => ~fw.lpm_time_up
    /\ fw.queue > 0 /\ fw.wireless /\ pc \in {"scan", "switch", "frames", "reports"} =>
           fw.idle <= fw.age \/ fw.age = ReportInterval
    /\ fw.queue > 0 /\ fw.wireless /\ pc \in {"indicator", "lpm"} =>
           fw.idle = 0 \/ (fw.idle <= fw.age /\ fw.age < ReportInterval)
    /\ pc \in Stopping \cup {"woken"} => fw.queue = 0

Inv == TypeOK /\ MatrixSeen /\ SwitchSeen /\ FrameSeen /\ UsbSeen /\ QueueWatched

-----------------------------------------------------------------------------
\* Restarting and stopping the timer of lpm_task touch nothing else.
LEMMA TimerReset ==
    ASSUME NEW f \in Firmware
    PROVE  /\ lpm_timer_reset(f) \in Firmware
           /\ lpm_timer_reset(f).idle = 0 /\ ~lpm_timer_reset(f).lpm_time_up
           /\ lpm_timer_reset(f).matrix = f.matrix /\ lpm_timer_reset(f).wireless = f.wireless
           /\ lpm_timer_reset(f).rest = f.rest /\ lpm_timer_reset(f).connected = f.connected
           /\ lpm_timer_reset(f).queue = f.queue /\ lpm_timer_reset(f).age = f.age
<1>1. 0 \in 0 .. RUN_MODE_PROCESS_TIME + 1
  BY LowPowerAssumption
<1>2. lpm_timer_reset(f) \in Firmware
  BY <1>1 DEF Firmware, lpm_timer_reset
<1> QED
  BY <1>2 DEF lpm_timer_reset

LEMMA TimerStop ==
    ASSUME NEW f \in Firmware
    PROVE  /\ lpm_timer_stop(f) \in Firmware
           /\ lpm_timer_stop(f).matrix = f.matrix /\ lpm_timer_stop(f).wireless = f.wireless
           /\ lpm_timer_stop(f).rest = f.rest /\ lpm_timer_stop(f).connected = f.connected
           /\ lpm_timer_stop(f).queue = f.queue /\ lpm_timer_stop(f).age = f.age
<1>1. RUN_MODE_PROCESS_TIME + 1 \in 0 .. RUN_MODE_PROCESS_TIME + 1
  BY LowPowerAssumption
<1>2. lpm_timer_stop(f) \in Firmware
  BY <1>1 DEF Firmware, lpm_timer_stop
<1> QED
  BY <1>2 DEF lpm_timer_stop

\* A key event is queued for a connected host, and restarts the timer in a
\* wireless mode.
LEMMA TypedFields ==
    ASSUME NEW f \in Firmware, down \in SUBSET Keys, NEW n \in KeyReports
    PROVE  /\ Typed(f, n) \in Firmware
           /\ Typed(f, n).matrix = down /\ Typed(f, n).wireless = f.wireless
           /\ Typed(f, n).rest = f.rest /\ Typed(f, n).connected = f.connected
           /\ Typed(f, n).age = f.age
           /\ Typed(f, n).queue = IF f.connected THEN f.queue + n ELSE f.queue
           /\ f.wireless => Typed(f, n).idle = 0 /\ ~Typed(f, n).lpm_time_up
           /\ ~f.wireless => /\ Typed(f, n).idle = f.idle
                             /\ Typed(f, n).lpm_time_up = f.lpm_time_up
<1> DEFINE g == [f EXCEPT !.matrix = down, !.lit = TRUE,
                          !.queue = IF f.connected THEN @ + n ELSE @]
<1>1. (IF f.connected THEN f.queue + n ELSE f.queue) \in Nat
  BY LowPowerAssumption DEF Firmware
<1>2. g \in Firmware
  BY <1>1 DEF Firmware
<1>3. /\ g.matrix = down /\ g.wireless = f.wireless /\ g.rest = f.rest
      /\ g.connected = f.connected /\ g.age = f.age
      /\ g.queue = IF f.connected THEN f.queue + n ELSE f.queue
      /\ g.idle = f.idle /\ g.lpm_time_up = f.lpm_time_up
  OBVIOUS
<1>4. Typed(f, n) = IF f.wireless THEN lpm_timer_reset(g) ELSE g
  BY DEF Typed
<1> HIDE DEF g
<1> QED
  BY <1>2, <1>3, <1>4, TimerReset

\* The connection comes up: its indication starts.
LEMMA ConnectedFields ==
    ASSUME NEW f \in Firmware
    PROVE  /\ Connected(f) \in Firmware /\ Connected(f).connected
           /\ Connected(f).matrix = f.matrix /\ Connected(f).wireless = f.wireless
           /\ Connected(f).rest = f.rest /\ Connected(f).queue = f.queue
           /\ Connected(f).age = f.age /\ Connected(f).idle = f.idle
           /\ Connected(f).lpm_time_up = f.lpm_time_up
BY DEF Firmware, Connected

\* The connection is gone: the buffer is emptied.
LEMMA DisconnectedFields ==
    ASSUME NEW f \in Firmware
    PROVE  /\ Disconnected(f) \in Firmware
           /\ Disconnected(f).matrix = f.matrix /\ Disconnected(f).wireless = f.wireless
           /\ Disconnected(f).rest = f.rest /\ Disconnected(f).queue = 0
           /\ \/ Disconnected(f).idle = 0 /\ ~Disconnected(f).lpm_time_up
              \/ /\ Disconnected(f).idle = f.idle
                 /\ Disconnected(f).lpm_time_up = f.lpm_time_up
<1> DEFINE g == [f EXCEPT !.connected = FALSE, !.indicator = TRUE, !.queue = 0]
<1>1. /\ g \in Firmware /\ g.matrix = f.matrix /\ g.wireless = f.wireless /\ g.rest = f.rest
      /\ g.queue = 0 /\ g.idle = f.idle /\ g.lpm_time_up = f.lpm_time_up
  BY DEF Firmware
<1>2. Disconnected(f) = IF f.connected THEN lpm_timer_reset(g) ELSE g
  BY DEF Disconnected
<1> HIDE DEF g
<1> QED
  BY <1>1, <1>2, TimerReset

-----------------------------------------------------------------------------
\* The scan takes the levels of the rows; a key event restarts the timer before its
\* reports are queued.
LEMMA ScanKeeps == ASSUME Inv, Scan PROVE Inv'
<1>1. fw \in Firmware /\ down \in SUBSET Keys
  BY DEF Inv, TypeOK
<1>2. (fw' = fw /\ fw.matrix = down) \/ \E n \in KeyReports : fw' = Typed(fw, n)
  BY DEF Scan
<1>3. TypeOK'
  BY <1>1, <1>2, TypedFields DEF Inv, TypeOK, Scan, Goto
<1>4. MatrixSeen'
  BY <1>1, <1>2, TypedFields DEF Inv, MatrixSeen, Stopping, Scan, Goto
<1>5. SwitchSeen'
  BY <1>1, <1>2, TypedFields, LowPowerAssumption
     DEF Inv, SwitchSeen, Scan, Goto, Firmware
<1>6. FrameSeen'
  BY <1>1, <1>2 DEF Inv, FrameSeen, Stopping, Scan, Goto
<1>7. UsbSeen'
  BY <1>1, <1>2 DEF Inv, UsbSeen, Stopping, Scan, Goto
<1>8. QueueWatched'
  BY <1>1, <1>2, TypedFields DEF Inv, QueueWatched, Stopping, Scan, Goto, Firmware
<1> QED
  BY <1>3, <1>4, <1>5, <1>6, <1>7, <1>8 DEF Inv

\* A position that is not adopted yet has rested for one round more.
LEMMA SwitchKeptKeeps == ASSUME Inv, SwitchKept PROVE Inv'
<1>1. TypeOK'
  BY LowPowerAssumption
     DEF Inv, TypeOK, SwitchKept, Goto, Firmware
<1>2. MatrixSeen'
  BY LowPowerAssumption
     DEF Inv, TypeOK, MatrixSeen, Stopping, SwitchKept, Goto, Firmware
<1>3. SwitchSeen'
  BY DEF Inv, TypeOK, SwitchSeen, SwitchKept, Goto, Firmware
<1>4. FrameSeen'
  BY DEF Inv, FrameSeen, Stopping, SwitchKept, Goto
<1>5. UsbSeen'
  BY DEF Inv, UsbSeen, Stopping, SwitchKept, Goto
<1>6. QueueWatched'
  BY DEF Inv, TypeOK, QueueWatched, Stopping, SwitchKept, Goto, Firmware
<1> QED
  BY <1>1, <1>2, <1>3, <1>4, <1>5, <1>6 DEF Inv

\* Adopting a wireless position restarts the timer.
LEMMA SwitchAdoptedKeeps == ASSUME Inv, SwitchAdopted PROVE Inv'
<1> DEFINE f == [fw EXCEPT !.wireless = wireless, !.rest = 0]
<1>1. 0 \in 0 .. SwitchTime + 1
  BY LowPowerAssumption
<1>2. f \in Firmware
  BY <1>1 DEF Inv, TypeOK, Firmware
<1>3. /\ f.wireless = wireless /\ f.rest = 0 /\ f.matrix = fw.matrix
      /\ f.connected = fw.connected /\ f.queue = fw.queue /\ f.age = fw.age
  BY DEF Inv
<1>4. fw' = IF wireless THEN lpm_timer_reset(f) ELSE lpm_timer_stop(f)
  BY DEF SwitchAdopted
<1> HIDE DEF f
<1>5. /\ fw' \in Firmware /\ fw'.wireless = wireless /\ fw'.matrix = fw.matrix
      /\ fw'.connected = fw.connected /\ fw'.queue = fw.queue /\ fw'.age = fw.age
      /\ wireless => fw'.idle = 0 /\ ~fw'.lpm_time_up
  BY <1>2, <1>3, <1>4, TimerReset, TimerStop
<1>6. /\ pc = "switch" /\ pc' = "frames" /\ late' = late \ {"switch"}
      /\ UNCHANGED <<down, usb, frame, wireless, changes>>
  BY DEF SwitchAdopted, Goto
<1>7. fw.age \in 0 .. ReportInterval /\ fw.queue \in Nat
  BY DEF Inv, TypeOK, Firmware
<1>8. TypeOK'
  BY <1>5, <1>6, <1>7 DEF Inv, TypeOK
<1>9. MatrixSeen'
  BY <1>5, <1>6, <1>7, LowPowerAssumption DEF Inv, MatrixSeen, Stopping
<1>10. SwitchSeen'
  BY <1>5, <1>6, <1>7 DEF Inv, SwitchSeen
<1>11. FrameSeen'
  BY <1>5, <1>6, <1>7 DEF Inv, FrameSeen, Stopping
<1>12. UsbSeen'
  BY <1>5, <1>6, <1>7 DEF Inv, UsbSeen, Stopping
<1>13. QueueWatched'
  BY <1>5, <1>6, <1>7 DEF Inv, QueueWatched, Stopping
<1> QED
  BY <1>8, <1>9, <1>10, <1>11, <1>12, <1>13 DEF Inv

\* Reading a frame clears its line; a lost connection empties the report buffer.
LEMMA FramesKeeps == ASSUME Inv, Frames PROVE Inv'
<1>1. fw \in Firmware
  BY DEF Inv, TypeOK
<1>2. fw' \in {fw, Connected(fw), Disconnected(fw)}
  BY DEF Frames
<1>3. fw' \in Firmware
  BY <1>1, <1>2, ConnectedFields, DisconnectedFields
<1>4. TypeOK'
  BY <1>1, <1>2, <1>3 DEF Inv, TypeOK, Frames
<1>5. MatrixSeen'
  BY <1>1, <1>2, <1>3, ConnectedFields, DisconnectedFields, LowPowerAssumption
     DEF Inv, MatrixSeen, Stopping, Frames
<1>6. SwitchSeen'
  BY <1>1, <1>2, <1>3, ConnectedFields, DisconnectedFields
     DEF Inv, SwitchSeen, Frames, Firmware
<1>7. FrameSeen'
  BY <1>1, <1>2, <1>3 DEF Inv, FrameSeen, Frames
<1>8. UsbSeen'
  BY <1>1, <1>2, <1>3 DEF Inv, UsbSeen, Stopping, Frames
<1>9. QueueWatched'
  BY <1>1, <1>2, <1>3, ConnectedFields, DisconnectedFields
     DEF Inv, QueueWatched, Stopping, Frames
<1> QED
  BY <1>4, <1>5, <1>6, <1>7, <1>8, <1>9 DEF Inv

\* report_buffer_task restarts the timer with every report, so that a buffer that is
\* not empty leaves it behind the wait for the next report.
LEMMA ReportsKeeps == ASSUME Inv, Reports PROVE Inv'
<1> DEFINE f == [fw EXCEPT !.queue = @ - 1, !.age = 0]
<1>1. 0 \in 0 .. ReportInterval /\ (Due(fw) => fw.queue - 1 \in Nat)
  BY LowPowerAssumption DEF Inv, TypeOK, Firmware, Due
<1>2. Due(fw) => f \in Firmware
  BY <1>1 DEF Inv, TypeOK, Firmware
<1>3. /\ f.wireless = fw.wireless /\ f.rest = fw.rest /\ f.matrix = fw.matrix
      /\ f.connected = fw.connected /\ f.queue = fw.queue - 1
  BY DEF Inv
<1>4. fw' = IF Due(fw) THEN lpm_timer_reset(f) ELSE fw
  BY DEF Reports
<1> HIDE DEF f
<1>5. /\ fw' \in Firmware /\ fw'.wireless = fw.wireless /\ fw'.matrix = fw.matrix
      /\ fw'.connected = fw.connected /\ fw'.rest = fw.rest
      /\ \/ fw' = fw /\ ~Due(fw)
         \/ Due(fw) /\ fw'.idle = 0 /\ ~fw'.lpm_time_up
  BY <1>2, <1>3, <1>4, TimerReset DEF Inv, TypeOK
<1>6. /\ pc = "reports" /\ pc' = "indicator"
      /\ UNCHANGED <<down, usb, frame, wireless, changes, late>>
  BY DEF Reports, Goto
<1>7. fw.age \in 0 .. ReportInterval /\ {fw.queue, fw.idle, fw.rest} \subseteq Nat
  BY DEF Inv, TypeOK, Firmware
<1>8. TypeOK'
  BY <1>5, <1>6, <1>7 DEF Inv, TypeOK, Due
<1>9. MatrixSeen'
  BY <1>5, <1>6, <1>7 DEF Inv, MatrixSeen, Stopping, Due
<1>10. SwitchSeen'
  BY <1>5, <1>6, <1>7 DEF Inv, SwitchSeen, Due
<1>11. FrameSeen'
  BY <1>5, <1>6, <1>7 DEF Inv, FrameSeen, Due
<1>12. UsbSeen'
  BY <1>5, <1>6, <1>7 DEF Inv, UsbSeen, Stopping, Due
<1>13. QueueWatched'
  BY <1>5, <1>6, <1>7, LowPowerAssumption DEF Inv, QueueWatched, Stopping, Due
<1> QED
  BY <1>8, <1>9, <1>10, <1>11, <1>12, <1>13 DEF Inv

\* An indication that goes on changes nothing.
LEMMA IndicatorOnKeeps == ASSUME Inv, IndicatorOn PROVE Inv'
<1>1. TypeOK'
  BY DEF Inv, TypeOK, IndicatorOn, Goto
<1>2. MatrixSeen'
  BY DEF Inv, MatrixSeen, Stopping, IndicatorOn, Goto
<1>3. SwitchSeen'
  BY DEF Inv, SwitchSeen, IndicatorOn, Goto
<1>4. FrameSeen'
  BY DEF Inv, FrameSeen, IndicatorOn, Goto
<1>5. UsbSeen'
  BY DEF Inv, UsbSeen, Stopping, IndicatorOn, Goto
<1>6. QueueWatched'
  BY DEF Inv, QueueWatched, Stopping, IndicatorOn, Goto
<1> QED
  BY <1>1, <1>2, <1>3, <1>4, <1>5, <1>6 DEF Inv

\* An indication that ends restarts the timer.
LEMMA IndicatorUpKeeps == ASSUME Inv, IndicatorUp PROVE Inv'
<1>1. [fw EXCEPT !.indicator = FALSE] \in Firmware
  BY DEF Inv, TypeOK, Firmware
<1>2. TypeOK'
  BY <1>1, TimerReset DEF Inv, TypeOK, IndicatorUp, Goto
<1>3. MatrixSeen'
  BY <1>1, TimerReset DEF Inv, MatrixSeen, Stopping, IndicatorUp, Goto, Firmware
<1>4. SwitchSeen'
  BY <1>1, TimerReset DEF Inv, SwitchSeen, IndicatorUp, Goto, Firmware
<1>5. FrameSeen'
  BY <1>1 DEF Inv, FrameSeen, IndicatorUp, Goto
<1>6. UsbSeen'
  BY <1>1 DEF Inv, UsbSeen, Stopping, IndicatorUp, Goto
<1>7. QueueWatched'
  BY <1>1, TimerReset DEF Inv, QueueWatched, Stopping, IndicatorUp, Goto, Firmware
<1> QED
  BY <1>2, <1>3, <1>4, <1>5, <1>6, <1>7 DEF Inv

\* A round that does not stop makes all timers one older.
LEMMA RunKeeps == ASSUME Inv, Run PROVE Inv'
<1>1. TimeUp(fw) \in Firmware /\ TimeUp(fw).idle = fw.idle /\ TimeUp(fw).age = fw.age
  BY DEF Inv, TypeOK, Firmware, TimeUp
<1>2. /\ Capped(fw.idle, RUN_MODE_PROCESS_TIME + 1) \in 0 .. RUN_MODE_PROCESS_TIME + 1
      /\ Capped(fw.age, ReportInterval) \in 0 .. ReportInterval
  BY LowPowerAssumption DEF Inv, TypeOK, Firmware, Capped
<1>3. fw' \in Firmware
  BY <1>1, <1>2 DEF Run, Firmware
<1>4. TypeOK'
  BY <1>3 DEF Inv, TypeOK, Goto, Run
<1>5. MatrixSeen'
  BY <1>3 DEF Inv, MatrixSeen, Stopping, Run, Goto, AllowsStop, TimeUp, Capped
<1>6. SwitchSeen'
  BY <1>3, LowPowerAssumption
     DEF Inv, TypeOK, SwitchSeen, Run, Goto, AllowsStop, TimeUp, Capped, Firmware
<1>7. FrameSeen'
  BY <1>3 DEF Inv, FrameSeen, Run, Goto, AllowsStop, TimeUp, Capped
<1>8. UsbSeen'
  BY <1>3 DEF Inv, UsbSeen, Stopping, Run, Goto, AllowsStop, TimeUp, Capped
<1>9. QueueWatched'
  BY <1>3, LowPowerAssumption
     DEF Inv, TypeOK, QueueWatched, Stopping, Run, Goto, AllowsStop, TimeUp, Capped, Firmware
<1> QED
  BY <1>4, <1>5, <1>6, <1>7, <1>8, <1>9 DEF Inv

\* lpm_task stops only when its timer has run out: the buffer is empty then, and a
\* switch in a new position is a late one.
LEMMA StopKeeps == ASSUME Inv, Stop PROVE Inv'
<1>1. TypeOK'
  BY DEF Inv, TypeOK, Stop, Goto, AllowsStop, TimeUp, lpm_any_matrix_action,
         Firmware
<1>2. MatrixSeen'
  BY LowPowerAssumption
     DEF Inv, MatrixSeen, Stop, Goto, AllowsStop, TimeUp, lpm_any_matrix_action
<1>3. SwitchSeen'
  BY LowPowerAssumption
     DEF Inv, TypeOK, SwitchSeen, Stop, Goto, AllowsStop, TimeUp,
         lpm_any_matrix_action, Firmware
<1>4. FrameSeen'
  BY DEF Inv, FrameSeen, Stop, Goto, AllowsStop, TimeUp, lpm_any_matrix_action
<1>5. UsbSeen'
  BY DEF Inv, UsbSeen, Stop, Goto, AllowsStop, TimeUp, lpm_any_matrix_action
<1>6. QueueWatched'
  BY LowPowerAssumption
     DEF Inv, TypeOK, QueueWatched, Stop, Goto, AllowsStop, TimeUp,
         lpm_any_matrix_action, Firmware
<1> QED
  BY <1>1, <1>2, <1>3, <1>4, <1>5, <1>6 DEF Inv

\* Enabling the interrupts looks at no line.
LEMMA ArmKeeps == ASSUME Inv, Arm PROVE Inv'
<1>1. TypeOK'
  BY DEF Inv, TypeOK, Arm, Goto
<1>2. MatrixSeen'
  BY DEF Inv, MatrixSeen, Stopping, Arm, Goto
<1>3. SwitchSeen'
  BY DEF Inv, SwitchSeen, Arm, Goto
<1>4. FrameSeen'
  BY DEF Inv, FrameSeen, Stopping, Arm, Goto
<1>5. UsbSeen'
  BY DEF Inv, UsbSeen, Stopping, Arm, Goto
<1>6. QueueWatched'
  BY DEF Inv, QueueWatched, Stopping, Arm, Goto
<1> QED
  BY <1>1, <1>2, <1>3, <1>4, <1>5, <1>6 DEF Inv

\* Nor does the wait for an interrupt.
LEMMA WFIKeeps == ASSUME Inv, WFI PROVE Inv'
<1>1. TypeOK'
  BY DEF Inv, TypeOK, WFI, Goto
<1>2. MatrixSeen'
  BY DEF Inv, MatrixSeen, Stopping, WFI, Goto
<1>3. SwitchSeen'
  BY DEF Inv, SwitchSeen, WFI, Goto
<1>4. FrameSeen'
  BY DEF Inv, FrameSeen, Stopping, WFI, Goto
<1>5. UsbSeen'
  BY DEF Inv, UsbSeen, Stopping, WFI, Goto
<1>6. QueueWatched'
  BY DEF Inv, QueueWatched, Stopping, WFI, Goto
<1> QED
  BY <1>1, <1>2, <1>3, <1>4, <1>5, <1>6 DEF Inv

\* Waking up restarts the timer and forgets the matrix.
LEMMA WakeKeeps == ASSUME Inv, Wake PROVE Inv'
<1> DEFINE f == [fw EXCEPT !.matrix = {}, !.queue = 0, !.power_mode = "RUN"]
<1>1. f \in Firmware
  BY DEF Inv, TypeOK, Firmware
<1>2. f.rest = fw.rest /\ f.wireless = fw.wireless /\ f.queue = 0
  BY DEF Inv
<1>3. fw' = lpm_timer_reset(f)
  BY DEF Wake
<1> HIDE DEF f
<1>4. /\ fw' \in Firmware /\ fw'.wireless = fw.wireless /\ fw'.rest \in Nat
      /\ fw'.idle = 0 /\ ~fw'.lpm_time_up /\ fw'.queue = 0
  BY <1>1, <1>2, <1>3, TimerReset DEF Inv, Firmware
<1>5. /\ pc = "woken" /\ pc' = "scan"
      /\ UNCHANGED <<down, usb, frame, wireless, changes, late>>
  BY DEF Wake, Goto
<1>6. TypeOK'
  BY <1>4, <1>5 DEF Inv, TypeOK
<1>7. MatrixSeen'
  BY <1>4, <1>5 DEF Inv, MatrixSeen, Stopping
<1>8. SwitchSeen'
  BY <1>4, <1>5 DEF Inv, SwitchSeen
<1>9. FrameSeen'
  BY <1>4, <1>5 DEF Inv, FrameSeen, Stopping
<1>10. UsbSeen'
  BY <1>4, <1>5 DEF Inv, UsbSeen, Stopping
<1>11. QueueWatched'
  BY <1>4, <1>5 DEF Inv, QueueWatched
<1> QED
  BY <1>6, <1>7, <1>8, <1>9, <1>10, <1>11 DEF Inv

\* The backlight is no activity.
LEMMA DimKeeps == ASSUME Inv, Dim PROVE Inv'
<1>1. TypeOK'
  BY DEF Inv, TypeOK, Dim, Firmware
<1>2. MatrixSeen'
  BY DEF Inv, MatrixSeen, Dim
<1>3. SwitchSeen'
  BY DEF Inv, SwitchSeen, Dim
<1>4. FrameSeen'
  BY DEF Inv, FrameSeen, Dim
<1>5. UsbSeen'
  BY DEF Inv, UsbSeen, Dim
<1>6. QueueWatched'
  BY DEF Inv, QueueWatched, Dim
<1> QED
  BY <1>1, <1>2, <1>3, <1>4, <1>5, <1>6 DEF Inv

\* USB power that changes is late, or ends the stop.
LEMMA PlugKeeps == ASSUME Inv, Plug PROVE Inv'
<1>1. TypeOK'
  BY DEF Inv, TypeOK, Plug, Change
<1>2. MatrixSeen'
  BY DEF Inv, MatrixSeen, Stopping, Plug, Change
<1>3. SwitchSeen'
  BY DEF Inv, SwitchSeen, Plug, Change
<1>4. FrameSeen'
  BY DEF Inv, FrameSeen, Stopping, Plug, Change
<1>5. UsbSeen'
  BY DEF Inv, UsbSeen, Stopping, Plug, Change
<1>6. QueueWatched'
  BY DEF Inv, QueueWatched, Stopping, Plug, Change
<1> QED
  BY <1>1, <1>2, <1>3, <1>4, <1>5, <1>6 DEF Inv

\* So is the mode switch.
LEMMA MoveKeeps == ASSUME Inv, Move PROVE Inv'
<1>1. TypeOK'
  BY DEF Inv, TypeOK, Move, Change
<1>2. MatrixSeen'
  BY DEF Inv, MatrixSeen, Stopping, Move, Change
<1>3. SwitchSeen'
  BY DEF Inv, SwitchSeen, Move, Change
<1>4. FrameSeen'
  BY DEF Inv, FrameSeen, Stopping, Move, Change
<1>5. UsbSeen'
  BY DEF Inv, UsbSeen, Stopping, Move, Change
<1>6. QueueWatched'
  BY DEF Inv, QueueWatched, Stopping, Move, Change
<1> QED
  BY <1>1, <1>2, <1>3, <1>4, <1>5, <1>6 DEF Inv

\* So is a frame of the module.
LEMMA FrameKeeps == ASSUME Inv, Frame PROVE Inv'
<1>1. TypeOK'
  BY DEF Inv, TypeOK, Frame, Change
<1>2. MatrixSeen'
  BY DEF Inv, MatrixSeen, Stopping, Frame, Change
<1>3. SwitchSeen'
  BY DEF Inv, SwitchSeen, Frame, Change
<1>4. FrameSeen'
  BY DEF Inv, FrameSeen, Stopping, Frame, Change
<1>5. UsbSeen'
  BY DEF Inv, UsbSeen, Stopping, Frame, Change
<1>6. QueueWatched'
  BY DEF Inv, QueueWatched, Stopping, Frame, Change
<1> QED
  BY <1>1, <1>2, <1>3, <1>4, <1>5, <1>6 DEF Inv

\* A key pressed during the stop gives no edge when another key holds its row, and
\* that key is a late one.
LEMMA PressKeeps == ASSUME Inv, NEW k \in Keys, Press(k) PROVE Inv'
<1>1. TypeOK'
  BY LowPowerAssumption DEF Inv, TypeOK, Press, Change, LowRows
<1>2. MatrixSeen'
  BY DEF Inv, TypeOK, MatrixSeen, Stopping, Press, Change, LowRows
<1>3. SwitchSeen'
  BY DEF Inv, SwitchSeen, Press, Change, LowRows
<1>4. FrameSeen'
  BY DEF Inv, FrameSeen, Stopping, Press, Change, LowRows
<1>5. UsbSeen'
  BY DEF Inv, UsbSeen, Stopping, Press, Change, LowRows
<1>6. QueueWatched'
  BY DEF Inv, QueueWatched, Stopping, Press, Change, LowRows
<1> QED
  BY <1>1, <1>2, <1>3, <1>4, <1>5, <1>6 DEF Inv

\* A key released during the stop was no key of the matrix.
LEMMA ReleaseKeeps == ASSUME Inv, NEW k \in Keys, Release(k) PROVE Inv'
<1>1. TypeOK'
  BY LowPowerAssumption DEF Inv, TypeOK, Release, Change, LowRows
<1>2. MatrixSeen'
  BY DEF Inv, MatrixSeen, Stopping, Release, Change, LowRows
<1>3. SwitchSeen'
  BY DEF Inv, SwitchSeen, Release, Change, LowRows
<1>4. FrameSeen'
  BY DEF Inv, FrameSeen, Stopping, Release, Change, LowRows
<1>5. UsbSeen'
  BY DEF Inv, UsbSeen, Stopping, Release, Change, LowRows
<1>6. QueueWatched'
  BY DEF Inv, QueueWatched, Stopping, Release, Change, LowRows
<1> QED
  BY <1>1, <1>2, <1>3, <1>4, <1>5, <1>6 DEF Inv

-----------------------------------------------------------------------------
\* The keyboard starts with all keys up and the buffer empty.
LEMMA InitInv == Init => Inv
<1> SUFFICES ASSUME Init PROVE Inv
  OBVIOUS
<1>1. /\ 0 \in 0 .. SwitchTime + 1 /\ 0 \in 0 .. RUN_MODE_PROCESS_TIME + 1
      /\ ReportInterval \in 0 .. ReportInterval
  BY LowPowerAssumption
<1>2. fw \in Firmware
  BY <1>1 DEF Init, Firmware
<1>3. TypeOK
  BY <1>2 DEF Init, TypeOK
<1>4. MatrixSeen /\ SwitchSeen /\ FrameSeen /\ UsbSeen /\ QueueWatched
  BY DEF Init, MatrixSeen, SwitchSeen, FrameSeen, UsbSeen, QueueWatched, Stopping
<1> QED
  BY <1>3, <1>4 DEF Inv

\* Every step keeps the invariant.
LEMMA NextInv == Inv /\ [Next]_vars => Inv'
<1> SUFFICES ASSUME Inv, [Next]_vars PROVE Inv'
  OBVIOUS
<1>1. CASE Loop
  BY <1>1, ScanKeeps, SwitchKeptKeeps, SwitchAdoptedKeeps, FramesKeeps, ReportsKeeps,
     IndicatorOnKeeps, IndicatorUpKeeps, RunKeeps, StopKeeps, ArmKeeps, WFIKeeps, WakeKeeps
     DEF Loop
<1>2. CASE \E k \in Keys : Press(k) \/ Release(k)
  BY <1>2, PressKeeps, ReleaseKeeps
<1>3. CASE Dim \/ Plug \/ Move \/ Frame
  BY <1>3, DimKeeps, PlugKeeps, MoveKeeps, FrameKeeps
<1>4. CASE UNCHANGED vars
  BY <1>4 DEF vars, Inv, TypeOK, MatrixSeen, SwitchSeen, FrameSeen, UsbSeen, QueueWatched
<1> QED
  BY <1>1, <1>2, <1>3, <1>4 DEF Next

\* The inductive invariant holds in every behaviour of the keyboard.
THEOREM Invariance == Spec => []Inv
BY InitInv, NextInv, PTL DEF Spec

\* However the lines change around lpm_task, a line whose level the stopped MCU
\* does not know, or that holds a row low, changed after the firmware's last look
\* at it.
THEOREM StopMissesNothing == Spec => []NothingMissed
<1>1. Inv => NothingMissed
  <2> SUFFICES ASSUME Inv, pc = "stopped", NEW line \in Unseen \cup LowRows(down)
               PROVE  line \in late
    BY DEF NothingMissed
  <2>1. CASE line \in LowRows(down) \/ line \in LowRows(down \ fw.matrix)
    <3>1. PICK k \in down : line = Row[k]
      BY <2>1 DEF LowRows
    <3>2. k \in Keys /\ k \notin fw.matrix
      BY DEF Inv, TypeOK, MatrixSeen, Stopping
    <3> QED
      BY <3>1, <3>2 DEF Inv, MatrixSeen
  <2>2. CASE line \in IF usb THEN {"usb"} ELSE {}
    BY <2>2 DEF Inv, UsbSeen, Stopping
  <2>3. CASE line \in IF frame THEN {"module"} ELSE {}
    BY <2>3 DEF Inv, FrameSeen, Stopping
  <2>4. CASE line \in IF wireless # fw.wireless THEN {"switch"} ELSE {}
    BY <2>4 DEF Inv, SwitchSeen
  <2> QED
    BY <2>1, <2>2, <2>3, <2>4 DEF Unseen
<1> QED
  BY <1>1, Invariance, PTL

\* The report buffer, which lpm_wakeup clears, is empty whenever the MCU stops,
\* for every report interval up to RUN_MODE_PROCESS_TIME and macros of any length.
THEOREM StopIsDrained == Spec => []StopsDrained
<1>1. Inv => StopsDrained
  BY DEF Inv, QueueWatched, StopsDrained, Stopping
<1> QED
  BY <1>1, Invariance, PTL
=============================================================================
