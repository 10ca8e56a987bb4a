------------------------------ MODULE Wireless ------------------------------
(***************************************************************************)
(* The wireless stack of the keyboard in Bluetooth mode: the connection    *)
(* state machine and the send functions of wireless.c, the report buffer,  *)
(* the event and acknowledgement handling of lkbt51.c, the host keys of    *)
(* keychron_wireless_common.c and the low-battery shutdown.                *)
(*                                                                         *)
(* Two actors interleave: the firmware's main loop and the LKBT51 radio    *)
(* module at the other end of the SPI bus.  The firmware is one thread, so *)
(* each of its functions is an operator on the record w of its static      *)
(* variables, and a handler that calls other functions composes them.  pc  *)
(* is the place in the main loop: key processing ("scan"), the event loop  *)
(* followed by report_buffer_task ("events"), keychron_wireless_common_    *)
(* task ("common"), battery_task ("battery").  "pump" is the 50 ms wait of *)
(* bt_transport_enable, after which the loop goes on with the transport    *)
(* task ("transport").                                                     *)
(*                                                                         *)
(* The radio module is not part of the repository.  Its model (radio) is   *)
(* what the driver's code relies on: it obeys commands in order, reports   *)
(* its connection state in frames, and answers a report with a code.       *)
(***************************************************************************)
EXTENDS ReportBuffer, EventQueue, FiniteSets

CONSTANTS
    Hosts,          \* host indices the module is paired with (BT_HST1..3)
    LedStates,      \* values of the host's LED byte
    RawIntervals,   \* connection interval bytes the module may report
    FifoHalfDelay,  \* 5: added to the interval by ACK_FIFO_HALF_WARNING
    FifoFullDelay,  \* 10: added to the interval by ACK_FIFO_FULL_ERROR
    LoopTimes,      \* milliseconds one round of the main loop may take
    ParamWait,      \* 3: milliseconds lkbt51_param_init waits
    SendTypes,      \* kinds of reports the keys of this instance produce
    EepromNkro,     \* the NKRO flag stored in the EEPROM
    Lossy,          \* reports and answers may get lost
    EventsRepeat,   \* acks of connection events may get lost, which repeats them
    PromptAcks,     \* the module answers within the millisecond
    BatteryFails,   \* the battery may become critically low
    ClockWraps,     \* the 32-bit millisecond clock may wrap
    MaxReports,     \* bound: the number of the last report produced by keys
    Budgets,        \* bounds: reports produced by keys, and events, the things
                    \* the module and the host keys start; Init chooses one
    MaxLink         \* bound: packets the module leaves unread on the bus

LastHost == 30  \* "the last used host", the index bt_transport_enable uses

ASSUME HostsAssumption == Hosts # {} /\ Hosts \subseteq 1 .. 29
ASSUME DomainAssumption ==
    /\ LedStates \subseteq Nat
    /\ RawIntervals \subseteq 0 .. 255
    /\ LoopTimes \subseteq Nat
    /\ FifoHalfDelay \in Nat /\ FifoFullDelay \in Nat /\ ParamWait \in Nat
    /\ EepromNkro \in BOOLEAN
    /\ SendTypes \subseteq {"KEYS", "CONSUMER", "SYSTEM", "MOUSE"}
ASSUME BoundAssumption ==
    /\ MaxReports \in Nat /\ MaxLink \in Nat
    /\ Budgets \subseteq [reports : 0 .. MaxReports, events : Nat]

VARIABLES
    pc,     \* place in the main loop
    w,      \* the firmware's static variables
    radio,  \* the radio module
    host    \* what the hosts have received (history)

vars == <<pc, w, radio, host>>

States == {"RESET", "INITIALIZED", "DISCONNECTED", "CONNECTED", "PARING",
           "RECONNECTING", "SUSPEND"}

\* Packets on the bus.  Packets that are never answered and change nothing
\* in the module (mouse reports, battery level, event acks) are left out.
Packet == [cmd : {"REPORT"}, rpt : Report]
     \cup [cmd : {"CONNECT", "PAIRING"}, host : Nat]
     \cup [cmd : {"DISCONNECT", "PARAM"}]

\* A register frame of the module; -1 stands for a cleared event mask bit.
Frame == [reset : BOOLEAN, conn : ConnectionEvents \cup {"NONE", "UNKNOWN"},
          host : Nat, led : Nat \cup {-1}, raw : (0 .. 255) \cup {-1}]
NoFrame == [reset |-> FALSE, conn |-> "NONE", host |-> 0, led |-> -1, raw |-> -1]

AckCodes == {"SUCCESS", "CHECKSUM_ERROR", "FIFO_HALF_WARNING", "FIFO_FULL_ERROR"}

-----------------------------------------------------------------------------
(***************************************************************************)
(* Time.  uptime is timer_read32() as far as the code tells values apart:  *)
(* 0, 1, 2, 3 for 3..999 and 4 for 1000 and more.                          *)
(***************************************************************************)
Later(uptime, dt) ==
    IF dt = 0 THEN {uptime}
    ELSE IF uptime + dt < 3 THEN {uptime + dt}
    ELSE IF uptime < 4 THEN {3, 4} ELSE {4}

Soonest(uptime, dt) ==
    IF uptime >= 3 THEN uptime ELSE IF uptime + dt < 3 THEN uptime + dt ELSE 3

AfterTime(s, dt, up) == [s EXCEPT !.rb = Elapse(@, dt), !.uptime = up]

-----------------------------------------------------------------------------
(***************************************************************************)
(* Radio commands and connection requests.                                 *)
(***************************************************************************)
Transmit(s, pkt) == [s EXCEPT !.link = Append(@, pkt)]
ReportPacket(r) == [cmd |-> "REPORT", rpt |-> r]

wireless_connect(s) ==
    IF s.critical_low \/ s.uptime = 0
    THEN s
    ELSE [Transmit(s, [cmd |-> "CONNECT", host |-> 0])
             EXCEPT !.state = "RECONNECTING"]

RequestConnection(s, h) ==
    [Transmit(s, [cmd |-> "CONNECT", host |-> h])
        EXCEPT !.state = "RECONNECTING",
               !.host_index = IF h # 0 THEN h ELSE @,
               !.led_state = IF h # 0 THEN 0 ELSE @]

ConnectedTo(s, h) == h # 0 /\ s.host_index = h /\ s.state = "CONNECTED"

\* Mutants: one of the two early returns is missing.
connect_ex_when_connected(s, h) ==
    IF s.critical_low THEN s ELSE RequestConnection(s, h)
connect_ex_when_critical(s, h) ==
    IF ConnectedTo(s, h) THEN s ELSE RequestConnection(s, h)

wireless_connect_ex(s, h) ==
    IF s.critical_low \/ ConnectedTo(s, h) THEN s ELSE RequestConnection(s, h)

wireless_pairing_ex(s, h) ==
    IF s.critical_low
    THEN s
    ELSE [Transmit(s, [cmd |-> "PAIRING", host |-> h])
             EXCEPT !.state = "PARING", !.host_index = h]

wireless_disconnect(s) == Transmit(s, [cmd |-> "DISCONNECT"])

\* The device name and the parameters, with a wait in between.
lkbt51_param_init(s) ==
    AfterTime(Transmit(s, [cmd |-> "PARAM"]), ParamWait, Soonest(s.uptime, ParamWait))

(***************************************************************************)
(* Sending reports.  owed (history) holds the numbers of the reports the   *)
(* buffer accepted and has neither delivered nor given up: giving up is    *)
(* running out of retries, fetching in the first 2 ms of the clock, or an  *)
(* initialisation of the buffer.  sends (history) counts the transmissions *)
(* of kb_rpt.  burst (history) counts the reports handed to the buffer     *)
(* since it last was idle, and dropped is the place in its burst of the    *)
(* last report a full ring refused.                                        *)
(***************************************************************************)
InitBuffer(s) == [s EXCEPT !.rb = report_buffer_init(@), !.owed = {}]

GivenUp(b, connected, uptime) ==
    IF ~Pending(b, connected) THEN {}
    ELSE IF Transmits(b, connected, uptime)
         THEN IF b.retry = 1 THEN {b.kb_rpt.id} ELSE {}
         ELSE IF b.retry = 0 THEN {Head(b.queue).id} ELSE {}

ReportTask(s) ==
    LET up == s.state = "CONNECTED"
        b == report_buffer_task(s.rb, up, s.uptime)
        t == [s EXCEPT !.rb = b, !.owed = @ \ GivenUp(s.rb, up, s.uptime)]
    IN  IF Transmits(s.rb, up, s.uptime)
        THEN [t EXCEPT !.link = Append(@, ReportPacket(b.kb_rpt)),
                       !.sends = IF s.rb.retry = 0 THEN 1 ELSE @ + 1]
        ELSE t

EnqueueReport(s, r) ==
    LET n == IF report_buffer_is_empty(s.rb) /\ s.rb.retry = 0 THEN 1 ELSE s.burst + 1
    IN  [s EXCEPT !.rb = report_buffer_enqueue(@, r),
                  !.owed = IF IsFull(s.rb) THEN @ ELSE @ \cup {r.id},
                  !.burst = n,
                  !.dropped = IF IsFull(s.rb) THEN n ELSE @]

\* What a send function does when there is no connection to send over.
ReconnectFirst(s) == IF s.state = "RESET" THEN s ELSE wireless_connect(s)

\* Mutant: no battery check.
send_keyboard_when_critical(s, r) ==
    IF s.state = "CONNECTED" THEN EnqueueReport(s, r) ELSE ReconnectFirst(s)

\* wireless_send_nkro is the same function for the other report type.
wireless_send_keyboard(s, r) ==
    IF s.critical_low \/ (s.state = "PARING" /\ ~s.pincodeEntry)
    THEN s
    ELSE IF s.state \in {"CONNECTED", "PARING"}
         THEN IF report_buffer_is_empty(s.rb)
              THEN ReportTask(EnqueueReport(s, r))
              ELSE EnqueueReport(s, r)
         ELSE ReconnectFirst(s)

wireless_send_mouse(s) ==
    IF s.critical_low \/ s.state = "CONNECTED" THEN s ELSE ReconnectFirst(s)

\* lkbt51_send_system sends nothing for usage 0, the release of the key.
wireless_send_system(s, r, pressed) ==
    IF s.state # "CONNECTED" THEN ReconnectFirst(s)
    ELSE IF pressed THEN Transmit(s, ReportPacket(r)) ELSE s

\* The report goes straight to the module when the ring is empty, whether or
\* not another report is still waiting for its answer.
wireless_send_consumer(s, r) ==
    IF s.state # "CONNECTED" THEN ReconnectFirst(s)
    ELSE IF report_buffer_is_empty(s.rb) /\ report_buffer_next_inverval(s.rb)
         THEN [Transmit(s, ReportPacket(r))
                  EXCEPT !.rb = report_buffer_update_timer(@)]
         ELSE EnqueueReport(s, r)

wireless_send_extra(s, r, pressed) ==
    IF s.critical_low THEN s
    ELSE IF r.type = "SYSTEM" THEN wireless_send_system(s, r, pressed)
                              ELSE wireless_send_consumer(s, r)

(***************************************************************************)
(* QMK's side of a report: it is sent only when it differs from the last   *)
(* one of its type.  down[t] says whether the last one was non-empty.      *)
(***************************************************************************)
KeyboardType(s) == IF s.nkro THEN "NKRO" ELSE "KB"

\* The next report of type t, with its number taken.
NewReport(s, t) == [type |-> t, id |-> s.next, dst |-> s.host_index]
Produce(s, t, pressed) ==
    [s EXCEPT !.down = [@ EXCEPT ![t] = pressed], !.next = @ + 1]

send_keyboard_report(s, pressed) ==
    LET t == KeyboardType(s)
    IN  IF ~s.down[t] /\ ~pressed THEN s
        ELSE wireless_send_keyboard(Produce(s, t, pressed), NewReport(s, t))

host_extra_send(s, t, pressed) ==
    IF ~s.down[t] /\ ~pressed THEN s
    ELSE wireless_send_extra(Produce(s, t, pressed), NewReport(s, t), pressed)

\* clear_keyboard ends with an empty mouse report.
clear_keyboard(s) ==
    wireless_send_mouse(
        send_keyboard_report(
            host_extra_send(host_extra_send(s, "SYSTEM", FALSE), "CONSUMER", FALSE),
            FALSE))

-----------------------------------------------------------------------------
(***************************************************************************)
(* The event handlers of wireless_event_task.  The indicator and LED calls *)
(* they make belong to the indicator component.                            *)
(***************************************************************************)
\* Mutant: the parameters are not sent again.
enter_reset_only(s) == [s EXCEPT !.state = "RESET"]

wireless_enter_reset(s) == lkbt51_param_init([s EXCEPT !.state = "RESET"])

wireless_enter_discoverable(s, h) ==
    [s EXCEPT !.host_index = h, !.state = "PARING"]

wireless_enter_reconnecting(s, h) ==
    [s EXCEPT !.host_index = h, !.state = "RECONNECTING"]

wireless_enter_connected(s, h) ==
    clear_keyboard([s EXCEPT !.state = "CONNECTED", !.host_index = h])

\* uptime < 4 stands for timer_read32() < 1000.
wireless_enter_disconnected_kb(s) ==
    IF s.firstDisconnect /\ s.uptime < 4
    THEN [wireless_connect(lkbt51_param_init(s)) EXCEPT !.firstDisconnect = FALSE]
    ELSE s

\* Mutants: the buffer is not emptied; the LEDs are left on.
enter_disconnected_keeping_reports(s) ==
    wireless_enter_disconnected_kb([s EXCEPT !.led_state = 0, !.state = "DISCONNECTED"])
enter_disconnected_keeping_leds(s) ==
    wireless_enter_disconnected_kb(InitBuffer([s EXCEPT !.state = "DISCONNECTED"]))

wireless_enter_disconnected(s) ==
    wireless_enter_disconnected_kb(
        InitBuffer([s EXCEPT !.led_state = 0, !.state = "DISCONNECTED"]))

wireless_enter_bluetooth_pin_code_entry(s) ==
    [s EXCEPT !.nkro = FALSE, !.pincodeEntry = TRUE]

wireless_exit_bluetooth_pin_code_entry(s) ==
    [s EXCEPT !.nkro = EepromNkro, !.pincodeEntry = FALSE]

wireless_enter_sleep(s) ==
    [s EXCEPT !.led_state = 0,
              !.state = IF @ = "PARING" THEN "SUSPEND" ELSE @]

HandleEvent(s, e) ==
    CASE e.type = "RESET" -> wireless_enter_reset(s)
      [] e.type = "CONNECTED" -> wireless_enter_connected(s, e.param)
      [] e.type = "DISCOVERABLE" -> wireless_enter_discoverable(s, e.param)
      [] e.type = "RECONNECTING" -> wireless_enter_reconnecting(s, e.param)
      [] e.type = "DISCONNECTED" -> wireless_enter_disconnected(s)
      [] e.type = "BT_PINCODE_ENTRY" -> wireless_enter_bluetooth_pin_code_entry(s)
      [] e.type = "EXIT_BT_PINCODE_ENTRY" -> wireless_exit_bluetooth_pin_code_entry(s)
      [] e.type = "SLEEP" -> wireless_enter_sleep(s)
      [] e.type = "HID_INDICATOR" -> [s EXCEPT !.led_state = e.param]
      [] e.type = "CONECTION_INTERVAL" ->
             [s EXCEPT !.rb = report_buffer_set_inverval(@, e.param)]
      [] OTHER -> s

wireless_low_battery_shutdown(s) ==
    LET c == clear_keyboard(InitBuffer(s))
        empty == NewReport(c, KeyboardType(c))
        zero == [NewReport(c, "CONSUMER") EXCEPT !.id = @ + 1]
    IN  wireless_disconnect(
            Transmit(Transmit([c EXCEPT !.next = @ + 2], ReportPacket(empty)),
                     ReportPacket(zero)))

-----------------------------------------------------------------------------
(***************************************************************************)
(* lkbt51_task: the event mask bits of a frame become events, in this      *)
(* order, and an acknowledgement that came with it goes to ack_handler.    *)
(***************************************************************************)
ConnectionInterval(raw) ==
    LET us == (raw % 128) * (IF raw >= 128 THEN 1250 ELSE 125)
        ms == us \div 1000
    IN  IF ms > 7 THEN ms \div 3 ELSE ms

\* Every interval the buffer is given expires before its timer's cap.
ASSUME IntervalAssumption ==
    \A ms \in {1} \cup {ConnectionInterval(raw) : raw \in RawIntervals},
       delay \in {0, FifoHalfDelay, FifoFullDelay} : ms + delay < AgeCap

\* A frame with an unknown state code posts whatever event is left over from
\* the reset bit.
ConnectionEvent(f) ==
    [type |-> IF f.conn # "UNKNOWN" THEN f.conn
              ELSE IF f.reset THEN "RESET" ELSE "NONE",
     param |-> f.host]

Post(q, set, type, param) ==
    IF set THEN wireless_event_enqueue(q, [type |-> type, param |-> param]) ELSE q

ReadFrame(s, f) ==
    LET ms == IF f.raw # -1 THEN ConnectionInterval(f.raw) ELSE s.connection_interval
        q1 == Post(s.evq, f.reset, "RESET", 0)
        q2 == Post(q1, f.conn # "NONE", ConnectionEvent(f).type, f.host)
        q3 == Post(q2, f.led # -1, "HID_INDICATOR", f.led)
        q4 == Post(q3, f.raw # -1, "CONECTION_INTERVAL", ms)
    IN  [s EXCEPT !.evq = q4, !.connection_interval = ms]

\* Mutant: every answer ends the retries.
ack_always_ends_retry(s, code) ==
    [s EXCEPT !.rb = report_buffer_set_retry(@, 0)]

\* The answer is applied to the report in flight, whichever report it answers.
ack_handler(s, code) ==
    LET ci == s.connection_interval
        b == s.rb
    IN  CASE code = "SUCCESS" ->
               [s EXCEPT !.rb = report_buffer_set_inverval(
                                    report_buffer_set_retry(b, 0), ci)]
          [] code = "FIFO_HALF_WARNING" ->
               [s EXCEPT !.rb = report_buffer_set_inverval(
                                    report_buffer_set_retry(b, 0), ci + FifoHalfDelay)]
          [] code = "FIFO_FULL_ERROR" ->
               [s EXCEPT !.rb = report_buffer_set_inverval(b, ci + FifoFullDelay)]
          [] OTHER -> s

\* One read of the module: the frame and the acknowledgement it holds, if any.
lkbt51_task(s, m) ==
    LET t == IF m.out = <<>> THEN s ELSE ReadFrame(s, Head(m.out))
    IN  IF m.acks = <<>> THEN t ELSE ack_handler(t, Head(m.acks))

\* What the read takes from the module.  A connection event whose ack gets
\* lost is reported again.
Rest(seq) == IF seq = <<>> THEN <<>> ELSE Tail(seq)
AfterRead(m, repeat) ==
    [m EXCEPT !.acks = Rest(@), !.out = IF repeat THEN @ ELSE Rest(@)]
MayRepeat(m) == /\ EventsRepeat /\ m.out # <<>> /\ m.budget > 0
                /\ Head(m.out).conn # "NONE"

-----------------------------------------------------------------------------
\* With PromptAcks, a report is answered and its answer read within the
\* millisecond, before the next transmission can be due.
MayElapse(dt) ==
    dt > 0 => /\ Len(w.link) <= MaxLink
              /\ PromptAcks => /\ radio.acks = <<>>
                               /\ \A i \in 1 .. Len(w.link) :
                                     w.link[i].cmd # "REPORT"

-----------------------------------------------------------------------------
(***************************************************************************)
(* The main loop.                                                          *)
(***************************************************************************)
Fresh(s) == s.next <= MaxReports

\* Keys pressed and released change the keyboard report.
KeyEvent ==
    /\ pc = "scan" /\ "KEYS" \in SendTypes /\ Fresh(w)
    /\ \E pressed \in BOOLEAN :
          /\ w.down[KeyboardType(w)] \/ pressed
          /\ w' = send_keyboard_report(w, pressed)
    /\ UNCHANGED <<pc, radio, host>>

ExtraKeyEvent ==
    /\ pc = "scan" /\ Fresh(w)
    /\ \E t \in SendTypes \cap {"CONSUMER", "SYSTEM"}, pressed \in BOOLEAN :
          /\ w.down[t] # pressed
          /\ w' = host_extra_send(w, t, pressed)
    /\ UNCHANGED <<pc, radio, host>>

MouseEvent ==
    /\ pc = "scan" /\ "MOUSE" \in SendTypes /\ radio.budget > 0
    /\ w' = wireless_send_mouse(w)
    /\ radio' = [radio EXCEPT !.budget = @ - 1]
    /\ UNCHANGED <<pc, host>>

\* BT_HST1..3 pressed and released (process_record_keychron_wireless).
HostKeyPress ==
    /\ pc = "scan" /\ radio.budget > 0
    /\ \E h \in Hosts :
          w' = wireless_connect_ex([w EXCEPT !.pairing_key = TRUE], h)
    /\ radio' = [radio EXCEPT !.budget = @ - 1]
    /\ UNCHANGED <<pc, host>>

HostKeyRelease ==
    /\ pc = "scan" /\ w.pairing_key
    /\ w' = [w EXCEPT !.pairing_key = FALSE]
    /\ UNCHANGED <<pc, radio, host>>

\* send_string calls this between the characters of a macro, after waiting:
\* it reads the module and serves the report buffer, but handles no event.
SendStringTask ==
    /\ pc = "scan" /\ "KEYS" \in SendTypes /\ w.state = "CONNECTED"
    /\ \E dt \in LoopTimes : \E up \in Later(w.uptime, dt) :
          /\ MayElapse(dt)
          /\ w' = ReportTask(lkbt51_task(AfterTime(w, dt, up), radio))
    /\ radio' = AfterRead(radio, FALSE)
    /\ UNCHANGED <<pc, host>>

\* wireless_transport.task(), in the main loop and in bt_transport_enable.
TransportTask ==
    /\ pc \in {"scan", "transport", "pump"}
    /\ pc = "pump" => radio.out # <<>> \/ radio.acks # <<>>
    /\ pc' = IF pc = "pump" THEN "pump" ELSE "events"
    /\ w' = lkbt51_task(w, radio)
    /\ \E repeat \in {FALSE} \cup (IF MayRepeat(radio) THEN {TRUE} ELSE {}) :
          radio' = [AfterRead(radio, repeat)
                       EXCEPT !.budget = IF repeat THEN @ - 1 ELSE @]
    /\ UNCHANGED host

\* The end of bt_transport_enable, 50 ms later.
EnableTransport ==
    /\ pc = "pump"
    /\ pc' = "transport"
    /\ w' = AfterTime(wireless_connect_ex(w, LastHost), AgeCap, 3)
    /\ UNCHANGED <<radio, host>>

EventStep ==
    /\ pc = "events" /\ ~NoEvents(w.evq)
    /\ w' = HandleEvent([w EXCEPT !.evq = Tail(@)], Head(w.evq))
    /\ UNCHANGED <<pc, radio, host>>

ReportStep ==
    /\ pc = "events" /\ NoEvents(w.evq)
    /\ pc' = "common"
    /\ w' = ReportTask(w)
    /\ UNCHANGED <<radio, host>>

\* keychron_wireless_common_task: a host key held for 2 seconds starts
\* pairing.  The host index it passes is the file's own host_idx, always 0.
CommonTask ==
    /\ pc = "common"
    /\ pc' = "battery"
    /\ \/ UNCHANGED w
       \/ /\ w.pairing_key
          /\ w' = wireless_pairing_ex([w EXCEPT !.pairing_key = FALSE], 0)
    /\ UNCHANGED <<radio, host>>

\* battery_task: the battery is found critically low, or USB power is back.  It
\* is measured in every connection state, because of the power-on samples.  The
\* shutdown waits for the module, long enough for every timer to expire.
BatteryTask ==
    /\ pc = "battery" /\ BatteryFails
    /\ pc' = "scan"
    /\ \/ /\ ~w.critical_low /\ w.next <= MaxReports
          /\ \E up \in Later(w.uptime, AgeCap) :
                w' = AfterTime(wireless_low_battery_shutdown(
                                   [w EXCEPT !.critical_low = TRUE]), AgeCap, up)
       \/ /\ w.critical_low
          /\ w' = [w EXCEPT !.critical_low = FALSE]
    /\ UNCHANGED <<radio, host>>

\* The round ends; it took dt milliseconds.
LoopEnd ==
    /\ pc = "battery"
    /\ pc' = "scan"
    /\ \E dt \in LoopTimes : \E up \in Later(w.uptime, dt) :
          /\ MayElapse(dt)
          /\ w' = AfterTime(w, dt, up)
    /\ UNCHANGED <<radio, host>>

\* After 2^32 ms the clock starts again from 0.
ClockWrap ==
    /\ ClockWraps /\ pc = "scan" /\ w.uptime = 4 /\ radio.budget > 0
    /\ w' = [w EXCEPT !.uptime = 0]
    /\ radio' = [radio EXCEPT !.budget = @ - 1]
    /\ UNCHANGED <<pc, host>>

-----------------------------------------------------------------------------
(***************************************************************************)
(* The radio module (external).  It takes packets in order; a radio link   *)
(* takes longer to come up than the firmware takes to hand over its        *)
(* packets and to read and handle the module's frames, macros included.    *)
(***************************************************************************)
Say(conn, h) == [NoFrame EXCEPT !.conn = conn, !.host = h]
\* A module that gives up its link says so first.
LinkDown(m) == IF m.mode = "up" THEN <<Say("DISCONNECTED", m.target)>> ELSE <<>>

RadioConnect(m, h) ==
    LET t == IF h \in Hosts THEN h ELSE m.target
    IN  IF m.mode = "up" /\ t = m.target THEN m
        ELSE [m EXCEPT !.mode = "linking", !.target = t, !.leds = 0,
                       !.out = @ \o LinkDown(m) \o <<Say("RECONNECTING", t)>>]

RadioPairing(m, h) ==
    LET t == IF h \in Hosts THEN h ELSE m.target
    IN  [m EXCEPT !.mode = "pairing", !.target = t, !.leds = 0,
                  !.out = @ \o LinkDown(m) \o <<Say("DISCOVERABLE", t)>>]

RadioDisconnect(m) ==
    [m EXCEPT !.mode = "idle", !.leds = 0,
              !.out = IF m.mode = "idle" THEN @
                      ELSE Append(@, Say("DISCONNECTED", m.target))]

RadioParam(m) == [m EXCEPT !.configured = TRUE]

RadioCommand ==
    /\ w.link # <<>> /\ Head(w.link).cmd # "REPORT"
    /\ LET p == Head(w.link)
       IN  radio' = CASE p.cmd = "CONNECT" -> RadioConnect(radio, p.host)
                      [] p.cmd = "PAIRING" -> RadioPairing(radio, p.host)
                      [] p.cmd = "DISCONNECT" -> RadioDisconnect(radio)
                      [] OTHER -> RadioParam(radio)
    /\ w' = [w EXCEPT !.link = Tail(@)]
    /\ UNCHANGED <<pc, host>>

\* The module passes a report on to the host and answers.
Deliver(r) ==
    [host EXCEPT !.seen[r.type] = r.id,
                 !.strays = IF r.dst = radio.target THEN @ ELSE @ \cup {r.id}]

RadioAccept ==
    /\ w.link # <<>> /\ Head(w.link).cmd = "REPORT" /\ radio.mode = "up"
    /\ host' = Deliver(Head(w.link).rpt)
    /\ w' = [w EXCEPT !.link = Tail(@), !.owed = @ \ {Head(w.link).rpt.id}]
    /\ \E code \in {"SUCCESS", "FIFO_HALF_WARNING"} :
          radio' = [radio EXCEPT !.acks = Append(@, code)]
    /\ UNCHANGED pc

\* Its FIFO is full, or the packet arrived damaged.
RadioRefuse ==
    /\ w.link # <<>> /\ Head(w.link).cmd = "REPORT" /\ radio.mode = "up"
    /\ w' = [w EXCEPT !.link = Tail(@)]
    /\ \E code \in {"FIFO_FULL_ERROR", "CHECKSUM_ERROR"} :
          radio' = [radio EXCEPT !.acks = Append(@, code)]
    /\ UNCHANGED <<pc, host>>

\* Without a link, or on a lossy bus, the report is gone without an answer.
RadioIgnore ==
    /\ w.link # <<>> /\ Head(w.link).cmd = "REPORT"
    /\ radio.mode # "up" \/ Lossy
    /\ w' = [w EXCEPT !.link = Tail(@)]
    /\ UNCHANGED <<pc, radio, host>>

LoseAck ==
    /\ Lossy /\ radio.acks # <<>>
    /\ radio' = [radio EXCEPT !.acks = Tail(@)]
    /\ UNCHANGED <<pc, w, host>>

\* The link comes up; the module may report the host's LEDs and the
\* connection interval in the same frame.
RadioLinkUp ==
    /\ radio.mode \in {"linking", "pairing"}
    /\ w.link = <<>> /\ radio.out = <<>> /\ NoEvents(w.evq)
    /\ \E led \in {-1} \cup LedStates, raw \in {-1} \cup RawIntervals :
          radio' = [radio EXCEPT !.mode = "up",
                                 !.leds = IF led = -1 THEN 0 ELSE led,
                                 !.out = <<[Say("CONNECTED", radio.target)
                                              EXCEPT !.led = led, !.raw = raw]>>]
    /\ UNCHANGED <<pc, w, host>>

\* The host goes away, or the reconnection times out.
RadioLinkLost ==
    /\ radio.mode \in {"up", "linking"} /\ radio.budget > 0
    /\ radio' = [radio EXCEPT !.mode = "idle", !.leds = 0, !.budget = @ - 1,
                              !.out = Append(@, Say("DISCONNECTED", radio.target))]
    /\ UNCHANGED <<pc, w, host>>

RadioPairingTimeout ==
    /\ radio.mode = "pairing" /\ radio.budget > 0
    /\ radio' = [radio EXCEPT !.mode = "idle", !.budget = @ - 1,
                              !.out = Append(@, Say("SLEEP", radio.target))]
    /\ UNCHANGED <<pc, w, host>>

\* The host asks for a PIN code while pairing, and stops asking.
RadioPinCode ==
    /\ radio.mode = "pairing" /\ radio.budget > 0
    /\ \E conn \in {"BT_PINCODE_ENTRY", "EXIT_BT_PINCODE_ENTRY"} :
          radio' = [radio EXCEPT !.budget = @ - 1,
                                 !.out = Append(@, Say(conn, radio.target))]
    /\ UNCHANGED <<pc, w, host>>

\* A restart: reset frame, possibly with a state code the driver does not
\* know, then the disconnected state the module boots into.
RadioReset ==
    /\ radio.budget > 0
    /\ \E conn \in {"NONE", "UNKNOWN"} :
          radio' = [radio EXCEPT !.mode = "idle", !.leds = 0, !.budget = @ - 1,
                                 !.configured = FALSE,
                                 !.out = @ \o <<[Say(conn, 0) EXCEPT !.reset = TRUE],
                                                Say("DISCONNECTED", radio.target)>>]
    /\ UNCHANGED <<pc, w, host>>

\* The connected host changes its LEDs.
RadioLeds ==
    /\ radio.mode = "up" /\ radio.budget > 0
    /\ \E led \in LedStates \ {radio.leds} :
          radio' = [radio EXCEPT !.leds = led, !.budget = @ - 1,
                                 !.out = Append(@, [NoFrame EXCEPT !.led = led])]
    /\ UNCHANGED <<pc, w, host>>

-----------------------------------------------------------------------------
\* Powered up in Bluetooth mode, in bt_transport_enable after its
\* wireless_disconnect.  The module may already have booted.
PoweredOn(reports) ==
    [state |-> "INITIALIZED", host_index |-> 0, led_state |-> 0,
     pincodeEntry |-> FALSE, nkro |-> EepromNkro, critical_low |-> FALSE,
     firstDisconnect |-> TRUE, pairing_key |-> FALSE,
     evq |-> <<>>,
     rb |-> report_buffer_init(PowerOnBuffer(1)),
     connection_interval |-> 1, uptime |-> 0,
     down |-> [t \in ReportTypes |-> FALSE], next |-> MaxReports - reports + 1,
     link |-> <<[cmd |-> "DISCONNECT"]>>,
     owed |-> {}, sends |-> 0, burst |-> 0, dropped |-> 0]

Init ==
    /\ pc = "pump"
    /\ \E n \in Budgets :
          /\ w = PoweredOn(n.reports)
          /\ \E t \in Hosts : \E out \in {<<>>, <<Say("DISCONNECTED", t)>>} :
                radio = [mode |-> "idle", target |-> t, leds |-> 0,
                         configured |-> FALSE, out |-> out, acks |-> <<>>,
                         budget |-> n.events]
    /\ host = [seen |-> [t \in ReportTypes |-> 0], strays |-> {}]

Firmware ==
    \/ KeyEvent \/ ExtraKeyEvent \/ MouseEvent
    \/ HostKeyPress \/ HostKeyRelease \/ SendStringTask
    \/ TransportTask \/ EnableTransport \/ EventStep \/ ReportStep
    \/ CommonTask \/ BatteryTask \/ LoopEnd \/ ClockWrap

Radio ==
    \/ RadioCommand \/ RadioAccept \/ RadioRefuse \/ RadioIgnore \/ LoseAck
    \/ RadioLinkUp \/ RadioLinkLost \/ RadioPairingTimeout \/ RadioPinCode
    \/ RadioReset \/ RadioLeds

Next == Firmware \/ Radio

Spec == Init /\ [][Next]_vars

(***************************************************************************)
(* Fairness.  The firmware's superloop keeps turning: no step of it waits  *)
(* for anything but the module's bus, and its clock is a free-running      *)
(* timer, so time passes again and again.  The module keeps reading the    *)
(* bus.  Nothing is assumed of keys, of the radio link or of the answers.  *)
(***************************************************************************)
TimePasses == LoopEnd /\ w'.rb # w.rb

Fairness ==
    /\ WF_vars(TransportTask) /\ WF_vars(EnableTransport)
    /\ WF_vars(EventStep) /\ WF_vars(ReportStep)
    /\ WF_vars(CommonTask) /\ WF_vars(LoopEnd) /\ SF_vars(TimePasses)
    /\ WF_vars(RadioCommand)
    /\ WF_vars(RadioAccept \/ RadioRefuse \/ RadioIgnore)

FairSpec == Spec /\ Fairness

-----------------------------------------------------------------------------
(***************************************************************************)
(* Properties.                                                             *)
(***************************************************************************)
WirelessState ==
    [state : States, host_index : Nat, led_state : Nat, pincodeEntry : BOOLEAN,
     nkro : BOOLEAN, critical_low : BOOLEAN, firstDisconnect : BOOLEAN,
     pairing_key : BOOLEAN, evq : Events, rb : Buffer,
     connection_interval : Nat, uptime : 0 .. 4,
     down : [ReportTypes -> BOOLEAN], next : Nat, link : Seq(Packet),
     owed : SUBSET Nat, sends : Nat, burst : Nat, dropped : Nat]

RadioState ==
    [mode : {"idle", "linking", "pairing", "up"}, target : Hosts, leds : Nat,
     configured : BOOLEAN, out : Seq(Frame), acks : Seq(AckCodes), budget : Nat]

\* Type correctness of the firmware's statics, the module and the history; the
\* rings never hold more than their slots but one.
TypeOK ==
    /\ pc \in {"pump", "transport", "scan", "events", "common", "battery"}
    /\ w \in WirelessState
    /\ Len(w.rb.queue) < QueueSize /\ Len(w.evq) < EventQueueSize
    /\ radio \in RadioState
    /\ host \in [seen : [ReportTypes -> Nat], strays : SUBSET Nat]

\* The numbers of the reports on the bus.
LinkIds == {w.link[i].rpt.id :
              i \in {j \in 1 .. Len(w.link) : w.link[j].cmd = "REPORT"}}

\* A report the buffer accepted is not lost behind the back of the code: until
\* it reaches the host or the code gives it up, it is in the ring, or it is
\* kb_rpt with retries left, or it is on its way to the module
\* (report_buffer_task and ack_handler).
NoSilentLoss ==
    w.owed \subseteq QueuedIds(w.rb) \cup LinkIds
                      \cup (IF w.rb.retry > 0 THEN {w.rb.kb_rpt.id} ELSE {})

\* A report is handed to the module at most once and RetryCount times again,
\* however answers, events and initialisations of the buffer interleave
\* (report_buffer_task's retry counter).
TransmitBound == w.sends <= RetryCount + 1

\* Hosts see keyboard reports in the order the keys produced them: no
\* retransmission brings an older key state back after a newer one
\* (report_buffer_task and wireless_send_keyboard).
KeysInOrder ==
    [][\A t \in {"KB", "NKRO"} : host'.seen[t] >= host.seen[t]]_vars

\* Keystrokes reach only the host they were typed for, also when the user
\* switches hosts while reports are queued or being retransmitted
\* (wireless_enter_disconnected empties the buffer).
OnlyOwnHost == host.strays = {}

\* Nothing is under way between the firmware and the module.
Quiet == w.link = <<>> /\ radio.out = <<>> /\ NoEvents(w.evq) /\ pc # "pump"

\* Once everything said has been heard, the firmware's connection state is the
\* module's: connected to the host the module is connected to, or not
\* connected (wireless_event_task), as long as the queue overrides no event.
AgreeWhenQuiet ==
    Quiet => /\ w.state = "CONNECTED" <=> radio.mode = "up"
             /\ radio.mode = "up" => w.host_index = radio.target

\* The LEDs the keyboard shows are those the connected host last asked for,
\* never those of an earlier connection (led_state of wireless.c), under the
\* same condition.
LedsOfHost == Quiet /\ radio.mode = "up" => w.led_state = radio.leds

\* After the low-battery shutdown the buffer stays empty until power returns,
\* whatever keys are pressed and whatever the module says: no send function,
\* and no handler that calls one, gets past its battery_is_critical_low check.
SilentBuffer == w.critical_low => report_buffer_is_empty(w.rb) /\ w.rb.retry = 0

\* Meanwhile the firmware asks for no connection and sends no report: the one
\* packet it may still send configures a module that restarted
\* (wireless_connect, wireless_connect_ex, wireless_pairing_ex and the handlers
\* that call them).
SilentWhenCritical ==
    [][w.critical_low /\ w'.critical_low /\ Len(w'.link) > Len(w.link)
          => w'.link[Len(w'.link)].cmd = "PARAM"]_vars

\* A keyboard that stays connected empties its buffer: each queued report is
\* answered or given up, and none stays in flight for ever.
BufferDrains ==
    w.state = "CONNECTED" /\ (~report_buffer_is_empty(w.rb) \/ w.rb.retry > 0)
        ~> w.state # "CONNECTED" \/ (report_buffer_is_empty(w.rb) /\ w.rb.retry = 0)

\* A module that restarted gets its parameters again
\* (wireless_enter_reset_kb), whatever is lost or in progress when its reset
\* event comes, if the queue has room for the event.
ResetConfigures ==
    (\E i \in 1 .. Len(radio.out) : radio.out[i].reset) ~> radio.configured

\* "The maximun macro string length ... should be REPORT_BUFFER_QUEUE_SIZE
\* devided by 2 since each character is implemented by sending a key pressing
\* then a key releasing report" (report_buffer.c): of the reports a macro gives
\* to an idle buffer, the first QueueSize are accepted.
MacroFits == w.dropped = 0 \/ w.dropped > QueueSize
=============================================================================
