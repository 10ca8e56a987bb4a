----------------------------- MODULE Transport ------------------------------
(***************************************************************************)
(* The mode switch of the keyboard: wireless_pre_task debounces its two    *)
(* pins, set_transport moves the keyboard between USB, Bluetooth and the   *)
(* 2.4 GHz dongle, usb_remote_wakeup holds the main loop while the USB     *)
(* host sleeps, and the host keys work only in their own mode.             *)
(*                                                                         *)
(* A round of the main loop is key processing and wireless_pre_task        *)
(* ("pre"), the connection events ("events"), the pairing timer            *)
(* ("common") and the wake-up loop ("usb").  set_transport is one step:    *)
(* the waits inside it read the module's frames but handle no event, look  *)
(* at no pin and process no key.  The clock counts modulo ClockRange; a    *)
(* timer variable that is 0 is off.                                        *)
(***************************************************************************)
EXTENDS Integers, Sequences

CONSTANTS
    Hosts,          \* host indices of BT_HST1..3
    ClockRange,     \* the clock wraps to 0 here
    SwitchTime,     \* 100: milliseconds the switch must rest
    PairTime,       \* 2000: milliseconds a host key is held to pair
    BootTime,       \* 1000: milliseconds in which the module boots
    EepromNkro,     \* the stored NKRO setting
    FORCE_NKRO,     \* build option
    PromptModule,   \* the module acts on its packets at once
    Sleeps,         \* the USB host may suspend the bus
    MaxMoves,       \* bound: moves of the switch
    MaxKeys         \* bound: keys pressed
P24G_INDEX == 24
LastHost == 30

ASSUME TransportAssumption ==
    /\ 1 \in Hosts /\ Hosts \subseteq 1 .. 3
    /\ SwitchTime \in Nat \ {0} /\ PairTime \in Nat /\ BootTime \in Nat
    /\ ClockRange \in Nat /\ ClockRange > SwitchTime + 1 /\ ClockRange > PairTime + 1
    /\ ClockRange > BootTime
    /\ EepromNkro \in BOOLEAN /\ FORCE_NKRO \in BOOLEAN
    /\ PromptModule \in BOOLEAN /\ Sleeps \in BOOLEAN
    /\ MaxMoves \in Nat /\ MaxKeys \in Nat

Transports == {"USB", "BLUETOOTH", "P2P4"}
\* The pins: a mode, or neither of them high.
Positions == Transports \cup {"BETWEEN"}

VARIABLES
    pc, clock,
    pins,     \* the switch
    usb,      \* "ACTIVE" or "SUSPENDED"
    kb,       \* the firmware's static variables
    cmds,     \* packets on their way to the module
    events,   \* connection events on their way to wireless_event_task
    radio,    \* the module
    past      \* history and bounds

vars == <<pc, clock, pins, usb, kb, cmds, events, radio, past>>

Init ==
    /\ pc = "pre" /\ clock \in 0 .. BootTime /\ usb = "ACTIVE"
    /\ pins \in Positions
    /\ kb = [mode |-> "BETWEEN", time |-> 0, transport |-> "NONE", driver |-> "chibios",
             nkro |-> EepromNkro \/ FORCE_NKRO, saved |-> [usb |-> FALSE, bluetooth |-> FALSE],
             state |-> "INITIALIZED", host_index |-> 0, pairing_key |-> 0,
             firstDisconnect |-> TRUE]
    /\ cmds = <<>> /\ events = <<[type |-> "DISCONNECTED", host |-> 0]>>
    /\ radio = [mode |-> "idle", host |-> 1]
    /\ past = [moves |-> 0, keys |-> 0, held |-> {}, usb_nkro |-> FALSE,
               crossed |-> FALSE, carried |-> FALSE, missed |-> FALSE, unsynced |-> FALSE]

-----------------------------------------------------------------------------
\* Functions of wireless.c: the firmware's variables and the packets sent.
Elapsed(t) == (clock - t) % ClockRange
Answer(k, packets) == [kb |-> k, packets |-> packets]

wireless_connect(k) ==
    IF clock = 0 THEN Answer(k, <<>>)
    ELSE Answer([k EXCEPT !.state = "RECONNECTING"], <<[cmd |-> "CONNECT", host |-> 0]>>)

wireless_connect_ex(k, h) ==
    IF k.host_index = h /\ k.state = "CONNECTED" THEN Answer(k, <<>>)
    ELSE Answer([k EXCEPT !.state = "RECONNECTING", !.host_index = h],
                <<[cmd |-> "CONNECT", host |-> h]>>)

wireless_pairing_ex(k, h) ==
    Answer([k EXCEPT !.state = "PARING", !.host_index = h], <<[cmd |-> "PAIRING", host |-> h]>>)

DISCONNECT == <<[cmd |-> "DISCONNECT"]>>

\* The send functions without a connection; reports themselves are left out.
Send(k) ==
    IF k.driver = "chibios" \/ k.state \in {"CONNECTED", "PARING", "RESET"}
    THEN Answer(k, <<>>)
    ELSE wireless_connect(k)

wireless_enter_disconnected(k) ==
    LET d == [k EXCEPT !.state = "DISCONNECTED"]
    IN  IF ~(k.firstDisconnect /\ clock < BootTime) THEN Answer(d, <<>>)
        ELSE LET c == IF k.transport = "BLUETOOTH" THEN wireless_connect(d) ELSE Answer(d, <<>>)
             IN  [c EXCEPT !.kb.firstDisconnect = FALSE]

HandleEvent(k, e) ==
    CASE e.type = "CONNECTED" ->
             Answer([k EXCEPT !.state = "CONNECTED", !.host_index = e.host], <<>>)
      [] e.type = "RECONNECTING" ->
             Answer([k EXCEPT !.state = "RECONNECTING", !.host_index = e.host], <<>>)
      [] e.type = "DISCOVERABLE" ->
             Answer([k EXCEPT !.state = "PARING", !.host_index = e.host], <<>>)
      [] e.type = "DISCONNECTED" -> wireless_enter_disconnected(k)

-----------------------------------------------------------------------------
(***************************************************************************)
(* set_transport.                                                          *)
(***************************************************************************)
\* Both wireless modes: take the driver, disconnect, connect anew.
wireless_enable(k, h) ==
    LET c == wireless_connect_ex([k EXCEPT !.driver = "wireless"], h)
    IN  [c EXCEPT !.packets = DISCONNECT \o @]

\* The NKRO settings of the two kinds of modes are swapped.  Mutant: saved
\* after it is overwritten.
SaveUsbLate(k) ==
    LET n == [k EXCEPT !.nkro = k.saved.bluetooth] IN [n EXCEPT !.saved.usb = n.nkro]

SaveUsb(k) == [k EXCEPT !.saved.usb = k.nkro, !.nkro = k.saved.bluetooth]
SaveBluetooth(k) == [k EXCEPT !.saved.bluetooth = k.nkro, !.nkro = k.saved.usb]

\* Mutant: the module is left connected on USB.
enable_usb_only(k) == Answer(SaveBluetooth([k EXCEPT !.driver = "chibios"]), <<>>)

EnableUsb(k) == Answer(SaveBluetooth([k EXCEPT !.driver = "chibios"]), DISCONNECT)
EnableBluetooth(k) == LET c == wireless_enable(k, LastHost) IN Answer(SaveUsb(c.kb), c.packets)
EnableP2P4(k) == LET c == wireless_enable(k, P24G_INDEX) IN Answer(SaveUsb(c.kb), c.packets)

set_transport(k, t) ==
    LET n == [k EXCEPT !.transport = t]
    IN  IF k.transport = t THEN Answer(k, <<>>)
        ELSE CASE t = "USB" -> EnableUsb(n)
               [] t = "BLUETOOTH" -> EnableBluetooth(n)
               [] t = "P2P4" -> EnableP2P4(n)

-----------------------------------------------------------------------------
(***************************************************************************)
(* wireless_pre_task.                                                      *)
(***************************************************************************)
Restart(k) == [k EXCEPT !.mode = pins, !.time = clock]

\* The first half: a change of the pins starts the timer.
Noticed(k) == IF k.time = 0 /\ pins # k.mode THEN Restart(k) ELSE k

Rested(k) == k.time # 0 /\ Elapsed(k.time) > SwitchTime

\* The second half.
Settle(k) ==
    IF pins # k.mode THEN Answer(Restart(k), <<>>)
    ELSE IF k.mode \in Transports THEN set_transport([k EXCEPT !.time = 0], k.mode)
    ELSE Answer([k EXCEPT !.time = 0], <<>>)

\* Mutant: the timer is off after a change that was not confirmed.
PreTaskOnce(k) ==
    IF Rested(Noticed(k)) \/ k.transport = "NONE"
    THEN [Settle(Noticed(k)) EXCEPT !.kb.time = 0]
    ELSE Answer(Noticed(k), <<>>)

wireless_pre_task(k) ==
    IF Rested(Noticed(k)) \/ k.transport = "NONE" THEN Settle(Noticed(k))
    ELSE Answer(Noticed(k), <<>>)

\* What the histories record of a call of it.
Recorded(h, new) ==
    IF new.kb.transport = kb.transport
    THEN [h EXCEPT !.missed = IF new.kb.mode = kb.mode THEN @ ELSE clock = 0]
    ELSE [h EXCEPT
             !.missed = FALSE,
             !.carried = @ \/ kb.pairing_key # 0,
             !.unsynced = new.kb.transport # "USB"
                          /\ \A i \in DOMAIN new.packets : new.packets[i].cmd # "CONNECT",
             !.usb_nkro = IF kb.transport \in {"USB", "NONE"} THEN kb.nkro ELSE @,
             !.crossed = IF new.kb.transport = "USB" THEN @
                         ELSE (@ /\ kb.transport # "USB") \/ kb.transport \in {"BLUETOOTH", "P2P4"}]

-----------------------------------------------------------------------------
\* A function has been called: its answer is the new state.
Call(answer) == kb' = answer.kb /\ cmds' = cmds \o answer.packets

PreTask ==
    /\ pc = "pre" /\ pc' = "events"
    /\ Call(wireless_pre_task(kb))
    /\ past' = Recorded(past, wireless_pre_task(kb))
    /\ UNCHANGED <<clock, pins, usb, events, radio>>

\* A key that types; NK_TOGG, whose clear_keyboard sends if a key is down.
KeyPress ==
    /\ pc = "pre" /\ past.keys < MaxKeys
    /\ past' = [past EXCEPT !.keys = @ + 1]
    /\ Call(Send(kb))
    /\ UNCHANGED <<pc, clock, pins, usb, events, radio>>

ToggleNkro ==
    /\ pc = "pre" /\ past.keys < MaxKeys
    /\ past' = [past EXCEPT !.keys = @ + 1]
    /\ \E c \in {Answer(kb, <<>>), Send(kb)} : Call([c EXCEPT !.kb.nkro = ~@])
    /\ UNCHANGED <<pc, clock, pins, usb, events, radio>>

\* process_record_keychron_wireless: each host key works in its own mode.
HostKeyMode(h) == IF h = P24G_INDEX THEN "P2P4" ELSE "BLUETOOTH"
HostKeyPress(h) ==
    /\ pc = "pre" /\ past.keys < MaxKeys /\ h \notin past.held
    /\ past' = [past EXCEPT !.keys = @ + 1, !.held = @ \cup {h}]
    /\ Call(IF kb.transport # HostKeyMode(h) THEN Answer(kb, <<>>)
            ELSE LET k == [kb EXCEPT !.pairing_key = clock]
                 IN  IF h = P24G_INDEX THEN Answer(k, <<>>) ELSE wireless_connect_ex(k, h))
    /\ UNCHANGED <<pc, clock, pins, usb, events, radio>>

HostKeyRelease(h) ==
    /\ pc = "pre" /\ h \in past.held
    /\ past' = [past EXCEPT !.held = @ \ {h}]
    /\ Call(Answer(IF kb.transport = HostKeyMode(h) THEN [kb EXCEPT !.pairing_key = 0] ELSE kb, <<>>))
    /\ UNCHANGED <<pc, clock, pins, usb, events, radio>>

\* wireless_event_task.
EventStep ==
    /\ pc = "events" /\ events # <<>>
    /\ Call(HandleEvent(kb, Head(events)))
    /\ events' = Tail(events)
    /\ UNCHANGED <<pc, clock, pins, usb, radio, past>>

EventsDone ==
    /\ pc = "events" /\ events = <<>> /\ pc' = "common"
    /\ UNCHANGED <<clock, pins, usb, kb, cmds, events, radio, past>>

\* keychron_wireless_common_task.
CommonTask ==
    /\ pc = "common" /\ pc' = "usb"
    /\ IF kb.pairing_key # 0 /\ Elapsed(kb.pairing_key) > PairTime
       THEN Call(wireless_pairing_ex([kb EXCEPT !.pairing_key = 0], 0))
       ELSE UNCHANGED <<kb, cmds>>
    /\ UNCHANGED <<clock, pins, usb, events, radio, past>>

\* A millisecond passes; a prompt module acts on its packets in less.
Tick == clock' = IF PromptModule /\ cmds # <<>> THEN clock ELSE (clock + 1) % ClockRange

\* usb_remote_wakeup is not entered, or left, and the round ends.
RoundEnd ==
    /\ pc = "usb" /\ pc' = "pre"
    /\ ~(kb.transport = "USB" /\ usb = "SUSPENDED")
    /\ Tick
    /\ UNCHANGED <<pins, usb, kb, cmds, events, radio, past>>

\* A round of its loop: only wireless_pre_task runs.
SuspendedRound ==
    /\ pc = "usb" /\ kb.transport = "USB" /\ usb = "SUSPENDED"
    /\ Tick
    /\ Call(wireless_pre_task(kb))
    /\ past' = Recorded(past, wireless_pre_task(kb))
    /\ UNCHANGED <<pc, pins, usb, events, radio>>

-----------------------------------------------------------------------------
(***************************************************************************)
(* The environment: the switch, the USB host and the module (external).    *)
(***************************************************************************)
MoveSwitch ==
    /\ past.moves < MaxMoves
    /\ past' = [past EXCEPT !.moves = @ + 1]
    /\ pins' \in Positions \ {pins}
    /\ UNCHANGED <<pc, clock, usb, kb, cmds, events, radio>>

UsbSuspend ==
    /\ Sleeps /\ usb' = IF usb = "ACTIVE" THEN "SUSPENDED" ELSE "ACTIVE"
    /\ UNCHANGED <<pc, clock, pins, kb, cmds, events, radio, past>>

Event(t, h) == [type |-> t, host |-> h]
LinkDown == IF radio.mode = "up" THEN <<Event("DISCONNECTED", radio.host)>> ELSE <<>>
Target(h) == IF h \in Hosts \cup {P24G_INDEX} THEN h
             ELSE IF h = LastHost /\ radio.host = P24G_INDEX THEN 1 ELSE radio.host

RadioCommand ==
    /\ cmds # <<>> /\ cmds' = Tail(cmds)
    /\ LET p == Head(cmds)
       IN \/ /\ p.cmd = "CONNECT"
             /\ IF radio.mode = "up" /\ Target(p.host) = radio.host THEN UNCHANGED <<radio, events>>
                ELSE /\ radio' = [mode |-> "linking", host |-> Target(p.host)]
                     /\ events' = events \o LinkDown \o <<Event("RECONNECTING", Target(p.host))>>
          \/ /\ p.cmd = "PAIRING"
             /\ radio' = [mode |-> "pairing", host |-> Target(p.host)]
             /\ events' = events \o LinkDown \o <<Event("DISCOVERABLE", Target(p.host))>>
          \/ /\ p.cmd = "DISCONNECT"
             /\ radio' = [radio EXCEPT !.mode = "idle"]
             /\ events' = IF radio.mode = "idle" THEN events
                          ELSE Append(events, Event("DISCONNECTED", radio.host))
    /\ UNCHANGED <<pc, clock, pins, usb, kb, past>>

RadioLinkUp ==
    /\ radio.mode \in {"linking", "pairing"}
    /\ radio' = [radio EXCEPT !.mode = "up"]
    /\ events' = Append(events, Event("CONNECTED", radio.host))
    /\ UNCHANGED <<pc, clock, pins, usb, kb, cmds, past>>

Loop ==
    \/ PreTask \/ EventStep \/ EventsDone \/ CommonTask \/ RoundEnd \/ SuspendedRound

Next ==
    \/ Loop \/ KeyPress \/ ToggleNkro
    \/ \E h \in Hosts \cup {P24G_INDEX} : HostKeyPress(h) \/ HostKeyRelease(h)
    \/ MoveSwitch \/ UsbSuspend \/ RadioCommand \/ RadioLinkUp

\* The main loop goes on, and the module takes its packets.
Spec == Init /\ [][Next]_vars /\ WF_vars(Loop) /\ WF_vars(RadioCommand)

-----------------------------------------------------------------------------
Links == Hosts \cup {P24G_INDEX}
Time == 0 .. ClockRange - 1
Firmware ==
    [mode : Positions, time : Time, transport : Transports \cup {"NONE"},
     driver : {"chibios", "wireless"}, nkro : BOOLEAN,
     saved : [usb : BOOLEAN, bluetooth : BOOLEAN],
     state : {"INITIALIZED", "DISCONNECTED", "CONNECTED", "PARING", "RECONNECTING"},
     host_index : Links \cup {0, LastHost}, pairing_key : Time, firstDisconnect : BOOLEAN]
Packet == [cmd : {"CONNECT", "PAIRING"}, host : Links \cup {0, LastHost}]
              \cup {[cmd |-> "DISCONNECT"]}
LinkEvent == [type : {"CONNECTED", "RECONNECTING", "DISCOVERABLE", "DISCONNECTED"},
              host : Links \cup {0}]
History == [moves : 0 .. MaxMoves, keys : 0 .. MaxKeys, held : SUBSET Links,
            usb_nkro : BOOLEAN, crossed : BOOLEAN, carried : BOOLEAN, missed : BOOLEAN,
            unsynced : BOOLEAN]

\* Type correctness.
TypeOK ==
    /\ pc \in {"pre", "events", "common", "usb"} /\ clock \in Time
    /\ pins \in Positions /\ usb \in {"ACTIVE", "SUSPENDED"}
    /\ kb \in Firmware /\ cmds \in Seq(Packet) /\ events \in Seq(LinkEvent)
    /\ radio \in [mode : {"idle", "linking", "pairing", "up"}, host : Links]
    /\ past \in History

\* A switch left in one position wins: the keyboard gets into that mode and
\* stays in it, whatever it was doing when the switch was moved, its USB host
\* asleep included.  The one exception is a move noticed while the clock reads
\* 0, the value that also means "no move noticed" (missed).
SwitchWins ==
    \A t \in Transports :
        <>[](pins = t) => <>[](kb.transport = t \/ past.missed)

\* In USB mode the module has no link and is about to have none once it has
\* seen its packets, so that keys cannot reach a wireless host behind the
\* user's back; in a wireless mode it never has the link of the other one.
\* The exception is a host key that was down when the mode changed: its release
\* is ignored and its pairing timer runs on (carried).
OwnLink ==
    cmds = <<>> /\ ~past.carried =>
        /\ kb.transport = "USB" => radio.mode = "idle"
        /\ kb.transport = "BLUETOOTH" /\ radio.mode = "up" => radio.host \in Hosts
        /\ kb.transport = "P2P4" /\ radio.mode = "up" => radio.host = P24G_INDEX

\* The NKRO setting of USB is back after a stay in a wireless mode, whatever
\* was toggled there; not after a change from one wireless mode to the other,
\* which saves the wireless setting over it (crossed).
NkroRestored == [][
    kb.transport \in {"BLUETOOTH", "P2P4"} /\ kb'.transport = "USB" /\ ~past.crossed
        => kb'.nkro = past.usb_nkro]_vars

\* transport.c: "Disconnect and reconnect to sync the wireless state".
Reconnects == ~past.unsynced

\* config_options.md: FORCE_NKRO "forces it on during keyboard startup
\* regardless of EEPROM setting".
ForcedOn == kb.transport = "USB" /\ FORCE_NKRO /\ past.keys = 0 => kb.nkro
=============================================================================
