-------------------------- MODULE TransportProofs ---------------------------
(***************************************************************************)
(* Proofs about Transport, for every set of hosts and every timing.        *)
(***************************************************************************)
EXTENDS Transport, TLAPS

-----------------------------------------------------------------------------
(***************************************************************************)
(* The inductive invariant                                                 *)
(***************************************************************************)
Wireless == {"BLUETOOTH", "P2P4"}

\* The module is where the mode t wants it.
Owned(t) ==
    CASE t = "USB" -> radio.mode = "idle"
      [] t = "BLUETOOTH" -> radio.host \in Hosts
      [] t = "P2P4" -> radio.host = P24G_INDEX

\* A packet that leaves such a module where it is.
Keeps(t, c) ==
    \/ c.cmd = "DISCONNECT"
    \/ t = "BLUETOOTH" /\ c.host \in Hosts \cup {0, LastHost}
    \/ t = "P2P4" /\ c.host \in {0, P24G_INDEX}

\* A packet that brings the module there from anywhere.
Moves(t, c) ==
    CASE t = "USB" -> c.cmd = "DISCONNECT"
      [] t = "BLUETOOTH" -> c.cmd = "CONNECT" /\ c.host \in Hosts \cup {LastHost}
      [] t = "P2P4" -> c.cmd = "CONNECT" /\ c.host = P24G_INDEX

\* The module is there, or will be once it has seen its packets.
Settled(t) == Owned(t) /\ \A i \in DOMAIN cmds : Keeps(t, cmds[i])
Moving(t) == \E p \in DOMAIN cmds : /\ Moves(t, cmds[p])
                                    /\ \A i \in DOMAIN cmds : i > p => Keeps(t, cmds[i])
Home == IF kb.transport \in Wireless THEN kb.transport ELSE "USB"
AtHome == Settled(Home) \/ Moving(Home)

\* The firmware knows of no link with the dongle.
NoDongle ==
    /\ ~(kb.state = "CONNECTED" /\ kb.host_index = P24G_INDEX)
    /\ \A i \in DOMAIN events :
           ~(events[i].type = "CONNECTED" /\ events[i].host = P24G_INDEX)

\* When the firmware has handled its events, a link it knows of exists.
LinkKnown ==
    /\ events = <<>> /\ kb.state = "CONNECTED"
           => radio.mode = "up" /\ radio.host = kb.host_index
    /\ events # <<>> /\ events[Len(events)].type = "CONNECTED"
           => radio.mode = "up" /\ radio.host = events[Len(events)].host
    /\ kb.state = "CONNECTED" => kb.host_index # LastHost

\* On USB the module is still where the last wireless mode has left it.
LeftBehind ==
    kb.transport \notin Wireless => Settled("P2P4") \/ (Settled("BLUETOOTH") /\ NoDongle)

\* The firmware's variables that follow from the mode.
Follows ==
    /\ kb.driver = IF kb.transport \in Wireless THEN "wireless" ELSE "chibios"
    /\ kb.transport \notin Wireless => kb.pairing_key = 0

\* A wireless mode is left only after the switch has rested.  When the first
\* millisecond of that is over, the module has seen its packets; when the
\* events of that millisecond are handled too, Bluetooth knows no dongle.
Resting ==
    kb.transport \in Wireless /\ kb.time # 0 =>
        /\ Elapsed(kb.time) <= SwitchTime + 1
        /\ pc # "pre" => Elapsed(kb.time) <= SwitchTime
        /\ Elapsed(kb.time) >= 1 => Settled(kb.transport)
        /\ /\ kb.transport = "BLUETOOTH"
           /\ Elapsed(kb.time) >= 2 \/ (Elapsed(kb.time) = 1 /\ pc \in {"common", "usb"})
           => NoDongle

Inv ==
    /\ TypeOK /\ LinkKnown
    /\ PromptModule /\ ~past.carried => AtHome /\ LeftBehind /\ Follows /\ Resting

\* The USB setting of NKRO is saved while the keyboard is in a wireless mode.
Saved ==
    kb.transport \in Wireless /\ ~past.crossed => kb.saved.usb = past.usb_nkro

-----------------------------------------------------------------------------
(***************************************************************************)
(* Packets: what the module makes of them                                  *)
(***************************************************************************)
LEMMA Distinct == P24G_INDEX \notin Hosts /\ LastHost \notin Links /\ 0 \notin Hosts
BY TransportAssumption DEF P24G_INDEX, LastHost, Links

\* Packets that keep the module where it is do so at the end of the queue.
LEMMA KeepersAppended ==
    ASSUME NEW t, cmds \in Seq(Packet), NEW ps \in Seq(Packet), cmds' = cmds \o ps,
           \A i \in DOMAIN ps : Keeps(t, ps[i]), UNCHANGED radio
    PROVE  (Settled(t) => Settled(t)') /\ (Moving(t) => Moving(t)')
<1>1. /\ DOMAIN cmds' = 1 .. Len(cmds) + Len(ps)
      /\ \A i \in DOMAIN cmds' : cmds'[i] = IF i <= Len(cmds) THEN cmds[i]
                                             ELSE ps[i - Len(cmds)]
      /\ DOMAIN cmds = 1 .. Len(cmds) /\ DOMAIN ps = 1 .. Len(ps)
      /\ Len(cmds) \in Nat /\ Len(ps) \in Nat
  OBVIOUS
<1>2. \A i \in DOMAIN cmds' : i > Len(cmds) => Keeps(t, cmds'[i])
  BY <1>1
<1>3. ASSUME Settled(t) PROVE Settled(t)'
  <2>1. Owned(t)'
    BY <1>3 DEF Settled, Owned
  <2>2. \A i \in DOMAIN cmds' : Keeps(t, cmds'[i])
    BY <1>1, <1>2, <1>3 DEF Settled
  <2> QED
    BY <2>1, <2>2 DEF Settled, Keeps
<1>4. ASSUME Moving(t) PROVE Moving(t)'
  <2>1. PICK p \in DOMAIN cmds : Moves(t, cmds[p])
                                 /\ \A i \in DOMAIN cmds : i > p => Keeps(t, cmds[i])
    BY <1>4 DEF Moving
  <2>2. p \in DOMAIN cmds' /\ cmds'[p] = cmds[p]
    BY <1>1
  <2>3. \A i \in DOMAIN cmds' : i > p => Keeps(t, cmds'[i])
    BY <1>1, <1>2, <2>1
  <2> QED
    BY <2>1, <2>2, <2>3 DEF Moving, Moves, Keeps
<1> QED
  BY <1>3, <1>4

\* A packet that moves the module, at the end of the queue, decides.
LEMMA MoverAppended ==
    ASSUME NEW t, cmds \in Seq(Packet), NEW ps \in Seq(Packet), ps # <<>>,
           cmds' = cmds \o ps, Moves(t, ps[Len(ps)])
    PROVE  Moving(t)'
<1>1. /\ DOMAIN cmds' = 1 .. Len(cmds) + Len(ps)
      /\ cmds'[Len(cmds) + Len(ps)] = ps[Len(ps)]
      /\ Len(cmds) \in Nat /\ Len(ps) \in Nat \ {0}
  OBVIOUS
<1>2. PICK p : p = Len(cmds) + Len(ps)
  OBVIOUS
<1>3. p \in DOMAIN cmds' /\ Moves(t, cmds'[p]) /\ \A i \in DOMAIN cmds' : ~(i > p)
  BY <1>1, <1>2
<1> QED
  BY <1>3 DEF Moving, Moves, Keeps

\* What the module does with its next packet.
LEMMA CommandOwned ==
    ASSUME TypeOK, RadioCommand, NEW t \in Transports
    PROVE  /\ Owned(t) /\ Keeps(t, Head(cmds)) => Owned(t)'
           /\ Moves(t, Head(cmds)) => Owned(t)'
<1>1. /\ radio \in [mode : {"idle", "linking", "pairing", "up"}, host : Links]
      /\ Head(cmds) \in Packet
  BY DEF TypeOK, RadioCommand
<1>2. Head(cmds).cmd # "DISCONNECT" => Head(cmds).host \in Links \cup {0, LastHost}
  BY <1>1 DEF Packet
<1>3. \/ Head(cmds).cmd = "DISCONNECT" /\ radio'.mode = "idle" /\ radio'.host = radio.host
      \/ Head(cmds).cmd # "DISCONNECT" /\ radio'.host = Target(Head(cmds).host)
  BY <1>1 DEF RadioCommand
<1>4. CASE t = "USB"
  BY <1>3, <1>4 DEF Owned, Keeps, Moves
<1>5. CASE t = "BLUETOOTH"
  BY <1>1, <1>2, <1>3, <1>5, Distinct, TransportAssumption
     DEF Owned, Keeps, Moves, Target, Links, P24G_INDEX, LastHost
<1>6. CASE t = "P2P4"
  BY <1>1, <1>2, <1>3, <1>6, Distinct, TransportAssumption
     DEF Owned, Keeps, Moves, Target, Links, P24G_INDEX, LastHost
<1> QED
  BY <1>4, <1>5, <1>6 DEF Transports

LEMMA CommandKeeps ==
    ASSUME TypeOK, RadioCommand, NEW t \in Transports
    PROVE  /\ Settled(t) => Settled(t)'
           /\ Moving(t) => Settled(t)' \/ Moving(t)'
<1>1. /\ cmds \in Seq(Packet) /\ cmds # <<>> /\ cmds' = Tail(cmds) /\ Head(cmds) = cmds[1]
      /\ Len(cmds) \in Nat \ {0} /\ DOMAIN cmds = 1 .. Len(cmds)
      /\ DOMAIN cmds' = 1 .. Len(cmds) - 1
      /\ \A i \in DOMAIN cmds' : i + 1 \in DOMAIN cmds /\ cmds'[i] = cmds[i + 1]
  BY DEF TypeOK, RadioCommand
<1>2. ASSUME Settled(t) PROVE Settled(t)'
  <2>1. Owned(t)'
    BY <1>1, <1>2, CommandOwned DEF Settled
  <2> QED
    BY <1>1, <1>2, <2>1 DEF Settled, Keeps
<1>3. ASSUME Moving(t) PROVE Settled(t)' \/ Moving(t)'
  <2>1. PICK p \in DOMAIN cmds : Moves(t, cmds[p])
                                 /\ \A i \in DOMAIN cmds : i > p => Keeps(t, cmds[i])
    BY <1>3 DEF Moving
  <2>2. CASE p = 1
    <3>1. Owned(t)'
      BY <1>1, <2>1, <2>2, CommandOwned
    <3> QED
      BY <1>1, <2>1, <2>2, <3>1 DEF Settled, Keeps
  <2>3. CASE p # 1
    <3>1. p - 1 \in DOMAIN cmds' /\ cmds'[p - 1] = cmds[p]
      BY <1>1, <2>3
    <3>2. \A i \in DOMAIN cmds' : i > p - 1 => Keeps(t, cmds'[i])
      BY <1>1, <2>1, <2>3
    <3> QED
      BY <2>1, <3>1, <3>2 DEF Moving, Moves, Keeps
  <2> QED
    BY <2>2, <2>3
<1> QED
  BY <1>2, <1>3

\* A link that comes up changes nothing of this.
LEMMA LinkUpKeeps ==
    ASSUME TypeOK, RadioLinkUp, NEW t \in Transports
    PROVE  (Settled(t) => Settled(t)') /\ (Moving(t) => Moving(t)')
<1>1. radio'.host = radio.host /\ radio.mode # "idle" /\ cmds' = cmds
  BY DEF TypeOK, RadioLinkUp
<1> QED
  BY <1>1 DEF Settled, Moving, Owned, Keeps, Moves, Transports

-----------------------------------------------------------------------------
(***************************************************************************)
(* The functions of the firmware                                           *)
(***************************************************************************)
Answers == [kb : Firmware, packets : Seq(Packet)]

\* A function that stays in the mode: it forgets the link or leaves it alone.
Gentle(k, a) ==
    /\ a \in Answers
    /\ a.kb.transport = k.transport /\ a.kb.driver = k.driver
    /\ a.kb.time = k.time /\ a.kb.saved = k.saved
    /\ a.kb.state = "CONNECTED" => k.state = "CONNECTED" /\ a.kb.host_index = k.host_index

\* The packets of an answer, at most one, keep the module where it is.
Sends(t, a) == \A i \in DOMAIN a.packets : Keeps(t, a.packets[i])

LEMMA AnswerIsAnswer ==
    ASSUME NEW k \in Firmware, NEW ps \in Seq(Packet)
    PROVE  /\ Answer(k, ps) \in Answers /\ Answer(k, ps).kb = k /\ Answer(k, ps).packets = ps
BY DEF Answer, Answers

LEMMA OnePacket ==
    ASSUME NEW c \in {"CONNECT", "PAIRING"}, NEW h \in Links \cup {0, LastHost}
    PROVE  /\ <<[cmd |-> c, host |-> h]>> \in Seq(Packet)
           /\ \A t : Keeps(t, [cmd |-> c, host |-> h]) =>
                  \A i \in DOMAIN <<[cmd |-> c, host |-> h]>> :
                      Keeps(t, <<[cmd |-> c, host |-> h]>>[i])
<1>1. PICK p : p = [cmd |-> c, host |-> h]
  OBVIOUS
<1>2. p \in Packet
  BY <1>1 DEF Packet
<1>3. <<p>> \in Seq(Packet) /\ DOMAIN <<p>> = {1} /\ <<p>>[1] = p
  BY <1>2
<1> QED
  BY <1>1, <1>3, Zenon

LEMMA NoPacket ==
    /\ <<>> \in Seq(Packet)
    /\ \A k : k \in Firmware => /\ Gentle(k, Answer(k, <<>>))
                                /\ \A t : Sends(t, Answer(k, <<>>))
<1>1. <<>> \in Seq(Packet) /\ DOMAIN <<>> = {}
  OBVIOUS
<1> QED
  BY <1>1, AnswerIsAnswer DEF Gentle, Sends

\* A state that is not connected is no new link.
Idle == {"INITIALIZED", "DISCONNECTED", "PARING", "RECONNECTING"}
LEMMA NotConnected ==
    ASSUME NEW k \in Firmware, NEW s \in Idle, NEW n, n = [k EXCEPT !.state = s],
           NEW ps \in Seq(Packet)
    PROVE  /\ n \in Firmware /\ n.state = s /\ Gentle(k, Answer(n, ps))
           /\ n.transport = k.transport /\ n.driver = k.driver
           /\ n.time = k.time /\ n.saved = k.saved
<1>1. n \in Firmware /\ n.state = s
  BY DEF Firmware, Idle
<1>2. /\ n.transport = k.transport /\ n.driver = k.driver
      /\ n.time = k.time /\ n.saved = k.saved
  BY DEF Firmware
<1> QED
  BY <1>1, <1>2, AnswerIsAnswer DEF Gentle, Idle

LEMMA OtherHost ==
    ASSUME NEW k \in Firmware, NEW s \in Idle, NEW h \in Links \cup {0, LastHost},
           NEW n, n = [k EXCEPT !.state = s, !.host_index = h], NEW ps \in Seq(Packet)
    PROVE  n \in Firmware /\ Gentle(k, Answer(n, ps))
<1>1. n \in Firmware /\ n.state = s
  BY DEF Firmware, Idle
<1>2. /\ n.transport = k.transport /\ n.driver = k.driver
      /\ n.time = k.time /\ n.saved = k.saved
  BY DEF Firmware
<1> QED
  BY <1>1, <1>2, AnswerIsAnswer DEF Gentle, Idle

LEMMA ConnectIsGentle ==
    ASSUME NEW k \in Firmware
    PROVE  /\ Gentle(k, wireless_connect(k))
           /\ \A t \in Wireless : Sends(t, wireless_connect(k))
<1>1. CASE clock = 0
  BY <1>1, NoPacket DEF wireless_connect
<1>2. CASE clock # 0
  <2>1. PICK ps : ps = <<[cmd |-> "CONNECT", host |-> 0]>>
    OBVIOUS
  <2>2. ps \in Seq(Packet) /\ \A t \in Wireless : \A i \in DOMAIN ps : Keeps(t, ps[i])
    BY <2>1, OnePacket DEF Keeps, Wireless
  <2>3. PICK n : n = [k EXCEPT !.state = "RECONNECTING"]
    OBVIOUS
  <2>4. wireless_connect(k) = Answer(n, ps)
    BY <1>2, <2>1, <2>3 DEF wireless_connect
  <2>5. n \in Firmware /\ Gentle(k, Answer(n, ps))
    BY <2>2, <2>3, NotConnected DEF Idle
  <2> QED
    BY <2>2, <2>4, <2>5, AnswerIsAnswer DEF Sends
<1> QED
  BY <1>1, <1>2

LEMMA ConnectExIsGentle ==
    ASSUME NEW k \in Firmware, NEW h \in Links \cup {LastHost}
    PROVE  /\ Gentle(k, wireless_connect_ex(k, h))
           /\ \A t \in Wireless : (h \in Hosts \cup {LastHost} <=> t = "BLUETOOTH")
                                      => Sends(t, wireless_connect_ex(k, h))
           /\ \/ wireless_connect_ex(k, h) = Answer(k, <<>>) /\ k.host_index = h /\ k.state = "CONNECTED"
              \/ wireless_connect_ex(k, h) =
                     Answer([k EXCEPT !.state = "RECONNECTING", !.host_index = h],
                            <<[cmd |-> "CONNECT", host |-> h]>>)
<1>1. CASE k.host_index = h /\ k.state = "CONNECTED"
  BY <1>1, NoPacket DEF wireless_connect_ex
<1>2. CASE ~(k.host_index = h /\ k.state = "CONNECTED")
  <2>1. PICK ps : ps = <<[cmd |-> "CONNECT", host |-> h]>>
    OBVIOUS
  <2>2. /\ ps \in Seq(Packet)
        /\ \A t \in Wireless : (h \in Hosts \cup {LastHost} <=> t = "BLUETOOTH")
               => \A i \in DOMAIN ps : Keeps(t, ps[i])
    BY <2>1, OnePacket DEF Keeps, Wireless, Links
  <2>3. PICK n : n = [k EXCEPT !.state = "RECONNECTING", !.host_index = h]
    OBVIOUS
  <2>4. wireless_connect_ex(k, h) = Answer(n, ps)
    BY <1>2, <2>1, <2>3 DEF wireless_connect_ex
  <2>5. n \in Firmware /\ Gentle(k, Answer(n, ps))
    BY <2>2, <2>3, OtherHost DEF Idle
  <2>6. \A t \in Wireless : (h \in Hosts \cup {LastHost} <=> t = "BLUETOOTH")
            => Sends(t, Answer(n, ps))
    BY <2>2, <2>5, AnswerIsAnswer DEF Sends
  <2> QED
    BY <2>1, <2>3, <2>4, <2>5, <2>6, Zenon
<1> QED
  BY <1>1, <1>2

LEMMA PairingIsGentle ==
    ASSUME NEW k \in Firmware
    PROVE  /\ Gentle(k, wireless_pairing_ex(k, 0))
           /\ \A t \in Wireless : Sends(t, wireless_pairing_ex(k, 0))
<1>1. PICK ps : ps = <<[cmd |-> "PAIRING", host |-> 0]>>
  OBVIOUS
<1>2. ps \in Seq(Packet) /\ \A t \in Wireless : \A i \in DOMAIN ps : Keeps(t, ps[i])
  BY <1>1, OnePacket DEF Keeps, Wireless
<1>3. PICK n : n = [k EXCEPT !.state = "PARING", !.host_index = 0]
  OBVIOUS
<1>4. wireless_pairing_ex(k, 0) = Answer(n, ps)
  BY <1>1, <1>3 DEF wireless_pairing_ex
<1>5. n \in Firmware /\ Gentle(k, Answer(n, ps))
  BY <1>2, <1>3, OtherHost DEF Idle
<1> QED
  BY <1>2, <1>4, <1>5, AnswerIsAnswer DEF Sends

LEMMA SendIsGentle ==
    ASSUME NEW k \in Firmware
    PROVE  /\ Gentle(k, Send(k))
           /\ \A t \in Wireless : Sends(t, Send(k))
           /\ k.driver = "chibios" => \A t : Sends(t, Send(k))
BY NoPacket, ConnectIsGentle DEF Send

LEMMA DisconnectedIsGentle ==
    ASSUME NEW k \in Firmware
    PROVE  /\ Gentle(k, wireless_enter_disconnected(k))
           /\ wireless_enter_disconnected(k).kb.state # "CONNECTED"
           /\ wireless_enter_disconnected(k).kb.pairing_key = k.pairing_key
           /\ \A t \in Wireless : Sends(t, wireless_enter_disconnected(k))
           /\ k.transport # "BLUETOOTH" => \A t : Sends(t, wireless_enter_disconnected(k))
<1>1. PICK d : d = [k EXCEPT !.state = "DISCONNECTED"]
  OBVIOUS
<1>2. d \in Firmware /\ Gentle(k, Answer(d, <<>>)) /\ d.state = "DISCONNECTED" /\ d.transport = k.transport
  <2>1. PICK ps : ps = <<>> /\ ps \in Seq(Packet)
    BY NoPacket
  <2>2. "DISCONNECTED" \in Idle /\ ps \in Seq(Packet)
    BY <2>1 DEF Idle
  <2>3. d \in Firmware /\ Gentle(k, Answer(d, ps)) /\ d.state = "DISCONNECTED" /\ d.transport = k.transport
    BY <1>1, <2>2, NotConnected, Zenon
  <2> QED
    BY <2>1, <2>3
<1>3. PICK c : c = IF k.transport = "BLUETOOTH" THEN wireless_connect(d) ELSE Answer(d, <<>>)
  OBVIOUS
<1>4. /\ Gentle(d, c) /\ \A t \in Wireless : Sends(t, c)
      /\ k.transport # "BLUETOOTH" => \A t : Sends(t, c)
  BY <1>2, <1>3, ConnectIsGentle, NoPacket
<1>5. PICK f : f = [c EXCEPT !.kb.firstDisconnect = FALSE]
  OBVIOUS
<1>6. /\ Gentle(k, f) /\ f.kb.state # "CONNECTED" /\ f.packets = c.packets
      /\ f.kb.pairing_key = k.pairing_key /\ d.pairing_key = k.pairing_key
  <2>1. c \in Answers /\ c.kb \in Firmware /\ c.packets \in Seq(Packet)
    BY <1>4 DEF Gentle, Answers
  <2>2. f.kb = [c.kb EXCEPT !.firstDisconnect = FALSE] /\ f.packets = c.packets
    BY <1>5, <2>1 DEF Answers
  <2>3. f.kb \in Firmware
    BY <2>1, <2>2 DEF Firmware
  <2>4. f \in Answers
    BY <1>5, <2>1, <2>3 DEF Answers
  <2>5. c.kb.state # "CONNECTED"
    BY <1>2, <1>4 DEF Gentle
  <2>6. /\ f.kb.transport = c.kb.transport /\ f.kb.driver = c.kb.driver
        /\ f.kb.time = c.kb.time /\ f.kb.saved = c.kb.saved /\ f.kb.state = c.kb.state
        /\ f.kb.pairing_key = c.kb.pairing_key
    BY <2>1, <2>2 DEF Firmware
  <2>7. /\ d.transport = k.transport /\ d.driver = k.driver /\ d.time = k.time /\ d.saved = k.saved
        /\ d.pairing_key = k.pairing_key
    BY <1>1 DEF Firmware
  <2>8. c.kb.pairing_key = d.pairing_key
    BY <1>2, <1>3 DEF wireless_connect, Answer, Firmware
  <2> QED
    BY <1>4, <2>2, <2>4, <2>5, <2>6, <2>7, <2>8 DEF Gentle
<1>7. wireless_enter_disconnected(k) \in {Answer(d, <<>>), f}
  BY <1>1, <1>3, <1>5 DEF wireless_enter_disconnected
<1>8. /\ Answer(d, <<>>).kb = d /\ d.state # "CONNECTED"
      /\ \A t : Sends(t, Answer(d, <<>>))
  BY <1>2, AnswerIsAnswer, NoPacket
<1> QED
  BY <1>2, <1>4, <1>6, <1>7, <1>8 DEF Sends

-----------------------------------------------------------------------------
(***************************************************************************)
(* Steps that stay in the mode                                             *)
(***************************************************************************)
\* What such a step sends suits the mode.
Suits(a) == IF kb.transport \in Wireless THEN Sends(kb.transport, a)
            ELSE a.kb.pairing_key = 0 /\ \A t : Sends(t, a)

LEMMA SuitsKeeps ==
    ASSUME TypeOK, NEW a \in Answers, Call(a), UNCHANGED radio, Suits(a),
           kb.transport' = kb.transport
    PROVE  /\ AtHome => AtHome'
           /\ kb.transport \in Wireless => (Settled(kb.transport) => Settled(kb.transport)')
           /\ kb.transport \notin Wireless =>
                  \A t : Settled(t) => Settled(t)'
<1>1. /\ cmds \in Seq(Packet) /\ a.packets \in Seq(Packet) /\ cmds' = cmds \o a.packets
  BY DEF TypeOK, Call, Answers
<1>2. ASSUME NEW t, Sends(t, a)
      PROVE  (Settled(t) => Settled(t)') /\ (Moving(t) => Moving(t)')
  BY <1>1, <1>2, KeepersAppended DEF Sends
<1>3. PICK h : h = Home
  OBVIOUS
<1>4. Sends(h, a) /\ Home' = h
  BY <1>3 DEF Suits, Home
<1>5. AtHome => AtHome'
  <2>1. (Settled(h) => Settled(h)') /\ (Moving(h) => Moving(h)')
    BY <1>2, <1>4
  <2>2. AtHome = (Settled(h) \/ Moving(h))
    BY <1>3 DEF AtHome
  <2>3. (Settled(h)' \/ Moving(h)') => AtHome'
    BY <1>4 DEF AtHome, Settled, Moving, Owned, Keeps, Moves
  <2> QED
    BY <2>1, <2>2, <2>3
<1>6. ASSUME kb.transport \in Wireless PROVE Settled(kb.transport) => Settled(kb.transport)'
  <2>1. h = kb.transport /\ kb.transport' = h
    BY <1>3, <1>6 DEF Home
  <2>2. Settled(h) => Settled(h)'
    BY <1>2, <1>4
  <2> QED
    BY <2>1, <2>2 DEF Settled, Owned, Keeps
<1>7. ASSUME kb.transport \notin Wireless PROVE \A t : Settled(t) => Settled(t)'
  BY <1>2, <1>7 DEF Suits
<1> QED
  BY <1>5, <1>6, <1>7

LEMMA GentleKeeps ==
    ASSUME Inv, NEW a, Gentle(kb, a), Call(a), UNCHANGED <<clock, pins, usb, events, radio>>,
           past' \in History, past'.carried = past.carried,
           PromptModule /\ ~past.carried => Suits(a),
           pc' = pc \/ (pc = "common" /\ pc' = "usb")
    PROVE  Inv'
<1>1. /\ TypeOK /\ TypeOK' /\ a \in Answers
      /\ kb'.transport = kb.transport /\ kb'.driver = kb.driver /\ kb'.time = kb.time
      /\ kb'.state = "CONNECTED" => kb.state = "CONNECTED" /\ kb'.host_index = kb.host_index
  BY DEF Inv, TypeOK, Gentle, Answers, Call
<1>2. LinkKnown'
  BY <1>1 DEF Inv, LinkKnown
<1>3. NoDongle => NoDongle'
  BY <1>1 DEF NoDongle
<1>4. ASSUME PromptModule /\ ~past'.carried PROVE (AtHome /\ LeftBehind /\ Follows /\ Resting)'
  <2>1. AtHome /\ LeftBehind /\ Follows /\ Resting /\ Suits(a)
    BY <1>4 DEF Inv
  <2>2. /\ AtHome'
        /\ kb.transport \in Wireless => (Settled(kb.transport) => Settled(kb.transport)')
        /\ kb.transport \notin Wireless => \A t : Settled(t) => Settled(t)'
    BY <1>1, <2>1, SuitsKeeps
  <2>3. LeftBehind'
    BY <1>1, <1>3, <2>1, <2>2 DEF LeftBehind
  <2>4. Follows'
    BY <1>1, <2>1 DEF Follows, Suits, Call
  <2>5. Resting'
    <3>1. Elapsed(kb.time)' = Elapsed(kb.time)
      BY <1>1 DEF Elapsed
    <3> QED
      BY <1>1, <1>3, <2>1, <2>2, <3>1 DEF Resting, TypeOK
  <2> QED
    BY <2>2, <2>3, <2>4, <2>5
<1> QED
  BY <1>1, <1>2, <1>4 DEF Inv

LEMMA HistoryFields ==
    ASSUME TypeOK, past.keys < MaxKeys, NEW h \in Links
    PROVE  /\ [past EXCEPT !.keys = @ + 1] \in History
           /\ [past EXCEPT !.keys = @ + 1].carried = past.carried
           /\ [past EXCEPT !.keys = @ + 1, !.held = @ \cup {h}] \in History
           /\ [past EXCEPT !.keys = @ + 1, !.held = @ \cup {h}].carried = past.carried
<1>1. past.keys + 1 \in 0 .. MaxKeys
  BY TransportAssumption DEF TypeOK, History
<1> QED
  BY <1>1 DEF TypeOK, History

LEMMA KeyPressKeeps == ASSUME Inv, KeyPress PROVE Inv'
<1>1. /\ kb \in Firmware /\ past' \in History /\ past'.carried = past.carried
  BY HistoryFields DEF Inv, TypeOK, KeyPress, Links
<1>2. Gentle(kb, Send(kb)) /\ (PromptModule /\ ~past.carried => Suits(Send(kb)))
  <2>1. Send(kb).kb.pairing_key = kb.pairing_key
    BY <1>1 DEF Send, wireless_connect, Answer, Firmware
  <2> QED
    BY <1>1, <2>1, SendIsGentle DEF Inv, Suits, Follows
<1> QED
  BY <1>1, <1>2, GentleKeeps DEF KeyPress

LEMMA ToggleNkroKeeps == ASSUME Inv, ToggleNkro PROVE Inv'
<1>1. /\ kb \in Firmware /\ past' \in History /\ past'.carried = past.carried
  BY HistoryFields DEF Inv, TypeOK, ToggleNkro, Links
<1>2. PICK c \in {Answer(kb, <<>>), Send(kb)} : Call([c EXCEPT !.kb.nkro = ~@])
  BY DEF ToggleNkro
<1>3. Gentle(kb, c) /\ (PromptModule /\ ~past.carried => Suits(c)) /\ c.kb.pairing_key = kb.pairing_key
  <2>1. /\ Send(kb).kb.pairing_key = kb.pairing_key
        /\ Answer(kb, <<>>).kb.pairing_key = kb.pairing_key
    BY <1>1 DEF Send, wireless_connect, Answer, Firmware
  <2> QED
    BY <1>1, <2>1, SendIsGentle, NoPacket DEF Inv, Suits, Follows
<1>4. PICK n : n = [c EXCEPT !.kb.nkro = ~@]
  OBVIOUS
<1>5. Gentle(kb, n) /\ n.kb.pairing_key = kb.pairing_key /\ n.packets = c.packets
  <2>1. c \in Answers /\ c.kb \in Firmware
    BY <1>3 DEF Gentle, Answers
  <2>2. n.kb = [c.kb EXCEPT !.nkro = ~@] /\ n.packets = c.packets
    BY <1>4, <2>1 DEF Answers
  <2>3. n.kb \in Firmware
    BY <2>1, <2>2 DEF Firmware
  <2>4. n \in Answers
    BY <1>4, <2>1, <2>3 DEF Answers
  <2>5. /\ n.kb.transport = c.kb.transport /\ n.kb.driver = c.kb.driver
        /\ n.kb.time = c.kb.time /\ n.kb.saved = c.kb.saved /\ n.kb.state = c.kb.state
        /\ n.kb.host_index = c.kb.host_index /\ n.kb.pairing_key = c.kb.pairing_key
    BY <2>1, <2>2 DEF Firmware
  <2> QED
    BY <1>3, <2>2, <2>4, <2>5 DEF Gentle
<1>6. PromptModule /\ ~past.carried => Suits(n)
  BY <1>3, <1>5 DEF Suits, Sends
<1> QED
  BY <1>1, <1>2, <1>4, <1>5, <1>6, GentleKeeps DEF ToggleNkro

\* The pairing timer is no part of the link.
LEMMA PairingKey ==
    ASSUME NEW k \in Firmware, NEW v \in Time, NEW n, n = [k EXCEPT !.pairing_key = v], NEW a
    PROVE  /\ n \in Firmware /\ n.pairing_key = v
           /\ n.transport = k.transport /\ n.driver = k.driver
           /\ Gentle(n, a) => Gentle(k, a)
<1>1. n \in Firmware /\ n.pairing_key = v
  BY DEF Firmware
<1>2. /\ n.transport = k.transport /\ n.driver = k.driver /\ n.time = k.time
      /\ n.saved = k.saved /\ n.state = k.state /\ n.host_index = k.host_index
  BY DEF Firmware
<1> QED
  BY <1>1, <1>2 DEF Gentle

LEMMA HostKeyPressKeeps == ASSUME Inv, NEW h \in Links, HostKeyPress(h) PROVE Inv'
<1>1. /\ kb \in Firmware /\ past' \in History /\ past'.carried = past.carried /\ clock \in Time
  BY HistoryFields DEF Inv, TypeOK, HostKeyPress
<1>2. CASE kb.transport # HostKeyMode(h)
  <2>1. Call(Answer(kb, <<>>))
    BY <1>2 DEF HostKeyPress
  <2>2. Gentle(kb, Answer(kb, <<>>)) /\ (PromptModule /\ ~past.carried => Suits(Answer(kb, <<>>)))
    BY <1>1, NoPacket DEF Inv, Suits, Follows, Answer
  <2> QED
    BY <1>1, <2>1, <2>2, GentleKeeps DEF HostKeyPress
<1>3. CASE kb.transport = HostKeyMode(h)
  <2>1. PICK k : k = [kb EXCEPT !.pairing_key = clock]
    OBVIOUS
  <2>2. PICK a : a = IF h = P24G_INDEX THEN Answer(k, <<>>) ELSE wireless_connect_ex(k, h)
    OBVIOUS
  <2>3. Call(a)
    BY <1>3, <2>1, <2>2 DEF HostKeyPress
  <2>4. k \in Firmware /\ k.transport = kb.transport /\ (Gentle(k, a) => Gentle(kb, a))
    BY <1>1, <2>1, PairingKey
  <2>5. Gentle(k, a)
    BY <2>2, <2>4, NoPacket, ConnectExIsGentle DEF Links
  <2>6. kb.transport \in Wireless
    BY <1>3 DEF HostKeyMode, Wireless
  <2>7. Sends(kb.transport, a)
    <3>1. CASE h = P24G_INDEX
      BY <2>2, <2>4, <3>1, NoPacket
    <3>2. CASE h # P24G_INDEX
      BY <1>3, <2>2, <2>4, <2>6, <3>2, ConnectExIsGentle DEF Links, HostKeyMode
    <3> QED
      BY <3>1, <3>2
  <2> QED
    BY <1>1, <2>3, <2>4, <2>5, <2>6, <2>7, GentleKeeps DEF HostKeyPress, Suits
<1> QED
  BY <1>2, <1>3

LEMMA HostKeyReleaseKeeps == ASSUME Inv, NEW h \in Links, HostKeyRelease(h) PROVE Inv'
<1>1. /\ kb \in Firmware /\ past' \in History /\ past'.carried = past.carried /\ 0 \in Time
  <2>1. past \in History /\ past' = [past EXCEPT !.held = @ \ {h}] /\ kb \in Firmware
    BY DEF Inv, TypeOK, HostKeyRelease
  <2>2. past.held \ {h} \in SUBSET Links
    BY <2>1 DEF History
  <2>3. past' \in History /\ past'.carried = past.carried
    BY <2>1, <2>2 DEF History
  <2> QED
    BY <2>1, <2>3, TransportAssumption DEF Time
<1>2. PICK k : k = [kb EXCEPT !.pairing_key = 0]
  OBVIOUS
<1>3. PICK n : n = IF kb.transport = HostKeyMode(h) THEN k ELSE kb
  OBVIOUS
<1>4. k \in Firmware /\ k.pairing_key = 0 /\ k.transport = kb.transport
  BY <1>1, <1>2, PairingKey, Zenon
<1>5. n \in Firmware /\ n.pairing_key \in {0, kb.pairing_key}
  BY <1>1, <1>3, <1>4
<1>6. Gentle(kb, Answer(n, <<>>))
  <2>1. Gentle(kb, Answer(kb, <<>>)) /\ Gentle(k, Answer(k, <<>>))
    BY <1>1, <1>4, NoPacket
  <2>2. Gentle(kb, Answer(k, <<>>))
    BY <1>1, <1>2, <2>1, PairingKey, Zenon
  <2> QED
    BY <1>3, <2>1, <2>2
<1>7. PromptModule /\ ~past.carried => Suits(Answer(n, <<>>))
  BY <1>5, NoPacket, AnswerIsAnswer DEF Inv, Suits, Follows
<1>8. Call(Answer(n, <<>>))
  BY <1>2, <1>3 DEF HostKeyRelease
<1> QED
  BY <1>1, <1>6, <1>7, <1>8, GentleKeeps DEF HostKeyRelease

LEMMA CommonTaskKeeps == ASSUME Inv, CommonTask PROVE Inv'
<1>1. /\ kb \in Firmware /\ past \in History /\ 0 \in Time /\ cmds \in Seq(Packet)
  BY TransportAssumption DEF Inv, TypeOK, Time
<1>2. CASE kb.pairing_key # 0 /\ Elapsed(kb.pairing_key) > PairTime
  <2>1. PICK k : k = [kb EXCEPT !.pairing_key = 0]
    OBVIOUS
  <2>2. PICK a : a = wireless_pairing_ex(k, 0)
    OBVIOUS
  <2>3. Call(a) /\ UNCHANGED past
    BY <1>2, <2>1, <2>2 DEF CommonTask
  <2>4. k \in Firmware /\ (Gentle(k, a) => Gentle(kb, a))
    BY <1>1, <2>1, PairingKey, Zenon
  <2>5. Gentle(kb, a) /\ \A t \in Wireless : Sends(t, a)
    BY <2>2, <2>4, PairingIsGentle
  <2>6. PromptModule /\ ~past.carried => Suits(a)
    BY <1>2, <2>5 DEF Inv, Follows, Suits
  <2> QED
    BY <1>1, <2>3, <2>5, <2>6, GentleKeeps DEF CommonTask
<1>3. CASE ~(kb.pairing_key # 0 /\ Elapsed(kb.pairing_key) > PairTime)
  <2>1. UNCHANGED <<kb, cmds, past>>
    BY <1>3 DEF CommonTask
  <2>2. Call(Answer(kb, <<>>))
    BY <1>1, <2>1 DEF Call, Answer
  <2>3. Gentle(kb, Answer(kb, <<>>)) /\ (PromptModule /\ ~past.carried => Suits(Answer(kb, <<>>)))
    BY <1>1, NoPacket DEF Inv, Suits, Follows, Answer
  <2> QED
    BY <1>1, <2>1, <2>2, <2>3, GentleKeeps DEF CommonTask
<1> QED
  BY <1>2, <1>3

-----------------------------------------------------------------------------
(***************************************************************************)
(* Events, the module and the environment                                  *)
(***************************************************************************)
\* The firmware takes an event: only that of a new link makes it connected.
LEMMA HandleEventIs ==
    ASSUME NEW k \in Firmware, NEW e \in LinkEvent, NEW a, a = HandleEvent(k, e)
    PROVE  /\ a \in Answers
           /\ a.kb.transport = k.transport /\ a.kb.driver = k.driver
           /\ a.kb.time = k.time /\ a.kb.saved = k.saved
           /\ a.kb.pairing_key = k.pairing_key
           /\ a.kb.state = "CONNECTED" => e.type = "CONNECTED" /\ a.kb.host_index = e.host
           /\ k.transport # "BLUETOOTH" => \A t : Sends(t, a)
           /\ \A t \in Wireless : Sends(t, a)
<1>1. CASE e.type = "DISCONNECTED"
  <2>1. a = wireless_enter_disconnected(k)
    BY <1>1 DEF HandleEvent
  <2> QED
    BY <2>1, DisconnectedIsGentle DEF Gentle
<1>2. CASE e.type # "DISCONNECTED"
  <2>1. PICK s \in {"CONNECTED", "RECONNECTING", "PARING"} :
            /\ a = Answer([k EXCEPT !.state = s, !.host_index = e.host], <<>>)
            /\ s = "CONNECTED" => e.type = "CONNECTED"
    BY <1>2 DEF HandleEvent, LinkEvent
  <2>2. PICK n : n = [k EXCEPT !.state = s, !.host_index = e.host]
    OBVIOUS
  <2>3. n \in Firmware
    BY <2>2 DEF Firmware, LinkEvent
  <2>4. /\ n.state = s /\ n.host_index = e.host
        /\ n.transport = k.transport /\ n.driver = k.driver /\ n.time = k.time
        /\ n.saved = k.saved /\ n.pairing_key = k.pairing_key
    BY <2>2 DEF Firmware
  <2>5. a = Answer(n, <<>>)
    BY <2>1, <2>2
  <2>6. a \in Answers /\ a.kb = n /\ \A t : Sends(t, a)
    BY <2>3, <2>5, NoPacket, AnswerIsAnswer
  <2>7. s = "CONNECTED" => e.type = "CONNECTED"
    BY <2>1
  <2> QED
    BY <2>4, <2>6, <2>7
<1> QED
  BY <1>1, <1>2

LEMMA EventStepKeeps == ASSUME Inv, EventStep PROVE Inv'
<1>1. /\ TypeOK /\ LinkKnown /\ kb \in Firmware /\ events \in Seq(LinkEvent) /\ events # <<>>
      /\ Head(events) = events[1] /\ Len(events) \in Nat \ {0}
      /\ Len(events') = Len(events) - 1 /\ events' \in Seq(LinkEvent)
      /\ \A i \in 1 .. Len(events') : events'[i] = events[i + 1] /\ i + 1 \in 1 .. Len(events)
      /\ pc = "events" /\ UNCHANGED <<pc, clock, pins, usb, radio, past>>
  BY DEF Inv, TypeOK, EventStep
<1>2. PICK e \in LinkEvent : e = events[1]
  BY <1>1
<1>3. PICK a : a = HandleEvent(kb, e)
  OBVIOUS
<1>4. /\ Call(a) /\ a \in Answers /\ kb' = a.kb
      /\ kb'.transport = kb.transport /\ kb'.driver = kb.driver /\ kb'.time = kb.time
      /\ a.kb.pairing_key = kb.pairing_key
      /\ kb'.state = "CONNECTED" => e.type = "CONNECTED" /\ kb'.host_index = e.host
      /\ kb.transport # "BLUETOOTH" => \A t : Sends(t, a)
      /\ \A t \in Wireless : Sends(t, a)
  <2>1. Call(a) /\ kb' = a.kb
    BY <1>1, <1>2, <1>3 DEF EventStep, Call
  <2> QED
    BY <1>1, <1>3, <2>1, HandleEventIs
<1>5. TypeOK'
  BY <1>1, <1>4 DEF TypeOK, Call, Answers
<1>6. LinkKnown'
  <2>1. e.host # LastHost
    BY Distinct DEF LinkEvent, LastHost
  <2>2. events' = <<>> => Len(events) = 1
    BY <1>1
  <2>3. events' # <<>> => Len(events') \in 1 .. Len(events') /\ Len(events') + 1 = Len(events)
    BY <1>1
  <2> QED
    BY <1>1, <1>2, <1>4, <2>1, <2>2, <2>3 DEF LinkKnown
<1>7. NoDongle => NoDongle'
  <2>1. DOMAIN events = 1 .. Len(events) /\ DOMAIN events' = 1 .. Len(events') /\ 1 \in DOMAIN events
    BY <1>1
  <2> QED
    BY <1>1, <1>2, <1>4, <2>1 DEF NoDongle
<1>8. ASSUME PromptModule /\ ~past'.carried PROVE (AtHome /\ LeftBehind /\ Follows /\ Resting)'
  <2>1. AtHome /\ LeftBehind /\ Follows /\ Resting
    BY <1>1, <1>8 DEF Inv
  <2>2. Suits(a)
    BY <1>4, <2>1 DEF Suits, Follows, Wireless
  <2>3. /\ AtHome'
        /\ kb.transport \in Wireless => (Settled(kb.transport) => Settled(kb.transport)')
        /\ kb.transport \notin Wireless => \A t : Settled(t) => Settled(t)'
    BY <1>1, <1>4, <2>1, <2>2, SuitsKeeps
  <2>4. LeftBehind'
    BY <1>4, <1>7, <2>1, <2>3 DEF LeftBehind
  <2>5. Follows'
    BY <1>4, <2>1 DEF Follows
  <2>6. Resting'
    <3>1. Elapsed(kb.time)' = Elapsed(kb.time)
      BY <1>1, <1>4 DEF Elapsed
    <3> QED
      BY <1>1, <1>4, <1>7, <2>1, <2>3, <3>1 DEF Resting
  <2> QED
    BY <2>3, <2>4, <2>5, <2>6
<1> QED
  BY <1>5, <1>6, <1>8 DEF Inv

\* When its events are handled, Bluetooth knows no dongle that is not there.
LEMMA EventsDoneKeeps == ASSUME Inv, EventsDone PROVE Inv'
<1>1. pc = "events" /\ pc' = "common" /\ events = <<>> /\ UNCHANGED <<clock, pins, usb, kb, cmds, events, radio, past>>
  BY DEF EventsDone
<1>2. (TypeOK /\ LinkKnown)'
  BY <1>1 DEF Inv, TypeOK, LinkKnown
<1>3. ASSUME PromptModule /\ ~past.carried PROVE (AtHome /\ LeftBehind /\ Follows /\ Resting)'
  <2>1. AtHome /\ LeftBehind /\ Follows /\ Resting
    BY <1>3 DEF Inv
  <2>2. (AtHome /\ LeftBehind /\ Follows)'
    BY <1>1, <2>1 DEF AtHome, Home, LeftBehind, Follows, Settled, Moving, Owned, Keeps, Moves, NoDongle
  <2>3. Settled("BLUETOOTH") => NoDongle
    BY <1>1, Distinct DEF Inv, LinkKnown, Settled, Owned, NoDongle
  <2>4. Resting'
    <3>1. Elapsed(kb.time)' = Elapsed(kb.time) /\ (Settled(kb.transport) => Settled(kb.transport)')
          /\ (NoDongle => NoDongle')
      BY <1>1 DEF Elapsed, Settled, Owned, Keeps, NoDongle
    <3> QED
      BY <1>1, <2>1, <2>3, <3>1 DEF Resting
  <2> QED
    BY <2>2, <2>4
<1> QED
  BY <1>1, <1>2, <1>3 DEF Inv

\* The module takes a packet.  It never reports a link with that.
LEMMA RadioCommandKeeps == ASSUME Inv, RadioCommand PROVE Inv'
<1>1. /\ TypeOK /\ LinkKnown /\ cmds \in Seq(Packet) /\ cmds # <<>> /\ cmds' = Tail(cmds)
      /\ events \in Seq(LinkEvent) /\ radio.host \in Links
      /\ radio \in [mode : {"idle", "linking", "pairing", "up"}, host : Links]
      /\ UNCHANGED <<pc, clock, pins, usb, kb, past>>
  BY DEF Inv, TypeOK, RadioCommand
<1>2. \A h \in Links \cup {0, LastHost} : Target(h) \in Links
  BY <1>1, TransportAssumption DEF Target, Links
<1>3. Head(cmds).cmd # "DISCONNECT" => Target(Head(cmds).host) \in Links
  <2>1. Head(cmds) \in Packet
    BY <1>1
  <2> QED
    BY <1>2, <2>1 DEF Packet
<1>4. \/ UNCHANGED <<radio, events>>
      \/ radio.mode = "idle" /\ radio' = [radio EXCEPT !.mode = "idle"] /\ UNCHANGED events
      \/ /\ radio' \in [mode : {"idle", "linking", "pairing"}, host : Links]
         /\ \E es \in Seq(LinkEvent) :
                /\ events' = events \o es /\ es # <<>>
                /\ \A i \in DOMAIN es : es[i].type # "CONNECTED"
  <2>1. ASSUME NEW t \in {"RECONNECTING", "DISCOVERABLE"}, Head(cmds).cmd # "DISCONNECT",
               events' = events \o LinkDown \o <<Event(t, Target(Head(cmds).host))>>
        PROVE  \E es \in Seq(LinkEvent) :
                   /\ events' = events \o es /\ es # <<>>
                   /\ \A i \in DOMAIN es : es[i].type # "CONNECTED"
    <3>1. PICK e \in LinkEvent : e = Event(t, Target(Head(cmds).host))
      BY <1>3, <2>1 DEF Event, LinkEvent
    <3>2. PICK d \in LinkEvent : d = Event("DISCONNECTED", radio.host)
      BY <1>1 DEF Event, LinkEvent
    <3>3. e.type # "CONNECTED" /\ d.type # "CONNECTED"
      BY <3>1, <3>2 DEF Event
    <3>4. CASE radio.mode = "up"
      <4>1. <<d, e>> \in Seq(LinkEvent) /\ DOMAIN <<d, e>> = {1, 2} /\ <<d, e>> # <<>>
            /\ <<d, e>>[1] = d /\ <<d, e>>[2] = e /\ events \o <<d>> \o <<e>> = events \o <<d, e>>
        BY <1>1
      <4>2. events' = events \o <<d, e>>
        BY <2>1, <3>1, <3>2, <3>4, <4>1 DEF LinkDown
      <4> QED
        BY <3>3, <4>1, <4>2
    <3>5. CASE radio.mode # "up"
      <4>1. <<e>> \in Seq(LinkEvent) /\ DOMAIN <<e>> = {1} /\ <<e>> # <<>>
            /\ <<e>>[1] = e /\ events \o <<>> \o <<e>> = events \o <<e>>
        BY <1>1
      <4>2. events' = events \o <<e>>
        BY <2>1, <3>1, <3>5, <4>1 DEF LinkDown
      <4> QED
        BY <3>3, <4>1, <4>2
    <3> QED
      BY <3>4, <3>5
  <2>2. CASE Head(cmds).cmd = "CONNECT"
    <3>1. CASE radio.mode = "up" /\ Target(Head(cmds).host) = radio.host
      BY <2>2, <3>1 DEF RadioCommand
    <3>2. CASE ~(radio.mode = "up" /\ Target(Head(cmds).host) = radio.host)
      <4>1. /\ radio' = [mode |-> "linking", host |-> Target(Head(cmds).host)]
            /\ events' = events \o LinkDown \o <<Event("RECONNECTING", Target(Head(cmds).host))>>
        BY <2>2, <3>2 DEF RadioCommand
      <4>2. radio' \in [mode : {"idle", "linking", "pairing"}, host : Links]
        BY <1>3, <2>2, <4>1
      <4> QED
        BY <2>1, <2>2, <4>1, <4>2
    <3> QED
      BY <3>1, <3>2
  <2>3. CASE Head(cmds).cmd = "PAIRING"
    <3>1. /\ radio' = [mode |-> "pairing", host |-> Target(Head(cmds).host)]
          /\ events' = events \o LinkDown \o <<Event("DISCOVERABLE", Target(Head(cmds).host))>>
      BY <2>3 DEF RadioCommand
    <3>2. radio' \in [mode : {"idle", "linking", "pairing"}, host : Links]
      BY <1>3, <2>3, <3>1
    <3> QED
      BY <2>1, <2>3, <3>1, <3>2
  <2>4. CASE Head(cmds).cmd = "DISCONNECT"
    <3>1. radio' = [radio EXCEPT !.mode = "idle"]
      BY <2>4 DEF RadioCommand
    <3>2. CASE radio.mode = "idle"
      BY <2>4, <3>1, <3>2 DEF RadioCommand
    <3>3. CASE radio.mode # "idle"
      <4>1. PICK d \in LinkEvent : d = Event("DISCONNECTED", radio.host)
        BY <1>1 DEF Event, LinkEvent
      <4>2. <<d>> \in Seq(LinkEvent) /\ DOMAIN <<d>> = {1} /\ <<d>> # <<>>
            /\ <<d>>[1] = d /\ Append(events, d) = events \o <<d>> /\ d.type # "CONNECTED"
        BY <1>1, <4>1 DEF Event
      <4>3. events' = events \o <<d>>
        BY <2>4, <3>3, <4>1, <4>2 DEF RadioCommand
      <4> QED
        BY <1>1, <3>1, <4>2, <4>3
    <3> QED
      BY <3>2, <3>3
  <2> QED
    BY <2>2, <2>3, <2>4 DEF RadioCommand
<1>5. TypeOK'
  <2>1. cmds' \in Seq(Packet)
    BY <1>1
  <2>2. events' \in Seq(LinkEvent)
    <3>1. \A es \in Seq(LinkEvent) : events \o es \in Seq(LinkEvent)
      BY <1>1
    <3> QED
      BY <1>1, <1>4, <3>1
  <2>3. radio' \in [mode : {"idle", "linking", "pairing", "up"}, host : Links]
    BY <1>1, <1>4
  <2> QED
    BY <1>1, <2>1, <2>2, <2>3 DEF TypeOK
<1>6. /\ (NoDongle => NoDongle')
      /\ LinkKnown'
  <2>1. CASE UNCHANGED <<radio, events>>
    BY <1>1, <2>1 DEF NoDongle, LinkKnown
  <2>2. CASE radio.mode = "idle" /\ radio' = [radio EXCEPT !.mode = "idle"] /\ UNCHANGED events
    BY <1>1, <2>2 DEF NoDongle, LinkKnown
  <2>3. ASSUME NEW es \in Seq(LinkEvent), events' = events \o es, es # <<>>,
               \A i \in DOMAIN es : es[i].type # "CONNECTED"
        PROVE  (NoDongle => NoDongle') /\ LinkKnown'
    <3>1. /\ Len(es) \in Nat \ {0} /\ Len(events) \in Nat
          /\ Len(events') = Len(events) + Len(es) /\ events' # <<>>
          /\ DOMAIN events' = 1 .. Len(events')
          /\ DOMAIN events = 1 .. Len(events) /\ DOMAIN es = 1 .. Len(es)
          /\ \A i \in DOMAIN events' : events'[i] = IF i <= Len(events) THEN events[i]
                                                    ELSE es[i - Len(events)]
      BY <1>1, <2>3
    <3>2. \A i \in DOMAIN events' : i > Len(events) => events'[i].type # "CONNECTED"
      BY <2>3, <3>1
    <3>3. events'[Len(events')].type # "CONNECTED"
      BY <3>1, <3>2
    <3>4. NoDongle => NoDongle'
      BY <1>1, <3>1, <3>2 DEF NoDongle
    <3> QED
      BY <1>1, <3>1, <3>3, <3>4 DEF LinkKnown
  <2> QED
    BY <1>4, <2>1, <2>2, <2>3
<1>7. ASSUME PromptModule /\ ~past.carried PROVE (AtHome /\ LeftBehind /\ Follows /\ Resting)'
  <2>1. AtHome /\ LeftBehind /\ Follows /\ Resting
    BY <1>7 DEF Inv
  <2>2. \A t \in Transports : /\ Settled(t) => Settled(t)'
                              /\ Moving(t) => Settled(t)' \/ Moving(t)'
    BY <1>1, CommandKeeps
  <2>3. AtHome'
    <3>1. PICK h \in Transports : h = Home
      BY DEF Home, Wireless, Transports
    <3>2. Home' = h
      BY <1>1, <3>1 DEF Home
    <3>3. Settled(h)' \/ Moving(h)'
      BY <2>1, <2>2, <3>1 DEF AtHome
    <3> QED
      BY <3>2, <3>3 DEF AtHome, Settled, Moving, Owned, Keeps, Moves
  <2>4. LeftBehind'
    BY <1>1, <1>6, <2>1, <2>2 DEF LeftBehind, Transports
  <2>5. Follows'
    BY <1>1, <2>1 DEF Follows
  <2>6. Resting'
    <3>1. Elapsed(kb.time)' = Elapsed(kb.time)
      BY <1>1 DEF Elapsed
    <3>2. kb.transport \in Wireless => (Settled(kb.transport) => Settled(kb.transport)')
      BY <1>1, <2>2 DEF Wireless, Transports
    <3> QED
      BY <1>1, <1>6, <2>1, <3>1, <3>2 DEF Resting
  <2> QED
    BY <2>3, <2>4, <2>5, <2>6
<1> QED
  BY <1>1, <1>5, <1>6, <1>7 DEF Inv

LEMMA RadioLinkUpKeeps == ASSUME Inv, RadioLinkUp PROVE Inv'
<1>1. /\ TypeOK /\ LinkKnown /\ events \in Seq(LinkEvent) /\ radio.host \in Links
      /\ UNCHANGED <<pc, clock, pins, usb, kb, cmds, past>>
      /\ radio' \in [mode : {"idle", "linking", "pairing", "up"}, host : Links]
      /\ radio'.mode = "up" /\ radio'.host = radio.host
  BY DEF Inv, TypeOK, RadioLinkUp
<1>2. PICK e \in LinkEvent : e = Event("CONNECTED", radio.host)
  BY <1>1 DEF Event, LinkEvent
<1>3. /\ Len(events) \in Nat /\ events' \in Seq(LinkEvent) /\ events' # <<>>
      /\ Len(events') = Len(events) + 1 /\ events'[Len(events')] = e /\ e.host = radio.host
      /\ DOMAIN events = 1 .. Len(events) /\ DOMAIN events' = 1 .. Len(events) + 1
      /\ \A i \in DOMAIN events : events'[i] = events[i]
  BY <1>1, <1>2 DEF RadioLinkUp, Event
<1>4. TypeOK' /\ LinkKnown'
  BY <1>1, <1>3 DEF TypeOK, LinkKnown
<1>5. Settled("BLUETOOTH") /\ NoDongle => NoDongle'
  <2>1. Settled("BLUETOOTH") => e.host # P24G_INDEX
    BY <1>3, Distinct DEF Settled, Owned
  <2> QED
    BY <1>1, <1>3, <2>1 DEF NoDongle
<1>6. ASSUME PromptModule /\ ~past.carried PROVE (AtHome /\ LeftBehind /\ Follows /\ Resting)'
  <2>1. AtHome /\ LeftBehind /\ Follows /\ Resting
    BY <1>6 DEF Inv
  <2>2. \A t \in Transports : (Settled(t) => Settled(t)') /\ (Moving(t) => Moving(t)')
    BY <1>1, LinkUpKeeps
  <2>3. AtHome'
    <3>1. PICK h \in Transports : h = Home
      BY DEF Home, Wireless, Transports
    <3>2. Home' = h
      BY <1>1, <3>1 DEF Home
    <3>3. Settled(h)' \/ Moving(h)'
      BY <2>1, <2>2, <3>1 DEF AtHome
    <3> QED
      BY <3>2, <3>3 DEF AtHome, Settled, Moving, Owned, Keeps, Moves
  <2>4. LeftBehind'
    BY <1>1, <1>5, <2>1, <2>2 DEF LeftBehind, Transports
  <2>5. Follows'
    BY <1>1, <2>1 DEF Follows
  <2>6. Resting'
    <3>1. Elapsed(kb.time)' = Elapsed(kb.time) /\ Elapsed(kb.time) \in Int
      BY <1>1, TransportAssumption DEF Elapsed, TypeOK, Time, Firmware
    <3>2. kb.transport \in Wireless => (Settled(kb.transport) => Settled(kb.transport)')
      BY <1>1, <2>2 DEF Wireless, Transports
    <3> QED
      BY <1>1, <1>5, <2>1, <3>1, <3>2 DEF Resting
  <2> QED
    BY <2>3, <2>4, <2>5, <2>6
<1> QED
  BY <1>1, <1>4, <1>6 DEF Inv

\* Steps that touch neither the firmware nor the module.
LEMMA ElsewhereKeeps ==
    ASSUME Inv, TypeOK', UNCHANGED <<pc, clock, kb, cmds, events, radio>>,
           past'.carried = past.carried
    PROVE  Inv'
<1>1. LinkKnown' = LinkKnown /\ AtHome' = AtHome /\ LeftBehind' = LeftBehind /\ Follows' = Follows
  BY DEF LinkKnown, AtHome, Home, LeftBehind, Follows, Settled, Moving, Owned, Keeps, Moves, NoDongle
<1>2. Resting' = Resting
  BY DEF Resting, Elapsed, Settled, Owned, Keeps, NoDongle
<1> QED
  BY <1>1, <1>2 DEF Inv

LEMMA MoveSwitchKeeps == ASSUME Inv, MoveSwitch PROVE Inv'
<1>1. past.moves + 1 \in 0 .. MaxMoves
  BY TransportAssumption DEF Inv, TypeOK, History, MoveSwitch
<1>2. past' \in History /\ past'.carried = past.carried
  BY <1>1 DEF Inv, TypeOK, History, MoveSwitch
<1> QED
  BY <1>2, ElsewhereKeeps DEF Inv, TypeOK, MoveSwitch

LEMMA UsbSuspendKeeps == ASSUME Inv, UsbSuspend PROVE Inv'
BY ElsewhereKeeps DEF Inv, TypeOK, UsbSuspend

\* A tick of the clock makes a timer one older.
LEMMA TickElapsed ==
    ASSUME NEW c \in Time, NEW t \in Time, ((c - t) % ClockRange) + 1 < ClockRange
    PROVE  /\ (c + 1) % ClockRange \in Time
           /\ (((c + 1) % ClockRange) - t) % ClockRange = ((c - t) % ClockRange) + 1
<1>1. ClockRange \in Nat /\ ClockRange > 1
  BY TransportAssumption
<1>2. (c + 1) % ClockRange = IF c + 1 = ClockRange THEN 0 ELSE c + 1
  BY <1>1 DEF Time
<1>3. \A d \in 1 - ClockRange .. ClockRange - 1 :
          d % ClockRange = IF d < 0 THEN d + ClockRange ELSE d
  BY <1>1
<1> QED
  BY <1>1, <1>2, <1>3 DEF Time

LEMMA TickType == ASSUME TypeOK, Tick PROVE clock' \in Time
BY TransportAssumption DEF TypeOK, Tick, Time

\* The clock ticks only when the module has seen its packets.
LEMMA RoundEndKeeps == ASSUME Inv, RoundEnd PROVE Inv'
<1>1. /\ TypeOK /\ LinkKnown /\ pc = "usb" /\ pc' = "pre"
      /\ UNCHANGED <<pins, usb, kb, cmds, events, radio, past>> /\ kb.time \in Time /\ clock \in Time
      /\ \/ clock' = clock
         \/ (PromptModule => cmds = <<>>) /\ clock' = (clock + 1) % ClockRange
  BY DEF Inv, TypeOK, Firmware, RoundEnd, Tick
<1>2. TypeOK'
  BY <1>1, TickType DEF TypeOK, RoundEnd
<1>3. LinkKnown' /\ (NoDongle => NoDongle')
  BY <1>1 DEF LinkKnown, NoDongle
<1>4. ASSUME PromptModule /\ ~past.carried PROVE (AtHome /\ LeftBehind /\ Follows /\ Resting)'
  <2>1. AtHome /\ LeftBehind /\ Follows /\ Resting
    BY <1>4 DEF Inv
  <2>2. (AtHome /\ LeftBehind /\ Follows)'
    BY <1>1, <2>1 DEF AtHome, Home, LeftBehind, Follows, Settled, Moving, Owned, Keeps, Moves, NoDongle
  <2>3. Settled(kb.transport) => Settled(kb.transport)'
    BY <1>1 DEF Settled, Owned, Keeps
  <2>4. CASE clock' = clock
    <3>1. Elapsed(kb.time)' = Elapsed(kb.time) /\ Elapsed(kb.time) \in Int
      BY <1>1, <2>4, TransportAssumption DEF Elapsed, Time
    <3>2. Resting'
      BY <1>1, <1>3, <2>1, <2>3, <3>1 DEF Resting
    <3> QED
      BY <2>2, <3>2
  <2>5. CASE (PromptModule => cmds = <<>>) /\ clock' = (clock + 1) % ClockRange
    <3>1. SUFFICES ASSUME kb.transport \in Wireless, kb.time # 0 PROVE Resting'
      BY <1>1, <2>2 DEF Resting
    <3>2. Settled(kb.transport)
      BY <1>4, <2>1, <2>5, <3>1 DEF AtHome, Home, Moving
    <3>3. Elapsed(kb.time) <= SwitchTime /\ Elapsed(kb.time) \in Nat
      BY <1>1, <2>1, <3>1, TransportAssumption DEF Resting, Elapsed, Time
    <3>4. Elapsed(kb.time)' = Elapsed(kb.time) + 1
      BY <1>1, <2>5, <3>3, TickElapsed, TransportAssumption DEF Elapsed
    <3> QED
      BY <1>1, <1>3, <2>1, <2>3, <3>1, <3>2, <3>3, <3>4, TransportAssumption DEF Resting
  <2> QED
    BY <1>1, <2>4, <2>5
<1> QED
  BY <1>1, <1>2, <1>3, <1>4 DEF Inv

-----------------------------------------------------------------------------
(***************************************************************************)
(* wireless_pre_task                                                       *)
(***************************************************************************)
\* k but for the switch and its timer, and the transport.
SameLink(n, k) ==
    /\ n \in Firmware
    /\ n.driver = k.driver /\ n.nkro = k.nkro /\ n.saved = k.saved /\ n.state = k.state
    /\ n.host_index = k.host_index /\ n.pairing_key = k.pairing_key

LEMMA Retimed ==
    ASSUME NEW k \in Firmware, NEW v \in Time, NEW n, n = [k EXCEPT !.time = v]
    PROVE  SameLink(n, k) /\ n.transport = k.transport /\ n.time = v
BY DEF SameLink, Firmware

LEMMA Retransported ==
    ASSUME NEW k \in Firmware, NEW t \in Transports, NEW n, n = [k EXCEPT !.transport = t]
    PROVE  SameLink(n, k) /\ n.transport = t /\ n.time = k.time
BY DEF SameLink, Firmware

\* What set_transport calls for its new mode.
Enable(t, n) == CASE t = "USB" -> EnableUsb(n)
                  [] t = "BLUETOOTH" -> EnableBluetooth(n)
                  [] t = "P2P4" -> EnableP2P4(n)

\* The task keeps the transport and minds its timer, or changes the transport:
\* a wireless one only when the switch has rested.
LEMMA PreTaskIs ==
    ASSUME TypeOK, NEW a, a = wireless_pre_task(kb)
    PROVE  \/ \E n : /\ a = Answer(n, <<>>)
                     /\ SameLink(n, kb) /\ n.transport = kb.transport
                     /\ \/ n.time \in {0, clock}
                        \/ n.time = kb.time /\ Elapsed(kb.time) <= SwitchTime
           \/ \E n : \E t \in Transports \ {kb.transport} :
                     /\ a = Enable(t, n)
                     /\ SameLink(n, kb) /\ n.transport = t /\ n.time = 0
                     /\ kb.transport \in Wireless =>
                            kb.time # 0 /\ Elapsed(kb.time) > SwitchTime
<1> DEFINE Stays(n) == /\ a = Answer(n, <<>>)
                       /\ SameLink(n, kb) /\ n.transport = kb.transport
                       /\ \/ n.time \in {0, clock}
                          \/ n.time = kb.time /\ Elapsed(kb.time) <= SwitchTime
<1>1. /\ kb \in Firmware /\ pins \in Positions /\ clock \in Time /\ 0 \in Time
      /\ SwitchTime \in Nat /\ ClockRange \in Nat \ {0} /\ kb.time \in Time
  BY TransportAssumption DEF TypeOK, Time, Firmware
<1>2. PICK o : o = Noticed(kb)
  OBVIOUS
<1>3. /\ o \in Firmware /\ SameLink(o, kb) /\ o.transport = kb.transport
      /\ \/ o = kb
         \/ o.time = clock /\ kb.time = 0
  <2>1. SameLink(kb, kb)
    BY <1>1 DEF SameLink
  <2>2. o = kb \/ (kb.time = 0 /\ o = [kb EXCEPT !.mode = pins, !.time = clock])
    BY <1>2 DEF Noticed, Restart
  <2>3. PICK r : r = [kb EXCEPT !.mode = pins, !.time = clock]
    OBVIOUS
  <2>4. SameLink(r, kb) /\ r.transport = kb.transport /\ r.time = clock
    <3>1. kb \in Firmware /\ pins \in Positions /\ clock \in Time
      BY <1>1
    <3> QED
      BY <3>1, <2>3 DEF SameLink, Firmware
  <2> QED
    BY <2>1, <2>2, <2>3, <2>4 DEF SameLink
<1>4. Elapsed(clock) = 0 /\ Elapsed(kb.time) \in Nat
  BY <1>1 DEF Elapsed, Time
<1>5. CASE ~(Rested(o) \/ kb.transport = "NONE")
  <2>1. a = Answer(o, <<>>)
    BY <1>2, <1>5 DEF wireless_pre_task
  <2>2. o.time \in {0, clock} \/ (o.time = kb.time /\ Elapsed(kb.time) <= SwitchTime)
    BY <1>1, <1>3, <1>4, <1>5 DEF Rested
  <2>3. Stays(o)
    BY <1>3, <2>1, <2>2
  <2> QED
    BY <2>3
<1>6. CASE Rested(o) \/ kb.transport = "NONE"
  <2>1. a = Settle(o)
    BY <1>2, <1>6 DEF wireless_pre_task
  <2>2. PICK r : r = [o EXCEPT !.mode = pins, !.time = clock]
    OBVIOUS
  <2>3. PICK z : z = [o EXCEPT !.time = 0]
    OBVIOUS
  <2>4. /\ SameLink(r, kb) /\ r.transport = kb.transport /\ r.time = clock
        /\ SameLink(z, kb) /\ z.transport = kb.transport /\ z.time = 0 /\ z \in Firmware
    <3>1. SameLink(r, o) /\ r.transport = o.transport /\ r.time = clock
      <4>1. o \in Firmware /\ pins \in Positions /\ clock \in Time
        BY <1>1, <1>3
      <4> QED
        BY <4>1, <2>2 DEF SameLink, Firmware
    <3>2. SameLink(z, o) /\ z.transport = o.transport /\ z.time = 0
      BY <1>1, <1>3, <2>3, Retimed
    <3> QED
      BY <1>3, <3>1, <3>2 DEF SameLink
  <2>5. CASE pins # o.mode \/ o.mode \notin Transports
    <3>1. a \in {Answer(r, <<>>), Answer(z, <<>>)}
      BY <2>1, <2>2, <2>3, <2>5 DEF Settle, Restart
    <3>2. Stays(r) \/ Stays(z)
      BY <2>4, <3>1
    <3> QED
      BY <3>2
  <2>6. CASE pins = o.mode /\ o.mode \in Transports
    <3>1. a = set_transport(z, o.mode)
      BY <2>1, <2>3, <2>6 DEF Settle
    <3>2. CASE o.mode = kb.transport
      <4>1. a = Answer(z, <<>>)
        BY <2>4, <3>1, <3>2 DEF set_transport
      <4>2. Stays(z)
        BY <2>4, <4>1
      <4> QED
        BY <4>2
    <3>3. CASE o.mode # kb.transport
      <4>1. PICK t \in Transports \ {kb.transport} : t = o.mode
        BY <2>6, <3>3
      <4>2. PICK n : n = [z EXCEPT !.transport = t]
        OBVIOUS
      <4>3. SameLink(n, z) /\ n.transport = t /\ n.time = z.time
        BY <2>4, <4>2, Retransported
      <4>4. a = Enable(t, n)
        BY <2>4, <3>1, <3>3, <4>1, <4>2 DEF set_transport, Enable
      <4>5. kb.transport \in Wireless => kb.time # 0 /\ Elapsed(kb.time) > SwitchTime
        <5>1. SUFFICES ASSUME kb.transport \in Wireless
                       PROVE  kb.time # 0 /\ Elapsed(kb.time) > SwitchTime
          OBVIOUS
        <5>2. o.time # 0 /\ Elapsed(o.time) > SwitchTime
          BY <1>6, <5>1 DEF Rested, Wireless
        <5>3. o = kb
          BY <1>1, <1>3, <1>4, <5>2
        <5> QED
          BY <5>2, <5>3
      <4>6. SameLink(n, kb) /\ n.time = 0
        BY <2>4, <4>3 DEF SameLink
      <4> QED
        BY <4>1, <4>3, <4>4, <4>5, <4>6
    <3> QED
      BY <3>2, <3>3
  <2> QED
    BY <2>5, <2>6
<1> QED
  BY <1>5, <1>6

\* The two ways of swapping the NKRO settings.
LEMMA Swapped ==
    ASSUME NEW k \in Firmware, NEW n, n = SaveUsb(k) \/ n = SaveBluetooth(k)
    PROVE  /\ n \in Firmware
           /\ n.transport = k.transport /\ n.driver = k.driver /\ n.time = k.time
           /\ n.state = k.state /\ n.host_index = k.host_index /\ n.pairing_key = k.pairing_key
           /\ n = SaveUsb(k) => n.saved.usb = k.nkro
           /\ n = SaveBluetooth(k) => n.nkro = k.saved.usb
<1>1. k.saved \in [usb : BOOLEAN, bluetooth : BOOLEAN] /\ k.nkro \in BOOLEAN
  BY DEF Firmware
<1>2. ASSUME n = SaveUsb(k)
      PROVE  /\ n \in Firmware
             /\ n.transport = k.transport /\ n.driver = k.driver /\ n.time = k.time
             /\ n.state = k.state /\ n.host_index = k.host_index /\ n.pairing_key = k.pairing_key
             /\ n.saved.usb = k.nkro
  <2>1. PICK s : s = [k.saved EXCEPT !.usb = k.nkro]
    OBVIOUS
  <2>2. s \in [usb : BOOLEAN, bluetooth : BOOLEAN] /\ s.usb = k.nkro
    BY <1>1, <2>1
  <2>3. n = [k EXCEPT !.saved = s, !.nkro = k.saved.bluetooth]
    BY <1>2, <2>1 DEF SaveUsb
  <2> QED
    BY <1>1, <2>2, <2>3 DEF Firmware
<1>3. ASSUME n = SaveBluetooth(k)
      PROVE  /\ n \in Firmware
             /\ n.transport = k.transport /\ n.driver = k.driver /\ n.time = k.time
             /\ n.state = k.state /\ n.host_index = k.host_index /\ n.pairing_key = k.pairing_key
             /\ n.nkro = k.saved.usb
  <2>1. PICK s : s = [k.saved EXCEPT !.bluetooth = k.nkro]
    OBVIOUS
  <2>2. s \in [usb : BOOLEAN, bluetooth : BOOLEAN]
    BY <1>1, <2>1
  <2>3. n = [k EXCEPT !.saved = s, !.nkro = k.saved.usb]
    BY <1>3, <2>1 DEF SaveBluetooth
  <2> QED
    BY <1>1, <2>2, <2>3 DEF Firmware
<1> QED
  BY <1>2, <1>3

LEMMA PairOf ==
    ASSUME NEW S, NEW d \in S, NEW p \in S
    PROVE  /\ <<d>> \o <<>> = <<d>> /\ <<d>> \o <<p>> \in Seq(S) /\ <<d>> \o <<p>> # <<>>
           /\ Len(<<d>> \o <<p>>) = 2 /\ (<<d>> \o <<p>>)[2] = p
<1>1. <<d>> \in Seq(S) /\ <<p>> \in Seq(S) /\ Len(<<d>>) = 1 /\ Len(<<p>>) = 1
  OBVIOUS
<1>2. /\ <<d>> \o <<p>> \in Seq(S) /\ Len(<<d>> \o <<p>>) = 2 /\ (<<d>> \o <<p>>)[2] = p
  BY <1>1
<1> QED
  BY <1>1, <1>2

\* The answer of set_transport in the new mode t.
LEMMA EnableIs ==
    ASSUME NEW t \in Transports, NEW n \in Firmware, n.transport = t,
           NEW a, a = Enable(t, n)
    PROVE  /\ a \in Answers
           /\ a.kb.transport = t /\ a.kb.time = n.time /\ a.kb.pairing_key = n.pairing_key
           /\ a.kb.driver = IF t \in Wireless THEN "wireless" ELSE "chibios"
           /\ a.kb.state = "CONNECTED" => n.state = "CONNECTED" /\ a.kb.host_index = n.host_index
           /\ a.packets # <<>>
           /\ \/ Moves(t, a.packets[Len(a.packets)])
              \/ /\ t # "USB" /\ n.state = "CONNECTED"
                 /\ n.host_index = IF t = "P2P4" THEN P24G_INDEX ELSE LastHost
                 /\ \A u : Sends(u, a)
           /\ t = "USB" => \A u : Sends(u, a)
           /\ t \in Wireless => a.kb.saved.usb = n.nkro
           /\ t = "USB" => a.kb.nkro = n.saved.usb
<1>1. PICK d : d = [cmd |-> "DISCONNECT"]
  OBVIOUS
<1>2. /\ DISCONNECT = <<d>> /\ d \in Packet /\ <<d>> \in Seq(Packet) /\ DOMAIN <<d>> = {1}
      /\ <<d>>[1] = d /\ Len(<<d>>) = 1 /\ <<d>> # <<>> /\ d.cmd = "DISCONNECT"
      /\ \A u : Keeps(u, d)
  BY <1>1 DEF DISCONNECT, Packet, Keeps
<1>3. CASE t = "USB"
  <2>1. PICK c : c = [n EXCEPT !.driver = "chibios"]
    OBVIOUS
  <2>2. /\ c \in Firmware /\ c.transport = n.transport /\ c.time = n.time /\ c.state = n.state
        /\ c.host_index = n.host_index /\ c.pairing_key = n.pairing_key
        /\ c.driver = "chibios" /\ c.saved = n.saved
    BY <2>1 DEF Firmware
  <2>3. PICK m : m = SaveBluetooth(c)
    OBVIOUS
  <2>4. /\ m \in Firmware /\ m.transport = c.transport /\ m.driver = c.driver /\ m.time = c.time
        /\ m.state = c.state /\ m.host_index = c.host_index /\ m.pairing_key = c.pairing_key
        /\ m.nkro = c.saved.usb
    BY <2>2, <2>3, Swapped
  <2>5. a = Answer(m, <<d>>)
    BY <1>2, <1>3, <2>1, <2>3 DEF Enable, EnableUsb
  <2>6. a \in Answers /\ a.kb = m /\ a.packets = <<d>>
    BY <1>2, <2>4, <2>5, AnswerIsAnswer
  <2>7. \A u : Sends(u, a)
    BY <1>2, <2>6 DEF Sends
  <2> QED
    BY <1>2, <1>3, <2>2, <2>4, <2>6, <2>7 DEF Moves, Wireless
<1>4. ASSUME t \in Wireless, NEW h \in {P24G_INDEX, LastHost},
             h = IF t = "P2P4" THEN P24G_INDEX ELSE LastHost,
             NEW c, c = wireless_enable(n, h), a = Answer(SaveUsb(c.kb), c.packets)
      PROVE  /\ a \in Answers
             /\ a.kb.transport = t /\ a.kb.time = n.time /\ a.kb.pairing_key = n.pairing_key
             /\ a.kb.driver = "wireless"
             /\ a.kb.state = "CONNECTED" => n.state = "CONNECTED" /\ a.kb.host_index = n.host_index
             /\ a.packets # <<>>
             /\ \/ Moves(t, a.packets[Len(a.packets)])
                \/ n.state = "CONNECTED" /\ n.host_index = h /\ \A u : Sends(u, a)
             /\ a.kb.saved.usb = n.nkro
  <2>1. PICK w : w = [n EXCEPT !.driver = "wireless"]
    OBVIOUS
  <2>2. /\ w \in Firmware /\ w.transport = n.transport /\ w.time = n.time /\ w.state = n.state
        /\ w.host_index = n.host_index /\ w.pairing_key = n.pairing_key
        /\ w.driver = "wireless" /\ w.nkro = n.nkro
    BY <2>1 DEF Firmware
  <2>3. PICK x : x = wireless_connect_ex(w, h)
    OBVIOUS
  <2>4. PICK p : p = [cmd |-> "CONNECT", host |-> h]
    OBVIOUS
  <2>5. p \in Packet /\ Moves(t, p) /\ <<p>> \in Seq(Packet)
    <3>1. p \in Packet /\ p.cmd = "CONNECT" /\ p.host = h
      BY <1>4, <2>4 DEF Packet, Links
    <3>2. <<p>> \in Seq(Packet)
      BY <3>1
    <3>3. Moves(t, p)
      BY <1>4, <3>1 DEF Moves, Wireless
    <3> QED
      BY <3>1, <3>2, <3>3
  <2>6. PICK v : v = [w EXCEPT !.state = "RECONNECTING", !.host_index = h]
    OBVIOUS
  <2>7. /\ v \in Firmware /\ v.transport = w.transport /\ v.time = w.time
        /\ v.state = "RECONNECTING" /\ v.pairing_key = w.pairing_key
        /\ v.driver = w.driver /\ v.nkro = w.nkro
    BY <2>2, <2>6 DEF Firmware, Links
  <2>8. \/ x = Answer(w, <<>>) /\ w.host_index = h /\ w.state = "CONNECTED"
        \/ x = Answer(v, <<p>>)
    BY <2>3, <2>4, <2>6 DEF wireless_connect_ex
  <2>9. \/ x.kb = w /\ x.packets = <<>> /\ w.host_index = h /\ w.state = "CONNECTED"
        \/ x.kb = v /\ x.packets = <<p>>
    BY <2>2, <2>5, <2>7, <2>8, AnswerIsAnswer, NoPacket
  <2>10. x \in Answers
    BY <2>2, <2>5, <2>7, <2>8, AnswerIsAnswer, NoPacket
  <2>11. c = [x EXCEPT !.packets = <<d>> \o @]
    BY <1>2, <1>4, <2>1, <2>3 DEF wireless_enable
  <2>12. c.kb = x.kb /\ c.packets = <<d>> \o x.packets
    BY <2>10, <2>11 DEF Answers
  <2>13. PICK m : m = SaveUsb(c.kb)
    OBVIOUS
  <2>14. /\ m \in Firmware /\ m.transport = c.kb.transport /\ m.driver = c.kb.driver
         /\ m.time = c.kb.time /\ m.state = c.kb.state /\ m.host_index = c.kb.host_index
         /\ m.pairing_key = c.kb.pairing_key /\ m.saved.usb = c.kb.nkro
    <3>1. c.kb \in Firmware
      BY <2>10, <2>12 DEF Answers
    <3> QED
      BY <2>13, <3>1, Swapped
  <2>15. c.packets \in Seq(Packet) /\ c.packets # <<>>
    <3>1. /\ <<d>> \o <<>> = <<d>>
          /\ <<d>> \o <<p>> \in Seq(Packet) /\ <<d>> \o <<p>> # <<>>
      BY <1>2, <2>5, PairOf
    <3> QED
      BY <1>2, <2>9, <2>12, <3>1
  <2>16. a \in Answers /\ a.kb = m /\ a.packets = c.packets
    BY <1>4, <2>13, <2>14, <2>15, AnswerIsAnswer
  <2>17. CASE x.kb = w /\ x.packets = <<>> /\ w.host_index = h /\ w.state = "CONNECTED"
    <3>1. a.packets = <<d>>
      BY <1>2, <2>12, <2>16, <2>17
    <3>2. \A u : Sends(u, a)
      BY <1>2, <3>1 DEF Sends
    <3> QED
      BY <1>4, <2>2, <2>12, <2>14, <2>15, <2>16, <2>17, <3>2
  <2>18. CASE x.kb = v /\ x.packets = <<p>>
    <3>1. Len(a.packets) = 2 /\ a.packets[2] = p
      <4>1. Len(<<d>> \o <<p>>) = 2 /\ (<<d>> \o <<p>>)[2] = p
        BY <1>2, <2>5, PairOf
      <4> QED
        BY <2>12, <2>16, <2>18, <4>1
    <3> QED
      BY <1>4, <2>2, <2>5, <2>7, <2>12, <2>14, <2>15, <2>16, <2>18, <3>1
  <2> QED
    BY <2>9, <2>17, <2>18
<1>5. CASE t = "BLUETOOTH"
  <2>1. PICK c : c = wireless_enable(n, LastHost)
    OBVIOUS
  <2>2. a = Answer(SaveUsb(c.kb), c.packets)
    BY <1>5, <2>1 DEF Enable, EnableBluetooth
  <2> QED
    BY <1>4, <1>5, <2>1, <2>2 DEF Wireless
<1>6. CASE t = "P2P4"
  <2>1. PICK c : c = wireless_enable(n, P24G_INDEX)
    OBVIOUS
  <2>2. a = Answer(SaveUsb(c.kb), c.packets)
    BY <1>6, <2>1 DEF Enable, EnableP2P4
  <2> QED
    BY <1>4, <1>6, <2>1, <2>2 DEF Wireless
<1> QED
  BY <1>3, <1>5, <1>6 DEF Transports

\* What is recorded of a call: a change of the transport with a host key down,
\* the USB setting, and a change between two wireless modes.
LEMMA RecordedIs ==
    ASSUME TypeOK, NEW a \in Answers, NEW r, r = Recorded(past, a)
    PROVE  /\ r \in History
           /\ a.kb.transport = kb.transport =>
                  /\ r.carried = past.carried /\ r.crossed = past.crossed
                  /\ r.usb_nkro = past.usb_nkro
           /\ a.kb.transport # kb.transport =>
                  /\ r.carried = (past.carried \/ kb.pairing_key # 0)
                  /\ a.kb.transport \in Wireless =>
                         IF kb.transport \in Wireless THEN r.crossed
                         ELSE r.usb_nkro = kb.nkro
<1>1. past \in History /\ kb.nkro \in BOOLEAN /\ kb.transport \in Transports \cup {"NONE"}
  BY DEF TypeOK, Firmware
<1>2. CASE a.kb.transport = kb.transport
  <2>1. PICK m \in BOOLEAN : r = [past EXCEPT !.missed = m]
    BY <1>1, <1>2 DEF Recorded, History
  <2> QED
    BY <1>1, <1>2, <2>1 DEF History
<1>3. CASE a.kb.transport # kb.transport
  <2>1. PICK c \in BOOLEAN : c = (past.carried \/ kb.pairing_key # 0)
    BY <1>1 DEF History
  <2>2. PICK u \in BOOLEAN :
            u = (a.kb.transport # "USB"
                 /\ \A i \in DOMAIN a.packets : a.packets[i].cmd # "CONNECT")
    OBVIOUS
  <2>3. PICK n \in BOOLEAN :
            n = IF kb.transport \in {"USB", "NONE"} THEN kb.nkro ELSE past.usb_nkro
    BY <1>1 DEF History
  <2>4. PICK x \in BOOLEAN :
            x = IF a.kb.transport = "USB" THEN past.crossed
                ELSE (past.crossed /\ kb.transport # "USB") \/ kb.transport \in {"BLUETOOTH", "P2P4"}
    BY <1>1 DEF History
  <2>5. r = [past EXCEPT !.missed = FALSE, !.carried = c, !.unsynced = u,
                         !.usb_nkro = n, !.crossed = x]
    BY <1>3, <2>1, <2>2, <2>3, <2>4 DEF Recorded
  <2>6. r \in History /\ r.carried = c /\ r.usb_nkro = n /\ r.crossed = x
    BY <1>1, <2>5 DEF History
  <2> QED
    BY <1>1, <1>3, <2>1, <2>3, <2>4, <2>6 DEF Wireless, Transports
<1> QED
  BY <1>2, <1>3

\* A round of wireless_pre_task that keeps the transport.
LEMMA StayKeeps ==
    ASSUME Inv, NEW n, SameLink(n, kb), n.transport = kb.transport, Call(Answer(n, <<>>)),
           n.time \in {0, clock} \/ (n.time = kb.time /\ Elapsed(kb.time) <= SwitchTime),
           kb.transport \in Wireless => pc = "pre" /\ pc' = "events" /\ clock' = clock,
           pc' \in {"events", "usb"}, clock' \in Time, past' \in History,
           past'.carried = past.carried, UNCHANGED <<pins, usb, events, radio>>
    PROVE  Inv'
<1>1. /\ TypeOK /\ LinkKnown /\ n \in Firmware /\ kb' = n /\ cmds' = cmds \o <<>> /\ cmds \in Seq(Packet)
  BY DEF Inv, TypeOK, SameLink, Call, Answer
<1>2. cmds' = cmds
  BY <1>1
<1>3. /\ kb'.transport = kb.transport /\ kb'.driver = kb.driver /\ kb'.state = kb.state
      /\ kb'.host_index = kb.host_index /\ kb'.pairing_key = kb.pairing_key
      /\ TypeOK'
  BY <1>1, <1>2 DEF TypeOK, SameLink
<1>4. LinkKnown' /\ (NoDongle => NoDongle')
  BY <1>1, <1>3 DEF LinkKnown, NoDongle
<1>5. ASSUME PromptModule /\ ~past.carried PROVE (AtHome /\ LeftBehind /\ Follows /\ Resting)'
  <2>1. AtHome /\ LeftBehind /\ Follows /\ Resting
    BY <1>5 DEF Inv
  <2>2. (AtHome /\ LeftBehind /\ Follows)'
    BY <1>2, <1>3, <1>4, <2>1
       DEF AtHome, Home, LeftBehind, Follows, Settled, Moving, Owned, Keeps, Moves
  <2>3. Settled(kb.transport) => Settled(kb.transport)'
    BY <1>2, <1>3 DEF Settled, Owned, Keeps
  <2>4. CASE kb.transport \in Wireless /\ kb'.time # 0
    <3>1. CASE n.time = clock
      <4>1. Elapsed(kb.time)' = 0
        <5>1. PICK c : c = clock' /\ c \in Time
          OBVIOUS
        <5>2. kb'.time = c
          BY <1>1, <2>4, <3>1, <5>1
        <5>3. (c - c) % ClockRange = 0
          <6>1. c \in Time /\ ClockRange \in Nat \ {0}
            BY <5>1, TransportAssumption
          <6>2. c \in Int
            BY <6>1 DEF Time
          <6>3. c - c = 0
            BY <6>2
          <6> QED
            BY <6>1, <6>3
        <5> QED
          BY <5>1, <5>2, <5>3 DEF Elapsed
      <4> QED
        BY <2>2, <4>1, TransportAssumption DEF Resting
    <3>2. CASE n.time = kb.time /\ Elapsed(kb.time) <= SwitchTime
      <4>1. Elapsed(kb.time)' = Elapsed(kb.time) /\ Elapsed(kb.time) \in Int
        BY <1>1, <2>4, <3>2, TransportAssumption DEF Elapsed, TypeOK, Time, Firmware
      <4> QED
        BY <1>1, <1>3, <1>4, <2>1, <2>2, <2>3, <2>4, <3>2, <4>1, TransportAssumption DEF Resting
    <3> QED
      BY <1>1, <2>4, <3>1, <3>2
  <2>5. CASE ~(kb.transport \in Wireless /\ kb'.time # 0)
    BY <1>3, <2>2, <2>5 DEF Resting
  <2> QED
    BY <2>4, <2>5
<1> QED
  BY <1>3, <1>4, <1>5 DEF Inv

\* A round of wireless_pre_task that changes the transport.
LEMMA ChangeKeeps ==
    ASSUME Inv, NEW n, NEW t \in Transports \ {kb.transport}, NEW a, a = Enable(t, n),
           SameLink(n, kb), n.transport = t, n.time = 0, Call(a),
           kb.transport \in Wireless => kb.time # 0 /\ Elapsed(kb.time) > SwitchTime,
           pc' \in {"events", "usb"}, clock' \in Time, past' = Recorded(past, a),
           UNCHANGED <<pins, usb, events, radio>>
    PROVE  Inv'
<1>1. /\ TypeOK /\ LinkKnown /\ n \in Firmware /\ n.state = kb.state /\ n.host_index = kb.host_index
      /\ n.pairing_key = kb.pairing_key /\ cmds \in Seq(Packet)
  BY DEF Inv, TypeOK, SameLink
<1>2. /\ a \in Answers /\ kb' = a.kb /\ cmds' = cmds \o a.packets
      /\ kb'.transport = t /\ kb'.time = 0 /\ kb'.pairing_key = kb.pairing_key
      /\ kb'.driver = IF t \in Wireless THEN "wireless" ELSE "chibios"
      /\ kb'.state = "CONNECTED" => kb.state = "CONNECTED" /\ kb'.host_index = kb.host_index
      /\ a.packets # <<>>
      /\ \/ Moves(t, a.packets[Len(a.packets)])
         \/ /\ t # "USB" /\ kb.state = "CONNECTED"
            /\ kb.host_index = IF t = "P2P4" THEN P24G_INDEX ELSE LastHost
            /\ \A u : Sends(u, a)
      /\ t = "USB" => \A u : Sends(u, a)
  <2>1. kb' = a.kb /\ cmds' = cmds \o a.packets
    BY DEF Call
  <2> QED
    BY <1>1, <2>1, EnableIs
<1>3. a.packets \in Seq(Packet) /\ kb' \in Firmware
  BY <1>2 DEF Answers
<1>4. /\ past' \in History /\ past'.carried = (past.carried \/ kb.pairing_key # 0)
  BY <1>1, <1>2, RecordedIs
<1>5. TypeOK'
  BY <1>1, <1>2, <1>3, <1>4 DEF TypeOK
<1>6. LinkKnown' /\ (NoDongle => NoDongle')
  BY <1>1, <1>2 DEF LinkKnown, NoDongle
<1>7. ASSUME PromptModule /\ ~past'.carried PROVE (AtHome /\ LeftBehind /\ Follows /\ Resting)'
  <2>1. AtHome /\ LeftBehind /\ Follows /\ Resting /\ kb.pairing_key = 0
    BY <1>4, <1>7 DEF Inv
  <2>2. kb.transport \in Wireless =>
            /\ Settled(kb.transport)
            /\ kb.transport = "BLUETOOTH" => NoDongle
    <3>1. SwitchTime \in Nat \ {0} /\ Elapsed(kb.time) \in Int
      BY <1>1, TransportAssumption DEF Elapsed, TypeOK, Time, Firmware
    <3> QED
      BY <2>1, <3>1 DEF Resting
  <2>3. Settled("P2P4") \/ (Settled("BLUETOOTH") /\ NoDongle)
    BY <2>1, <2>2 DEF LeftBehind, Wireless
  <2>4. ASSUME NEW u, Settled(u), \A v : Sends(v, a) PROVE Settled(u)'
    BY <1>1, <1>2, <1>3, <2>4, KeepersAppended DEF Sends
  <2>5. PICK h : h = t
    OBVIOUS
  <2>6. Settled(t)' \/ Moving(t)'
    <3>1. CASE Moves(t, a.packets[Len(a.packets)])
      BY <1>1, <1>2, <1>3, <3>1, MoverAppended
    <3>2. CASE /\ t # "USB" /\ kb.state = "CONNECTED"
               /\ kb.host_index = IF t = "P2P4" THEN P24G_INDEX ELSE LastHost
               /\ \A u : Sends(u, a)
      <4>1. t = "P2P4" /\ kb.host_index = P24G_INDEX
        BY <1>1, <3>2 DEF LinkKnown, Transports
      <4>2. Settled("P2P4")
        BY <2>3, <3>2, <4>1 DEF NoDongle
      <4> QED
        BY <2>4, <3>2, <4>1, <4>2
    <3> QED
      BY <1>2, <3>1, <3>2
  <2>7. AtHome'
    <3>1. Home' = t
      BY <1>2 DEF Home, Wireless, Transports
    <3> QED
      BY <2>6, <3>1 DEF AtHome, Settled, Moving, Owned, Keeps, Moves
  <2>8. LeftBehind'
    BY <1>2, <1>6, <2>3, <2>4 DEF LeftBehind, Wireless, Transports
  <2>9. Follows' /\ Resting'
    BY <1>2, <2>1 DEF Follows, Resting
  <2> QED
    BY <2>7, <2>8, <2>9
<1> QED
  BY <1>5, <1>6, <1>7 DEF Inv

LEMMA PreTaskKeeps ==
    ASSUME Inv, Call(wireless_pre_task(kb)), past' = Recorded(past, wireless_pre_task(kb)),
           kb.transport \in Wireless => pc = "pre" /\ pc' = "events" /\ clock' = clock,
           pc' \in {"events", "usb"}, clock' \in Time,
           UNCHANGED <<pins, usb, events, radio>>
    PROVE  Inv'
<1>1. PICK a : a = wireless_pre_task(kb)
  OBVIOUS
<1>2. TypeOK /\ Call(a) /\ past' = Recorded(past, a)
  BY <1>1 DEF Inv
<1>3. ASSUME NEW n, a = Answer(n, <<>>), SameLink(n, kb), n.transport = kb.transport,
             n.time \in {0, clock} \/ (n.time = kb.time /\ Elapsed(kb.time) <= SwitchTime)
      PROVE  Inv'
  <2>1. n \in Firmware /\ a \in Answers /\ a.kb = n
    BY <1>3, NoPacket, AnswerIsAnswer DEF SameLink
  <2>2. past' \in History /\ past'.carried = past.carried
    BY <1>2, <1>3, <2>1, RecordedIs
  <2> QED
    BY <1>2, <1>3, <2>2, StayKeeps
<1>4. ASSUME NEW n, NEW t \in Transports \ {kb.transport}, a = Enable(t, n),
             SameLink(n, kb), n.transport = t, n.time = 0,
             kb.transport \in Wireless => kb.time # 0 /\ Elapsed(kb.time) > SwitchTime
      PROVE  Inv'
  BY <1>2, <1>4, ChangeKeeps
<1> QED
  BY <1>1, <1>2, <1>3, <1>4, PreTaskIs

LEMMA InitInv == Init => Inv
<1> SUFFICES ASSUME Init PROVE Inv
  OBVIOUS
<1>1. PICK e \in LinkEvent : e = [type |-> "DISCONNECTED", host |-> 0]
  BY DEF LinkEvent
<1>2. /\ events = <<e>> /\ events \in Seq(LinkEvent) /\ Len(events) = 1 /\ events[1] = e
      /\ e.type = "DISCONNECTED" /\ DOMAIN events = {1} /\ cmds = <<>> /\ DOMAIN cmds = {}
      /\ cmds \in Seq(Packet) /\ events # <<>>
  BY <1>1 DEF Init
<1>3. kb \in Firmware
  <2>1. 0 \in Time /\ EepromNkro \in BOOLEAN /\ FORCE_NKRO \in BOOLEAN
    BY TransportAssumption DEF Time
  <2>2. PICK b \in BOOLEAN : b = (EepromNkro \/ FORCE_NKRO)
    BY <2>1
  <2>3. PICK s \in [usb : BOOLEAN, bluetooth : BOOLEAN] : s = [usb |-> FALSE, bluetooth |-> FALSE]
    OBVIOUS
  <2> QED
    BY <2>1, <2>2, <2>3 DEF Init, Firmware, Positions
<1>4. TypeOK
  BY <1>2, <1>3, TransportAssumption DEF Init, TypeOK, Time, Links, History
<1>5. LinkKnown /\ NoDongle
  BY <1>2 DEF Init, LinkKnown, NoDongle
<1>6. AtHome /\ LeftBehind /\ Follows /\ Resting
  BY <1>2, <1>5, TransportAssumption
     DEF Init, AtHome, Home, LeftBehind, Follows, Resting, Settled, Owned, Wireless
<1> QED
  BY <1>4, <1>5, <1>6 DEF Inv

\* Every step keeps the invariant.
LEMMA NextInv == Inv /\ [Next]_vars => Inv'
<1> SUFFICES ASSUME Inv, [Next]_vars PROVE Inv'
  OBVIOUS
<1>1. CASE PreTask
  BY <1>1, PreTaskKeeps DEF PreTask, Inv, TypeOK
<1>2. CASE SuspendedRound
  <2>1. clock' \in Time
    BY <1>2, TickType DEF SuspendedRound, Inv
  <2> QED
    BY <1>2, <2>1, PreTaskKeeps DEF SuspendedRound, Wireless
<1>3. CASE EventStep \/ EventsDone \/ CommonTask \/ RoundEnd
  BY <1>3, EventStepKeeps, EventsDoneKeeps, CommonTaskKeeps, RoundEndKeeps
<1>4. CASE KeyPress \/ ToggleNkro \/ MoveSwitch \/ UsbSuspend \/ RadioCommand \/ RadioLinkUp
  BY <1>4, KeyPressKeeps, ToggleNkroKeeps, MoveSwitchKeeps, UsbSuspendKeeps,
     RadioCommandKeeps, RadioLinkUpKeeps
<1>5. CASE \E h \in Hosts \cup {P24G_INDEX} : HostKeyPress(h) \/ HostKeyRelease(h)
  BY <1>5, HostKeyPressKeeps, HostKeyReleaseKeeps DEF Links
<1>6. CASE UNCHANGED vars
  BY <1>6, ElsewhereKeeps DEF vars, Inv, TypeOK
<1> QED
  BY <1>1, <1>2, <1>3, <1>4, <1>5, <1>6 DEF Next, Loop

-----------------------------------------------------------------------------
\* Type correctness, and for a module that acts on its packets within a
\* millisecond the invariant that OwnLink needs.
THEOREM Invariance == Spec => []Inv
BY InitInv, NextInv, PTL DEF Spec

\* Whatever is done with the switch, the keys and the bus: once the module has
\* seen its packets it has no link in USB mode, and in a wireless mode never
\* that of the other one, unless a host key was carried over a mode change.
THEOREM LinkIsOwn == ASSUME PromptModule PROVE Spec => []OwnLink
<1>1. Inv => OwnLink
  <2>1. SUFFICES ASSUME Inv, cmds = <<>>, ~past.carried, kb.transport \in Transports
                 PROVE  Owned(kb.transport)
    BY DEF OwnLink, Owned, Transports
  <2>2. Settled(Home) \/ Moving(Home)
    BY <2>1 DEF Inv, AtHome
  <2>3. ~Moving(Home)
    BY <2>1 DEF Moving
  <2> QED
    BY <2>1, <2>2, <2>3 DEF Settled, Home, Wireless, Transports
<1> QED
  BY <1>1, Invariance, PTL

-----------------------------------------------------------------------------
(***************************************************************************)
(* The NKRO settings                                                       *)
(***************************************************************************)
\* A step other than wireless_pre_task leaves the saved settings alone.
Untouched ==
    /\ kb'.saved = kb.saved /\ kb'.transport = kb.transport
    /\ past'.crossed = past.crossed /\ past'.usb_nkro = past.usb_nkro

LEMMA KeysUntouched ==
    ASSUME TypeOK, KeyPress \/ ToggleNkro PROVE Untouched
<1>1. kb \in Firmware /\ past \in History
  BY DEF TypeOK
<1>2. past'.crossed = past.crossed /\ past'.usb_nkro = past.usb_nkro
  BY <1>1 DEF KeyPress, ToggleNkro, History
<1>3. /\ Gentle(kb, Send(kb)) /\ Gentle(kb, Answer(kb, <<>>))
  BY <1>1, SendIsGentle, NoPacket
<1>4. CASE KeyPress
  BY <1>2, <1>3, <1>4 DEF KeyPress, Call, Gentle, Untouched
<1>5. CASE ToggleNkro
  <2>1. PICK c \in {Answer(kb, <<>>), Send(kb)} : Call([c EXCEPT !.kb.nkro = ~@])
    BY <1>5 DEF ToggleNkro
  <2>2. c \in Answers /\ c.kb \in Firmware /\ c.kb.saved = kb.saved /\ c.kb.transport = kb.transport
    BY <1>3, <2>1 DEF Gentle, Answers
  <2>3. kb' = [c.kb EXCEPT !.nkro = ~@]
    BY <2>1, <2>2 DEF Call, Answers
  <2> QED
    BY <1>2, <2>2, <2>3 DEF Firmware, Untouched
<1> QED
  BY <1>4, <1>5

LEMMA HostKeysUntouched ==
    ASSUME TypeOK, NEW h \in Links, HostKeyPress(h) \/ HostKeyRelease(h) PROVE Untouched
<1>1. kb \in Firmware /\ past \in History /\ clock \in Time /\ 0 \in Time
  BY TransportAssumption DEF TypeOK, Time
<1>2. past'.crossed = past.crossed /\ past'.usb_nkro = past.usb_nkro
  BY <1>1 DEF HostKeyPress, HostKeyRelease, History
<1>3. PICK k : k = [kb EXCEPT !.pairing_key = clock]
  OBVIOUS
<1>4. PICK z : z = [kb EXCEPT !.pairing_key = 0]
  OBVIOUS
<1>5. /\ k \in Firmware /\ k.saved = kb.saved /\ k.transport = kb.transport
      /\ z.saved = kb.saved /\ z.transport = kb.transport
  BY <1>1, <1>3, <1>4 DEF Firmware
<1>6. h # P24G_INDEX => /\ wireless_connect_ex(k, h).kb.saved = k.saved
                        /\ wireless_connect_ex(k, h).kb.transport = k.transport
  BY <1>5, ConnectExIsGentle DEF Gentle
<1>7. kb' \in {kb, k, z} \/ (h # P24G_INDEX /\ kb' = wireless_connect_ex(k, h).kb)
  BY <1>3, <1>4 DEF HostKeyPress, HostKeyRelease, Call, Answer
<1> QED
  BY <1>2, <1>5, <1>6, <1>7 DEF Untouched

LEMMA LoopUntouched ==
    ASSUME TypeOK, EventStep \/ EventsDone \/ CommonTask \/ RoundEnd PROVE Untouched
<1>1. kb \in Firmware /\ 0 \in Time /\ UNCHANGED past
  BY TransportAssumption DEF TypeOK, Time, EventStep, EventsDone, CommonTask, RoundEnd
<1>2. CASE EventStep
  <2>1. PICK e \in LinkEvent : Call(HandleEvent(kb, e))
    BY <1>2 DEF TypeOK, EventStep
  <2> QED
    BY <1>1, <2>1, HandleEventIs DEF Call, Untouched
<1>3. CASE CommonTask
  <2>1. PICK z : z = [kb EXCEPT !.pairing_key = 0]
    OBVIOUS
  <2>2. z \in Firmware /\ z.saved = kb.saved /\ z.transport = kb.transport
    BY <1>1, <2>1 DEF Firmware
  <2>3. UNCHANGED kb \/ kb' = wireless_pairing_ex(z, 0).kb
    BY <1>3, <2>1 DEF CommonTask, Call
  <2> QED
    BY <1>1, <2>2, <2>3, PairingIsGentle DEF Gentle, Untouched
<1>4. CASE EventsDone \/ RoundEnd
  BY <1>1, <1>4 DEF EventsDone, RoundEnd, Untouched
<1> QED
  BY <1>2, <1>3, <1>4

\* What wireless_pre_task does with them.
LEMMA PreTaskSaves ==
    ASSUME TypeOK, Saved, Call(wireless_pre_task(kb)),
           past' = Recorded(past, wireless_pre_task(kb))
    PROVE  /\ Saved'
           /\ kb.transport \in Wireless /\ kb'.transport = "USB" => kb'.nkro = kb.saved.usb
<1>1. PICK a : a = wireless_pre_task(kb)
  OBVIOUS
<1>2. kb' = a.kb /\ past' = Recorded(past, a)
  BY <1>1 DEF Call
<1>3. ASSUME NEW n, a = Answer(n, <<>>), SameLink(n, kb), n.transport = kb.transport
      PROVE  Saved' /\ kb'.transport = kb.transport
  <2>1. n \in Firmware /\ a \in Answers /\ a.kb = n /\ n.saved = kb.saved
    BY <1>3, NoPacket, AnswerIsAnswer DEF SameLink
  <2>2. past'.crossed = past.crossed /\ past'.usb_nkro = past.usb_nkro
    BY <1>2, <1>3, <2>1, RecordedIs
  <2> QED
    BY <1>2, <1>3, <2>1, <2>2 DEF Saved
<1>4. ASSUME NEW n, NEW t \in Transports \ {kb.transport}, a = Enable(t, n),
             SameLink(n, kb), n.transport = t
      PROVE  Saved' /\ (t = "USB" => kb'.nkro = kb.saved.usb) /\ kb'.transport = t
  <2>1. /\ a \in Answers /\ a.kb.transport = t
        /\ t \in Wireless => a.kb.saved.usb = kb.nkro
        /\ t = "USB" => a.kb.nkro = kb.saved.usb
    <3>1. n \in Firmware /\ n.nkro = kb.nkro /\ n.saved = kb.saved
      BY <1>4 DEF SameLink
    <3> QED
      BY <1>4, <3>1, EnableIs
  <2>2. t \in Wireless => IF kb.transport \in Wireless THEN past'.crossed
                          ELSE past'.usb_nkro = kb.nkro
    BY <1>2, <2>1, RecordedIs
  <2> QED
    BY <1>2, <2>1, <2>2 DEF Saved
<1> QED
  BY <1>1, <1>3, <1>4, PreTaskIs DEF Wireless

LEMMA SavedNext ==
    Inv /\ Saved /\ [Next]_vars =>
        /\ Saved'
        /\ kb.transport \in Wireless /\ kb'.transport = "USB" => kb'.nkro = kb.saved.usb
<1> SUFFICES ASSUME Inv, Saved, [Next]_vars
             PROVE  /\ Saved'
                    /\ kb.transport \in Wireless /\ kb'.transport = "USB"
                           => kb'.nkro = kb.saved.usb
  OBVIOUS
<1>1. TypeOK
  BY DEF Inv
<1>2. CASE PreTask \/ SuspendedRound
  BY <1>1, <1>2, PreTaskSaves DEF PreTask, SuspendedRound
<1>3. CASE Untouched
  BY <1>3 DEF Untouched, Saved, Wireless
<1>4. MoveSwitch \/ UsbSuspend \/ RadioCommand \/ RadioLinkUp \/ UNCHANGED vars => Untouched
  BY <1>1 DEF MoveSwitch, UsbSuspend, RadioCommand, RadioLinkUp, vars, Untouched, TypeOK, History
<1> QED
  BY <1>1, <1>2, <1>3, <1>4, KeysUntouched, HostKeysUntouched, LoopUntouched DEF Next, Loop, Links

\* The NKRO setting of USB is back after a stay in a wireless mode, for every
\* module, every timing and every sequence of keys and moves of the switch.
THEOREM NkroComesBack == Spec => NkroRestored
<1>1. Init => Saved
  BY DEF Init, Saved, Wireless
<1>2. Inv /\ Saved /\ [Next]_vars =>
          [kb.transport \in {"BLUETOOTH", "P2P4"} /\ kb'.transport = "USB" /\ ~past.crossed
               => kb'.nkro = past.usb_nkro]_vars
  BY SavedNext DEF Saved, Wireless
<1>3. Inv /\ Saved /\ [Next]_vars => Saved'
  BY SavedNext
<1> QED
  BY <1>1, <1>2, <1>3, Invariance, PTL DEF Spec, NkroRestored
=============================================================================
