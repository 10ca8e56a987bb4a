--------------------------- MODULE WirelessProofs ---------------------------
(***************************************************************************)
(* Type correctness, the bound on retransmissions, the silence of a        *)
(* keyboard with a critically low battery, the order of the keyboard       *)
(* reports, with a reliable module that none is lost and, while no event   *)
(* is overridden, that firmware and module agree and that reports reach    *)
(* only their own host, for every size of the rings, every number of       *)
(* retries, every set of hosts and every bound.                            *)
(*                                                                         *)
(* The firmware is sequential, so the invariant is a set Good of firmware  *)
(* states that every function of the code maps into itself; one lemma per  *)
(* function says so, and the lemmas compose as the functions do.           *)
(***************************************************************************)
EXTENDS Wireless, TLAPS

\* The inductive strengthening of TransmitBound: the transmissions made and
\* those the retry counter still allows add up to the bound.
Counted(s) ==
    /\ s.sends <= RetryCount + 1
    /\ s.rb.retry > 0 => s.sends + s.rb.retry <= RetryCount + 1

Silenced(s) == s.critical_low => s.rb.queue = <<>> /\ s.rb.retry = 0

Bounded(s) == Len(s.rb.queue) < QueueSize /\ Len(s.evq) < EventQueueSize

\* Sound is Good but for the moment between the low-battery flag and the
\* initialisation of the buffer.
Sound == {s \in WirelessState : Counted(s) /\ Bounded(s)}
Good == {s \in Sound : Silenced(s)}

-----------------------------------------------------------------------------
(***************************************************************************)
(* Assignments to fields.                                                  *)
(***************************************************************************)
\* Writing to the bus keeps a state good.
LEMMA SetLink ==
    ASSUME NEW s \in Good, NEW l \in Seq(Packet)
    PROVE  [s EXCEPT !.link = l] \in Good
  BY DEF Good, Sound, Counted, Silenced, Bounded, WirelessState

\* So does a change of wireless_state,
LEMMA SetState ==
    ASSUME NEW s \in Good, NEW x \in States
    PROVE  [s EXCEPT !.state = x] \in Good
  BY DEF Good, Sound, Counted, Silenced, Bounded, WirelessState

\* of host_index,
LEMMA SetHost ==
    ASSUME NEW s \in Good, NEW h \in Nat
    PROVE  [s EXCEPT !.host_index = h] \in Good
  BY DEF Good, Sound, Counted, Silenced, Bounded, WirelessState

\* and of led_state.
LEMMA SetLeds ==
    ASSUME NEW s \in Good, NEW l \in Nat
    PROVE  [s EXCEPT !.led_state = l] \in Good
  BY DEF Good, Sound, Counted, Silenced, Bounded, WirelessState

\* The packets of the driver's commands are packets.
LEMMA PacketTypes ==
    /\ \A h \in Nat : /\ [cmd |-> "CONNECT", host |-> h] \in Packet
                      /\ [cmd |-> "PAIRING", host |-> h] \in Packet
    /\ [cmd |-> "DISCONNECT"] \in Packet
    /\ [cmd |-> "PARAM"] \in Packet
    /\ \A r \in Report : ReportPacket(r) \in Packet
  BY DEF Packet, ReportPacket

\* lkbt51_send_cmd.
LEMMA TransmitGood ==
    ASSUME NEW s \in Good, NEW p \in Packet
    PROVE  Transmit(s, p) \in Good
<1>1. s.link \in Seq(Packet)
  BY DEF Good, Sound, WirelessState
<1>2. Append(s.link, p) \in Seq(Packet)
  BY <1>1
<1> QED BY <1>2, SetLink DEF Transmit

-----------------------------------------------------------------------------
(***************************************************************************)
(* Connection requests.                                                    *)
(***************************************************************************)
\* wireless_connect keeps a state good.
LEMMA ConnectGood ==
    ASSUME NEW s \in Good
    PROVE  wireless_connect(s) \in Good
<1>1. Transmit(s, [cmd |-> "CONNECT", host |-> 0]) \in Good
  BY PacketTypes, TransmitGood
<1>2. [Transmit(s, [cmd |-> "CONNECT", host |-> 0])
          EXCEPT !.state = "RECONNECTING"] \in Good
  BY <1>1, SetState DEF States
<1> QED BY <1>2 DEF wireless_connect

\* So does wireless_connect_ex,
LEMMA ConnectExGood ==
    ASSUME NEW s \in Good, NEW h \in Nat
    PROVE  wireless_connect_ex(s, h) \in Good
<1> DEFINE t == Transmit(s, [cmd |-> "CONNECT", host |-> h])
<1>1. t \in Good
  BY PacketTypes, TransmitGood
<1> HIDE DEF t
<1>2. [t EXCEPT !.state = "RECONNECTING",
                !.host_index = IF h # 0 THEN h ELSE @,
                !.led_state = IF h # 0 THEN 0 ELSE @] \in Good
  BY <1>1 DEF Good, Sound, Counted, Silenced, Bounded, WirelessState, States
<1> QED BY <1>2 DEF wireless_connect_ex, RequestConnection, t

\* and wireless_pairing_ex,
LEMMA PairingExGood ==
    ASSUME NEW s \in Good, NEW h \in Nat
    PROVE  wireless_pairing_ex(s, h) \in Good
<1> DEFINE p == [cmd |-> "PAIRING", host |-> h]
           t == Transmit(s, p)
<1>1. t \in Good
  BY PacketTypes, TransmitGood
<1>2. [t EXCEPT !.state = "PARING", !.host_index = h] \in Good
  <2> HIDE DEF t
  <2> QED BY <1>1 DEF Good, Sound, Counted, Silenced, Bounded, WirelessState, States
<1> QED BY <1>2 DEF wireless_pairing_ex

\* and the reconnection that a send function without connection starts.
LEMMA ReconnectFirstGood ==
    ASSUME NEW s \in Good
    PROVE  ReconnectFirst(s) \in Good
  BY ConnectGood DEF ReconnectFirst

-----------------------------------------------------------------------------
(***************************************************************************)
(* The report buffer.                                                      *)
(***************************************************************************)
\* report_buffer_init leaves an empty buffer with nothing in flight.
LEMMA BufferInit ==
    ASSUME NEW b \in Buffer
    PROVE  /\ report_buffer_init(b) \in Buffer
           /\ report_buffer_init(b).retry = 0
           /\ report_buffer_init(b).queue = <<>>
<1>1. <<>> \in Seq(Report) /\ 0 \in 0 .. RetryCount /\ 0 \in Ages
  BY AgeAssumption, RetryAssumption DEF Ages
<1> QED BY <1>1 DEF report_buffer_init, Buffer

\* The type of the buffer in a firmware state.
LEMMA BufferOf ==
    ASSUME NEW s \in Sound
    PROVE  s.rb \in Buffer /\ s.rb.retry \in Nat /\ s.rb.queue \in Seq(Report)
<1>1. s.rb \in Buffer
  BY DEF Good, Sound, WirelessState
<1> QED BY <1>1, RetryAssumption DEF Buffer

\* Good adds only the silence to Sound.
LEMMA GoodIsSound == Good \subseteq Sound
  BY DEF Good

\* A new buffer, if its counters and its length are right.
LEMMA SetRb ==
    ASSUME NEW s \in Sound, NEW b \in Buffer, NEW o \in SUBSET Nat, NEW n \in Nat,
           Len(b.queue) < QueueSize, n <= RetryCount + 1,
           b.retry > 0 => n + b.retry <= RetryCount + 1,
           s.critical_low => b.queue = <<>> /\ b.retry = 0
    PROVE  [s EXCEPT !.rb = b, !.owed = o, !.sends = n] \in Good
  BY DEF Good, Sound, Counted, Silenced, Bounded, WirelessState

\* report_buffer_init makes a sound state good, a low battery included.
LEMMA InitBufferGood ==
    ASSUME NEW s \in Sound
    PROVE  InitBuffer(s) \in Good
<1> DEFINE b == report_buffer_init(s.rb)
<1>1. Len(<<>>) = 0 /\ {} \in SUBSET Nat
  OBVIOUS
<1>2. b \in Buffer /\ b.retry = 0 /\ b.queue = <<>>
  BY BufferOf, BufferInit
<1>3. s.sends \in Nat /\ s.sends <= RetryCount + 1 /\ s \in WirelessState
  BY DEF Good, Sound, WirelessState, Counted
<1> HIDE DEF b
<1>4. Len(b.queue) < QueueSize
  BY <1>1, <1>2, QueueSizeAssumption
<1>5. [s EXCEPT !.rb = b, !.owed = {}, !.sends = s.sends] \in Good
  <2>1. b.retry > 0 => s.sends + b.retry <= RetryCount + 1
    BY <1>2
  <2> QED BY <1>1, <1>2, <1>3, <1>4, <2>1, SetRb, Zenon
<1>6. [s EXCEPT !.rb = b, !.owed = {}, !.sends = s.sends]
        = [s EXCEPT !.rb = b, !.owed = {}]
  BY <1>3 DEF WirelessState
<1> QED BY <1>5, <1>6 DEF InitBuffer, b

\* Appending to the report ring and to the event ring keeps them within bounds.
LEMMA RefuseBound ==
    ASSUME NEW S, NEW q \in Seq(S), NEW v \in S, NEW n \in Nat, Len(q) <= n
    PROVE  AppendOrRefuse(q, v, n) \in Seq(S) /\ Len(AppendOrRefuse(q, v, n)) <= n
<1>1. Append(q, v) \in Seq(S) /\ Len(Append(q, v)) = Len(q) + 1
  OBVIOUS
<1> QED BY <1>1 DEF AppendOrRefuse

\* An overriding ring never exceeds its capacity.
LEMMA OverrideBound ==
    ASSUME NEW S, NEW q \in Seq(S), NEW v \in S, NEW n \in Nat \ {0}, Len(q) <= n
    PROVE  AppendOrOverride(q, v, n) \in Seq(S) /\ Len(AppendOrOverride(q, v, n)) <= n
<1>1. CASE Len(q) = n
  <2>1. Tail(q) \in Seq(S) /\ Len(Tail(q)) = n - 1
    BY <1>1
  <2>2. Append(Tail(q), v) \in Seq(S) /\ Len(Append(Tail(q), v)) = n
    BY <2>1
  <2> QED BY <1>1, <2>2 DEF AppendOrOverride
<1>2. CASE Len(q) # n
  <2>1. Append(q, v) \in Seq(S) /\ Len(Append(q, v)) = Len(q) + 1
    OBVIOUS
  <2> QED BY <1>2, <2>1 DEF AppendOrOverride
<1> QED BY <1>1, <1>2

\* A report enters the buffer only while the battery is not critically low.
LEMMA EnqueueGood ==
    ASSUME NEW s \in Good, NEW r \in Report, ~s.critical_low
    PROVE  /\ EnqueueReport(s, r) \in Good
           /\ ~EnqueueReport(s, r).critical_low
<1> DEFINE b == report_buffer_enqueue(s.rb, r)
           q == AppendOrRefuse(s.rb.queue, r, QueueSize - 1)
<1>1. s.rb \in Buffer /\ s \in WirelessState /\ Len(s.rb.queue) <= QueueSize - 1
  BY QueueSizeAssumption DEF Good, Sound, WirelessState, Bounded, Buffer
<1>2. s.rb.queue \in Seq(Report)
  BY <1>1 DEF Buffer
<1>3. q \in Seq(Report) /\ Len(q) <= QueueSize - 1
  BY <1>1, <1>2, QueueSizeAssumption, RefuseBound
<1> HIDE DEF q
<1>4. /\ b \in Buffer /\ b.retry = s.rb.retry
      /\ Len(b.queue) < QueueSize
  BY <1>1, <1>3, QueueSizeAssumption DEF q, report_buffer_enqueue, Buffer
<1> HIDE DEF b
<1>5. r.id \in Nat
  BY DEF Report
<1>6. \A n, d \in Nat, o \in SUBSET Nat :
         [s EXCEPT !.rb = b, !.owed = o, !.burst = n, !.dropped = d] \in Good
  BY <1>1, <1>4 DEF Good, Sound, Counted, Silenced, Bounded, WirelessState
<1>7. /\ s.owed \in SUBSET Nat /\ s.owed \cup {r.id} \in SUBSET Nat
      /\ s.burst \in Nat /\ s.burst + 1 \in Nat /\ s.dropped \in Nat
  BY <1>1, <1>5 DEF WirelessState
<1>8. EnqueueReport(s, r) \in Good
  BY <1>6, <1>7 DEF EnqueueReport, b
<1>9. EnqueueReport(s, r).critical_low = s.critical_low
  BY <1>1 DEF EnqueueReport, WirelessState
<1> QED BY <1>8, <1>9

\* report_buffer_dequeue keeps the type and does not lengthen the ring.
LEMMA BufferDequeue ==
    ASSUME NEW b \in Buffer, Len(b.queue) < QueueSize
    PROVE  LET c == report_buffer_dequeue(b)
           IN  c \in Buffer /\ Len(c.queue) < QueueSize /\ c.retry = b.retry
<1>1. CASE b.queue = <<>>
  BY <1>1 DEF report_buffer_dequeue, report_buffer_is_empty
<1>2. CASE b.queue # <<>>
  <2>1. b.queue \in Seq(Report)
    BY DEF Buffer
  <2>2. /\ Head(b.queue) \in Report /\ Tail(b.queue) \in Seq(Report)
        /\ Len(Tail(b.queue)) < QueueSize
    BY <1>2, <2>1, QueueSizeAssumption
  <2> DEFINE c == [b EXCEPT !.kb_rpt = Head(b.queue), !.queue = Tail(b.queue)]
  <2>3. c \in Buffer /\ c.queue = Tail(b.queue) /\ c.retry = b.retry
    BY <2>2 DEF Buffer
  <2> QED BY <1>2, <2>2, <2>3 DEF report_buffer_dequeue, report_buffer_is_empty
<1> QED BY <1>1, <1>2

\* report_buffer_task starts the retry counter or counts it down exactly when
\* it transmits, and does nothing to a buffer without reports.
LEMMA BufferTask ==
    ASSUME NEW b \in Buffer, Len(b.queue) < QueueSize,
           NEW up \in BOOLEAN, NEW time
    PROVE  LET n == report_buffer_task(b, up, time)
           IN  /\ n \in Buffer /\ Len(n.queue) < QueueSize
               /\ n.retry = IF ~Transmits(b, up, time) THEN b.retry
                            ELSE IF b.retry = 0 THEN RetryCount ELSE b.retry - 1
               /\ b.queue = <<>> /\ b.retry = 0 => n = b /\ ~Transmits(b, up, time)
<1> DEFINE c == IF Pending(b, up) /\ b.retry = 0 THEN report_buffer_dequeue(b) ELSE b
           r == IF b.retry = 0 THEN RetryCount ELSE b.retry - 1
<1>1. c \in Buffer /\ Len(c.queue) < QueueSize /\ c.retry = b.retry
  BY BufferDequeue
<1>2. r \in 0 .. RetryCount /\ 0 \in Ages
  BY RetryAssumption, AgeAssumption DEF Buffer, Ages
<1>3. b.queue = <<>> /\ b.retry = 0 => ~Pending(b, up)
  BY DEF Pending, report_buffer_is_empty
<1>4. ASSUME NEW d \in Buffer, NEW m \in 0 .. RetryCount
      PROVE  /\ [d EXCEPT !.retry = m, !.retry_age = 0, !.age = 0] \in Buffer
             /\ [d EXCEPT !.retry = m, !.retry_age = 0, !.age = 0].queue = d.queue
             /\ [d EXCEPT !.retry = m, !.retry_age = 0, !.age = 0].retry = m
  BY <1>2 DEF Buffer
<1>5. report_buffer_task(b, up, time)
        = IF Transmits(b, up, time)
          THEN [c EXCEPT !.retry = r, !.retry_age = 0, !.age = 0] ELSE c
  BY DEF report_buffer_task
<1>6. Transmits(b, up, time) => Pending(b, up)
  BY DEF Transmits
<1>7. CASE Transmits(b, up, time)
  <2> HIDE DEF c, r
  <2>1. /\ [c EXCEPT !.retry = r, !.retry_age = 0, !.age = 0] \in Buffer
        /\ [c EXCEPT !.retry = r, !.retry_age = 0, !.age = 0].queue = c.queue
        /\ [c EXCEPT !.retry = r, !.retry_age = 0, !.age = 0].retry = r
    BY <1>1, <1>2, <1>4
  <2> QED BY <1>1, <1>3, <1>5, <1>6, <1>7, <2>1 DEF r
<1>8. CASE ~Transmits(b, up, time)
  <2>1. report_buffer_task(b, up, time) = c
    BY <1>5, <1>8
  <2>2. b.queue = <<>> /\ b.retry = 0 => c = b
    BY <1>3
  <2> HIDE DEF c
  <2> QED BY <1>1, <1>8, <2>1, <2>2
<1> QED BY <1>7, <1>8

\* report_buffer_task keeps the count of transmissions and retries.
LEMMA ReportTaskGood ==
    ASSUME NEW s \in Good
    PROVE  ReportTask(s) \in Good
<1> DEFINE up == s.state = "CONNECTED"
           b == report_buffer_task(s.rb, up, s.uptime)
           o == s.owed \ GivenUp(s.rb, up, s.uptime)
           n == IF s.rb.retry = 0 THEN 1 ELSE s.sends + 1
           l == Append(s.link, ReportPacket(b.kb_rpt))
<1>1. /\ s \in WirelessState /\ Len(s.rb.queue) < QueueSize /\ up \in BOOLEAN
      /\ s.sends \in Nat /\ s.owed \in SUBSET Nat /\ s.link \in Seq(Packet)
      /\ s.sends <= RetryCount + 1
      /\ s.rb.retry > 0 => s.sends + s.rb.retry <= RetryCount + 1
      /\ s.critical_low => s.rb.queue = <<>> /\ s.rb.retry = 0
  BY DEF Good, Sound, WirelessState, Bounded, Counted, Silenced
<1>2. s.rb \in Buffer /\ s.rb.retry \in Nat
  BY BufferOf, GoodIsSound
<1> HIDE DEF up
<1>3. /\ b \in Buffer /\ Len(b.queue) < QueueSize
      /\ b.retry = IF ~Transmits(s.rb, up, s.uptime) THEN s.rb.retry
                   ELSE IF s.rb.retry = 0 THEN RetryCount ELSE s.rb.retry - 1
      /\ s.rb.queue = <<>> /\ s.rb.retry = 0
            => b = s.rb /\ ~Transmits(s.rb, up, s.uptime)
  BY <1>1, <1>2, BufferTask
<1>4. o \in SUBSET Nat
  BY <1>1
<1>5. l \in Seq(Packet)
  <2>1. b.kb_rpt \in Report
    BY <1>3 DEF Buffer
  <2>2. ReportPacket(b.kb_rpt) \in Packet
    BY <2>1, PacketTypes
  <2> QED BY <1>1, <2>2
<1>6. CASE Transmits(s.rb, up, s.uptime)
  <2>1. ReportTask(s) = [[s EXCEPT !.rb = b, !.owed = o] EXCEPT !.link = l, !.sends = n]
    BY <1>1, <1>6 DEF ReportTask, up, WirelessState
  <2>2. n \in Nat /\ n <= RetryCount + 1 /\ n + b.retry <= RetryCount + 1
    BY <1>1, <1>2, <1>3, <1>6, RetryAssumption
  <2>3. ~s.critical_low
    BY <1>1, <1>3, <1>6
  <2> HIDE DEF b, o, n, l
  <2>4. [s EXCEPT !.rb = b, !.owed = o, !.sends = n] \in Good
    BY <1>3, <1>4, <2>2, <2>3, SetRb, GoodIsSound
  <2>5. [[s EXCEPT !.rb = b, !.owed = o, !.sends = n] EXCEPT !.link = l] \in Good
    BY <1>5, <2>4, SetLink
  <2>6. [[s EXCEPT !.rb = b, !.owed = o] EXCEPT !.link = l, !.sends = n]
          = [[s EXCEPT !.rb = b, !.owed = o, !.sends = n] EXCEPT !.link = l]
    BY <1>1 DEF WirelessState
  <2> QED BY <2>1, <2>5, <2>6
<1>7. CASE ~Transmits(s.rb, up, s.uptime)
  <2>1. ReportTask(s) = [s EXCEPT !.rb = b, !.owed = o]
    BY <1>7 DEF ReportTask, up
  <2>2. b.retry = s.rb.retry
    BY <1>3, <1>7
  <2> HIDE DEF b, o
  <2>3. [s EXCEPT !.rb = b, !.owed = o, !.sends = s.sends] \in Good
    BY <1>1, <1>2, <1>3, <1>4, <2>2, SetRb, GoodIsSound
  <2>4. [s EXCEPT !.rb = b, !.owed = o, !.sends = s.sends]
          = [s EXCEPT !.rb = b, !.owed = o]
    BY <1>1 DEF WirelessState
  <2> QED BY <2>1, <2>3, <2>4
<1> QED BY <1>6, <1>7

-----------------------------------------------------------------------------
(***************************************************************************)
(* The send functions, and QMK's calls of them.                            *)
(***************************************************************************)
\* wireless_send_keyboard and wireless_send_nkro keep a state good.
LEMMA SendKeyboardGood ==
    ASSUME NEW s \in Good, NEW r \in Report
    PROVE  wireless_send_keyboard(s, r) \in Good
<1>1. CASE s.critical_low
  BY <1>1 DEF wireless_send_keyboard
<1>2. CASE ~s.critical_low
  <2>1. EnqueueReport(s, r) \in Good
    BY <1>2, EnqueueGood
  <2>2. ReportTask(EnqueueReport(s, r)) \in Good
    BY <2>1, ReportTaskGood
  <2> QED BY <2>1, <2>2, ReconnectFirstGood DEF wireless_send_keyboard
<1> QED BY <1>1, <1>2

\* So does wireless_send_mouse,
LEMMA SendMouseGood ==
    ASSUME NEW s \in Good
    PROVE  wireless_send_mouse(s) \in Good
  BY ReconnectFirstGood DEF wireless_send_mouse

\* and wireless_send_system.
LEMMA SendSystemGood ==
    ASSUME NEW s \in Good, NEW r \in Report, NEW pressed
    PROVE  wireless_send_system(s, r, pressed) \in Good
<1>1. Transmit(s, ReportPacket(r)) \in Good
  BY PacketTypes, TransmitGood
<1> QED BY <1>1, ReconnectFirstGood DEF wireless_send_system

\* Assigning a buffer with the same queue and the same or no retries.
LEMMA SameReports ==
    ASSUME NEW s \in Good, NEW b \in Buffer,
           b.queue = s.rb.queue, b.retry \in {s.rb.retry, 0}
    PROVE  [s EXCEPT !.rb = b] \in Good
<1>1. /\ s \in WirelessState /\ s.sends \in Nat /\ s.owed \in SUBSET Nat
      /\ s.sends <= RetryCount + 1 /\ Len(s.rb.queue) < QueueSize
      /\ s.rb.retry > 0 => s.sends + s.rb.retry <= RetryCount + 1
      /\ s.critical_low => s.rb.queue = <<>> /\ s.rb.retry = 0
  BY DEF Good, Sound, Counted, Silenced, Bounded, WirelessState
<1>2. [s EXCEPT !.rb = b, !.owed = s.owed, !.sends = s.sends] \in Good
  <2>1. b.retry > 0 => s.sends + b.retry <= RetryCount + 1
    BY <1>1
  <2>2. s.critical_low => b.queue = <<>> /\ b.retry = 0
    BY <1>1
  <2> QED BY <1>1, <2>1, <2>2, SetRb, GoodIsSound
<1>3. [s EXCEPT !.rb = b, !.owed = s.owed, !.sends = s.sends] = [s EXCEPT !.rb = b]
  BY <1>1 DEF WirelessState
<1> QED BY <1>2, <1>3

\* wireless_send_consumer has no battery check of its own and relies on that
\* of its caller.
LEMMA SendConsumerGood ==
    ASSUME NEW s \in Good, NEW r \in Report, ~s.critical_low
    PROVE  wireless_send_consumer(s, r) \in Good
<1> DEFINE t == Transmit(s, ReportPacket(r))
<1>1. t \in Good
  BY PacketTypes, TransmitGood
<1> HIDE DEF t
<1>2. [t EXCEPT !.rb = report_buffer_update_timer(t.rb)] \in Good
  <2>1. ASSUME NEW b \in Buffer
        PROVE  LET c == report_buffer_update_timer(b)
               IN  c \in Buffer /\ c.queue = b.queue /\ c.retry = b.retry
    <3>1. 0 \in Ages
      BY AgeAssumption DEF Ages
    <3> QED BY <3>1 DEF report_buffer_update_timer, Buffer
  <2>2. t.rb \in Buffer
    BY <1>1, BufferOf, GoodIsSound
  <2> QED BY <1>1, <2>1, <2>2, SameReports
<1>3. EnqueueReport(s, r) \in Good
  BY EnqueueGood
<1> QED BY <1>2, <1>3, ReconnectFirstGood DEF wireless_send_consumer, t

\* wireless_send_extra has that check.
LEMMA SendExtraGood ==
    ASSUME NEW s \in Good, NEW r \in Report, NEW pressed
    PROVE  wireless_send_extra(s, r, pressed) \in Good
  BY SendSystemGood, SendConsumerGood DEF wireless_send_extra

\* A new report has its type and a fresh number.
LEMMA ProduceGood ==
    ASSUME NEW s \in Good, NEW t \in ReportTypes, NEW pressed \in BOOLEAN
    PROVE  Produce(s, t, pressed) \in Good /\ NewReport(s, t) \in Report
<1>1. s.next \in Nat /\ s.host_index \in Nat
  BY DEF Good, Sound, WirelessState
<1>2. NewReport(s, t) \in Report
  BY <1>1 DEF NewReport, Report
<1>3. Produce(s, t, pressed) \in Good
  <2>1. s.down \in [ReportTypes -> BOOLEAN]
    BY DEF Good, Sound, WirelessState
  <2>2. [s.down EXCEPT ![t] = pressed] \in [ReportTypes -> BOOLEAN]
    BY <2>1
  <2>3. ASSUME NEW d \in [ReportTypes -> BOOLEAN], NEW n \in Nat
        PROVE  [s EXCEPT !.down = d, !.next = n] \in Good
    BY DEF Good, Sound, Counted, Silenced, Bounded, WirelessState
  <2>4. s.next + 1 \in Nat
    BY <1>1
  <2> QED BY <2>2, <2>3, <2>4, Zenon DEF Produce
<1> QED BY <1>2, <1>3

\* QMK's send_keyboard_report keeps a state good.
LEMMA KeyboardReportGood ==
    ASSUME NEW s \in Good, NEW pressed \in BOOLEAN
    PROVE  send_keyboard_report(s, pressed) \in Good
<1>1. KeyboardType(s) \in ReportTypes
  BY DEF KeyboardType, ReportTypes
<1> QED BY <1>1, ProduceGood, SendKeyboardGood DEF send_keyboard_report

\* So do host_system_send and host_consumer_send,
LEMMA ExtraSendGood ==
    ASSUME NEW s \in Good, NEW t \in ReportTypes, NEW pressed \in BOOLEAN
    PROVE  host_extra_send(s, t, pressed) \in Good
  BY ProduceGood, SendExtraGood DEF host_extra_send

\* and clear_keyboard, which calls all of them.
LEMMA ClearKeyboardGood ==
    ASSUME NEW s \in Good
    PROVE  clear_keyboard(s) \in Good
<1> DEFINE s1 == host_extra_send(s, "SYSTEM", FALSE)
           s2 == host_extra_send(s1, "CONSUMER", FALSE)
           s3 == send_keyboard_report(s2, FALSE)
<1>1. s1 \in Good
  BY ExtraSendGood DEF ReportTypes
<1> HIDE DEF s1
<1>2. s2 \in Good
  BY <1>1, ExtraSendGood DEF ReportTypes
<1> HIDE DEF s2
<1>3. s3 \in Good
  BY <1>2, KeyboardReportGood
<1> HIDE DEF s3
<1>4. wireless_send_mouse(s3) \in Good
  BY <1>3, SendMouseGood
<1> QED BY <1>4 DEF clear_keyboard, s1, s2, s3

\* The passing of time ages the timers only.
LEMMA AfterTimeGood ==
    ASSUME NEW s \in Good, NEW dt \in Nat, NEW up \in 0 .. 4
    PROVE  AfterTime(s, dt, up) \in Good
<1>1. ASSUME NEW b \in Buffer
      PROVE  LET c == Elapse(b, dt)
             IN  c \in Buffer /\ c.queue = b.queue /\ c.retry = b.retry
  <2>1. b.age \in Ages /\ b.retry_age \in Ages
    BY DEF Buffer
  <2>2. Older(b.age, dt) \in Ages /\ Older(b.retry_age, dt) \in Ages
    BY <2>1, AgeAssumption DEF Older, Ages
  <2> QED BY <2>2 DEF Elapse, Buffer
<1> DEFINE t == [s EXCEPT !.rb = Elapse(s.rb, dt)]
<1>2. t \in Good
  BY <1>1, BufferOf, GoodIsSound, SameReports
<1> HIDE DEF t
<1>3. [t EXCEPT !.uptime = up] \in Good
  BY <1>2 DEF Good, Sound, Counted, Silenced, Bounded, WirelessState
<1>4. AfterTime(s, dt, up) = [t EXCEPT !.uptime = up]
  BY DEF AfterTime, t, Good, Sound, WirelessState
<1> QED BY <1>3, <1>4

-----------------------------------------------------------------------------
(***************************************************************************)
(* The event handlers.                                                     *)
(***************************************************************************)
\* lkbt51_param_init sends a packet and waits.
LEMMA ParamInitGood ==
    ASSUME NEW s \in Good
    PROVE  lkbt51_param_init(s) \in Good
<1>1. Transmit(s, [cmd |-> "PARAM"]) \in Good
  BY PacketTypes, TransmitGood
<1>2. s.uptime \in 0 .. 4
  BY DEF Good, Sound, WirelessState
<1>3. ParamWait \in Nat /\ Soonest(s.uptime, ParamWait) \in 0 .. 4
  BY <1>2, DomainAssumption DEF Soonest
<1> QED BY <1>1, <1>3, AfterTimeGood DEF lkbt51_param_init

\* wireless_enter_disconnected empties the buffer, and may configure the module
\* and reconnect.
LEMMA DisconnectedGood ==
    ASSUME NEW s \in Good
    PROVE  wireless_enter_disconnected(s) \in Good
<1> DEFINE t == [s EXCEPT !.led_state = 0, !.state = "DISCONNECTED"]
           i == InitBuffer(t)
           c == wireless_connect(lkbt51_param_init(i))
<1>1. t \in Good
  BY DEF Good, Sound, Counted, Silenced, Bounded, WirelessState, States
<1> HIDE DEF t
<1>2. i \in Good
  BY <1>1, GoodIsSound, InitBufferGood
<1> HIDE DEF i
<1>3. c \in Good
  BY <1>2, ParamInitGood, ConnectGood
<1> HIDE DEF c
<1>4. [c EXCEPT !.firstDisconnect = FALSE] \in Good
  BY <1>3 DEF Good, Sound, Counted, Silenced, Bounded, WirelessState
<1> QED BY <1>2, <1>4
        DEF wireless_enter_disconnected, wireless_enter_disconnected_kb, t, i, c

\* Every event handler keeps a state good.
LEMMA HandleEventGood ==
    ASSUME NEW s \in Good, NEW e \in Event
    PROVE  HandleEvent(s, e) \in Good
<1>1. e.param \in Nat
  BY DEF Event
<1> DEFINE h == e.param
<1>2. wireless_enter_reset(s) \in Good
  BY SetState, ParamInitGood DEF wireless_enter_reset, States
<1>3. wireless_enter_discoverable(s, h) \in Good
  BY <1>1 DEF wireless_enter_discoverable, States,
              Good, Sound, Counted, Silenced, Bounded, WirelessState
<1>4. wireless_enter_reconnecting(s, h) \in Good
  BY <1>1 DEF wireless_enter_reconnecting, States,
              Good, Sound, Counted, Silenced, Bounded, WirelessState
<1>5. wireless_enter_connected(s, h) \in Good
  <2> DEFINE t == [s EXCEPT !.state = "CONNECTED", !.host_index = h]
  <2>1. t \in Good
    BY <1>1 DEF States, Good, Sound, Counted, Silenced, Bounded, WirelessState
  <2> HIDE DEF t
  <2>2. clear_keyboard(t) \in Good
    BY <2>1, ClearKeyboardGood
  <2> QED BY <2>2 DEF wireless_enter_connected, t
<1>6. /\ wireless_enter_bluetooth_pin_code_entry(s) \in Good
      /\ wireless_exit_bluetooth_pin_code_entry(s) \in Good
  <2>1. ASSUME NEW n \in BOOLEAN, NEW p \in BOOLEAN
        PROVE  [s EXCEPT !.nkro = n, !.pincodeEntry = p] \in Good
    BY DEF Good, Sound, Counted, Silenced, Bounded, WirelessState
  <2> QED BY <2>1, DomainAssumption, Zenon
          DEF wireless_enter_bluetooth_pin_code_entry,
              wireless_exit_bluetooth_pin_code_entry
<1>7. wireless_enter_sleep(s) \in Good
  BY DEF wireless_enter_sleep, States,
         Good, Sound, Counted, Silenced, Bounded, WirelessState
<1>8. [s EXCEPT !.led_state = h] \in Good
  BY <1>1, SetLeds
<1>9. [s EXCEPT !.rb = report_buffer_set_inverval(s.rb, h)] \in Good
  <2>1. ASSUME NEW b \in Buffer, NEW n \in Nat
        PROVE  LET c == report_buffer_set_inverval(b, n)
               IN  c \in Buffer /\ c.queue = b.queue /\ c.retry = b.retry
    BY DEF report_buffer_set_inverval, Buffer
  <2> QED BY <1>1, <2>1, BufferOf, GoodIsSound, SameReports
<1> QED BY <1>2, <1>3, <1>4, <1>5, <1>6, <1>7, <1>8, <1>9, DisconnectedGood
        DEF HandleEvent

\* The shutdown raises the flag first and empties the buffer next, so the state
\* in between is sound but not good.
LEMMA ShutdownGood ==
    ASSUME NEW s \in Good
    PROVE  wireless_low_battery_shutdown([s EXCEPT !.critical_low = TRUE]) \in Good
<1> DEFINE t == [s EXCEPT !.critical_low = TRUE]
           i == InitBuffer(t)
           c == clear_keyboard(i)
           d == [c EXCEPT !.next = c.next + 2]
           empty == NewReport(c, KeyboardType(c))
           zero == [NewReport(c, "CONSUMER") EXCEPT !.id = NewReport(c, "CONSUMER").id + 1]
           e == Transmit(d, ReportPacket(empty))
           f == Transmit(e, ReportPacket(zero))
<1>1. t \in Sound
  BY DEF Good, Sound, Counted, Bounded, WirelessState
<1> HIDE DEF t
<1>2. i \in Good
  BY <1>1, InitBufferGood
<1> HIDE DEF i
<1>3. c \in Good
  BY <1>2, ClearKeyboardGood
<1> HIDE DEF c
<1>4. c.next \in Nat /\ c.next + 2 \in Nat
  BY <1>3 DEF Good, Sound, WirelessState
<1>5. d \in Good
  BY <1>3, <1>4 DEF Good, Sound, Counted, Silenced, Bounded, WirelessState
<1> HIDE DEF d
<1>6. empty \in Report
  BY <1>3, ProduceGood DEF KeyboardType, ReportTypes
<1>7. zero \in Report
  <2>1. NewReport(c, "CONSUMER") \in Report
    BY <1>3, ProduceGood DEF ReportTypes
  <2>2. ASSUME NEW r \in Report PROVE [r EXCEPT !.id = r.id + 1] \in Report
    BY DEF Report
  <2> QED BY <2>1, <2>2
<1> HIDE DEF empty, zero
<1>8. e \in Good
  BY <1>5, <1>6, PacketTypes, TransmitGood
<1> HIDE DEF e
<1>9. f \in Good
  BY <1>7, <1>8, PacketTypes, TransmitGood
<1> HIDE DEF f
<1>10. wireless_disconnect(f) \in Good
  BY <1>9, PacketTypes, TransmitGood DEF wireless_disconnect
<1> QED BY <1>10 DEF wireless_low_battery_shutdown, t, i, c, d, empty, zero, e, f

-----------------------------------------------------------------------------
(***************************************************************************)
(* Reading the module.                                                     *)
(***************************************************************************)
EventRing == {q \in Events : Len(q) < EventQueueSize}

\* Posting an event keeps the event ring below its size.
LEMMA PostRing ==
    ASSUME NEW q \in EventRing, NEW set, NEW type, NEW param,
           set => type \in EventTypes /\ param \in Nat
    PROVE  Post(q, set, type, param) \in EventRing
<1>1. CASE set
  <2>1. [type |-> type, param |-> param] \in Event
    BY <1>1 DEF Event
  <2>2. /\ q \in Seq(Event) /\ Len(q) <= EventQueueSize - 1
        /\ EventQueueSize - 1 \in Nat \ {0}
    BY EventQueueSizeAssumption DEF EventRing, Events
  <2>3. LET e == [type |-> type, param |-> param]
            p == AppendOrOverride(q, e, EventQueueSize - 1)
        IN  p \in Seq(Event) /\ Len(p) <= EventQueueSize - 1
    BY <2>1, <2>2, OverrideBound
  <2> QED BY <1>1, <2>3, EventQueueSizeAssumption
          DEF Post, wireless_event_enqueue, EventRing, Events
<1>2. CASE ~set
  BY <1>2 DEF Post
<1> QED BY <1>1, <1>2

\* The interval computed from the module's byte is a natural number.
LEMMA IntervalNat == \A raw \in 0 .. 255 : ConnectionInterval(raw) \in Nat
<1> SUFFICES ASSUME NEW raw \in 0 .. 255 PROVE ConnectionInterval(raw) \in Nat
  OBVIOUS
<1> DEFINE us == (raw % 128) * (IF raw >= 128 THEN 1250 ELSE 125)
           ms == us \div 1000
<1>1. us \in Nat
  <2>1. raw % 128 \in Nat
    OBVIOUS
  <2> QED BY <2>1
<1> HIDE DEF us
<1>2. ms \in Nat
  BY <1>1
<1> HIDE DEF ms
<1>3. ms \div 3 \in Nat
  BY <1>2
<1> QED BY <1>2, <1>3 DEF ConnectionInterval, us, ms

\* Reading a frame posts events and sets the interval.
LEMMA ReadFrameGood ==
    ASSUME NEW s \in Good, NEW f \in Frame
    PROVE  ReadFrame(s, f) \in Good
<1> DEFINE ms == IF f.raw # -1 THEN ConnectionInterval(f.raw) ELSE s.connection_interval
           q1 == Post(s.evq, f.reset, "RESET", 0)
           q2 == Post(q1, f.conn # "NONE", ConnectionEvent(f).type, f.host)
           q3 == Post(q2, f.led # -1, "HID_INDICATOR", f.led)
           q4 == Post(q3, f.raw # -1, "CONECTION_INTERVAL", ms)
<1>1. /\ f.conn \in ConnectionEvents \cup {"NONE", "UNKNOWN"} /\ f.host \in Nat
      /\ f.led \in Nat \cup {-1} /\ f.raw \in (0 .. 255) \cup {-1}
  BY DEF Frame
<1>2. ms \in Nat
  BY <1>1, IntervalNat DEF Good, Sound, WirelessState
<1>3. s.evq \in EventRing
  BY DEF Good, Sound, Bounded, WirelessState, EventRing
<1> HIDE DEF ms
<1>4. q1 \in EventRing
  BY <1>3, PostRing DEF EventTypes
<1> HIDE DEF q1
<1>5. q2 \in EventRing
  <2>1. ConnectionEvent(f).type \in EventTypes
    BY <1>1 DEF ConnectionEvent, EventTypes
  <2> QED BY <1>1, <1>4, <2>1, PostRing
<1> HIDE DEF q2
<1>6. q3 \in EventRing
  BY <1>1, <1>5, PostRing DEF EventTypes
<1> HIDE DEF q3
<1>7. q4 \in EventRing
  BY <1>2, <1>6, PostRing DEF EventTypes
<1> HIDE DEF q4
<1>8. [s EXCEPT !.evq = q4, !.connection_interval = ms] \in Good
  BY <1>2, <1>7 DEF Good, Sound, Counted, Silenced, Bounded, WirelessState, EventRing
<1> QED BY <1>8 DEF ReadFrame, ms, q1, q2, q3, q4

\* An answer ends the retries or leaves them alone; it never adds any.
LEMMA AckGood ==
    ASSUME NEW s \in Good, NEW code
    PROVE  ack_handler(s, code) \in Good
<1> DEFINE ci == s.connection_interval
<1>1. s.rb \in Buffer
  BY BufferOf, GoodIsSound
<1>2. ci \in Nat /\ ci + FifoHalfDelay \in Nat /\ ci + FifoFullDelay \in Nat
  BY DomainAssumption DEF Good, Sound, WirelessState
<1>3. ASSUME NEW b \in Buffer, NEW n \in Nat
      PROVE  LET c == report_buffer_set_inverval(b, n)
             IN  c \in Buffer /\ c.queue = b.queue /\ c.retry = b.retry
  BY DEF report_buffer_set_inverval, Buffer
<1>4. ASSUME NEW b \in Buffer, NEW n \in Nat
      PROVE  LET c == report_buffer_set_retry(b, 0)
             IN  c \in Buffer /\ c.queue = b.queue /\ c.retry = 0
  BY RetryAssumption DEF report_buffer_set_retry, Buffer
<1>5. ASSUME NEW n \in Nat
      PROVE  [s EXCEPT !.rb = report_buffer_set_inverval(
                                  report_buffer_set_retry(s.rb, 0), n)] \in Good
  BY <1>1, <1>3, <1>4, SameReports
<1>6. ASSUME NEW n \in Nat
      PROVE  [s EXCEPT !.rb = report_buffer_set_inverval(s.rb, n)] \in Good
  BY <1>1, <1>3, SameReports
<1> QED BY <1>2, <1>5, <1>6 DEF ack_handler

\* lkbt51_task reads a frame and an acknowledgement.
LEMMA DriverTaskGood ==
    ASSUME NEW s \in Good, NEW m \in RadioState
    PROVE  lkbt51_task(s, m) \in Good
<1> DEFINE t == IF m.out = <<>> THEN s ELSE ReadFrame(s, Head(m.out))
<1>1. m.out \in Seq(Frame)
  BY DEF RadioState
<1>2. t \in Good
  BY <1>1, ReadFrameGood
<1> HIDE DEF t
<1>3. ack_handler(t, Head(m.acks)) \in Good
  BY <1>2, AckGood
<1> QED BY <1>2, <1>3 DEF lkbt51_task, t

-----------------------------------------------------------------------------
(***************************************************************************)
(* The module and the hosts.                                               *)
(***************************************************************************)
\* Host indices are natural numbers.
LEMMA HostIndex == Hosts \subseteq Nat
  BY HostsAssumption

\* A connection report of the module is a frame.
LEMMA SayFrame ==
    ASSUME NEW conn \in ConnectionEvents \cup {"NONE", "UNKNOWN"}, NEW h \in Nat
    PROVE  /\ Say(conn, h) \in Frame
           /\ [Say(conn, h) EXCEPT !.reset = TRUE] \in Frame
           /\ \A led \in Nat \cup {-1}, raw \in (0 .. 255) \cup {-1} :
                 [Say(conn, h) EXCEPT !.led = led, !.raw = raw] \in Frame
  BY DEF Say, NoFrame, Frame

\* A new mode, target and output keep the module's type.
LEMMA SetRadio ==
    ASSUME NEW m \in RadioState, NEW out \in Seq(Frame), NEW t \in Hosts,
           NEW mode \in {"idle", "linking", "pairing", "up"}
    PROVE  [m EXCEPT !.mode = mode, !.target = t, !.leds = 0, !.out = out] \in RadioState
  BY DEF RadioState

\* The frames of a module that gives up its link.
LEMMA LinkDownFrames ==
    ASSUME NEW m \in RadioState
    PROVE  LinkDown(m) \in Seq(Frame)
<1>1. m.target \in Nat
  BY HostIndex DEF RadioState
<1>2. Say("DISCONNECTED", m.target) \in Frame
  BY <1>1, SayFrame DEF ConnectionEvents
<1> QED BY <1>2 DEF LinkDown

\* The module's reaction to a connect command keeps its type.
LEMMA RadioConnectType ==
    ASSUME NEW m \in RadioState, NEW h
    PROVE  RadioConnect(m, h) \in RadioState
<1> DEFINE t == IF h \in Hosts THEN h ELSE m.target
           o == m.out \o LinkDown(m) \o <<Say("RECONNECTING", t)>>
<1>1. t \in Hosts /\ m.out \in Seq(Frame)
  BY DEF RadioState
<1> HIDE DEF t
<1>2. Say("RECONNECTING", t) \in Frame
  BY <1>1, HostIndex, SayFrame DEF ConnectionEvents
<1>3. o \in Seq(Frame)
  BY <1>1, <1>2, LinkDownFrames
<1> HIDE DEF o
<1>4. [m EXCEPT !.mode = "linking", !.target = t, !.leds = 0, !.out = o] \in RadioState
  BY <1>1, <1>3, SetRadio
<1> QED BY <1>4 DEF RadioConnect, t, o

\* So does its reaction to a pairing command,
LEMMA RadioPairingType ==
    ASSUME NEW m \in RadioState, NEW h
    PROVE  RadioPairing(m, h) \in RadioState
<1> DEFINE t == IF h \in Hosts THEN h ELSE m.target
           o == m.out \o LinkDown(m) \o <<Say("DISCOVERABLE", t)>>
<1>1. t \in Hosts /\ m.out \in Seq(Frame)
  BY DEF RadioState
<1> HIDE DEF t
<1>2. Say("DISCOVERABLE", t) \in Frame
  BY <1>1, HostIndex, SayFrame DEF ConnectionEvents
<1>3. o \in Seq(Frame)
  BY <1>1, <1>2, LinkDownFrames
<1> HIDE DEF o
<1>4. [m EXCEPT !.mode = "pairing", !.target = t, !.leds = 0, !.out = o] \in RadioState
  BY <1>1, <1>3, SetRadio
<1> QED BY <1>4 DEF RadioPairing, t, o

\* The module says one more thing about its connection.
LEMMA MoreFrames ==
    ASSUME NEW m \in RadioState, NEW f \in Frame
    PROVE  Append(m.out, f) \in Seq(Frame)
<1>1. m.out \in Seq(Frame)
  BY DEF RadioState
<1> QED BY <1>1

\* and to a disconnect command.
LEMMA RadioDisconnectType ==
    ASSUME NEW m \in RadioState
    PROVE  RadioDisconnect(m) \in RadioState
<1> DEFINE o == IF m.mode = "idle" THEN m.out
                ELSE Append(m.out, Say("DISCONNECTED", m.target))
<1>1. m.target \in Nat /\ m.out \in Seq(Frame)
  BY HostIndex DEF RadioState
<1>2. Say("DISCONNECTED", m.target) \in Frame
  BY <1>1, SayFrame DEF ConnectionEvents
<1>3. o \in Seq(Frame)
  BY <1>1, <1>2, MoreFrames
<1> HIDE DEF o
<1>4. [m EXCEPT !.mode = "idle", !.leds = 0, !.out = o] \in RadioState
  BY <1>3 DEF RadioState
<1> QED BY <1>4 DEF RadioDisconnect, o

\* A read of the bus keeps the module's type.
LEMMA AfterReadType ==
    ASSUME NEW m \in RadioState, NEW repeat
    PROVE  AfterRead(m, repeat) \in RadioState
<1>1. m.acks \in Seq(AckCodes) /\ m.out \in Seq(Frame)
  BY DEF RadioState
<1>2. Rest(m.acks) \in Seq(AckCodes) /\ Rest(m.out) \in Seq(Frame)
  BY <1>1 DEF Rest
<1>3. ASSUME NEW a \in Seq(AckCodes), NEW o \in Seq(Frame)
      PROVE  [m EXCEPT !.acks = a, !.out = o] \in RadioState
  BY DEF RadioState
<1> QED BY <1>1, <1>2, <1>3 DEF AfterRead

-----------------------------------------------------------------------------
(***************************************************************************)
(* The steps of the main loop.                                             *)
(***************************************************************************)
Places == {"pump", "transport", "scan", "events", "common", "battery"}
HostState == [seen : [ReportTypes -> Nat], strays : SUBSET Nat]

\* The inductive invariant.
Inv ==
    /\ pc \in Places
    /\ w \in Good
    /\ radio \in RadioState
    /\ host \in HostState

\* What a host key or the passing of time takes from the module's budget.
LEMMA SpendType ==
    ASSUME NEW m \in RadioState, m.budget > 0
    PROVE  [m EXCEPT !.budget = m.budget - 1] \in RadioState
<1>1. m.budget - 1 \in Nat
  BY DEF RadioState
<1> QED BY <1>1 DEF RadioState

\* The clock stays in its range.
LEMMA LaterType ==
    ASSUME NEW u \in 0 .. 4, NEW dt \in Nat
    PROVE  Later(u, dt) \subseteq 0 .. 4
  BY DEF Later

\* Key processing preserves the invariant.
LEMMA KeysInv ==
    ASSUME Inv, KeyEvent \/ ExtraKeyEvent \/ MouseEvent
    PROVE  Inv'
<1>1. CASE KeyEvent
  BY <1>1, KeyboardReportGood DEF Inv, KeyEvent
<1>2. CASE ExtraKeyEvent
  <2>1. {"CONSUMER", "SYSTEM"} \subseteq ReportTypes
    BY DEF ReportTypes
  <2>2. w' \in Good
    BY <1>2, <2>1, ExtraSendGood DEF Inv, ExtraKeyEvent
  <2> QED BY <1>2, <2>2 DEF Inv, ExtraKeyEvent
<1>3. CASE MouseEvent
  BY <1>3, SendMouseGood, SpendType DEF Inv, MouseEvent
<1> QED BY <1>1, <1>2, <1>3

\* The host keys preserve it.
LEMMA HostKeysInv ==
    ASSUME Inv, HostKeyPress \/ HostKeyRelease
    PROVE  Inv'
<1>1. ASSUME NEW p \in BOOLEAN
      PROVE  [w EXCEPT !.pairing_key = p] \in Good
  BY DEF Inv, Good, Sound, Counted, Silenced, Bounded, WirelessState
<1>2. CASE HostKeyPress
  <2>1. PICK h \in Hosts : w' = wireless_connect_ex([w EXCEPT !.pairing_key = TRUE], h)
    BY <1>2 DEF HostKeyPress
  <2>2. w' \in Good
    BY <1>1, <2>1, HostIndex, ConnectExGood
  <2> QED BY <1>2, <2>2, SpendType DEF Inv, HostKeyPress
<1>3. CASE HostKeyRelease
  <2>1. w' \in Good
    BY <1>1, <1>3 DEF HostKeyRelease
  <2> QED BY <1>3, <2>1 DEF Inv, HostKeyRelease
<1> QED BY <1>2, <1>3

\* The macro's task preserves it.
LEMMA SendStringInv ==
    ASSUME Inv, SendStringTask
    PROVE  Inv'
<1>1. PICK dt \in LoopTimes : \E up \in Later(w.uptime, dt) :
          w' = ReportTask(lkbt51_task(AfterTime(w, dt, up), radio))
  BY DEF SendStringTask
<1>2. PICK up \in Later(w.uptime, dt) :
          w' = ReportTask(lkbt51_task(AfterTime(w, dt, up), radio))
  BY <1>1
<1>3. dt \in Nat /\ w.uptime \in 0 .. 4
  BY DomainAssumption DEF Inv, Good, Sound, WirelessState
<1>4. up \in 0 .. 4
  BY <1>2, <1>3, LaterType
<1>5. AfterTime(w, dt, up) \in Good
  BY <1>3, <1>4, AfterTimeGood DEF Inv
<1>6. w' \in Good
  BY <1>2, <1>5, DriverTaskGood, ReportTaskGood DEF Inv
<1> QED BY <1>6, AfterReadType DEF Inv, SendStringTask

\* The driver's task and the end of bt_transport_enable preserve it.
LEMMA TransportInv ==
    ASSUME Inv, TransportTask \/ EnableTransport
    PROVE  Inv'
<1>1. CASE TransportTask
  <2>1. w' \in Good
    BY <1>1, DriverTaskGood DEF Inv, TransportTask
  <2>2. PICK repeat \in {FALSE} \cup (IF MayRepeat(radio) THEN {TRUE} ELSE {}) :
           radio' = [AfterRead(radio, repeat)
                        EXCEPT !.budget = IF repeat THEN @ - 1 ELSE @]
    BY <1>1 DEF TransportTask
  <2> DEFINE m == AfterRead(radio, repeat)
  <2>3. m \in RadioState
    BY AfterReadType DEF Inv
  <2>4. m.budget = radio.budget /\ (repeat => radio.budget > 0)
    BY <2>2 DEF Inv, AfterRead, RadioState, MayRepeat
  <2>5. radio' \in RadioState
    <3> HIDE DEF m
    <3>1. [m EXCEPT !.budget = m.budget] \in RadioState
      BY <2>3 DEF RadioState
    <3>2. repeat => [m EXCEPT !.budget = m.budget - 1] \in RadioState
      BY <2>3, <2>4, SpendType
    <3> QED BY <2>2, <3>1, <3>2 DEF m
  <2>6. pc' \in Places
    BY <1>1 DEF TransportTask, Places
  <2> QED BY <1>1, <2>1, <2>5, <2>6 DEF Inv, TransportTask
<1>2. CASE EnableTransport
  <2>1. wireless_connect_ex(w, LastHost) \in Good
    BY ConnectExGood DEF Inv, LastHost
  <2>2. w' \in Good
    BY <1>2, <2>1, AfterTimeGood, AgeAssumption DEF EnableTransport
  <2> QED BY <1>2, <2>2 DEF Inv, EnableTransport, Places
<1> QED BY <1>1, <1>2

\* Event handling and the report task preserve it.
LEMMA EventsInv ==
    ASSUME Inv, EventStep \/ ReportStep
    PROVE  Inv'
<1>1. CASE EventStep
  <2> DEFINE q == Tail(w.evq)
             s == [w EXCEPT !.evq = q]
  <2>1. w.evq \in Seq(Event) /\ w.evq # <<>> /\ Len(w.evq) < EventQueueSize
    BY <1>1 DEF Inv, Good, Sound, Bounded, WirelessState, Events, EventStep, NoEvents
  <2>2. Head(w.evq) \in Event /\ q \in Seq(Event) /\ Len(q) < EventQueueSize
    BY <2>1, EventQueueSizeAssumption
  <2> HIDE DEF q
  <2>3. s \in Good
    BY <2>2 DEF Inv, Good, Sound, Counted, Silenced, Bounded, WirelessState, Events
  <2> HIDE DEF s
  <2>4. HandleEvent(s, Head(w.evq)) \in Good
    BY <2>2, <2>3, HandleEventGood
  <2> QED BY <1>1, <2>4 DEF Inv, EventStep, s, q
<1>2. CASE ReportStep
  BY <1>2, ReportTaskGood DEF Inv, ReportStep, Places
<1> QED BY <1>1, <1>2

\* The pairing timer preserves it.
LEMMA CommonInv ==
    ASSUME Inv, CommonTask
    PROVE  Inv'
<1>1. [w EXCEPT !.pairing_key = FALSE] \in Good
  BY DEF Inv, Good, Sound, Counted, Silenced, Bounded, WirelessState
<1>2. wireless_pairing_ex([w EXCEPT !.pairing_key = FALSE], 0) \in Good
  BY <1>1, PairingExGood
<1> QED BY <1>2 DEF Inv, CommonTask, Places

\* The low-battery shutdown and the return of power preserve it.
LEMMA BatteryInv ==
    ASSUME Inv, BatteryTask
    PROVE  Inv'
<1>1. [w EXCEPT !.critical_low = FALSE] \in Good
  BY DEF Inv, Good, Sound, Counted, Silenced, Bounded, WirelessState
<1>2. wireless_low_battery_shutdown([w EXCEPT !.critical_low = TRUE]) \in Good
  BY ShutdownGood DEF Inv
<1>3. ASSUME NEW up \in Later(w.uptime, AgeCap)
      PROVE  AfterTime(wireless_low_battery_shutdown([w EXCEPT !.critical_low = TRUE]),
                       AgeCap, up) \in Good
  <2>1. w.uptime \in 0 .. 4 /\ AgeCap \in Nat
    BY AgeAssumption DEF Inv, Good, Sound, WirelessState
  <2>2. up \in 0 .. 4
    BY <2>1, LaterType
  <2> QED BY <1>2, <2>1, <2>2, AfterTimeGood
<1>4. w' \in Good
  BY <1>1, <1>3 DEF BatteryTask
<1> QED BY <1>4 DEF Inv, BatteryTask, Places

\* The end of a round and the wrap of the clock preserve it.
LEMMA TimeInv ==
    ASSUME Inv, LoopEnd \/ ClockWrap
    PROVE  Inv'
<1>1. CASE LoopEnd
  <2>1. PICK dt \in LoopTimes : \E up \in Later(w.uptime, dt) : w' = AfterTime(w, dt, up)
    BY <1>1 DEF LoopEnd
  <2>2. PICK up \in Later(w.uptime, dt) : w' = AfterTime(w, dt, up)
    BY <2>1
  <2>3. dt \in Nat /\ w.uptime \in 0 .. 4
    BY DomainAssumption DEF Inv, Good, Sound, WirelessState
  <2>4. up \in 0 .. 4
    BY <2>2, <2>3, LaterType
  <2>5. w' \in Good
    BY <2>2, <2>3, <2>4, AfterTimeGood DEF Inv
  <2> QED BY <1>1, <2>5 DEF Inv, LoopEnd, Places
<1>2. CASE ClockWrap
  <2>1. ASSUME NEW u \in 0 .. 4
        PROVE  [w EXCEPT !.uptime = u] \in Good
    BY DEF Inv, Good, Sound, Counted, Silenced, Bounded, WirelessState
  <2> QED BY <1>2, <2>1, SpendType DEF Inv, ClockWrap
<1> QED BY <1>1, <1>2

-----------------------------------------------------------------------------
(***************************************************************************)
(* The steps of the module.                                                *)
(***************************************************************************)
\* The module takes the oldest packet off the bus.
LEMMA TakenPacket ==
    ASSUME Inv, w.link # <<>>
    PROVE  Head(w.link) \in Packet /\ [w EXCEPT !.link = Tail(w.link)] \in Good
<1>1. w.link \in Seq(Packet)
  BY DEF Inv, Good, Sound, WirelessState
<1>2. Head(w.link) \in Packet /\ Tail(w.link) \in Seq(Packet)
  BY <1>1
<1> QED BY <1>2, SetLink DEF Inv

\* The module's commands preserve the invariant.
LEMMA CommandInv ==
    ASSUME Inv, RadioCommand
    PROVE  Inv'
<1>1. w' \in Good
  BY TakenPacket DEF RadioCommand
<1>2. RadioParam(radio) \in RadioState
  BY DEF Inv, RadioParam, RadioState
<1>3. radio' \in RadioState
  BY <1>2, RadioConnectType, RadioPairingType, RadioDisconnectType
  DEF Inv, RadioCommand
<1> QED BY <1>1, <1>3 DEF Inv, RadioCommand

\* An answer keeps the module's type.
LEMMA AnswerType ==
    ASSUME NEW m \in RadioState, NEW code \in AckCodes
    PROVE  [m EXCEPT !.acks = Append(m.acks, code)] \in RadioState
<1>1. m.acks \in Seq(AckCodes)
  BY DEF RadioState
<1>2. Append(m.acks, code) \in Seq(AckCodes)
  BY <1>1
<1> QED BY <1>2 DEF RadioState

\* A delivery keeps the type of the history.
LEMMA DeliverType ==
    ASSUME Inv, NEW r \in Report
    PROVE  Deliver(r) \in HostState
<1>1. r.id \in Nat /\ r.type \in ReportTypes
  BY DEF Report
<1>2. host.seen \in [ReportTypes -> Nat] /\ host.strays \in SUBSET Nat
  BY DEF Inv, HostState
<1>3. [host.seen EXCEPT ![r.type] = r.id] \in [ReportTypes -> Nat]
  BY <1>1, <1>2
<1>4. ASSUME NEW f \in [ReportTypes -> Nat], NEW x \in SUBSET Nat
      PROVE  [host EXCEPT !.seen = f, !.strays = x] \in HostState
  BY DEF Inv, HostState
<1>5. host.strays \cup {r.id} \in SUBSET Nat
  BY <1>1, <1>2
<1> QED BY <1>2, <1>3, <1>4, <1>5 DEF Deliver

\* Accepting, refusing and ignoring a report preserve the invariant.
LEMMA ReportPacketInv ==
    ASSUME Inv, RadioAccept \/ RadioRefuse \/ RadioIgnore
    PROVE  Inv'
<1>1. w.link # <<>> /\ Head(w.link).cmd = "REPORT"
  BY DEF RadioAccept, RadioRefuse, RadioIgnore
<1>2. Head(w.link).rpt \in Report
  BY <1>1, TakenPacket DEF Packet
<1>3. [w EXCEPT !.link = Tail(w.link)] \in Good
  BY <1>1, TakenPacket
<1>4. CASE RadioAccept
  <2>1. host' \in HostState
    BY <1>2, <1>4, DeliverType DEF RadioAccept
  <2>2. PICK code \in {"SUCCESS", "FIFO_HALF_WARNING"} :
           radio' = [radio EXCEPT !.acks = Append(radio.acks, code)]
    BY <1>4 DEF RadioAccept
  <2>3. radio' \in RadioState
    BY <2>2, AnswerType DEF Inv, AckCodes
  <2> DEFINE s == [w EXCEPT !.link = Tail(w.link)]
             o == w.owed \ {Head(w.link).rpt.id}
  <2>4. o \in SUBSET Nat
    BY DEF Inv, Good, Sound, WirelessState
  <2>5. w' = [s EXCEPT !.owed = o]
    BY <1>4 DEF Inv, RadioAccept, Good, Sound, WirelessState
  <2> HIDE DEF s, o
  <2>6. [s EXCEPT !.owed = o] \in Good
    BY <1>3, <2>4 DEF s, Good, Sound, Counted, Silenced, Bounded, WirelessState
  <2> QED BY <1>4, <2>1, <2>3, <2>5, <2>6 DEF Inv, RadioAccept
<1>5. CASE RadioRefuse
  <2>1. PICK code \in {"FIFO_FULL_ERROR", "CHECKSUM_ERROR"} :
           radio' = [radio EXCEPT !.acks = Append(radio.acks, code)]
    BY <1>5 DEF RadioRefuse
  <2>2. radio' \in RadioState
    BY <2>1, AnswerType DEF Inv, AckCodes
  <2> QED BY <1>3, <1>5, <2>2 DEF Inv, RadioRefuse
<1>6. CASE RadioIgnore
  BY <1>3, <1>6 DEF Inv, RadioIgnore
<1> QED BY <1>4, <1>5, <1>6

\* A lost acknowledgement preserves it.
LEMMA LoseAckInv ==
    ASSUME Inv, LoseAck
    PROVE  Inv'
<1>1. radio.acks \in Seq(AckCodes) /\ radio.acks # <<>>
  BY DEF Inv, LoseAck, RadioState
<1>2. Tail(radio.acks) \in Seq(AckCodes)
  BY <1>1
<1>3. [radio EXCEPT !.acks = Tail(radio.acks)] \in RadioState
  BY <1>2 DEF Inv, RadioState
<1> QED BY <1>3 DEF Inv, LoseAck

\* A link that comes up preserves it.
LEMMA LinkUpInv ==
    ASSUME Inv, RadioLinkUp
    PROVE  Inv'
<1>1. PICK led \in {-1} \cup LedStates, raw \in {-1} \cup RawIntervals :
         radio' = [radio EXCEPT !.mode = "up",
                                !.leds = IF led = -1 THEN 0 ELSE led,
                                !.out = <<[Say("CONNECTED", radio.target)
                                             EXCEPT !.led = led, !.raw = raw]>>]
  BY DEF RadioLinkUp
<1> DEFINE f == [Say("CONNECTED", radio.target) EXCEPT !.led = led, !.raw = raw]
           l == IF led = -1 THEN 0 ELSE led
<1>2. radio.target \in Nat
  BY HostIndex DEF Inv, RadioState
<1>3. led \in Nat \cup {-1} /\ raw \in (0 .. 255) \cup {-1} /\ l \in Nat
  BY DomainAssumption
<1>4. f \in Frame
  BY <1>2, <1>3, SayFrame DEF ConnectionEvents
<1> HIDE DEF f, l
<1>5. <<f>> \in Seq(Frame)
  BY <1>4
<1>6. ASSUME NEW o \in Seq(Frame), NEW n \in Nat
      PROVE  [radio EXCEPT !.mode = "up", !.leds = n, !.out = o] \in RadioState
  BY DEF Inv, RadioState
<1>7. radio' \in RadioState
  BY <1>1, <1>3, <1>5, <1>6 DEF f, l
<1> QED BY <1>7 DEF Inv, RadioLinkUp

\* The things the module starts by itself.
LEMMA ModuleInv ==
    ASSUME Inv, \/ RadioLinkLost \/ RadioPairingTimeout \/ RadioPinCode
                \/ RadioReset \/ RadioLeds
    PROVE  Inv'
<1>1. /\ radio.budget - 1 \in Nat
      /\ radio.target \in Nat /\ radio.out \in Seq(Frame)
  <2>1. radio.budget > 0
    BY DEF RadioLinkLost, RadioPairingTimeout, RadioPinCode, RadioReset, RadioLeds
  <2>2. /\ radio.budget \in Nat /\ radio.target \in Hosts
        /\ radio.out \in Seq(Frame)
    BY DEF Inv, RadioState
  <2>3. radio.budget - 1 \in Nat
    BY <2>1, <2>2
  <2> QED BY <2>2, <2>3, HostIndex
<1>2. ASSUME NEW conn \in ConnectionEvents
      PROVE  Append(radio.out, Say(conn, radio.target)) \in Seq(Frame)
  <2>1. Say(conn, radio.target) \in Frame
    BY <1>1, SayFrame
  <2> QED BY <1>1, <2>1
<1>3. CASE RadioLinkLost
  <2>1. [radio EXCEPT !.mode = "idle", !.leds = 0, !.budget = radio.budget - 1,
            !.out = Append(radio.out, Say("DISCONNECTED", radio.target))] \in RadioState
    BY <1>1, <1>2 DEF Inv, RadioState, ConnectionEvents
  <2> QED BY <1>3, <2>1 DEF Inv, RadioLinkLost
<1>4. CASE RadioPairingTimeout
  <2>1. [radio EXCEPT !.mode = "idle", !.budget = radio.budget - 1,
            !.out = Append(radio.out, Say("SLEEP", radio.target))] \in RadioState
    BY <1>1, <1>2 DEF Inv, RadioState, ConnectionEvents
  <2> QED BY <1>4, <2>1 DEF Inv, RadioPairingTimeout
<1>5. CASE RadioPinCode
  <2>1. ASSUME NEW conn \in ConnectionEvents
        PROVE  [radio EXCEPT !.budget = radio.budget - 1,
                   !.out = Append(radio.out, Say(conn, radio.target))] \in RadioState
    BY <1>1, <1>2 DEF Inv, RadioState
  <2>2. {"BT_PINCODE_ENTRY", "EXIT_BT_PINCODE_ENTRY"} \subseteq ConnectionEvents
    BY DEF ConnectionEvents
  <2>3. radio' \in RadioState
    BY <1>5, <2>1, <2>2 DEF RadioPinCode
  <2> QED BY <1>5, <2>3 DEF Inv, RadioPinCode
<1>6. CASE RadioReset
  <2>1. PICK conn \in {"NONE", "UNKNOWN"} :
          radio' = [radio EXCEPT !.mode = "idle", !.leds = 0,
                       !.budget = radio.budget - 1, !.configured = FALSE,
                       !.out = radio.out \o <<[Say(conn, 0) EXCEPT !.reset = TRUE],
                                              Say("DISCONNECTED", radio.target)>>]
    BY <1>6 DEF RadioReset
  <2> DEFINE f == [Say(conn, 0) EXCEPT !.reset = TRUE]
             g == Say("DISCONNECTED", radio.target)
  <2>2. f \in Frame /\ g \in Frame
    BY <1>1, SayFrame DEF ConnectionEvents
  <2> HIDE DEF f, g
  <2>3. radio.out \o <<f, g>> \in Seq(Frame)
    BY <1>1, <2>2
  <2>4. ASSUME NEW o \in Seq(Frame), NEW n \in Nat
        PROVE  [radio EXCEPT !.mode = "idle", !.leds = 0, !.budget = n,
                             !.configured = FALSE, !.out = o] \in RadioState
    BY DEF Inv, RadioState
  <2>5. radio' \in RadioState
    BY <1>1, <2>1, <2>3, <2>4 DEF f, g
  <2> QED BY <1>6, <2>5 DEF Inv, RadioReset
<1>7. CASE RadioLeds
  <2>1. PICK led \in LedStates :
          radio' = [radio EXCEPT !.leds = led, !.budget = radio.budget - 1,
                       !.out = Append(radio.out, [NoFrame EXCEPT !.led = led])]
    BY <1>7 DEF RadioLeds
  <2> DEFINE f == [NoFrame EXCEPT !.led = led]
  <2>2. led \in Nat /\ f \in Frame
    BY DomainAssumption DEF NoFrame, Frame
  <2> HIDE DEF f
  <2>3. Append(radio.out, f) \in Seq(Frame)
    BY <1>1, <2>2
  <2>4. radio' \in RadioState
    BY <1>1, <2>1, <2>2, <2>3 DEF Inv, RadioState, f
  <2> QED BY <1>7, <2>4 DEF Inv, RadioLeds
<1> QED BY <1>3, <1>4, <1>5, <1>6, <1>7

-----------------------------------------------------------------------------
\* The power-on state satisfies the invariant.
LEMMA InitInv == Init => Inv
<1> SUFFICES ASSUME Init PROVE Inv
  OBVIOUS
<1> DEFINE b == report_buffer_init(PowerOnBuffer(1))
<1>1. b \in Buffer /\ b.queue = <<>> /\ b.retry = 0
  <2>1. NoReport \in Report
    BY DEF NoReport, Report, ReportTypes
  <2>2. <<>> \in Seq(Report) /\ 0 \in 0 .. RetryCount /\ AgeCap \in Ages
    BY RetryAssumption, AgeAssumption DEF Ages
  <2>3. PowerOnBuffer(1) \in Buffer
    BY <2>1, <2>2 DEF PowerOnBuffer, Buffer
  <2> QED BY <2>3, BufferInit
<1> DEFINE l == <<[cmd |-> "DISCONNECT"]>>
           d == [t \in ReportTypes |-> FALSE]
<1>2. l \in Seq(Packet) /\ d \in [ReportTypes -> BOOLEAN]
  BY PacketTypes
<1>3. <<>> \in Events /\ Len(<<>>) = 0 /\ {} \in SUBSET Nat /\ EepromNkro \in BOOLEAN
  BY DomainAssumption DEF Events
<1> HIDE DEF b, l, d
<1>10. PICK n \in Budgets :
         /\ w = PoweredOn(n.reports)
         /\ \E t \in Hosts : \E out \in {<<>>, <<Say("DISCONNECTED", t)>>} :
               radio = [mode |-> "idle", target |-> t, leds |-> 0,
                        configured |-> FALSE, out |-> out, acks |-> <<>>,
                        budget |-> n.events]
  BY DEF Init
<1>11. n.events \in Nat /\ MaxReports - n.reports + 1 \in Nat
  BY BoundAssumption
<1>4. ASSUME NEW q \in Events, NEW o \in SUBSET Nat, NEW k \in BOOLEAN, NEW i \in Nat
      PROVE  [state |-> "INITIALIZED", host_index |-> 0, led_state |-> 0,
              pincodeEntry |-> FALSE, nkro |-> k, critical_low |-> FALSE,
              firstDisconnect |-> TRUE, pairing_key |-> FALSE, evq |-> q,
              rb |-> b, connection_interval |-> 1, uptime |-> 0,
              down |-> d, next |-> i, link |-> l, owed |-> o,
              sends |-> 0, burst |-> 0, dropped |-> 0] \in WirelessState
  BY <1>1, <1>2 DEF WirelessState, States
<1>5. w \in WirelessState
  BY <1>3, <1>4, <1>10, <1>11 DEF PoweredOn, b, l, d
<1>6. /\ w.rb = b /\ w.evq = <<>> /\ w.sends = 0 /\ w.critical_low = FALSE
  BY <1>10 DEF PoweredOn, b
<1>7. w \in Good
  BY <1>1, <1>3, <1>5, <1>6, RetryAssumption, QueueSizeAssumption,
     EventQueueSizeAssumption
  DEF Good, Sound, Counted, Silenced, Bounded
<1>8. radio \in RadioState
  <2>1. PICK t \in Hosts : \E out \in {<<>>, <<Say("DISCONNECTED", t)>>} :
           radio = [mode |-> "idle", target |-> t, leds |-> 0,
                    configured |-> FALSE, out |-> out, acks |-> <<>>,
                    budget |-> n.events]
    BY <1>10
  <2>2. Say("DISCONNECTED", t) \in Frame
    BY HostIndex, SayFrame DEF ConnectionEvents
  <2>3. {<<>>, <<Say("DISCONNECTED", t)>>} \subseteq Seq(Frame)
    BY <2>2
  <2>4. <<>> \in Seq(AckCodes)
    OBVIOUS
  <2>5. ASSUME NEW out \in Seq(Frame), NEW a \in Seq(AckCodes)
        PROVE  [mode |-> "idle", target |-> t, leds |-> 0, configured |-> FALSE,
                out |-> out, acks |-> a, budget |-> n.events] \in RadioState
    BY <1>11 DEF RadioState
  <2> QED BY <2>1, <2>3, <2>4, <2>5
<1>9. host \in HostState
  BY DEF Init, HostState
<1> QED BY <1>7, <1>8, <1>9 DEF Init, Inv, Places

\* Every step preserves it.
LEMMA NextInv == Inv /\ [Next]_vars => Inv'
<1> SUFFICES ASSUME Inv, [Next]_vars PROVE Inv'
  OBVIOUS
<1>1. CASE Firmware
  BY <1>1, KeysInv, HostKeysInv, SendStringInv, TransportInv, EventsInv,
     CommonInv, BatteryInv, TimeInv
  DEF Firmware
<1>2. CASE Radio
  BY <1>2, CommandInv, ReportPacketInv, LoseAckInv, LinkUpInv, ModuleInv DEF Radio
<1>3. CASE UNCHANGED vars
  BY <1>3 DEF vars, Inv
<1> QED BY <1>1, <1>2, <1>3 DEF Next

\* So it holds in every reachable state.
LEMMA Inductive == Spec => []Inv
  BY InitInv, NextInv, PTL DEF Spec

\* Type correctness of the wireless stack; in particular its two rings never
\* hold more than their slots but one.
THEOREM WirelessType == Spec => []TypeOK
<1>1. Inv => TypeOK
  BY DEF Inv, TypeOK, Good, Sound, Bounded, Places, HostState
<1> QED BY <1>1, Inductive, PTL

\* report_buffer_task hands a report to the module at most RetryCount + 1
\* times, for every RetryCount, and however answers, events, macros and the
\* low-battery shutdown interleave with it.
THEOREM TransmissionsBounded == Spec => []TransmitBound
<1>1. Inv => TransmitBound
  BY DEF Inv, TransmitBound, Good, Sound, Counted
<1> QED BY <1>1, Inductive, PTL

\* A keyboard whose battery is critically low queues no report until power
\* returns, whatever keys are pressed and whatever the module says.
THEOREM CriticalIsSilent == Spec => []SilentBuffer
<1>1. Inv => SilentBuffer
  BY DEF Inv, SilentBuffer, Good, Silenced, report_buffer_is_empty
<1> QED BY <1>1, Inductive, PTL
-----------------------------------------------------------------------------
(***************************************************************************)
(* Silence.  The states of a critically low battery with the packets l on  *)
(* the bus; every function but lkbt51_param_init and its callers maps this *)
(* set into itself.                                                        *)
(***************************************************************************)
Mute(l) == {s \in Good : s.critical_low /\ s.link = l}

\* A mute state has no report, so report_buffer_task leaves it mute,
LEMMA ReportTaskMute ==
    ASSUME NEW l, NEW s \in Mute(l)
    PROVE  ReportTask(s) \in Mute(l)
<1> DEFINE up == s.state = "CONNECTED"
           b == report_buffer_task(s.rb, up, s.uptime)
           o == s.owed \ GivenUp(s.rb, up, s.uptime)
<1>1. /\ s \in Good /\ s \in WirelessState /\ s.critical_low /\ s.link = l
      /\ Len(s.rb.queue) < QueueSize
      /\ s.rb.queue = <<>> /\ s.rb.retry = 0 /\ up \in BOOLEAN
  BY DEF Mute, Good, Sound, Silenced, Bounded
<1>2. s.rb \in Buffer
  BY <1>1, BufferOf, GoodIsSound
<1> HIDE DEF up
<1>3. ~Transmits(s.rb, up, s.uptime)
  BY <1>1, <1>2, BufferTask
<1>4. ReportTask(s) = [s EXCEPT !.rb = b, !.owed = o]
  BY <1>3 DEF ReportTask, up
<1> HIDE DEF b, o
<1>5. ReportTask(s).critical_low /\ ReportTask(s).link = l
  BY <1>1, <1>4 DEF WirelessState
<1> QED BY <1>1, <1>5, ReportTaskGood DEF Mute

\* and the requests for a connection are refused.
LEMMA RequestsMute ==
    ASSUME NEW l, NEW s \in Mute(l), NEW h
    PROVE  /\ wireless_connect(s) = s
           /\ wireless_connect_ex(s, h) = s
           /\ wireless_pairing_ex(s, h) = s
           /\ ReconnectFirst(s) = s
  BY DEF Mute, wireless_connect, wireless_connect_ex, wireless_pairing_ex, ReconnectFirst

\* No send function sends.
LEMMA SendsMute ==
    ASSUME NEW l, NEW s \in Mute(l), NEW r, NEW pressed
    PROVE  /\ wireless_send_keyboard(s, r) = s
           /\ wireless_send_mouse(s) = s
           /\ wireless_send_extra(s, r, pressed) = s
  BY DEF Mute, wireless_send_keyboard, wireless_send_mouse, wireless_send_extra

\* A report is produced, and dropped.
LEMMA ProduceMute ==
    ASSUME NEW l, NEW s \in Mute(l), NEW t \in ReportTypes, NEW pressed \in BOOLEAN
    PROVE  Produce(s, t, pressed) \in Mute(l)
<1>1. s \in Good /\ s \in WirelessState /\ s.critical_low /\ s.link = l
  BY DEF Mute, Good, Sound
<1>2. Produce(s, t, pressed).critical_low /\ Produce(s, t, pressed).link = l
  BY <1>1 DEF Produce, WirelessState
<1> QED BY <1>1, <1>2, ProduceGood DEF Mute

\* So QMK's send functions change only what was last typed,
LEMMA KeyboardReportMute ==
    ASSUME NEW l, NEW s \in Mute(l), NEW pressed \in BOOLEAN
    PROVE  send_keyboard_report(s, pressed) \in Mute(l)
<1>1. KeyboardType(s) \in ReportTypes
  BY DEF KeyboardType, ReportTypes
<1> QED BY <1>1, ProduceMute, SendsMute DEF send_keyboard_report

\* of keyboard keys and of consumer and system keys alike,
LEMMA ExtraSendMute ==
    ASSUME NEW l, NEW s \in Mute(l), NEW t \in ReportTypes, NEW pressed \in BOOLEAN
    PROVE  host_extra_send(s, t, pressed) \in Mute(l)
  BY ProduceMute, SendsMute DEF host_extra_send

\* and clear_keyboard is as silent.
LEMMA ClearKeyboardMute ==
    ASSUME NEW l, NEW s \in Mute(l)
    PROVE  clear_keyboard(s) \in Mute(l)
<1> DEFINE s1 == host_extra_send(s, "SYSTEM", FALSE)
           s2 == host_extra_send(s1, "CONSUMER", FALSE)
           s3 == send_keyboard_report(s2, FALSE)
<1>1. s1 \in Mute(l)
  BY ExtraSendMute DEF ReportTypes
<1> HIDE DEF s1
<1>2. s2 \in Mute(l)
  BY <1>1, ExtraSendMute DEF ReportTypes
<1> HIDE DEF s2
<1>3. s3 \in Mute(l)
  BY <1>2, KeyboardReportMute
<1> HIDE DEF s3
<1>4. wireless_send_mouse(s3) \in Mute(l)
  BY <1>3, SendsMute
<1> QED BY <1>4 DEF clear_keyboard, s1, s2, s3

\* The passing of time.
LEMMA AfterTimeMute ==
    ASSUME NEW l, NEW s \in Mute(l), NEW dt \in Nat, NEW up \in 0 .. 4
    PROVE  AfterTime(s, dt, up) \in Mute(l)
<1>1. s \in Good /\ s \in WirelessState /\ s.critical_low /\ s.link = l
  BY DEF Mute, Good, Sound
<1>2. AfterTime(s, dt, up).critical_low /\ AfterTime(s, dt, up).link = l
  BY <1>1 DEF AfterTime, WirelessState
<1> QED BY <1>1, <1>2, AfterTimeGood DEF Mute

\* lkbt51_param_init sends its packet all the same.
LEMMA ParamInitMute ==
    ASSUME NEW l, NEW s \in Mute(l)
    PROVE  lkbt51_param_init(s) \in Mute(Append(l, [cmd |-> "PARAM"]))
<1> DEFINE p == [cmd |-> "PARAM"]
           t == Transmit(s, p)
<1>1. s \in Good /\ s \in WirelessState /\ s.critical_low /\ s.link = l
  BY DEF Mute, Good, Sound
<1>2. t \in Good
  BY <1>1, PacketTypes, TransmitGood
<1>3. t.critical_low /\ t.link = Append(l, p)
  BY <1>1 DEF Transmit, WirelessState
<1>4. t \in Mute(Append(l, p))
  BY <1>2, <1>3 DEF Mute
<1>5. s.uptime \in 0 .. 4
  BY <1>1 DEF WirelessState
<1>6. ParamWait \in Nat /\ Soonest(s.uptime, ParamWait) \in 0 .. 4
  BY <1>5, DomainAssumption DEF Soonest
<1> HIDE DEF t, p
<1>7. AfterTime(t, ParamWait, Soonest(s.uptime, ParamWait)) \in Mute(Append(l, p))
  BY <1>4, <1>6, AfterTimeMute
<1> QED BY <1>7 DEF lkbt51_param_init, t, p

\* A handler sends nothing, or the parameters.
LEMMA HandleEventMute ==
    ASSUME NEW l, NEW s \in Mute(l), NEW e \in Event
    PROVE  HandleEvent(s, e) \in Mute(l) \cup Mute(Append(l, [cmd |-> "PARAM"]))
<1> DEFINE p == [cmd |-> "PARAM"]
           n == HandleEvent(s, e)
           h == e.param
<1>1. /\ s \in Good /\ s \in WirelessState /\ s.critical_low /\ s.link = l
      /\ h \in Nat
  BY DEF Mute, Good, Sound, Event
<1>2. n \in Good
  BY <1>1, HandleEventGood
<1>3. CASE e.type = "RESET"
  <2> DEFINE t == [s EXCEPT !.state = "RESET"]
  <2>1. t \in Good /\ t.critical_low /\ t.link = l
    <3>1. t.critical_low /\ t.link = l
      BY <1>1 DEF WirelessState
    <3> QED BY <1>1, <3>1, SetState DEF States
  <2>2. t \in Mute(l)
    BY <2>1 DEF Mute
  <2> HIDE DEF t
  <2>3. lkbt51_param_init(t) \in Mute(Append(l, p))
    BY <2>2, ParamInitMute
  <2> QED BY <1>3, <2>3 DEF HandleEvent, wireless_enter_reset, t
<1>4. CASE e.type = "CONNECTED"
  <2> DEFINE t == [s EXCEPT !.state = "CONNECTED", !.host_index = h]
  <2>1. t \in Good
    BY <1>1 DEF States, Good, Sound, Counted, Silenced, Bounded, WirelessState
  <2>2. t.critical_low /\ t.link = l
    BY <1>1 DEF WirelessState
  <2>3. t \in Mute(l)
    BY <2>1, <2>2 DEF Mute
  <2> HIDE DEF t
  <2>4. clear_keyboard(t) \in Mute(l)
    BY <2>3, ClearKeyboardMute
  <2> QED BY <1>4, <2>4 DEF HandleEvent, wireless_enter_connected, t
<1>5. CASE e.type = "DISCONNECTED"
  <2> DEFINE t == [s EXCEPT !.led_state = 0, !.state = "DISCONNECTED"]
             i == InitBuffer(t)
             c == lkbt51_param_init(i)
  <2>1. t \in Good
    BY <1>1 DEF Good, Sound, Counted, Silenced, Bounded, WirelessState, States
  <2>2. t.critical_low /\ t.link = l /\ t \in WirelessState
    BY <1>1, <2>1 DEF WirelessState, Good, Sound
  <2> HIDE DEF t
  <2>3. i.critical_low /\ i.link = l
    BY <2>2 DEF InitBuffer, WirelessState
  <2>4. i \in Mute(l)
    BY <2>1, <2>3, GoodIsSound, InitBufferGood DEF Mute
  <2> HIDE DEF i
  <2>5. c \in Mute(Append(l, p))
    BY <2>4, ParamInitMute
  <2>6. wireless_connect(c) = c
    BY <2>5, RequestsMute
  <2> HIDE DEF c
  <2>7. [c EXCEPT !.firstDisconnect = FALSE] \in Mute(Append(l, p))
    BY <2>5 DEF Mute, Good, Sound, Counted, Silenced, Bounded, WirelessState
  <2>8. n \in {i, [c EXCEPT !.firstDisconnect = FALSE]}
    BY <1>5, <2>6 DEF HandleEvent, wireless_enter_disconnected,
                      wireless_enter_disconnected_kb, t, i, c
  <2> HIDE DEF n
  <2> QED BY <2>4, <2>7, <2>8 DEF n
<1>6. CASE e.type \notin {"RESET", "CONNECTED", "DISCONNECTED"}
  <2>1. n.critical_low /\ n.link = l
    BY <1>1, <1>6 DEF HandleEvent, wireless_enter_discoverable, wireless_enter_reconnecting,
       wireless_enter_bluetooth_pin_code_entry, wireless_exit_bluetooth_pin_code_entry,
       wireless_enter_sleep, WirelessState
  <2> QED BY <1>2, <2>1 DEF Mute
<1> QED BY <1>3, <1>4, <1>5, <1>6

\* Reading the module sends nothing.
LEMMA DriverTaskMute ==
    ASSUME NEW l, NEW s \in Mute(l), NEW m \in RadioState
    PROVE  lkbt51_task(s, m) \in Mute(l)
<1> DEFINE t == IF m.out = <<>> THEN s ELSE ReadFrame(s, Head(m.out))
<1>1. s \in Good /\ s \in WirelessState /\ s.critical_low /\ s.link = l
  BY DEF Mute, Good, Sound
<1>2. m.out \in Seq(Frame)
  BY DEF RadioState
<1>3. t \in Good
  BY <1>1, <1>2, ReadFrameGood
<1>4. t.critical_low /\ t.link = l
  BY <1>1 DEF ReadFrame, WirelessState
<1>5. t \in WirelessState
  BY <1>3 DEF Good, Sound
<1> HIDE DEF t
<1>6. ack_handler(t, Head(m.acks)) \in Good
  BY <1>3, AckGood
<1>7. ack_handler(t, Head(m.acks)).critical_low /\ ack_handler(t, Head(m.acks)).link = l
  BY <1>4, <1>5 DEF ack_handler, WirelessState
<1> QED BY <1>3, <1>4, <1>6, <1>7 DEF Mute, lkbt51_task, t

\* A step of a keyboard whose battery is and stays critically low puts nothing on
\* the bus, or the parameters, or takes a packet off it.
LEMMA StepMute ==
    ASSUME Inv, Next, w.critical_low, w'.critical_low
    PROVE  \/ w'.link = w.link
           \/ w'.link = Append(w.link, [cmd |-> "PARAM"])
           \/ w.link # <<>> /\ w'.link = Tail(w.link)
<1> DEFINE l == w.link
<1>1. w \in Mute(l) /\ w \in Good /\ w \in WirelessState /\ w.uptime \in 0 .. 4
  BY DEF Inv, Mute, Good, Sound, WirelessState
<1>2. ASSUME NEW p \in BOOLEAN
      PROVE  [w EXCEPT !.pairing_key = p] \in Mute(l)
  <2>1. [w EXCEPT !.pairing_key = p] \in Good
    BY DEF Inv, Good, Sound, Counted, Silenced, Bounded, WirelessState
  <2> QED BY <1>1, <2>1 DEF Mute, WirelessState
<1>3. \A m : m \in Mute(l) => m.link = l
  BY DEF Mute
<1> HIDE DEF l
<1>4. CASE KeyEvent
  BY <1>1, <1>3, <1>4, KeyboardReportMute DEF KeyEvent, l
<1>5. CASE ExtraKeyEvent
  <2>1. {"CONSUMER", "SYSTEM"} \subseteq ReportTypes
    BY DEF ReportTypes
  <2> QED BY <1>1, <1>3, <1>5, <2>1, ExtraSendMute DEF ExtraKeyEvent, l
<1>6. CASE MouseEvent
  BY <1>1, <1>3, <1>6, SendsMute DEF MouseEvent, l
<1>7. CASE HostKeyPress \/ HostKeyRelease \/ CommonTask
  <2> DEFINE s(p) == [w EXCEPT !.pairing_key = p]
  <2>1. s(TRUE) \in Mute(l) /\ s(FALSE) \in Mute(l)
    BY <1>2
  <2>2. \A h : wireless_connect_ex(s(TRUE), h) = s(TRUE)
    BY <2>1, RequestsMute, Zenon
  <2>3. wireless_pairing_ex(s(FALSE), 0) = s(FALSE)
    BY <2>1, RequestsMute, Zenon
  <2>4. w' \in {w, s(TRUE), s(FALSE)}
    BY <1>7, <2>2, <2>3 DEF HostKeyPress, HostKeyRelease, CommonTask
  <2> HIDE DEF s
  <2> QED BY <1>1, <1>3, <2>1, <2>4 DEF l
<1>8. CASE SendStringTask
  <2>0. PICK dt \in LoopTimes : \E up \in Later(w.uptime, dt) :
            w' = ReportTask(lkbt51_task(AfterTime(w, dt, up), radio))
    BY <1>8 DEF SendStringTask
  <2>1. PICK up \in Later(w.uptime, dt) :
            w' = ReportTask(lkbt51_task(AfterTime(w, dt, up), radio))
    BY <2>0
  <2>2. dt \in Nat /\ up \in 0 .. 4
    BY <1>1, <2>1, DomainAssumption, LaterType
  <2>3. w' \in Mute(l)
    BY <1>1, <2>1, <2>2, AfterTimeMute, DriverTaskMute, ReportTaskMute DEF Inv
  <2> QED BY <1>3, <2>3 DEF l
<1>9. CASE TransportTask
  BY <1>1, <1>3, <1>9, DriverTaskMute DEF TransportTask, Inv, l
<1>10. CASE EnableTransport
  <2>1. wireless_connect_ex(w, LastHost) = w
    BY <1>1, RequestsMute
  <2>2. AgeCap \in Nat /\ 3 \in 0 .. 4
    BY AgeAssumption
  <2>3. AfterTime(w, AgeCap, 3) \in Mute(l)
    BY <1>1, <2>2, AfterTimeMute
  <2> QED BY <1>3, <1>10, <2>1, <2>3 DEF EnableTransport, l
<1>11. CASE EventStep
  <2> DEFINE q == Tail(w.evq)
             s == [w EXCEPT !.evq = q]
  <2>1. w.evq \in Seq(Event) /\ w.evq # <<>> /\ Len(w.evq) < EventQueueSize
    BY <1>11 DEF Inv, Good, Sound, Bounded, WirelessState, Events, EventStep, NoEvents
  <2>2. Head(w.evq) \in Event /\ q \in Seq(Event) /\ Len(q) < EventQueueSize
    BY <2>1, EventQueueSizeAssumption
  <2> HIDE DEF q
  <2>3. s \in Good
    BY <2>2 DEF Inv, Good, Sound, Counted, Silenced, Bounded, WirelessState, Events
  <2>4. s.critical_low /\ s.link = l
    BY <1>1 DEF WirelessState, l
  <2>5. s \in Mute(l)
    BY <2>3, <2>4 DEF Mute
  <2> HIDE DEF s
  <2>6. HandleEvent(s, Head(w.evq)) \in Mute(l) \cup Mute(Append(l, [cmd |-> "PARAM"]))
    BY <2>2, <2>5, HandleEventMute
  <2> QED BY <1>11, <2>6 DEF EventStep, s, q, l, Mute
<1>12. CASE ReportStep
  BY <1>1, <1>3, <1>12, ReportTaskMute DEF ReportStep, l
<1>13. CASE BatteryTask
  BY <1>1, <1>13 DEF BatteryTask, WirelessState
<1>14. CASE LoopEnd
  <2>0. PICK dt \in LoopTimes : \E up \in Later(w.uptime, dt) : w' = AfterTime(w, dt, up)
    BY <1>14 DEF LoopEnd
  <2>1. PICK up \in Later(w.uptime, dt) : w' = AfterTime(w, dt, up)
    BY <2>0
  <2>2. dt \in Nat /\ up \in 0 .. 4
    BY <1>1, <2>1, DomainAssumption, LaterType
  <2> QED BY <1>1, <1>3, <2>1, <2>2, AfterTimeMute DEF l
<1>15. CASE ClockWrap
  BY <1>1, <1>15 DEF ClockWrap, WirelessState
<1>16. CASE RadioCommand \/ RadioAccept \/ RadioRefuse \/ RadioIgnore
  BY <1>1, <1>16 DEF RadioCommand, RadioAccept, RadioRefuse, RadioIgnore, WirelessState
<1>17. CASE LoseAck \/ RadioLinkUp \/ RadioLinkLost \/ RadioPairingTimeout
            \/ RadioPinCode \/ RadioReset \/ RadioLeds
  BY <1>17 DEF LoseAck, RadioLinkUp, RadioLinkLost, RadioPairingTimeout, RadioPinCode,
               RadioReset, RadioLeds
<1> QED
  BY <1>4, <1>5, <1>6, <1>7, <1>8, <1>9, <1>10, <1>11, <1>12, <1>13, <1>14, <1>15,
     <1>16, <1>17
  DEF Next, Firmware, Radio

\* While the battery is critically low, no function gets past its check: no
\* report and no request for a connection is put on the bus, whatever keys are
\* pressed and whatever the module says.
THEOREM CriticalAsksNothing == Spec => SilentWhenCritical
<1>1. Inv /\ [Next]_vars
        => (w.critical_low /\ w'.critical_low /\ Len(w'.link) > Len(w.link)
              => w'.link[Len(w'.link)].cmd = "PARAM")
  <2> SUFFICES ASSUME Inv, [Next]_vars, w.critical_low, w'.critical_low,
                      Len(w'.link) > Len(w.link)
               PROVE  w'.link[Len(w'.link)].cmd = "PARAM"
    OBVIOUS
  <2> DEFINE p == [cmd |-> "PARAM"]
  <2>1. w.link \in Seq(Packet) /\ p \in Packet /\ p.cmd = "PARAM"
    BY PacketTypes DEF Inv, Good, Sound, WirelessState
  <2>2. ~UNCHANGED vars
    BY <2>1 DEF vars
  <2>3. \/ w'.link = w.link
        \/ w'.link = Append(w.link, p)
        \/ w.link # <<>> /\ w'.link = Tail(w.link)
    BY <2>2, StepMute
  <2> HIDE DEF p
  <2>4. w'.link = Append(w.link, p)
    <3>1. w.link # <<>> => Len(Tail(w.link)) = Len(w.link) - 1
      BY <2>1
    <3>2. Len(w.link) \in Nat
      BY <2>1
    <3>3. ASSUME w.link # <<>>, w'.link = Tail(w.link) PROVE FALSE
      <4>1. Len(w'.link) = Len(w.link) - 1
        BY <3>1, <3>3, Zenon
      <4> QED BY <3>2, <4>1
    <3>4. w'.link # w.link
      BY <3>2
    <3> QED BY <2>3, <3>3, <3>4
  <2>5. Len(Append(w.link, p)) = Len(w.link) + 1 /\ Append(w.link, p)[Len(w.link) + 1] = p
    BY <2>1
  <2> QED BY <2>1, <2>4, <2>5
<1>2. Inv /\ [Next]_vars
        => [w.critical_low /\ w'.critical_low /\ Len(w'.link) > Len(w.link)
              => w'.link[Len(w'.link)].cmd = "PARAM"]_vars
  BY <1>1
<1> QED BY <1>2, Inductive, PTL DEF Spec, SilentWhenCritical
-----------------------------------------------------------------------------
(***************************************************************************)
(* Order.  The reports of type t still on their way are those on the bus,  *)
(* the report in flight, which may be on the bus again or for the first    *)
(* time, and those in the ring.                                            *)
(***************************************************************************)
IsOf(p, t) == p.cmd = "REPORT" /\ p.rpt.type = t
InFlight(b, t) == b.retry > 0 /\ b.kb_rpt.type = t

OnBus(t, l) == {i \in 1 .. Len(l) : IsOf(l[i], t)}
InRing(t, b) == {i \in 1 .. Len(b.queue) : b.queue[i].type = t}

\* They come in the order of their numbers, which are between m and n.
Line(t, m, n, l, b) ==
    /\ m <= n
    /\ \A i \in OnBus(t, l) : m <= l[i].rpt.id /\ l[i].rpt.id <= n
    /\ \A i, j \in OnBus(t, l) : i < j => l[i].rpt.id <= l[j].rpt.id
    /\ \A i \in InRing(t, b) : m <= b.queue[i].id /\ b.queue[i].id <= n
    /\ \A i, j \in InRing(t, b) : i < j => b.queue[i].id <= b.queue[j].id
    /\ \A i \in OnBus(t, l), j \in InRing(t, b) : l[i].rpt.id <= b.queue[j].id
    /\ InFlight(b, t) =>
          /\ m <= b.kb_rpt.id /\ b.kb_rpt.id <= n
          /\ \A i \in OnBus(t, l) : l[i].rpt.id <= b.kb_rpt.id
          /\ \A j \in InRing(t, b) : b.kb_rpt.id <= b.queue[j].id

\* The states whose reports of type t are in line, with n not above the number
\* of the next report.
Lined(t, m, n) == {s \in Good : n \in Nat /\ n <= s.next /\ Line(t, m, n, s.link, s.rb)}

\* A bus and a buffer with the types the facts about lines need.
Kept(m, n, l, b) == /\ m \in Nat /\ n \in Nat /\ l \in Seq(Packet)
                    /\ b.queue \in Seq(Report) /\ b.kb_rpt \in Report /\ b.retry \in Nat

\* Of a state of the firmware they are known.
LEMMA KeptOf ==
    ASSUME NEW s \in Good
    PROVE  /\ s.link \in Seq(Packet) /\ s.rb.queue \in Seq(Report)
           /\ s.rb.kb_rpt \in Report /\ s.rb.retry \in Nat /\ s.next \in Nat
<1>1. s.rb \in Buffer /\ s.rb.retry \in Nat /\ s.rb.queue \in Seq(Report)
  BY BufferOf, GoodIsSound
<1>2. s.link \in Seq(Packet) /\ s.next \in Nat
  BY DEF Good, Sound, WirelessState
<1> QED BY <1>1, <1>2 DEF Buffer

\* A larger bound.
LEMMA LineWeaken ==
    ASSUME NEW t, NEW m, NEW n, NEW l, NEW b, NEW k \in Nat, Kept(m, n, l, b),
           Line(t, m, n, l, b), n <= k
    PROVE  Line(t, m, k, l, b)
<1>1. \A i \in OnBus(t, l) : l[i].rpt.id \in Nat
  BY DEF Kept, OnBus, IsOf, Packet, Report
<1>2. \A i \in InRing(t, b) : b.queue[i].id \in Nat
  <2>1. \A q \in Seq(Report) : \A i \in 1 .. Len(q) : q[i] \in Report
    OBVIOUS
  <2>2. \A i \in InRing(t, b) : b.queue[i] \in Report
    BY <2>1, Zenon DEF Kept, InRing
  <2> QED BY <2>2 DEF Report
<1>3. b.kb_rpt.id \in Nat
  BY DEF Kept, Report
<1> QED BY <1>1, <1>2, <1>3 DEF Line, Kept

\* A buffer with the same ring, and the same report in flight or none.
LEMMA LineSame ==
    ASSUME NEW t, NEW m, NEW n, NEW l, NEW b, NEW c, Line(t, m, n, l, b),
           c.queue = b.queue, c.kb_rpt = b.kb_rpt, c.retry \in {b.retry, 0}
    PROVE  Line(t, m, n, l, c)
<1>1. InRing(t, c) = InRing(t, b) /\ (InFlight(c, t) => InFlight(b, t))
  BY DEF InRing, InFlight
<1> QED BY <1>1 DEF Line

\* An empty buffer.
LEMMA LineEmpty ==
    ASSUME NEW t, NEW m, NEW n, NEW l, NEW b, NEW c, Line(t, m, n, l, b),
           c.queue = <<>>, c.retry = 0
    PROVE  Line(t, m, n, l, c)
<1>1. InRing(t, c) = {} /\ ~InFlight(c, t)
  BY DEF InRing, InFlight
<1> QED BY <1>1 DEF Line

\* One packet more on the bus.
LEMMA MoreOnBus ==
    ASSUME NEW t, NEW l \in Seq(Packet), NEW p \in Packet
    PROVE  /\ OnBus(t, Append(l, p))
                 = OnBus(t, l) \cup (IF IsOf(p, t) THEN {Len(l) + 1} ELSE {})
           /\ \A i \in OnBus(t, l) : i \in 1 .. Len(l) /\ Append(l, p)[i] = l[i]
           /\ Append(l, p)[Len(l) + 1] = p
<1> DEFINE k == Append(l, p)
<1>1. Len(k) = Len(l) + 1 /\ k[Len(l) + 1] = p /\ \A i \in 1 .. Len(l) : k[i] = l[i]
  OBVIOUS
<1>2. Len(l) \in Nat
  OBVIOUS
<1> HIDE DEF k
<1>3. \A i : i \in 1 .. Len(k) <=> i \in 1 .. Len(l) \/ i = Len(l) + 1
  BY <1>1, <1>2
<1>4. OnBus(t, k) = OnBus(t, l) \cup (IF IsOf(p, t) THEN {Len(l) + 1} ELSE {})
  BY <1>1, <1>3 DEF OnBus
<1>5. \A i \in OnBus(t, l) : i \in 1 .. Len(l) /\ k[i] = l[i]
  BY <1>1 DEF OnBus
<1> QED BY <1>1, <1>4, <1>5 DEF k

\* A packet that is no report of the type.
LEMMA LineOther ==
    ASSUME NEW t, NEW m, NEW n, NEW l, NEW b, Kept(m, n, l, b), Line(t, m, n, l, b),
           NEW p \in Packet, ~IsOf(p, t)
    PROVE  Line(t, m, n, Append(l, p), b)
<1> DEFINE k == Append(l, p)
<1>1. OnBus(t, k) = OnBus(t, l) /\ \A i \in OnBus(t, l) : k[i] = l[i]
  <2>1. l \in Seq(Packet)
    BY DEF Kept
  <2>2. /\ OnBus(t, k) = OnBus(t, l) \cup (IF IsOf(p, t) THEN {Len(l) + 1} ELSE {})
        /\ \A i \in OnBus(t, l) : k[i] = l[i]
    BY <2>1, MoreOnBus
  <2> QED BY <2>2, Zenon
<1> HIDE DEF k
<1>2. Line(t, m, n, k, b)
  BY <1>1 DEF Line
<1> QED BY <1>2 DEF k

\* A report that is not behind the line.
LEMMA LineSend ==
    ASSUME NEW t, NEW m, NEW n, NEW l, NEW b, Kept(m, n, l, b), Line(t, m, n, l, b),
           NEW r \in Report,
           r.type = t =>
              /\ m <= r.id /\ r.id <= n
              /\ \A i \in OnBus(t, l) : l[i].rpt.id <= r.id
              /\ \A j \in InRing(t, b) : r.id <= b.queue[j].id
              /\ InFlight(b, t) => r.id <= b.kb_rpt.id
    PROVE  Line(t, m, n, Append(l, ReportPacket(r)), b)
<1> DEFINE p == ReportPacket(r)
           k == Append(l, p)
<1>1. p \in Packet /\ p.cmd = "REPORT" /\ p.rpt = r
  BY PacketTypes DEF ReportPacket
<1> HIDE DEF p
<1>2. CASE r.type # t
  <2>1. ~IsOf(p, t)
    BY <1>1, <1>2 DEF IsOf
  <2> QED BY <1>1, <2>1, LineOther DEF p
<1>3. CASE r.type = t
  <2>1. /\ OnBus(t, k) = OnBus(t, l) \cup {Len(l) + 1}
        /\ \A i \in OnBus(t, l) : i \in 1 .. Len(l) /\ k[i] = l[i]
        /\ k[Len(l) + 1] = p
    BY <1>1, <1>3, MoreOnBus DEF Kept, IsOf
  <2>2. Len(l) \in Nat
    BY DEF Kept
  <2> HIDE DEF k
  <2>3. \A i \in OnBus(t, k) : i = Len(l) + 1 \/ (i \in OnBus(t, l) /\ i < Len(l) + 1)
    BY <2>1, <2>2
  <2>4. k[Len(l) + 1].rpt.id = r.id /\ \A i \in OnBus(t, l) : k[i].rpt.id = l[i].rpt.id
    BY <1>1, <2>1
  <2>5. r.id \in Nat
    BY DEF Report
  <2>6. \A i \in OnBus(t, k) : m <= k[i].rpt.id /\ k[i].rpt.id <= n
    BY <1>3, <2>3, <2>4 DEF Line
  <2>7. \A i, j \in OnBus(t, k) : i < j => k[i].rpt.id <= k[j].rpt.id
    <3> SUFFICES ASSUME NEW i \in OnBus(t, k), NEW j \in OnBus(t, k), i < j
                 PROVE  k[i].rpt.id <= k[j].rpt.id
      OBVIOUS
    <3>1. i \in OnBus(t, l)
      <4> SUFFICES ASSUME i = Len(l) + 1 PROVE FALSE
        BY <2>3
      <4> QED BY <2>2, <2>3
    <3>2. CASE j = Len(l) + 1
      BY <1>3, <2>4, <3>1, <3>2
    <3>3. CASE j \in OnBus(t, l)
      BY <2>4, <3>1, <3>3 DEF Line
    <3> QED BY <2>3, <3>2, <3>3
  <2>8. \A i \in OnBus(t, k), j \in InRing(t, b) : k[i].rpt.id <= b.queue[j].id
    BY <1>3, <2>3, <2>4 DEF Line
  <2>9. InFlight(b, t) => \A i \in OnBus(t, k) : k[i].rpt.id <= b.kb_rpt.id
    BY <1>3, <2>3, <2>4 DEF Line
  <2>10. Line(t, m, n, k, b)
    BY <2>6, <2>7, <2>8, <2>9 DEF Line
  <2> QED BY <2>10 DEF k, p
<1> QED BY <1>2, <1>3

\* A new report, not older than any, enters the ring.
LEMMA LineEnqueue ==
    ASSUME NEW t, NEW m, NEW n, NEW l, NEW b, Kept(m, n, l, b), Line(t, m, n, l, b),
           NEW r \in Report, n <= r.id, NEW c, c.queue = Append(b.queue, r),
           c.kb_rpt = b.kb_rpt, c.retry = b.retry
    PROVE  Line(t, m, r.id, l, c)
<1> DEFINE q == b.queue
<1>1. q \in Seq(Report) /\ Len(q) \in Nat /\ r.id \in Nat
  BY DEF Kept, Report
<1>2. c.queue[Len(q) + 1] = r /\ \A i \in 1 .. Len(q) : c.queue[i] = q[i]
  BY <1>1
<1>3. Len(c.queue) = Len(q) + 1
  BY <1>1
<1>4. Line(t, m, r.id, l, b)
  BY <1>1, LineWeaken
<1>5. \A i \in InRing(t, b) : i \in 1 .. Len(q)
  BY DEF InRing
<1> HIDE DEF q
<1>6. \A i \in InRing(t, c) : i = Len(q) + 1 \/ (i \in InRing(t, b) /\ i < Len(q) + 1)
  <2> SUFFICES ASSUME NEW i \in InRing(t, c), i # Len(q) + 1
               PROVE  i \in InRing(t, b) /\ i < Len(q) + 1
    OBVIOUS
  <2>1. i \in 1 .. Len(c.queue) /\ c.queue[i].type = t
    BY DEF InRing
  <2>2. i \in 1 .. Len(q) /\ i < Len(q) + 1
    BY <1>1, <1>3, <2>1
  <2> QED BY <1>2, <2>1, <2>2 DEF InRing, q
<1>7. \A i \in InRing(t, b) : c.queue[i].id = b.queue[i].id
  BY <1>2, <1>5 DEF q
<1>8. /\ \A i \in OnBus(t, l) : l[i].rpt.id <= r.id
      /\ \A i \in InRing(t, b) : b.queue[i].id <= r.id
      /\ InFlight(b, t) => b.kb_rpt.id <= r.id
      /\ m <= r.id
  BY <1>4 DEF Line
<1>9. InFlight(c, t) <=> InFlight(b, t)
  BY DEF InFlight
<1>10. c.queue[Len(q) + 1].id = r.id /\ r.id <= r.id
  BY <1>1, <1>2
<1>11. \A i \in InRing(t, c) : m <= c.queue[i].id /\ c.queue[i].id <= r.id
  BY <1>4, <1>6, <1>7, <1>8, <1>10 DEF Line
<1>12. \A i, j \in InRing(t, c) : i < j => c.queue[i].id <= c.queue[j].id
  <2> SUFFICES ASSUME NEW i \in InRing(t, c), NEW j \in InRing(t, c), i < j
               PROVE  c.queue[i].id <= c.queue[j].id
    OBVIOUS
  <2>1. i \in InRing(t, b)
    <3> SUFFICES ASSUME i = Len(q) + 1 PROVE FALSE
      BY <1>6
    <3> QED BY <1>1, <1>6
  <2>2. CASE j = Len(q) + 1
    BY <1>7, <1>8, <1>10, <2>1, <2>2
  <2>3. CASE j \in InRing(t, b)
    BY <1>4, <1>7, <2>1, <2>3 DEF Line
  <2> QED BY <1>6, <2>2, <2>3
<1>13. \A i \in OnBus(t, l), j \in InRing(t, c) : l[i].rpt.id <= c.queue[j].id
  BY <1>4, <1>6, <1>7, <1>8, <1>10 DEF Line
<1>14. InFlight(c, t) =>
         /\ m <= c.kb_rpt.id /\ c.kb_rpt.id <= r.id
         /\ \A i \in OnBus(t, l) : l[i].rpt.id <= c.kb_rpt.id
         /\ \A j \in InRing(t, c) : c.kb_rpt.id <= c.queue[j].id
  BY <1>4, <1>6, <1>7, <1>8, <1>9, <1>10 DEF Line
<1> QED BY <1>4, <1>11, <1>12, <1>13, <1>14 DEF Line

\* The oldest report of the ring becomes the report in flight.
LEMMA LineDequeue ==
    ASSUME NEW t, NEW m, NEW n, NEW l, NEW b, Kept(m, n, l, b), Line(t, m, n, l, b),
           b.queue # <<>>, NEW c, c.queue = Tail(b.queue), c.kb_rpt = Head(b.queue)
    PROVE  /\ Line(t, m, n, l, c)
           /\ c.kb_rpt.type = t =>
                 /\ m <= c.kb_rpt.id /\ c.kb_rpt.id <= n
                 /\ \A i \in OnBus(t, l) : l[i].rpt.id <= c.kb_rpt.id
                 /\ \A j \in InRing(t, c) : c.kb_rpt.id <= c.queue[j].id
<1>1. /\ \A i \in InRing(t, c) : /\ i \in Nat /\ i + 1 \in InRing(t, b)
                                 /\ i + 1 # 1 /\ c.queue[i] = b.queue[i + 1]
      /\ c.kb_rpt = b.queue[1] /\ (c.kb_rpt.type = t => 1 \in InRing(t, b))
  <2>1. /\ Len(b.queue) \in Nat /\ Len(b.queue) > 0 /\ Len(c.queue) = Len(b.queue) - 1
        /\ \A i \in 1 .. Len(b.queue) - 1 : c.queue[i] = b.queue[i + 1]
        /\ Head(b.queue) = b.queue[1]
    BY DEF Kept
  <2>2. /\ \A i \in 1 .. Len(b.queue) - 1 : /\ i \in Nat /\ i + 1 # 1
                                             /\ i + 1 \in 1 .. Len(b.queue)
        /\ 1 \in 1 .. Len(b.queue)
    BY <2>1
  <2> QED BY <2>1, <2>2 DEF InRing
<1>2. \A i \in InRing(t, c) : m <= c.queue[i].id /\ c.queue[i].id <= n
  BY <1>1 DEF Line
<1>3. \A i, j \in InRing(t, c) : i < j => c.queue[i].id <= c.queue[j].id
  <2> SUFFICES ASSUME NEW i \in InRing(t, c), NEW j \in InRing(t, c), i < j
               PROVE  c.queue[i].id <= c.queue[j].id
    OBVIOUS
  <2>1. i + 1 < j + 1
    BY <1>1
  <2> QED BY <1>1, <2>1 DEF Line
<1>4. \A i \in OnBus(t, l), j \in InRing(t, c) : l[i].rpt.id <= c.queue[j].id
  BY <1>1 DEF Line
<1>5. c.kb_rpt.type = t =>
         /\ m <= c.kb_rpt.id /\ c.kb_rpt.id <= n
         /\ \A i \in OnBus(t, l) : l[i].rpt.id <= c.kb_rpt.id
         /\ \A j \in InRing(t, c) : c.kb_rpt.id <= c.queue[j].id
  <2> SUFFICES ASSUME c.kb_rpt.type = t, 1 \in InRing(t, b)
               PROVE  /\ m <= b.queue[1].id /\ b.queue[1].id <= n
                      /\ \A i \in OnBus(t, l) : l[i].rpt.id <= b.queue[1].id
                      /\ \A j \in InRing(t, c) : b.queue[1].id <= c.queue[j].id
    BY <1>1
  <2>1. /\ m <= b.queue[1].id /\ b.queue[1].id <= n
        /\ \A i \in OnBus(t, l) : l[i].rpt.id <= b.queue[1].id
    BY DEF Line
  <2>2. ASSUME NEW j \in InRing(t, c)
        PROVE  b.queue[1].id <= c.queue[j].id
    <3>1. j \in Nat /\ j + 1 # 1 /\ j + 1 \in InRing(t, b) /\ c.queue[j] = b.queue[j + 1]
      BY <1>1
    <3>2. 1 < j + 1
      BY <3>1
    <3> QED BY <3>1, <3>2 DEF Line
  <2> QED BY <2>1, <2>2
<1> QED BY <1>2, <1>3, <1>4, <1>5 DEF Line, InFlight

\* The module takes the oldest packet: the line is shorter, and when it was a
\* report of the type, it begins with that report.
LEMMA LineTake ==
    ASSUME NEW t, NEW m, NEW n, NEW l, NEW b, Kept(m, n, l, b), Line(t, m, n, l, b),
           l # <<>>
    PROVE  /\ Line(t, m, n, Tail(l), b)
           /\ IsOf(Head(l), t) => /\ m <= Head(l).rpt.id
                                  /\ Line(t, Head(l).rpt.id, n, Tail(l), b)
<1> DEFINE k == Tail(l)
           d == Head(l).rpt.id
<1>1. /\ l \in Seq(Packet) /\ Len(l) \in Nat /\ Len(l) > 0 /\ Len(k) = Len(l) - 1
      /\ \A i \in 1 .. Len(l) - 1 : k[i] = l[i + 1]
      /\ Head(l) = l[1]
  BY DEF Kept
<1> HIDE DEF k
<1>2. \A i \in OnBus(t, k) : /\ i \in Nat /\ i + 1 \in OnBus(t, l)
                             /\ 1 < i + 1 /\ k[i].rpt.id = l[i + 1].rpt.id
  <2>1. \A i \in 1 .. Len(k) : i \in Nat /\ i + 1 \in 1 .. Len(l) /\ 1 < i + 1 /\ k[i] = l[i + 1]
    BY <1>1
  <2> QED BY <2>1 DEF OnBus
<1>3. IsOf(Head(l), t) => 1 \in OnBus(t, l) /\ d = l[1].rpt.id
  BY <1>1 DEF OnBus
<1> HIDE DEF d
<1>4. \A i, j \in OnBus(t, k) : i < j => k[i].rpt.id <= k[j].rpt.id
  <2> SUFFICES ASSUME NEW i \in OnBus(t, k), NEW j \in OnBus(t, k), i < j
               PROVE  k[i].rpt.id <= k[j].rpt.id
    OBVIOUS
  <2>1. i + 1 < j + 1
    BY <1>2
  <2> QED BY <1>2, <2>1 DEF Line
<1>5. /\ \A i \in OnBus(t, k) : m <= k[i].rpt.id /\ k[i].rpt.id <= n
      /\ \A i \in OnBus(t, k), j \in InRing(t, b) : k[i].rpt.id <= b.queue[j].id
      /\ InFlight(b, t) => \A i \in OnBus(t, k) : k[i].rpt.id <= b.kb_rpt.id
  BY <1>2 DEF Line
<1>6. Line(t, m, n, k, b)
  BY <1>4, <1>5 DEF Line
<1>7. ASSUME IsOf(Head(l), t)
      PROVE  m <= d /\ Line(t, d, n, k, b)
  <2>1. 1 \in OnBus(t, l) /\ d = l[1].rpt.id
    BY <1>3, <1>7
  <2>2. m <= d /\ d <= n
    BY <2>1 DEF Line
  <2>3. /\ \A i \in OnBus(t, k) : d <= k[i].rpt.id
        /\ \A i \in InRing(t, b) : d <= b.queue[i].id
        /\ InFlight(b, t) => d <= b.kb_rpt.id
    BY <1>2, <2>1 DEF Line
  <2> QED BY <1>6, <2>2, <2>3 DEF Line
<1> QED BY <1>6, <1>7 DEF k, d

-----------------------------------------------------------------------------
(***************************************************************************)
(* The functions of the firmware keep the line.  Sorted is Lined up to the *)
(* next report.                                                            *)
(***************************************************************************)
Sorted(t, m) == {s \in Good : Line(t, m, s.next, s.link, s.rb)}

\* A state in line up to n is in line up to its next report.
LEMMA LinedSorted ==
    ASSUME NEW t, NEW m \in Nat, NEW n, NEW s \in Lined(t, m, n)
    PROVE  s \in Sorted(t, m)
<1>1. s \in Good /\ n \in Nat /\ n <= s.next /\ Line(t, m, n, s.link, s.rb)
  BY DEF Lined
<1>2. Kept(m, n, s.link, s.rb) /\ s.next \in Nat
  BY <1>1, KeptOf DEF Kept
<1>3. Line(t, m, s.next, s.link, s.rb)
  BY <1>1, <1>2, LineWeaken
<1> QED BY <1>1, <1>3 DEF Sorted

\* And the other way round.
LEMMA SortedLined ==
    ASSUME NEW t, NEW m \in Nat, NEW s \in Sorted(t, m)
    PROVE  s \in Lined(t, m, s.next)
<1>1. s \in Good /\ Line(t, m, s.next, s.link, s.rb) /\ s.next \in Nat
  BY KeptOf DEF Sorted
<1> QED BY <1>1 DEF Lined

\* A change of other variables, the end of the retries included.
LEMMA LinedSame ==
    ASSUME NEW t, NEW m, NEW n, NEW s \in Lined(t, m, n), NEW x \in Good,
           x.link = s.link, x.next \in Nat, n <= x.next,
           x.rb.queue = s.rb.queue, x.rb.kb_rpt = s.rb.kb_rpt,
           x.rb.retry \in {s.rb.retry, 0}
    PROVE  x \in Lined(t, m, n)
<1>1. n \in Nat /\ Line(t, m, n, x.link, s.rb)
  BY DEF Lined
<1>2. Line(t, m, n, x.link, x.rb)
  BY <1>1, LineSame
<1> QED BY <1>1, <1>2 DEF Lined

\* lkbt51_send_cmd with anything but a report of the type.
LEMMA TransmitLined ==
    ASSUME NEW t, NEW m \in Nat, NEW n, NEW s \in Lined(t, m, n), NEW p \in Packet,
           ~IsOf(p, t)
    PROVE  Transmit(s, p) \in Lined(t, m, n)
<1>1. s \in Good /\ s \in WirelessState /\ n \in Nat /\ n <= s.next
      /\ Line(t, m, n, s.link, s.rb)
  BY DEF Lined, Good, Sound
<1>2. Kept(m, n, s.link, s.rb)
  BY <1>1, KeptOf DEF Kept
<1>3. Line(t, m, n, Append(s.link, p), s.rb)
  BY <1>1, <1>2, LineOther
<1>4. Transmit(s, p).link = Append(s.link, p) /\ Transmit(s, p).rb = s.rb
      /\ Transmit(s, p).next = s.next
  BY <1>1 DEF Transmit, WirelessState
<1>5. Transmit(s, p) \in Good
  BY <1>1, TransmitGood
<1> QED BY <1>1, <1>3, <1>4, <1>5 DEF Lined

\* Commands are no reports.
LEMMA CommandsLined ==
    ASSUME NEW t, NEW m \in Nat, NEW n, NEW s \in Lined(t, m, n), NEW h \in Nat
    PROVE  /\ Transmit(s, [cmd |-> "CONNECT", host |-> h]) \in Lined(t, m, n)
           /\ Transmit(s, [cmd |-> "PAIRING", host |-> h]) \in Lined(t, m, n)
           /\ Transmit(s, [cmd |-> "DISCONNECT"]) \in Lined(t, m, n)
           /\ Transmit(s, [cmd |-> "PARAM"]) \in Lined(t, m, n)
<1>1. /\ ~IsOf([cmd |-> "CONNECT", host |-> h], t) /\ ~IsOf([cmd |-> "PAIRING", host |-> h], t)
      /\ ~IsOf([cmd |-> "DISCONNECT"], t) /\ ~IsOf([cmd |-> "PARAM"], t)
  BY DEF IsOf
<1>2. /\ [cmd |-> "CONNECT", host |-> h] \in Packet /\ [cmd |-> "PAIRING", host |-> h] \in Packet
      /\ [cmd |-> "DISCONNECT"] \in Packet /\ [cmd |-> "PARAM"] \in Packet
  BY PacketTypes
<1> QED BY <1>1, <1>2, TransmitLined, Zenon

\* wireless_connect keeps the line,
LEMMA ConnectLined ==
    ASSUME NEW t, NEW m \in Nat, NEW n, NEW s \in Lined(t, m, n)
    PROVE  wireless_connect(s) \in Lined(t, m, n)
<1> DEFINE a == Transmit(s, [cmd |-> "CONNECT", host |-> 0])
           x == [a EXCEPT !.state = "RECONNECTING"]
<1>1. a \in Lined(t, m, n)
  BY CommandsLined
<1> HIDE DEF a
<1>2. a \in Good /\ a \in WirelessState /\ n <= a.next
  BY <1>1 DEF Lined, Good, Sound
<1>3. x \in Good
  BY <1>2, SetState DEF States
<1>4. x.link = a.link /\ x.rb = a.rb /\ x.next = a.next /\ a.next \in Nat
  BY <1>2 DEF WirelessState
<1> HIDE DEF x
<1>5. x \in Lined(t, m, n)
  BY <1>1, <1>2, <1>3, <1>4, LinedSame
<1> QED BY <1>5 DEF wireless_connect, x, a

\* wireless_connect_ex too,
LEMMA ConnectExLined ==
    ASSUME NEW t, NEW m \in Nat, NEW n, NEW s \in Lined(t, m, n), NEW h \in Nat
    PROVE  wireless_connect_ex(s, h) \in Lined(t, m, n)
<1> DEFINE a == Transmit(s, [cmd |-> "CONNECT", host |-> h])
           x == [a EXCEPT !.state = "RECONNECTING",
                          !.host_index = IF h # 0 THEN h ELSE @,
                          !.led_state = IF h # 0 THEN 0 ELSE @]
<1>1. a \in Lined(t, m, n)
  BY CommandsLined
<1> HIDE DEF a
<1>2. a \in Good /\ a \in WirelessState /\ n <= a.next
  BY <1>1 DEF Lined, Good, Sound
<1>3. x \in Good
  BY <1>2 DEF Good, Sound, Counted, Silenced, Bounded, WirelessState, States
<1>4. x.link = a.link /\ x.rb = a.rb /\ x.next = a.next /\ a.next \in Nat
  BY <1>2 DEF WirelessState
<1> HIDE DEF x
<1>5. x \in Lined(t, m, n)
  BY <1>1, <1>2, <1>3, <1>4, LinedSame
<1> QED BY <1>5 DEF wireless_connect_ex, RequestConnection, x, a

\* and wireless_pairing_ex.
LEMMA PairingExLined ==
    ASSUME NEW t, NEW m \in Nat, NEW n, NEW s \in Lined(t, m, n), NEW h \in Nat
    PROVE  wireless_pairing_ex(s, h) \in Lined(t, m, n)
<1> DEFINE a == Transmit(s, [cmd |-> "PAIRING", host |-> h])
           x == [a EXCEPT !.state = "PARING", !.host_index = h]
<1>1. a \in Lined(t, m, n)
  BY CommandsLined
<1> HIDE DEF a
<1>2. a \in Good /\ a \in WirelessState /\ n <= a.next
  BY <1>1 DEF Lined, Good, Sound
<1>3. x \in Good
  BY <1>2 DEF Good, Sound, Counted, Silenced, Bounded, WirelessState, States
<1>4. x.link = a.link /\ x.rb = a.rb /\ x.next = a.next /\ a.next \in Nat
  BY <1>2 DEF WirelessState
<1> HIDE DEF x
<1>5. x \in Lined(t, m, n)
  BY <1>1, <1>2, <1>3, <1>4, LinedSame
<1> QED BY <1>5 DEF wireless_pairing_ex, x, a

\* A send function without connection asks for one.
LEMMA ReconnectFirstLined ==
    ASSUME NEW t, NEW m \in Nat, NEW n, NEW s \in Lined(t, m, n)
    PROVE  ReconnectFirst(s) \in Lined(t, m, n)
  BY ConnectLined DEF ReconnectFirst

\* report_buffer_init empties the ring.
LEMMA InitBufferLined ==
    ASSUME NEW t, NEW m \in Nat, NEW n, NEW s \in Lined(t, m, n)
    PROVE  InitBuffer(s) \in Lined(t, m, n)
<1> DEFINE x == InitBuffer(s)
<1>1. s \in Good /\ s \in WirelessState /\ n \in Nat /\ n <= s.next
      /\ Line(t, m, n, s.link, s.rb)
  BY DEF Lined, Good, Sound
<1>2. x \in Good
  BY <1>1, InitBufferGood, GoodIsSound
<1>3. x.rb = report_buffer_init(s.rb) /\ x.link = s.link /\ x.next = s.next
  BY <1>1 DEF InitBuffer, WirelessState
<1>4. x.rb.queue = <<>> /\ x.rb.retry = 0
  BY <1>1, <1>3, BufferInit, BufferOf, GoodIsSound
<1> HIDE DEF x
<1>5. Line(t, m, n, s.link, x.rb)
  BY <1>1, <1>4, LineEmpty
<1>6. x \in Lined(t, m, n)
  BY <1>1, <1>2, <1>3, <1>5 DEF Lined
<1> QED BY <1>6 DEF x

\* A report not older than the line enters the ring, or finds it full.
LEMMA EnqueueLined ==
    ASSUME NEW t, NEW m \in Nat, NEW n, NEW s \in Lined(t, m, n), NEW r \in Report,
           ~s.critical_low, n <= r.id, r.id <= s.next
    PROVE  EnqueueReport(s, r) \in Lined(t, m, r.id)
<1> DEFINE x == EnqueueReport(s, r)
           b == report_buffer_enqueue(s.rb, r)
<1>1. s \in Good /\ s \in WirelessState /\ n \in Nat /\ n <= s.next
      /\ Line(t, m, n, s.link, s.rb)
  BY DEF Lined, Good, Sound
<1>2. Kept(m, n, s.link, s.rb) /\ s.rb \in Buffer /\ r.id \in Nat
  BY <1>1, KeptOf, BufferOf, GoodIsSound DEF Kept, Report
<1>3. x \in Good
  BY <1>1, EnqueueGood
<1>4. x.rb = b /\ x.link = s.link /\ x.next = s.next
  BY <1>1 DEF EnqueueReport, WirelessState
<1>5. b.kb_rpt = s.rb.kb_rpt /\ b.retry = s.rb.retry
      /\ b.queue = AppendOrRefuse(s.rb.queue, r, QueueSize - 1)
  BY <1>2 DEF report_buffer_enqueue, Buffer
<1> HIDE DEF b
<1>6. b.queue = Append(s.rb.queue, r) => Line(t, m, r.id, s.link, b)
  BY <1>1, <1>2, <1>5, LineEnqueue
<1>7. b.queue = s.rb.queue => Line(t, m, r.id, s.link, b)
  <2>1. Line(t, m, r.id, s.link, s.rb)
    BY <1>1, <1>2, LineWeaken
  <2> QED BY <1>5, <2>1, LineSame
<1>8. Line(t, m, r.id, s.link, b)
  BY <1>5, <1>6, <1>7 DEF AppendOrRefuse
<1> HIDE DEF x
<1>9. x \in Lined(t, m, r.id)
  BY <1>2, <1>3, <1>4, <1>8 DEF Lined
<1> QED BY <1>9 DEF x

\* report_buffer_task hands the head of the line to the module, or the report in
\* flight again.
LEMMA ReportTaskLined ==
    ASSUME NEW t, NEW m \in Nat, NEW n, NEW s \in Lined(t, m, n)
    PROVE  ReportTask(s) \in Lined(t, m, n)
<1> DEFINE x == ReportTask(s)
           up == s.state = "CONNECTED"
           tx == Transmits(s.rb, up, s.uptime)
           b == report_buffer_task(s.rb, up, s.uptime)
<1>1. s \in Good /\ s \in WirelessState /\ n \in Nat /\ n <= s.next
      /\ Line(t, m, n, s.link, s.rb)
  BY DEF Lined, Good, Sound
<1>2. Kept(m, n, s.link, s.rb) /\ s.rb \in Buffer
  BY <1>1, KeptOf, BufferOf, GoodIsSound DEF Kept
<1>3. x \in Good /\ s.link \in Seq(Packet)
  BY <1>1, ReportTaskGood, KeptOf
<1>4. /\ x.rb = b /\ x.next = s.next
      /\ x.link = IF tx THEN Append(s.link, ReportPacket(b.kb_rpt)) ELSE s.link
  BY <1>1 DEF ReportTask, WirelessState
<1> HIDE DEF x, up
<1>5. CASE Pending(s.rb, up) /\ s.rb.retry = 0
  <2>1. s.rb.queue # <<>>
    BY <1>5 DEF Pending, report_buffer_is_empty
  <2>2. b.queue = Tail(s.rb.queue) /\ b.kb_rpt = Head(s.rb.queue)
    BY <1>2, <1>5, <2>1
    DEF report_buffer_task, report_buffer_dequeue, report_buffer_is_empty, Buffer
  <2>3. b.kb_rpt \in Report /\ b.queue \in Seq(Report)
    BY <1>2, <2>1, <2>2 DEF Kept
  <2>4. b.retry \in Nat
    BY <1>2, <1>5, RetryAssumption
    DEF report_buffer_task, report_buffer_dequeue, report_buffer_is_empty, Buffer
  <2> HIDE DEF b, tx
  <2>5. /\ Line(t, m, n, s.link, b)
        /\ b.kb_rpt.type = t =>
              /\ m <= b.kb_rpt.id /\ b.kb_rpt.id <= n
              /\ \A i \in OnBus(t, s.link) : s.link[i].rpt.id <= b.kb_rpt.id
              /\ \A j \in InRing(t, b) : b.kb_rpt.id <= b.queue[j].id
    BY <1>1, <1>2, <2>1, <2>2, LineDequeue
  <2>6. Kept(m, n, s.link, b) /\ b.kb_rpt.id <= b.kb_rpt.id
    BY <1>2, <2>3, <2>4 DEF Kept, Report
  <2>7. Line(t, m, n, Append(s.link, ReportPacket(b.kb_rpt)), b)
    BY <2>3, <2>5, <2>6, LineSend
  <2>8. Line(t, m, n, x.link, x.rb)
    BY <1>4, <2>5, <2>7
  <2>9. x \in Lined(t, m, n)
    BY <1>1, <1>3, <1>4, <2>8 DEF Lined
  <2> QED BY <2>9 DEF x
<1>6. CASE ~(Pending(s.rb, up) /\ s.rb.retry = 0)
  <2>1. b.queue = s.rb.queue /\ b.kb_rpt = s.rb.kb_rpt
    BY <1>2, <1>6 DEF report_buffer_task, Buffer
  <2>2. tx => s.rb.retry > 0
    BY <1>2, <1>6, RetryAssumption DEF Transmits, Buffer
  <2> DEFINE c == s.rb
  <2>3. c.kb_rpt \in Report /\ c.kb_rpt.id <= c.kb_rpt.id
    BY <1>2 DEF Kept, Report
  <2>4. tx => Line(t, m, n, Append(s.link, ReportPacket(c.kb_rpt)), c)
    <3> SUFFICES ASSUME tx
                 PROVE  Line(t, m, n, Append(s.link, ReportPacket(c.kb_rpt)), c)
      OBVIOUS
    <3> HIDE DEF tx, c
    <3>1. Line(t, m, n, s.link, c) /\ Kept(m, n, s.link, c) /\ c.retry > 0
      BY <1>1, <1>2, <2>2 DEF c
    <3>2. c.kb_rpt.type = t =>
              /\ m <= c.kb_rpt.id /\ c.kb_rpt.id <= n
              /\ \A i \in OnBus(t, s.link) : s.link[i].rpt.id <= c.kb_rpt.id
              /\ \A j \in InRing(t, c) : c.kb_rpt.id <= c.queue[j].id
      BY <3>1 DEF Line, InFlight
    <3> QED BY <2>3, <3>1, <3>2, LineSend
  <2>5. ~tx => b.retry = c.retry
    BY <1>6 DEF report_buffer_task
  <2>6. Line(t, m, n, x.link, c)
    BY <1>1, <1>4, <2>1, <2>4
  <2>7. InFlight(b, t) => InFlight(c, t)
    BY <2>1, <2>2, <2>5 DEF InFlight
  <2> HIDE DEF b, c, tx
  <2>8. InRing(t, b) = InRing(t, c)
    BY <2>1 DEF InRing, c
  <2>9. Line(t, m, n, x.link, b)
    BY <2>1, <2>6, <2>7, <2>8 DEF Line, c
  <2>10. x \in Lined(t, m, n)
    BY <1>1, <1>3, <1>4, <2>9 DEF Lined
  <2> QED BY <2>10 DEF x
<1> QED BY <1>5, <1>6

\* A larger bound for a state.
LEMMA LinedWeaken ==
    ASSUME NEW t, NEW m \in Nat, NEW n, NEW s \in Lined(t, m, n), NEW k \in Nat,
           n <= k, k <= s.next
    PROVE  s \in Lined(t, m, k)
<1>1. s \in Good /\ n \in Nat /\ Line(t, m, n, s.link, s.rb)
  BY DEF Lined
<1>2. Kept(m, n, s.link, s.rb)
  BY <1>1, KeptOf DEF Kept
<1>3. Line(t, m, k, s.link, s.rb)
  BY <1>1, <1>2, LineWeaken
<1> QED BY <1>1, <1>3 DEF Lined

\* wireless_send_keyboard with a report not older than the line.
LEMMA SendKeyboardLined ==
    ASSUME NEW t, NEW m \in Nat, NEW n, NEW s \in Lined(t, m, n), NEW r \in Report,
           n <= r.id, r.id <= s.next
    PROVE  wireless_send_keyboard(s, r) \in Lined(t, m, r.id)
<1>1. r.id \in Nat
  BY DEF Report
<1>2. s \in Lined(t, m, r.id)
  BY <1>1, LinedWeaken
<1>3. ReconnectFirst(s) \in Lined(t, m, r.id)
  BY <1>2, ReconnectFirstLined
<1>4. ~s.critical_low => /\ EnqueueReport(s, r) \in Lined(t, m, r.id)
                         /\ ReportTask(EnqueueReport(s, r)) \in Lined(t, m, r.id)
  BY EnqueueLined, ReportTaskLined
<1> QED BY <1>2, <1>3, <1>4 DEF wireless_send_keyboard

\* wireless_send_extra sends reports of other types.
LEMMA SendExtraLined ==
    ASSUME NEW t, NEW m \in Nat, NEW n, NEW s \in Lined(t, m, n), NEW r \in Report,
           n <= r.id, r.id <= s.next, r.type # t, NEW pressed
    PROVE  wireless_send_extra(s, r, pressed) \in Lined(t, m, r.id)
<1> DEFINE a == Transmit(s, ReportPacket(r))
           x == [a EXCEPT !.rb = report_buffer_update_timer(a.rb)]
<1>1. r.id \in Nat
  BY DEF Report
<1>2. s \in Lined(t, m, r.id)
  BY <1>1, LinedWeaken
<1>3. ReconnectFirst(s) \in Lined(t, m, r.id)
  BY <1>2, ReconnectFirstLined
<1>4. ~s.critical_low => EnqueueReport(s, r) \in Lined(t, m, r.id)
  BY EnqueueLined
<1>5. a \in Lined(t, m, r.id)
  <2>1. ReportPacket(r) \in Packet /\ ~IsOf(ReportPacket(r), t)
    BY PacketTypes DEF ReportPacket, IsOf
  <2> QED BY <1>2, <2>1, TransmitLined
<1> HIDE DEF a
<1>6. a \in Good /\ a \in WirelessState /\ r.id <= a.next
  BY <1>5 DEF Lined, Good, Sound
<1>7. x \in Good /\ x.link = a.link /\ x.next = a.next /\ a.next \in Nat
      /\ x.rb.queue = a.rb.queue /\ x.rb.kb_rpt = a.rb.kb_rpt /\ x.rb.retry = a.rb.retry
  <2> DEFINE c == report_buffer_update_timer(a.rb)
  <2>1. 0 \in Ages /\ a.rb \in Buffer
    BY <1>6, AgeAssumption, BufferOf, GoodIsSound DEF Ages
  <2>2. c \in Buffer /\ c.queue = a.rb.queue /\ c.kb_rpt = a.rb.kb_rpt /\ c.retry = a.rb.retry
    BY <2>1 DEF report_buffer_update_timer, Buffer
  <2> HIDE DEF c
  <2>3. [a EXCEPT !.rb = c] \in Good
    BY <1>6, <2>2, SameReports
  <2>4. /\ [a EXCEPT !.rb = c].link = a.link /\ [a EXCEPT !.rb = c].next = a.next
        /\ a.next \in Nat /\ [a EXCEPT !.rb = c].rb = c
    BY <1>6 DEF WirelessState
  <2> QED BY <2>2, <2>3, <2>4 DEF c
<1> HIDE DEF x
<1>8. x \in Lined(t, m, r.id)
  BY <1>5, <1>6, <1>7, LinedSame
<1>9. ~s.critical_low => wireless_send_consumer(s, r) \in Lined(t, m, r.id)
  <2> HIDE DEF Lined
  <2>1. wireless_send_consumer(s, r) \in {ReconnectFirst(s), x, EnqueueReport(s, r)}
    BY DEF wireless_send_consumer, x, a, Transmit
  <2> QED BY <1>3, <1>4, <1>8, <2>1
<1>10. wireless_send_system(s, r, pressed) \in Lined(t, m, r.id)
  BY <1>2, <1>3, <1>5 DEF wireless_send_system, a
<1> QED BY <1>2, <1>9, <1>10 DEF wireless_send_extra

\* QMK takes the next number for a report.
LEMMA ProduceLined ==
    ASSUME NEW t, NEW m \in Nat, NEW s \in Sorted(t, m), NEW u \in ReportTypes,
           NEW pressed \in BOOLEAN
    PROVE  /\ Produce(s, u, pressed) \in Lined(t, m, s.next)
           /\ NewReport(s, u) \in Report /\ NewReport(s, u).type = u
           /\ NewReport(s, u).id = s.next /\ s.next \in Nat
           /\ s.next <= s.next /\ s.next <= Produce(s, u, pressed).next
<1> DEFINE x == Produce(s, u, pressed)
<1>1. s \in Good /\ s \in WirelessState /\ s.next \in Nat
  BY KeptOf DEF Sorted, Good, Sound
<1>2. x \in Good /\ NewReport(s, u) \in Report
  BY <1>1, ProduceGood
<1>3. x.link = s.link /\ x.rb = s.rb /\ x.next = s.next + 1
  BY <1>1 DEF Produce, WirelessState
<1>4. NewReport(s, u).type = u /\ NewReport(s, u).id = s.next
  BY DEF NewReport
<1> HIDE DEF x
<1>5. s \in Lined(t, m, s.next)
  BY SortedLined
<1>6. x.next \in Nat /\ s.next <= x.next /\ s.next <= s.next
  BY <1>1, <1>3
<1>7. x \in Lined(t, m, s.next)
  BY <1>2, <1>3, <1>5, <1>6, LinedSame
<1> QED BY <1>1, <1>2, <1>4, <1>6, <1>7 DEF x

\* send_keyboard_report keeps the line,
LEMMA KeyboardReportSorted ==
    ASSUME NEW t, NEW m \in Nat, NEW s \in Sorted(t, m), NEW pressed \in BOOLEAN
    PROVE  send_keyboard_report(s, pressed) \in Sorted(t, m)
<1> DEFINE u == KeyboardType(s)
           x == Produce(s, u, pressed)
           r == NewReport(s, u)
<1>1. u \in ReportTypes
  BY DEF KeyboardType, ReportTypes
<1>2. /\ x \in Lined(t, m, s.next) /\ r \in Report /\ r.id = s.next
      /\ s.next <= r.id /\ r.id <= x.next
  BY <1>1, ProduceLined
<1> HIDE DEF x, r
<1>3. wireless_send_keyboard(x, r) \in Lined(t, m, r.id)
  BY <1>2, SendKeyboardLined
<1>4. wireless_send_keyboard(x, r) \in Sorted(t, m)
  BY <1>3, LinedSorted
<1> QED BY <1>4 DEF send_keyboard_report, x, r

\* and so do host_system_send and host_consumer_send.
LEMMA ExtraSendSorted ==
    ASSUME NEW t \in {"KB", "NKRO"}, NEW m \in Nat, NEW s \in Sorted(t, m),
           NEW u \in {"SYSTEM", "CONSUMER"}, NEW pressed \in BOOLEAN
    PROVE  host_extra_send(s, u, pressed) \in Sorted(t, m)
<1> DEFINE x == Produce(s, u, pressed)
           r == NewReport(s, u)
<1>1. u \in ReportTypes /\ u # t
  BY DEF ReportTypes
<1>2. /\ x \in Lined(t, m, s.next) /\ r \in Report /\ r.id = s.next /\ r.type # t
      /\ s.next <= r.id /\ r.id <= x.next
  BY <1>1, ProduceLined
<1> HIDE DEF x, r
<1>3. wireless_send_extra(x, r, pressed) \in Lined(t, m, r.id)
  BY <1>2, SendExtraLined
<1>4. wireless_send_extra(x, r, pressed) \in Sorted(t, m)
  BY <1>3, LinedSorted
<1> QED BY <1>4 DEF host_extra_send, x, r

\* wireless_send_mouse only asks for a connection.
LEMMA SendMouseSorted ==
    ASSUME NEW t, NEW m \in Nat, NEW s \in Sorted(t, m)
    PROVE  wireless_send_mouse(s) \in Sorted(t, m)
<1>1. ReconnectFirst(s) \in Lined(t, m, s.next)
  BY SortedLined, ReconnectFirstLined
<1>2. ReconnectFirst(s) \in Sorted(t, m)
  BY <1>1, LinedSorted
<1> QED BY <1>2 DEF wireless_send_mouse

\* clear_keyboard calls all of them.
LEMMA ClearKeyboardSorted ==
    ASSUME NEW t \in {"KB", "NKRO"}, NEW m \in Nat, NEW s \in Sorted(t, m)
    PROVE  clear_keyboard(s) \in Sorted(t, m)
<1> DEFINE s1 == host_extra_send(s, "SYSTEM", FALSE)
           s2 == host_extra_send(s1, "CONSUMER", FALSE)
           s3 == send_keyboard_report(s2, FALSE)
<1>1. s1 \in Sorted(t, m)
  BY ExtraSendSorted
<1> HIDE DEF s1
<1>2. s2 \in Sorted(t, m)
  BY <1>1, ExtraSendSorted
<1> HIDE DEF s2
<1>3. s3 \in Sorted(t, m)
  BY <1>2, KeyboardReportSorted
<1> HIDE DEF s3
<1>4. wireless_send_mouse(s3) \in Sorted(t, m)
  BY <1>3, SendMouseSorted
<1> QED BY <1>4 DEF clear_keyboard, s1, s2, s3

\* A change of other variables.
LEMMA SortedSame ==
    ASSUME NEW t, NEW m \in Nat, NEW s \in Sorted(t, m), NEW x \in Good,
           x.link = s.link, x.next = s.next,
           x.rb.queue = s.rb.queue, x.rb.kb_rpt = s.rb.kb_rpt,
           x.rb.retry \in {s.rb.retry, 0}
    PROVE  x \in Sorted(t, m)
<1>1. Line(t, m, x.next, x.link, s.rb)
  BY DEF Sorted
<1>2. Line(t, m, x.next, x.link, x.rb)
  BY <1>1, LineSame
<1> QED BY <1>2 DEF Sorted

\* The passing of time.
LEMMA AfterTimeSorted ==
    ASSUME NEW t, NEW m \in Nat, NEW s \in Sorted(t, m), NEW dt \in Nat, NEW up \in 0 .. 4
    PROVE  AfterTime(s, dt, up) \in Sorted(t, m)
<1> DEFINE x == AfterTime(s, dt, up)
<1>1. s \in Good /\ s \in WirelessState /\ s.rb \in Buffer
  BY BufferOf, GoodIsSound DEF Sorted, Good, Sound
<1>2. x.link = s.link /\ x.next = s.next /\ x.rb = Elapse(s.rb, dt)
  BY <1>1 DEF AfterTime, WirelessState
<1>3. /\ x.rb.queue = s.rb.queue /\ x.rb.kb_rpt = s.rb.kb_rpt /\ x.rb.retry = s.rb.retry
  BY <1>1, <1>2 DEF Elapse, Buffer
<1>4. x \in Good
  BY <1>1, AfterTimeGood
<1> HIDE DEF x
<1>5. x \in Sorted(t, m)
  BY <1>2, <1>3, <1>4, SortedSame
<1> QED BY <1>5 DEF x

\* lkbt51_param_init sends no report.
LEMMA ParamInitSorted ==
    ASSUME NEW t, NEW m \in Nat, NEW s \in Sorted(t, m)
    PROVE  lkbt51_param_init(s) \in Sorted(t, m)
<1> DEFINE a == Transmit(s, [cmd |-> "PARAM"])
<1>1. a \in Lined(t, m, s.next)
  BY SortedLined, CommandsLined
<1>2. a \in Sorted(t, m)
  BY <1>1, LinedSorted
<1>3. s.uptime \in 0 .. 4
  BY DEF Sorted, Good, Sound, WirelessState
<1>4. ParamWait \in Nat /\ Soonest(s.uptime, ParamWait) \in 0 .. 4
  BY <1>3, DomainAssumption DEF Soonest
<1> HIDE DEF a
<1>5. AfterTime(a, ParamWait, Soonest(s.uptime, ParamWait)) \in Sorted(t, m)
  BY <1>2, <1>4, AfterTimeSorted
<1> QED BY <1>5 DEF lkbt51_param_init, a

\* Every event handler keeps the line.
LEMMA HandleEventSorted ==
    ASSUME NEW t \in {"KB", "NKRO"}, NEW m \in Nat, NEW s \in Sorted(t, m), NEW e \in Event
    PROVE  HandleEvent(s, e) \in Sorted(t, m)
<1> DEFINE y == HandleEvent(s, e)
           h == e.param
<1>1. s \in Good /\ s \in WirelessState /\ s.rb \in Buffer /\ h \in Nat
  BY BufferOf, GoodIsSound DEF Sorted, Good, Sound, Event
<1>2. y \in Good
  BY <1>1, HandleEventGood
<1>3. ASSUME NEW x \in Good, x.link = s.link, x.next = s.next, x.rb = s.rb
      PROVE  x \in Sorted(t, m)
  BY <1>3, SortedSame
<1>4. CASE e.type = "RESET"
  <2> DEFINE a == [s EXCEPT !.state = "RESET"]
  <2>1. a \in Good
    BY <1>1, SetState DEF States
  <2>2. a.link = s.link /\ a.next = s.next /\ a.rb = s.rb
    BY <1>1 DEF WirelessState
  <2>3. a \in Sorted(t, m)
    BY <1>3, <2>1, <2>2
  <2> HIDE DEF a
  <2>4. lkbt51_param_init(a) \in Sorted(t, m)
    BY <2>3, ParamInitSorted
  <2> QED BY <1>4, <2>4 DEF HandleEvent, wireless_enter_reset, a
<1>5. CASE e.type = "CONNECTED"
  <2> DEFINE a == [s EXCEPT !.state = "CONNECTED", !.host_index = h]
  <2>1. a \in Good
    BY <1>1 DEF States, Good, Sound, Counted, Silenced, Bounded, WirelessState
  <2>2. a.link = s.link /\ a.next = s.next /\ a.rb = s.rb
    BY <1>1 DEF WirelessState
  <2>3. a \in Sorted(t, m)
    BY <1>3, <2>1, <2>2
  <2> HIDE DEF a
  <2>4. clear_keyboard(a) \in Sorted(t, m)
    BY <2>3, ClearKeyboardSorted
  <2> QED BY <1>5, <2>4 DEF HandleEvent, wireless_enter_connected, a
<1>6. CASE e.type = "DISCONNECTED"
  <2> DEFINE a == [s EXCEPT !.led_state = 0, !.state = "DISCONNECTED"]
             i == InitBuffer(a)
             p == lkbt51_param_init(i)
             c == wireless_connect(p)
             f == [c EXCEPT !.firstDisconnect = FALSE]
  <2>1. a \in Good
    BY <1>1 DEF Good, Sound, Counted, Silenced, Bounded, WirelessState, States
  <2>2. a.link = s.link /\ a.next = s.next /\ a.rb = s.rb
    BY <1>1 DEF WirelessState
  <2>3. a \in Sorted(t, m)
    BY <1>3, <2>1, <2>2
  <2> HIDE DEF a
  <2>4. i \in Sorted(t, m)
    BY <2>3, SortedLined, InitBufferLined, LinedSorted
  <2> HIDE DEF i
  <2>5. p \in Sorted(t, m)
    BY <2>4, ParamInitSorted
  <2> HIDE DEF p
  <2>6. c \in Sorted(t, m)
    BY <2>5, SortedLined, ConnectLined, LinedSorted
  <2> HIDE DEF c
  <2>7. c \in Good /\ c \in WirelessState
    BY <2>6 DEF Sorted, Good, Sound
  <2>8. f \in Good
    BY <2>7 DEF Good, Sound, Counted, Silenced, Bounded, WirelessState
  <2>9. f.link = c.link /\ f.next = c.next /\ f.rb = c.rb
    BY <2>7 DEF WirelessState
  <2> HIDE DEF f
  <2>10. f \in Sorted(t, m)
    BY <2>6, <2>8, <2>9, SortedSame
  <2>11. y \in {i, f}
    BY <1>6 DEF HandleEvent, wireless_enter_disconnected,
                wireless_enter_disconnected_kb, a, i, p, c, f
  <2> HIDE DEF y
  <2> QED BY <2>4, <2>10, <2>11 DEF y
<1>7. CASE e.type = "CONECTION_INTERVAL"
  <2>1. y = [s EXCEPT !.rb = report_buffer_set_inverval(s.rb, h)]
    BY <1>7 DEF HandleEvent
  <2>2. y.link = s.link /\ y.next = s.next /\ y.rb = report_buffer_set_inverval(s.rb, h)
    BY <1>1, <2>1 DEF WirelessState
  <2>3. y.rb.queue = s.rb.queue /\ y.rb.kb_rpt = s.rb.kb_rpt /\ y.rb.retry = s.rb.retry
    BY <1>1, <2>2 DEF report_buffer_set_inverval, Buffer
  <2> HIDE DEF y
  <2>4. y \in Sorted(t, m)
    BY <1>2, <2>2, <2>3, SortedSame
  <2> QED BY <2>4 DEF y
<1>8. CASE e.type \notin {"RESET", "CONNECTED", "DISCONNECTED", "CONECTION_INTERVAL"}
  <2>1. y.link = s.link /\ y.next = s.next /\ y.rb = s.rb
    BY <1>1, <1>8 DEF HandleEvent, wireless_enter_discoverable, wireless_enter_reconnecting,
       wireless_enter_bluetooth_pin_code_entry, wireless_exit_bluetooth_pin_code_entry,
       wireless_enter_sleep, WirelessState
  <2> HIDE DEF y
  <2>2. y \in Sorted(t, m)
    BY <1>2, <1>3, <2>1
  <2> QED BY <2>2 DEF y
<1> QED BY <1>4, <1>5, <1>6, <1>7, <1>8

\* The low-battery shutdown sends its empty report behind an empty buffer.
LEMMA ShutdownSorted ==
    ASSUME NEW t \in {"KB", "NKRO"}, NEW m \in Nat, NEW s \in Sorted(t, m)
    PROVE  wireless_low_battery_shutdown([s EXCEPT !.critical_low = TRUE]) \in Sorted(t, m)
<1> DEFINE a == [s EXCEPT !.critical_low = TRUE]
           i == InitBuffer(a)
           c == clear_keyboard(i)
           d == [c EXCEPT !.next = c.next + 2]
           empty == NewReport(c, KeyboardType(c))
           zero == [NewReport(c, "CONSUMER") EXCEPT !.id = NewReport(c, "CONSUMER").id + 1]
           e == Transmit(d, ReportPacket(empty))
           f == Transmit(e, ReportPacket(zero))
<1>1. s \in Good /\ s \in WirelessState /\ Line(t, m, s.next, s.link, s.rb)
  BY DEF Sorted, Good, Sound
<1>2. a \in Sound /\ a \in WirelessState
  BY <1>1 DEF Good, Sound, Counted, Bounded, WirelessState
<1>3. a.link = s.link /\ a.next = s.next /\ a.critical_low
  BY <1>1 DEF WirelessState
<1> HIDE DEF a
<1>4. i \in Good
  BY <1>2, InitBufferGood
<1>5. i.link = s.link /\ i.next = s.next /\ i.rb = report_buffer_init(a.rb)
      /\ i.critical_low
  BY <1>2, <1>3 DEF InitBuffer, WirelessState
<1>6. i.rb.queue = <<>> /\ i.rb.retry = 0
  BY <1>2, <1>5, BufferInit, BufferOf
<1> HIDE DEF i
<1>7. Line(t, m, i.next, i.link, i.rb)
  BY <1>1, <1>5, <1>6, LineEmpty
<1>8. i \in Sorted(t, m) /\ i \in Mute(i.link)
  BY <1>4, <1>5, <1>7 DEF Sorted, Mute
<1>9. c \in Sorted(t, m) /\ c \in Mute(i.link)
  BY <1>8, ClearKeyboardSorted, ClearKeyboardMute
<1> HIDE DEF c
<1>10. /\ c \in Good /\ c \in WirelessState /\ Line(t, m, c.next, c.link, c.rb)
       /\ c.rb.queue = <<>> /\ c.rb.retry = 0 /\ c.next \in Nat
  BY <1>9, KeptOf DEF Sorted, Mute, Good, Sound, Silenced
<1>11. d \in Good
  <2>1. c \in Good /\ c.next + 2 \in Nat
    BY <1>10
  <2> QED BY <2>1 DEF Good, Sound, Counted, Silenced, Bounded, WirelessState
<1>12. d.link = c.link /\ d.rb = c.rb /\ d.next = c.next + 2
  BY <1>10 DEF WirelessState
<1> HIDE DEF d
<1>13. empty \in Report /\ empty.id = c.next /\ zero \in Report /\ zero.type = "CONSUMER"
  <2>1. empty \in Report
    BY <1>10, ProduceGood DEF KeyboardType, ReportTypes
  <2>2. empty.id = c.next
    BY DEF NewReport
  <2>3. zero \in Report /\ zero.type = "CONSUMER"
    BY <1>10 DEF NewReport, Report, ReportTypes, WirelessState
  <2> QED BY <2>1, <2>2, <2>3
<1> HIDE DEF empty, zero
<1>14. e \in Lined(t, m, c.next)
  <2>1. Kept(m, c.next, c.link, c.rb)
    BY <1>10, KeptOf DEF Kept
  <2>2. InRing(t, c.rb) = {} /\ ~InFlight(c.rb, t)
    BY <1>10 DEF InRing, InFlight
  <2>3. m <= c.next /\ c.next <= c.next
        /\ \A k \in OnBus(t, c.link) : c.link[k].rpt.id <= c.next
    BY <1>10 DEF Line
  <2>4. Line(t, m, c.next, Append(c.link, ReportPacket(empty)), c.rb)
    BY <1>10, <1>13, <2>1, <2>2, <2>3, LineSend
  <2>5. e \in Good
    BY <1>11, <1>13, PacketTypes, TransmitGood
  <2>6. d \in WirelessState
    BY <1>11 DEF Good, Sound
  <2>7. e.link = Append(c.link, ReportPacket(empty)) /\ e.rb = c.rb /\ e.next = c.next + 2
    BY <1>12, <2>6 DEF Transmit, WirelessState
  <2> HIDE DEF e
  <2>8. c.next <= e.next
    BY <1>10, <2>7
  <2> QED BY <1>10, <2>4, <2>5, <2>7, <2>8 DEF Lined
<1> HIDE DEF e
<1>15. f \in Lined(t, m, c.next)
  <2>1. ReportPacket(zero) \in Packet /\ ~IsOf(ReportPacket(zero), t)
    BY <1>13, PacketTypes DEF ReportPacket, IsOf
  <2> QED BY <1>14, <2>1, TransmitLined
<1> HIDE DEF f
<1>16. wireless_disconnect(f) \in Sorted(t, m)
  BY <1>15, CommandsLined, LinedSorted DEF wireless_disconnect
<1> QED BY <1>16 DEF wireless_low_battery_shutdown, a, i, c, d, empty, zero, e, f

\* Reading the module.
LEMMA DriverTaskSorted ==
    ASSUME NEW t, NEW m \in Nat, NEW s \in Sorted(t, m), NEW v \in RadioState
    PROVE  lkbt51_task(s, v) \in Sorted(t, m)
<1> DEFINE a == IF v.out = <<>> THEN s ELSE ReadFrame(s, Head(v.out))
           c == ack_handler(a, Head(v.acks))
<1>1. s \in Good /\ s \in WirelessState
  BY DEF Sorted, Good, Sound
<1>2. v.out \in Seq(Frame)
  BY DEF RadioState
<1>3. a \in Good
  BY <1>1, <1>2, ReadFrameGood
<1>4. a.link = s.link /\ a.next = s.next /\ a.rb = s.rb
  BY <1>1 DEF ReadFrame, WirelessState
<1> HIDE DEF a
<1>5. a \in Sorted(t, m) /\ a \in WirelessState /\ a.rb \in Buffer
  BY <1>3, <1>4, SortedSame, BufferOf, GoodIsSound DEF Good, Sound
<1>6. c \in Good
  BY <1>3, AckGood
<1>7. c.link = a.link /\ c.next = a.next
  BY <1>5 DEF ack_handler, WirelessState
<1>8. c.rb.queue = a.rb.queue /\ c.rb.kb_rpt = a.rb.kb_rpt /\ c.rb.retry \in {a.rb.retry, 0}
  BY <1>5 DEF ack_handler, WirelessState, report_buffer_set_inverval,
              report_buffer_set_retry, Buffer
<1> HIDE DEF c
<1>9. c \in Sorted(t, m)
  BY <1>5, <1>6, <1>7, <1>8, SortedSame
<1> QED BY <1>5, <1>9 DEF lkbt51_task, a, c

-----------------------------------------------------------------------------
\* The inductive invariant of the order: the reports of either type are in line,
\* from the last that a host has seen to the next to be produced.
LineInv == Inv /\ \A t \in {"KB", "NKRO"} : w \in Sorted(t, host.seen[t])

\* A step of the firmware keeps the line.
LEMMA FirmwareLine ==
    ASSUME Inv, Firmware, NEW t \in {"KB", "NKRO"}, NEW m \in Nat, w \in Sorted(t, m)
    PROVE  w' \in Sorted(t, m)
<1>1. w \in Good /\ w \in WirelessState /\ w.uptime \in 0 .. 4
  BY DEF Inv, Good, Sound, WirelessState
<1>2. ASSUME NEW p \in BOOLEAN
      PROVE  [w EXCEPT !.pairing_key = p] \in Sorted(t, m)
  <2> DEFINE x == [w EXCEPT !.pairing_key = p]
  <2>1. x \in Good
    BY DEF Inv, Good, Sound, Counted, Silenced, Bounded, WirelessState
  <2>2. x.link = w.link /\ x.next = w.next /\ x.rb = w.rb
    BY <1>1 DEF WirelessState
  <2> HIDE DEF x
  <2>3. x \in Sorted(t, m)
    BY <2>1, <2>2, SortedSame
  <2> QED BY <2>3 DEF x
<1>3. CASE KeyEvent
  BY <1>3, KeyboardReportSorted DEF KeyEvent
<1>4. CASE ExtraKeyEvent
  BY <1>4, ExtraSendSorted DEF ExtraKeyEvent
<1>5. CASE MouseEvent
  BY <1>5, SendMouseSorted DEF MouseEvent
<1>6. CASE HostKeyPress
  <2>1. PICK h \in Hosts : w' = wireless_connect_ex([w EXCEPT !.pairing_key = TRUE], h)
    BY <1>6 DEF HostKeyPress
  <2> DEFINE x == [w EXCEPT !.pairing_key = TRUE]
  <2>2. x \in Sorted(t, m) /\ h \in Nat
    BY <1>2, HostIndex
  <2> HIDE DEF x
  <2>3. wireless_connect_ex(x, h) \in Sorted(t, m)
    BY <2>2, SortedLined, ConnectExLined, LinedSorted
  <2> QED BY <2>1, <2>3 DEF x
<1>7. CASE HostKeyRelease
  BY <1>2, <1>7 DEF HostKeyRelease
<1>8. CASE SendStringTask
  <2>1. PICK dt \in LoopTimes : \E up \in Later(w.uptime, dt) :
            w' = ReportTask(lkbt51_task(AfterTime(w, dt, up), radio))
    BY <1>8 DEF SendStringTask
  <2>2. PICK up \in Later(w.uptime, dt) :
            w' = ReportTask(lkbt51_task(AfterTime(w, dt, up), radio))
    BY <2>1
  <2>3. dt \in Nat /\ up \in 0 .. 4
    BY <1>1, <2>2, DomainAssumption, LaterType
  <2>4. lkbt51_task(AfterTime(w, dt, up), radio) \in Sorted(t, m)
    BY <2>3, AfterTimeSorted, DriverTaskSorted DEF Inv
  <2> QED BY <2>2, <2>4, SortedLined, ReportTaskLined, LinedSorted
<1>9. CASE TransportTask
  BY <1>9, DriverTaskSorted DEF Inv, TransportTask
<1>10. CASE EnableTransport
  <2>1. LastHost \in Nat /\ AgeCap \in Nat /\ 3 \in 0 .. 4
    BY AgeAssumption DEF LastHost
  <2>2. wireless_connect_ex(w, LastHost) \in Sorted(t, m)
    BY <2>1, SortedLined, ConnectExLined, LinedSorted
  <2>3. AfterTime(wireless_connect_ex(w, LastHost), AgeCap, 3) \in Sorted(t, m)
    BY <2>1, <2>2, AfterTimeSorted
  <2> QED BY <1>10, <2>3 DEF EnableTransport
<1>11. CASE EventStep
  <2> DEFINE q == Tail(w.evq)
             s == [w EXCEPT !.evq = q]
  <2>1. w.evq \in Seq(Event) /\ w.evq # <<>> /\ Len(w.evq) < EventQueueSize
    BY <1>11 DEF Inv, Good, Sound, Bounded, WirelessState, Events, EventStep, NoEvents
  <2>2. Head(w.evq) \in Event /\ q \in Seq(Event) /\ Len(q) < EventQueueSize
    BY <2>1, EventQueueSizeAssumption
  <2> HIDE DEF q
  <2>3. s \in Good
    BY <2>2 DEF Inv, Good, Sound, Counted, Silenced, Bounded, WirelessState, Events
  <2>4. s.link = w.link /\ s.next = w.next /\ s.rb = w.rb
    BY <1>1 DEF WirelessState
  <2> HIDE DEF s
  <2>5. s \in Sorted(t, m)
    BY <2>3, <2>4, SortedSame
  <2>6. HandleEvent(s, Head(w.evq)) \in Sorted(t, m)
    BY <2>2, <2>5, HandleEventSorted
  <2> QED BY <1>11, <2>6 DEF EventStep, s, q
<1>12. CASE ReportStep
  BY <1>12, SortedLined, ReportTaskLined, LinedSorted DEF ReportStep
<1>13. CASE CommonTask
  <2> DEFINE x == [w EXCEPT !.pairing_key = FALSE]
  <2>1. x \in Sorted(t, m)
    BY <1>2
  <2> HIDE DEF x
  <2>2. wireless_pairing_ex(x, 0) \in Sorted(t, m)
    BY <2>1, SortedLined, PairingExLined, LinedSorted
  <2> QED BY <1>13, <2>2 DEF CommonTask, x
<1>14. CASE BatteryTask
  <2> DEFINE x == [w EXCEPT !.critical_low = FALSE]
             d == wireless_low_battery_shutdown([w EXCEPT !.critical_low = TRUE])
  <2>1. x \in Good
    BY DEF Inv, Good, Sound, Counted, Silenced, Bounded, WirelessState
  <2>2. x.link = w.link /\ x.next = w.next /\ x.rb = w.rb
    BY <1>1 DEF WirelessState
  <2> HIDE DEF x
  <2>3. x \in Sorted(t, m)
    BY <2>1, <2>2, SortedSame
  <2>4. d \in Sorted(t, m)
    BY ShutdownSorted
  <2> HIDE DEF d
  <2>5. ASSUME NEW up \in Later(w.uptime, AgeCap)
        PROVE  AfterTime(d, AgeCap, up) \in Sorted(t, m)
    <3>1. AgeCap \in Nat /\ up \in 0 .. 4
      BY <1>1, AgeAssumption, LaterType
    <3> QED BY <2>4, <3>1, AfterTimeSorted
  <2> QED BY <1>14, <2>3, <2>5 DEF BatteryTask, x, d
<1>15. CASE LoopEnd
  <2>1. PICK dt \in LoopTimes : \E up \in Later(w.uptime, dt) : w' = AfterTime(w, dt, up)
    BY <1>15 DEF LoopEnd
  <2>2. PICK up \in Later(w.uptime, dt) : w' = AfterTime(w, dt, up)
    BY <2>1
  <2>3. dt \in Nat /\ up \in 0 .. 4
    BY <1>1, <2>2, DomainAssumption, LaterType
  <2> QED BY <2>2, <2>3, AfterTimeSorted
<1>16. CASE ClockWrap
  <2> DEFINE x == [w EXCEPT !.uptime = 0]
  <2>1. x \in Good
    <3>1. ASSUME NEW u \in 0 .. 4
          PROVE  [w EXCEPT !.uptime = u] \in Good
      BY DEF Inv, Good, Sound, Counted, Silenced, Bounded, WirelessState
    <3> QED BY <3>1
  <2>2. x.link = w.link /\ x.next = w.next /\ x.rb = w.rb
    BY <1>1 DEF WirelessState
  <2> HIDE DEF x
  <2>3. x \in Sorted(t, m)
    BY <2>1, <2>2, SortedSame
  <2> QED BY <1>16, <2>3 DEF ClockWrap, x
<1> QED
  BY <1>3, <1>4, <1>5, <1>6, <1>7, <1>8, <1>9, <1>10, <1>11, <1>12, <1>13, <1>14,
     <1>15, <1>16
  DEF Firmware

\* A step of the module keeps the line, and a delivery takes its head.
LEMMA RadioLine ==
    ASSUME Inv, Radio, NEW t \in {"KB", "NKRO"}, w \in Sorted(t, host.seen[t])
    PROVE  w' \in Sorted(t, host'.seen[t]) /\ host.seen[t] <= host'.seen[t]
<1> DEFINE m == host.seen[t]
           l == w.link
           p == Head(l)
           k == Tail(l)
<1>1. /\ w \in Good /\ w \in WirelessState /\ Line(t, m, w.next, l, w.rb)
      /\ host.seen \in [ReportTypes -> Nat] /\ t \in ReportTypes /\ m \in Nat
      /\ m <= m
  <2>1. host.seen \in [ReportTypes -> Nat] /\ t \in ReportTypes
    BY DEF Inv, HostState, ReportTypes
  <2>2. m \in Nat
    BY <2>1
  <2> QED BY <2>1, <2>2 DEF Sorted, Good, Sound
<1>2. Kept(m, w.next, l, w.rb)
  BY <1>1, KeptOf DEF Kept
<1>3. CASE RadioCommand \/ RadioRefuse \/ RadioIgnore
  <2>1. l # <<>> /\ w' = [w EXCEPT !.link = k] /\ host' = host
    BY <1>3 DEF RadioCommand, RadioRefuse, RadioIgnore
  <2>2. Line(t, m, w.next, k, w.rb)
    BY <1>1, <1>2, <2>1, LineTake
  <2>3. w'.link = k /\ w'.rb = w.rb /\ w'.next = w.next
    BY <1>1, <2>1 DEF WirelessState
  <2>4. w' \in Good
    BY <2>1, TakenPacket
  <2> QED BY <1>1, <2>1, <2>2, <2>3, <2>4 DEF Sorted
<1>4. CASE RadioAccept
  <2>1. /\ l # <<>> /\ p.cmd = "REPORT" /\ host' = Deliver(p.rpt)
        /\ w' = [w EXCEPT !.link = k, !.owed = w.owed \ {p.rpt.id}]
    BY <1>4 DEF RadioAccept
  <2>2. w'.link = k /\ w'.rb = w.rb /\ w'.next = w.next
    BY <1>1, <2>1 DEF WirelessState
  <2>3. w' \in Good
    BY <1>4, ReportPacketInv DEF Inv
  <2>4. /\ Line(t, m, w.next, k, w.rb)
        /\ IsOf(p, t) => m <= p.rpt.id /\ Line(t, p.rpt.id, w.next, k, w.rb)
    BY <1>1, <1>2, <2>1, LineTake
  <2>5. p.rpt \in Report
    BY <2>1, TakenPacket DEF Packet
  <2>6. host'.seen[t] = IF IsOf(p, t) THEN p.rpt.id ELSE m
    <3>1. host' = [host EXCEPT !.seen = [host.seen EXCEPT ![p.rpt.type] = p.rpt.id],
                               !.strays = IF p.rpt.dst = radio.target THEN host.strays
                                          ELSE host.strays \cup {p.rpt.id}]
      BY <2>1 DEF Deliver
    <3>2. host'.seen = [host.seen EXCEPT ![p.rpt.type] = p.rpt.id]
      BY <3>1 DEF Inv, HostState
    <3>3. p.rpt.type \in ReportTypes
      BY <2>5 DEF Report
    <3> QED BY <1>1, <2>1, <3>2, <3>3 DEF IsOf
  <2> HIDE DEF m, k, p, l
  <2>7. m <= host'.seen[t] /\ Line(t, host'.seen[t], w.next, k, w.rb)
    BY <1>1, <2>4, <2>6
  <2> QED BY <2>2, <2>3, <2>7 DEF Sorted, m
<1>5. CASE LoseAck \/ RadioLinkUp \/ RadioLinkLost \/ RadioPairingTimeout
           \/ RadioPinCode \/ RadioReset \/ RadioLeds
  <2>1. w' = w /\ host' = host
    BY <1>5 DEF LoseAck, RadioLinkUp, RadioLinkLost, RadioPairingTimeout, RadioPinCode,
                RadioReset, RadioLeds
  <2> QED BY <1>1, <2>1
<1> QED BY <1>3, <1>4, <1>5 DEF Radio

\* Every step keeps the line and takes nothing back from what the hosts have seen.
LEMMA LineStep ==
    ASSUME LineInv, [Next]_vars
    PROVE  LineInv' /\ \A t \in {"KB", "NKRO"} : host'.seen[t] >= host.seen[t]
<1>1. Inv /\ Inv'
  BY NextInv DEF LineInv
<1>2. ASSUME NEW t \in {"KB", "NKRO"}
      PROVE  host.seen[t] \in Nat /\ host'.seen[t] \in Nat
  <2>1. t \in ReportTypes
    BY DEF ReportTypes
  <2>2. host.seen \in [ReportTypes -> Nat] /\ host'.seen \in [ReportTypes -> Nat]
    BY <1>1 DEF Inv, HostState
  <2> QED BY <2>1, <2>2
<1>3. ASSUME NEW t \in {"KB", "NKRO"}
      PROVE  w' \in Sorted(t, host'.seen[t]) /\ host.seen[t] <= host'.seen[t]
  <2>1. w \in Sorted(t, host.seen[t]) /\ host.seen[t] \in Nat /\ host.seen[t] <= host.seen[t]
    BY <1>2 DEF LineInv
  <2>2. CASE Firmware
    <3>1. host' = host
      BY <2>2 DEF Firmware, KeyEvent, ExtraKeyEvent, MouseEvent, HostKeyPress, HostKeyRelease,
         SendStringTask, TransportTask, EnableTransport, EventStep, ReportStep, CommonTask,
         BatteryTask, LoopEnd, ClockWrap
    <3>2. w' \in Sorted(t, host.seen[t])
      BY <1>1, <2>1, <2>2, FirmwareLine
    <3> QED BY <2>1, <3>1, <3>2
  <2>3. CASE Radio
    BY <1>1, <2>1, <2>3, RadioLine
  <2>4. CASE UNCHANGED vars
    BY <2>1, <2>4 DEF vars
  <2> QED BY <2>2, <2>3, <2>4 DEF Next
<1>4. LineInv'
  BY <1>1, <1>3 DEF LineInv
<1> QED BY <1>2, <1>3, <1>4

\* At power-on nothing is on its way.
LEMMA LineInit == Init => LineInv
<1> SUFFICES ASSUME Init, NEW t \in {"KB", "NKRO"} PROVE w \in Sorted(t, host.seen[t])
  BY InitInv DEF LineInv
<1>1. w \in Good
  BY InitInv DEF Inv
<1>2. host.seen[t] = 0
  BY DEF Init, ReportTypes
<1>3. PICK n \in Budgets : w = PoweredOn(n.reports)
  BY DEF Init
<1>4. w.rb.queue = <<>> /\ w.rb.retry = 0 /\ w.link = <<[cmd |-> "DISCONNECT"]>>
  BY <1>3 DEF PoweredOn, report_buffer_init, PowerOnBuffer
<1>5. OnBus(t, w.link) = {} /\ InRing(t, w.rb) = {} /\ ~InFlight(w.rb, t)
  BY <1>4 DEF OnBus, InRing, InFlight, IsOf
<1>6. w.next \in Nat
  BY <1>1, KeptOf
<1> QED BY <1>1, <1>2, <1>5, <1>6 DEF Sorted, Line

\* Hosts see keyboard reports in the order in which they were typed, whatever
\* answers are lost, late or misapplied, and however often a report is sent.
THEOREM KeysStayInOrder == Spec => KeysInOrder
<1>1. LineInv /\ [Next]_vars => LineInv'
  BY LineStep
<1>2. Spec => []LineInv
  BY <1>1, LineInit, PTL DEF Spec
<1>3. LineInv /\ [Next]_vars
        => [\A t \in {"KB", "NKRO"} : host'.seen[t] >= host.seen[t]]_vars
  BY LineStep
<1> QED BY <1>2, <1>3, PTL DEF Spec, KeysInOrder
-----------------------------------------------------------------------------
(***************************************************************************)
(* Nothing is lost behind the back of the code.  That needs a module that  *)
(* answers within the millisecond and no consumer or system keys: then a   *)
(* transmission is due only when the one before it has been taken and its  *)
(* answer read, so that an answer meets the report it belongs to.  a are   *)
(* the unread answers, q the unhandled events, o the unread frames.        *)
(***************************************************************************)
Reports(l) == {i \in 1 .. Len(l) : l[i].cmd = "REPORT"}
Loaded(l, a) == Reports(l) # {} \/ a # <<>>

\* A report on the bus is the only one and is the report in flight.
OneOut(l, a, r) ==
    /\ \A i, j \in Reports(l) : i = j
    /\ \A i \in Reports(l) : l[i].rpt = r
    /\ a # <<>> => Reports(l) = {}

\* A connection is on its way to the firmware.
Posted(q) == \E i \in 1 .. Len(q) : q[i].type = "CONNECTED"
Announced(q, o) == Posted(q) \/ \E i \in 1 .. Len(o) : o[i].conn = "CONNECTED"

\* As long as the report is on the bus or unanswered, no other transmission is
\* due, nor will the coming connection make one due.
Settled(a, q, o, s) ==
    Loaded(s.link, a) /\ s.rb.age > 0 => s.state # "CONNECTED" /\ ~Announced(q, o)

\* What is owed is in the ring or has retries left, unless a good answer to it
\* is on its way; then it is not owed any more.
Answered(a) == \E i \in 1 .. Len(a) : a[i] \in {"SUCCESS", "FIFO_HALF_WARNING"}
Owing(a, s) ==
    /\ s.owed \subseteq QueuedIds(s.rb)
                            \cup (IF s.rb.retry > 0 THEN {s.rb.kb_rpt.id} ELSE {})
    /\ Answered(a) => s.rb.kb_rpt.id \notin s.owed

Numbered(n, s) == /\ n \in Nat /\ n <= s.next /\ s.rb.kb_rpt.id < n
                  /\ \A i \in QueuedIds(s.rb) : i < n

KeysOnly(s) == ~s.down["SYSTEM"] /\ ~s.down["CONSUMER"]

Careful(a, q, o, n) ==
    {s \in Good : /\ s.evq = q /\ Numbered(n, s) /\ KeysOnly(s) /\ Owing(a, s)
                  /\ Settled(a, q, o, s) /\ OneOut(s.link, a, s.rb.kb_rpt)}

\* What a careful state is made of.
LEMMA CarefulIs ==
    ASSUME NEW a, NEW q, NEW o, NEW n, NEW s \in Careful(a, q, o, n)
    PROVE  /\ s \in Good /\ s \in WirelessState /\ s.rb \in Buffer
           /\ s.link \in Seq(Packet) /\ s.rb.queue \in Seq(Report)
           /\ s.rb.kb_rpt \in Report /\ s.rb.retry \in Nat /\ s.next \in Nat
           /\ Numbered(n, s) /\ KeysOnly(s) /\ Owing(a, s) /\ Settled(a, q, o, s)
           /\ OneOut(s.link, a, s.rb.kb_rpt) /\ s.evq = q
<1>1. s \in Good /\ s \in WirelessState
  BY DEF Careful, Good, Sound
<1>2. s.rb \in Buffer
  BY <1>1, BufferOf, GoodIsSound
<1> QED BY <1>1, <1>2, KeptOf DEF Careful

\* A change of other variables; a timer may be reset and the connection left.
LEMMA CarefulSame ==
    ASSUME NEW a, NEW q, NEW o, NEW n, NEW s \in Careful(a, q, o, n), NEW x \in Good,
           x.link = s.link, x.evq = s.evq, x.owed = s.owed, x.down = s.down,
           x.next \in Nat, s.next <= x.next,
           x.rb.queue = s.rb.queue, x.rb.kb_rpt = s.rb.kb_rpt, x.rb.retry = s.rb.retry,
           x.rb.age \in {s.rb.age, 0}, x.state = s.state \/ x.state # "CONNECTED"
    PROVE  x \in Careful(a, q, o, n)
<1>1. Numbered(n, s) /\ KeysOnly(s) /\ Owing(a, s) /\ Settled(a, q, o, s)
      /\ OneOut(s.link, a, s.rb.kb_rpt) /\ s.next \in Nat /\ s.evq = q
  BY CarefulIs
<1>2. QueuedIds(x.rb) = QueuedIds(s.rb)
  BY DEF QueuedIds
<1>3. Numbered(n, x)
  BY <1>1, <1>2 DEF Numbered
<1>4. KeysOnly(x) /\ OneOut(x.link, a, x.rb.kb_rpt)
  BY <1>1 DEF KeysOnly
<1>5. Owing(a, x)
  BY <1>1, <1>2 DEF Owing
<1>6. Settled(a, q, o, x)
  BY <1>1 DEF Settled
<1> QED BY <1>1, <1>3, <1>4, <1>5, <1>6 DEF Careful

\* Reports on a longer bus.
LEMMA MoreReports ==
    ASSUME NEW l \in Seq(Packet), NEW p \in Packet
    PROVE  /\ Reports(Append(l, p))
                = Reports(l) \cup (IF p.cmd = "REPORT" THEN {Len(l) + 1} ELSE {})
           /\ \A i \in Reports(l) : Append(l, p)[i] = l[i]
           /\ Append(l, p)[Len(l) + 1] = p
<1> DEFINE k == Append(l, p)
<1>1. Len(k) = Len(l) + 1 /\ k[Len(l) + 1] = p /\ \A i \in 1 .. Len(l) : k[i] = l[i]
  OBVIOUS
<1>2. Len(l) \in Nat
  OBVIOUS
<1> HIDE DEF k
<1>3. \A i : i \in 1 .. Len(k) <=> i \in 1 .. Len(l) \/ i = Len(l) + 1
  BY <1>1, <1>2
<1>4. Reports(k) = Reports(l) \cup (IF p.cmd = "REPORT" THEN {Len(l) + 1} ELSE {})
  BY <1>1, <1>3 DEF Reports
<1>5. \A i \in Reports(l) : k[i] = l[i]
  BY <1>1 DEF Reports
<1> QED BY <1>1, <1>4, <1>5 DEF k

\* lkbt51_send_cmd with a command.
LEMMA TransmitCareful ==
    ASSUME NEW a, NEW q, NEW o, NEW n, NEW s \in Careful(a, q, o, n), NEW p \in Packet,
           p.cmd # "REPORT"
    PROVE  Transmit(s, p) \in Careful(a, q, o, n)
<1> DEFINE x == Transmit(s, p)
           k == Append(s.link, p)
<1>1. s \in Good /\ s \in WirelessState /\ s.link \in Seq(Packet)
      /\ Numbered(n, s) /\ KeysOnly(s) /\ Owing(a, s) /\ Settled(a, q, o, s)
      /\ OneOut(s.link, a, s.rb.kb_rpt) /\ s.evq = q
  BY CarefulIs
<1>2. x \in Good
  BY <1>1, TransmitGood
<1>3. /\ x.link = k /\ x.rb = s.rb /\ x.next = s.next /\ x.owed = s.owed
      /\ x.down = s.down /\ x.state = s.state /\ x.evq = s.evq
  BY <1>1 DEF Transmit, WirelessState
<1>4. Reports(k) = Reports(s.link) /\ \A i \in Reports(s.link) : k[i] = s.link[i]
  <2>1. /\ Reports(k) = Reports(s.link)
                            \cup (IF p.cmd = "REPORT" THEN {Len(s.link) + 1} ELSE {})
        /\ \A i \in Reports(s.link) : k[i] = s.link[i]
    BY <1>1, MoreReports
  <2> HIDE DEF k
  <2> QED BY <2>1
<1> HIDE DEF x, k
<1>5. OneOut(k, a, s.rb.kb_rpt) /\ (Loaded(k, a) <=> Loaded(s.link, a))
  BY <1>1, <1>4 DEF OneOut, Loaded
<1>6. Numbered(n, x) /\ KeysOnly(x) /\ Owing(a, x) /\ Settled(a, q, o, x)
      /\ OneOut(x.link, a, x.rb.kb_rpt)
  BY <1>1, <1>3, <1>5 DEF Numbered, KeysOnly, Owing, Settled
<1>7. x \in Careful(a, q, o, n)
  BY <1>1, <1>2, <1>3, <1>6 DEF Careful
<1> QED BY <1>7 DEF x

\* The commands of the driver.
LEMMA CommandsCareful ==
    ASSUME NEW a, NEW q, NEW o, NEW n, NEW s \in Careful(a, q, o, n), NEW h \in Nat
    PROVE  /\ Transmit(s, [cmd |-> "CONNECT", host |-> h]) \in Careful(a, q, o, n)
           /\ Transmit(s, [cmd |-> "PAIRING", host |-> h]) \in Careful(a, q, o, n)
           /\ Transmit(s, [cmd |-> "PARAM"]) \in Careful(a, q, o, n)
<1>1. /\ [cmd |-> "CONNECT", host |-> h].cmd # "REPORT"
      /\ [cmd |-> "PAIRING", host |-> h].cmd # "REPORT"
      /\ [cmd |-> "PARAM"].cmd # "REPORT"
  OBVIOUS
<1>2. /\ [cmd |-> "CONNECT", host |-> h] \in Packet /\ [cmd |-> "PAIRING", host |-> h] \in Packet
      /\ [cmd |-> "PARAM"] \in Packet
  BY PacketTypes
<1> QED BY <1>1, <1>2, TransmitCareful, Zenon

\* wireless_connect leaves the connection for another,
LEMMA ConnectCareful ==
    ASSUME NEW a, NEW q, NEW o, NEW n, NEW s \in Careful(a, q, o, n)
    PROVE  wireless_connect(s) \in Careful(a, q, o, n)
<1> DEFINE b == Transmit(s, [cmd |-> "CONNECT", host |-> 0])
           x == [b EXCEPT !.state = "RECONNECTING"]
<1>1. b \in Careful(a, q, o, n)
  BY CommandsCareful
<1> HIDE DEF b
<1>2. b \in Good /\ b \in WirelessState /\ b.next \in Nat /\ b.next <= b.next
  BY <1>1, CarefulIs
<1>3. x \in Good
  BY <1>2, SetState DEF States
<1>4. /\ x.link = b.link /\ x.rb = b.rb /\ x.next = b.next /\ x.owed = b.owed
      /\ x.down = b.down /\ x.evq = b.evq /\ x.state # "CONNECTED"
  BY <1>2 DEF WirelessState
<1> HIDE DEF x
<1>5. x \in Careful(a, q, o, n)
  BY <1>1, <1>2, <1>3, <1>4, CarefulSame
<1> QED BY <1>5 DEF wireless_connect, x, b

\* so does wireless_connect_ex,
LEMMA ConnectExCareful ==
    ASSUME NEW a, NEW q, NEW o, NEW n, NEW s \in Careful(a, q, o, n), NEW h \in Nat
    PROVE  wireless_connect_ex(s, h) \in Careful(a, q, o, n)
<1> DEFINE b == Transmit(s, [cmd |-> "CONNECT", host |-> h])
           x == [b EXCEPT !.state = "RECONNECTING",
                          !.host_index = IF h # 0 THEN h ELSE @,
                          !.led_state = IF h # 0 THEN 0 ELSE @]
<1>1. b \in Careful(a, q, o, n)
  BY CommandsCareful
<1> HIDE DEF b
<1>2. b \in Good /\ b \in WirelessState /\ b.next \in Nat /\ b.next <= b.next
  BY <1>1, CarefulIs
<1>3. x \in Good
  BY <1>2 DEF Good, Sound, Counted, Silenced, Bounded, WirelessState, States
<1>4. /\ x.link = b.link /\ x.rb = b.rb /\ x.next = b.next /\ x.owed = b.owed
      /\ x.down = b.down /\ x.evq = b.evq /\ x.state # "CONNECTED"
  BY <1>2 DEF WirelessState
<1> HIDE DEF x
<1>5. x \in Careful(a, q, o, n)
  BY <1>1, <1>2, <1>3, <1>4, CarefulSame
<1> QED BY <1>5 DEF wireless_connect_ex, RequestConnection, x, b

\* and wireless_pairing_ex.
LEMMA PairingExCareful ==
    ASSUME NEW a, NEW q, NEW o, NEW n, NEW s \in Careful(a, q, o, n), NEW h \in Nat
    PROVE  wireless_pairing_ex(s, h) \in Careful(a, q, o, n)
<1> DEFINE b == Transmit(s, [cmd |-> "PAIRING", host |-> h])
           x == [b EXCEPT !.state = "PARING", !.host_index = h]
<1>1. b \in Careful(a, q, o, n)
  BY CommandsCareful
<1> HIDE DEF b
<1>2. b \in Good /\ b \in WirelessState /\ b.next \in Nat /\ b.next <= b.next
  BY <1>1, CarefulIs
<1>3. x \in Good
  BY <1>2 DEF Good, Sound, Counted, Silenced, Bounded, WirelessState, States
<1>4. /\ x.link = b.link /\ x.rb = b.rb /\ x.next = b.next /\ x.owed = b.owed
      /\ x.down = b.down /\ x.evq = b.evq /\ x.state # "CONNECTED"
  BY <1>2 DEF WirelessState
<1> HIDE DEF x
<1>5. x \in Careful(a, q, o, n)
  BY <1>1, <1>2, <1>3, <1>4, CarefulSame
<1> QED BY <1>5 DEF wireless_pairing_ex, x, b

\* A send function without connection.
LEMMA ReconnectFirstCareful ==
    ASSUME NEW a, NEW q, NEW o, NEW n, NEW s \in Careful(a, q, o, n)
    PROVE  ReconnectFirst(s) \in Careful(a, q, o, n)
  BY ConnectCareful DEF ReconnectFirst

\* report_buffer_init gives up everything, and starts the timer.
LEMMA InitBufferCareful ==
    ASSUME NEW a, NEW q, NEW o, NEW n, NEW s \in Careful(a, q, o, n)
    PROVE  InitBuffer(s) \in Careful(a, q, o, n)
<1> DEFINE x == InitBuffer(s)
<1>1. s \in Good /\ s \in WirelessState /\ s.rb \in Buffer
      /\ Numbered(n, s) /\ KeysOnly(s) /\ OneOut(s.link, a, s.rb.kb_rpt) /\ s.evq = q
  BY CarefulIs
<1>2. x \in Good
  BY <1>1, InitBufferGood, GoodIsSound
<1>3. /\ x.rb = report_buffer_init(s.rb) /\ x.link = s.link /\ x.next = s.next
      /\ x.owed = {} /\ x.down = s.down /\ x.evq = s.evq
  BY <1>1 DEF InitBuffer, WirelessState
<1>4. x.rb.queue = <<>> /\ x.rb.retry = 0 /\ x.rb.age = 0 /\ x.rb.kb_rpt = s.rb.kb_rpt
  BY <1>1, <1>3 DEF report_buffer_init, Buffer
<1> HIDE DEF x
<1>5. QueuedIds(x.rb) = {}
  BY <1>4 DEF QueuedIds
<1>6. Numbered(n, x) /\ KeysOnly(x) /\ Owing(a, x) /\ Settled(a, q, o, x)
      /\ OneOut(x.link, a, x.rb.kb_rpt)
  BY <1>1, <1>3, <1>4, <1>5 DEF Numbered, KeysOnly, Owing, Settled
<1>7. x \in Careful(a, q, o, n)
  BY <1>1, <1>2, <1>3, <1>6 DEF Careful
<1> QED BY <1>7 DEF x

\* The numbers in a ring with a report more,
LEMMA MoreIds ==
    ASSUME NEW b, NEW d, NEW r \in Report, b.queue \in Seq(Report),
           d.queue = Append(b.queue, r)
    PROVE  QueuedIds(d) = QueuedIds(b) \cup {r.id}
<1>1. /\ Len(d.queue) = Len(b.queue) + 1 /\ d.queue[Len(b.queue) + 1] = r
      /\ \A i \in 1 .. Len(b.queue) : d.queue[i] = b.queue[i]
      /\ Len(b.queue) \in Nat
  OBVIOUS
<1>2. \A i : i \in 1 .. Len(d.queue) <=> i \in 1 .. Len(b.queue) \/ i = Len(b.queue) + 1
  BY <1>1
<1> QED BY <1>1, <1>2 DEF QueuedIds

\* and with its oldest taken.
LEMMA LessIds ==
    ASSUME NEW b, NEW d, b.queue \in Seq(Report), b.queue # <<>>, d.queue = Tail(b.queue)
    PROVE  QueuedIds(b) = QueuedIds(d) \cup {Head(b.queue).id}
<1>1. /\ Len(b.queue) \in Nat /\ Len(b.queue) > 0 /\ Len(d.queue) = Len(b.queue) - 1
      /\ \A i \in 1 .. Len(b.queue) - 1 : d.queue[i] = b.queue[i + 1]
      /\ Head(b.queue) = b.queue[1]
  OBVIOUS
<1>2. ASSUME NEW i \in 1 .. Len(b.queue)
      PROVE  b.queue[i].id \in QueuedIds(d) \cup {Head(b.queue).id}
  <2>1. CASE i = 1
    BY <1>1, <2>1
  <2>2. CASE i # 1
    <3>1. i - 1 \in 1 .. Len(d.queue) /\ (i - 1) + 1 = i /\ i - 1 \in 1 .. Len(b.queue) - 1
      BY <1>1, <2>2
    <3>2. d.queue[i - 1] = b.queue[i]
      BY <1>1, <3>1
    <3> QED BY <3>1, <3>2 DEF QueuedIds
  <2> QED BY <2>1, <2>2
<1>3. ASSUME NEW i \in 1 .. Len(d.queue)
      PROVE  d.queue[i].id \in QueuedIds(b)
  <2>1. i + 1 \in 1 .. Len(b.queue) /\ d.queue[i] = b.queue[i + 1]
    BY <1>1
  <2> QED BY <2>1 DEF QueuedIds
<1>4. Head(b.queue).id \in QueuedIds(b)
  <2>1. 1 \in 1 .. Len(b.queue)
    BY <1>1
  <2> QED BY <1>1, <2>1 DEF QueuedIds
<1>5. QueuedIds(b) \subseteq QueuedIds(d) \cup {Head(b.queue).id}
  BY <1>2 DEF QueuedIds
<1>6. QueuedIds(d) \subseteq QueuedIds(b)
  BY <1>3 DEF QueuedIds
<1> QED BY <1>4, <1>5, <1>6

\* A new report is owed when the ring takes it.
LEMMA EnqueueCareful ==
    ASSUME NEW a, NEW q, NEW o, NEW n, NEW s \in Careful(a, q, o, n), NEW r \in Report,
           ~s.critical_low, r.id = n, n < s.next
    PROVE  EnqueueReport(s, r) \in Careful(a, q, o, n + 1)
<1> DEFINE x == EnqueueReport(s, r)
           b == report_buffer_enqueue(s.rb, r)
<1>1. s \in Good /\ s \in WirelessState /\ s.rb \in Buffer /\ s.rb.queue \in Seq(Report)
      /\ Numbered(n, s) /\ KeysOnly(s) /\ Owing(a, s) /\ Settled(a, q, o, s)
      /\ OneOut(s.link, a, s.rb.kb_rpt) /\ s.rb.kb_rpt \in Report /\ s.next \in Nat
      /\ s.evq = q
  BY CarefulIs
<1>2. x \in Good
  BY <1>1, EnqueueGood
<1>3. /\ x.rb = b /\ x.link = s.link /\ x.next = s.next
      /\ x.owed = IF IsFull(s.rb) THEN s.owed ELSE s.owed \cup {r.id}
      /\ x.down = s.down /\ x.state = s.state /\ x.evq = s.evq
  BY <1>1 DEF EnqueueReport, WirelessState
<1>4. /\ b.kb_rpt = s.rb.kb_rpt /\ b.retry = s.rb.retry /\ b.age = s.rb.age
      /\ b.queue = AppendOrRefuse(s.rb.queue, r, QueueSize - 1)
  BY <1>1 DEF report_buffer_enqueue, Buffer
<1>5. QueuedIds(b) = IF IsFull(s.rb) THEN QueuedIds(s.rb) ELSE QueuedIds(s.rb) \cup {r.id}
  <2> HIDE DEF b
  <2>1. CASE IsFull(s.rb)
    <3>1. b.queue = s.rb.queue
      BY <1>4, <2>1 DEF IsFull, AppendOrRefuse
    <3> QED BY <2>1, <3>1 DEF QueuedIds
  <2>2. CASE ~IsFull(s.rb)
    <3>1. b.queue = Append(s.rb.queue, r)
      BY <1>4, <2>2 DEF IsFull, AppendOrRefuse
    <3>2. QueuedIds(b) = QueuedIds(s.rb) \cup {r.id}
      BY <1>1, <3>1, MoreIds
    <3> QED BY <2>2, <3>2
  <2> QED BY <2>1, <2>2
<1> HIDE DEF x, b
<1>6. Numbered(n + 1, x)
  <2>1. n \in Nat /\ s.rb.kb_rpt.id < n /\ \A i \in QueuedIds(s.rb) : i < n
    BY <1>1 DEF Numbered
  <2>2. n + 1 \in Nat /\ n + 1 <= x.next
    BY <1>1, <1>3, <2>1
  <2>3. s.rb.kb_rpt.id < n + 1
    BY <1>1, <2>1 DEF Report
  <2>4. \A i \in QueuedIds(s.rb) : i \in Nat
    <3>1. \A j \in 1 .. Len(s.rb.queue) : s.rb.queue[j] \in Report
      BY <1>1
    <3> QED BY <3>1 DEF QueuedIds, Report
  <2>5. \A i \in QueuedIds(b) : i < n + 1
    BY <1>5, <2>1, <2>4
  <2> QED BY <1>3, <1>4, <2>2, <2>3, <2>5 DEF Numbered
<1>7. Owing(a, x)
  <2>1. r.id # s.rb.kb_rpt.id
    BY <1>1 DEF Numbered, Report
  <2> QED BY <1>1, <1>3, <1>4, <1>5, <2>1 DEF Owing
<1>8. KeysOnly(x) /\ Settled(a, q, o, x) /\ OneOut(x.link, a, x.rb.kb_rpt)
  BY <1>1, <1>3, <1>4 DEF KeysOnly, Settled
<1>9. x \in Careful(a, q, o, n + 1)
  BY <1>1, <1>2, <1>3, <1>6, <1>7, <1>8 DEF Careful
<1> QED BY <1>9 DEF x

\* report_buffer_task takes its next report only when the last is settled.
LEMMA ReportTaskCareful ==
    ASSUME NEW a, NEW q, NEW o, NEW n, NEW s \in Careful(a, q, o, n)
    PROVE  ReportTask(s) \in Careful(a, q, o, n)
<1> DEFINE x == ReportTask(s)
           up == s.state = "CONNECTED"
           tx == Transmits(s.rb, up, s.uptime)
           b == report_buffer_task(s.rb, up, s.uptime)
           g == GivenUp(s.rb, up, s.uptime)
           k == Append(s.link, ReportPacket(b.kb_rpt))
<1>1. s \in Good /\ s \in WirelessState /\ s.rb \in Buffer /\ s.rb.queue \in Seq(Report)
      /\ Numbered(n, s) /\ KeysOnly(s) /\ Owing(a, s) /\ Settled(a, q, o, s)
      /\ OneOut(s.link, a, s.rb.kb_rpt) /\ s.rb.kb_rpt \in Report /\ s.next \in Nat
      /\ s.evq = q /\ s.link \in Seq(Packet)
  BY CarefulIs
<1>2. x \in Good
  BY <1>1, ReportTaskGood
<1>3. /\ x.rb = b /\ x.next = s.next /\ x.evq = s.evq /\ x.down = s.down
      /\ x.state = s.state /\ x.owed = s.owed \ g
      /\ x.link = IF tx THEN k ELSE s.link
  BY <1>1 DEF ReportTask, WirelessState
<1>4. CASE ~Pending(s.rb, up)
  <2>1. b = s.rb /\ ~tx /\ g = {}
    BY <1>4 DEF report_buffer_task, Transmits, GivenUp
  <2> HIDE DEF x, b, g, tx, k
  <2>2. x.link = s.link /\ x.rb = s.rb /\ x.owed = s.owed
    BY <1>3, <2>1
  <2>3. x.next \in Nat /\ s.next <= x.next
    BY <1>1, <1>3
  <2>4. x \in Careful(a, q, o, n)
    BY <1>2, <1>3, <2>2, <2>3, CarefulSame
  <2> QED BY <2>4 DEF x
<1>5. CASE Pending(s.rb, up)
  <2>1. ~Loaded(s.link, a)
    <3>1. s.state = "CONNECTED" /\ s.rb.age > s.rb.interval
      BY <1>5 DEF Pending, report_buffer_next_inverval
    <3>2. s.rb.age \in Int /\ s.rb.interval \in Nat
      BY <1>1, AgeAssumption DEF Buffer, Ages
    <3>3. s.rb.age > 0
      BY <3>1, <3>2
    <3> QED BY <1>1, <3>1, <3>3 DEF Settled
  <2>2. Reports(s.link) = {} /\ a = <<>> /\ ~Answered(a)
    BY <2>1 DEF Loaded, Answered
  <2>3. /\ b.kb_rpt \in Report /\ Numbered(n, x)
        /\ x.owed \subseteq QueuedIds(b) \cup (IF b.retry > 0 THEN {b.kb_rpt.id} ELSE {})
    <3>1. CASE s.rb.retry = 0
      <4> DEFINE hd == Head(s.rb.queue)
      <4>1. s.rb.queue # <<>>
        BY <1>5, <3>1 DEF Pending, report_buffer_is_empty
      <4>2. b.queue = Tail(s.rb.queue) /\ b.kb_rpt = hd
            /\ b.retry = IF tx THEN RetryCount ELSE 0
        BY <1>1, <1>5, <3>1, <4>1
        DEF report_buffer_task, report_buffer_dequeue, report_buffer_is_empty, Buffer
      <4>3. g = IF tx THEN {} ELSE {hd.id}
        BY <1>5, <3>1 DEF GivenUp
      <4>4. hd \in Report
        BY <1>1, <4>1
      <4> HIDE DEF x, b, g, tx, k, hd, up
      <4>5. QueuedIds(s.rb) = QueuedIds(b) \cup {hd.id}
        BY <1>1, <4>1, <4>2, LessIds DEF hd
      <4>6. s.owed \subseteq QueuedIds(s.rb)
        BY <1>1, <3>1 DEF Owing
      <4>7. RetryCount > 0
        BY RetryAssumption
      <4>8. x.owed \subseteq QueuedIds(b) \cup (IF b.retry > 0 THEN {b.kb_rpt.id} ELSE {})
        BY <1>3, <4>2, <4>3, <4>5, <4>6, <4>7
      <4>9. Numbered(n, x)
        BY <1>1, <1>3, <4>2, <4>5 DEF Numbered
      <4> QED BY <4>2, <4>4, <4>8, <4>9
    <3>2. CASE s.rb.retry # 0
      <4>1. b.queue = s.rb.queue /\ b.kb_rpt = s.rb.kb_rpt
            /\ b.retry = IF tx THEN s.rb.retry - 1 ELSE s.rb.retry
        BY <1>1, <3>2 DEF report_buffer_task, Buffer
      <4>2. g = IF tx /\ s.rb.retry = 1 THEN {s.rb.kb_rpt.id} ELSE {}
        BY <1>5, <3>2 DEF GivenUp
      <4>3. s.rb.retry \in Nat
        BY <1>1, CarefulIs
      <4> HIDE DEF x, b, g, tx, k, up
      <4>4. QueuedIds(b) = QueuedIds(s.rb)
        BY <4>1 DEF QueuedIds
      <4>5. s.owed \subseteq QueuedIds(s.rb) \cup {s.rb.kb_rpt.id}
        BY <1>1 DEF Owing
      <4>6. x.owed \subseteq QueuedIds(b) \cup (IF b.retry > 0 THEN {b.kb_rpt.id} ELSE {})
        BY <1>3, <3>2, <4>1, <4>2, <4>3, <4>4, <4>5
      <4>7. Numbered(n, x)
        BY <1>1, <1>3, <4>1, <4>4 DEF Numbered
      <4> QED BY <1>1, <4>1, <4>6, <4>7
    <3> QED BY <3>1, <3>2
  <2>4. Owing(a, x) /\ KeysOnly(x)
    BY <1>1, <1>3, <2>2, <2>3 DEF Owing, KeysOnly
  <2>5. Settled(a, q, o, x) /\ OneOut(x.link, a, x.rb.kb_rpt)
    <3>1. CASE tx
      <4>1. b.age = 0
        BY <1>1, <3>1
        DEF report_buffer_task, report_buffer_dequeue, report_buffer_is_empty, Buffer
      <4>2. /\ Reports(k) = Reports(s.link) \cup (IF ReportPacket(b.kb_rpt).cmd = "REPORT"
                                                THEN {Len(s.link) + 1} ELSE {})
            /\ k[Len(s.link) + 1] = ReportPacket(b.kb_rpt)
        <5>1. ReportPacket(b.kb_rpt) \in Packet
          BY <2>3, PacketTypes DEF ReportPacket
        <5> HIDE DEF b
        <5> QED BY <1>1, <5>1, MoreReports
      <4> HIDE DEF x, b, g, tx, k, up
      <4>3. Reports(k) = {Len(s.link) + 1} /\ k[Len(s.link) + 1].rpt = b.kb_rpt
        BY <2>2, <4>2 DEF ReportPacket
      <4> QED BY <1>3, <2>2, <3>1, <4>1, <4>3 DEF Settled, OneOut
    <3>2. CASE ~tx
      <4> HIDE DEF x, b, g, tx, k, up
      <4> QED BY <1>3, <2>2, <3>2 DEF Settled, OneOut, Loaded
    <3> QED BY <3>1, <3>2
  <2> HIDE DEF x
  <2>6. x \in Careful(a, q, o, n)
    BY <1>1, <1>2, <1>3, <2>3, <2>4, <2>5 DEF Careful
  <2> QED BY <2>6 DEF x
<1> QED BY <1>4, <1>5

\* The states in which a number below the next is enough.
Tidy(a, q, o) == {s \in Good : s \in Careful(a, q, o, s.next)}

\* A smaller number is as good,
LEMMA CarefulTidy ==
    ASSUME NEW a, NEW q, NEW o, NEW n, NEW s \in Careful(a, q, o, n)
    PROVE  s \in Tidy(a, q, o)
<1>1. s \in Good /\ s.rb.queue \in Seq(Report) /\ s.rb.kb_rpt \in Report /\ s.next \in Nat
      /\ Numbered(n, s) /\ KeysOnly(s) /\ Owing(a, s) /\ Settled(a, q, o, s)
      /\ OneOut(s.link, a, s.rb.kb_rpt) /\ s.evq = q
  BY CarefulIs
<1>2. \A i \in QueuedIds(s.rb) : i \in Nat
  <2>1. \A j \in 1 .. Len(s.rb.queue) : s.rb.queue[j] \in Report
    BY <1>1
  <2> QED BY <2>1 DEF QueuedIds, Report
<1>3. Numbered(s.next, s)
  BY <1>1, <1>2 DEF Numbered, Report
<1> QED BY <1>1, <1>3 DEF Careful, Tidy

\* and the next number is one.
LEMMA TidyCareful ==
    ASSUME NEW a, NEW q, NEW o, NEW s \in Tidy(a, q, o)
    PROVE  s \in Careful(a, q, o, s.next)
  BY DEF Tidy

\* wireless_send_keyboard with the next number.
LEMMA SendKeyboardTidy ==
    ASSUME NEW a, NEW q, NEW o, NEW n, NEW s \in Careful(a, q, o, n), NEW r \in Report,
           r.id = n, n < s.next
    PROVE  wireless_send_keyboard(s, r) \in Tidy(a, q, o)
<1>1. s \in Tidy(a, q, o) /\ ReconnectFirst(s) \in Tidy(a, q, o)
  BY CarefulTidy, ReconnectFirstCareful
<1>2. ~s.critical_low => EnqueueReport(s, r) \in Careful(a, q, o, n + 1)
  BY EnqueueCareful
<1>3. ~s.critical_low => /\ EnqueueReport(s, r) \in Tidy(a, q, o)
                         /\ ReportTask(EnqueueReport(s, r)) \in Tidy(a, q, o)
  BY <1>2, CarefulTidy, ReportTaskCareful
<1> QED BY <1>1, <1>3 DEF wireless_send_keyboard

\* send_keyboard_report produces keyboard reports only,
LEMMA KeyboardReportTidy ==
    ASSUME NEW a, NEW q, NEW o, NEW s \in Tidy(a, q, o), NEW pressed \in BOOLEAN
    PROVE  send_keyboard_report(s, pressed) \in Tidy(a, q, o)
<1> DEFINE u == KeyboardType(s)
           x == Produce(s, u, pressed)
           r == NewReport(s, u)
           n == s.next
<1>1. s \in Careful(a, q, o, n)
  BY TidyCareful
<1>2. s \in Good /\ s \in WirelessState /\ n \in Nat
      /\ Numbered(n, s) /\ KeysOnly(s) /\ Owing(a, s) /\ Settled(a, q, o, s)
      /\ OneOut(s.link, a, s.rb.kb_rpt) /\ s.evq = q
  BY <1>1, CarefulIs
<1>3. u \in ReportTypes /\ u # "SYSTEM" /\ u # "CONSUMER"
  BY DEF KeyboardType, ReportTypes
<1> HIDE DEF u
<1>4. x \in Good /\ r \in Report
  BY <1>2, <1>3, ProduceGood
<1>5. /\ x.link = s.link /\ x.rb = s.rb /\ x.next = n + 1 /\ x.evq = s.evq
      /\ x.owed = s.owed /\ x.state = s.state
  BY <1>2 DEF Produce, WirelessState
<1>6. KeysOnly(x)
  <2>1. s.down \in [ReportTypes -> BOOLEAN]
    BY <1>2 DEF WirelessState
  <2>2. x.down = [s.down EXCEPT ![u] = pressed]
    BY <1>2 DEF Produce, WirelessState
  <2> HIDE DEF x
  <2>3. x.down["SYSTEM"] = s.down["SYSTEM"] /\ x.down["CONSUMER"] = s.down["CONSUMER"]
    BY <1>3, <2>1, <2>2
  <2> QED BY <1>2, <2>3 DEF KeysOnly
<1>7. r.id = n
  BY DEF NewReport
<1> HIDE DEF x, r, n
<1>8. n < x.next /\ n <= x.next
  BY <1>2, <1>5
<1>9. Numbered(n, x) /\ Owing(a, x) /\ Settled(a, q, o, x) /\ OneOut(x.link, a, x.rb.kb_rpt)
  BY <1>2, <1>5, <1>8 DEF Numbered, Owing, Settled
<1>10. x \in Careful(a, q, o, n)
  BY <1>2, <1>4, <1>5, <1>6, <1>9 DEF Careful
<1>11. wireless_send_keyboard(x, r) \in Tidy(a, q, o)
  BY <1>4, <1>7, <1>8, <1>10, SendKeyboardTidy
<1> QED BY <1>11 DEF send_keyboard_report, x, r, u

\* wireless_send_mouse only asks for a connection,
LEMMA SendMouseTidy ==
    ASSUME NEW a, NEW q, NEW o, NEW s \in Tidy(a, q, o)
    PROVE  wireless_send_mouse(s) \in Tidy(a, q, o)
<1>1. ReconnectFirst(s) \in Tidy(a, q, o)
  BY TidyCareful, ReconnectFirstCareful, CarefulTidy
<1> QED BY <1>1 DEF wireless_send_mouse

\* and clear_keyboard has no consumer or system key to release.
LEMMA ClearKeyboardTidy ==
    ASSUME NEW a, NEW q, NEW o, NEW s \in Tidy(a, q, o)
    PROVE  clear_keyboard(s) \in Tidy(a, q, o)
<1> DEFINE x == send_keyboard_report(s, FALSE)
<1>1. KeysOnly(s)
  BY TidyCareful, CarefulIs
<1>2. host_extra_send(s, "SYSTEM", FALSE) = s /\ host_extra_send(s, "CONSUMER", FALSE) = s
  BY <1>1 DEF KeysOnly, host_extra_send
<1>3. x \in Tidy(a, q, o)
  BY KeyboardReportTidy
<1>4. clear_keyboard(s) = wireless_send_mouse(x)
  BY <1>2 DEF clear_keyboard
<1> HIDE DEF x
<1> QED BY <1>3, <1>4, SendMouseTidy

\* Time passes only when no report is unsettled, or when no connection is near.
LEMMA AfterTimeCareful ==
    ASSUME NEW a, NEW q, NEW o, NEW n, NEW s \in Careful(a, q, o, n),
           NEW dt \in Nat, NEW up \in 0 .. 4,
           \/ dt = 0 \/ ~Loaded(s.link, a)
           \/ s.state # "CONNECTED" /\ ~Announced(q, o)
    PROVE  AfterTime(s, dt, up) \in Careful(a, q, o, n)
<1> DEFINE x == AfterTime(s, dt, up)
<1>1. s \in Good /\ s \in WirelessState /\ s.rb \in Buffer
      /\ Numbered(n, s) /\ KeysOnly(s) /\ Owing(a, s) /\ Settled(a, q, o, s)
      /\ OneOut(s.link, a, s.rb.kb_rpt) /\ s.evq = q
  BY CarefulIs
<1>2. /\ x.link = s.link /\ x.next = s.next /\ x.rb = Elapse(s.rb, dt) /\ x.evq = s.evq
      /\ x.down = s.down /\ x.owed = s.owed /\ x.state = s.state
  BY <1>1 DEF AfterTime, WirelessState
<1>3. /\ x.rb.queue = s.rb.queue /\ x.rb.kb_rpt = s.rb.kb_rpt /\ x.rb.retry = s.rb.retry
      /\ x.rb.age = Older(s.rb.age, dt)
  BY <1>1, <1>2 DEF Elapse, Buffer
<1>4. x \in Good
  BY <1>1, AfterTimeGood
<1>5. dt = 0 => x.rb.age = s.rb.age
  <2>1. s.rb.age \in 0 .. AgeCap
    BY <1>1 DEF Buffer, Ages
  <2> QED BY <1>3, <2>1, AgeAssumption DEF Older
<1> HIDE DEF x
<1>6. QueuedIds(x.rb) = QueuedIds(s.rb)
  BY <1>3 DEF QueuedIds
<1>7. Settled(a, q, o, x)
  BY <1>1, <1>2, <1>5 DEF Settled
<1>8. Numbered(n, x) /\ KeysOnly(x) /\ Owing(a, x) /\ OneOut(x.link, a, x.rb.kb_rpt)
  BY <1>1, <1>2, <1>3, <1>6 DEF Numbered, KeysOnly, Owing
<1>9. x \in Careful(a, q, o, n)
  BY <1>1, <1>2, <1>4, <1>7, <1>8 DEF Careful
<1> QED BY <1>9 DEF x

\* lkbt51_param_init waits, which it does without a connection.
LEMMA ParamInitTidy ==
    ASSUME NEW a, NEW q, NEW o, NEW s \in Tidy(a, q, o),
           s.state # "CONNECTED", ~Announced(q, o)
    PROVE  lkbt51_param_init(s) \in Tidy(a, q, o)
<1> DEFINE x == Transmit(s, [cmd |-> "PARAM"])
           n == s.next
<1>1. s \in Careful(a, q, o, n)
  BY TidyCareful
<1>2. s \in WirelessState
  BY <1>1, CarefulIs
<1>3. x.state = s.state
  BY <1>2 DEF Transmit, WirelessState
<1> HIDE DEF n
<1>4. x \in Careful(a, q, o, n)
  BY <1>1, CommandsCareful
<1>5. ParamWait \in Nat /\ Soonest(s.uptime, ParamWait) \in 0 .. 4
  BY <1>2, DomainAssumption DEF Soonest, WirelessState
<1> HIDE DEF x
<1>6. AfterTime(x, ParamWait, Soonest(s.uptime, ParamWait)) \in Careful(a, q, o, n)
  BY <1>3, <1>4, <1>5, AfterTimeCareful
<1> QED BY <1>6, CarefulTidy DEF lkbt51_param_init, x

\* A change of other variables.
LEMMA TidySame ==
    ASSUME NEW a, NEW q, NEW o, NEW s \in Tidy(a, q, o), NEW x \in Good,
           x.link = s.link, x.evq = s.evq, x.owed = s.owed, x.down = s.down, x.next = s.next,
           x.rb.queue = s.rb.queue, x.rb.kb_rpt = s.rb.kb_rpt, x.rb.retry = s.rb.retry,
           x.rb.age = s.rb.age, x.state = s.state \/ x.state # "CONNECTED"
    PROVE  x \in Tidy(a, q, o)
<1> DEFINE n == s.next
<1>1. s \in Careful(a, q, o, n) /\ n \in Nat
  BY TidyCareful, CarefulIs
<1>2. s.next <= x.next /\ x.next \in Nat
  BY <1>1
<1> HIDE DEF n
<1>3. x \in Careful(a, q, o, n)
  BY <1>1, <1>2, CarefulSame
<1> QED BY <1>3, CarefulTidy

\* Every event handler but that of the connection leaves the connection or does
\* nothing to it; the connection comes when every report is settled.
LEMMA HandleEventTidy ==
    ASSUME NEW a, NEW q, NEW o, NEW s \in Tidy(a, q, o), NEW e \in Event,
           ~Announced(q, o),
           e.type = "CONNECTED" /\ Loaded(s.link, a) => s.rb.age = 0
    PROVE  HandleEvent(s, e) \in Tidy(a, q, o)
<1> DEFINE y == HandleEvent(s, e)
           h == e.param
<1>1. s \in Good /\ s \in WirelessState /\ s.rb \in Buffer /\ h \in Nat
  BY TidyCareful, CarefulIs DEF Event
<1>2. y \in Good
  BY <1>1, HandleEventGood
<1>3. ASSUME NEW x \in Good, x.link = s.link, x.next = s.next, x.rb = s.rb,
             x.evq = s.evq, x.owed = s.owed, x.down = s.down,
             x.state = s.state \/ x.state # "CONNECTED"
      PROVE  x \in Tidy(a, q, o)
  BY <1>3, TidySame
<1>4. CASE e.type = "RESET"
  <2> DEFINE x == [s EXCEPT !.state = "RESET"]
  <2>1. x \in Good
    BY <1>1, SetState DEF States
  <2>2. /\ x.link = s.link /\ x.next = s.next /\ x.rb = s.rb /\ x.evq = s.evq
        /\ x.owed = s.owed /\ x.down = s.down /\ x.state # "CONNECTED"
    BY <1>1 DEF WirelessState
  <2> HIDE DEF x
  <2>3. x \in Tidy(a, q, o)
    BY <1>3, <2>1, <2>2
  <2>4. lkbt51_param_init(x) \in Tidy(a, q, o)
    BY <2>2, <2>3, ParamInitTidy
  <2> QED BY <1>4, <2>4 DEF HandleEvent, wireless_enter_reset, x
<1>5. CASE e.type = "CONNECTED"
  <2> DEFINE x == [s EXCEPT !.state = "CONNECTED", !.host_index = h]
  <2>1. x \in Good
    BY <1>1 DEF States, Good, Sound, Counted, Silenced, Bounded, WirelessState
  <2>2. /\ x.link = s.link /\ x.next = s.next /\ x.rb = s.rb /\ x.evq = s.evq
        /\ x.owed = s.owed /\ x.down = s.down
    BY <1>1 DEF WirelessState
  <2> HIDE DEF x
  <2>3. /\ s \in Careful(a, q, o, s.next) /\ Numbered(s.next, s) /\ KeysOnly(s)
        /\ Owing(a, s) /\ OneOut(s.link, a, s.rb.kb_rpt) /\ s.evq = q
    BY TidyCareful, CarefulIs
  <2>4. Numbered(x.next, x) /\ KeysOnly(x) /\ Owing(a, x) /\ OneOut(x.link, a, x.rb.kb_rpt)
    BY <2>2, <2>3 DEF Numbered, KeysOnly, Owing
  <2>5. Settled(a, q, o, x)
    BY <1>5, <2>2 DEF Settled
  <2>6. x \in Tidy(a, q, o)
    BY <2>1, <2>2, <2>3, <2>4, <2>5 DEF Tidy, Careful
  <2>7. clear_keyboard(x) \in Tidy(a, q, o)
    BY <2>6, ClearKeyboardTidy
  <2> QED BY <1>5, <2>7 DEF HandleEvent, wireless_enter_connected, x
<1>6. CASE e.type = "DISCONNECTED"
  <2> DEFINE x == [s EXCEPT !.led_state = 0, !.state = "DISCONNECTED"]
             i == InitBuffer(x)
             p == lkbt51_param_init(i)
             c == wireless_connect(p)
             f == [c EXCEPT !.firstDisconnect = FALSE]
  <2>1. x \in Good /\ x \in WirelessState
    BY <1>1 DEF Good, Sound, Counted, Silenced, Bounded, WirelessState, States
  <2>2. /\ x.link = s.link /\ x.next = s.next /\ x.rb = s.rb /\ x.evq = s.evq
        /\ x.owed = s.owed /\ x.down = s.down /\ x.state # "CONNECTED"
    BY <1>1 DEF WirelessState
  <2> HIDE DEF x
  <2>3. x \in Tidy(a, q, o)
    BY <1>3, <2>1, <2>2
  <2>4. i \in Tidy(a, q, o)
    BY <2>3, TidyCareful, InitBufferCareful, CarefulTidy
  <2>5. i.state # "CONNECTED"
    BY <2>1, <2>2 DEF InitBuffer, WirelessState
  <2> HIDE DEF i
  <2>6. p \in Tidy(a, q, o)
    BY <2>4, <2>5, ParamInitTidy
  <2> HIDE DEF p
  <2>7. c \in Tidy(a, q, o)
    BY <2>6, TidyCareful, ConnectCareful, CarefulTidy
  <2> HIDE DEF c
  <2>8. c \in Good /\ c \in WirelessState
    BY <2>7, TidyCareful, CarefulIs
  <2>9. f \in Good
    BY <2>8 DEF Good, Sound, Counted, Silenced, Bounded, WirelessState
  <2>10. /\ f.link = c.link /\ f.next = c.next /\ f.rb = c.rb /\ f.evq = c.evq
         /\ f.owed = c.owed /\ f.down = c.down /\ f.state = c.state
    BY <2>8 DEF WirelessState
  <2> HIDE DEF f
  <2>11. f \in Tidy(a, q, o)
    BY <2>7, <2>9, <2>10, TidySame
  <2>12. y \in {i, f}
    BY <1>6 DEF HandleEvent, wireless_enter_disconnected,
                wireless_enter_disconnected_kb, x, i, p, c, f
  <2> HIDE DEF y
  <2> QED BY <2>4, <2>11, <2>12 DEF y
<1>7. CASE e.type = "CONECTION_INTERVAL"
  <2>1. y = [s EXCEPT !.rb = report_buffer_set_inverval(s.rb, h)]
    BY <1>7 DEF HandleEvent
  <2>2. /\ y.link = s.link /\ y.next = s.next /\ y.rb = report_buffer_set_inverval(s.rb, h)
        /\ y.evq = s.evq /\ y.owed = s.owed /\ y.down = s.down /\ y.state = s.state
    BY <1>1, <2>1 DEF WirelessState
  <2>3. /\ y.rb.queue = s.rb.queue /\ y.rb.kb_rpt = s.rb.kb_rpt /\ y.rb.retry = s.rb.retry
        /\ y.rb.age = s.rb.age
    BY <1>1, <2>2 DEF report_buffer_set_inverval, Buffer
  <2> HIDE DEF y
  <2>4. y \in Tidy(a, q, o)
    BY <1>2, <2>2, <2>3, TidySame
  <2> QED BY <2>4 DEF y
<1>8. CASE e.type \notin {"RESET", "CONNECTED", "DISCONNECTED", "CONECTION_INTERVAL"}
  <2>1. /\ y.link = s.link /\ y.next = s.next /\ y.rb = s.rb /\ y.evq = s.evq
        /\ y.owed = s.owed /\ y.down = s.down
        /\ y.state = s.state \/ y.state # "CONNECTED"
    BY <1>1, <1>8 DEF HandleEvent, wireless_enter_discoverable, wireless_enter_reconnecting,
       wireless_enter_bluetooth_pin_code_entry, wireless_exit_bluetooth_pin_code_entry,
       wireless_enter_sleep, WirelessState
  <2> HIDE DEF y
  <2>2. y \in Tidy(a, q, o)
    BY <1>2, <1>3, <2>1
  <2> QED BY <2>2 DEF y
<1> QED BY <1>4, <1>5, <1>6, <1>7, <1>8

(***************************************************************************)
(* A connection is announced when everything before it has been handled:   *)
(* it is always the first of the events on their way.                      *)
(***************************************************************************)
Leading(q) == \A i \in 1 .. Len(q) : q[i].type = "CONNECTED" => i = 1
FirstOnly(q, o) ==
    /\ Leading(q)
    /\ \A i \in 1 .. Len(o) :
          o[i].conn = "CONNECTED" => i = 1 /\ q = <<>> /\ ~o[i].reset

\* What follows the first event is no connection.
LEMMA TailLeading ==
    ASSUME NEW q \in Seq(Event), q # <<>>, Leading(q)
    PROVE  ~Posted(Tail(q))
<1>1. /\ Len(q) \in Nat /\ Len(Tail(q)) = Len(q) - 1
      /\ \A i \in 1 .. Len(q) - 1 : Tail(q)[i] = q[i + 1]
  OBVIOUS
<1> SUFFICES ASSUME NEW i \in 1 .. Len(Tail(q)), Tail(q)[i].type = "CONNECTED" PROVE FALSE
  BY DEF Posted
<1>2. i + 1 \in 1 .. Len(q) /\ i + 1 # 1 /\ Tail(q)[i] = q[i + 1]
  BY <1>1
<1> QED BY <1>2 DEF Leading

\* A posted event keeps a leading connection first or drives it out of the ring.
LEMMA PostLeading ==
    ASSUME NEW q \in EventRing, Leading(q), NEW set, NEW type, NEW param,
           set /\ type = "CONNECTED" => q = <<>>
    PROVE  /\ Leading(Post(q, set, type, param))
           /\ Posted(Post(q, set, type, param)) => Posted(q) \/ (set /\ type = "CONNECTED")
           /\ ~set => Post(q, set, type, param) = q
<1> DEFINE e == [type |-> type, param |-> param]
           k == IF Len(q) = EventQueueSize - 1 THEN Tail(q) ELSE q
           p == Append(k, e)
<1>1. CASE set
  <2>1. q \in Seq(Event) /\ Len(q) \in Nat
    BY DEF EventRing, Events
  <2>2. q = <<>> => Len(q) # EventQueueSize - 1
    BY EventQueueSizeAssumption
  <2>3. Leading(k) /\ (Posted(k) => Posted(q)) /\ k \in Seq(Event)
        /\ (type = "CONNECTED" => k = <<>>)
    <3>1. CASE Len(q) = EventQueueSize - 1
      <4>1. q # <<>> /\ k = Tail(q) /\ k \in Seq(Event)
        BY <2>1, <2>2, <3>1
      <4>2. ~Posted(k)
        BY <2>1, <4>1, TailLeading
      <4> QED BY <1>1, <4>1, <4>2 DEF Posted, Leading
    <3>2. CASE Len(q) # EventQueueSize - 1
      BY <1>1, <2>1, <3>2
    <3> QED BY <3>1, <3>2
  <2>4. Post(q, set, type, param) = p
    BY <1>1 DEF Post, wireless_event_enqueue, AppendOrOverride
  <2>5. e.type = type
    OBVIOUS
  <2> HIDE DEF k, e
  <2>6. /\ Len(p) = Len(k) + 1 /\ p[Len(k) + 1] = e /\ Len(k) \in Nat
        /\ \A i \in 1 .. Len(k) : p[i] = k[i]
    BY <2>3
  <2> HIDE DEF p
  <2>7. \A i \in 1 .. Len(p) : i \in 1 .. Len(k) \/ i = Len(k) + 1
    BY <2>6
  <2>8. type = "CONNECTED" => Len(k) + 1 = 1
    BY <2>3
  <2>9. Leading(p)
    BY <2>3, <2>5, <2>6, <2>7, <2>8 DEF Leading
  <2>10. Posted(p) => Posted(q) \/ type = "CONNECTED"
    BY <2>3, <2>5, <2>6, <2>7 DEF Posted
  <2> QED BY <1>1, <2>4, <2>9, <2>10
<1>2. CASE ~set
  BY <1>2 DEF Post
<1> QED BY <1>1, <1>2

\* A frame that is read announces no connection that was not announced before.
LEMMA ReadFrameFirst ==
    ASSUME NEW s \in Good, NEW o \in Seq(Frame), o # <<>>, FirstOnly(s.evq, o)
    PROVE  /\ FirstOnly(ReadFrame(s, Head(o)).evq, Tail(o))
           /\ Announced(ReadFrame(s, Head(o)).evq, Tail(o)) => Announced(s.evq, o)
<1> DEFINE f == Head(o)
           ms == IF f.raw # -1 THEN ConnectionInterval(f.raw) ELSE s.connection_interval
           q1 == Post(s.evq, f.reset, "RESET", 0)
           q2 == Post(q1, f.conn # "NONE", ConnectionEvent(f).type, f.host)
           q3 == Post(q2, f.led # -1, "HID_INDICATOR", f.led)
           q4 == Post(q3, f.raw # -1, "CONECTION_INTERVAL", ms)
           up == f.conn = "CONNECTED"
<1>1. /\ f.conn \in ConnectionEvents \cup {"NONE", "UNKNOWN"} /\ f.host \in Nat
      /\ f.led \in Nat \cup {-1} /\ f.raw \in (0 .. 255) \cup {-1}
  <2>1. f \in Frame
    OBVIOUS
  <2> HIDE DEF f
  <2> QED BY <2>1 DEF Frame
<1>2. ms \in Nat /\ s.evq \in EventRing /\ s \in WirelessState
  BY <1>1, IntervalNat DEF Good, Sound, Bounded, WirelessState, EventRing
<1>3. f = o[1] /\ 1 \in 1 .. Len(o)
  <2>1. Len(o) \in Nat /\ Len(o) > 0
    OBVIOUS
  <2> QED BY <2>1
<1>4. up => s.evq = <<>> /\ ~f.reset
  BY <1>3 DEF FirstOnly
<1>5. ReadFrame(s, f).evq = q4
  BY <1>2 DEF ReadFrame, WirelessState
<1> HIDE DEF f, ms
<1>6. q1 \in EventRing /\ Leading(q1) /\ (Posted(q1) => Posted(s.evq)) /\ (up => q1 = <<>>)
  BY <1>2, <1>4, PostRing, PostLeading DEF EventTypes, FirstOnly
<1> HIDE DEF q1
<1>7. ConnectionEvent(f).type \in EventTypes
      /\ (ConnectionEvent(f).type = "CONNECTED" <=> up)
  BY <1>1 DEF ConnectionEvent, EventTypes, ConnectionEvents
<1> HIDE DEF up
<1>8. q2 \in EventRing /\ Leading(q2) /\ (Posted(q2) => Posted(q1) \/ up)
  BY <1>1, <1>6, <1>7, PostRing, PostLeading
<1> HIDE DEF q2
<1>9. q3 \in EventRing /\ Leading(q3) /\ (Posted(q3) => Posted(q2))
  BY <1>1, <1>8, PostRing, PostLeading DEF EventTypes
<1> HIDE DEF q3
<1>10. Leading(q4) /\ (Posted(q4) => Posted(q3))
  BY <1>2, <1>9, PostLeading
<1> HIDE DEF q4
<1>11. \A i \in 1 .. Len(Tail(o)) : Tail(o)[i].conn # "CONNECTED"
  <2>1. /\ Len(o) \in Nat /\ Len(Tail(o)) = Len(o) - 1
        /\ \A i \in 1 .. Len(o) - 1 : Tail(o)[i] = o[i + 1]
    OBVIOUS
  <2> SUFFICES ASSUME NEW i \in 1 .. Len(Tail(o)), Tail(o)[i].conn = "CONNECTED" PROVE FALSE
    OBVIOUS
  <2>2. i + 1 \in 1 .. Len(o) /\ i + 1 # 1 /\ Tail(o)[i] = o[i + 1]
    BY <2>1
  <2> QED BY <2>2 DEF FirstOnly
<1>12. Announced(q4, Tail(o)) => Announced(s.evq, o)
  BY <1>3, <1>6, <1>8, <1>9, <1>10, <1>11 DEF Announced, up
<1>13. FirstOnly(q4, Tail(o))
  BY <1>10, <1>11 DEF FirstOnly
<1> QED BY <1>5, <1>12, <1>13 DEF f

\* Reading the module's frame,
LEMMA ReadFrameCareful ==
    ASSUME NEW a, NEW o \in Seq(Frame), NEW n, NEW q, NEW s \in Careful(a, q, o, n),
           o # <<>>, FirstOnly(q, o)
    PROVE  /\ ReadFrame(s, Head(o)) \in Careful(a, ReadFrame(s, Head(o)).evq, Tail(o), n)
           /\ FirstOnly(ReadFrame(s, Head(o)).evq, Tail(o))
<1> DEFINE x == ReadFrame(s, Head(o))
<1>1. s \in Good /\ s \in WirelessState
      /\ Numbered(n, s) /\ KeysOnly(s) /\ Owing(a, s) /\ Settled(a, q, o, s)
      /\ OneOut(s.link, a, s.rb.kb_rpt) /\ s.evq = q
  BY CarefulIs
<1>2. x \in Good
  BY <1>1, ReadFrameGood
<1>3. /\ x.link = s.link /\ x.next = s.next /\ x.rb = s.rb /\ x.owed = s.owed
      /\ x.down = s.down /\ x.state = s.state
  BY <1>1 DEF ReadFrame, WirelessState
<1>4. FirstOnly(x.evq, Tail(o)) /\ (Announced(x.evq, Tail(o)) => Announced(q, o))
  BY <1>1, ReadFrameFirst
<1> HIDE DEF x
<1>5. Settled(a, x.evq, Tail(o), x)
  BY <1>1, <1>3, <1>4 DEF Settled
<1>6. Numbered(n, x) /\ KeysOnly(x) /\ Owing(a, x) /\ OneOut(x.link, a, x.rb.kb_rpt)
  BY <1>1, <1>3 DEF Numbered, KeysOnly, Owing
<1>7. x \in Careful(a, x.evq, Tail(o), n)
  BY <1>2, <1>5, <1>6 DEF Careful
<1> QED BY <1>4, <1>7 DEF x

\* and its answer, which is the one to the report in flight.
LEMMA AckCareful ==
    ASSUME NEW a \in Seq(AckCodes), NEW q, NEW o, NEW n, NEW s \in Careful(a, q, o, n),
           a # <<>>
    PROVE  /\ ack_handler(s, Head(a)) \in Careful(Tail(a), q, o, n)
           /\ ack_handler(s, Head(a)).link = s.link
<1> DEFINE c == Head(a)
           z == Tail(a)
           x == ack_handler(s, c)
           good == c \in {"SUCCESS", "FIFO_HALF_WARNING"}
<1>1. s \in Good /\ s \in WirelessState /\ s.rb \in Buffer
      /\ Numbered(n, s) /\ KeysOnly(s) /\ Owing(a, s) /\ Settled(a, q, o, s)
      /\ OneOut(s.link, a, s.rb.kb_rpt) /\ s.evq = q
  BY CarefulIs
<1>2. x \in Good
  BY <1>1, AckGood
<1>3. /\ x.link = s.link /\ x.next = s.next /\ x.owed = s.owed
      /\ x.down = s.down /\ x.state = s.state /\ x.evq = s.evq
  BY <1>1 DEF ack_handler, WirelessState
<1>4. /\ x.rb.queue = s.rb.queue /\ x.rb.kb_rpt = s.rb.kb_rpt /\ x.rb.age = s.rb.age
      /\ x.rb.retry = IF good THEN 0 ELSE s.rb.retry
  BY <1>1 DEF ack_handler, WirelessState, report_buffer_set_inverval,
              report_buffer_set_retry, Buffer
<1>5. /\ Len(a) \in Nat /\ Len(a) > 0 /\ Len(z) = Len(a) - 1 /\ c = a[1]
      /\ \A i \in 1 .. Len(a) - 1 : z[i] = a[i + 1]
  OBVIOUS
<1> HIDE DEF x, c, z
<1>6. good => Answered(a)
  <2>1. 1 \in 1 .. Len(a)
    BY <1>5
  <2> QED BY <1>5, <2>1 DEF Answered
<1>7. Answered(z) => Answered(a)
  <2> SUFFICES ASSUME NEW i \in 1 .. Len(z), z[i] \in {"SUCCESS", "FIFO_HALF_WARNING"}
               PROVE  Answered(a)
    BY DEF Answered
  <2>1. i + 1 \in 1 .. Len(a) /\ z[i] = a[i + 1]
    BY <1>5
  <2> QED BY <2>1 DEF Answered
<1> HIDE DEF good
<1>8. QueuedIds(x.rb) = QueuedIds(s.rb)
  BY <1>4 DEF QueuedIds
<1>9. Owing(z, x)
  BY <1>1, <1>3, <1>4, <1>6, <1>7, <1>8 DEF Owing
<1>10. Settled(z, q, o, x) /\ OneOut(x.link, z, x.rb.kb_rpt)
  BY <1>1, <1>3, <1>4 DEF Settled, Loaded, OneOut
<1>11. Numbered(n, x) /\ KeysOnly(x)
  BY <1>1, <1>3, <1>4, <1>8 DEF Numbered, KeysOnly
<1>12. x \in Careful(z, q, o, n)
  BY <1>1, <1>2, <1>3, <1>9, <1>10, <1>11 DEF Careful
<1> QED BY <1>3, <1>12 DEF x, c, z

\* lkbt51_task takes both from the module.
LEMMA DriverTaskTidy ==
    ASSUME NEW v \in RadioState, NEW q, NEW s \in Tidy(v.acks, q, v.out),
           FirstOnly(q, v.out)
    PROVE  LET x == lkbt51_task(s, v)
           IN  /\ x \in Tidy(Rest(v.acks), x.evq, Rest(v.out))
               /\ FirstOnly(x.evq, Rest(v.out))
               /\ x.link = s.link
<1> DEFINE a == v.acks
           o == v.out
           t == IF o = <<>> THEN s ELSE ReadFrame(s, Head(o))
           y == ack_handler(t, Head(a))
           x == lkbt51_task(s, v)
           n == s.next
<1>1. a \in Seq(AckCodes) /\ o \in Seq(Frame)
  BY DEF RadioState
<1>2. s \in Careful(a, q, o, n) /\ s.evq = q /\ s \in WirelessState
  BY TidyCareful, CarefulIs
<1> HIDE DEF n
<1>3. t \in Careful(a, t.evq, Rest(o), n) /\ FirstOnly(t.evq, Rest(o)) /\ t.link = s.link
  <2>1. CASE o = <<>>
    <3>1. t = s /\ Rest(o) = o
      BY <2>1 DEF Rest
    <3> HIDE DEF t, o
    <3> QED BY <1>2, <3>1 DEF o
  <2>2. CASE o # <<>>
    <3>1. t = ReadFrame(s, Head(o)) /\ Rest(o) = Tail(o)
      BY <2>2 DEF Rest
    <3>2. ReadFrame(s, Head(o)).link = s.link
      BY <1>2 DEF ReadFrame, WirelessState
    <3> HIDE DEF t
    <3> QED BY <1>1, <1>2, <2>2, <3>1, <3>2, ReadFrameCareful
  <2> QED BY <2>1, <2>2
<1> HIDE DEF t
<1>4. CASE a = <<>>
  <2>1. x = t /\ Rest(a) = a
    BY <1>4 DEF lkbt51_task, t, Rest
  <2> HIDE DEF x
  <2>2. x \in Careful(Rest(a), x.evq, Rest(o), n)
    BY <1>3, <2>1
  <2>3. x \in Tidy(Rest(a), x.evq, Rest(o))
    BY <2>2, CarefulTidy
  <2> QED BY <1>3, <2>1, <2>3 DEF x
<1>5. CASE a # <<>>
  <2>1. x = y /\ Rest(a) = Tail(a)
    BY <1>5 DEF lkbt51_task, t, Rest
  <2>2. y \in Careful(Tail(a), t.evq, Rest(o), n) /\ y.link = t.link
    BY <1>1, <1>3, <1>5, AckCareful
  <2>3. y.evq = t.evq
    BY <2>2, CarefulIs
  <2> HIDE DEF x, y
  <2>4. x \in Tidy(Rest(a), x.evq, Rest(o))
    BY <2>1, <2>2, <2>3, CarefulTidy
  <2> QED BY <1>3, <2>1, <2>2, <2>3, <2>4 DEF x
<1> QED BY <1>4, <1>5

-----------------------------------------------------------------------------
\* An answer that comes at all comes in time, connection events come once, the
\* battery does not fail, and only keyboard and mouse keys are used.
Reliable ==
    /\ PromptAcks /\ ~EventsRepeat /\ ~BatteryFails
    /\ SendTypes \cap {"CONSUMER", "SYSTEM"} = {}

\* Unread answers are few, and the module said so if its link is down.
Expected(m) == /\ Len(m.acks) <= 1
               /\ m.acks # <<>> => m.mode = "up" \/ m.out # <<>>

\* The inductive invariant of a reliable module.
LossInv ==
    /\ Inv
    /\ w \in Tidy(radio.acks, w.evq, radio.out)
    /\ FirstOnly(w.evq, radio.out)
    /\ Expected(radio)
    /\ pc = "pump" => ~Loaded(w.link, radio.acks)

\* A step of the firmware that neither reads nor handles an event.
LEMMA OwnStep ==
    ASSUME LossInv, Inv', w' \in Tidy(radio.acks, w.evq, radio.out), pc' # "pump",
           radio'.acks = radio.acks, radio'.out = radio.out, radio'.mode = radio.mode
    PROVE  LossInv'
<1>1. w'.evq = w.evq
  BY TidyCareful, CarefulIs
<1> QED BY <1>1 DEF LossInv, Expected

\* A request for the last host puts no report on the bus.
LEMMA RequestReports ==
    ASSUME NEW s \in Good, NEW h \in Nat
    PROVE  Reports(wireless_connect_ex(s, h).link) = Reports(s.link)
<1> DEFINE p == [cmd |-> "CONNECT", host |-> h]
           k == Append(s.link, p)
<1>1. s \in WirelessState /\ s.link \in Seq(Packet) /\ p \in Packet /\ p.cmd # "REPORT"
  BY KeptOf, PacketTypes DEF Good, Sound
<1>2. Reports(k) = Reports(s.link) \cup (IF p.cmd = "REPORT" THEN {Len(s.link) + 1} ELSE {})
  BY <1>1, MoreReports
<1>3. wireless_connect_ex(s, h).link \in {s.link, k}
  BY <1>1 DEF wireless_connect_ex, RequestConnection, Transmit, WirelessState
<1> HIDE DEF k
<1>4. Reports(k) = Reports(s.link)
  BY <1>1, <1>2
<1> QED BY <1>3, <1>4

\* The keys of a reliable keyboard.
LEMMA KeysLoss ==
    ASSUME LossInv, Inv', Reliable,
           \/ KeyEvent \/ ExtraKeyEvent \/ MouseEvent \/ HostKeyPress \/ HostKeyRelease
    PROVE  LossInv'
<1> DEFINE a == radio.acks
           q == w.evq
           o == radio.out
           T == Tidy(a, q, o)
<1>1. w \in T /\ w \in Good /\ w \in WirelessState /\ radio \in RadioState
  BY TidyCareful, CarefulIs DEF LossInv, Inv
<1>2. ASSUME NEW p \in BOOLEAN
      PROVE  [w EXCEPT !.pairing_key = p] \in T
  <2> DEFINE x == [w EXCEPT !.pairing_key = p]
  <2>1. x \in Good
    BY <1>1 DEF Good, Sound, Counted, Silenced, Bounded, WirelessState
  <2>2. /\ x.link = w.link /\ x.next = w.next /\ x.rb = w.rb /\ x.evq = w.evq
        /\ x.owed = w.owed /\ x.down = w.down /\ x.state = w.state
    BY <1>1 DEF WirelessState
  <2> HIDE DEF x
  <2>3. x \in T
    BY <1>1, <2>1, <2>2, TidySame
  <2> QED BY <2>3 DEF x
<1>3. \A b : /\ [radio EXCEPT !.budget = b].acks = radio.acks
             /\ [radio EXCEPT !.budget = b].out = radio.out
             /\ [radio EXCEPT !.budget = b].mode = radio.mode
  BY <1>1 DEF RadioState
<1> HIDE DEF T
<1>4. CASE KeyEvent
  <2>1. w' \in T
    BY <1>1, <1>4, KeyboardReportTidy DEF KeyEvent, T
  <2> QED BY <1>4, <2>1, OwnStep DEF KeyEvent, T
<1>5. CASE ExtraKeyEvent
  BY <1>5 DEF ExtraKeyEvent, Reliable
<1>6. CASE MouseEvent
  <2>1. w' \in T
    BY <1>1, <1>6, SendMouseTidy DEF MouseEvent, T
  <2> QED BY <1>3, <1>6, <2>1, OwnStep DEF MouseEvent, T
<1>7. CASE HostKeyPress
  <2>1. PICK h \in Hosts : w' = wireless_connect_ex([w EXCEPT !.pairing_key = TRUE], h)
    BY <1>7 DEF HostKeyPress
  <2> DEFINE x == [w EXCEPT !.pairing_key = TRUE]
  <2>2. x \in T /\ h \in Nat
    BY <1>2, HostIndex
  <2> HIDE DEF x
  <2>3. wireless_connect_ex(x, h) \in T
    BY <2>2, TidyCareful, ConnectExCareful, CarefulTidy DEF T
  <2>4. w' \in T
    BY <2>1, <2>3 DEF x
  <2> QED BY <1>3, <1>7, <2>4, OwnStep DEF HostKeyPress, T
<1>8. CASE HostKeyRelease
  <2>1. w' \in T
    BY <1>2, <1>8 DEF HostKeyRelease
  <2> QED BY <1>8, <2>1, OwnStep DEF HostKeyRelease, T
<1> QED BY <1>4, <1>5, <1>6, <1>7, <1>8

\* A reliable module is answered before time goes on.
LEMMA PromptTime ==
    ASSUME LossInv, Reliable, NEW dt \in LoopTimes, NEW up \in Later(w.uptime, dt),
           MayElapse(dt)
    PROVE  AfterTime(w, dt, up) \in Tidy(radio.acks, w.evq, radio.out)
<1>1. w \in Careful(radio.acks, w.evq, radio.out, w.next) /\ w \in WirelessState
  BY TidyCareful, CarefulIs DEF LossInv
<1>2. dt \in Nat /\ up \in 0 .. 4
  BY <1>1, DomainAssumption, LaterType DEF WirelessState
<1>3. dt = 0 \/ ~Loaded(w.link, radio.acks)
  BY <1>2 DEF MayElapse, Reliable, Loaded, Reports
<1>4. AfterTime(w, dt, up) \in Careful(radio.acks, w.evq, radio.out, w.next)
  BY <1>1, <1>2, <1>3, AfterTimeCareful
<1> QED BY <1>4, CarefulTidy

\* The other steps of the main loop that do not read the module.
LEMMA LoopLoss ==
    ASSUME LossInv, Inv', Reliable,
           \/ ReportStep \/ CommonTask \/ BatteryTask \/ LoopEnd \/ ClockWrap
           \/ EnableTransport
    PROVE  LossInv'
<1> DEFINE a == radio.acks
           q == w.evq
           o == radio.out
           T == Tidy(a, q, o)
<1>1. w \in T /\ w \in Good /\ w \in WirelessState /\ radio \in RadioState
  BY TidyCareful, CarefulIs DEF LossInv, Inv
<1>2. ASSUME NEW x \in Good, x.link = w.link, x.next = w.next, x.rb = w.rb,
             x.evq = w.evq, x.owed = w.owed, x.down = w.down, x.state = w.state
      PROVE  x \in T
  BY <1>1, <1>2, TidySame
<1> HIDE DEF T
<1>3. CASE ReportStep
  <2>1. w' \in T
    BY <1>1, <1>3, TidyCareful, ReportTaskCareful, CarefulTidy DEF ReportStep, T
  <2> QED BY <1>3, <2>1, OwnStep DEF ReportStep, T
<1>4. CASE CommonTask
  <2> DEFINE x == [w EXCEPT !.pairing_key = FALSE]
  <2>1. x \in Good
    BY <1>1 DEF Good, Sound, Counted, Silenced, Bounded, WirelessState
  <2>2. /\ x.link = w.link /\ x.next = w.next /\ x.rb = w.rb /\ x.evq = w.evq
        /\ x.owed = w.owed /\ x.down = w.down /\ x.state = w.state
    BY <1>1 DEF WirelessState
  <2> HIDE DEF x
  <2>3. x \in T
    BY <1>2, <2>1, <2>2
  <2>4. wireless_pairing_ex(x, 0) \in T
    BY <2>3, TidyCareful, PairingExCareful, CarefulTidy DEF T
  <2>5. w' \in T
    BY <1>1, <1>4, <2>4 DEF CommonTask, x
  <2> QED BY <1>4, <2>5, OwnStep DEF CommonTask, T
<1>5. CASE BatteryTask
  BY <1>5 DEF BatteryTask, Reliable
<1>6. CASE LoopEnd
  <2>1. PICK dt \in LoopTimes :
           MayElapse(dt) /\ \E up \in Later(w.uptime, dt) : w' = AfterTime(w, dt, up)
    BY <1>6 DEF LoopEnd
  <2>2. PICK up \in Later(w.uptime, dt) : w' = AfterTime(w, dt, up)
    BY <2>1
  <2>3. w' \in T
    BY <2>1, <2>2, PromptTime DEF T
  <2> QED BY <1>6, <2>3, OwnStep DEF LoopEnd, T
<1>7. CASE ClockWrap
  <2> DEFINE x == [w EXCEPT !.uptime = 0]
  <2>1. x \in Good
    BY <1>7 DEF Inv, ClockWrap
  <2>2. /\ x.link = w.link /\ x.next = w.next /\ x.rb = w.rb /\ x.evq = w.evq
        /\ x.owed = w.owed /\ x.down = w.down /\ x.state = w.state
    BY <1>1 DEF WirelessState
  <2> HIDE DEF x
  <2>3. w' \in T
    BY <1>2, <1>7, <2>1, <2>2 DEF ClockWrap, x
  <2>4. radio'.acks = radio.acks /\ radio'.out = radio.out /\ radio'.mode = radio.mode
    BY <1>1, <1>7 DEF ClockWrap, RadioState
  <2> QED BY <1>7, <2>3, <2>4, OwnStep DEF ClockWrap, T
<1>8. CASE EnableTransport
  <2> DEFINE x == wireless_connect_ex(w, LastHost)
  <2>1. LastHost \in Nat /\ AgeCap \in Nat /\ 3 \in 0 .. 4
    BY AgeAssumption DEF LastHost
  <2>2. x \in T
    BY <1>1, <2>1, TidyCareful, ConnectExCareful, CarefulTidy DEF T
  <2>3. ~Loaded(w.link, a)
    BY <1>8 DEF LossInv, EnableTransport
  <2>4. ~Loaded(x.link, a)
    BY <1>1, <2>1, <2>3, RequestReports DEF Loaded
  <2> HIDE DEF x
  <2>5. x \in Careful(a, q, o, x.next)
    BY <2>2, TidyCareful DEF T
  <2>6. AfterTime(x, AgeCap, 3) \in Careful(a, q, o, x.next)
    BY <2>1, <2>4, <2>5, AfterTimeCareful
  <2>7. AfterTime(x, AgeCap, 3) \in T
    BY <2>6, CarefulTidy DEF T
  <2>8. w' \in T
    BY <1>8, <2>7 DEF EnableTransport, x
  <2> QED BY <1>8, <2>8, OwnStep DEF EnableTransport, T
<1> QED BY <1>3, <1>4, <1>5, <1>6, <1>7, <1>8

\* Of one answer at most, none is left after a read.
LEMMA LastAnswer ==
    ASSUME NEW m \in RadioState, Expected(m)
    PROVE  Rest(m.acks) = <<>>
<1>1. m.acks \in Seq(AckCodes) /\ Len(m.acks) <= 1
  BY DEF RadioState, Expected
<1>2. m.acks # <<>> => Tail(m.acks) = <<>>
  BY <1>1
<1> QED BY <1>2 DEF Rest

\* The steps that read the module.
LEMMA ReadLoss ==
    ASSUME LossInv, Inv', Reliable, TransportTask \/ SendStringTask
    PROVE  LossInv'
<1>1. /\ w \in Tidy(radio.acks, w.evq, radio.out) /\ FirstOnly(w.evq, radio.out)
      /\ Expected(radio) /\ radio \in RadioState
  BY DEF LossInv, Inv
<1>2. Rest(radio.acks) = <<>>
  BY <1>1, LastAnswer
<1>3. /\ AfterRead(radio, FALSE).acks = Rest(radio.acks)
      /\ AfterRead(radio, FALSE).out = Rest(radio.out)
      /\ AfterRead(radio, FALSE) \in RadioState
  BY <1>1, AfterReadType DEF AfterRead, RadioState
<1>4. CASE TransportTask
  <2> DEFINE x == lkbt51_task(w, radio)
             m == AfterRead(radio, FALSE)
  <2>1. w' = x /\ radio' = [m EXCEPT !.budget = m.budget]
    BY <1>4 DEF TransportTask, Reliable, MayRepeat
  <2>2. /\ x \in Tidy(Rest(radio.acks), x.evq, Rest(radio.out))
        /\ FirstOnly(x.evq, Rest(radio.out)) /\ x.link = w.link
    BY <1>1, DriverTaskTidy
  <2> HIDE DEF x, m
  <2>3. radio'.acks = Rest(radio.acks) /\ radio'.out = Rest(radio.out)
    BY <1>3, <2>1 DEF m, RadioState
  <2>4. w' \in Tidy(radio'.acks, w'.evq, radio'.out) /\ FirstOnly(w'.evq, radio'.out)
    BY <2>1, <2>2, <2>3
  <2>5. Expected(radio')
    BY <1>2, <2>3 DEF Expected
  <2>6. pc' = "pump" => pc = "pump"
    BY <1>4 DEF TransportTask
  <2>7. pc' = "pump" => ~Loaded(w'.link, radio'.acks)
    BY <1>2, <2>1, <2>2, <2>3, <2>6 DEF LossInv, Loaded
  <2> QED BY <2>4, <2>5, <2>7 DEF LossInv
<1>5. CASE SendStringTask
  <2>1. PICK dt \in LoopTimes : /\ MayElapse(dt)
           /\ \E up \in Later(w.uptime, dt) :
                 w' = ReportTask(lkbt51_task(AfterTime(w, dt, up), radio))
    BY <1>5 DEF SendStringTask
  <2>2. PICK up \in Later(w.uptime, dt) :
           w' = ReportTask(lkbt51_task(AfterTime(w, dt, up), radio))
    BY <2>1
  <2> DEFINE s == AfterTime(w, dt, up)
             x == lkbt51_task(s, radio)
             z == <<>>
  <2>3. s \in Tidy(radio.acks, w.evq, radio.out)
    BY <2>1, <2>2, PromptTime
  <2> HIDE DEF s
  <2>4. /\ x \in Tidy(Rest(radio.acks), x.evq, Rest(radio.out))
        /\ FirstOnly(x.evq, Rest(radio.out))
    BY <1>1, <2>3, DriverTaskTidy
  <2> HIDE DEF x
  <2>5. ReportTask(x) \in Tidy(Rest(radio.acks), x.evq, Rest(radio.out))
    BY <2>4, TidyCareful, ReportTaskCareful, CarefulTidy
  <2>6. w' = ReportTask(x)
    BY <2>2 DEF x, s
  <2>7. w'.evq = x.evq
    BY <2>5, <2>6, TidyCareful, CarefulIs
  <2>8. radio'.acks = Rest(radio.acks) /\ radio'.out = Rest(radio.out) /\ pc' # "pump"
    BY <1>3, <1>5 DEF SendStringTask
  <2>9. Expected(radio')
    BY <1>2, <2>8 DEF Expected
  <2> QED BY <2>4, <2>5, <2>6, <2>7, <2>8, <2>9 DEF LossInv
<1> QED BY <1>4, <1>5

\* The step that handles an event.
LEMMA EventLoss ==
    ASSUME LossInv, Inv', EventStep
    PROVE  LossInv'
<1> DEFINE a == radio.acks
           o == radio.out
           e == Head(w.evq)
           q == Tail(w.evq)
           s == [w EXCEPT !.evq = q]
<1>1. /\ w \in Careful(a, w.evq, o, w.next) /\ w \in Good /\ w \in WirelessState
      /\ Numbered(w.next, w) /\ KeysOnly(w) /\ Owing(a, w) /\ Settled(a, w.evq, o, w)
      /\ OneOut(w.link, a, w.rb.kb_rpt) /\ FirstOnly(w.evq, o)
  BY TidyCareful, CarefulIs DEF LossInv
<1>2. w.evq \in Seq(Event) /\ w.evq # <<>> /\ Len(w.evq) < EventQueueSize
  BY <1>1 DEF Good, Sound, Bounded, WirelessState, Events, EventStep, NoEvents
<1>3. e \in Event /\ q \in Seq(Event) /\ Len(q) < EventQueueSize
  BY <1>2, EventQueueSizeAssumption
<1>4. ~Posted(q)
  BY <1>1, <1>2, TailLeading DEF FirstOnly
<1>5. e.type = "CONNECTED" => Posted(w.evq)
  <2>1. 1 \in 1 .. Len(w.evq) /\ e = w.evq[1]
    <3>1. Len(w.evq) \in Nat /\ Len(w.evq) > 0
      BY <1>2
    <3> QED BY <1>2, <3>1
  <2> QED BY <2>1 DEF Posted
<1> HIDE DEF q, e
<1>6. ~Announced(q, o) /\ FirstOnly(q, o)
  BY <1>1, <1>2, <1>4 DEF Announced, FirstOnly, Leading, Posted
<1>7. s \in Good
  BY <1>1, <1>3 DEF Good, Sound, Counted, Silenced, Bounded, WirelessState, Events
<1>8. /\ s.link = w.link /\ s.next = w.next /\ s.rb = w.rb /\ s.evq = q
      /\ s.owed = w.owed /\ s.down = w.down /\ s.state = w.state
  BY <1>1 DEF WirelessState
<1> HIDE DEF s
<1>9. Numbered(s.next, s) /\ KeysOnly(s) /\ Owing(a, s) /\ OneOut(s.link, a, s.rb.kb_rpt)
  BY <1>1, <1>8 DEF Numbered, KeysOnly, Owing
<1>10. Settled(a, q, o, s)
  BY <1>1, <1>6, <1>8 DEF Settled
<1>11. s \in Tidy(a, q, o)
  BY <1>7, <1>8, <1>9, <1>10 DEF Tidy, Careful
<1>12. e.type = "CONNECTED" /\ Loaded(s.link, a) => s.rb.age = 0
  <2>1. s.rb.age \in Nat
    BY <1>7, BufferOf, GoodIsSound, AgeAssumption DEF Buffer, Ages
  <2> QED BY <1>1, <1>5, <1>8, <2>1 DEF Settled, Announced
<1>13. w' \in Tidy(a, q, o)
  BY <1>3, <1>6, <1>11, <1>12, HandleEventTidy DEF EventStep, s, e, q
<1>14. w'.evq = q
  BY <1>13, TidyCareful, CarefulIs
<1>15. radio' = radio /\ pc' # "pump"
  BY DEF EventStep
<1> QED BY <1>6, <1>13, <1>14, <1>15 DEF LossInv

\* The module has more to say, but no connection.
More(o, p) ==
    /\ Len(o) <= Len(p) /\ \A i \in 1 .. Len(o) : p[i] = o[i]
    /\ \A i \in 1 .. Len(p) : i > Len(o) => p[i].conn # "CONNECTED"

\* A frame or two after the others.
LEMMA MoreSaid ==
    ASSUME NEW o \in Seq(Frame), NEW f \in Frame, NEW g \in Frame,
           f.conn # "CONNECTED", g.conn # "CONNECTED"
    PROVE  /\ More(o, o) /\ More(o, Append(o, f)) /\ Append(o, f) # <<>>
           /\ More(o, o \o <<f>>) /\ o \o <<f>> # <<>>
           /\ More(o, o \o <<f, g>>) /\ o \o <<f, g>> # <<>>
           /\ More(o, Append(Append(o, f), g)) /\ Append(Append(o, f), g) # <<>>
<1>1. Len(o) \in Nat
  OBVIOUS
<1>2. /\ Len(Append(o, f)) = Len(o) + 1 /\ Append(o, f)[Len(o) + 1] = f
      /\ \A i \in 1 .. Len(o) : Append(o, f)[i] = o[i]
  OBVIOUS
<1>3. o \o <<f>> = Append(o, f)
  OBVIOUS
<1>4. /\ Len(o \o <<f, g>>) = Len(o) + 2 /\ \A i \in 1 .. Len(o) : (o \o <<f, g>>)[i] = o[i]
      /\ (o \o <<f, g>>)[Len(o) + 1] = f /\ (o \o <<f, g>>)[Len(o) + 2] = g
  OBVIOUS
<1>5. ASSUME NEW p, Len(p) = Len(o) + 1, p[Len(o) + 1] = f, \A i \in 1 .. Len(o) : p[i] = o[i]
      PROVE  More(o, p) /\ p # <<>>
  <2>1. \A i \in 1 .. Len(p) : i > Len(o) => i = Len(o) + 1
    BY <1>1, <1>5
  <2>2. Len(o) <= Len(p) /\ Len(p) # 0
    BY <1>1, <1>5
  <2> QED BY <1>5, <2>1, <2>2 DEF More
<1>6. ASSUME NEW p, Len(p) = Len(o) + 2, p[Len(o) + 1] = f, p[Len(o) + 2] = g,
             \A i \in 1 .. Len(o) : p[i] = o[i]
      PROVE  More(o, p) /\ p # <<>>
  <2>1. \A i \in 1 .. Len(p) : i > Len(o) => i = Len(o) + 1 \/ i = Len(o) + 2
    BY <1>1, <1>6
  <2>2. Len(o) <= Len(p) /\ Len(p) # 0
    BY <1>1, <1>6
  <2> QED BY <1>6, <2>1, <2>2 DEF More
<1>7. More(o, o)
  BY <1>1 DEF More
<1>8. /\ Len(Append(Append(o, f), g)) = Len(o) + 2
      /\ \A i \in 1 .. Len(o) : Append(Append(o, f), g)[i] = o[i]
      /\ Append(Append(o, f), g)[Len(o) + 1] = f /\ Append(Append(o, f), g)[Len(o) + 2] = g
  OBVIOUS
<1> QED BY <1>2, <1>3, <1>4, <1>5, <1>6, <1>7, <1>8

\* Nothing more is announced by it.
LEMMA MoreFirst ==
    ASSUME NEW q, NEW o \in Seq(Frame), NEW p \in Seq(Frame), More(o, p), FirstOnly(q, o)
    PROVE  FirstOnly(q, p) /\ (Announced(q, p) => Announced(q, o))
<1>1. Len(o) \in Nat /\ Len(p) \in Nat
  OBVIOUS
<1>2. ASSUME NEW i \in 1 .. Len(p), p[i].conn = "CONNECTED"
      PROVE  i \in 1 .. Len(o) /\ o[i] = p[i]
  BY <1>1, <1>2 DEF More
<1> QED BY <1>2 DEF FirstOnly, Announced

\* Frames that announce nothing new keep a state tidy.
LEMMA TidyMore ==
    ASSUME NEW a, NEW q, NEW o, NEW p, NEW s \in Tidy(a, q, o),
           Announced(q, p) => Announced(q, o)
    PROVE  s \in Tidy(a, q, p)
  BY DEF Tidy, Careful, Settled

\* A packet is taken off the bus.
LEMMA TakeTidy ==
    ASSUME NEW a, NEW q, NEW o, NEW s \in Tidy(a, q, o), s.link # <<>>,
           NEW x \in Good, x.link = Tail(s.link), x.next = s.next, x.rb = s.rb,
           x.evq = s.evq, x.owed = s.owed, x.down = s.down, x.state = s.state
    PROVE  x \in Tidy(a, q, o) /\ (Loaded(x.link, a) => Loaded(s.link, a))
<1> DEFINE l == s.link
           k == Tail(l)
           n == s.next
<1>1. /\ s \in Careful(a, q, o, n) /\ Numbered(n, s) /\ KeysOnly(s) /\ Owing(a, s)
      /\ Settled(a, q, o, s) /\ OneOut(l, a, s.rb.kb_rpt) /\ s.evq = q /\ l \in Seq(Packet)
  BY TidyCareful, CarefulIs
<1>2. /\ Len(l) \in Nat /\ Len(k) = Len(l) - 1
      /\ \A i \in 1 .. Len(l) - 1 : k[i] = l[i + 1]
  BY <1>1
<1> HIDE DEF k, l, n
<1>3. ASSUME NEW i \in Reports(k)
      PROVE  i \in Int /\ i + 1 \in Reports(l) /\ k[i] = l[i + 1]
  <2>1. i \in 1 .. Len(k) /\ k[i].cmd = "REPORT"
    BY DEF Reports
  <2>2. i + 1 \in 1 .. Len(l) /\ i \in 1 .. Len(l) - 1 /\ i \in Int
    BY <1>2, <2>1
  <2> QED BY <1>2, <2>1, <2>2 DEF Reports
<1>4. \A i, j \in Reports(k) : i = j
  <2> SUFFICES ASSUME NEW i \in Reports(k), NEW j \in Reports(k) PROVE i = j
    OBVIOUS
  <2>1. i \in Int /\ j \in Int /\ i + 1 = j + 1
    BY <1>1, <1>3 DEF OneOut
  <2> QED BY <2>1
<1>5. OneOut(k, a, s.rb.kb_rpt) /\ (Loaded(k, a) => Loaded(l, a))
  BY <1>1, <1>3, <1>4 DEF OneOut, Loaded
<1>6. /\ Numbered(n, x) /\ KeysOnly(x) /\ Owing(a, x) /\ Settled(a, q, o, x)
      /\ OneOut(x.link, a, x.rb.kb_rpt)
  BY <1>1, <1>5 DEF Numbered, KeysOnly, Owing, Settled, k, l
<1>7. x \in Careful(a, q, o, n)
  BY <1>1, <1>6 DEF Careful
<1> QED BY <1>5, <1>7, CarefulTidy DEF k, l

\* A step of the module that says more, and answers nothing.
LEMMA SaidStep ==
    ASSUME LossInv, Inv', radio'.acks = radio.acks, More(radio.out, radio'.out),
           radio'.mode = radio.mode \/ radio'.out # <<>>,
           w' \in Tidy(radio.acks, w.evq, radio.out),
           Loaded(w'.link, radio.acks) => Loaded(w.link, radio.acks), pc' = pc
    PROVE  LossInv'
<1>1. w'.evq = w.evq
  BY TidyCareful, CarefulIs
<1>2. radio.out \in Seq(Frame) /\ radio'.out \in Seq(Frame) /\ FirstOnly(w.evq, radio.out)
  BY DEF LossInv, Inv, RadioState
<1>3. /\ FirstOnly(w.evq, radio'.out)
      /\ Announced(w.evq, radio'.out) => Announced(w.evq, radio.out)
  BY <1>2, MoreFirst
<1>4. w' \in Tidy(radio.acks, w.evq, radio'.out)
  BY <1>3, TidyMore
<1>5. radio'.out = <<>> => radio.out = <<>>
  BY <1>2 DEF More
<1>6. Expected(radio')
  BY <1>5 DEF LossInv, Expected
<1> QED BY <1>1, <1>3, <1>4, <1>6 DEF LossInv

\* The module's connection frames, and what they are not.
LEMMA SayIs ==
    ASSUME NEW conn, NEW h
    PROVE  Say(conn, h).conn = conn /\ [Say(conn, h) EXCEPT !.reset = TRUE].conn = conn
  BY DEF Say, NoFrame

\* The module's commands.
LEMMA CommandLoss ==
    ASSUME LossInv, Inv', RadioCommand
    PROVE  LossInv'
<1> DEFINE m == radio
           p == Head(w.link)
           x == [w EXCEPT !.link = Tail(w.link)]
<1>1. /\ w.link # <<>> /\ w' = x /\ pc' = pc
      /\ radio' \in {RadioConnect(m, p.host), RadioPairing(m, p.host),
                     RadioDisconnect(m), RadioParam(m)}
  BY DEF RadioCommand
<1>2. m \in RadioState /\ w \in WirelessState /\ w \in Tidy(m.acks, w.evq, m.out)
      /\ m.out \in Seq(Frame) /\ m.target \in Hosts
  BY TidyCareful, CarefulIs DEF LossInv, Inv, RadioState
<1>3. x \in Tidy(m.acks, w.evq, m.out) /\ (Loaded(x.link, m.acks) => Loaded(w.link, m.acks))
  <2>1. x \in Good
    BY <1>1 DEF Inv
  <2>2. /\ x.link = Tail(w.link) /\ x.next = w.next /\ x.rb = w.rb
        /\ x.evq = w.evq /\ x.owed = w.owed /\ x.down = w.down /\ x.state = w.state
    BY <1>2 DEF WirelessState
  <2> HIDE DEF x
  <2> QED BY <1>1, <1>2, <2>1, <2>2, TakeTidy
<1> HIDE DEF x
<1>4. ASSUME NEW c \in ConnectionEvents, NEW t \in Hosts
      PROVE  Say(c, t) \in Frame /\ Say(c, t).conn = c
  BY HostIndex, SayFrame, SayIs
<1>5. ASSUME NEW c \in {"RECONNECTING", "DISCOVERABLE"}, NEW t \in Hosts
      PROVE  /\ More(m.out, m.out \o LinkDown(m) \o <<Say(c, t)>>)
             /\ m.out \o LinkDown(m) \o <<Say(c, t)>> # <<>>
  <2> DEFINE f == Say("DISCONNECTED", m.target)
             g == Say(c, t)
  <2>1. f \in Frame /\ g \in Frame /\ f.conn # "CONNECTED" /\ g.conn # "CONNECTED"
    <3>1. "DISCONNECTED" \in ConnectionEvents /\ c \in ConnectionEvents /\ c # "CONNECTED"
      BY DEF ConnectionEvents
    <3>2. f \in Frame /\ f.conn = "DISCONNECTED"
      BY <1>2, <1>4, <3>1
    <3>3. g \in Frame /\ g.conn = c
      BY <1>4, <3>1
    <3> HIDE DEF f, g
    <3> QED BY <3>1, <3>2, <3>3
  <2>2. LinkDown(m) \in {<<>>, <<f>>}
    BY DEF LinkDown
  <2> HIDE DEF f, g
  <2>3. /\ m.out \o <<f>> \o <<g>> = Append(Append(m.out, f), g)
        /\ m.out \o <<>> \o <<g>> = m.out \o <<g>>
    <3>1. \A o \in Seq(Frame), h \in Frame : o \o <<h>> = Append(o, h)
      OBVIOUS
    <3>2. m.out \o <<f>> = Append(m.out, f) /\ Append(m.out, f) \in Seq(Frame)
      BY <1>2, <2>1
    <3>3. m.out \o <<>> = m.out
      BY <1>2
    <3> QED BY <2>1, <3>1, <3>2, <3>3
  <2>4. /\ More(m.out, m.out \o <<g>>) /\ m.out \o <<g>> # <<>>
        /\ More(m.out, Append(Append(m.out, f), g)) /\ Append(Append(m.out, f), g) # <<>>
    BY <1>2, <2>1, MoreSaid
  <2>5. CASE LinkDown(m) = <<>>
    BY <2>3, <2>4, <2>5 DEF g
  <2>6. CASE LinkDown(m) = <<f>>
    BY <2>3, <2>4, <2>6 DEF g
  <2> QED BY <2>2, <2>5, <2>6
<1>6. More(m.out, m.out)
  BY <1>2 DEF More
<1>7. /\ radio'.acks = m.acks /\ More(m.out, radio'.out)
      /\ radio'.mode = m.mode \/ radio'.out # <<>>
  <2>1. CASE radio' = RadioConnect(m, p.host)
    <3>1. PICK t \in Hosts : t = IF p.host \in Hosts THEN p.host ELSE m.target
      BY <1>2
    <3> DEFINE u == m.out \o LinkDown(m) \o <<Say("RECONNECTING", t)>>
    <3>2. radio' = m \/ radio' = [m EXCEPT !.mode = "linking", !.target = t, !.leds = 0,
                                           !.out = u]
      BY <2>1, <3>1 DEF RadioConnect
    <3>3. More(m.out, u) /\ u # <<>>
      BY <1>5
    <3> HIDE DEF u
    <3> QED BY <1>2, <1>6, <3>2, <3>3 DEF RadioState
  <2>2. CASE radio' = RadioPairing(m, p.host)
    <3>1. PICK t \in Hosts : t = IF p.host \in Hosts THEN p.host ELSE m.target
      BY <1>2
    <3> DEFINE u == m.out \o LinkDown(m) \o <<Say("DISCOVERABLE", t)>>
    <3>2. radio' = [m EXCEPT !.mode = "pairing", !.target = t, !.leds = 0, !.out = u]
      BY <2>2, <3>1 DEF RadioPairing
    <3>3. More(m.out, u) /\ u # <<>>
      BY <1>5
    <3> HIDE DEF u
    <3> QED BY <1>2, <3>2, <3>3 DEF RadioState
  <2>3. CASE radio' = RadioDisconnect(m)
    <3> DEFINE f == Say("DISCONNECTED", m.target)
               u == IF m.mode = "idle" THEN m.out ELSE Append(m.out, f)
    <3>1. f \in Frame /\ f.conn # "CONNECTED"
      <4>1. "DISCONNECTED" \in ConnectionEvents
        BY DEF ConnectionEvents
      <4>2. f \in Frame /\ f.conn = "DISCONNECTED"
        BY <1>2, <1>4, <4>1
      <4> HIDE DEF f
      <4> QED BY <4>2
    <3>2. radio' = [m EXCEPT !.mode = "idle", !.leds = 0, !.out = u]
      BY <2>3 DEF RadioDisconnect
    <3> HIDE DEF f
    <3>3. More(m.out, Append(m.out, f)) /\ Append(m.out, f) # <<>>
      BY <1>2, <3>1, MoreSaid
    <3>4. More(m.out, u) /\ (m.mode = "idle" \/ u # <<>>)
      BY <1>6, <3>3
    <3> HIDE DEF u
    <3> QED BY <1>2, <3>2, <3>4 DEF RadioState
  <2>4. CASE radio' = RadioParam(m)
    BY <1>2, <1>6, <2>4 DEF RadioParam, RadioState
  <2> QED BY <1>1, <2>1, <2>2, <2>3, <2>4
<1> QED BY <1>1, <1>3, <1>7, SaidStep

\* Of a report that is answered or ignored nothing else is on the bus.
LEMMA ReportLoss ==
    ASSUME LossInv, Inv', Reliable, RadioAccept \/ RadioRefuse \/ RadioIgnore
    PROVE  LossInv'
<1> DEFINE a == radio.acks
           q == w.evq
           o == radio.out
           r == w.rb.kb_rpt
           l == w.link
           k == Tail(l)
           n == w.next
<1>1. /\ w \in Careful(a, q, o, n) /\ w \in Good /\ w \in WirelessState
      /\ Numbered(n, w) /\ KeysOnly(w) /\ Owing(a, w) /\ Settled(a, q, o, w)
      /\ OneOut(l, a, r) /\ FirstOnly(q, o) /\ radio \in RadioState /\ l \in Seq(Packet)
      /\ w \in Tidy(a, q, o) /\ a \in Seq(AckCodes)
  BY TidyCareful, CarefulIs DEF LossInv, Inv, RadioState
<1>2. l # <<>> /\ l[1].cmd = "REPORT" /\ Head(l) = l[1] /\ pc' = pc
  BY DEF RadioAccept, RadioRefuse, RadioIgnore
<1>3. 1 \in Reports(l)
  <2>1. Len(l) \in Nat /\ Len(l) > 0
    BY <1>1, <1>2
  <2> QED BY <1>2, <2>1 DEF Reports
<1>4. l[1].rpt = r /\ a = <<>> /\ Loaded(l, a) /\ \A i \in Reports(l) : i = 1
  BY <1>1, <1>3 DEF OneOut, Loaded
<1>5. Reports(k) = {}
  <2>1. /\ Len(l) \in Nat /\ Len(k) = Len(l) - 1
        /\ \A i \in 1 .. Len(l) - 1 : k[i] = l[i + 1]
    BY <1>1, <1>2
  <2> HIDE DEF k, l
  <2>2. ASSUME NEW i \in Reports(k) PROVE FALSE
    <3>1. i \in 1 .. Len(k) /\ k[i].cmd = "REPORT"
      BY DEF Reports
    <3>2. i + 1 \in 1 .. Len(l) /\ i \in 1 .. Len(l) - 1 /\ i + 1 # 1
      BY <2>1, <3>1
    <3>3. i + 1 \in Reports(l)
      BY <2>1, <3>1, <3>2 DEF Reports
    <3> QED BY <1>4, <3>2, <3>3
  <2> QED BY <2>2
<1>6. pc # "pump"
  BY <1>4 DEF LossInv
<1>7. w'.link = k /\ w'.rb = w.rb /\ w'.next = w.next /\ w'.evq = w.evq
      /\ w'.down = w.down /\ w'.state = w.state /\ w' \in Good
  BY <1>1 DEF RadioAccept, RadioRefuse, RadioIgnore, WirelessState, Inv
<1>8. /\ w'.owed \subseteq w.owed
      /\ RadioAccept => r.id \notin w'.owed
  <2>1. CASE RadioAccept
    <3>1. w' = [w EXCEPT !.link = k, !.owed = w.owed \ {r.id}]
      BY <1>2, <1>4, <2>1 DEF RadioAccept
    <3>2. w'.owed = w.owed \ {r.id}
      BY <1>1, <3>1 DEF WirelessState
    <3> QED BY <3>2
  <2>2. CASE ~RadioAccept
    <3>1. w' = [w EXCEPT !.link = k]
      BY <2>2 DEF RadioRefuse, RadioIgnore
    <3>2. w'.owed = w.owed
      BY <1>1, <3>1 DEF WirelessState
    <3> QED BY <2>2, <3>2
  <2> QED BY <2>1, <2>2
<1>9. /\ radio'.out = o /\ radio'.mode = radio.mode
      /\ radio'.acks = <<>> \/ \E c \in AckCodes : radio'.acks = <<c>>
      /\ radio'.acks # <<>> => radio.mode = "up"
      /\ Answered(radio'.acks) => RadioAccept
  <2>1. \A c : Append(a, c) = <<c>>
    BY <1>4
  <2>2. CASE RadioAccept
    <3>1. PICK c \in {"SUCCESS", "FIFO_HALF_WARNING"} :
             radio' = [radio EXCEPT !.acks = Append(a, c)]
      BY <2>2 DEF RadioAccept
    <3>2. radio'.acks = <<c>> /\ radio'.out = o /\ radio'.mode = radio.mode /\ c \in AckCodes
      BY <1>1, <2>1, <3>1 DEF RadioState, AckCodes
    <3> QED BY <2>2, <3>2 DEF RadioAccept
  <2>3. CASE RadioRefuse
    <3>1. PICK c \in {"FIFO_FULL_ERROR", "CHECKSUM_ERROR"} :
             radio' = [radio EXCEPT !.acks = Append(a, c)]
      BY <2>3 DEF RadioRefuse
    <3>2. radio'.acks = <<c>> /\ radio'.out = o /\ radio'.mode = radio.mode /\ c \in AckCodes
      BY <1>1, <2>1, <3>1 DEF RadioState, AckCodes
    <3>3. ~Answered(<<c>>)
      BY DEF Answered
    <3> QED BY <2>3, <3>2, <3>3 DEF RadioRefuse
  <2>4. CASE RadioIgnore
    BY <1>4, <2>4 DEF RadioIgnore, Answered
  <2> QED BY <2>2, <2>3, <2>4
<1> HIDE DEF k, l, r, n
<1>10. Owing(radio'.acks, w')
  BY <1>1, <1>7, <1>8, <1>9 DEF Owing, r
<1>11. Numbered(n, w') /\ KeysOnly(w') /\ OneOut(w'.link, radio'.acks, w'.rb.kb_rpt)
  BY <1>1, <1>5, <1>7 DEF Numbered, KeysOnly, OneOut
<1>12. Settled(radio'.acks, q, o, w')
  BY <1>1, <1>4, <1>7 DEF Settled, l
<1>13. w' \in Careful(radio'.acks, q, o, n)
  BY <1>7, <1>10, <1>11, <1>12 DEF Careful
<1>14. w' \in Tidy(radio'.acks, w'.evq, radio'.out)
  BY <1>7, <1>9, <1>13, CarefulTidy
<1>15. Expected(radio')
  <2>1. Len(radio'.acks) <= 1
    <3>1. CASE radio'.acks = <<>>
      BY <3>1
    <3>2. CASE radio'.acks # <<>>
      <4>1. PICK c \in AckCodes : radio'.acks = <<c>>
        BY <1>9, <3>2
      <4> QED BY <4>1
    <3> QED BY <3>1, <3>2
  <2> QED BY <1>9, <2>1 DEF Expected
<1> QED BY <1>1, <1>2, <1>6, <1>7, <1>9, <1>14, <1>15 DEF LossInv

\* A link comes up when all is read and answered.
LEMMA LinkUpLoss ==
    ASSUME LossInv, Inv', RadioLinkUp
    PROVE  LossInv'
<1>1. PICK led \in {-1} \cup LedStates, raw \in {-1} \cup RawIntervals :
         radio' = [radio EXCEPT !.mode = "up",
                                !.leds = IF led = -1 THEN 0 ELSE led,
                                !.out = <<[Say("CONNECTED", radio.target)
                                             EXCEPT !.led = led, !.raw = raw]>>]
  BY DEF RadioLinkUp
<1> DEFINE f == [Say("CONNECTED", radio.target) EXCEPT !.led = led, !.raw = raw]
<1>2. f.reset = FALSE
  BY DEF Say, NoFrame
<1>3. /\ w' = w /\ pc' = pc /\ w.link = <<>> /\ w.evq = <<>> /\ radio \in RadioState
      /\ radio.acks = <<>> /\ w \in Tidy(radio.acks, w.evq, radio.out)
  BY DEF RadioLinkUp, NoEvents, LossInv, Expected, Inv
<1> HIDE DEF f
<1>4. radio'.acks = radio.acks /\ radio'.out = <<f>> /\ radio'.mode = "up"
  BY <1>1, <1>3 DEF RadioState, f
<1>5. ~Loaded(w.link, radio.acks)
  BY <1>3 DEF Loaded, Reports
<1>6. w \in Tidy(radio.acks, w.evq, <<f>>)
  BY <1>3, <1>5 DEF Tidy, Careful, Settled
<1>7. FirstOnly(w.evq, <<f>>)
  BY <1>2, <1>3 DEF FirstOnly, Leading
<1>8. Expected(radio')
  BY <1>3, <1>4 DEF Expected
<1> QED BY <1>3, <1>4, <1>5, <1>6, <1>7, <1>8 DEF LossInv

\* The things the module starts by itself announce no connection.
LEMMA ModuleLoss ==
    ASSUME LossInv, Inv', \/ RadioLinkLost \/ RadioPairingTimeout \/ RadioPinCode
                          \/ RadioReset \/ RadioLeds
    PROVE  LossInv'
<1>1. /\ radio \in RadioState /\ radio.target \in Nat /\ radio.out \in Seq(Frame)
      /\ w' = w /\ pc' = pc /\ w \in Tidy(radio.acks, w.evq, radio.out)
  BY HostIndex DEF LossInv, Inv, RadioState, RadioLinkLost, RadioPairingTimeout,
     RadioPinCode, RadioReset, RadioLeds
<1>2. ASSUME NEW c \in ConnectionEvents \ {"CONNECTED"},
             radio'.acks = radio.acks, radio'.out = Append(radio.out, Say(c, radio.target))
      PROVE  LossInv'
  <2> DEFINE f == Say(c, radio.target)
  <2>1. f \in Frame /\ f.conn # "CONNECTED"
    BY <1>1, SayFrame, SayIs
  <2> HIDE DEF f
  <2>2. More(radio.out, Append(radio.out, f)) /\ Append(radio.out, f) # <<>>
    BY <1>1, <2>1, MoreSaid
  <2> QED BY <1>1, <1>2, <2>2, SaidStep DEF f
<1>3. CASE RadioLinkLost
  <2>1. /\ radio'.acks = radio.acks
        /\ radio'.out = Append(radio.out, Say("DISCONNECTED", radio.target))
    BY <1>1, <1>3 DEF RadioLinkLost, RadioState
  <2>2. "DISCONNECTED" \in ConnectionEvents \ {"CONNECTED"}
    BY DEF ConnectionEvents
  <2> QED BY <1>2, <2>1, <2>2
<1>4. CASE RadioPairingTimeout
  <2>1. /\ radio'.acks = radio.acks
        /\ radio'.out = Append(radio.out, Say("SLEEP", radio.target))
    BY <1>1, <1>4 DEF RadioPairingTimeout, RadioState
  <2>2. "SLEEP" \in ConnectionEvents \ {"CONNECTED"}
    BY DEF ConnectionEvents
  <2> QED BY <1>2, <2>1, <2>2
<1>5. CASE RadioPinCode
  <2>1. PICK c \in {"BT_PINCODE_ENTRY", "EXIT_BT_PINCODE_ENTRY"} :
          radio' = [radio EXCEPT !.budget = radio.budget - 1,
                                 !.out = Append(radio.out, Say(c, radio.target))]
    BY <1>5 DEF RadioPinCode
  <2>2. radio'.acks = radio.acks /\ radio'.out = Append(radio.out, Say(c, radio.target))
    BY <1>1, <2>1 DEF RadioState
  <2>3. c \in ConnectionEvents \ {"CONNECTED"}
    BY DEF ConnectionEvents
  <2> QED BY <1>2, <2>2, <2>3
<1>6. CASE RadioReset
  <2>1. PICK c \in {"NONE", "UNKNOWN"} :
          radio' = [radio EXCEPT !.mode = "idle", !.leds = 0,
                       !.budget = radio.budget - 1, !.configured = FALSE,
                       !.out = radio.out \o <<[Say(c, 0) EXCEPT !.reset = TRUE],
                                              Say("DISCONNECTED", radio.target)>>]
    BY <1>6 DEF RadioReset
  <2> DEFINE f == [Say(c, 0) EXCEPT !.reset = TRUE]
             g == Say("DISCONNECTED", radio.target)
  <2>2. f \in Frame /\ g \in Frame
    BY <1>1, SayFrame DEF ConnectionEvents
  <2>3. f.conn # "CONNECTED" /\ g.conn # "CONNECTED"
    <3>1. f.conn = c /\ g.conn = "DISCONNECTED"
      BY SayIs
    <3> HIDE DEF f, g
    <3> QED BY <3>1
  <2> HIDE DEF f, g
  <2>4. radio'.acks = radio.acks /\ radio'.out = radio.out \o <<f, g>>
    BY <1>1, <2>1 DEF RadioState, f, g
  <2>5. More(radio.out, radio.out \o <<f, g>>) /\ radio.out \o <<f, g>> # <<>>
    BY <1>1, <2>2, <2>3, MoreSaid
  <2> QED BY <1>1, <2>4, <2>5, SaidStep
<1>7. CASE RadioLeds
  <2>1. PICK led \in LedStates :
          radio' = [radio EXCEPT !.leds = led, !.budget = radio.budget - 1,
                       !.out = Append(radio.out, [NoFrame EXCEPT !.led = led])]
    BY <1>7 DEF RadioLeds
  <2> DEFINE f == [NoFrame EXCEPT !.led = led]
  <2>2. f \in Frame /\ f.conn # "CONNECTED"
    BY DomainAssumption DEF NoFrame, Frame
  <2> HIDE DEF f
  <2>3. radio'.acks = radio.acks /\ radio'.out = Append(radio.out, f)
    BY <1>1, <2>1 DEF RadioState, f
  <2>4. More(radio.out, Append(radio.out, f)) /\ Append(radio.out, f) # <<>>
    BY <1>1, <2>2, MoreSaid
  <2> QED BY <1>1, <2>3, <2>4, SaidStep
<1> QED BY <1>3, <1>4, <1>5, <1>6, <1>7

\* At power-on nothing is owed and nothing is under way.
LEMMA LossInit == Init => LossInv
<1> SUFFICES ASSUME Init PROVE LossInv
  OBVIOUS
<1>1. Inv
  BY InitInv
<1>2. PICK b \in Budgets :
         /\ w = PoweredOn(b.reports)
         /\ \E t \in Hosts : \E out \in {<<>>, <<Say("DISCONNECTED", t)>>} :
               radio = [mode |-> "idle", target |-> t, leds |-> 0,
                        configured |-> FALSE, out |-> out, acks |-> <<>>,
                        budget |-> b.events]
  BY DEF Init
<1>3. /\ w.rb.queue = <<>> /\ w.rb.retry = 0 /\ w.link = <<[cmd |-> "DISCONNECT"]>>
      /\ w.evq = <<>> /\ w.owed = {} /\ w.next = MaxReports - b.reports + 1
      /\ w.rb.kb_rpt = NoReport /\ w.down = [t \in ReportTypes |-> FALSE]
  BY <1>2 DEF PoweredOn, report_buffer_init, PowerOnBuffer
<1>4. PICK t \in Hosts : /\ radio.out \in {<<>>, <<Say("DISCONNECTED", t)>>}
                         /\ radio.acks = <<>>
  BY <1>2
<1>5. \A i \in 1 .. Len(radio.out) : radio.out[i].conn # "CONNECTED"
  <2>1. CASE radio.out = <<>>
    BY <2>1
  <2>2. CASE radio.out = <<Say("DISCONNECTED", t)>>
    <3> DEFINE f == Say("DISCONNECTED", t)
    <3>1. f.conn = "DISCONNECTED"
      BY SayIs
    <3> HIDE DEF f
    <3>2. radio.out = <<f>>
      BY <2>2 DEF f
    <3> QED BY <3>1, <3>2
  <2> QED BY <1>4, <2>1, <2>2
<1>6. Reports(w.link) = {} /\ QueuedIds(w.rb) = {}
  BY <1>3 DEF Reports, QueuedIds
<1>7. ~Loaded(w.link, radio.acks) /\ ~Answered(radio.acks)
  BY <1>4, <1>6 DEF Loaded, Answered
<1>8. Numbered(w.next, w)
  <2>1. w.next \in Nat /\ w.next > 0 /\ w.rb.kb_rpt.id = 0
    BY <1>3, BoundAssumption DEF NoReport
  <2> QED BY <1>6, <2>1 DEF Numbered
<1>9. KeysOnly(w) /\ Owing(radio.acks, w) /\ OneOut(w.link, radio.acks, w.rb.kb_rpt)
  BY <1>3, <1>4, <1>6 DEF KeysOnly, ReportTypes, Owing, OneOut, Answered
<1>10. Settled(radio.acks, w.evq, radio.out, w)
  BY <1>7 DEF Settled
<1>11. w \in Tidy(radio.acks, w.evq, radio.out)
  BY <1>1, <1>8, <1>9, <1>10 DEF Inv, Tidy, Careful
<1>12. FirstOnly(w.evq, radio.out) /\ Expected(radio)
  BY <1>3, <1>4, <1>5 DEF FirstOnly, Leading, Expected
<1> QED BY <1>1, <1>7, <1>11, <1>12 DEF LossInv

\* The one unread answer gets lost; the report is neither answered nor on the bus.
LEMMA AnswerLoss ==
    ASSUME LossInv, Inv', LoseAck
    PROVE  LossInv'
<1>1. /\ w' = w /\ pc' = pc /\ radio \in RadioState /\ radio.acks \in Seq(AckCodes)
      /\ radio.acks # <<>> /\ Len(radio.acks) <= 1
      /\ radio' = [radio EXCEPT !.acks = Tail(@)]
  BY DEF LoseAck, LossInv, Inv, RadioState, Expected
<1>2. radio'.acks = <<>> /\ radio'.out = radio.out
  BY <1>1 DEF RadioState
<1>3. w \in Careful(radio.acks, w.evq, radio.out, w.next)
  BY TidyCareful DEF LossInv
<1>4. /\ w \in Good /\ Numbered(w.next, w) /\ KeysOnly(w) /\ Owing(radio.acks, w)
      /\ Settled(radio.acks, w.evq, radio.out, w)
      /\ OneOut(w.link, radio.acks, w.rb.kb_rpt)
  BY <1>3, CarefulIs
<1>5. Owing(<<>>, w) /\ OneOut(w.link, <<>>, w.rb.kb_rpt) /\ ~Loaded(w.link, <<>>)
  BY <1>1, <1>4 DEF Owing, OneOut, Answered, Loaded
<1>6. w \in Careful(<<>>, w.evq, radio.out, w.next)
  BY <1>4, <1>5 DEF Careful, Settled
<1>7. w \in Tidy(<<>>, w.evq, radio.out)
  BY <1>6, CarefulTidy
<1>8. Expected(radio')
  BY <1>2 DEF Expected
<1> QED BY <1>1, <1>2, <1>5, <1>7, <1>8 DEF LossInv

\* Every step of a reliable keyboard preserves the invariant.
LEMMA LossStep == Reliable /\ LossInv /\ [Next]_vars => LossInv'
<1> SUFFICES ASSUME Reliable, LossInv, [Next]_vars PROVE LossInv'
  OBVIOUS
<1>1. Inv'
  BY NextInv DEF LossInv
<1>2. CASE Firmware
  BY <1>1, <1>2, KeysLoss, LoopLoss, ReadLoss, EventLoss DEF Firmware
<1>3. CASE Radio
  BY <1>1, <1>3, CommandLoss, ReportLoss, AnswerLoss, LinkUpLoss, ModuleLoss DEF Radio
<1>4. CASE UNCHANGED vars
  BY <1>4 DEF vars, LossInv, Inv
<1> QED BY <1>2, <1>3, <1>4 DEF Next

\* With a module whose answers come in time or never, and that reports a
\* connection once, as long as the battery lasts and no consumer or system key is
\* sent past the ring, no report the buffer accepted is lost behind the back of
\* the code (report_buffer_task and ack_handler): whatever is refused, lost on the
\* bus, retransmitted or cut off by a lost link, and for every size of the ring
\* and every number of retries.
THEOREM NothingIsLost ==
    ASSUME Reliable
    PROVE  Spec => []NoSilentLoss
<1>1. LossInv => NoSilentLoss
  <2> SUFFICES ASSUME LossInv PROVE NoSilentLoss
    OBVIOUS
  <2>1. Owing(radio.acks, w)
    BY TidyCareful, CarefulIs DEF LossInv
  <2> QED BY <2>1 DEF Owing, NoSilentLoss
<1>2. LossInv /\ [Next]_vars => LossInv'
  BY LossStep
<1> QED BY <1>1, <1>2, LossInit, PTL DEF Spec

-----------------------------------------------------------------------------
(***************************************************************************)
(* The firmware and the module agree.  What the firmware believes follows  *)
(* from the events that wait in the ring and the frames it has not read;   *)
(* what the module will do, from the packets it has not taken.             *)
(***************************************************************************)
\* A packet that ends the link to host t.
Leaves(p, t) == \/ p.cmd \in {"PAIRING", "DISCONNECT"}
                \/ p.cmd = "CONNECT" /\ p.host \in Hosts \ {t}
Leaving(l, t) == \E i \in 1 .. Len(l) : Leaves(l[i], t)

\* The hosts of the reports in the buffer and on the bus.
Buffered(b) == {b.queue[i].dst : i \in 1 .. Len(b.queue)}
                 \cup (IF b.retry > 0 THEN {b.kb_rpt.dst} ELSE {})
BusHosts(l) == {l[i].rpt.dst : i \in Reports(l)}

PinEntry(s) == s.state = "PARING" /\ s.pincodeEntry
Own(s) == IF s.state = "CONNECTED" THEN {s.host_index} ELSE {}

\* What the send functions, the report task and the passing of time may change:
\* they may ask for a connection when there is none, and reports they send are
\* for the connected host.
Follows(s, x) ==
    /\ x.evq = s.evq /\ x.led_state = s.led_state /\ x.host_index = s.host_index
    /\ x.pincodeEntry = s.pincodeEntry
    /\ x.state = s.state \/ (s.state # "CONNECTED" /\ x.state = "RECONNECTING")
    /\ \A t : Leaving(x.link, t) <=> Leaving(s.link, t)
    /\ \/ PinEntry(s)
       \/ /\ Buffered(x.rb) \subseteq Buffered(s.rb) \cup Own(s)
          /\ BusHosts(x.link) \subseteq BusHosts(s.link) \cup Buffered(s.rb) \cup Own(s)

LEMMA FollowsSame ==
    ASSUME NEW s, NEW x, x.evq = s.evq, x.led_state = s.led_state,
           x.host_index = s.host_index, x.pincodeEntry = s.pincodeEntry,
           x.state = s.state, x.link = s.link, Buffered(x.rb) \subseteq Buffered(s.rb)
    PROVE  Follows(s, x)
BY DEF Follows

LEMMA FollowsSelf ==
    ASSUME NEW s
    PROVE  Follows(s, s)
BY DEF Follows

LEMMA FollowsThen ==
    ASSUME NEW s, NEW x, NEW y, Follows(s, x), Follows(x, y)
    PROVE  Follows(s, y)
<1>1. PinEntry(x) => PinEntry(s)
  BY DEF Follows, PinEntry
<1>2. Own(x) \subseteq Own(s)
  BY DEF Follows, Own
<1>3. /\ y.evq = s.evq /\ y.led_state = s.led_state /\ y.host_index = s.host_index
      /\ y.pincodeEntry = s.pincodeEntry
      /\ y.state = s.state \/ (s.state # "CONNECTED" /\ y.state = "RECONNECTING")
  BY DEF Follows
<1>4. \A t : Leaving(y.link, t) <=> Leaving(s.link, t)
  BY DEF Follows
<1>5. CASE PinEntry(s)
  BY <1>3, <1>4, <1>5 DEF Follows
<1>6. CASE ~PinEntry(s)
  <2>1. /\ Buffered(x.rb) \subseteq Buffered(s.rb) \cup Own(s)
        /\ BusHosts(x.link) \subseteq BusHosts(s.link) \cup Buffered(s.rb) \cup Own(s)
    BY <1>6 DEF Follows
  <2>2. /\ Buffered(y.rb) \subseteq Buffered(x.rb) \cup Own(x)
        /\ BusHosts(y.link) \subseteq BusHosts(x.link) \cup Buffered(x.rb) \cup Own(x)
    BY <1>1, <1>6 DEF Follows
  <2>3. /\ Buffered(y.rb) \subseteq Buffered(s.rb) \cup Own(s)
        /\ BusHosts(y.link) \subseteq BusHosts(s.link) \cup Buffered(s.rb) \cup Own(s)
    BY <1>2, <2>1, <2>2
  <2> QED
    BY <1>3, <1>4, <2>3 DEF Follows
<1> QED
  BY <1>5, <1>6

\* A packet more on the bus.
LEMMA BusAppend ==
    ASSUME NEW l \in Seq(Packet), NEW p \in Packet
    PROVE  /\ \A t : Leaving(Append(l, p), t) <=> Leaving(l, t) \/ Leaves(p, t)
           /\ BusHosts(Append(l, p))
                = BusHosts(l) \cup (IF p.cmd = "REPORT" THEN {p.rpt.dst} ELSE {})
<1> DEFINE k == Append(l, p)
<1>1. Len(k) = Len(l) + 1 /\ k[Len(l) + 1] = p /\ \A i \in 1 .. Len(l) : k[i] = l[i]
  OBVIOUS
<1>2. Len(l) \in Nat
  OBVIOUS
<1>3. /\ Reports(k) = Reports(l) \cup (IF p.cmd = "REPORT" THEN {Len(l) + 1} ELSE {})
      /\ \A i \in Reports(l) : k[i] = l[i]
  BY MoreReports
<1> HIDE DEF k
<1>4. \A i : i \in 1 .. Len(k) <=> i \in 1 .. Len(l) \/ i = Len(l) + 1
  BY <1>1, <1>2
<1>5. \A t : Leaving(k, t) <=> Leaving(l, t) \/ Leaves(p, t)
  BY <1>1, <1>4 DEF Leaving
<1>6. CASE p.cmd = "REPORT"
  <2>1. BusHosts(k) = {k[i].rpt.dst : i \in Reports(l) \cup {Len(l) + 1}}
    BY <1>3, <1>6 DEF BusHosts
  <2>2. BusHosts(k) = {l[i].rpt.dst : i \in Reports(l)} \cup {p.rpt.dst}
    BY <1>1, <1>3, <2>1
  <2> QED
    BY <1>5, <1>6, <2>2 DEF BusHosts, k
<1>7. CASE p.cmd # "REPORT"
  <2>1. BusHosts(k) = {l[i].rpt.dst : i \in Reports(l)}
    BY <1>3, <1>7 DEF BusHosts
  <2> QED
    BY <1>5, <1>7, <2>1 DEF BusHosts, k
<1> QED
  BY <1>6, <1>7

\* wireless_connect names no host, so the module keeps a link it has.
LEMMA ConnectFollows ==
    ASSUME NEW s \in Good, s.state # "CONNECTED"
    PROVE  Follows(s, wireless_connect(s))
<1> DEFINE p == [cmd |-> "CONNECT", host |-> 0]
           x == [Transmit(s, p) EXCEPT !.state = "RECONNECTING"]
<1>1. s \in WirelessState /\ s.link \in Seq(Packet)
  BY DEF Good, Sound, WirelessState
<1>2. /\ x.evq = s.evq /\ x.led_state = s.led_state /\ x.host_index = s.host_index
      /\ x.pincodeEntry = s.pincodeEntry /\ x.state = "RECONNECTING"
      /\ x.link = Append(s.link, p) /\ x.rb = s.rb
  BY <1>1 DEF Transmit, WirelessState
<1>3. p \in Packet /\ p.cmd = "CONNECT" /\ p.host = 0
  BY PacketTypes
<1> HIDE DEF p, x
<1>4. \A t : ~Leaves(p, t)
  BY <1>3, HostsAssumption DEF Leaves
<1>5. /\ \A t : Leaving(x.link, t) <=> Leaving(s.link, t)
      /\ BusHosts(x.link) = BusHosts(s.link)
  BY <1>1, <1>2, <1>3, <1>4, BusAppend
<1>6. wireless_connect(s) \in {s, x}
  BY DEF wireless_connect, x, p
<1>7. Follows(s, x)
  BY <1>2, <1>5 DEF Follows
<1> QED
  BY <1>6, <1>7, FollowsSelf

LEMMA ReconnectFirstFollows ==
    ASSUME NEW s \in Good, s.state # "CONNECTED"
    PROVE  Follows(s, ReconnectFirst(s))
BY ConnectFollows, FollowsSelf DEF ReconnectFirst

\* The reports of a longer queue.
LEMMA QueueAppend ==
    ASSUME NEW q \in Seq(Report), NEW r \in Report
    PROVE  {Append(q, r)[i].dst : i \in 1 .. Len(Append(q, r))}
              = {q[i].dst : i \in 1 .. Len(q)} \cup {r.dst}
<1> DEFINE k == Append(q, r)
<1>1. Len(k) = Len(q) + 1 /\ k[Len(q) + 1] = r /\ \A i \in 1 .. Len(q) : k[i] = q[i]
  OBVIOUS
<1>2. Len(q) \in Nat
  OBVIOUS
<1> HIDE DEF k
<1>3. 1 .. Len(k) = (1 .. Len(q)) \cup {Len(q) + 1}
  BY <1>1, <1>2
<1> QED
  BY <1>1, <1>3 DEF k

LEMMA EnqueueFollows ==
    ASSUME NEW s \in Good, NEW r \in Report, r.dst = s.host_index,
           s.state = "CONNECTED" \/ PinEntry(s)
    PROVE  Follows(s, EnqueueReport(s, r))
<1> DEFINE x == EnqueueReport(s, r)
<1>1. s \in WirelessState /\ s.rb \in Buffer /\ s.rb.queue \in Seq(Report)
  BY BufferOf, GoodIsSound DEF Good, Sound
<1>2. /\ x.evq = s.evq /\ x.led_state = s.led_state /\ x.host_index = s.host_index
      /\ x.pincodeEntry = s.pincodeEntry /\ x.state = s.state /\ x.link = s.link
      /\ x.rb = report_buffer_enqueue(s.rb, r)
  BY <1>1 DEF EnqueueReport, WirelessState
<1>3. /\ x.rb.retry = s.rb.retry /\ x.rb.kb_rpt = s.rb.kb_rpt
      /\ x.rb.queue \in {s.rb.queue, Append(s.rb.queue, r)}
  BY <1>1, <1>2 DEF report_buffer_enqueue, AppendOrRefuse, Buffer
<1> HIDE DEF x
<1>4. Buffered(x.rb) \subseteq Buffered(s.rb) \cup {s.host_index}
  <2>1. CASE x.rb.queue = s.rb.queue
    BY <1>3, <2>1 DEF Buffered
  <2>2. CASE x.rb.queue = Append(s.rb.queue, r)
    <3>1. {x.rb.queue[i].dst : i \in 1 .. Len(x.rb.queue)}
             = {s.rb.queue[i].dst : i \in 1 .. Len(s.rb.queue)} \cup {s.host_index}
      BY <1>1, <2>2, QueueAppend
    <3> QED
      BY <1>3, <3>1 DEF Buffered
  <2> QED
    BY <1>3, <2>1, <2>2
<1>5. PinEntry(s) \/ Own(s) = {s.host_index}
  BY DEF Own
<1> QED
  BY <1>2, <1>4, <1>5 DEF Follows, x

\* report_buffer_task moves reports from the ring to the bus.
LEMMA ReportTaskFollows ==
    ASSUME NEW s \in Good
    PROVE  Follows(s, ReportTask(s))
<1> DEFINE up == s.state = "CONNECTED"
           b == report_buffer_task(s.rb, up, s.uptime)
           x == ReportTask(s)
           c == IF Pending(s.rb, up) /\ s.rb.retry = 0
                THEN report_buffer_dequeue(s.rb) ELSE s.rb
<1>1. /\ s \in WirelessState /\ s.rb \in Buffer /\ s.rb.queue \in Seq(Report)
      /\ s.link \in Seq(Packet) /\ Len(s.rb.queue) < QueueSize /\ up \in BOOLEAN
      /\ s.rb.retry \in Nat
  BY BufferOf, GoodIsSound DEF Good, Sound, Bounded, WirelessState
<1>2. /\ x.evq = s.evq /\ x.led_state = s.led_state /\ x.host_index = s.host_index
      /\ x.pincodeEntry = s.pincodeEntry /\ x.state = s.state
      /\ x.rb = b
      /\ x.link = IF Transmits(s.rb, up, s.uptime)
                  THEN Append(s.link, ReportPacket(b.kb_rpt)) ELSE s.link
  BY <1>1 DEF ReportTask, WirelessState
<1>3. /\ b \in Buffer
      /\ b.retry = IF ~Transmits(s.rb, up, s.uptime) THEN s.rb.retry
                   ELSE IF s.rb.retry = 0 THEN RetryCount ELSE s.rb.retry - 1
  BY <1>1, BufferTask
<1>4. b.queue = c.queue /\ b.kb_rpt = c.kb_rpt
  <2>1. c \in Buffer
    BY <1>1, BufferDequeue
  <2> HIDE DEF c
  <2>2. b = c \/ \E n : b = [c EXCEPT !.retry = n, !.retry_age = 0, !.age = 0]
    BY DEF report_buffer_task, c
  <2> HIDE DEF b
  <2> QED
    BY <2>1, <2>2 DEF Buffer
<1>5. \/ c.queue = s.rb.queue /\ c.kb_rpt = s.rb.kb_rpt /\ (Transmits(s.rb, up, s.uptime) => s.rb.retry > 0)
      \/ /\ s.rb.queue # <<>> /\ s.rb.retry = 0 /\ c.queue = Tail(s.rb.queue)
         /\ c.kb_rpt = Head(s.rb.queue)
  <2>1. CASE Pending(s.rb, up) /\ s.rb.retry = 0
    BY <1>1, <2>1 DEF Pending, report_buffer_dequeue, report_buffer_is_empty, Buffer
  <2>2. CASE ~(Pending(s.rb, up) /\ s.rb.retry = 0)
    BY <1>1, <2>2 DEF Transmits
  <2> QED
    BY <2>1, <2>2
<1>6. ReportPacket(b.kb_rpt) \in Packet /\ ReportPacket(b.kb_rpt).cmd = "REPORT"
      /\ ReportPacket(b.kb_rpt).rpt = b.kb_rpt
  BY <1>3, PacketTypes DEF Buffer, ReportPacket
<1>7. \A t : ~Leaves(ReportPacket(b.kb_rpt), t)
  BY <1>6 DEF Leaves
<1> HIDE DEF b, c, x, up
<1>8. /\ \A t : Leaving(x.link, t) <=> Leaving(s.link, t)
      /\ BusHosts(x.link) \subseteq BusHosts(s.link)
             \cup (IF Transmits(s.rb, up, s.uptime) THEN {b.kb_rpt.dst} ELSE {})
  <2>1. CASE Transmits(s.rb, up, s.uptime)
    BY <1>1, <1>2, <1>6, <1>7, <2>1, BusAppend
  <2>2. CASE ~Transmits(s.rb, up, s.uptime)
    BY <1>2, <2>2
  <2> QED
    BY <2>1, <2>2
<1>9. /\ Buffered(b) \subseteq Buffered(s.rb)
      /\ Transmits(s.rb, up, s.uptime) => b.kb_rpt.dst \in Buffered(s.rb)
  <2>1. CASE /\ c.queue = s.rb.queue /\ c.kb_rpt = s.rb.kb_rpt
             /\ Transmits(s.rb, up, s.uptime) => s.rb.retry > 0
    <3>1. b.retry > 0 => s.rb.retry > 0
      BY <1>1, <1>3, <2>1
    <3>2. b.queue = s.rb.queue /\ b.kb_rpt = s.rb.kb_rpt
      BY <1>4, <2>1
    <3> QED
      BY <2>1, <3>1, <3>2 DEF Buffered
  <2>2. CASE /\ s.rb.queue # <<>> /\ s.rb.retry = 0 /\ c.queue = Tail(s.rb.queue)
             /\ c.kb_rpt = Head(s.rb.queue)
    <3> DEFINE q == s.rb.queue
    <3>1. /\ Len(q) \in Nat /\ Len(q) > 0 /\ Len(Tail(q)) = Len(q) - 1 /\ Head(q) = q[1]
          /\ \A i \in 1 .. Len(q) - 1 : Tail(q)[i] = q[i + 1]
      BY <1>1, <2>2
    <3>2. \A i \in 1 .. Len(Tail(q)) : i + 1 \in 1 .. Len(q) /\ Tail(q)[i] = q[i + 1]
      BY <3>1
    <3>3. 1 \in 1 .. Len(q)
      BY <3>1
    <3>4. b.queue = Tail(q) /\ b.kb_rpt = q[1]
      BY <1>4, <2>2, <3>1
    <3> HIDE DEF q
    <3>5. \A i \in 1 .. Len(Tail(q)) : Tail(q)[i].dst \in {q[j].dst : j \in 1 .. Len(q)}
      BY <3>2
    <3>6. q[1].dst \in {q[j].dst : j \in 1 .. Len(q)}
      BY <3>3
    <3> QED
      BY <3>4, <3>5, <3>6 DEF Buffered, q
  <2> QED
    BY <1>5, <2>1, <2>2
<1> QED
  BY <1>2, <1>8, <1>9 DEF Follows, x

LEMMA SendKeyboardFollows ==
    ASSUME NEW s \in Good, NEW r \in Report, r.dst = s.host_index
    PROVE  Follows(s, wireless_send_keyboard(s, r))
<1>1. CASE s.critical_low \/ (s.state = "PARING" /\ ~s.pincodeEntry)
  BY <1>1, FollowsSelf DEF wireless_send_keyboard
<1>2. CASE ~s.critical_low /\ (s.state = "CONNECTED" \/ PinEntry(s))
  <2> DEFINE x == EnqueueReport(s, r)
  <2>1. x \in Good /\ Follows(s, x)
    BY <1>2, EnqueueGood, EnqueueFollows
  <2> HIDE DEF x
  <2>2. Follows(s, ReportTask(x))
    BY <2>1, ReportTaskFollows, FollowsThen
  <2>3. wireless_send_keyboard(s, r) \in {x, ReportTask(x)}
    BY <1>2 DEF wireless_send_keyboard, PinEntry, x
  <2> QED
    BY <2>1, <2>2, <2>3
<1>3. CASE s.state \notin {"CONNECTED", "PARING"} /\ ~s.critical_low
  BY <1>3, ReconnectFirstFollows DEF wireless_send_keyboard
<1> QED
  BY <1>1, <1>2, <1>3 DEF PinEntry

LEMMA SendMouseFollows ==
    ASSUME NEW s \in Good
    PROVE  Follows(s, wireless_send_mouse(s))
BY FollowsSelf, ReconnectFirstFollows DEF wireless_send_mouse

\* A report that goes past the buffer.
LEMMA DirectFollows ==
    ASSUME NEW s \in Good, NEW r \in Report, r.dst = s.host_index, s.state = "CONNECTED"
    PROVE  Follows(s, Transmit(s, ReportPacket(r)))
<1> DEFINE p == ReportPacket(r)
           x == Transmit(s, p)
<1>1. s \in WirelessState /\ s.link \in Seq(Packet)
  BY DEF Good, Sound, WirelessState
<1>2. /\ x.evq = s.evq /\ x.led_state = s.led_state /\ x.host_index = s.host_index
      /\ x.pincodeEntry = s.pincodeEntry /\ x.state = s.state
      /\ x.link = Append(s.link, p) /\ x.rb = s.rb
  BY <1>1 DEF Transmit, WirelessState
<1>3. p \in Packet /\ p.cmd = "REPORT" /\ p.rpt = r
  BY PacketTypes DEF ReportPacket
<1> HIDE DEF p, x
<1>4. \A t : ~Leaves(p, t)
  BY <1>3 DEF Leaves
<1>5. /\ \A t : Leaving(x.link, t) <=> Leaving(s.link, t)
      /\ BusHosts(x.link) = BusHosts(s.link) \cup {s.host_index}
  BY <1>1, <1>2, <1>3, <1>4, BusAppend
<1> QED
  BY <1>2, <1>5 DEF Follows, Own, x, p

LEMMA SendExtraFollows ==
    ASSUME NEW s \in Good, NEW r \in Report, NEW pressed \in BOOLEAN, r.dst = s.host_index
    PROVE  Follows(s, wireless_send_extra(s, r, pressed))
<1>1. CASE s.critical_low
  BY <1>1, FollowsSelf DEF wireless_send_extra
<1>2. CASE ~s.critical_low /\ s.state # "CONNECTED"
  BY <1>2, ReconnectFirstFollows
     DEF wireless_send_extra, wireless_send_system, wireless_send_consumer
<1>3. CASE ~s.critical_low /\ s.state = "CONNECTED"
  <2> DEFINE d == Transmit(s, ReportPacket(r))
             x == [d EXCEPT !.rb = report_buffer_update_timer(@)]
  <2>1. Follows(s, d) /\ d \in Good
    BY <1>3, DirectFollows, PacketTypes, TransmitGood
  <2> HIDE DEF d
  <2>2. d \in WirelessState /\ d.rb \in Buffer
    BY <2>1, BufferOf, GoodIsSound DEF Good, Sound
  <2>3. /\ x.evq = d.evq /\ x.led_state = d.led_state /\ x.host_index = d.host_index
        /\ x.pincodeEntry = d.pincodeEntry /\ x.state = d.state /\ x.link = d.link
        /\ x.rb.queue = d.rb.queue /\ x.rb.retry = d.rb.retry /\ x.rb.kb_rpt = d.rb.kb_rpt
    BY <2>2 DEF report_buffer_update_timer, WirelessState, Buffer
  <2> HIDE DEF x
  <2>4. Follows(d, x)
    BY <2>3, FollowsSame DEF Buffered
  <2>5. Follows(s, x)
    BY <2>1, <2>4, FollowsThen
  <2>6. Follows(s, EnqueueReport(s, r))
    BY <1>3, EnqueueFollows
  <2>7. wireless_send_extra(s, r, pressed) \in {s, d, x, EnqueueReport(s, r)}
    BY <1>3 DEF wireless_send_extra, wireless_send_system, wireless_send_consumer, d, x
  <2> QED
    BY <2>1, <2>5, <2>6, <2>7, FollowsSelf
<1> QED
  BY <1>1, <1>2, <1>3

\* A report is produced for the host the firmware believes in.
LEMMA ProduceFollows ==
    ASSUME NEW s \in Good, NEW t \in ReportTypes, NEW pressed \in BOOLEAN
    PROVE  /\ Produce(s, t, pressed) \in Good /\ Follows(s, Produce(s, t, pressed))
           /\ NewReport(s, t) \in Report
           /\ NewReport(s, t).dst = Produce(s, t, pressed).host_index
<1>1. s \in WirelessState
  BY DEF Good, Sound
<1>2. Produce(s, t, pressed) \in Good
  BY ProduceGood
<1>3. NewReport(s, t) \in Report /\ NewReport(s, t).dst = s.host_index
  BY <1>1 DEF NewReport, Report, WirelessState
<1> DEFINE x == Produce(s, t, pressed)
<1>4. /\ x.evq = s.evq /\ x.led_state = s.led_state /\ x.host_index = s.host_index
      /\ x.pincodeEntry = s.pincodeEntry /\ x.state = s.state /\ x.link = s.link
      /\ x.rb = s.rb
  BY <1>1 DEF Produce, WirelessState
<1> HIDE DEF x
<1>5. Follows(s, x)
  BY <1>4, FollowsSame
<1> QED
  BY <1>2, <1>3, <1>4, <1>5 DEF x

LEMMA KeyboardReportFollows ==
    ASSUME NEW s \in Good, NEW pressed \in BOOLEAN
    PROVE  Follows(s, send_keyboard_report(s, pressed))
<1> DEFINE t == KeyboardType(s)
           x == Produce(s, t, pressed)
           r == NewReport(s, t)
<1>1. t \in ReportTypes
  BY DEF KeyboardType, ReportTypes
<1> HIDE DEF t
<1>2. x \in Good /\ Follows(s, x) /\ r \in Report /\ r.dst = x.host_index
  BY <1>1, ProduceFollows
<1> HIDE DEF x, r
<1>3. Follows(s, wireless_send_keyboard(x, r))
  BY <1>2, SendKeyboardFollows, FollowsThen
<1> QED
  BY <1>3, FollowsSelf DEF send_keyboard_report, t, x, r

LEMMA ExtraSendFollows ==
    ASSUME NEW s \in Good, NEW t \in ReportTypes, NEW pressed \in BOOLEAN
    PROVE  Follows(s, host_extra_send(s, t, pressed))
<1> DEFINE x == Produce(s, t, pressed)
           r == NewReport(s, t)
<1>1. x \in Good /\ Follows(s, x) /\ r \in Report /\ r.dst = x.host_index
  BY ProduceFollows
<1> HIDE DEF x, r
<1>2. Follows(s, wireless_send_extra(x, r, pressed))
  BY <1>1, SendExtraFollows, FollowsThen
<1> QED
  BY <1>2, FollowsSelf DEF host_extra_send, x, r

LEMMA ClearKeyboardFollows ==
    ASSUME NEW s \in Good
    PROVE  Follows(s, clear_keyboard(s))
<1> DEFINE s1 == host_extra_send(s, "SYSTEM", FALSE)
           s2 == host_extra_send(s1, "CONSUMER", FALSE)
           s3 == send_keyboard_report(s2, FALSE)
<1>1. s1 \in Good /\ Follows(s, s1)
  BY ExtraSendGood, ExtraSendFollows DEF ReportTypes
<1> HIDE DEF s1
<1>2. s2 \in Good /\ Follows(s, s2)
  BY <1>1, ExtraSendGood, ExtraSendFollows, FollowsThen DEF ReportTypes
<1> HIDE DEF s2
<1>3. s3 \in Good /\ Follows(s, s3)
  BY <1>2, KeyboardReportGood, KeyboardReportFollows, FollowsThen
<1> HIDE DEF s3
<1>4. Follows(s, wireless_send_mouse(s3))
  BY <1>3, SendMouseFollows, FollowsThen
<1> QED
  BY <1>4 DEF clear_keyboard, s1, s2, s3

LEMMA AfterTimeFollows ==
    ASSUME NEW s \in Good, NEW dt, NEW up
    PROVE  Follows(s, AfterTime(s, dt, up))
<1> DEFINE x == AfterTime(s, dt, up)
<1>1. s \in WirelessState /\ s.rb \in Buffer
  BY BufferOf, GoodIsSound DEF Good, Sound
<1>2. /\ x.evq = s.evq /\ x.led_state = s.led_state /\ x.host_index = s.host_index
      /\ x.pincodeEntry = s.pincodeEntry /\ x.state = s.state /\ x.link = s.link
      /\ x.rb.queue = s.rb.queue /\ x.rb.retry = s.rb.retry /\ x.rb.kb_rpt = s.rb.kb_rpt
  BY <1>1 DEF AfterTime, Elapse, WirelessState, Buffer
<1> HIDE DEF x
<1> QED
  BY <1>2, FollowsSame DEF Buffered, x

LEMMA ParamInitFollows ==
    ASSUME NEW s \in Good
    PROVE  Follows(s, lkbt51_param_init(s))
<1> DEFINE p == [cmd |-> "PARAM"]
           x == Transmit(s, p)
<1>1. s \in WirelessState /\ s.link \in Seq(Packet)
  BY DEF Good, Sound, WirelessState
<1>2. /\ x.evq = s.evq /\ x.led_state = s.led_state /\ x.host_index = s.host_index
      /\ x.pincodeEntry = s.pincodeEntry /\ x.state = s.state
      /\ x.link = Append(s.link, p) /\ x.rb = s.rb
  BY <1>1 DEF Transmit, WirelessState
<1>3. p \in Packet /\ p.cmd = "PARAM" /\ x \in Good
  BY PacketTypes, TransmitGood
<1> HIDE DEF p, x
<1>4. \A t : ~Leaves(p, t)
  BY <1>3 DEF Leaves
<1>5. /\ \A t : Leaving(x.link, t) <=> Leaving(s.link, t)
      /\ BusHosts(x.link) = BusHosts(s.link)
  BY <1>1, <1>2, <1>3, <1>4, BusAppend
<1>6. Follows(s, x)
  BY <1>2, <1>5 DEF Follows
<1>7. Follows(s, AfterTime(x, ParamWait, Soonest(s.uptime, ParamWait)))
  BY <1>3, <1>6, AfterTimeFollows, FollowsThen
<1> QED
  BY <1>7 DEF lkbt51_param_init, x, p

\* An answer ends the retransmissions or leaves them as they are.
LEMMA AckFollows ==
    ASSUME NEW s \in Good, NEW code
    PROVE  Follows(s, ack_handler(s, code))
<1> DEFINE x == ack_handler(s, code)
<1>1. s \in WirelessState /\ s.rb \in Buffer
  BY BufferOf, GoodIsSound DEF Good, Sound
<1>2. /\ x.evq = s.evq /\ x.led_state = s.led_state /\ x.host_index = s.host_index
      /\ x.pincodeEntry = s.pincodeEntry /\ x.state = s.state /\ x.link = s.link
  BY <1>1 DEF ack_handler, WirelessState
<1>3. /\ x.rb.queue = s.rb.queue /\ x.rb.kb_rpt = s.rb.kb_rpt
      /\ x.rb.retry \in {s.rb.retry, 0}
  BY <1>1 DEF ack_handler, WirelessState, report_buffer_set_inverval,
              report_buffer_set_retry, Buffer
<1> HIDE DEF x
<1>4. Buffered(x.rb) \subseteq Buffered(s.rb)
  BY <1>3 DEF Buffered
<1> QED
  BY <1>2, <1>4, FollowsSame DEF x

-----------------------------------------------------------------------------
\* The end of a link is on its way to the firmware.
Ended(q) == \E i \in 1 .. Len(q) : q[i].type = "DISCONNECTED"
Ending(o) == \E i \in 1 .. Len(o) : o[i].conn = "DISCONNECTED"

\* The module has no link: what the firmware has still to hear of one ends with
\* its end, and if it has nothing to hear, it knows.
Apart(s, m) ==
    /\ \A i \in 1 .. Len(m.out) :
          m.out[i].conn = "CONNECTED" \/ m.out[i].led # -1 =>
              \E j \in 1 .. Len(m.out) : j > i /\ m.out[j].conn = "DISCONNECTED"
    /\ \A i \in 1 .. Len(s.evq) :
          s.evq[i].type \in {"CONNECTED", "HID_INDICATOR"} =>
              \/ Ending(m.out)
              \/ \E j \in 1 .. Len(s.evq) : j > i /\ s.evq[j].type = "DISCONNECTED"
    /\ s.state = "CONNECTED" \/ s.led_state # 0 => Ended(s.evq) \/ Ending(m.out)

\* x is the last of the LEDs that are shown and that wait to be shown.
LastShown(q, l, x) ==
    \/ \E i \in 1 .. Len(q) :
          /\ q[i].type = "HID_INDICATOR" /\ q[i].param = x
          /\ \A j \in 1 .. Len(q) : j > i => q[j].type # "HID_INDICATOR"
    \/ l = x /\ \A i \in 1 .. Len(q) : q[i].type # "HID_INDICATOR"
LastSaid(q, o, l, x) ==
    \/ \E i \in 1 .. Len(o) : /\ o[i].led = x
                              /\ \A j \in 1 .. Len(o) : j > i => o[j].led = -1
    \/ LastShown(q, l, x) /\ \A i \in 1 .. Len(o) : o[i].led = -1

\* The connection is on its way, ahead of the LEDs.
Coming(q, o) ==
    /\ Announced(q, o)
    /\ \A i \in 1 .. Len(q) :
          q[i].type = "HID_INDICATOR" => \E j \in 1 .. i : q[j].type = "CONNECTED"
    /\ \A i \in 1 .. Len(o) :
          o[i].led # -1 => Posted(q) \/ \E j \in 1 .. i : o[j].conn = "CONNECTED"

\* The module has a link to its target: all that the firmware has still to hear is
\* of this link, and unless it has asked for another host, it knows its host and
\* its LEDs or will hear of them.
UpFrame(f, t) == /\ ~f.reset /\ f.conn \in {"NONE", "CONNECTED"}
                 /\ f.conn = "CONNECTED" => f.host = t
UpEvent(e, t) == /\ e.type \in {"CONNECTED", "HID_INDICATOR", "CONECTION_INTERVAL"}
                 /\ e.type = "CONNECTED" => e.param = t
Together(s, m) ==
    /\ \A i \in 1 .. Len(m.out) : UpFrame(m.out[i], m.target)
    /\ \A i \in 1 .. Len(s.evq) : UpEvent(s.evq[i], m.target)
    /\ s.state = "CONNECTED" => s.host_index = m.target
    /\ ~Leaving(s.link, m.target) =>
          /\ LastSaid(s.evq, m.out, s.led_state, m.leds)
          /\ s.state # "CONNECTED" => s.led_state = 0 /\ Coming(s.evq, m.out)

LinkKnown(s, m) == IF m.mode = "up" THEN Together(s, m) ELSE Apart(s, m)

\* Reports on their way to the module are for the host it is connected to; without
\* a link there are none, or the firmware will clear them away.
ForHost(s, m) ==
    IF m.mode = "up"
    THEN Buffered(s.rb) \cup BusHosts(s.link) \subseteq {m.target}
    ELSE Buffered(s.rb) = {} \/ Ended(s.evq) \/ Ending(m.out)

\* The send functions, the report task and time keep both.
LEMMA KnownFollows ==
    ASSUME NEW m, NEW s, NEW x, Follows(s, x), LinkKnown(s, m)
    PROVE  LinkKnown(x, m)
<1>1. /\ x.evq = s.evq /\ x.led_state = s.led_state /\ x.host_index = s.host_index
      /\ x.state = "CONNECTED" <=> s.state = "CONNECTED"
      /\ \A t : Leaving(x.link, t) <=> Leaving(s.link, t)
  BY DEF Follows
<1>2. CASE m.mode = "up"
  BY <1>1, <1>2 DEF LinkKnown, Together
<1>3. CASE m.mode # "up"
  BY <1>1, <1>3 DEF LinkKnown, Apart
<1> QED
  BY <1>2, <1>3

LEMMA HostFollows ==
    ASSUME NEW m, NEW s, NEW x, Follows(s, x), LinkKnown(s, m), ForHost(s, m), ~PinEntry(s)
    PROVE  ForHost(x, m)
<1>1. /\ x.evq = s.evq
      /\ Buffered(x.rb) \subseteq Buffered(s.rb) \cup Own(s)
      /\ BusHosts(x.link) \subseteq BusHosts(s.link) \cup Buffered(s.rb) \cup Own(s)
  BY DEF Follows
<1>2. CASE m.mode = "up"
  <2>1. Own(s) \subseteq {m.target}
    BY <1>2 DEF LinkKnown, Together, Own
  <2> QED
    BY <1>1, <1>2, <2>1 DEF ForHost
<1>3. CASE m.mode # "up"
  <2>1. Own(s) = {} \/ Ended(s.evq) \/ Ending(m.out)
    BY <1>3 DEF LinkKnown, Apart, Own
  <2> QED
    BY <1>1, <1>3, <2>1 DEF ForHost
<1> QED
  BY <1>2, <1>3

-----------------------------------------------------------------------------
\* The events a frame posts, and whether the ring has room for them.
Bit(b) == IF b THEN 1 ELSE 0
Posts(f) == Bit(f.reset) + Bit(f.conn # "NONE") + Bit(f.led # -1) + Bit(f.raw # -1)
HasRoom(q, f) == Len(q) + Posts(f) < EventQueueSize

LEMMA BitIs ==
    ASSUME NEW b \in BOOLEAN
    PROVE  Bit(b) \in {0, 1} /\ (Bit(b) = 1 <=> b)
BY DEF Bit

LEMMA PostRoom ==
    ASSUME NEW q \in Seq(Event), NEW set \in BOOLEAN, NEW type \in EventTypes, NEW param \in Nat,
           Len(q) + Bit(set) < EventQueueSize
    PROVE  /\ Post(q, set, type, param) \in Seq(Event)
           /\ Len(Post(q, set, type, param)) = Len(q) + Bit(set)
           /\ \A i \in 1 .. Len(q) : Post(q, set, type, param)[i] = q[i]
           /\ set => /\ Post(q, set, type, param)[Len(q) + 1].type = type
                     /\ Post(q, set, type, param)[Len(q) + 1].param = param
<1> DEFINE e == [type |-> type, param |-> param]
           p == Post(q, set, type, param)
<1>1. e \in Event /\ e.type = type /\ e.param = param
  BY DEF Event
<1>2. Len(q) \in Nat
  OBVIOUS
<1>3. CASE set
  <2>1. Len(q) + 1 < EventQueueSize
    BY <1>2, <1>3 DEF Bit
  <2>2. Len(q) # EventQueueSize - 1
    BY <1>2, <2>1, EventQueueSizeAssumption
  <2>3. p = Append(q, e)
    BY <1>3, <2>2 DEF Post, wireless_event_enqueue, AppendOrOverride
  <2> HIDE DEF e, p
  <2>4. /\ Append(q, e) \in Seq(Event) /\ Len(Append(q, e)) = Len(q) + 1
        /\ \A i \in 1 .. Len(q) : Append(q, e)[i] = q[i]
        /\ Append(q, e)[Len(q) + 1] = e
    BY <1>1
  <2>5. /\ p \in Seq(Event) /\ Len(p) = Len(q) + Bit(set)
        /\ \A i \in 1 .. Len(q) : p[i] = q[i]
        /\ p[Len(q) + 1].type = type /\ p[Len(q) + 1].param = param
    BY <1>1, <1>3, <2>3, <2>4 DEF Bit
  <2> QED
    BY <2>5 DEF p
<1>4. CASE ~set
  <2>1. p = q /\ Bit(set) = 0
    BY <1>4 DEF Post, Bit
  <2> QED
    BY <1>2, <1>4, <2>1
<1> QED
  BY <1>3, <1>4

\* The ring after the events of frame f: p is q and one event for each thing the
\* frame says, its LEDs after its connection.
Heard(q, f, p) ==
    LET new == {i \in 1 .. Len(p) : i > Len(q)}
    IN  /\ Len(q) <= Len(p) /\ \A i \in 1 .. Len(q) : p[i] = q[i]
        /\ \A i \in new :
              \/ f.reset /\ p[i].type = "RESET"
              \/ /\ f.conn # "NONE" /\ p[i].param = f.host
                 /\ p[i].type = ConnectionEvent(f).type
              \/ f.led # -1 /\ p[i].type = "HID_INDICATOR" /\ p[i].param = f.led
              \/ p[i].type = "CONECTION_INTERVAL"
        /\ f.conn # "NONE" =>
              \E i \in new : p[i].type = ConnectionEvent(f).type /\ p[i].param = f.host
        /\ f.led # -1 =>
              \E l \in new :
                 /\ p[l].type = "HID_INDICATOR" /\ p[l].param = f.led
                 /\ \A i \in new : p[i].type = "HID_INDICATOR" => i = l
                 /\ f.conn # "NONE" =>
                       \E i \in new : i < l /\ p[i].type = ConnectionEvent(f).type
                                            /\ p[i].param = f.host

LEMMA ReadHeard ==
    ASSUME NEW s \in Good, NEW f \in Frame, HasRoom(s.evq, f)
    PROVE  LET x == ReadFrame(s, f)
           IN  /\ Heard(s.evq, f, x.evq) /\ x.evq \in Seq(Event)
               /\ x.state = s.state /\ x.host_index = s.host_index /\ x.led_state = s.led_state
               /\ x.pincodeEntry = s.pincodeEntry /\ x.link = s.link /\ x.rb = s.rb
<1> DEFINE ms == IF f.raw # -1 THEN ConnectionInterval(f.raw) ELSE s.connection_interval
           q == s.evq
           set2 == f.conn # "NONE"
           set3 == f.led # -1
           set4 == f.raw # -1
           led == IF f.led # -1 THEN f.led ELSE 0
           type == ConnectionEvent(f).type
           q1 == Post(q, f.reset, "RESET", 0)
           q2 == Post(q1, set2, type, f.host)
           q3 == Post(q2, set3, "HID_INDICATOR", led)
           q4 == Post(q3, set4, "CONECTION_INTERVAL", ms)
           x == ReadFrame(s, f)
           b1 == Bit(f.reset)
           b2 == Bit(set2)
           b3 == Bit(set3)
           b4 == Bit(set4)
<1>1. /\ f.reset \in BOOLEAN /\ f.conn \in ConnectionEvents \cup {"NONE", "UNKNOWN"}
      /\ f.host \in Nat /\ f.led \in Nat \cup {-1} /\ f.raw \in (0 .. 255) \cup {-1}
  BY DEF Frame
<1>2. s \in WirelessState /\ q \in Seq(Event) /\ s.connection_interval \in Nat
  BY DEF Good, Sound, WirelessState, Events
<1>3. ms \in Nat /\ led \in Nat /\ (set3 => led = f.led)
  BY <1>1, <1>2, IntervalNat
<1>4. Post(q2, f.led # -1, "HID_INDICATOR", f.led) = q3
  BY DEF Post
<1>5. /\ x.evq = q4 /\ x.state = s.state /\ x.host_index = s.host_index
      /\ x.led_state = s.led_state /\ x.pincodeEntry = s.pincodeEntry
      /\ x.link = s.link /\ x.rb = s.rb
  BY <1>2, <1>4 DEF ReadFrame, WirelessState
<1>6. type \in EventTypes /\ type \notin {"HID_INDICATOR", "CONECTION_INTERVAL"}
  BY <1>1 DEF ConnectionEvent, EventTypes, ConnectionEvents
<1>7. {"RESET", "HID_INDICATOR", "CONECTION_INTERVAL"} \subseteq EventTypes
  BY DEF EventTypes
<1>8. set2 \in BOOLEAN /\ set3 \in BOOLEAN /\ set4 \in BOOLEAN
  OBVIOUS
<1>9. Len(q) + (b1 + b2 + b3 + b4) < EventQueueSize
  BY DEF HasRoom, Posts
<1>10. /\ b1 \in {0, 1} /\ (b1 = 1 <=> f.reset)
       /\ b2 \in {0, 1} /\ (b2 = 1 <=> set2)
       /\ b3 \in {0, 1} /\ (b3 = 1 <=> set3)
       /\ b4 \in {0, 1}
  BY <1>1, <1>8, BitIs
<1> HIDE DEF ms, set2, set3, set4, led, type, q, x
<1>11. Len(q) + Bit(f.reset) < EventQueueSize /\ Len(q) \in Nat
  BY <1>2, <1>9, <1>10, EventQueueSizeAssumption
<1>12. /\ q1 \in Seq(Event) /\ Len(q1) = Len(q) + b1
       /\ \A i \in 1 .. Len(q) : q1[i] = q[i]
       /\ f.reset => q1[Len(q) + 1].type = "RESET"
  BY <1>1, <1>2, <1>7, <1>11, PostRoom
<1> HIDE DEF q1
<1>13. Len(q1) + Bit(set2) < EventQueueSize
  BY <1>9, <1>10, <1>11, <1>12, EventQueueSizeAssumption
<1>14. /\ q2 \in Seq(Event) /\ Len(q2) = Len(q1) + b2
       /\ \A i \in 1 .. Len(q1) : q2[i] = q1[i]
       /\ set2 => q2[Len(q1) + 1].type = type /\ q2[Len(q1) + 1].param = f.host
  BY <1>1, <1>6, <1>8, <1>12, <1>13, PostRoom
<1> HIDE DEF q2
<1>15. Len(q2) + Bit(set3) < EventQueueSize
  BY <1>9, <1>10, <1>11, <1>12, <1>14, EventQueueSizeAssumption
<1>16. /\ q3 \in Seq(Event) /\ Len(q3) = Len(q2) + b3
       /\ \A i \in 1 .. Len(q2) : q3[i] = q2[i]
       /\ set3 => q3[Len(q2) + 1].type = "HID_INDICATOR" /\ q3[Len(q2) + 1].param = led
  <2>1. led \in Nat /\ "HID_INDICATOR" \in EventTypes /\ set3 \in BOOLEAN /\ q2 \in Seq(Event)
    BY <1>3, <1>7, <1>8, <1>14
  <2> QED
    BY <1>15, <2>1, PostRoom
<1> HIDE DEF q3
<1>17. Len(q3) + Bit(set4) < EventQueueSize
  BY <1>9, <1>10, <1>11, <1>12, <1>14, <1>16, EventQueueSizeAssumption
<1>18. /\ q4 \in Seq(Event) /\ Len(q4) = Len(q3) + b4
       /\ \A i \in 1 .. Len(q3) : q4[i] = q3[i]
       /\ set4 => q4[Len(q3) + 1].type = "CONECTION_INTERVAL"
  <2>1. /\ ms \in Nat /\ "CONECTION_INTERVAL" \in EventTypes /\ set4 \in BOOLEAN
        /\ q3 \in Seq(Event)
    BY <1>3, <1>7, <1>8, <1>16
  <2> QED
    BY <1>17, <2>1, PostRoom
<1>19. b4 = 1 <=> set4
  BY <1>8, BitIs
<1> HIDE DEF q4, b1, b2, b3, b4
<1> DEFINE n == Len(q)
           new == {i \in 1 .. Len(q4) : i > n}
<1>20. /\ n \in Nat /\ Len(q1) = n + b1 /\ Len(q2) = n + b1 + b2
       /\ Len(q3) = n + b1 + b2 + b3 /\ Len(q4) = n + b1 + b2 + b3 + b4
       /\ b4 \in {0, 1}
  BY <1>8, <1>10, <1>11, <1>12, <1>14, <1>16, <1>18
<1>21. /\ \A i \in 1 .. Len(q) : q4[i] = q[i]
       /\ f.reset => q4[n + 1].type = "RESET"
       /\ set2 => q4[n + b1 + 1].type = type /\ q4[n + b1 + 1].param = f.host
       /\ set3 => q4[n + b1 + b2 + 1].type = "HID_INDICATOR" /\ q4[n + b1 + b2 + 1].param = led
       /\ set4 => q4[n + b1 + b2 + b3 + 1].type = "CONECTION_INTERVAL"
  <2>1. \A i \in 1 .. Len(q3) : q4[i] = q3[i]
    BY <1>18
  <2>2. \A i \in 1 .. Len(q2) : q4[i] = q2[i]
    BY <1>10, <1>16, <1>20, <2>1
  <2>3. \A i \in 1 .. Len(q1) : q4[i] = q1[i]
    BY <1>10, <1>14, <1>20, <2>2
  <2>4. \A i \in 1 .. Len(q) : q4[i] = q[i]
    BY <1>10, <1>12, <1>20, <2>3
  <2>5. f.reset => q4[n + 1].type = "RESET"
    BY <1>10, <1>12, <1>20, <2>3
  <2>6. set2 => q4[n + b1 + 1].type = type /\ q4[n + b1 + 1].param = f.host
    BY <1>10, <1>14, <1>20, <2>2
  <2>7. set3 => q4[n + b1 + b2 + 1].type = "HID_INDICATOR" /\ q4[n + b1 + b2 + 1].param = led
    BY <1>10, <1>16, <1>20, <2>1
  <2>8. set4 => q4[n + b1 + b2 + b3 + 1].type = "CONECTION_INTERVAL"
    BY <1>18, <1>20
  <2> QED
    BY <2>4, <2>5, <2>6, <2>7, <2>8
<1> HIDE DEF n
<1>22. ASSUME NEW i \in new
       PROVE  \/ f.reset /\ i = n + 1
              \/ set2 /\ i = n + b1 + 1
              \/ set3 /\ i = n + b1 + b2 + 1
              \/ set4 /\ i = n + b1 + b2 + b3 + 1
  BY <1>10, <1>19, <1>20, <1>22
<1>23. \A i \in new :
          \/ f.reset /\ q4[i].type = "RESET"
          \/ set2 /\ q4[i].param = f.host /\ q4[i].type = type
          \/ set3 /\ q4[i].type = "HID_INDICATOR" /\ q4[i].param = f.led
          \/ q4[i].type = "CONECTION_INTERVAL"
  BY <1>3, <1>21, <1>22
<1>24. set2 => n + b1 + 1 \in new /\ n + b1 + 1 < n + b1 + b2 + 1
  BY <1>10, <1>20
<1>25. set3 => n + b1 + b2 + 1 \in new
  BY <1>10, <1>20
<1>26. ASSUME set3, NEW i \in new, q4[i].type = "HID_INDICATOR"
       PROVE  i = n + b1 + b2 + 1
  BY <1>6, <1>21, <1>22, <1>26
<1> HIDE DEF new
<1>27. set2 => \E i \in new : q4[i].type = type /\ q4[i].param = f.host
  BY <1>21, <1>24
<1>28. set3 => \E l \in new :
                  /\ q4[l].type = "HID_INDICATOR" /\ q4[l].param = f.led
                  /\ \A i \in new : q4[i].type = "HID_INDICATOR" => i = l
                  /\ set2 => \E i \in new : i < l /\ q4[i].type = type /\ q4[i].param = f.host
  BY <1>3, <1>21, <1>24, <1>25, <1>26
<1>29. n <= Len(q4)
  BY <1>10, <1>20
<1>30. Heard(q, f, q4)
  BY <1>21, <1>23, <1>27, <1>28, <1>29 DEF Heard, new, n, set2, set3, type
<1> QED
  BY <1>5, <1>18, <1>30 DEF q, x

\* What is left of the frames when the first has been read, or is to be repeated.
LEMMA RestOut ==
    ASSUME NEW o \in Seq(Frame), o # <<>>, NEW o2 \in {o, Tail(o)}
    PROVE  /\ Head(o) = o[1] /\ Head(o) \in Frame /\ 1 \in 1 .. Len(o) /\ Len(o) \in Nat
           /\ \/ o2 = o
              \/ /\ \A k \in 1 .. Len(o2) : k + 1 \in 1 .. Len(o) /\ o2[k] = o[k + 1]
                 /\ \A i \in 1 .. Len(o) : i > 1 => i - 1 \in 1 .. Len(o2) /\ o2[i - 1] = o[i]
<1>1. /\ Len(o) \in Nat /\ Len(o) > 0 /\ Len(Tail(o)) = Len(o) - 1 /\ Head(o) = o[1]
      /\ \A i \in 1 .. Len(o) - 1 : Tail(o)[i] = o[i + 1]
      /\ Head(o) \in Frame
  OBVIOUS
<1>2. CASE o2 = o
  BY <1>1, <1>2
<1>3. CASE o2 = Tail(o)
  <2>1. \A k \in 1 .. Len(o2) : k + 1 \in 1 .. Len(o) /\ o2[k] = o[k + 1]
    BY <1>1, <1>3
  <2>2. \A i \in 1 .. Len(o) : i > 1 => i - 1 \in 1 .. Len(o2) /\ o2[i - 1] = o[i]
    <3> SUFFICES ASSUME NEW i \in 1 .. Len(o), i > 1
                 PROVE  i - 1 \in 1 .. Len(o2) /\ o2[i - 1] = o[i]
      OBVIOUS
    <3>1. i - 1 \in 1 .. Len(o) - 1 /\ (i - 1) + 1 = i
      BY <1>1
    <3> QED
      BY <1>1, <1>3, <3>1
  <2> QED
    BY <1>1, <2>1, <2>2
<1> QED
  BY <1>2, <1>3

\* The type of the event that tells of a frame's connection.
LEMMA TellsOf ==
    ASSUME NEW f \in Frame
    PROVE  /\ f.conn \in {"CONNECTED", "DISCONNECTED"} => ConnectionEvent(f).type = f.conn
           /\ ConnectionEvent(f).type = "CONNECTED" => f.conn = "CONNECTED"
           /\ ConnectionEvent(f).type # "HID_INDICATOR"
BY DEF ConnectionEvent, Frame, ConnectionEvents

\* x has read the first of the frames of m, and m2 is the module after that.
Hears(s, m, x, m2) ==
    /\ s.evq \in Seq(Event) /\ x.evq \in Seq(Event) /\ m.out \in Seq(Frame) /\ m.out # <<>>
    /\ Heard(s.evq, Head(m.out), x.evq)
    /\ x.state = s.state /\ x.host_index = s.host_index /\ x.led_state = s.led_state
    /\ x.link = s.link /\ x.rb = s.rb
    /\ m2.mode = m.mode /\ m2.target = m.target /\ m2.leds = m.leds
    /\ m2.out \in {m.out, Tail(m.out)}

LEMMA HearsEnd ==
    ASSUME NEW s, NEW m, NEW x, NEW m2, Hears(s, m, x, m2)
    PROVE  /\ Ending(m.out) => \/ Ending(m2.out)
                               \/ \E j \in 1 .. Len(x.evq) :
                                     j > Len(s.evq) /\ x.evq[j].type = "DISCONNECTED"
           /\ Ended(s.evq) => Ended(x.evq)
           /\ Ended(s.evq) \/ Ending(m.out) => Ended(x.evq) \/ Ending(m2.out)
<1> DEFINE q == s.evq
           p == x.evq
           o == m.out
           o2 == m2.out
           f == Head(o)
<1>1. /\ q \in Seq(Event) /\ p \in Seq(Event) /\ o \in Seq(Frame) /\ o # <<>>
      /\ Heard(q, f, p) /\ o2 \in {o, Tail(o)}
  BY DEF Hears
<1> HIDE DEF q, p, o, o2, f
<1>2. /\ f = o[1] /\ f \in Frame
      /\ \/ o2 = o
         \/ /\ \A k \in 1 .. Len(o2) : k + 1 \in 1 .. Len(o) /\ o2[k] = o[k + 1]
            /\ \A i \in 1 .. Len(o) : i > 1 => i - 1 \in 1 .. Len(o2) /\ o2[i - 1] = o[i]
  BY <1>1, RestOut DEF f
<1>3. Ending(o) => Ending(o2) \/ f.conn = "DISCONNECTED"
  <2> SUFFICES ASSUME NEW i \in 1 .. Len(o), o[i].conn = "DISCONNECTED"
               PROVE  Ending(o2) \/ f.conn = "DISCONNECTED"
    BY DEF Ending
  <2>1. CASE i = 1
    BY <1>2, <2>1
  <2>2. CASE i # 1
    <3>1. i > 1
      BY <2>2
    <3> QED
      BY <1>2, <3>1 DEF Ending
  <2> QED
    BY <2>1, <2>2
<1>4. f.conn = "DISCONNECTED" =>
         \E j \in 1 .. Len(p) : j > Len(q) /\ p[j].type = "DISCONNECTED"
  BY <1>1, <1>2, TellsOf DEF Heard
<1>5. Ended(q) => Ended(p)
  <2>1. Len(q) \in Nat /\ Len(p) \in Nat /\ Len(q) <= Len(p) /\ \A i \in 1 .. Len(q) : p[i] = q[i]
    BY <1>1 DEF Heard
  <2>2. \A i \in 1 .. Len(q) : i \in 1 .. Len(p)
    BY <2>1
  <2> QED
    BY <2>1, <2>2 DEF Ended
<1> QED
  BY <1>3, <1>4, <1>5 DEF Ended, q, p, o, o2

LEMMA HearsApart ==
    ASSUME NEW s, NEW m, NEW x, NEW m2, Hears(s, m, x, m2), Apart(s, m)
    PROVE  Apart(x, m2)
<1> DEFINE q == s.evq
           p == x.evq
           o == m.out
           o2 == m2.out
           f == Head(o)
           n == Len(q)
<1>1. /\ q \in Seq(Event) /\ p \in Seq(Event) /\ o \in Seq(Frame) /\ o # <<>>
      /\ Heard(q, f, p) /\ o2 \in {o, Tail(o)}
      /\ x.state = s.state /\ x.led_state = s.led_state
  BY DEF Hears
<1>2. /\ \A i \in 1 .. Len(o) :
            o[i].conn = "CONNECTED" \/ o[i].led # -1 =>
                \E j \in 1 .. Len(o) : j > i /\ o[j].conn = "DISCONNECTED"
      /\ \A i \in 1 .. n :
            q[i].type \in {"CONNECTED", "HID_INDICATOR"} =>
                \/ Ending(o)
                \/ \E j \in 1 .. n : j > i /\ q[j].type = "DISCONNECTED"
      /\ s.state = "CONNECTED" \/ s.led_state # 0 => Ended(q) \/ Ending(o)
  BY DEF Apart
<1>3. /\ Ending(o) => \/ Ending(o2)
                      \/ \E j \in 1 .. Len(p) : j > n /\ p[j].type = "DISCONNECTED"
      /\ Ended(q) \/ Ending(o) => Ended(p) \/ Ending(o2)
  BY HearsEnd
<1>4. n \in Nat /\ Len(p) \in Nat /\ n <= Len(p) /\ \A i \in 1 .. n : p[i] = q[i]
  BY <1>1 DEF Heard
<1> HIDE DEF q, p, o, o2, f, n
<1>5. /\ f = o[1] /\ f \in Frame /\ 1 \in 1 .. Len(o) /\ Len(o) \in Nat
      /\ \/ o2 = o
         \/ /\ \A k \in 1 .. Len(o2) : k + 1 \in 1 .. Len(o) /\ o2[k] = o[k + 1]
            /\ \A i \in 1 .. Len(o) : i > 1 => i - 1 \in 1 .. Len(o2) /\ o2[i - 1] = o[i]
  BY <1>1, RestOut DEF f
<1>6. \A i \in 1 .. Len(o2) :
         o2[i].conn = "CONNECTED" \/ o2[i].led # -1 =>
             \E j \in 1 .. Len(o2) : j > i /\ o2[j].conn = "DISCONNECTED"
  <2>1. CASE o2 = o
    BY <1>2, <2>1
  <2>2. CASE /\ \A k \in 1 .. Len(o2) : k + 1 \in 1 .. Len(o) /\ o2[k] = o[k + 1]
             /\ \A i \in 1 .. Len(o) : i > 1 => i - 1 \in 1 .. Len(o2) /\ o2[i - 1] = o[i]
    <3> SUFFICES ASSUME NEW k \in 1 .. Len(o2), o2[k].conn = "CONNECTED" \/ o2[k].led # -1
                 PROVE  \E j \in 1 .. Len(o2) : j > k /\ o2[j].conn = "DISCONNECTED"
      OBVIOUS
    <3>1. PICK j \in 1 .. Len(o) : j > k + 1 /\ o[j].conn = "DISCONNECTED"
      BY <1>2, <2>2
    <3>2. j > 1 /\ j - 1 > k
      BY <3>1
    <3>3. j - 1 \in 1 .. Len(o2) /\ o2[j - 1] = o[j]
      BY <2>2, <3>2
    <3> QED
      BY <3>1, <3>2, <3>3
  <2> QED
    BY <1>5, <2>1, <2>2
<1>7. f.conn = "CONNECTED" \/ f.led # -1 => Ending(o2)
  <2> SUFFICES ASSUME f.conn = "CONNECTED" \/ f.led # -1
               PROVE  Ending(o2)
    OBVIOUS
  <2>1. PICK j \in 1 .. Len(o) : j > 1 /\ o[j].conn = "DISCONNECTED"
    BY <1>2, <1>5
  <2> QED
    BY <1>5, <2>1 DEF Ending
<1>8. \A i \in 1 .. Len(p) :
         p[i].type \in {"CONNECTED", "HID_INDICATOR"} =>
             \/ Ending(o2)
             \/ \E j \in 1 .. Len(p) : j > i /\ p[j].type = "DISCONNECTED"
  <2> SUFFICES ASSUME NEW i \in 1 .. Len(p), p[i].type \in {"CONNECTED", "HID_INDICATOR"}
               PROVE  \/ Ending(o2)
                      \/ \E j \in 1 .. Len(p) : j > i /\ p[j].type = "DISCONNECTED"
    OBVIOUS
  <2>1. CASE i <= n
    <3>1. i \in 1 .. n /\ q[i] = p[i]
      BY <1>4, <2>1
    <3>2. CASE Ending(o)
      <4>1. ASSUME NEW j \in 1 .. Len(p), j > n
            PROVE  j > i
        BY <1>4, <2>1, <4>1
      <4> QED
        BY <1>3, <3>2, <4>1
    <3>3. CASE \E j \in 1 .. n : j > i /\ q[j].type = "DISCONNECTED"
      <4>1. PICK j \in 1 .. n : j > i /\ q[j].type = "DISCONNECTED"
        BY <3>3
      <4>2. j \in 1 .. Len(p) /\ p[j] = q[j]
        BY <1>4
      <4> QED
        BY <4>1, <4>2
    <3> QED
      BY <1>2, <3>1, <3>2, <3>3
  <2>2. CASE i > n
    <3>1. f.conn = "CONNECTED" \/ f.led # -1
      BY <1>1, <1>5, <2>2, TellsOf DEF Heard, n
    <3> QED
      BY <1>7, <3>1
  <2> QED
    BY <1>4, <2>1, <2>2
<1>9. x.state = "CONNECTED" \/ x.led_state # 0 => Ended(p) \/ Ending(o2)
  BY <1>1, <1>2, <1>3
<1> QED
  BY <1>6, <1>8, <1>9 DEF Apart, p, o2

\* The LEDs that wait in the frames move on to the ring.
LEMMA HearsShown ==
    ASSUME NEW s, NEW m, NEW x, NEW m2, Hears(s, m, x, m2), m.leds \in Nat,
           LastSaid(s.evq, m.out, s.led_state, m.leds)
    PROVE  LastSaid(x.evq, m2.out, x.led_state, m2.leds)
<1> DEFINE q == s.evq
           p == x.evq
           o == m.out
           o2 == m2.out
           f == Head(o)
           n == Len(q)
           v == m.leds
           l == s.led_state
<1>1. /\ q \in Seq(Event) /\ p \in Seq(Event) /\ o \in Seq(Frame) /\ o # <<>>
      /\ Heard(q, f, p) /\ o2 \in {o, Tail(o)}
      /\ x.led_state = l /\ m2.leds = v
  BY DEF Hears
<1>2. n \in Nat /\ Len(p) \in Nat /\ n <= Len(p) /\ \A i \in 1 .. n : p[i] = q[i]
  BY <1>1 DEF Heard
<1>3. LastSaid(q, o, l, v) /\ v # -1
  OBVIOUS
<1> HIDE DEF q, p, o, o2, f, n, v, l
<1>4. /\ f = o[1] /\ f \in Frame /\ 1 \in 1 .. Len(o) /\ Len(o) \in Nat
      /\ \/ o2 = o
         \/ /\ \A k \in 1 .. Len(o2) : k + 1 \in 1 .. Len(o) /\ o2[k] = o[k + 1]
            /\ \A i \in 1 .. Len(o) : i > 1 => i - 1 \in 1 .. Len(o2) /\ o2[i - 1] = o[i]
  BY <1>1, RestOut DEF f
<1> SUFFICES LastSaid(p, o2, l, v)
  BY <1>1 DEF p, o2
<1>5. ASSUME f.led = v
      PROVE  LastShown(p, l, v)
  <2>1. PICK i \in 1 .. Len(p) :
           /\ i > n /\ p[i].type = "HID_INDICATOR" /\ p[i].param = v
           /\ \A j \in 1 .. Len(p) : j > n => (p[j].type = "HID_INDICATOR" => j = i)
    BY <1>1, <1>3, <1>5 DEF Heard, n
  <2>2. \A j \in 1 .. Len(p) : j > i => p[j].type # "HID_INDICATOR"
    BY <1>2, <2>1
  <2> QED
    BY <2>1, <2>2 DEF LastShown
<1>6. ASSUME f.led = -1, LastShown(q, l, v)
      PROVE  LastShown(p, l, v)
  <2>1. \A i \in 1 .. Len(p) : i > n => p[i].type # "HID_INDICATOR"
    BY <1>1, <1>4, <1>6, TellsOf DEF Heard, n
  <2>2. \A i \in 1 .. Len(p) : i <= n => i \in 1 .. n /\ p[i] = q[i]
    BY <1>2
  <2>3. \A i \in 1 .. n : i \in 1 .. Len(p) /\ p[i] = q[i]
    BY <1>2
  <2>4. \A i \in 1 .. Len(p) : i <= n \/ i > n
    BY <1>2
  <2>5. CASE \E i \in 1 .. n :
                /\ q[i].type = "HID_INDICATOR" /\ q[i].param = v
                /\ \A j \in 1 .. n : j > i => q[j].type # "HID_INDICATOR"
    BY <2>1, <2>2, <2>3, <2>4, <2>5 DEF LastShown
  <2>6. CASE l = v /\ \A i \in 1 .. n : q[i].type # "HID_INDICATOR"
    BY <2>1, <2>2, <2>4, <2>6 DEF LastShown
  <2> QED
    BY <1>6, <2>5, <2>6 DEF LastShown, n
<1>7. CASE \E i \in 1 .. Len(o) : /\ o[i].led = v
                                 /\ \A j \in 1 .. Len(o) : j > i => o[j].led = -1
  <2> PICK i \in 1 .. Len(o) : /\ o[i].led = v
                               /\ \A j \in 1 .. Len(o) : j > i => o[j].led = -1
    BY <1>7
  <2>1. CASE o2 = o
    BY <2>1 DEF LastSaid
  <2>2. CASE o2 # o
    <3>1. /\ \A k \in 1 .. Len(o2) : k + 1 \in 1 .. Len(o) /\ o2[k] = o[k + 1]
          /\ \A j \in 1 .. Len(o) : j > 1 => j - 1 \in 1 .. Len(o2) /\ o2[j - 1] = o[j]
      BY <1>4, <2>2
    <3>2. CASE i = 1
      <4>1. \A k \in 1 .. Len(o2) : o2[k].led = -1
        <5> TAKE k \in 1 .. Len(o2)
        <5>1. k + 1 > 1
          OBVIOUS
        <5> QED
          BY <3>1, <3>2, <5>1
      <4> QED
        BY <1>4, <1>5, <3>2, <4>1 DEF LastSaid
    <3>3. CASE i # 1
      <4>1. i > 1
        BY <3>3
      <4>2. i - 1 \in 1 .. Len(o2) /\ o2[i - 1].led = v
        BY <3>1, <4>1
      <4>3. \A k \in 1 .. Len(o2) : k > i - 1 => o2[k].led = -1
        <5> SUFFICES ASSUME NEW k \in 1 .. Len(o2), k > i - 1
                     PROVE  o2[k].led = -1
          OBVIOUS
        <5>1. k + 1 > i
          OBVIOUS
        <5>2. k + 1 \in 1 .. Len(o) /\ o2[k] = o[k + 1]
          BY <3>1
        <5>3. o[k + 1].led = -1
          BY <5>1, <5>2
        <5> QED
          BY <5>2, <5>3
      <4> QED
        BY <4>2, <4>3 DEF LastSaid
    <3> QED
      BY <3>2, <3>3
  <2> QED
    BY <2>1, <2>2
<1>8. CASE LastShown(q, l, v) /\ \A i \in 1 .. Len(o) : o[i].led = -1
  <2>1. LastShown(p, l, v)
    BY <1>4, <1>6, <1>8
  <2>2. \A i \in 1 .. Len(o2) : o2[i].led = -1
    BY <1>4, <1>8
  <2> QED
    BY <2>1, <2>2 DEF LastSaid
<1> QED
  BY <1>3, <1>7, <1>8 DEF LastSaid

\* So does the connection, and it stays ahead of the LEDs.
LEMMA HearsComing ==
    ASSUME NEW s, NEW m, NEW x, NEW m2, Hears(s, m, x, m2), Coming(s.evq, m.out)
    PROVE  Coming(x.evq, m2.out)
<1> DEFINE q == s.evq
           p == x.evq
           o == m.out
           o2 == m2.out
           f == Head(o)
           n == Len(q)
<1>1. /\ q \in Seq(Event) /\ p \in Seq(Event) /\ o \in Seq(Frame) /\ o # <<>>
      /\ Heard(q, f, p) /\ o2 \in {o, Tail(o)}
  BY DEF Hears
<1>2. n \in Nat /\ Len(p) \in Nat /\ n <= Len(p) /\ \A i \in 1 .. n : p[i] = q[i]
  BY <1>1 DEF Heard
<1>3. /\ Announced(q, o)
      /\ \A i \in 1 .. n :
            q[i].type = "HID_INDICATOR" => \E j \in 1 .. i : q[j].type = "CONNECTED"
      /\ \A i \in 1 .. Len(o) :
            o[i].led # -1 => Posted(q) \/ \E j \in 1 .. i : o[j].conn = "CONNECTED"
  BY DEF Coming
<1> HIDE DEF q, p, o, o2, f, n
<1>4. /\ f = o[1] /\ f \in Frame /\ 1 \in 1 .. Len(o) /\ Len(o) \in Nat
      /\ \/ o2 = o
         \/ /\ \A k \in 1 .. Len(o2) : k + 1 \in 1 .. Len(o) /\ o2[k] = o[k + 1]
            /\ \A i \in 1 .. Len(o) : i > 1 => i - 1 \in 1 .. Len(o2) /\ o2[i - 1] = o[i]
  BY <1>1, RestOut DEF f
<1>5. \A i \in 1 .. n : i \in 1 .. Len(p) /\ p[i] = q[i]
  BY <1>2
<1>6. Posted(q) => Posted(p)
  BY <1>5 DEF Posted, n
<1>7. f.conn = "CONNECTED" => Posted(p)
  BY <1>1, <1>4, TellsOf DEF Heard, Posted
<1>8. \A i \in 1 .. Len(o) :
         o[i].conn = "CONNECTED" =>
             \/ Posted(p)
             \/ i > 1 /\ (o2 = o \/ (i - 1 \in 1 .. Len(o2) /\ o2[i - 1] = o[i]))
  <2> SUFFICES ASSUME NEW i \in 1 .. Len(o), o[i].conn = "CONNECTED", ~Posted(p)
               PROVE  i > 1 /\ (o2 = o \/ (i - 1 \in 1 .. Len(o2) /\ o2[i - 1] = o[i]))
    OBVIOUS
  <2>1. i # 1
    BY <1>4, <1>7
  <2>2. i > 1
    BY <2>1
  <2> QED
    BY <1>4, <2>2
<1>9. Announced(p, o2)
  BY <1>3, <1>6, <1>8 DEF Announced
<1>10. \A i \in 1 .. Len(p) :
          p[i].type = "HID_INDICATOR" => \E j \in 1 .. i : p[j].type = "CONNECTED"
  <2> SUFFICES ASSUME NEW i \in 1 .. Len(p), p[i].type = "HID_INDICATOR"
               PROVE  \E j \in 1 .. i : p[j].type = "CONNECTED"
    OBVIOUS
  <2>1. CASE i <= n
    <3>1. i \in 1 .. n /\ q[i].type = "HID_INDICATOR"
      BY <1>2, <2>1
    <3>2. PICK j \in 1 .. i : q[j].type = "CONNECTED"
      BY <1>3, <3>1
    <3>3. j \in 1 .. n
      BY <1>2, <3>1
    <3> QED
      BY <1>5, <3>2, <3>3
  <2>2. CASE i > n
    <3>1. f.led # -1
      BY <1>1, <1>4, <2>2, TellsOf DEF Heard, n
    <3>2. f.conn # "NONE" =>
             \E j \in 1 .. Len(p) : j < i /\ p[j].type = ConnectionEvent(f).type
      BY <1>1, <2>2, <3>1 DEF Heard, n
    <3>3. CASE Posted(q)
      <4>1. PICK j \in 1 .. n : q[j].type = "CONNECTED"
        BY <3>3 DEF Posted, n
      <4>2. j \in 1 .. i /\ p[j] = q[j]
        BY <1>2, <2>2
      <4> QED
        BY <4>1, <4>2
    <3>4. CASE f.conn = "CONNECTED"
      <4>1. PICK j \in 1 .. Len(p) : j < i /\ p[j].type = "CONNECTED"
        BY <1>4, <3>2, <3>4, TellsOf
      <4>2. j \in 1 .. i
        BY <4>1
      <4> QED
        BY <4>1, <4>2
    <3> QED
      BY <1>3, <1>4, <3>1, <3>3, <3>4
  <2> QED
    BY <1>2, <2>1, <2>2
<1>11. \A i \in 1 .. Len(o2) :
          o2[i].led # -1 => Posted(p) \/ \E j \in 1 .. i : o2[j].conn = "CONNECTED"
  <2>1. CASE o2 = o
    BY <1>3, <1>6, <2>1
  <2>2. CASE o2 # o
    <3> SUFFICES ASSUME NEW k \in 1 .. Len(o2), o2[k].led # -1, ~Posted(p)
                 PROVE  \E j \in 1 .. k : o2[j].conn = "CONNECTED"
      OBVIOUS
    <3>1. k + 1 \in 1 .. Len(o) /\ o2[k] = o[k + 1]
      BY <1>4, <2>2
    <3>2. PICK j \in 1 .. k + 1 : o[j].conn = "CONNECTED"
      BY <1>3, <1>6, <3>1
    <3>3. j \in 1 .. Len(o)
      BY <3>1
    <3>4. j > 1 /\ j - 1 \in 1 .. Len(o2) /\ o2[j - 1] = o[j]
      BY <1>8, <2>2, <3>2, <3>3
    <3>5. j - 1 \in 1 .. k
      BY <3>4
    <3> QED
      BY <3>2, <3>4, <3>5
  <2> QED
    BY <2>1, <2>2
<1>12. Coming(p, o2)
  BY <1>9, <1>10, <1>11 DEF Coming
<1> QED
  BY <1>12 DEF p, o2

LEMMA HearsTogether ==
    ASSUME NEW s, NEW m, NEW x, NEW m2, Hears(s, m, x, m2), m.leds \in Nat, Together(s, m)
    PROVE  Together(x, m2)
<1> DEFINE q == s.evq
           p == x.evq
           o == m.out
           o2 == m2.out
           f == Head(o)
           n == Len(q)
           t == m.target
<1>1. /\ q \in Seq(Event) /\ p \in Seq(Event) /\ o \in Seq(Frame) /\ o # <<>>
      /\ Heard(q, f, p) /\ o2 \in {o, Tail(o)}
      /\ x.state = s.state /\ x.host_index = s.host_index /\ x.led_state = s.led_state
      /\ x.link = s.link /\ m2.target = t /\ m2.leds = m.leds
  BY DEF Hears
<1>2. /\ \A i \in 1 .. Len(o) : UpFrame(o[i], t)
      /\ \A i \in 1 .. n : UpEvent(q[i], t)
      /\ s.state = "CONNECTED" => s.host_index = t
      /\ ~Leaving(s.link, t) =>
            /\ LastSaid(q, o, s.led_state, m.leds)
            /\ s.state # "CONNECTED" => s.led_state = 0 /\ Coming(q, o)
  BY DEF Together
<1>3. n \in Nat /\ Len(p) \in Nat /\ n <= Len(p) /\ \A i \in 1 .. n : p[i] = q[i]
  BY <1>1 DEF Heard
<1>4. /\ LastSaid(q, o, s.led_state, m.leds) => LastSaid(p, o2, x.led_state, m2.leds)
      /\ Coming(q, o) => Coming(p, o2)
  BY HearsShown, HearsComing
<1> HIDE DEF q, p, o, o2, f, n, t
<1>5. /\ f = o[1] /\ f \in Frame /\ 1 \in 1 .. Len(o)
      /\ \/ o2 = o
         \/ \A k \in 1 .. Len(o2) : k + 1 \in 1 .. Len(o) /\ o2[k] = o[k + 1]
  BY <1>1, RestOut DEF f
<1>6. \A i \in 1 .. Len(o2) : UpFrame(o2[i], t)
  BY <1>2, <1>5
<1>7. \A i \in 1 .. Len(p) : UpEvent(p[i], t)
  <2> SUFFICES ASSUME NEW i \in 1 .. Len(p)
               PROVE  UpEvent(p[i], t)
    OBVIOUS
  <2>1. CASE i <= n
    BY <1>2, <1>3, <2>1
  <2>2. CASE i > n
    <3>1. ~f.reset /\ f.conn \in {"NONE", "CONNECTED"} /\ (f.conn = "CONNECTED" => f.host = t)
      BY <1>2, <1>5 DEF UpFrame
    <3>2. \/ f.conn # "NONE" /\ p[i].param = f.host /\ p[i].type = ConnectionEvent(f).type
          \/ p[i].type \in {"HID_INDICATOR", "CONECTION_INTERVAL"}
      BY <1>1, <2>2, <3>1 DEF Heard, n
    <3> QED
      BY <1>5, <3>1, <3>2, TellsOf DEF UpEvent
  <2> QED
    BY <1>3, <2>1, <2>2
<1>8. x.state = "CONNECTED" => x.host_index = t
  BY <1>1, <1>2
<1>9. ~Leaving(x.link, t) =>
          /\ LastSaid(p, o2, x.led_state, m2.leds)
          /\ x.state # "CONNECTED" => x.led_state = 0 /\ Coming(p, o2)
  BY <1>1, <1>2, <1>4
<1> QED
  BY <1>1, <1>6, <1>7, <1>8, <1>9 DEF Together, p, o2

LEMMA HearsHost ==
    ASSUME NEW s, NEW m, NEW x, NEW m2, Hears(s, m, x, m2), ForHost(s, m)
    PROVE  ForHost(x, m2)
<1>1. /\ x.rb = s.rb /\ x.link = s.link /\ m2.mode = m.mode /\ m2.target = m.target
      /\ Ended(s.evq) \/ Ending(m.out) => Ended(x.evq) \/ Ending(m2.out)
  BY HearsEnd DEF Hears
<1> QED
  BY <1>1 DEF ForHost

\* An answer may only take the report in flight from the buffer.
LEMMA AckHost ==
    ASSUME NEW s \in Good, NEW code, NEW m, ForHost(s, m)
    PROVE  ForHost(ack_handler(s, code), m)
<1> DEFINE x == ack_handler(s, code)
<1>1. s \in WirelessState /\ s.rb \in Buffer
  BY BufferOf, GoodIsSound DEF Good, Sound
<1>2. x.evq = s.evq /\ x.link = s.link
  BY <1>1 DEF ack_handler, WirelessState
<1>3. /\ x.rb.queue = s.rb.queue /\ x.rb.kb_rpt = s.rb.kb_rpt
      /\ x.rb.retry \in {s.rb.retry, 0}
  BY <1>1 DEF ack_handler, WirelessState, report_buffer_set_inverval,
              report_buffer_set_retry, Buffer
<1> HIDE DEF x
<1>4. Buffered(x.rb) \subseteq Buffered(s.rb)
  BY <1>3 DEF Buffered
<1>5. ForHost(x, m)
  BY <1>2, <1>4 DEF ForHost
<1> QED
  BY <1>5 DEF x

\* One read of the module, its frame heard and its answer applied.
LEMMA DriverTaskKnown ==
    ASSUME NEW s \in Good, NEW m \in RadioState, NEW m2, LinkKnown(s, m),
           m2.mode = m.mode, m2.target = m.target, m2.leds = m.leds,
           m2.out \in {m.out, Rest(m.out)},
           m.out # <<>> => HasRoom(s.evq, Head(m.out))
    PROVE  LET x == lkbt51_task(s, m)
           IN  /\ LinkKnown(x, m2) /\ (ForHost(s, m) => ForHost(x, m2))
               /\ x.state = s.state /\ x.pincodeEntry = s.pincodeEntry
<1> DEFINE t == IF m.out = <<>> THEN s ELSE ReadFrame(s, Head(m.out))
           x == lkbt51_task(s, m)
<1>1. m.out \in Seq(Frame) /\ m.leds \in Nat
  BY DEF RadioState
<1>2. /\ t \in Good /\ LinkKnown(t, m2) /\ (ForHost(s, m) => ForHost(t, m2))
      /\ t.state = s.state /\ t.pincodeEntry = s.pincodeEntry
  <2>1. CASE m.out = <<>>
    <3>1. t = s /\ m2.out = m.out
      BY <2>1 DEF Rest
    <3>2. LinkKnown(s, m2)
      BY <3>1 DEF LinkKnown, Together, Apart
    <3>3. ForHost(s, m) => ForHost(s, m2)
      BY <3>1 DEF ForHost
    <3> QED
      BY <3>1, <3>2, <3>3
  <2>2. CASE m.out # <<>>
    <3> DEFINE f == Head(m.out)
    <3>1. f \in Frame /\ HasRoom(s.evq, f) /\ m2.out \in {m.out, Tail(m.out)}
      BY <1>1, <2>2 DEF Rest
    <3>2. t = ReadFrame(s, f) /\ t \in Good
      BY <2>2, <3>1, ReadFrameGood
    <3>3. /\ Heard(s.evq, f, t.evq) /\ t.evq \in Seq(Event)
          /\ t.state = s.state /\ t.host_index = s.host_index /\ t.led_state = s.led_state
          /\ t.pincodeEntry = s.pincodeEntry /\ t.link = s.link /\ t.rb = s.rb
      BY <3>1, <3>2, ReadHeard
    <3>4. s.evq \in Seq(Event)
      BY DEF Good, Sound, WirelessState, Events
    <3> HIDE DEF t
    <3>5. Hears(s, m, t, m2)
      BY <1>1, <2>2, <3>1, <3>3, <3>4 DEF Hears
    <3>6. LinkKnown(t, m2)
      BY <1>1, <3>5, HearsTogether, HearsApart DEF LinkKnown
    <3>7. ForHost(s, m) => ForHost(t, m2)
      BY <3>5, HearsHost
    <3> QED
      BY <3>2, <3>3, <3>6, <3>7
  <2> QED
    BY <2>1, <2>2
<1> HIDE DEF t
<1>3. x = t \/ x = ack_handler(t, Head(m.acks))
  BY DEF lkbt51_task, t
<1> DEFINE y == ack_handler(t, Head(m.acks))
<1>4. LinkKnown(y, m2)
  BY <1>2, AckFollows, KnownFollows
<1>5. ForHost(s, m) => ForHost(y, m2)
  BY <1>2, AckHost
<1>6. y.state = t.state /\ y.pincodeEntry = t.pincodeEntry
  <2>1. t \in WirelessState
    BY <1>2 DEF Good, Sound
  <2> QED
    BY <2>1 DEF ack_handler, WirelessState
<1> QED
  BY <1>2, <1>3, <1>4, <1>5, <1>6

-----------------------------------------------------------------------------
\* u is s without its oldest event.
Dequeued(s, u) ==
    /\ s.evq \in Seq(Event) /\ s.evq # <<>> /\ u.evq = Tail(s.evq)
    /\ u.state = s.state /\ u.host_index = s.host_index /\ u.led_state = s.led_state
    /\ u.pincodeEntry = s.pincodeEntry /\ u.link = s.link /\ u.rb = s.rb

LEMMA RestEvents ==
    ASSUME NEW q \in Seq(Event), q # <<>>
    PROVE  /\ Head(q) = q[1] /\ Head(q) \in Event /\ 1 \in 1 .. Len(q)
           /\ \A k \in 1 .. Len(Tail(q)) : k + 1 \in 1 .. Len(q) /\ Tail(q)[k] = q[k + 1]
           /\ \A i \in 1 .. Len(q) : i > 1 => /\ i - 1 \in 1 .. Len(Tail(q))
                                              /\ Tail(q)[i - 1] = q[i]
<1> DEFINE p == Tail(q)
<1>1. /\ Len(q) \in Nat /\ Len(q) > 0 /\ Len(p) = Len(q) - 1 /\ Head(q) = q[1]
      /\ \A i \in 1 .. Len(q) - 1 : p[i] = q[i + 1]
      /\ Head(q) \in Event
  OBVIOUS
<1> HIDE DEF p
<1>2. \A k \in 1 .. Len(p) : k + 1 \in 1 .. Len(q) /\ p[k] = q[k + 1]
  BY <1>1
<1>3. \A i \in 1 .. Len(q) : i > 1 => i - 1 \in 1 .. Len(p) /\ p[i - 1] = q[i]
  <2> SUFFICES ASSUME NEW i \in 1 .. Len(q), i > 1
               PROVE  i - 1 \in 1 .. Len(p) /\ p[i - 1] = q[i]
    OBVIOUS
  <2>1. i - 1 \in 1 .. Len(q) - 1 /\ (i - 1) + 1 = i
    BY <1>1
  <2> QED
    BY <1>1, <2>1
<1> QED
  BY <1>1, <1>2, <1>3 DEF p

\* Without a link: a connection and LEDs that are handled now will be taken back.
LEMMA ApartEvent ==
    ASSUME NEW m, NEW s, NEW u, NEW y, Dequeued(s, u), Apart(s, m), y.evq = u.evq,
           y.state = "CONNECTED" => s.state = "CONNECTED" \/ Head(s.evq).type = "CONNECTED",
           y.led_state # 0 => s.led_state # 0 \/ Head(s.evq).type = "HID_INDICATOR",
           Head(s.evq).type = "DISCONNECTED" => y.state # "CONNECTED" /\ y.led_state = 0
    PROVE  Apart(y, m)
<1> DEFINE q == s.evq
           p == y.evq
           o == m.out
<1>1. q \in Seq(Event) /\ q # <<>> /\ p = Tail(q)
  BY DEF Dequeued
<1>2. /\ \A i \in 1 .. Len(o) :
            o[i].conn = "CONNECTED" \/ o[i].led # -1 =>
                \E j \in 1 .. Len(o) : j > i /\ o[j].conn = "DISCONNECTED"
      /\ \A i \in 1 .. Len(q) :
            q[i].type \in {"CONNECTED", "HID_INDICATOR"} =>
                \/ Ending(o)
                \/ \E j \in 1 .. Len(q) : j > i /\ q[j].type = "DISCONNECTED"
      /\ s.state = "CONNECTED" \/ s.led_state # 0 => Ended(q) \/ Ending(o)
  BY DEF Apart
<1>3. /\ y.state = "CONNECTED" => s.state = "CONNECTED" \/ Head(q).type = "CONNECTED"
      /\ y.led_state # 0 => s.led_state # 0 \/ Head(q).type = "HID_INDICATOR"
      /\ Head(q).type = "DISCONNECTED" => y.state # "CONNECTED" /\ y.led_state = 0
  OBVIOUS
<1> HIDE DEF q, p, o
<1>4. /\ Head(q) = q[1] /\ 1 \in 1 .. Len(q)
      /\ \A k \in 1 .. Len(p) : k + 1 \in 1 .. Len(q) /\ p[k] = q[k + 1]
      /\ \A i \in 1 .. Len(q) : i > 1 => i - 1 \in 1 .. Len(p) /\ p[i - 1] = q[i]
  BY <1>1, RestEvents
<1>5. \A i \in 1 .. Len(p) :
         p[i].type \in {"CONNECTED", "HID_INDICATOR"} =>
             \/ Ending(o)
             \/ \E j \in 1 .. Len(p) : j > i /\ p[j].type = "DISCONNECTED"
  <2> SUFFICES ASSUME NEW k \in 1 .. Len(p), p[k].type \in {"CONNECTED", "HID_INDICATOR"},
                      ~Ending(o)
               PROVE  \E j \in 1 .. Len(p) : j > k /\ p[j].type = "DISCONNECTED"
    OBVIOUS
  <2>1. PICK j \in 1 .. Len(q) : j > k + 1 /\ q[j].type = "DISCONNECTED"
    BY <1>2, <1>4
  <2>2. j > 1 /\ j - 1 > k
    BY <2>1
  <2>3. j - 1 \in 1 .. Len(p) /\ p[j - 1] = q[j]
    BY <1>4, <2>2
  <2> QED
    BY <2>1, <2>2, <2>3
<1>6. Ended(q) /\ q[1].type # "DISCONNECTED" => Ended(p)
  <2> SUFFICES ASSUME NEW i \in 1 .. Len(q), q[i].type = "DISCONNECTED",
                      q[1].type # "DISCONNECTED"
               PROVE  Ended(p)
    BY DEF Ended
  <2>1. i # 1
    OBVIOUS
  <2>2. i > 1
    BY <2>1
  <2> QED
    BY <1>4, <2>2 DEF Ended
<1>7. q[1].type \in {"CONNECTED", "HID_INDICATOR"} => Ended(p) \/ Ending(o)
  <2> SUFFICES ASSUME q[1].type \in {"CONNECTED", "HID_INDICATOR"}, ~Ending(o)
               PROVE  Ended(p)
    OBVIOUS
  <2>1. PICK j \in 1 .. Len(q) : j > 1 /\ q[j].type = "DISCONNECTED"
    BY <1>2, <1>4
  <2> QED
    BY <1>4, <2>1 DEF Ended
<1>8. y.state = "CONNECTED" \/ y.led_state # 0 => Ended(p) \/ Ending(o)
  BY <1>2, <1>3, <1>4, <1>6, <1>7
<1> QED
  BY <1>2, <1>5, <1>8 DEF Apart, p, o

\* Without a link the buffer holds what it held, or the disconnection has emptied it.
LEMMA ApartHost ==
    ASSUME NEW m, m.mode # "up", NEW s, NEW u, NEW y, Dequeued(s, u), ForHost(s, m),
           y.evq = u.evq, Buffered(y.rb) \subseteq Buffered(s.rb),
           Head(s.evq).type = "DISCONNECTED" => Buffered(y.rb) = {}
    PROVE  ForHost(y, m)
<1> DEFINE q == s.evq
           p == y.evq
<1>1. q \in Seq(Event) /\ q # <<>> /\ p = Tail(q)
  BY DEF Dequeued
<1>2. Head(q).type = "DISCONNECTED" => Buffered(y.rb) = {}
  OBVIOUS
<1>3. Buffered(s.rb) = {} \/ Ended(q) \/ Ending(m.out)
  BY DEF ForHost
<1> HIDE DEF q, p
<1>4. Head(q) = q[1] /\ \A i \in 1 .. Len(q) : i > 1 => /\ i - 1 \in 1 .. Len(p)
                                                        /\ p[i - 1] = q[i]
  BY <1>1, RestEvents
<1>5. Ended(q) => Ended(p) \/ q[1].type = "DISCONNECTED"
  <2> SUFFICES ASSUME NEW i \in 1 .. Len(q), q[i].type = "DISCONNECTED",
                      q[1].type # "DISCONNECTED"
               PROVE  Ended(p)
    BY DEF Ended
  <2>1. i > 1
    <3>1. i # 1
      OBVIOUS
    <3> QED
      BY <3>1
  <2> QED
    BY <1>4, <2>1 DEF Ended
<1> QED
  BY <1>2, <1>3, <1>4, <1>5 DEF ForHost, p

\* With a link: the connection, its LEDs and its interval are handled in order.
LEMMA TogetherEvent ==
    ASSUME NEW m, NEW s, NEW u, NEW y, Dequeued(s, u), Together(s, m), y.evq = u.evq,
           y.link = s.link,
           LET e == Head(s.evq)
           IN  \/ /\ e.type = "CONNECTED" /\ y.state = "CONNECTED"
                  /\ y.host_index = e.param /\ y.led_state = s.led_state
               \/ /\ e.type = "HID_INDICATOR" /\ y.state = s.state
                  /\ y.host_index = s.host_index /\ y.led_state = e.param
               \/ /\ e.type = "CONECTION_INTERVAL" /\ y.state = s.state
                  /\ y.host_index = s.host_index /\ y.led_state = s.led_state
    PROVE  Together(y, m)
<1> DEFINE q == s.evq
           p == y.evq
           o == m.out
           e == Head(q)
           t == m.target
           v == m.leds
<1>1. q \in Seq(Event) /\ q # <<>> /\ p = Tail(q)
  BY DEF Dequeued
<1>2. /\ \A i \in 1 .. Len(o) : UpFrame(o[i], t)
      /\ \A i \in 1 .. Len(q) : UpEvent(q[i], t)
      /\ s.state = "CONNECTED" => s.host_index = t
      /\ ~Leaving(s.link, t) =>
            /\ LastSaid(q, o, s.led_state, v)
            /\ s.state # "CONNECTED" => s.led_state = 0 /\ Coming(q, o)
  BY DEF Together
<1>3. \/ /\ e.type = "CONNECTED" /\ y.state = "CONNECTED"
         /\ y.host_index = e.param /\ y.led_state = s.led_state
      \/ /\ e.type = "HID_INDICATOR" /\ y.state = s.state
         /\ y.host_index = s.host_index /\ y.led_state = e.param
      \/ /\ e.type = "CONECTION_INTERVAL" /\ y.state = s.state
         /\ y.host_index = s.host_index /\ y.led_state = s.led_state
  OBVIOUS
<1> HIDE DEF q, p, o, e, t, v
<1>4. /\ e = q[1] /\ 1 \in 1 .. Len(q)
      /\ \A k \in 1 .. Len(p) : k + 1 \in 1 .. Len(q) /\ p[k] = q[k + 1]
      /\ \A i \in 1 .. Len(q) : i > 1 => i - 1 \in 1 .. Len(p) /\ p[i - 1] = q[i]
  BY <1>1, RestEvents DEF e
<1>5. \A i \in 1 .. Len(p) : UpEvent(p[i], t)
  BY <1>2, <1>4
<1>6. y.state = "CONNECTED" => y.host_index = t
  BY <1>2, <1>3, <1>4 DEF UpEvent
<1>7. ASSUME LastShown(q, s.led_state, v)
      PROVE  LastShown(p, y.led_state, v)
  <2>1. CASE \E i \in 1 .. Len(q) :
                /\ q[i].type = "HID_INDICATOR" /\ q[i].param = v
                /\ \A j \in 1 .. Len(q) : j > i => q[j].type # "HID_INDICATOR"
    <3>1. PICK i \in 1 .. Len(q) :
             /\ q[i].type = "HID_INDICATOR" /\ q[i].param = v
             /\ \A j \in 1 .. Len(q) : j > i => q[j].type # "HID_INDICATOR"
      BY <2>1
    <3>2. CASE i = 1
      <4>1. y.led_state = v
        BY <1>3, <1>4, <3>1, <3>2
      <4>2. \A k \in 1 .. Len(p) : p[k].type # "HID_INDICATOR"
        <5> TAKE k \in 1 .. Len(p)
        <5>1. k + 1 > 1
          OBVIOUS
        <5> QED
          BY <1>4, <3>1, <3>2, <5>1
      <4> QED
        BY <4>1, <4>2 DEF LastShown
    <3>3. CASE i # 1
      <4>1. i > 1
        BY <3>3
      <4>2. i - 1 \in 1 .. Len(p) /\ p[i - 1] = q[i]
        BY <1>4, <4>1
      <4>3. \A k \in 1 .. Len(p) : k > i - 1 => p[k].type # "HID_INDICATOR"
        <5> SUFFICES ASSUME NEW k \in 1 .. Len(p), k > i - 1
                     PROVE  p[k].type # "HID_INDICATOR"
          OBVIOUS
        <5>1. k + 1 > i
          OBVIOUS
        <5>2. k + 1 \in 1 .. Len(q) /\ p[k] = q[k + 1]
          BY <1>4
        <5> QED
          BY <3>1, <5>1, <5>2
      <4> QED
        BY <3>1, <4>2, <4>3 DEF LastShown
    <3> QED
      BY <3>2, <3>3
  <2>2. CASE s.led_state = v /\ \A i \in 1 .. Len(q) : q[i].type # "HID_INDICATOR"
    BY <1>3, <1>4, <2>2 DEF LastShown
  <2> QED
    BY <1>7, <2>1, <2>2 DEF LastShown
<1>8. LastSaid(q, o, s.led_state, v) => LastSaid(p, o, y.led_state, v)
  BY <1>7 DEF LastSaid
<1>9. ASSUME Coming(q, o), e.type # "CONNECTED"
      PROVE  e.type # "HID_INDICATOR" /\ Coming(p, o)
  <2>1. /\ Announced(q, o)
        /\ \A i \in 1 .. Len(q) :
              q[i].type = "HID_INDICATOR" => \E j \in 1 .. i : q[j].type = "CONNECTED"
        /\ \A i \in 1 .. Len(o) :
              o[i].led # -1 => Posted(q) \/ \E j \in 1 .. i : o[j].conn = "CONNECTED"
    BY <1>9 DEF Coming
  <2>2. e.type # "HID_INDICATOR"
    <3> SUFFICES ASSUME e.type = "HID_INDICATOR"
                 PROVE  FALSE
      OBVIOUS
    <3>1. PICK j \in 1 .. 1 : q[j].type = "CONNECTED"
      BY <1>4, <2>1
    <3>2. j = 1
      OBVIOUS
    <3> QED
      BY <1>4, <1>9, <3>1, <3>2
  <2>3. Posted(q) => Posted(p)
    <3> SUFFICES ASSUME NEW i \in 1 .. Len(q), q[i].type = "CONNECTED"
                 PROVE  Posted(p)
      BY DEF Posted
    <3>1. i # 1
      BY <1>4, <1>9
    <3>2. i > 1
      BY <3>1
    <3> QED
      BY <1>4, <3>2 DEF Posted
  <2>4. \A i \in 1 .. Len(p) :
           p[i].type = "HID_INDICATOR" => \E j \in 1 .. i : p[j].type = "CONNECTED"
    <3> SUFFICES ASSUME NEW k \in 1 .. Len(p), p[k].type = "HID_INDICATOR"
                 PROVE  \E j \in 1 .. k : p[j].type = "CONNECTED"
      OBVIOUS
    <3>1. k + 1 \in 1 .. Len(q) /\ q[k + 1].type = "HID_INDICATOR"
      BY <1>4
    <3>2. PICK j \in 1 .. k + 1 : q[j].type = "CONNECTED"
      BY <2>1, <3>1
    <3>3. j # 1 /\ j \in 1 .. Len(q)
      BY <1>4, <1>9, <3>1, <3>2
    <3>4. j > 1 /\ j - 1 \in 1 .. k
      BY <3>3
    <3>5. p[j - 1] = q[j]
      BY <1>4, <3>3, <3>4
    <3> QED
      BY <3>2, <3>4, <3>5
  <2> QED
    BY <2>1, <2>2, <2>3, <2>4 DEF Coming, Announced
<1>10. ~Leaving(y.link, t) =>
          /\ LastSaid(p, o, y.led_state, v)
          /\ y.state # "CONNECTED" => y.led_state = 0 /\ Coming(p, o)
  BY <1>2, <1>3, <1>8, <1>9
<1> QED
  BY <1>2, <1>5, <1>6, <1>10 DEF Together, p, o, t, v

LEMMA DequeuedIs ==
    ASSUME NEW s \in Good, s.evq # <<>>
    PROVE  LET u == [s EXCEPT !.evq = Tail(@)]
           IN  u \in Good /\ Dequeued(s, u) /\ Head(s.evq) \in Event
<1> DEFINE q == Tail(s.evq)
           u == [s EXCEPT !.evq = q]
<1>1. s \in WirelessState /\ s.evq \in Seq(Event) /\ Len(s.evq) < EventQueueSize
  BY DEF Good, Sound, Bounded, WirelessState, Events
<1>2. Head(s.evq) \in Event /\ q \in Seq(Event) /\ Len(q) < EventQueueSize
  BY <1>1, EventQueueSizeAssumption
<1> HIDE DEF q
<1>3. u \in Good
  BY <1>2 DEF Good, Sound, Counted, Silenced, Bounded, WirelessState, Events
<1>4. Dequeued(s, u)
  BY <1>1 DEF Dequeued, WirelessState, q
<1> QED
  BY <1>2, <1>3, <1>4 DEF q

\* The handlers that only assign: what they leave in the state.
LEMMA PlainHandlers ==
    ASSUME NEW s \in Good, NEW e \in Event,
           e.type \in {"DISCOVERABLE", "RECONNECTING", "BT_PINCODE_ENTRY",
                       "EXIT_BT_PINCODE_ENTRY", "SLEEP", "HID_INDICATOR",
                       "CONECTION_INTERVAL", "NONE", "HID_SET_PROTOCOL"}
    PROVE  LET y == HandleEvent(s, e)
           IN  /\ y.evq = s.evq /\ y.link = s.link /\ Buffered(y.rb) = Buffered(s.rb)
               /\ y.state = "CONNECTED" => s.state = "CONNECTED"
               /\ e.type = "HID_INDICATOR" => y.led_state = e.param
               /\ e.type # "HID_INDICATOR" => y.led_state \in {s.led_state, 0}
               /\ e.type \in {"HID_INDICATOR", "CONECTION_INTERVAL"} =>
                      y.state = s.state /\ y.host_index = s.host_index
               /\ e.type = "CONECTION_INTERVAL" => y.led_state = s.led_state
<1> DEFINE y == HandleEvent(s, e)
<1>1. s \in WirelessState /\ s.rb \in Buffer
  BY BufferOf, GoodIsSound DEF Good, Sound
<1>2. CASE e.type = "DISCOVERABLE"
  BY <1>1, <1>2 DEF HandleEvent, wireless_enter_discoverable, WirelessState
<1>3. CASE e.type = "RECONNECTING"
  BY <1>1, <1>3 DEF HandleEvent, wireless_enter_reconnecting, WirelessState
<1>4. CASE e.type = "BT_PINCODE_ENTRY"
  BY <1>1, <1>4 DEF HandleEvent, wireless_enter_bluetooth_pin_code_entry, WirelessState
<1>5. CASE e.type = "EXIT_BT_PINCODE_ENTRY"
  BY <1>1, <1>5 DEF HandleEvent, wireless_exit_bluetooth_pin_code_entry, WirelessState
<1>6. CASE e.type = "SLEEP"
  BY <1>1, <1>6 DEF HandleEvent, wireless_enter_sleep, WirelessState
<1>7. CASE e.type = "HID_INDICATOR"
  BY <1>1, <1>7 DEF HandleEvent, WirelessState
<1>8. CASE e.type = "CONECTION_INTERVAL"
  <2>1. /\ y.evq = s.evq /\ y.link = s.link /\ y.state = s.state
        /\ y.host_index = s.host_index /\ y.led_state = s.led_state
        /\ y.rb = report_buffer_set_inverval(s.rb, e.param)
    BY <1>1, <1>8 DEF HandleEvent, WirelessState
  <2>2. y.rb.queue = s.rb.queue /\ y.rb.retry = s.rb.retry /\ y.rb.kb_rpt = s.rb.kb_rpt
    BY <1>1, <2>1 DEF report_buffer_set_inverval, Buffer
  <2> HIDE DEF y
  <2> QED
    BY <1>8, <2>1, <2>2 DEF Buffered, y
<1>9. CASE e.type \in {"NONE", "HID_SET_PROTOCOL"}
  BY <1>1, <1>9 DEF HandleEvent
<1> QED
  BY <1>2, <1>3, <1>4, <1>5, <1>6, <1>7, <1>8, <1>9

\* wireless_enter_connected: the keyboard is cleared on the new link.
LEMMA ConnectedHandler ==
    ASSUME NEW s \in Good, NEW e \in Event, e.type = "CONNECTED"
    PROVE  LET v == [s EXCEPT !.state = "CONNECTED", !.host_index = e.param]
           IN  /\ v \in Good /\ Follows(v, HandleEvent(s, e)) /\ ~PinEntry(v)
               /\ v.evq = s.evq /\ v.link = s.link /\ v.rb = s.rb
               /\ v.state = "CONNECTED" /\ v.host_index = e.param
               /\ v.led_state = s.led_state
<1> DEFINE v == [s EXCEPT !.state = "CONNECTED", !.host_index = e.param]
<1>1. s \in WirelessState /\ e.param \in Nat
  BY DEF Good, Sound, Event
<1>2. v \in Good
  BY <1>1 DEF States, Good, Sound, Counted, Silenced, Bounded, WirelessState
<1>3. /\ v.evq = s.evq /\ v.link = s.link /\ v.rb = s.rb
      /\ v.state = "CONNECTED" /\ v.host_index = e.param /\ v.led_state = s.led_state
  BY <1>1 DEF WirelessState
<1>4. HandleEvent(s, e) = clear_keyboard(v)
  BY DEF HandleEvent, wireless_enter_connected
<1> HIDE DEF v
<1>5. Follows(v, clear_keyboard(v)) /\ ~PinEntry(v)
  BY <1>2, <1>3, ClearKeyboardFollows DEF PinEntry
<1> QED
  BY <1>2, <1>3, <1>4, <1>5 DEF v

\* wireless_enter_reset: the parameters are sent again.
LEMMA ResetHandler ==
    ASSUME NEW s \in Good, NEW e \in Event, e.type = "RESET"
    PROVE  LET v == [s EXCEPT !.state = "RESET"]
           IN  /\ v \in Good /\ Follows(v, HandleEvent(s, e)) /\ ~PinEntry(v)
               /\ v.evq = s.evq /\ v.link = s.link /\ v.rb = s.rb
               /\ v.state = "RESET" /\ v.led_state = s.led_state
<1> DEFINE v == [s EXCEPT !.state = "RESET"]
<1>1. s \in WirelessState
  BY DEF Good, Sound
<1>2. v \in Good
  BY SetState DEF States
<1>3. /\ v.evq = s.evq /\ v.link = s.link /\ v.rb = s.rb
      /\ v.state = "RESET" /\ v.led_state = s.led_state
  BY <1>1 DEF WirelessState
<1>4. HandleEvent(s, e) = lkbt51_param_init(v)
  BY DEF HandleEvent, wireless_enter_reset
<1> HIDE DEF v
<1>5. Follows(v, lkbt51_param_init(v)) /\ ~PinEntry(v)
  BY <1>2, <1>3, ParamInitFollows DEF PinEntry
<1> QED
  BY <1>2, <1>3, <1>4, <1>5 DEF v

\* An initialised buffer holds nothing.
LEMMA InitBufferIs ==
    ASSUME NEW s \in Sound
    PROVE  LET i == InitBuffer(s)
           IN  /\ i.evq = s.evq /\ i.link = s.link /\ i.state = s.state
               /\ i.host_index = s.host_index /\ i.led_state = s.led_state
               /\ i.pincodeEntry = s.pincodeEntry /\ Buffered(i.rb) = {}
<1> DEFINE i == InitBuffer(s)
<1>1. s \in WirelessState /\ s.rb \in Buffer
  BY BufferOf DEF Sound
<1>2. /\ i.evq = s.evq /\ i.link = s.link /\ i.state = s.state
      /\ i.host_index = s.host_index /\ i.led_state = s.led_state
      /\ i.pincodeEntry = s.pincodeEntry /\ i.rb = report_buffer_init(s.rb)
  BY <1>1 DEF InitBuffer, WirelessState
<1>3. i.rb.queue = <<>> /\ i.rb.retry = 0
  BY <1>1, <1>2 DEF report_buffer_init, Buffer
<1> HIDE DEF i
<1>4. Buffered(i.rb) = {}
  BY <1>3 DEF Buffered
<1> QED
  BY <1>2, <1>4 DEF i

\* wireless_enter_disconnected: the buffer is emptied and the LEDs are off.
LEMMA DisconnectedHandler ==
    ASSUME NEW s \in Good, NEW e \in Event, e.type = "DISCONNECTED"
    PROVE  LET v == InitBuffer([s EXCEPT !.led_state = 0, !.state = "DISCONNECTED"])
           IN  /\ v \in Good /\ Follows(v, HandleEvent(s, e)) /\ ~PinEntry(v)
               /\ v.evq = s.evq /\ v.link = s.link /\ Buffered(v.rb) = {}
               /\ v.state = "DISCONNECTED" /\ v.led_state = 0
<1> DEFINE t == [s EXCEPT !.led_state = 0, !.state = "DISCONNECTED"]
           v == InitBuffer(t)
           p == lkbt51_param_init(v)
           c == wireless_connect(p)
           d == [c EXCEPT !.firstDisconnect = FALSE]
<1>1. s \in WirelessState
  BY DEF Good, Sound
<1>2. t \in Good
  BY DEF Good, Sound, Counted, Silenced, Bounded, WirelessState, States
<1>3. /\ t.evq = s.evq /\ t.link = s.link /\ t.state = "DISCONNECTED" /\ t.led_state = 0
  BY <1>1 DEF WirelessState
<1>4. HandleEvent(s, e) \in {v, d}
  BY DEF HandleEvent, wireless_enter_disconnected, wireless_enter_disconnected_kb
<1> HIDE DEF t
<1>5. v \in Good /\ Buffered(v.rb) = {}
      /\ v.evq = t.evq /\ v.link = t.link /\ v.state = t.state /\ v.led_state = t.led_state
  BY <1>2, GoodIsSound, InitBufferGood, InitBufferIs
<1> HIDE DEF v
<1>6. p \in Good /\ Follows(v, p) /\ p.state # "CONNECTED"
  <2>1. p \in Good /\ Follows(v, p)
    BY <1>5, ParamInitGood, ParamInitFollows
  <2> QED
    BY <1>3, <1>5, <2>1 DEF Follows
<1> HIDE DEF p
<1>7. c \in Good /\ Follows(v, c)
  BY <1>6, ConnectGood, ConnectFollows, FollowsThen
<1> HIDE DEF c
<1>8. Follows(v, d)
  <2>1. c \in WirelessState
    BY <1>7 DEF Good, Sound
  <2>2. /\ d.evq = c.evq /\ d.led_state = c.led_state /\ d.host_index = c.host_index
        /\ d.pincodeEntry = c.pincodeEntry /\ d.state = c.state /\ d.link = c.link
        /\ d.rb = c.rb
    BY <2>1 DEF WirelessState
  <2> HIDE DEF d
  <2>3. Follows(c, d)
    BY <2>2, FollowsSame
  <2> QED
    BY <1>7, <2>3, FollowsThen
<1>9. ~PinEntry(v)
  BY <1>3, <1>5 DEF PinEntry
<1> QED
  BY <1>3, <1>4, <1>5, <1>8, <1>9, FollowsSelf DEF v, t

\* An event is handled.
LEMMA EventKnown ==
    ASSUME NEW s \in Good, s.evq # <<>>, NEW m \in RadioState, LinkKnown(s, m)
    PROVE  LET y == HandleEvent([s EXCEPT !.evq = Tail(@)], Head(s.evq))
           IN  LinkKnown(y, m) /\ (ForHost(s, m) => ForHost(y, m))
<1> DEFINE u == [s EXCEPT !.evq = Tail(@)]
           e == Head(s.evq)
           y == HandleEvent(u, e)
<1>1. u \in Good /\ Dequeued(s, u) /\ e \in Event
  BY DequeuedIs
<1> HIDE DEF u
<1>2. /\ u.state = s.state /\ u.host_index = s.host_index /\ u.led_state = s.led_state
      /\ u.link = s.link /\ u.rb = s.rb
  BY <1>1 DEF Dequeued
<1>3. m.mode = "up" => e.type \in {"CONNECTED", "HID_INDICATOR", "CONECTION_INTERVAL"}
  <2>1. 1 \in 1 .. Len(s.evq) /\ e = s.evq[1]
    BY <1>1, RestEvents DEF Dequeued
  <2> QED
    BY <2>1 DEF LinkKnown, Together, UpEvent
<1>4. CASE e.type = "CONNECTED"
  <2> DEFINE v == [u EXCEPT !.state = "CONNECTED", !.host_index = e.param]
  <2>1. /\ Follows(v, y) /\ ~PinEntry(v)
        /\ v.evq = u.evq /\ v.link = u.link /\ v.rb = u.rb
        /\ v.state = "CONNECTED" /\ v.host_index = e.param /\ v.led_state = u.led_state
    BY <1>1, <1>4, ConnectedHandler
  <2> HIDE DEF v, y
  <2>2. LinkKnown(v, m)
    <3>1. CASE m.mode = "up"
      BY <1>1, <1>2, <1>4, <2>1, <3>1, TogetherEvent DEF LinkKnown
    <3>2. CASE m.mode # "up"
      <4>1. Apart(v, m)
        BY <1>1, <1>2, <1>4, <2>1, <3>2, ApartEvent DEF LinkKnown
      <4> QED
        BY <3>2, <4>1 DEF LinkKnown
    <3> QED
      BY <3>1, <3>2
  <2>3. ForHost(s, m) => ForHost(v, m)
    <3>1. CASE m.mode = "up"
      BY <1>2, <2>1, <3>1 DEF ForHost
    <3>2. CASE m.mode # "up"
      BY <1>1, <1>2, <1>4, <2>1, <3>2, ApartHost
    <3> QED
      BY <3>1, <3>2
  <2> QED
    BY <2>1, <2>2, <2>3, KnownFollows, HostFollows DEF y, u
<1>5. CASE e.type = "RESET"
  <2> DEFINE v == [u EXCEPT !.state = "RESET"]
  <2>1. /\ Follows(v, y) /\ ~PinEntry(v)
        /\ v.evq = u.evq /\ v.link = u.link /\ v.rb = u.rb
        /\ v.state = "RESET" /\ v.led_state = u.led_state
    BY <1>1, <1>5, ResetHandler
  <2> HIDE DEF v, y
  <2>2. m.mode # "up"
    BY <1>3, <1>5
  <2>3. Apart(v, m)
    BY <1>1, <1>2, <1>5, <2>1, <2>2, ApartEvent DEF LinkKnown
  <2>4. LinkKnown(v, m)
    BY <2>2, <2>3 DEF LinkKnown
  <2>5. ForHost(s, m) => ForHost(v, m)
    BY <1>1, <1>2, <1>5, <2>1, <2>2, ApartHost
  <2> QED
    BY <2>1, <2>4, <2>5, KnownFollows, HostFollows DEF y, u
<1>6. CASE e.type = "DISCONNECTED"
  <2> DEFINE v == InitBuffer([u EXCEPT !.led_state = 0, !.state = "DISCONNECTED"])
  <2>1. /\ Follows(v, y) /\ ~PinEntry(v)
        /\ v.evq = u.evq /\ v.link = u.link /\ Buffered(v.rb) = {}
        /\ v.state = "DISCONNECTED" /\ v.led_state = 0
    BY <1>1, <1>6, DisconnectedHandler
  <2> HIDE DEF v, y
  <2>2. m.mode # "up"
    BY <1>3, <1>6
  <2>3. Apart(v, m)
    BY <1>1, <1>6, <2>1, <2>2, ApartEvent DEF LinkKnown
  <2>4. LinkKnown(v, m)
    BY <2>2, <2>3 DEF LinkKnown
  <2>5. ForHost(s, m) => ForHost(v, m)
    BY <1>1, <1>6, <2>1, <2>2, ApartHost
  <2> QED
    BY <2>1, <2>4, <2>5, KnownFollows, HostFollows DEF y, u
<1>7. CASE e.type \notin {"CONNECTED", "RESET", "DISCONNECTED"}
  <2>1. e.type \in {"DISCOVERABLE", "RECONNECTING", "BT_PINCODE_ENTRY",
                    "EXIT_BT_PINCODE_ENTRY", "SLEEP", "HID_INDICATOR",
                    "CONECTION_INTERVAL", "NONE", "HID_SET_PROTOCOL"}
    BY <1>1, <1>7 DEF Event, EventTypes, ConnectionEvents
  <2>2. /\ y.evq = u.evq /\ y.link = u.link /\ Buffered(y.rb) = Buffered(u.rb)
        /\ y.state = "CONNECTED" => u.state = "CONNECTED"
        /\ e.type = "HID_INDICATOR" => y.led_state = e.param
        /\ e.type # "HID_INDICATOR" => y.led_state \in {u.led_state, 0}
        /\ e.type \in {"HID_INDICATOR", "CONECTION_INTERVAL"} =>
               y.state = u.state /\ y.host_index = u.host_index
        /\ e.type = "CONECTION_INTERVAL" => y.led_state = u.led_state
    BY <1>1, <2>1, PlainHandlers
  <2> HIDE DEF y
  <2>3. CASE m.mode = "up"
    <3>1. Together(y, m)
      BY <1>1, <1>2, <1>3, <1>7, <2>2, <2>3, TogetherEvent DEF LinkKnown
    <3>2. ForHost(s, m) => ForHost(y, m)
      BY <1>2, <2>2, <2>3 DEF ForHost
    <3> QED
      BY <2>3, <3>1, <3>2 DEF LinkKnown, y, u
  <2>4. CASE m.mode # "up"
    <3>1. Apart(y, m)
      BY <1>1, <1>2, <1>7, <2>2, <2>4, ApartEvent DEF LinkKnown
    <3>2. ForHost(s, m) => ForHost(y, m)
      BY <1>1, <1>2, <1>7, <2>2, <2>4, ApartHost
    <3> QED
      BY <2>4, <3>1, <3>2 DEF LinkKnown, y, u
  <2> QED
    BY <2>3, <2>4
<1> QED
  BY <1>4, <1>5, <1>6, <1>7

-----------------------------------------------------------------------------
\* What the steps of the firmware that need not know the user's intentions keep:
\* time passes, and a request for a connection without a host is no report.
LEMMA HostSame ==
    ASSUME NEW m, NEW s, NEW x, ForHost(s, m), x.evq = s.evq,
           BusHosts(x.link) = BusHosts(s.link), Buffered(x.rb) \subseteq Buffered(s.rb)
    PROVE  ForHost(x, m)
BY DEF ForHost

LEMMA KnownSame ==
    ASSUME NEW m, NEW s, NEW x, LinkKnown(s, m), x.evq = s.evq, x.state = s.state,
           x.host_index = s.host_index, x.led_state = s.led_state, x.link = s.link
    PROVE  LinkKnown(x, m)
BY DEF LinkKnown, Together, Apart

LEMMA AfterTimeHost ==
    ASSUME NEW s \in Good, NEW dt, NEW up, NEW m, ForHost(s, m)
    PROVE  ForHost(AfterTime(s, dt, up), m)
<1> DEFINE x == AfterTime(s, dt, up)
<1>1. s \in WirelessState /\ s.rb \in Buffer
  BY BufferOf, GoodIsSound DEF Good, Sound
<1>2. /\ x.evq = s.evq /\ x.link = s.link
      /\ x.rb.queue = s.rb.queue /\ x.rb.retry = s.rb.retry /\ x.rb.kb_rpt = s.rb.kb_rpt
  BY <1>1 DEF AfterTime, Elapse, WirelessState, Buffer
<1> HIDE DEF x
<1>3. ForHost(x, m)
  BY <1>2, HostSame DEF Buffered
<1> QED
  BY <1>3 DEF x

LEMMA ConnectHost ==
    ASSUME NEW s \in Good, NEW m, ForHost(s, m)
    PROVE  ForHost(wireless_connect(s), m)
<1> DEFINE p == [cmd |-> "CONNECT", host |-> 0]
           x == [Transmit(s, p) EXCEPT !.state = "RECONNECTING"]
<1>1. s \in WirelessState /\ s.link \in Seq(Packet)
  BY DEF Good, Sound, WirelessState
<1>2. x.evq = s.evq /\ x.link = Append(s.link, p) /\ x.rb = s.rb
  BY <1>1 DEF Transmit, WirelessState
<1>3. p \in Packet /\ p.cmd = "CONNECT"
  BY PacketTypes
<1> HIDE DEF p, x
<1>4. BusHosts(x.link) = BusHosts(s.link)
  BY <1>1, <1>2, <1>3, BusAppend
<1>5. ForHost(x, m)
  BY <1>2, <1>4, HostSame
<1>6. wireless_connect(s) \in {s, x}
  BY DEF wireless_connect, x, p
<1> QED
  BY <1>5, <1>6

\* Keys other than those of the keyboard report.
LEMMA ExtraSendHost ==
    ASSUME NEW s \in Good, NEW t \in ReportTypes, NEW pressed \in BOOLEAN, NEW m,
           ForHost(s, m), s.state # "CONNECTED"
    PROVE  ForHost(host_extra_send(s, t, pressed), m)
<1> DEFINE x == Produce(s, t, pressed)
           r == NewReport(s, t)
<1>1. s \in WirelessState
  BY DEF Good, Sound
<1>2. /\ x.evq = s.evq /\ x.state = s.state /\ x.link = s.link /\ x.rb = s.rb
  BY <1>1 DEF Produce, WirelessState
<1>3. x \in Good
  BY ProduceGood
<1> HIDE DEF x, r
<1>4. ForHost(x, m) /\ ForHost(wireless_connect(x), m)
  BY <1>2, <1>3, HostSame, ConnectHost
<1>5. wireless_send_extra(x, r, pressed) \in {x, wireless_connect(x)}
  BY <1>2 DEF wireless_send_extra, wireless_send_system, wireless_send_consumer,
              ReconnectFirst
<1>6. host_extra_send(s, t, pressed) \in {s, wireless_send_extra(x, r, pressed)}
  BY DEF host_extra_send, x, r
<1> QED
  BY <1>4, <1>5, <1>6

\* Without a connection the report task does nothing.
LEMMA ReportTaskHost ==
    ASSUME NEW s \in Good, NEW m, LinkKnown(s, m), ForHost(s, m)
    PROVE  ForHost(ReportTask(s), m)
<1>1. CASE s.state = "CONNECTED"
  <2>1. ~PinEntry(s)
    BY <1>1 DEF PinEntry
  <2> QED
    BY <2>1, ReportTaskFollows, HostFollows
<1>2. CASE s.state # "CONNECTED"
  <2> DEFINE x == ReportTask(s)
  <2>1. s \in WirelessState
    BY DEF Good, Sound
  <2>2. ~Pending(s.rb, FALSE) /\ ~Transmits(s.rb, FALSE, s.uptime)
    BY DEF Pending, Transmits
  <2>3. x.rb = s.rb /\ x.evq = s.evq /\ x.link = s.link
    BY <1>2, <2>1, <2>2 DEF ReportTask, report_buffer_task, WirelessState
  <2> HIDE DEF x
  <2>4. ForHost(x, m)
    BY <2>3, HostSame
  <2> QED
    BY <2>4 DEF x
<1> QED
  BY <1>1, <1>2

\* A host key asks for another host than the connected one; the end of
\* bt_transport_enable asks while there is no connection.
LEMMA RequestKnown ==
    ASSUME NEW s \in Good, NEW h \in Nat \ {0}, NEW m \in RadioState, LinkKnown(s, m),
           s.state # "CONNECTED" \/ (h \in Hosts /\ s.host_index # h)
    PROVE  LET x == RequestConnection(s, h)
           IN  LinkKnown(x, m) /\ (ForHost(s, m) => ForHost(x, m))
<1> DEFINE p == [cmd |-> "CONNECT", host |-> h]
           x == RequestConnection(s, h)
           t == m.target
<1>1. s \in WirelessState /\ s.link \in Seq(Packet)
  BY DEF Good, Sound, WirelessState
<1>2. /\ x.evq = s.evq /\ x.link = Append(s.link, p) /\ x.rb = s.rb
      /\ x.state = "RECONNECTING" /\ x.led_state = 0
  BY <1>1 DEF RequestConnection, Transmit, WirelessState
<1>3. p \in Packet /\ p.cmd = "CONNECT" /\ p.host = h
  BY PacketTypes
<1> HIDE DEF p, x
<1>4. /\ \A h2 : Leaving(x.link, h2) <=> Leaving(s.link, h2) \/ Leaves(p, h2)
      /\ BusHosts(x.link) = BusHosts(s.link)
  <2>1. s.link \in Seq(Packet) /\ p \in Packet /\ x.link = Append(s.link, p)
    BY <1>1, <1>2, <1>3
  <2>2. p.cmd # "REPORT"
    BY <1>3
  <2> QED
    BY <2>1, <2>2, BusAppend
<1>5. ForHost(s, m) => ForHost(x, m)
  BY <1>2, <1>4, HostSame
<1>6. CASE m.mode = "up"
  <2>1. Together(s, m)
    BY <1>6 DEF LinkKnown
  <2>2. s.state = "CONNECTED" => Leaves(p, t)
    BY <1>3, <2>1 DEF Together, Leaves
  <2>3. Together(x, m)
    BY <1>2, <1>4, <2>1, <2>2 DEF Together
  <2> QED
    BY <1>5, <1>6, <2>3 DEF LinkKnown, x
<1>7. CASE m.mode # "up"
  <2>1. Apart(x, m)
    BY <1>2, <1>7 DEF LinkKnown, Apart
  <2> QED
    BY <1>5, <1>7, <2>1 DEF LinkKnown, x
<1> QED
  BY <1>6, <1>7

LEMMA ConnectExKnown ==
    ASSUME NEW s \in Good, NEW h \in Nat \ {0}, NEW m \in RadioState, LinkKnown(s, m),
           s.state # "CONNECTED" \/ h \in Hosts
    PROVE  LET x == wireless_connect_ex(s, h)
           IN  LinkKnown(x, m) /\ (ForHost(s, m) => ForHost(x, m))
<1>1. CASE s.critical_low \/ ConnectedTo(s, h)
  BY <1>1 DEF wireless_connect_ex
<1>2. CASE ~s.critical_low /\ ~ConnectedTo(s, h)
  BY <1>2, RequestKnown DEF wireless_connect_ex, ConnectedTo
<1> QED
  BY <1>1, <1>2

\* The pairing request ends the link.
LEMMA PairingExKnown ==
    ASSUME NEW s \in Good, NEW m \in RadioState, LinkKnown(s, m)
    PROVE  LET x == wireless_pairing_ex(s, 0)
           IN  LinkKnown(x, m) /\ (ForHost(s, m) => ForHost(x, m))
<1> DEFINE p == [cmd |-> "PAIRING", host |-> 0]
           x == [Transmit(s, p) EXCEPT !.state = "PARING", !.host_index = 0]
           t == m.target
<1>1. s \in WirelessState /\ s.link \in Seq(Packet)
  BY DEF Good, Sound, WirelessState
<1>2. /\ x.evq = s.evq /\ x.link = Append(s.link, p) /\ x.rb = s.rb
      /\ x.state = "PARING" /\ x.led_state = s.led_state
  BY <1>1 DEF Transmit, WirelessState
<1>3. p \in Packet /\ p.cmd = "PAIRING"
  BY PacketTypes
<1>4. wireless_pairing_ex(s, 0) \in {s, x}
  BY DEF wireless_pairing_ex
<1> HIDE DEF p, x
<1>5. /\ \A h : Leaving(x.link, h) <=> Leaving(s.link, h) \/ Leaves(p, h)
      /\ BusHosts(x.link) = BusHosts(s.link)
  BY <1>1, <1>2, <1>3, BusAppend
<1>6. ForHost(s, m) => ForHost(x, m)
  BY <1>2, <1>5, HostSame
<1>7. CASE m.mode = "up"
  <2>1. Leaving(x.link, t)
    BY <1>3, <1>5 DEF Leaves
  <2>2. Together(x, m)
    BY <1>2, <1>7, <2>1 DEF LinkKnown, Together
  <2> QED
    BY <1>4, <1>6, <1>7, <2>2 DEF LinkKnown
<1>8. CASE m.mode # "up"
  <2>1. Apart(x, m)
    BY <1>2, <1>8 DEF LinkKnown, Apart
  <2> QED
    BY <1>4, <1>6, <1>8, <2>1 DEF LinkKnown
<1> QED
  BY <1>7, <1>8

\* The shutdown sends its two reports to the host the firmware believes in and then
\* ends the link.
LEMMA ShutdownKnown ==
    ASSUME NEW s \in Good, NEW m \in RadioState, LinkKnown(s, m)
    PROVE  LET x == wireless_low_battery_shutdown([s EXCEPT !.critical_low = TRUE])
           IN  /\ LinkKnown(x, m)
               /\ s.state = "CONNECTED" /\ ForHost(s, m) => ForHost(x, m)
<1> DEFINE g == [s EXCEPT !.critical_low = TRUE]
           i == InitBuffer(g)
           c == clear_keyboard(i)
           d == [c EXCEPT !.next = c.next + 2]
           empty == NewReport(c, KeyboardType(c))
           zero == [NewReport(c, "CONSUMER") EXCEPT !.id = NewReport(c, "CONSUMER").id + 1]
           e == Transmit(d, ReportPacket(empty))
           f == Transmit(e, ReportPacket(zero))
           x == wireless_disconnect(f)
           t == m.target
           h == s.host_index
<1>1. g \in Sound
  BY DEF Good, Sound, Counted, Bounded, WirelessState
<1>2. /\ g.evq = s.evq /\ g.link = s.link /\ g.state = s.state
      /\ g.host_index = s.host_index /\ g.led_state = s.led_state
  BY DEF Good, Sound, WirelessState
<1>3. wireless_low_battery_shutdown(g) = x
  BY DEF wireless_low_battery_shutdown
<1> HIDE DEF g
<1>4. /\ i \in Good /\ Buffered(i.rb) = {}
      /\ i.evq = s.evq /\ i.link = s.link /\ i.state = s.state
      /\ i.host_index = s.host_index /\ i.led_state = s.led_state
  BY <1>1, <1>2, InitBufferGood, InitBufferIs
<1> HIDE DEF i
<1>5. c \in Good /\ Follows(i, c)
  BY <1>4, ClearKeyboardGood, ClearKeyboardFollows
<1> HIDE DEF c
<1>6. /\ c \in WirelessState /\ c.link \in Seq(Packet)
      /\ c.evq = s.evq /\ c.led_state = s.led_state /\ c.host_index = h
      /\ c.state = s.state \/ (s.state # "CONNECTED" /\ c.state = "RECONNECTING")
  BY <1>4, <1>5 DEF Follows, Good, Sound, WirelessState
<1>7. /\ d.link = c.link /\ d.evq = c.evq /\ d.led_state = c.led_state
      /\ d.host_index = c.host_index /\ d.state = c.state /\ d.rb = c.rb
      /\ d = [c EXCEPT !.next = d.next]
  BY <1>6 DEF WirelessState
<1>8. empty \in Report /\ empty.dst = h
  <2>1. KeyboardType(c) \in ReportTypes
    BY DEF KeyboardType, ReportTypes
  <2> HIDE DEF empty
  <2>2. NewReport(c, KeyboardType(c)) \in Report
        /\ NewReport(c, KeyboardType(c)).dst = c.host_index
    BY <1>6, <2>1 DEF NewReport, Report, WirelessState
  <2> QED
    BY <1>6, <2>2 DEF empty
<1>9. zero \in Report /\ zero.dst = h
  <2> DEFINE r == NewReport(c, "CONSUMER")
  <2>1. r \in Report /\ r.dst = c.host_index
    BY <1>6 DEF NewReport, Report, WirelessState, ReportTypes
  <2> HIDE DEF r
  <2>2. [r EXCEPT !.id = r.id + 1] \in Report /\ [r EXCEPT !.id = r.id + 1].dst = r.dst
    BY <2>1 DEF Report
  <2> QED
    BY <1>6, <2>1, <2>2 DEF r
<1> HIDE DEF empty, zero
<1> DEFINE k1 == Append(c.link, ReportPacket(empty))
           k2 == Append(k1, ReportPacket(zero))
           k3 == Append(k2, [cmd |-> "DISCONNECT"])
<1>10. /\ e.link = k1 /\ e.evq = c.evq /\ e.led_state = c.led_state
       /\ e.host_index = c.host_index /\ e.state = c.state /\ e.rb = c.rb
  BY <1>6 DEF Transmit, WirelessState
<1>11. /\ f.link = k2 /\ f.evq = c.evq /\ f.led_state = c.led_state
       /\ f.host_index = c.host_index /\ f.state = c.state /\ f.rb = c.rb
  BY <1>6 DEF Transmit, WirelessState
<1>12. /\ x.link = k3 /\ x.evq = c.evq /\ x.led_state = c.led_state
       /\ x.host_index = c.host_index /\ x.state = c.state /\ x.rb = c.rb
  BY <1>6 DEF wireless_disconnect, Transmit, WirelessState
<1>13. /\ \A r \in Report : ReportPacket(r) \in Packet /\ ReportPacket(r).cmd = "REPORT"
                            /\ ReportPacket(r).rpt = r
       /\ [cmd |-> "DISCONNECT"] \in Packet
  BY PacketTypes DEF ReportPacket
<1> HIDE DEF d, e, f, x
<1>14. k1 \in Seq(Packet) /\ BusHosts(k1) = BusHosts(c.link) \cup {h}
  <2>1. ReportPacket(empty) \in Packet /\ ReportPacket(empty).cmd = "REPORT"
        /\ ReportPacket(empty).rpt.dst = h
    BY <1>8, <1>13
  <2> HIDE DEF empty
  <2> QED
    BY <1>6, <2>1, BusAppend
<1> HIDE DEF k1
<1>15. k2 \in Seq(Packet) /\ BusHosts(k2) = BusHosts(k1) \cup {h}
  <2>1. ReportPacket(zero) \in Packet /\ ReportPacket(zero).cmd = "REPORT"
        /\ ReportPacket(zero).rpt.dst = h
    BY <1>9, <1>13
  <2> QED
    BY <1>14, <2>1, BusAppend
<1> HIDE DEF k2
<1>16. BusHosts(k3) = BusHosts(k2) /\ Leaving(k3, t)
  <2> DEFINE p == [cmd |-> "DISCONNECT"]
  <2>1. p \in Packet /\ p.cmd = "DISCONNECT"
    BY <1>13
  <2> HIDE DEF p
  <2>2. /\ \A h2 : Leaving(Append(k2, p), h2) <=> Leaving(k2, h2) \/ Leaves(p, h2)
        /\ BusHosts(Append(k2, p)) = BusHosts(k2)
    BY <1>15, <2>1, BusAppend
  <2> QED
    BY <2>1, <2>2 DEF Leaves, p
<1> HIDE DEF k3
<1>17. LinkKnown(x, m)
  <2>1. CASE m.mode = "up"
    <3>1. Together(s, m)
      BY <2>1 DEF LinkKnown
    <3>2. Together(x, m)
      BY <1>6, <1>12, <1>16, <3>1 DEF Together
    <3> QED
      BY <2>1, <3>2 DEF LinkKnown
  <2>2. CASE m.mode # "up"
    <3>1. Apart(x, m)
      BY <1>6, <1>12, <2>2 DEF LinkKnown, Apart
    <3> QED
      BY <2>2, <3>1 DEF LinkKnown
  <2> QED
    BY <2>1, <2>2
<1>18. ASSUME s.state = "CONNECTED", ForHost(s, m)
       PROVE  ForHost(x, m)
  <2>1. ~PinEntry(i) /\ Own(i) = {h}
    BY <1>4, <1>18 DEF PinEntry, Own
  <2>2. Buffered(c.rb) \subseteq {h} /\ BusHosts(c.link) \subseteq BusHosts(s.link) \cup {h}
    BY <1>4, <1>5, <2>1 DEF Follows
  <2>3. Buffered(x.rb) \subseteq {h} /\ BusHosts(x.link) \subseteq BusHosts(s.link) \cup {h}
    BY <1>12, <1>14, <1>15, <1>16, <2>2
  <2>4. CASE m.mode = "up"
    <3>1. h = t
      BY <1>18, <2>4 DEF LinkKnown, Together
    <3> QED
      BY <1>18, <2>3, <2>4, <3>1 DEF ForHost
  <2>5. CASE m.mode # "up"
    <3>1. Ended(s.evq) \/ Ending(m.out)
      BY <1>18, <2>5 DEF LinkKnown, Apart
    <3> QED
      BY <1>6, <1>12, <2>5, <3>1 DEF ForHost
  <2> QED
    BY <2>4, <2>5
<1> QED
  BY <1>3, <1>17, <1>18 DEF g

-----------------------------------------------------------------------------
\* A frame of the module is read while the event ring has no room for all that it
\* says, and the ring overrides its oldest event.
EventLost ==
    /\ TransportTask \/ SendStringTask
    /\ radio.out # <<>> /\ ~HasRoom(w.evq, Head(radio.out))

\* A key is typed to the PIN entry of a pairing.
PinTyped == KeyEvent /\ PinEntry(w)

\* The battery runs out while no host is connected.
ShutdownUnconnected ==
    BatteryTask /\ ~w.critical_low /\ w.state # "CONNECTED"

\* The inductive invariants: bt_transport_enable asks for its connection in the state
\* it started in.
AgreeInv ==
    /\ Inv
    /\ LinkKnown(w, radio)
    /\ pc = "pump" => w.state = "INITIALIZED"

HostInv ==
    /\ AgreeInv
    /\ ForHost(w, radio)
    /\ host.strays = {}

LEMMA SameModule ==
    ASSUME NEW s, NEW m, NEW m2, m2.mode = m.mode, m2.target = m.target,
           m2.leds = m.leds, m2.out = m.out
    PROVE  /\ LinkKnown(s, m) => LinkKnown(s, m2)
           /\ ForHost(s, m) => ForHost(s, m2)
<1>1. LinkKnown(s, m) => LinkKnown(s, m2)
  BY DEF LinkKnown, Together, Apart
<1>2. ForHost(s, m) => ForHost(s, m2)
  BY DEF ForHost
<1> QED
  BY <1>1, <1>2

\* What the module spends of its budget changes nothing else of it.
LEMMA SpendSame ==
    ASSUME NEW s, NEW m \in RadioState, NEW n
    PROVE  /\ LinkKnown(s, m) => LinkKnown(s, [m EXCEPT !.budget = n])
           /\ ForHost(s, m) => ForHost(s, [m EXCEPT !.budget = n])
<1> DEFINE m2 == [m EXCEPT !.budget = n]
<1>1. m2.mode = m.mode /\ m2.target = m.target /\ m2.leds = m.leds /\ m2.out = m.out
  BY DEF RadioState
<1> HIDE DEF m2
<1>2. /\ LinkKnown(s, m) => LinkKnown(s, m2)
      /\ ForHost(s, m) => ForHost(s, m2)
  BY <1>1, SameModule
<1> QED
  BY <1>2 DEF m2

\* The keys of the keyboard, its other keys and the mouse.
LEMMA KeysKnown ==
    ASSUME AgreeInv, KeyEvent \/ ExtraKeyEvent \/ MouseEvent
    PROVE  /\ LinkKnown(w', radio')
           /\ ForHost(w, radio) /\ ~PinTyped => ForHost(w', radio')
<1>1. w \in Good /\ radio \in RadioState /\ LinkKnown(w, radio)
  BY DEF AgreeInv, Inv
<1>2. CASE KeyEvent
  <2>1. PICK pressed \in BOOLEAN : w' = send_keyboard_report(w, pressed)
    BY <1>2 DEF KeyEvent
  <2>2. radio' = radio
    BY <1>2 DEF KeyEvent
  <2>3. Follows(w, w')
    BY <1>1, <2>1, KeyboardReportFollows
  <2> QED
    BY <1>1, <1>2, <2>2, <2>3, KnownFollows, HostFollows DEF PinTyped
<1>3. CASE ExtraKeyEvent
  <2>1. PICK t \in SendTypes \cap {"CONSUMER", "SYSTEM"}, pressed \in BOOLEAN :
           w' = host_extra_send(w, t, pressed)
    BY <1>3 DEF ExtraKeyEvent
  <2>2. radio' = radio
    BY <1>3 DEF ExtraKeyEvent
  <2>3. t \in ReportTypes
    BY DEF ReportTypes
  <2>4. Follows(w, w')
    BY <1>1, <2>1, <2>3, ExtraSendFollows
  <2>5. LinkKnown(w', radio')
    BY <1>1, <2>2, <2>4, KnownFollows
  <2>6. ForHost(w, radio) => ForHost(w', radio')
    <3>1. CASE w.state = "CONNECTED"
      BY <1>1, <2>2, <2>4, <3>1, HostFollows DEF PinEntry
    <3>2. CASE w.state # "CONNECTED"
      BY <1>1, <2>1, <2>2, <2>3, <3>2, ExtraSendHost
    <3> QED
      BY <3>1, <3>2
  <2> QED
    BY <2>5, <2>6
<1>4. CASE MouseEvent
  <2>1. w' = wireless_send_mouse(w) /\ radio' = [radio EXCEPT !.budget = radio.budget - 1]
    BY <1>4 DEF MouseEvent
  <2>2. LinkKnown(w', radio)
    BY <1>1, <2>1, SendMouseFollows, KnownFollows
  <2>3. w' \in {w, wireless_connect(w)}
    BY <2>1 DEF wireless_send_mouse, ReconnectFirst
  <2>4. ForHost(w, radio) => ForHost(w', radio)
    BY <1>1, <2>3, ConnectHost
  <2> QED
    BY <1>1, <2>1, <2>2, <2>4, SpendSame
<1> QED
  BY <1>2, <1>3, <1>4

\* A field that neither relation mentions.
LEMMA PairingKeyIs ==
    ASSUME NEW s \in Good, NEW p \in BOOLEAN
    PROVE  LET x == [s EXCEPT !.pairing_key = p]
           IN  /\ x \in Good /\ x.evq = s.evq /\ x.state = s.state /\ x.link = s.link
               /\ x.host_index = s.host_index /\ x.led_state = s.led_state /\ x.rb = s.rb
BY DEF Good, Sound, Counted, Silenced, Bounded, WirelessState

LEMMA HostKeysKnown ==
    ASSUME AgreeInv, HostKeyPress \/ HostKeyRelease
    PROVE  LinkKnown(w', radio') /\ (ForHost(w, radio) => ForHost(w', radio'))
<1>1. w \in Good /\ radio \in RadioState /\ LinkKnown(w, radio)
  BY DEF AgreeInv, Inv
<1>2. CASE HostKeyPress
  <2> DEFINE x == [w EXCEPT !.pairing_key = TRUE]
  <2>1. PICK h \in Hosts : w' = wireless_connect_ex(x, h)
    BY <1>2 DEF HostKeyPress
  <2>2. radio' = [radio EXCEPT !.budget = radio.budget - 1]
    BY <1>2 DEF HostKeyPress
  <2>3. /\ x \in Good /\ x.evq = w.evq /\ x.state = w.state /\ x.link = w.link
        /\ x.host_index = w.host_index /\ x.led_state = w.led_state /\ x.rb = w.rb
    BY <1>1, PairingKeyIs
  <2> HIDE DEF x
  <2>4. LinkKnown(x, radio) /\ (ForHost(w, radio) => ForHost(x, radio))
    BY <1>1, <2>3, KnownSame, HostSame
  <2>5. h \in Nat \ {0}
    BY HostsAssumption
  <2>6. LinkKnown(w', radio) /\ (ForHost(x, radio) => ForHost(w', radio))
    BY <1>1, <2>1, <2>3, <2>4, <2>5, ConnectExKnown
  <2> QED
    BY <1>1, <2>2, <2>4, <2>6, SpendSame
<1>3. CASE HostKeyRelease
  <2> DEFINE x == [w EXCEPT !.pairing_key = FALSE]
  <2>1. w' = x /\ radio' = radio
    BY <1>3 DEF HostKeyRelease
  <2>2. /\ x.evq = w.evq /\ x.state = w.state /\ x.link = w.link
        /\ x.host_index = w.host_index /\ x.led_state = w.led_state /\ x.rb = w.rb
    BY <1>1, PairingKeyIs
  <2> HIDE DEF x
  <2>3. LinkKnown(x, radio) /\ (ForHost(w, radio) => ForHost(x, radio))
    BY <1>1, <2>2, KnownSame, HostSame
  <2> QED
    BY <2>1, <2>3
<1> QED
  BY <1>2, <1>3

\* The module is read, by the driver's task and by that of a macro.
LEMMA ReadKnown ==
    ASSUME AgreeInv, TransportTask \/ SendStringTask, ~EventLost
    PROVE  /\ LinkKnown(w', radio') /\ (ForHost(w, radio) => ForHost(w', radio'))
           /\ pc' = "pump" => w'.state = "INITIALIZED"
<1>1. /\ w \in Good /\ radio \in RadioState /\ LinkKnown(w, radio)
      /\ pc = "pump" => w.state = "INITIALIZED"
  BY DEF AgreeInv, Inv
<1>2. radio.out # <<>> => HasRoom(w.evq, Head(radio.out))
  BY DEF EventLost
<1>3. CASE TransportTask
  <2>1. PICK repeat \in BOOLEAN :
           radio' = [AfterRead(radio, repeat)
                        EXCEPT !.budget = IF repeat THEN @ - 1 ELSE @]
    BY <1>3 DEF TransportTask
  <2>2. /\ radio'.mode = radio.mode /\ radio'.target = radio.target
        /\ radio'.leds = radio.leds /\ radio'.out \in {radio.out, Rest(radio.out)}
    BY <1>1, <2>1 DEF AfterRead, RadioState
  <2>3. w' = lkbt51_task(w, radio) /\ (pc' = "pump" => pc = "pump")
    BY <1>3 DEF TransportTask
  <2>4. /\ LinkKnown(w', radio') /\ (ForHost(w, radio) => ForHost(w', radio'))
        /\ w'.state = w.state
    BY <1>1, <1>2, <2>2, <2>3, DriverTaskKnown
  <2> QED
    BY <1>1, <2>3, <2>4
<1>4. CASE SendStringTask
  <2>1. PICK dt \in LoopTimes : \E up \in Later(w.uptime, dt) :
            w' = ReportTask(lkbt51_task(AfterTime(w, dt, up), radio))
    BY <1>4 DEF SendStringTask
  <2>2. PICK up \in Later(w.uptime, dt) :
            w' = ReportTask(lkbt51_task(AfterTime(w, dt, up), radio))
    BY <2>1
  <2>3. /\ radio' = AfterRead(radio, FALSE) /\ pc' # "pump"
    BY <1>4 DEF SendStringTask
  <2>4. /\ radio'.mode = radio.mode /\ radio'.target = radio.target
        /\ radio'.leds = radio.leds /\ radio'.out = Rest(radio.out)
    BY <1>1, <2>3 DEF AfterRead, RadioState
  <2> DEFINE x == AfterTime(w, dt, up)
             y == lkbt51_task(x, radio)
  <2>5. x \in Good
    <3>1. dt \in Nat /\ w.uptime \in 0 .. 4
      BY <1>1, DomainAssumption DEF Good, Sound, WirelessState
    <3>2. up \in 0 .. 4
      BY <3>1, <2>2, LaterType
    <3> QED
      BY <1>1, <3>1, <3>2, AfterTimeGood
  <2>6. Follows(w, x) /\ (ForHost(w, radio) => ForHost(x, radio))
    BY <1>1, AfterTimeFollows, AfterTimeHost
  <2> HIDE DEF x
  <2>7. y \in Good
    BY <1>1, <2>5, DriverTaskGood
  <2>8. LinkKnown(x, radio) /\ x.evq = w.evq
    BY <1>1, <2>6, KnownFollows DEF Follows
  <2>9. LinkKnown(y, radio') /\ (ForHost(x, radio) => ForHost(y, radio'))
    BY <1>1, <1>2, <2>4, <2>5, <2>8, DriverTaskKnown
  <2> HIDE DEF y
  <2>10. LinkKnown(ReportTask(y), radio')
         /\ (ForHost(y, radio') => ForHost(ReportTask(y), radio'))
    BY <2>7, <2>9, ReportTaskFollows, ReportTaskHost, KnownFollows
  <2> QED
    BY <2>2, <2>3, <2>6, <2>9, <2>10 DEF x, y
<1> QED
  BY <1>3, <1>4

\* The end of bt_transport_enable, the event loop and the report task.
LEMMA LoopKnown ==
    ASSUME AgreeInv, EnableTransport \/ EventStep \/ ReportStep
    PROVE  LinkKnown(w', radio') /\ (ForHost(w, radio) => ForHost(w', radio'))
<1>1. /\ w \in Good /\ radio \in RadioState /\ LinkKnown(w, radio)
      /\ pc = "pump" => w.state = "INITIALIZED"
  BY DEF AgreeInv, Inv
<1>2. CASE EnableTransport
  <2> DEFINE x == wireless_connect_ex(w, LastHost)
  <2>1. w' = AfterTime(x, AgeCap, 3) /\ radio' = radio /\ w.state = "INITIALIZED"
    BY <1>1, <1>2 DEF EnableTransport
  <2>2. LastHost \in Nat \ {0}
    BY DEF LastHost
  <2>3. x \in Good
    BY <1>1, <2>2, ConnectExGood
  <2>4. LinkKnown(x, radio) /\ (ForHost(w, radio) => ForHost(x, radio))
    BY <1>1, <2>1, <2>2, ConnectExKnown
  <2> HIDE DEF x
  <2> QED
    BY <2>1, <2>3, <2>4, AfterTimeFollows, AfterTimeHost, KnownFollows
<1>3. CASE EventStep
  <2>1. /\ w' = HandleEvent([w EXCEPT !.evq = Tail(w.evq)], Head(w.evq))
        /\ w.evq # <<>> /\ radio' = radio
    BY <1>3 DEF EventStep, NoEvents
  <2> QED
    BY <1>1, <2>1, EventKnown
<1>4. CASE ReportStep
  <2>1. w' = ReportTask(w) /\ radio' = radio
    BY <1>4 DEF ReportStep
  <2> QED
    BY <1>1, <2>1, ReportTaskFollows, ReportTaskHost, KnownFollows
<1> QED
  BY <1>2, <1>3, <1>4

\* The pairing timer, the battery, the end of a round and the wrap of the clock.
LEMMA RestKnown ==
    ASSUME AgreeInv, CommonTask \/ BatteryTask \/ LoopEnd \/ ClockWrap
    PROVE  /\ LinkKnown(w', radio')
           /\ ForHost(w, radio) /\ ~ShutdownUnconnected => ForHost(w', radio')
<1>1. w \in Good /\ radio \in RadioState /\ LinkKnown(w, radio)
  BY DEF AgreeInv, Inv
<1>2. CASE CommonTask
  <2> DEFINE x == [w EXCEPT !.pairing_key = FALSE]
  <2>1. /\ x \in Good /\ x.evq = w.evq /\ x.state = w.state /\ x.link = w.link
        /\ x.host_index = w.host_index /\ x.led_state = w.led_state /\ x.rb = w.rb
    BY <1>1, PairingKeyIs
  <2>2. radio' = radio /\ (w' = w \/ w' = wireless_pairing_ex(x, 0))
    BY <1>2 DEF CommonTask
  <2> HIDE DEF x
  <2>3. LinkKnown(x, radio) /\ (ForHost(w, radio) => ForHost(x, radio))
    BY <1>1, <2>1, KnownSame, HostSame
  <2> QED
    BY <1>1, <2>1, <2>2, <2>3, PairingExKnown
<1>3. CASE BatteryTask
  <2>1. radio' = radio
    BY <1>3 DEF BatteryTask
  <2>2. CASE w.critical_low
    <3> DEFINE x == [w EXCEPT !.critical_low = FALSE]
    <3>1. w' = x
      BY <1>3, <2>2 DEF BatteryTask
    <3>2. /\ x.evq = w.evq /\ x.state = w.state /\ x.link = w.link
          /\ x.host_index = w.host_index /\ x.led_state = w.led_state /\ x.rb = w.rb
      BY <1>1 DEF Good, Sound, WirelessState
    <3> HIDE DEF x
    <3> QED
      BY <1>1, <2>1, <3>1, <3>2, KnownSame, HostSame
  <2>3. CASE ~w.critical_low
    <3> DEFINE x == wireless_low_battery_shutdown([w EXCEPT !.critical_low = TRUE])
    <3>1. PICK up \in Later(w.uptime, AgeCap) : w' = AfterTime(x, AgeCap, up)
      BY <1>3, <2>3 DEF BatteryTask
    <3>2. x \in Good
      BY <1>1, ShutdownGood
    <3>3. /\ LinkKnown(x, radio)
          /\ w.state = "CONNECTED" /\ ForHost(w, radio) => ForHost(x, radio)
      BY <1>1, ShutdownKnown
    <3> HIDE DEF x
    <3> QED
      BY <1>3, <2>1, <2>3, <3>1, <3>2, <3>3, AfterTimeFollows, AfterTimeHost, KnownFollows
         DEF ShutdownUnconnected
  <2> QED
    BY <2>2, <2>3
<1>4. CASE LoopEnd
  <2>1. PICK dt \in LoopTimes : \E up \in Later(w.uptime, dt) : w' = AfterTime(w, dt, up)
    BY <1>4 DEF LoopEnd
  <2>2. PICK up \in Later(w.uptime, dt) : w' = AfterTime(w, dt, up)
    BY <2>1
  <2>3. radio' = radio
    BY <1>4 DEF LoopEnd
  <2> QED
    BY <1>1, <2>2, <2>3, AfterTimeFollows, AfterTimeHost, KnownFollows
<1>5. CASE ClockWrap
  <2> DEFINE x == [w EXCEPT !.uptime = 0]
  <2>1. w' = x /\ radio' = [radio EXCEPT !.budget = radio.budget - 1]
    BY <1>5 DEF ClockWrap
  <2>2. /\ x.evq = w.evq /\ x.state = w.state /\ x.link = w.link
        /\ x.host_index = w.host_index /\ x.led_state = w.led_state /\ x.rb = w.rb
    BY <1>1 DEF Good, Sound, WirelessState
  <2> HIDE DEF x
  <2>3. LinkKnown(x, radio) /\ (ForHost(w, radio) => ForHost(x, radio))
    BY <1>1, <2>2, KnownSame, HostSame
  <2> QED
    BY <1>1, <2>1, <2>3, SpendSame
<1> QED
  BY <1>2, <1>3, <1>4, <1>5

-----------------------------------------------------------------------------
\* The module without a link says one thing more; when it had one, it says that the
\* link has ended.
LEMMA DownKnown ==
    ASSUME NEW s, NEW m, NEW m2, NEW o \in Seq(Frame), NEW f \in Frame, LinkKnown(s, m),
           m2.mode # "up", m2.out = Append(o, f), f.led = -1, f.conn # "CONNECTED",
           f.conn = "DISCONNECTED" \/ (m.mode # "up" /\ o = m.out)
    PROVE  LinkKnown(s, m2) /\ (ForHost(s, m) => ForHost(s, m2))
<1> DEFINE k == Append(o, f)
           n == Len(o)
<1>1. /\ n \in Nat /\ Len(k) = n + 1 /\ k[n + 1] = f /\ \A i \in 1 .. n : k[i] = o[i]
  OBVIOUS
<1> HIDE DEF k, n
<1>2. \A i \in 1 .. Len(k) : i = n + 1 \/ (i \in 1 .. n /\ k[i] = o[i])
  BY <1>1
<1>3. \A i \in 1 .. n : i \in 1 .. Len(k) /\ k[i] = o[i] /\ i < n + 1
  BY <1>1
<1>4. n + 1 \in 1 .. Len(k)
  BY <1>1
<1>5. m2.out = k
  BY DEF k
<1>6. CASE f.conn = "DISCONNECTED"
  <2>1. Ending(m2.out)
    BY <1>1, <1>4, <1>5, <1>6 DEF Ending
  <2>2. \A i \in 1 .. Len(k) :
           k[i].conn = "CONNECTED" \/ k[i].led # -1 =>
               \E j \in 1 .. Len(k) : j > i /\ k[j].conn = "DISCONNECTED"
    <3> SUFFICES ASSUME NEW i \in 1 .. Len(k), k[i].conn = "CONNECTED" \/ k[i].led # -1
                 PROVE  \E j \in 1 .. Len(k) : j > i /\ k[j].conn = "DISCONNECTED"
      OBVIOUS
    <3>1. n + 1 > i
      BY <1>1, <1>2, <1>3
    <3> QED
      BY <1>1, <1>4, <1>6, <3>1
  <2> QED
    BY <1>5, <2>1, <2>2 DEF LinkKnown, Apart, ForHost
<1>7. CASE m.mode # "up" /\ o = m.out
  <2>1. /\ \A i \in 1 .. n :
              o[i].conn = "CONNECTED" \/ o[i].led # -1 =>
                  \E j \in 1 .. n : j > i /\ o[j].conn = "DISCONNECTED"
        /\ \A i \in 1 .. Len(s.evq) :
              s.evq[i].type \in {"CONNECTED", "HID_INDICATOR"} =>
                  \/ Ending(o)
                  \/ \E j \in 1 .. Len(s.evq) : j > i /\ s.evq[j].type = "DISCONNECTED"
        /\ s.state = "CONNECTED" \/ s.led_state # 0 => Ended(s.evq) \/ Ending(o)
    BY <1>7 DEF LinkKnown, Apart, n
  <2>2. Ending(o) => Ending(k)
    BY <1>3 DEF Ending, n
  <2>3. \A i \in 1 .. Len(k) :
           k[i].conn = "CONNECTED" \/ k[i].led # -1 =>
               \E j \in 1 .. Len(k) : j > i /\ k[j].conn = "DISCONNECTED"
    <3> SUFFICES ASSUME NEW i \in 1 .. Len(k), k[i].conn = "CONNECTED" \/ k[i].led # -1
                 PROVE  \E j \in 1 .. Len(k) : j > i /\ k[j].conn = "DISCONNECTED"
      OBVIOUS
    <3>1. i \in 1 .. n /\ k[i] = o[i]
      BY <1>1, <1>2
    <3>2. PICK j \in 1 .. n : j > i /\ o[j].conn = "DISCONNECTED"
      BY <2>1, <3>1
    <3> QED
      BY <1>3, <3>2
  <2>4. LinkKnown(s, m2)
    BY <1>5, <2>1, <2>2, <2>3 DEF LinkKnown, Apart
  <2>5. ForHost(s, m) => ForHost(s, m2)
    BY <1>5, <1>7, <2>2 DEF ForHost
  <2> QED
    BY <2>4, <2>5
<1> QED
  BY <1>6, <1>7

\* The module's frames about its connection.
LEMMA SaysIs ==
    ASSUME NEW conn \in ConnectionEvents, NEW h \in Hosts
    PROVE  /\ Say(conn, h) \in Frame /\ Say(conn, h).conn = conn /\ Say(conn, h).led = -1
<1>1. Say(conn, h) \in Frame
  BY HostIndex, SayFrame
<1>2. Say(conn, h).conn = conn /\ Say(conn, h).led = -1
  BY DEF Say, NoFrame
<1> QED
  BY <1>1, <1>2

\* A link gives way to another one or to pairing mode.
LEMMA LeaveKnown ==
    ASSUME NEW s, NEW m \in RadioState, NEW m2, NEW conn \in {"RECONNECTING", "DISCOVERABLE"},
           NEW t \in Hosts, LinkKnown(s, m), m2.mode # "up",
           m2.out = m.out \o LinkDown(m) \o <<Say(conn, t)>>
    PROVE  LinkKnown(s, m2) /\ (ForHost(s, m) => ForHost(s, m2))
<1> DEFINE f == Say("DISCONNECTED", m.target)
           g == Say(conn, t)
           o == m.out
           o1 == Append(o, f)
           m1 == [mode |-> "idle", out |-> o1]
<1>1. o \in Seq(Frame) /\ m.target \in Hosts
  BY DEF RadioState
<1>2. {"DISCONNECTED", "RECONNECTING", "DISCOVERABLE"} \subseteq ConnectionEvents
  BY DEF ConnectionEvents
<1>3. f \in Frame /\ f.conn = "DISCONNECTED" /\ f.led = -1
  BY <1>1, <1>2, SaysIs
<1>4. g \in Frame /\ g.conn = conn /\ g.led = -1
  BY <1>2, SaysIs
<1>5. LinkDown(m) = IF m.mode = "up" THEN <<f>> ELSE <<>>
  BY DEF LinkDown
<1> HIDE DEF f, g
<1>6. \A k \in Seq(Frame), h \in Frame : k \o <<h>> = Append(k, h) /\ Append(k, h) \in Seq(Frame)
  OBVIOUS
<1>7. CASE m.mode = "up"
  <2>1. o1 \in Seq(Frame) /\ m2.out = Append(o1, g)
    BY <1>1, <1>3, <1>4, <1>5, <1>6, <1>7 DEF g
  <2>2. m1.mode # "up" /\ m1.out = o1
    OBVIOUS
  <2> HIDE DEF m1
  <2>3. LinkKnown(s, m1) /\ (ForHost(s, m) => ForHost(s, m1))
    BY <1>1, <1>3, <2>2, DownKnown
  <2> HIDE DEF o1
  <2>4. g.conn # "CONNECTED"
    BY <1>4
  <2> QED
    BY <1>4, <2>1, <2>2, <2>3, <2>4, DownKnown
<1>8. CASE m.mode # "up"
  <2>1. o \o <<>> = o
    BY <1>1
  <2>2. m2.out = Append(o, g)
    BY <1>1, <1>4, <1>5, <1>6, <1>8, <2>1 DEF g
  <2>3. g.conn # "CONNECTED"
    BY <1>4
  <2> QED
    BY <1>1, <1>4, <1>8, <2>2, <2>3, DownKnown
<1> QED
  BY <1>7, <1>8

\* A packet is taken from the bus.
LEMMA BusTake ==
    ASSUME NEW l \in Seq(Packet), l # <<>>
    PROVE  /\ Head(l) \in Packet
           /\ \A t : Leaving(l, t) <=> Leaves(Head(l), t) \/ Leaving(Tail(l), t)
           /\ BusHosts(Tail(l)) \subseteq BusHosts(l)
           /\ Head(l).cmd = "REPORT" => Head(l).rpt.dst \in BusHosts(l)
<1> DEFINE k == Tail(l)
<1>1. /\ Len(l) \in Nat /\ Len(l) > 0 /\ Len(k) = Len(l) - 1 /\ Head(l) = l[1]
      /\ \A i \in 1 .. Len(l) - 1 : k[i] = l[i + 1]
      /\ Head(l) \in Packet
  OBVIOUS
<1> HIDE DEF k
<1>2. \A i \in 1 .. Len(k) : i + 1 \in 1 .. Len(l) /\ k[i] = l[i + 1]
  BY <1>1
<1>3. \A i \in 1 .. Len(l) : i = 1 \/ (i - 1 \in 1 .. Len(k) /\ k[i - 1] = l[i])
  <2> SUFFICES ASSUME NEW i \in 1 .. Len(l), i # 1
               PROVE  i - 1 \in 1 .. Len(k) /\ k[i - 1] = l[i]
    OBVIOUS
  <2>1. i - 1 \in 1 .. Len(l) - 1 /\ (i - 1) + 1 = i
    BY <1>1
  <2> QED
    BY <1>1, <2>1
<1>4. 1 \in 1 .. Len(l)
  BY <1>1
<1>5. \A t : Leaving(l, t) <=> Leaves(l[1], t) \/ Leaving(k, t)
  BY <1>2, <1>3, <1>4 DEF Leaving
<1>6. BusHosts(k) \subseteq BusHosts(l)
  BY <1>2 DEF BusHosts, Reports
<1>7. l[1].cmd = "REPORT" => l[1].rpt.dst \in BusHosts(l)
  BY <1>4 DEF BusHosts, Reports
<1> QED
  BY <1>1, <1>5, <1>6, <1>7 DEF k

\* The firmware's state without the packet; owed is history.
Took(s, x) ==
    /\ s.link \in Seq(Packet) /\ s.link # <<>> /\ x.link = Tail(s.link)
    /\ x.evq = s.evq /\ x.state = s.state /\ x.host_index = s.host_index
    /\ x.led_state = s.led_state /\ x.rb = s.rb

\* A packet that does not end the link of the module is taken from the bus, or any
\* packet when there is no link.
LEMMA TookKnown ==
    ASSUME NEW s, NEW x, NEW m, Took(s, x), LinkKnown(s, m),
           m.mode = "up" => ~Leaves(Head(s.link), m.target)
    PROVE  LinkKnown(x, m) /\ (ForHost(s, m) => ForHost(x, m))
<1>1. /\ x.evq = s.evq /\ x.state = s.state /\ x.host_index = s.host_index
      /\ x.led_state = s.led_state /\ x.rb = s.rb
  BY DEF Took
<1>2. /\ Leaving(s.link, m.target)
            <=> Leaves(Head(s.link), m.target) \/ Leaving(x.link, m.target)
      /\ BusHosts(x.link) \subseteq BusHosts(s.link)
  BY BusTake DEF Took
<1>3. ForHost(s, m) => ForHost(x, m)
  BY <1>1, <1>2 DEF ForHost
<1>4. LinkKnown(x, m)
  BY <1>1, <1>2 DEF LinkKnown, Together, Apart
<1> QED
  BY <1>3, <1>4

\* The module's reactions to the driver's commands.
LEMMA CommandKnown ==
    ASSUME AgreeInv, RadioCommand
    PROVE  LinkKnown(w', radio') /\ (ForHost(w, radio) => ForHost(w', radio'))
<1> DEFINE p == Head(w.link)
           m == radio
<1>1. /\ w \in Good /\ m \in RadioState /\ LinkKnown(w, m) /\ m.target \in Hosts
      /\ m.out \in Seq(Frame)
  BY DEF AgreeInv, Inv, RadioState
<1>2. w.link \in Seq(Packet) /\ w.link # <<>> /\ w \in WirelessState /\ p.cmd # "REPORT"
  BY <1>1 DEF RadioCommand, Good, Sound, WirelessState
<1>3. Took(w, w')
  <2>1. w' = [w EXCEPT !.link = Tail(w.link)]
    BY DEF RadioCommand
  <2> QED
    BY <1>2, <2>1 DEF Took, WirelessState
<1>4. p \in Packet
  BY <1>2, BusTake
<1>5. p.cmd \in {"CONNECT", "PAIRING", "DISCONNECT", "PARAM"}
  BY <1>2, <1>4 DEF Packet
<1>6. radio' = CASE p.cmd = "CONNECT" -> RadioConnect(m, p.host)
                 [] p.cmd = "PAIRING" -> RadioPairing(m, p.host)
                 [] p.cmd = "DISCONNECT" -> RadioDisconnect(m)
                 [] OTHER -> RadioParam(m)
  BY DEF RadioCommand
<1> HIDE DEF p, m
<1> SUFFICES /\ LinkKnown(w, radio') /\ (ForHost(w, m) => ForHost(w, radio'))
             /\ radio'.mode = "up" => ~Leaves(p, radio'.target)
  BY <1>3, TookKnown DEF p, m
<1>7. CASE p.cmd = "CONNECT"
  <2> DEFINE t == IF p.host \in Hosts THEN p.host ELSE m.target
             u == m.out \o LinkDown(m) \o <<Say("RECONNECTING", t)>>
  <2>1. radio' = RadioConnect(m, p.host) /\ t \in Hosts
    BY <1>1, <1>6, <1>7
  <2>2. CASE m.mode = "up" /\ t = m.target
    <3>1. radio' = m
      BY <2>1, <2>2 DEF RadioConnect
    <3>2. ~Leaves(p, m.target)
      BY <1>7, <2>2 DEF Leaves
    <3> QED
      BY <1>1, <3>1, <3>2
  <2>3. CASE ~(m.mode = "up" /\ t = m.target)
    <3>1. radio' = [m EXCEPT !.mode = "linking", !.target = t, !.leds = 0, !.out = u]
      BY <2>1, <2>3 DEF RadioConnect
    <3> HIDE DEF t
    <3>2. radio'.mode # "up" /\ radio'.out = u
      BY <1>1, <3>1 DEF RadioState
    <3>3. LinkKnown(w, radio') /\ (ForHost(w, m) => ForHost(w, radio'))
      BY <1>1, <2>1, <3>2, LeaveKnown
    <3> QED
      BY <3>2, <3>3
  <2> QED
    BY <2>2, <2>3
<1>8. CASE p.cmd = "PAIRING"
  <2> DEFINE t == IF p.host \in Hosts THEN p.host ELSE m.target
             u == m.out \o LinkDown(m) \o <<Say("DISCOVERABLE", t)>>
  <2>1. radio' = RadioPairing(m, p.host) /\ t \in Hosts
    BY <1>1, <1>6, <1>8
  <2>2. radio' = [m EXCEPT !.mode = "pairing", !.target = t, !.leds = 0, !.out = u]
    BY <2>1 DEF RadioPairing
  <2> HIDE DEF t
  <2>3. radio'.mode # "up" /\ radio'.out = u
    BY <1>1, <2>2 DEF RadioState
  <2>4. LinkKnown(w, radio') /\ (ForHost(w, m) => ForHost(w, radio'))
    BY <1>1, <2>1, <2>3, LeaveKnown
  <2> QED
    BY <2>3, <2>4
<1>9. CASE p.cmd = "DISCONNECT"
  <2> DEFINE f == Say("DISCONNECTED", m.target)
             u == IF m.mode = "idle" THEN m.out ELSE Append(m.out, f)
  <2>1. radio' = [m EXCEPT !.mode = "idle", !.leds = 0, !.out = u]
    BY <1>6, <1>9 DEF RadioDisconnect
  <2>2. f \in Frame /\ f.conn = "DISCONNECTED" /\ f.led = -1
    <3>1. "DISCONNECTED" \in ConnectionEvents
      BY DEF ConnectionEvents
    <3> QED
      BY <1>1, <3>1, SaysIs
  <2> HIDE DEF f
  <2>3. radio'.mode # "up" /\ radio'.out = u
    BY <1>1, <2>1 DEF RadioState
  <2>4. CASE m.mode = "idle"
    <3>1. radio'.out = m.out /\ m.mode # "up"
      BY <2>3, <2>4
    <3>2. LinkKnown(w, radio') /\ (ForHost(w, m) => ForHost(w, radio'))
      BY <1>1, <2>3, <3>1 DEF LinkKnown, Apart, ForHost
    <3> QED
      BY <2>3, <3>2
  <2>5. CASE m.mode # "idle"
    <3>1. radio'.out = Append(m.out, f)
      BY <2>3, <2>5
    <3>2. LinkKnown(w, radio') /\ (ForHost(w, m) => ForHost(w, radio'))
      BY <1>1, <2>2, <2>3, <3>1, DownKnown
    <3> QED
      BY <2>3, <3>2
  <2> QED
    BY <2>4, <2>5
<1>10. CASE p.cmd = "PARAM"
  <2>1. /\ radio'.mode = m.mode /\ radio'.target = m.target
        /\ radio'.leds = m.leds /\ radio'.out = m.out
    BY <1>1, <1>6, <1>10 DEF RadioParam, RadioState
  <2>2. ~Leaves(p, m.target)
    BY <1>10 DEF Leaves
  <2> QED
    BY <1>1, <2>1, <2>2, SameModule
<1> QED
  BY <1>5, <1>7, <1>8, <1>9, <1>10

\* A report is passed on, refused or ignored.  A report that is passed on is for the
\* host that gets it.
LEMMA PassKnown ==
    ASSUME AgreeInv, RadioAccept \/ RadioRefuse \/ RadioIgnore
    PROVE  /\ LinkKnown(w', radio') /\ (ForHost(w, radio) => ForHost(w', radio'))
           /\ ForHost(w, radio) => host'.strays = host.strays
<1>1. /\ w \in Good /\ radio \in RadioState /\ LinkKnown(w, radio) /\ host \in HostState
  BY DEF AgreeInv, Inv
<1>2. /\ w.link \in Seq(Packet) /\ w.link # <<>> /\ w \in WirelessState
      /\ Head(w.link).cmd = "REPORT"
  BY <1>1 DEF RadioAccept, RadioRefuse, RadioIgnore, Good, Sound, WirelessState
<1>3. ~Leaves(Head(w.link), radio.target)
  BY <1>2 DEF Leaves
<1>4. Took(w, w')
  <2>1. \E o : w' = [w EXCEPT !.link = Tail(w.link), !.owed = o]
    <3>1. CASE RadioAccept
      BY <3>1 DEF RadioAccept
    <3>2. CASE RadioRefuse \/ RadioIgnore
      <4>1. w' = [w EXCEPT !.link = Tail(w.link)]
        BY <3>2 DEF RadioRefuse, RadioIgnore
      <4>2. [w EXCEPT !.link = Tail(w.link)]
              = [w EXCEPT !.link = Tail(w.link), !.owed = w.owed]
        BY <1>2 DEF WirelessState
      <4> QED
        BY <4>1, <4>2
    <3> QED
      BY <3>1, <3>2
  <2>2. PICK o : w' = [w EXCEPT !.link = Tail(w.link), !.owed = o]
    BY <2>1
  <2> QED
    BY <1>2, <2>2 DEF Took, WirelessState
<1>5. /\ radio'.mode = radio.mode /\ radio'.target = radio.target
      /\ radio'.leds = radio.leds /\ radio'.out = radio.out
  BY <1>1 DEF RadioAccept, RadioRefuse, RadioIgnore, RadioState
<1>6. LinkKnown(w', radio) /\ (ForHost(w, radio) => ForHost(w', radio))
  BY <1>1, <1>3, <1>4, TookKnown
<1>7. LinkKnown(w', radio') /\ (ForHost(w, radio) => ForHost(w', radio'))
  BY <1>5, <1>6, SameModule
<1>8. ForHost(w, radio) => host'.strays = host.strays
  <2>1. CASE RadioAccept
    <3> SUFFICES ASSUME ForHost(w, radio)
                 PROVE  host'.strays = host.strays
      OBVIOUS
    <3>1. Head(w.link).rpt.dst \in BusHosts(w.link)
      BY <1>2, BusTake
    <3>2. Head(w.link).rpt.dst = radio.target
      BY <2>1, <3>1 DEF RadioAccept, ForHost
    <3>3. host' = [host EXCEPT !.seen = [host.seen EXCEPT ![Head(w.link).rpt.type] =
                                             Head(w.link).rpt.id],
                               !.strays = host.strays]
      BY <2>1, <3>2 DEF RadioAccept, Deliver
    <3> QED
      BY <1>1, <3>3 DEF HostState
  <2>2. CASE RadioRefuse \/ RadioIgnore
    BY <2>2 DEF RadioRefuse, RadioIgnore
  <2> QED
    BY <2>1, <2>2
<1> QED
  BY <1>7, <1>8

\* The link comes up once everything said before has been heard.
LEMMA LinkUpKnown ==
    ASSUME AgreeInv, RadioLinkUp
    PROVE  LinkKnown(w', radio') /\ (ForHost(w, radio) => ForHost(w', radio'))
<1>1. radio \in RadioState /\ LinkKnown(w, radio)
  BY DEF AgreeInv, Inv
<1>2. /\ radio.mode # "up" /\ w.link = <<>> /\ radio.out = <<>> /\ w.evq = <<>> /\ w' = w
  BY DEF RadioLinkUp, NoEvents
<1>3. PICK led \in {-1} \cup LedStates, raw \in {-1} \cup RawIntervals :
         radio' = [radio EXCEPT !.mode = "up",
                                !.leds = IF led = -1 THEN 0 ELSE led,
                                !.out = <<[Say("CONNECTED", radio.target)
                                             EXCEPT !.led = led, !.raw = raw]>>]
  BY DEF RadioLinkUp
<1> DEFINE f == [Say("CONNECTED", radio.target) EXCEPT !.led = led, !.raw = raw]
           v == IF led = -1 THEN 0 ELSE led
<1>4. /\ ~f.reset /\ f.conn = "CONNECTED" /\ f.host = radio.target /\ f.led = led
  BY DEF Say, NoFrame
<1> HIDE DEF f
<1>5. /\ radio'.mode = "up" /\ radio'.leds = v /\ radio'.out = <<f>>
      /\ radio'.target = radio.target
  BY <1>1, <1>3 DEF RadioState, f
<1>6. ~Ending(<<>>) /\ ~Ended(<<>>)
  BY DEF Ending, Ended
<1>7. w.state # "CONNECTED" /\ w.led_state = 0
  BY <1>1, <1>2, <1>6 DEF LinkKnown, Apart
<1>8. ForHost(w, radio) => Buffered(w.rb) = {}
  BY <1>2, <1>6 DEF ForHost
<1>9. BusHosts(<<>>) = {}
  BY DEF BusHosts, Reports
<1>10. /\ Len(<<f>>) = 1 /\ <<f>>[1] = f /\ 1 .. 1 = {1} /\ Len(<<>>) = 0 /\ 1 .. 0 = {}
  OBVIOUS
<1>11. LastSaid(<<>>, <<f>>, 0, v)
  <2>1. CASE led = -1
    <3>1. LastShown(<<>>, 0, v)
      BY <1>10, <2>1 DEF LastShown
    <3> QED
      BY <1>4, <1>10, <2>1, <3>1 DEF LastSaid
  <2>2. CASE led # -1
    BY <1>4, <1>10, <2>2 DEF LastSaid
  <2> QED
    BY <2>1, <2>2
<1>12. Coming(<<>>, <<f>>)
  BY <1>4, <1>10 DEF Coming, Announced
<1>13. UpFrame(f, radio.target)
  BY <1>4 DEF UpFrame
<1>14. Together(w, radio')
  <2>1. \A i \in 1 .. Len(<<f>>) : UpFrame(<<f>>[i], radio.target)
    BY <1>10, <1>13
  <2>2. \A i \in 1 .. Len(w.evq) : UpEvent(w.evq[i], radio.target)
    BY <1>2, <1>10
  <2>3. /\ LastSaid(w.evq, radio'.out, w.led_state, radio'.leds)
        /\ w.led_state = 0 /\ Coming(w.evq, radio'.out)
    BY <1>2, <1>5, <1>7, <1>11, <1>12
  <2> QED
    BY <1>5, <1>7, <2>1, <2>2, <2>3 DEF Together
<1>15. ForHost(w, radio) => ForHost(w, radio')
  BY <1>2, <1>5, <1>8, <1>9 DEF ForHost
<1> QED
  BY <1>2, <1>5, <1>14, <1>15 DEF LinkKnown

\* The host of a link changes its LEDs.
LEMMA LedsKnown ==
    ASSUME AgreeInv, RadioLeds
    PROVE  LinkKnown(w', radio') /\ (ForHost(w, radio) => ForHost(w', radio'))
<1> DEFINE o == radio.out
           q == w.evq
           t == radio.target
           n == Len(o)
<1>1. radio \in RadioState /\ LinkKnown(w, radio) /\ radio.mode = "up" /\ o \in Seq(Frame)
  BY DEF AgreeInv, Inv, RadioLeds, RadioState
<1>2. PICK led \in LedStates :
          radio' = [radio EXCEPT !.leds = led, !.budget = radio.budget - 1,
                       !.out = Append(radio.out, [NoFrame EXCEPT !.led = led])]
  BY DEF RadioLeds
<1> DEFINE f == [NoFrame EXCEPT !.led = led]
           k == Append(o, f)
<1>3. led \in Nat /\ led # -1
  BY DomainAssumption
<1>4. ~f.reset /\ f.conn = "NONE" /\ f.led = led /\ f \in Frame
  BY <1>3 DEF NoFrame, Frame
<1> HIDE DEF f
<1>5. /\ n \in Nat /\ Len(k) = n + 1 /\ k[n + 1] = f /\ \A i \in 1 .. n : k[i] = o[i]
  BY <1>1, <1>4
<1>6. /\ radio'.mode = "up" /\ radio'.leds = led /\ radio'.out = k
      /\ radio'.target = t /\ w' = w
  BY <1>1, <1>2 DEF RadioState, RadioLeds, f
<1> HIDE DEF k, n, o, q, t
<1>7. \A i \in 1 .. Len(k) : (i = n + 1 /\ k[i] = f) \/ (i \in 1 .. n /\ k[i] = o[i])
  BY <1>5
<1>8. \A i \in 1 .. n : i \in 1 .. Len(k) /\ k[i] = o[i] /\ i <= n + 1
  BY <1>5
<1>9. n + 1 \in 1 .. Len(k) /\ \A j \in 1 .. Len(k) : ~(j > n + 1)
  BY <1>5
<1>10. /\ \A i \in 1 .. n : UpFrame(o[i], t)
       /\ \A i \in 1 .. Len(q) : UpEvent(q[i], t)
       /\ w.state = "CONNECTED" => w.host_index = t
       /\ ~Leaving(w.link, t) => (w.state # "CONNECTED" => w.led_state = 0 /\ Coming(q, o))
  BY <1>1 DEF LinkKnown, Together, o, q, t, n
<1>11. \A i \in 1 .. Len(k) : UpFrame(k[i], t)
  BY <1>4, <1>7, <1>10 DEF UpFrame
<1>12. LastSaid(q, k, w.led_state, led)
  BY <1>4, <1>5, <1>9 DEF LastSaid
<1>13. ASSUME Coming(q, o)
       PROVE  Coming(q, k)
  <2>1. /\ Posted(q) \/ \E i \in 1 .. n : o[i].conn = "CONNECTED"
        /\ \A i \in 1 .. Len(q) :
              q[i].type = "HID_INDICATOR" => \E j \in 1 .. i : q[j].type = "CONNECTED"
        /\ \A i \in 1 .. n :
              o[i].led # -1 => Posted(q) \/ \E j \in 1 .. i : o[j].conn = "CONNECTED"
    BY <1>13 DEF Coming, Announced, n
  <2>2. Announced(q, k)
    BY <1>8, <2>1 DEF Announced
  <2>3. ASSUME NEW i \in 1 .. Len(k), k[i].led # -1, ~Posted(q)
        PROVE  \E j \in 1 .. i : k[j].conn = "CONNECTED"
    <3>1. CASE i = n + 1
      <4>1. PICK j \in 1 .. n : o[j].conn = "CONNECTED"
        BY <2>1, <2>3
      <4>2. j \in 1 .. i /\ k[j] = o[j]
        BY <1>5, <3>1
      <4> QED
        BY <4>1, <4>2
    <3>2. CASE i \in 1 .. n /\ k[i] = o[i]
      <4>1. PICK j \in 1 .. i : o[j].conn = "CONNECTED"
        BY <2>1, <2>3, <3>2
      <4>2. j \in 1 .. n
        BY <1>5, <3>2
      <4> QED
        BY <1>8, <4>1, <4>2
    <3> QED
      BY <1>7, <3>1, <3>2
  <2> QED
    BY <2>1, <2>2, <2>3 DEF Coming
<1>14. Together(w, radio')
  BY <1>6, <1>10, <1>11, <1>12, <1>13 DEF Together, q
<1>15. ForHost(w, radio) => ForHost(w, radio')
  BY <1>1, <1>6 DEF ForHost, t
<1> QED
  BY <1>6, <1>14, <1>15 DEF LinkKnown

\* The other things the module starts by itself.
LEMMA ModuleKnown ==
    ASSUME AgreeInv, RadioLinkLost \/ RadioPairingTimeout \/ RadioPinCode \/ RadioReset
    PROVE  LinkKnown(w', radio') /\ (ForHost(w, radio) => ForHost(w', radio'))
<1> DEFINE o == radio.out
           t == radio.target
<1>1. radio \in RadioState /\ LinkKnown(w, radio) /\ o \in Seq(Frame) /\ t \in Hosts
  BY DEF AgreeInv, Inv, RadioState
<1>2. w' = w
  BY DEF RadioLinkLost, RadioPairingTimeout, RadioPinCode, RadioReset
<1>3. ConnectionEvents = {"DISCOVERABLE", "RECONNECTING", "CONNECTED", "DISCONNECTED",
                          "BT_PINCODE_ENTRY", "EXIT_BT_PINCODE_ENTRY", "SLEEP"}
  BY DEF ConnectionEvents
<1>4. CASE RadioLinkLost
  <2> DEFINE f == Say("DISCONNECTED", t)
  <2>1. f \in Frame /\ f.conn = "DISCONNECTED" /\ f.led = -1
    BY <1>1, <1>3, SaysIs
  <2>2. radio' = [radio EXCEPT !.mode = "idle", !.leds = 0, !.budget = radio.budget - 1,
                               !.out = Append(o, f)]
    BY <1>4 DEF RadioLinkLost
  <2> HIDE DEF f
  <2>3. radio'.mode # "up" /\ radio'.out = Append(o, f)
    BY <1>1, <2>2 DEF RadioState
  <2> QED
    BY <1>1, <1>2, <2>1, <2>3, DownKnown
<1>5. CASE RadioPairingTimeout
  <2> DEFINE f == Say("SLEEP", t)
  <2>1. f \in Frame /\ f.conn # "CONNECTED" /\ f.led = -1
    <3>1. f \in Frame /\ f.conn = "SLEEP" /\ f.led = -1
      BY <1>1, <1>3, SaysIs
    <3> HIDE DEF f
    <3> QED
      BY <3>1
  <2>2. radio' = [radio EXCEPT !.mode = "idle", !.budget = radio.budget - 1,
                               !.out = Append(o, f)]
        /\ radio.mode # "up"
    BY <1>5 DEF RadioPairingTimeout
  <2> HIDE DEF f
  <2>3. radio'.mode # "up" /\ radio'.out = Append(o, f)
    BY <1>1, <2>2 DEF RadioState
  <2> QED
    BY <1>1, <1>2, <2>1, <2>2, <2>3, DownKnown
<1>6. CASE RadioPinCode
  <2>1. PICK conn \in {"BT_PINCODE_ENTRY", "EXIT_BT_PINCODE_ENTRY"} :
           radio' = [radio EXCEPT !.budget = radio.budget - 1,
                                  !.out = Append(o, Say(conn, t))]
    BY <1>6 DEF RadioPinCode
  <2> DEFINE f == Say(conn, t)
  <2>2. f \in Frame /\ f.conn # "CONNECTED" /\ f.led = -1
    <3>1. conn \in ConnectionEvents /\ conn # "CONNECTED"
      BY <1>3
    <3>2. f \in Frame /\ f.conn = conn /\ f.led = -1
      BY <1>1, <3>1, SaysIs
    <3> HIDE DEF f
    <3> QED
      BY <3>1, <3>2
  <2>3. radio.mode # "up"
    BY <1>6 DEF RadioPinCode
  <2> HIDE DEF f
  <2>4. radio'.mode # "up" /\ radio'.out = Append(o, f)
    BY <1>1, <2>1, <2>3 DEF RadioState, f
  <2> QED
    BY <1>1, <1>2, <2>2, <2>3, <2>4, DownKnown
<1>7. CASE RadioReset
  <2>1. PICK conn \in {"NONE", "UNKNOWN"} :
          radio' = [radio EXCEPT !.mode = "idle", !.leds = 0,
                       !.budget = radio.budget - 1, !.configured = FALSE,
                       !.out = radio.out \o <<[Say(conn, 0) EXCEPT !.reset = TRUE],
                                              Say("DISCONNECTED", radio.target)>>]
    BY <1>7 DEF RadioReset
  <2> DEFINE g == [Say(conn, 0) EXCEPT !.reset = TRUE]
             f == Say("DISCONNECTED", t)
             k == Append(o, g)
  <2>2. g \in Frame
    BY SayFrame
  <2>3. f \in Frame /\ f.conn = "DISCONNECTED" /\ f.led = -1
    BY <1>1, <1>3, SaysIs
  <2> HIDE DEF f, g
  <2>4. k \in Seq(Frame) /\ o \o <<g, f>> = Append(k, f)
    BY <1>1, <2>2, <2>3
  <2> HIDE DEF k
  <2>5. radio'.mode # "up" /\ radio'.out = Append(k, f)
    BY <1>1, <2>1, <2>4 DEF RadioState, f, g
  <2> QED
    BY <1>1, <1>2, <2>3, <2>4, <2>5, DownKnown
<1> QED
  BY <1>4, <1>5, <1>6, <1>7

-----------------------------------------------------------------------------
\* Powered on, the module has no link, and the firmware believes in none.
LEMMA InitKnown == Init => HostInv
<1> SUFFICES ASSUME Init PROVE HostInv
  OBVIOUS
<1>1. Inv
  BY InitInv
<1>2. PICK n \in Budgets, t \in Hosts : \E o \in {<<>>, <<Say("DISCONNECTED", t)>>} :
         /\ w = PoweredOn(n.reports)
         /\ radio.mode = "idle" /\ radio.out = o
  BY DEF Init
<1> DEFINE b == report_buffer_init(PowerOnBuffer(1))
<1>3. b.queue = <<>> /\ b.retry = 0
  BY DEF report_buffer_init, PowerOnBuffer
<1> HIDE DEF b
<1>4. w.state = "INITIALIZED" /\ w.led_state = 0 /\ w.evq = <<>> /\ w.rb = b
  BY <1>2 DEF PoweredOn, b
<1>5. /\ w.state = "INITIALIZED" /\ w.led_state = 0 /\ w.evq = <<>>
      /\ w.rb.queue = <<>> /\ w.rb.retry = 0
  BY <1>3, <1>4
<1>6. Buffered(w.rb) = {}
  BY <1>5 DEF Buffered
<1>7. ASSUME NEW i \in 1 .. Len(radio.out)
      PROVE  radio.out[i].conn # "CONNECTED" /\ radio.out[i].led = -1
  <2>1. Say("DISCONNECTED", t).conn = "DISCONNECTED" /\ Say("DISCONNECTED", t).led = -1
    BY DEF Say, NoFrame
  <2> QED
    BY <1>2, <1>7, <2>1
<1>8. LinkKnown(w, radio) /\ ForHost(w, radio)
  BY <1>2, <1>5, <1>6, <1>7 DEF LinkKnown, Apart, ForHost
<1>9. host.strays = {}
  BY DEF Init
<1> QED
  BY <1>1, <1>5, <1>8, <1>9 DEF HostInv, AgreeInv

\* bt_transport_enable reads the module's frames until it asks for its connection, and
\* no other step is taken by the firmware meanwhile.
LEMMA PumpStep ==
    ASSUME AgreeInv, Next, ~EventLost, pc' = "pump"
    PROVE  w'.state = "INITIALIZED"
<1>1. w \in WirelessState /\ (pc = "pump" => w.state = "INITIALIZED")
  BY DEF AgreeInv, Inv, Good, Sound
<1>2. CASE TransportTask \/ SendStringTask
  BY <1>2, ReadKnown
<1>3. CASE Radio
  <2>1. pc = "pump" /\ w'.state = w.state
    BY <1>1, <1>3 DEF Radio, RadioCommand, RadioAccept, RadioRefuse, RadioIgnore, LoseAck,
         RadioLinkUp, RadioLinkLost, RadioPairingTimeout, RadioPinCode, RadioReset, RadioLeds,
         WirelessState
  <2> QED
    BY <1>1, <2>1
<1>4. CASE Firmware /\ ~TransportTask /\ ~SendStringTask
  <2>1. pc' # "pump"
    BY <1>4 DEF Firmware, KeyEvent, ExtraKeyEvent, MouseEvent, HostKeyPress, HostKeyRelease,
         EnableTransport, EventStep, ReportStep, CommonTask, BatteryTask, LoopEnd, ClockWrap
  <2> QED
    BY <2>1
<1> QED
  BY <1>2, <1>3, <1>4 DEF Next

\* A step of the firmware or of the module that loses no event keeps what each knows of
\* the other, and but for two of them the hosts of the reports.
LEMMA StepKnown ==
    ASSUME AgreeInv, Next, ~EventLost
    PROVE  /\ LinkKnown(w', radio')
           /\ ForHost(w, radio) /\ ~PinTyped /\ ~ShutdownUnconnected => ForHost(w', radio')
<1>1. CASE Firmware
  BY <1>1, KeysKnown, HostKeysKnown, ReadKnown, LoopKnown, RestKnown DEF Firmware
<1>2. CASE LoseAck
  <2>1. w' = w /\ radio \in RadioState /\ LinkKnown(w, radio)
        /\ radio' = [radio EXCEPT !.acks = Tail(radio.acks)]
    BY <1>2 DEF LoseAck, AgreeInv, Inv
  <2>2. /\ radio'.mode = radio.mode /\ radio'.target = radio.target
        /\ radio'.leds = radio.leds /\ radio'.out = radio.out
    BY <2>1 DEF RadioState
  <2> QED
    BY <2>1, <2>2, SameModule
<1>3. CASE Radio /\ ~LoseAck
  BY <1>3, CommandKnown, PassKnown, LinkUpKnown, LedsKnown, ModuleKnown DEF Radio
<1> QED
  BY <1>1, <1>2, <1>3 DEF Next

LEMMA AgreeStep == AgreeInv /\ [Next /\ ~EventLost]_vars => AgreeInv'
<1> SUFFICES ASSUME AgreeInv, [Next /\ ~EventLost]_vars PROVE AgreeInv'
  OBVIOUS
<1>1. Inv'
  BY NextInv DEF AgreeInv
<1>2. CASE Next /\ ~EventLost
  <2>1. LinkKnown(w', radio')
    BY <1>2, StepKnown
  <2>2. pc' = "pump" => w'.state = "INITIALIZED"
    BY <1>2, PumpStep
  <2>3. LinkKnown(w, radio)'
    BY <2>1 DEF LinkKnown, Together, Apart, Leaving, Leaves, LastSaid, LastShown, Coming,
         Announced, Posted, UpFrame, UpEvent, Ended, Ending
  <2> QED
    BY <1>1, <2>2, <2>3 DEF AgreeInv
<1>3. CASE UNCHANGED vars
  BY <1>1, <1>3 DEF vars, AgreeInv
<1> QED
  BY <1>2, <1>3

LEMMA HostStep ==
    HostInv /\ [Next /\ ~EventLost /\ ~PinTyped /\ ~ShutdownUnconnected]_vars => HostInv'
<1> SUFFICES ASSUME HostInv, [Next /\ ~EventLost /\ ~PinTyped /\ ~ShutdownUnconnected]_vars
             PROVE  HostInv'
  OBVIOUS
<1>1. AgreeInv'
  BY AgreeStep DEF HostInv
<1>2. CASE Next /\ ~EventLost /\ ~PinTyped /\ ~ShutdownUnconnected
  <2>1. ForHost(w', radio')
    BY <1>2, StepKnown DEF HostInv
  <2>2. host'.strays = host.strays
    <3>1. CASE RadioAccept
      BY <3>1, PassKnown DEF HostInv
    <3>2. CASE ~RadioAccept
      <4>1. CASE Firmware
        BY <4>1 DEF Firmware, KeyEvent, ExtraKeyEvent, MouseEvent, HostKeyPress,
             HostKeyRelease, SendStringTask, TransportTask, EnableTransport, EventStep,
             ReportStep, CommonTask, BatteryTask, LoopEnd, ClockWrap
      <4>2. CASE Radio
        BY <3>2, <4>2 DEF Radio, RadioCommand, RadioRefuse, RadioIgnore, LoseAck, RadioLinkUp,
             RadioLinkLost, RadioPairingTimeout, RadioPinCode, RadioReset, RadioLeds
      <4> QED
        BY <1>2, <4>1, <4>2 DEF Next
    <3> QED
      BY <3>1, <3>2
  <2> QED
    BY <1>1, <2>1, <2>2 DEF HostInv, ForHost, Ended, Ending, Buffered, BusHosts, Reports
<1>3. CASE UNCHANGED vars
  BY <1>1, <1>3 DEF vars, HostInv
<1> QED
  BY <1>2, <1>3

\* With nothing under way there is nothing left to hear.
LEMMA AgreeQuiet == AgreeInv => AgreeWhenQuiet /\ LedsOfHost
<1> SUFFICES ASSUME AgreeInv, Quiet
             PROVE  /\ w.state = "CONNECTED" <=> radio.mode = "up"
                    /\ radio.mode = "up" => w.host_index = radio.target
                    /\ radio.mode = "up" => w.led_state = radio.leds
  BY DEF AgreeWhenQuiet, LedsOfHost
<1>1. w.link = <<>> /\ radio.out = <<>> /\ w.evq = <<>> /\ LinkKnown(w, radio)
  BY DEF Quiet, NoEvents, AgreeInv
<1>2. CASE radio.mode = "up"
  <2>1. Together(w, radio) /\ ~Leaving(w.link, radio.target)
    BY <1>1, <1>2 DEF LinkKnown, Leaving
  <2>2. LastSaid(w.evq, radio.out, w.led_state, radio.leds)
    BY <2>1 DEF Together
  <2>3. w.led_state = radio.leds
    BY <1>1, <2>2 DEF LastSaid, LastShown
  <2>4. ~Coming(w.evq, radio.out)
    BY <1>1 DEF Coming, Announced, Posted
  <2>5. w.state = "CONNECTED" /\ w.host_index = radio.target
    BY <2>1, <2>4 DEF Together
  <2> QED
    BY <1>2, <2>3, <2>5
<1>3. CASE radio.mode # "up"
  BY <1>1, <1>3 DEF LinkKnown, Apart, Ended, Ending
<1> QED
  BY <1>2, <1>3

\* If no event is lost for want of room in the event queue, then once everything said has
\* been heard, the firmware is connected exactly when the module is, and to the same
\* host (wireless_event_task): whatever is asked, refused, reset or paired meanwhile, and
\* although the queue lets a later event of a type override an earlier one's parameter.
THEOREM ConnectionsAgree == Spec /\ [][~EventLost]_vars => []AgreeWhenQuiet
<1>1. Init => AgreeInv
  BY InitKnown DEF HostInv
<1>2. AgreeInv => AgreeWhenQuiet
  BY AgreeQuiet
<1>3. AgreeInv /\ [Next]_vars /\ [~EventLost]_vars => AgreeInv'
  BY AgreeStep
<1> QED
  BY <1>1, <1>2, <1>3, PTL DEF Spec

\* Under the same condition the LEDs the keyboard then shows are those the connected host
\* last asked for, never those of an earlier connection (led_state of wireless.c).
THEOREM LedsAgree == Spec /\ [][~EventLost]_vars => []LedsOfHost
<1>1. Init => AgreeInv
  BY InitKnown DEF HostInv
<1>2. AgreeInv => LedsOfHost
  BY AgreeQuiet
<1>3. AgreeInv /\ [Next]_vars /\ [~EventLost]_vars => AgreeInv'
  BY AgreeStep
<1> QED
  BY <1>1, <1>2, <1>3, PTL DEF Spec

\* If moreover no key is typed to the PIN entry of a pairing and the battery does not run
\* out between two connections, a report reaches only the host that was connected when its
\* key was typed: wireless_enter_disconnected empties the buffer before the module can be
\* connected to another host, for every length of the queue and every number of retries.
THEOREM KeysReachOwnHost ==
    Spec /\ [][~EventLost /\ ~PinTyped /\ ~ShutdownUnconnected]_vars => []OnlyOwnHost
<1>1. HostInv => OnlyOwnHost
  BY DEF HostInv, OnlyOwnHost
<1>2. /\ HostInv /\ [Next]_vars /\ [~EventLost /\ ~PinTyped /\ ~ShutdownUnconnected]_vars
      => HostInv'
  BY HostStep
<1> QED
  BY InitKnown, <1>1, <1>2, PTL DEF Spec
=============================================================================
