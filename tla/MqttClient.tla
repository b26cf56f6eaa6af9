----------------------------- MODULE MqttClient -----------------------------
(***************************************************************************)
(* The MQTT client library as the agents use it: edge/mqtt/mqtt.c.  Its send *)
(* buffer is filled with packets from one end and with their headers from    *)
(* the other; a packet stays until it is sent or, if it has an answer, until *)
(* the answer has come, and is sent again when the answer is late.           *)
(*                                                                         *)
(* The operators take a client, the record of NewClient, and give the client *)
(* after the call.  Sizes are in units; times are ages, which stop one       *)
(* beyond the longest timeout.  Left out: QoS 2, unsubscribing and the       *)
(* reconnect and inspector callbacks, which no agent uses, the DUP flag, a   *)
(* subscription that the broker refuses, the response times, and the mutex,  *)
(* as an agent has one thread.  With no free identifier the search for one   *)
(* would not end: there are more of them than packets fit (PidsAssumption).  *)
(***************************************************************************)
EXTENDS Naturals, Sequences, SequencesExt

CONSTANTS
  Memory,           \* the size of sendbuf
  Header,           \* of a struct mqtt_queued_message
  Pids,             \* packet identifiers are 1..Pids
  ResponseTimeout,  \* response_timeout
  KeepAlive         \* keep_alive

ASSUME MqttClientAssumption ==
  /\ {Memory, Header, Pids} \subseteq Nat \ {0}
  /\ {ResponseTimeout, KeepAlive} \subseteq Nat

\* There are more identifiers than packets that fit, each with its header.
ASSUME PidsAssumption == Memory < (Header + 1) * (Pids - 1)

\* A packet to be sent, and what the queue knows of it: where it starts, its
\* state and its age since it was sent; written is a ghost, how much of it the
\* socket has taken if not all.
Packet(type, pid, size) ==
  [type |-> type, pid |-> pid, qos |-> 0, size |-> size, number |-> 0,
   start |-> 0, state |-> "unsent", age |-> 0, written |-> 0]

NoPid == 0

ConnectPacket == Packet("CONNECT", NoPid, 1)
SubscribePacket(pid) == Packet("SUBSCRIBE", pid, 1)
PubackPacket(pid) == Packet("PUBACK", pid, 1)
PingPacket == Packet("PINGREQ", NoPid, 1)
DisconnectPacket == Packet("DISCONNECT", NoPid, 1)
PublishPacket(pid, qos, size, number) ==
  [Packet("PUBLISH", pid, size) EXCEPT !.qos = qos, !.number = number]

\* mqtt_init(); time_of_last_send is left as it was, at first 1970.
NewClient(idle) ==
  [queue |-> <<>>, curr |-> 0, offset |-> 0, pid |-> 0, error |-> "OK",
   timeouts |-> FALSE, idle |-> idle, torn |-> FALSE]

-----------------------------------------------------------------------------
(* The queue *)

\* mqtt_mq_currsz(): what is left for a packet besides its header.
Room(c) == LET used == c.curr + (Len(c.queue) + 1) * Header
           IN IF used < Memory THEN Memory - used ELSE 0

\* mqtt_mq_register()
Registered(c, p) == [c EXCEPT !.queue = Append(@, [p EXCEPT !.start = c.curr]),
                              !.curr = @ + p.size]

\* The packets move to the front, and what points to them does not.
BugMoved(m, removing) == m

Moved(m, removing) == [m EXCEPT !.start = @ - removing]

Stays(m) == m.state # "complete"

\* mqtt_mq_clean(): the packets before the first that is not complete go.
Clean(c) ==
  LET first == SelectInSeq(c.queue, Stays)
      removing == c.queue[first].start
  IN IF first = 0 THEN [c EXCEPT !.queue = <<>>, !.curr = 0]
     ELSE [c EXCEPT !.queue = [i \in 1..(Len(@) - first + 1) |->
                                 Moved(@[i + first - 1], removing)],
                    !.curr = @ - removing]

\* MQTT_CLIENT_TRY_PACK: an error stays, and one more is made without room.
TryPack(c, p) ==
  IF c.error # "OK" THEN c
  ELSE IF p.size <= Room(c) THEN Registered(c, p)
  ELSE IF p.size <= Room(Clean(c)) THEN Registered(Clean(c), p)
  ELSE [Clean(c) EXCEPT !.error = "SEND_BUFFER_IS_FULL"]

InUse(c) == {c.queue[i].pid : i \in DOMAIN c.queue}

\* The k-th identifier after pid, in the order of the shift register.
KthAfter(pid, k) == ((pid + k - 1) % Pids) + 1

\* __mqtt_next_pid(): the next one that no packet in the queue has.  A packet
\* that needs none has what its memory held before: stale.
NextPid(c, stale) ==
  LET IsFree(k) == KthAfter(c.pid, k) \notin InUse(c) \union {stale}
      k == CHOOSE k \in 1..Pids : IsFree(k) /\ \A j \in 1..(k - 1) : ~IsFree(j)
  IN KthAfter(c.pid, k)

-----------------------------------------------------------------------------
(* mqtt_connect(), mqtt_publish(), mqtt_subscribe(), mqtt_disconnect() *)

Connect(c) == TryPack(c, ConnectPacket)

Publish(c, stale, qos, size, number) ==
  LET pid == NextPid(c, stale)
  IN TryPack([c EXCEPT !.pid = pid], PublishPacket(pid, qos, size, number))

Subscribe(c, stale) ==
  LET pid == NextPid(c, stale)
  IN TryPack([c EXCEPT !.pid = pid], SubscribePacket(pid))

Disconnect(c) == TryPack(c, DisconnectPacket)

-----------------------------------------------------------------------------
(* __mqtt_recv() *)

\* The first packet of the type that waits for an answer, whichever it is.
BugFind(c, type, pid) ==
  SelectInSeq(c.queue, LAMBDA m : m.type = type /\ m.state # "complete")

\* mqtt_mq_find(), or 0.
Find(c, type, pid) ==
  SelectInSeq(c.queue, LAMBDA m :
    m.type = type /\ IF pid = NoPid THEN m.state # "complete" ELSE m.pid = pid)

\* What is unpacked of the broker's packets (mqtt_unpack_response()): their type,
\* the packet they answer, and of a message its QoS and content.
Answering(type, pid) == [type |-> type, pid |-> pid]

Connack(refuses) == Answering(IF refuses THEN "REFUSED" ELSE "CONNACK", NoPid)
Suback(pid) == Answering("SUBACK", pid)
Puback(pid) == Answering("PUBACK", pid)
Pingresp == Answering("PINGRESP", NoPid)
Message(pid, qos, number) ==
  [type |-> "PUBLISH", pid |-> IF qos = 0 THEN NoPid ELSE pid, qos |-> qos,
   number |-> number]
TooLarge == Answering("TOO_LARGE", NoPid)

\* The packet that each of them releases.
AnswerTo == [CONNACK |-> "CONNECT", REFUSED |-> "CONNECT", SUBACK |-> "SUBSCRIBE",
             PUBACK |-> "PUBLISH", PINGRESP |-> "PINGREQ"]

\* What the loop has come to: the client, how many packets it has read, those
\* the callback was handed, and whether it has stopped with an error.
Started(c) == [client |-> c, read |-> 0, out |-> <<>>, failed |-> FALSE]

Failed(s, error) == [s EXCEPT !.client.error = error, !.failed = TRUE]

\* The packet that is answered is complete; without one it is an error.
Answered(s, i) == IF i = 0 THEN Failed(s, "ACK_OF_UNKNOWN")
                  ELSE [s EXCEPT !.client.queue[i].state = "complete"]

HandleAnswer(s, p) ==
  LET answered == Answered(s, Find(s.client, AnswerTo[p.type], p.pid))
  IN IF p.type = "REFUSED" /\ ~answered.failed
     THEN Failed(answered, "CONNECTION_REFUSED") ELSE answered

\* A message is acknowledged, if it asks for it, and then handed over.
HandlePublish(s, p) ==
  LET acked == IF p.qos = 0 THEN s
               ELSE [s EXCEPT !.client = TryPack(@, PubackPacket(p.pid))]
  IN IF p.qos = 1 /\ acked.client.error # "OK"
     THEN Failed(acked, acked.client.error)
     ELSE [acked EXCEPT !.out = Append(@, p)]

\* A packet that can never be whole in recvbuf stays before all that follow.
HandlePacket(s, p) ==
  LET read == [s EXCEPT !.read = @ + 1]
  IN IF s.failed THEN s
     ELSE CASE p.type = "TOO_LARGE" -> Failed(s, "RECV_BUFFER_TOO_SMALL")
            [] p.type = "PUBLISH" -> HandlePublish(read, p)
            [] p.type \in DOMAIN AnswerTo -> HandleAnswer(read, p)

\* __mqtt_recv(), of the packets that have come in whole, here the first k.
Whole(packets, k) == SubSeq(packets, 1, k)

Receive(c, packets) == FoldLeft(HandlePacket, Started(c), packets)

-----------------------------------------------------------------------------
(* __mqtt_send() *)

IsLate(m) == m.state = "awaiting" /\ m.age > ResponseTimeout

IsDue(m) == m.state = "unsent" \/ IsLate(m)

\* What is sent and has no answer is done with.
StateAfter(m) == IF \/ m.type \in {"PUBACK", "DISCONNECT"}
                    \/ m.type = "PUBLISH" /\ m.qos = 0
                 THEN "complete" ELSE "awaiting"

\* The next packet follows although the socket has not taken all of this one.
BugStops(whole) == FALSE

\* A packet that was not taken whole ends the loop.
Stops(whole) == ~whole

\* Bytes of m from the offset on do not continue what is on the wire.
Tears(c, m, offset) ==
  \/ m.written # offset
  \/ \E j \in DOMAIN c.queue : c.queue[j].start # m.start /\ c.queue[j].written > 0

\* What is known of a packet after the socket took bytes of it from the offset on.
AfterSending(m, offset, bytes, whole) ==
  IF whole THEN [m EXCEPT !.state = StateAfter(m), !.age = 0, !.written = 0]
  ELSE IF bytes = 0 THEN m
  ELSE [m EXCEPT !.written = offset + bytes]

\* One packet of the queue, while the socket takes what is left of the budget.
SendPacket(s, i) ==
  LET c == s.client
      m == c.queue[i]
      offset == IF IsLate(m) THEN 0 ELSE c.offset
      bytes == IF s.budget < m.size - offset THEN s.budget ELSE m.size - offset
      whole == offset + bytes = m.size
  IN IF s.stopped \/ ~IsDue(m) THEN s
     ELSE [client |->
             [c EXCEPT !.offset = IF whole THEN 0 ELSE offset + bytes,
                       !.timeouts = @ \/ IsLate(m),
                       !.torn = @ \/ (bytes > 0 /\ Tears(c, m, offset)),
                       !.idle = IF whole THEN 0 ELSE @,
                       !.queue[i] = AfterSending(m, offset, bytes, whole)],
           budget |-> s.budget - bytes,
           stopped |-> Stops(whole),
           sent |-> IF whole THEN Append(s.sent, m) ELSE s.sent]

\* The keep-alive that ends it: one PINGREQ after another, while nothing is sent.
KeptAlive(c) == IF c.idle > KeepAlive THEN TryPack(c, PingPacket) ELSE c

Send(c, budget) ==
  LET s == FoldLeftDomain(SendPacket, [client |-> c, budget |-> budget,
                                       stopped |-> FALSE, sent |-> <<>>], c.queue)
  IN IF c.error \notin {"OK", "SEND_BUFFER_IS_FULL"} THEN [client |-> c, sent |-> <<>>]
     ELSE [client |-> KeptAlive(s.client), sent |-> s.sent]

\* A second passes.
Aged(c) ==
  LET Older(m) == IF m.state = "awaiting" /\ ~IsLate(m)
                  THEN [m EXCEPT !.age = @ + 1] ELSE m
  IN [c EXCEPT !.idle = IF @ > KeepAlive THEN @ ELSE @ + 1,
               !.queue = [i \in DOMAIN c.queue |-> Older(c.queue[i])]]
=============================================================================
