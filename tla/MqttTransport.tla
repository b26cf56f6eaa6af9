--------------------------- MODULE MqttTransport ---------------------------
(***************************************************************************)
(* How an agent talks to the broker: edge/mqtt_transport.c, on top of the    *)
(* client library.  What the client receives is put into a ring of slots by  *)
(* the callback on_publish(), and the agent's loop empties the ring.         *)
(*                                                                         *)
(* The broker answers a packet as soon as it is whole; the answers and the   *)
(* broker's own messages take their time on the way back.  A message of the  *)
(* broker is its number, and its kind what on_publish() and recv make of it: *)
(* it is "kept", of a "bad" size (a cleared announcement has none), "long"   *)
(* for the buffer that the agent passes to recv, which takes a build that    *)
(* lowers NML_MAX_PROGRAM_LEN (config.h:28), or longer than recvbuf.         *)
(***************************************************************************)
EXTENDS MqttClient

CONSTANTS
  Slots,         \* MQTT_MSG_QUEUE_SZ
  Sizes,         \* of what an agent publishes
  Budgets,       \* how much the socket may take at a time
  Garbage,       \* what memory may have held before
  Offers,        \* the broker's messages, one after the other
  MaxPublishes, MaxOnTheWay  \* bounds, for model checking only

ASSUME MqttTransportAssumption ==
  /\ Slots \in Nat \ {0} /\ Sizes \subseteq Nat \ {0}
  /\ Memory \in Budgets /\ Budgets \subseteq Nat /\ Garbage \subseteq 0..Pids
  /\ Offers \in Seq([kind : {"kept", "bad", "long", "TOO_LARGE"}, qos : {0, 1}])
  /\ {MaxPublishes, MaxOnTheWay} \subseteq Nat

VARIABLES
  stage,     \* of the transport: "connecting", "up", "failed" or "closed"
  tries,     \* attempts of mqtt_transport_init(), while it runs
  client,    \* the MQTT client
  link,      \* the TCP connection is there
  on_the_way, \* from the broker: answers and messages
  queue, queue_head, queue_tail, queue_count,  \* of the MQTTTransport
  offered,   \* ghost: how many messages the broker has sent
  accepted,  \* ghost: the QoS of what was published, one after the other
  at_broker, \* ghost: the published messages that came whole
  regular    \* ghost: each of them came once and after those before it

ring == <<queue, queue_head, queue_tail, queue_count>>
connVars == <<stage, tries, client, link, on_the_way, offered, accepted, at_broker, regular>>
transportVars == <<connVars, ring>>

Slot == [number : DOMAIN Offers, kind : {"kept", "long"}]

Index == 0 .. (Slots - 1)

Nothing == [number |-> 0, kind |-> "kept"]

\* The slots in use, oldest first.
Waiting == [i \in 1 .. queue_count |-> queue[(queue_tail + i - 1) % Slots]]

TransportInit ==
  /\ stage = "connecting" /\ tries = 1
  /\ client = Connect(NewClient(KeepAlive + 1))
  /\ link = TRUE /\ on_the_way = <<>>
  /\ queue = [i \in Index |-> Nothing]
  /\ queue_head = 0 /\ queue_tail = 0 /\ queue_count = 0
  /\ offered = 0 /\ accepted = <<>>
  /\ at_broker = {} /\ regular = TRUE

-----------------------------------------------------------------------------
(* The broker *)

\* What it sends back for a packet; a CONNECT it may refuse.
Answer(m, refuses) ==
  CASE m.type = "CONNECT" -> <<Connack(refuses)>>
    [] m.type = "SUBSCRIBE" -> <<Suback(m.pid)>>
    [] m.type = "PUBLISH" /\ m.qos = 1 -> <<Puback(m.pid)>>
    [] m.type = "PINGREQ" -> <<Pingresp>>
    [] OTHER -> <<>>

Answers(sent, refuses) == FlattenSeq([i \in DOMAIN sent |-> Answer(sent[i], refuses)])

\* The packets of a broken stream are none to the broker.
Reach(s, rest, refuses) ==
  LET arrived == IF s.client.torn THEN <<>> ELSE s.sent
      published == {i \in DOMAIN arrived : arrived[i].type = "PUBLISH"}
      Numbers(I) == {arrived[i].number : i \in I}
  IN /\ on_the_way' = rest \o Answers(arrived, refuses)
     /\ at_broker' = at_broker \union Numbers(published)
     /\ regular' = (/\ regular
                    /\ \A i \in published :
                         LET before == at_broker \union Numbers({j \in published : j < i})
                         IN \A n \in before : n < arrived[i].number)

\* A message of another agent.
Offer ==
  /\ stage = "up" /\ link
  /\ offered < Len(Offers) /\ Len(on_the_way) < MaxOnTheWay
  /\ offered' = offered + 1
  /\ LET o == Offers[offered']
     IN on_the_way' = Append(on_the_way, IF o.kind = "TOO_LARGE" THEN TooLarge
                                         ELSE Message(offered', o.qos, offered'))
  /\ UNCHANGED <<stage, tries, client, link, accepted, at_broker, regular, ring>>

\* The connection is lost, with what was on the way.
Break == /\ link /\ link' = FALSE /\ on_the_way' = <<>>
         /\ UNCHANGED <<stage, tries, client, offered, accepted, at_broker, regular,
                        ring>>

\* Time matters to the client only while it can send.
TransportTick ==
  /\ link
  /\ client' = Aged(client)
  /\ UNCHANGED <<stage, tries, link, on_the_way, offered, accepted, at_broker,
                 regular, ring>>

-----------------------------------------------------------------------------
(* mqtt_transport_init() and mqtt_transport_close() *)

\* The CONNECT is sent, in part or whole; then SUBSCRIBE and the announcement
\* are queued, whether they fit or not.
Open(budget, refuses) ==
  /\ stage = "connecting" /\ link
  /\ LET s == Send(client, budget)
     IN \E stale \in Garbage :
          /\ client' = Publish(Subscribe(s.client, stale), stale, 1, 1, 1)
          /\ Reach(s, on_the_way, refuses)
  /\ stage' = "up" /\ tries' = 0
  /\ accepted' = IF client'.error = "OK" THEN <<1>> ELSE <<0>>
  /\ UNCHANGED <<link, offered, ring>>

\* Without a connection another is made, up to three times.
Reopen == /\ stage = "connecting" /\ ~link
          /\ \/ stage' = "failed" /\ UNCHANGED <<tries, client, link>>
             \/ /\ tries < 3
                /\ tries' = tries + 1 /\ link' = TRUE
                /\ client' = Connect(NewClient(client.idle))
                /\ UNCHANGED stage
          /\ UNCHANGED <<on_the_way, offered, accepted, at_broker, regular, ring>>

-----------------------------------------------------------------------------
(* mqtt_transport_sync() and on_publish() *)

BugIsFull(count) == count > Slots

IsFull(count) == count >= Slots

\* on_publish(): a message of a size that cannot be kept is dropped, and so is
\* one that finds the ring full.
OnPublish(r, p) ==
  IF Offers[p.number].kind = "bad" \/ IsFull(r.count) THEN r
  ELSE [queue |-> [r.queue EXCEPT ![r.head] =
                     [number |-> p.number, kind |-> Offers[p.number].kind]],
        head |-> (r.head + 1) % Slots, count |-> r.count + 1]

Filled(out) ==
  LET r == FoldLeft(OnPublish, [queue |-> queue, head |-> queue_head,
                                count |-> queue_count], out)
  IN /\ queue' = r.queue /\ queue_head' = r.head /\ queue_count' = r.count
     /\ UNCHANGED queue_tail

Rest(n) == SubSeq(on_the_way, n + 1, Len(on_the_way))

\* mqtt_sync(), when k packets have come in and the socket takes budget bytes:
\* what is received and then, unless that has failed, what is sent.
Sync(k, budget, refuses) ==
  /\ stage = "up" /\ link
  /\ refuses => client.queue # <<>> /\ Head(client.queue).state = "unsent"
  /\ LET r == Receive(client, Whole(on_the_way, k))
         s == IF r.failed THEN [client |-> r.client, sent |-> <<>>]
              ELSE Send(r.client, budget)
     IN /\ client' = s.client
        /\ Reach(s, Rest(r.read), refuses)
        /\ Filled(r.out)
  /\ UNCHANGED <<stage, tries, link, offered, accepted>>

\* Without a connection it is never made again, and the client knows for good.
SyncFails == /\ stage = "up" /\ ~link
             /\ client' = [client EXCEPT !.error = "SOCKET_ERROR"]
             /\ UNCHANGED <<stage, tries, link, on_the_way, offered, accepted,
                            at_broker, regular, ring>>

\* mqtt_transport_publish(): a heartbeat has QoS 0, all else QoS 1.
PublishMessage(qos, size, stale) ==
  /\ stage = "up" /\ Len(accepted) < MaxPublishes
  /\ client' = Publish(client, stale, qos, size, Len(accepted) + 1)
  /\ accepted' = IF client'.error = "OK" THEN Append(accepted, qos) ELSE accepted
  /\ UNCHANGED <<stage, tries, link, on_the_way, offered, at_broker, regular, ring>>

\* A last mqtt_sync(), which need not get everything sent.
Close(k, budget) ==
  /\ stage = "up"
  /\ LET r == Receive(Disconnect(client), Whole(on_the_way, k))
         s == IF r.failed \/ ~link THEN [client |-> r.client, sent |-> <<>>]
              ELSE Send(r.client, budget)
     IN /\ client' = s.client
        /\ Reach(s, Rest(r.read), FALSE)
        /\ Filled(r.out)
  /\ stage' = "closed" /\ link' = FALSE
  /\ UNCHANGED <<tries, offered, accepted>>

-----------------------------------------------------------------------------
(* mqtt_transport_recv() and mqtt_transport_recv_ex() *)

\* The tail slot is given back.
Advance == /\ queue_tail' = (queue_tail + 1) % Slots
           /\ queue_count' = queue_count - 1
           /\ UNCHANGED <<queue, queue_head, connVars>>

\* The message at the tail, copied out, or dropped when it is longer than the
\* agent's buffer.
Recv == /\ stage = "up" /\ queue_count > 0
        /\ queue[queue_tail].kind = "kept"
        /\ Advance

BugSkipStays == /\ stage = "up" /\ queue_count > 0
                /\ queue[queue_tail].kind = "long"
                /\ UNCHANGED transportVars

RecvTooLong == /\ stage = "up" /\ queue_count > 0
               /\ queue[queue_tail].kind = "long"
               /\ Advance

TransportNext ==
  \/ Offer
  \/ Break
  \/ TransportTick
  \/ \E budget \in Budgets, refuses \in BOOLEAN : Open(budget, refuses)
  \/ Reopen
  \/ \E k \in 0..Len(on_the_way), budget \in Budgets, refuses \in BOOLEAN :
       Sync(k, budget, refuses)
  \/ SyncFails
  \/ \E qos \in {0, 1}, size \in Sizes, stale \in Garbage :
       PublishMessage(qos, size, stale)
  \/ \E k \in 0..Len(on_the_way), budget \in Budgets : Close(k, budget)
  \/ Recv
  \/ RecvTooLong

TransportSpec == TransportInit /\ [][TransportNext]_transportVars

\* A sync would change something.
CanSync == /\ stage = "up" /\ link /\ client.error = "OK"
           /\ \/ on_the_way # <<>>
              \/ \E i \in DOMAIN client.queue : IsDue(client.queue[i])

SyncAll == Sync(Len(on_the_way), Memory, FALSE)

\* Every pass of an agent's loop syncs, and calls recv until it returns 0 or
\* -1; what is on the way comes in, and the socket takes what it is given.  The
\* first conjunct is weak fairness of SyncAll, with CanSync for its ENABLED.
TransportFairSpec ==
  /\ TransportSpec
  /\ []<>~CanSync \/ []<><<SyncAll>>_transportVars
  /\ WF_transportVars(Recv \/ RecvTooLong)

-----------------------------------------------------------------------------
(* Correctness *)

TransportTypeOK ==
  /\ stage \in {"connecting", "up", "failed", "closed"} /\ tries \in 0..3
  /\ link \in BOOLEAN /\ offered \in 0..Len(Offers)
  /\ queue \in [Index -> Slot \union {Nothing}]
  /\ queue_tail \in Index /\ queue_count \in 0 .. Slots
  /\ queue_head = (queue_tail + queue_count) % Slots

\* Where the next packet would start if the first n lie without gaps.
EndOf(n) == IF n = 0 THEN 0 ELSE client.queue[n].start + client.queue[n].size

\* The packets lie one behind the other from the start of the buffer, and their
\* headers, which grow towards them, do not reach them: what is sent is what was
\* packed (mqtt_mq_register(), mqtt_mq_clean(), mqtt_mq_currsz()).
BufferIsSound ==
  /\ TransportTypeOK
  /\ \A i \in DOMAIN client.queue : client.queue[i].start = EndOf(i - 1)
  /\ client.curr = EndOf(Len(client.queue))
  /\ client.curr + Len(client.queue) * Header <= Memory

\* A message published with QoS 1 is with the broker, or still in the queue and
\* not taken for answered, whatever was cleaned away and sent again.
NothingIsForgotten ==
  \A n \in DOMAIN accepted :
    accepted[n] = 1 =>
      \/ n \in at_broker
      \/ \E i \in DOMAIN client.queue :
           client.queue[i].number = n /\ client.queue[i].state # "complete"

\* As long as no answer is late, the broker gets every message once and in the
\* order of publishing, each packet in one piece, and no answer of its comes as
\* a surprise (which would be the end of the connection).
PromptIsClean ==
  ~client.timeouts =>
    /\ ~client.torn
    /\ client.error # "ACK_OF_UNKNOWN"
    /\ regular

Box == INSTANCE Inbox WITH fifo <- Waiting, Capacity <- Slots, Messages <- Slot

\* The ring is a first-in first-out queue.
ImplementsInbox == Box!Spec

IsUnanswered == /\ link /\ client.error = "OK" /\ ~client.torn
                /\ \E i \in DOMAIN client.queue :
                     client.queue[i].number # 0 /\ client.queue[i].state # "complete"

HasWork == stage = "up" /\ (IsUnanswered \/ queue_count > 0)

\* When no more is published and offered, all that was published gets answered,
\* unless the connection or the client fails, and all that waits in the ring is
\* taken, whatever lies before it.
NothingIsStuck == HasWork ~> ~HasWork
=============================================================================
