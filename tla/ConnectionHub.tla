----------------------------- MODULE ConnectionHub -----------------------------
(***************************************************************************)
(* The WebSocket server: the endpoint coroutine of each client             *)
(* (ws/handler.py), its subscriptions (ws/subscription.py), the registry   *)
(* of clients and its broadcast (ws/hub.py), and the publishers that call  *)
(* it (ws/publishers).                                                     *)
(*                                                                         *)
(* Everything runs in one event loop: what a coroutine does between two    *)
(* awaits is one step, and other coroutines run at its awaits.  Clients    *)
(* and Casts bound the model: a client connects once, a cast is one call   *)
(* of a publisher.                                                         *)
(***************************************************************************)
EXTENDS Naturals, Sequences, FiniteSets, FiniteSetsExt

CONSTANTS Clients,          \* WebSocket objects
          Casts,            \* calls of hub.broadcast
          Requests,         \* the messages a client may send
          Routes,           \* venue:market_type:symbol
          Intervals,        \* the intervals of kline topics
          MaxConnections,   \* websocket.max_connections
          MaxSubscriptions  \* websocket.max_subscriptions_per_connection

MarketDataTopics == {"marketdata.mark_price", "marketdata.index_price",
                     "marketdata.open_interest", "marketdata.funding_rate",
                     "marketdata.depth_snapshot"}

VALID_TOPICS == MarketDataTopics \cup {"marketdata.kline", "system.quality_event",
                                       "system.stream_status"}

\* A topic key is the sequence of its segments, the topic's name first.
KlineKey(route, interval) == <<"marketdata.kline", route, interval>>
MarketDataKey(name, route) == <<name, route>>
QualityEventKey(route) == <<"system.quality_event", route>>
StreamStatusKey == <<"system.stream_status">>

Keys == {KlineKey(r, i) : r \in Routes, i \in Intervals}
        \cup {MarketDataKey(n, r) : n \in MarketDataTopics, r \in Routes}
        \cup {QualityEventKey(r) : r \in Routes}
        \cup {StreamStatusKey}

\* What a client may name instead: an unknown topic, or a number.
UnknownTopic == <<"marketdata.unknown">>
NotText == <<>>
Topics == Keys \cup {UnknownTopic, NotText}

\* "malformed": parse_message raises InvalidJsonError or InvalidActionError.
Actions == {"malformed", "ping", "subscribe", "unsubscribe"}

ASSUME HubAssumption ==
    /\ IsFiniteSet(Clients)
    /\ MaxConnections \in Nat \ {0} /\ MaxSubscriptions \in Nat
    /\ Requests \subseteq [action : Actions, topics : Seq(Topics)]

VARIABLES
    handler,      \* where each client's endpoint coroutine stands
    up,           \* the clients whose connection is open
    topics,       \* SubscriptionManager._topics of each client
    order,        \* the entries of the dict _connections, as they were inserted
    connections,  \* the entries it still has
    cast,         \* the broadcasts
    overlapped    \* two clients were let in side by side (history)

vars == <<handler, up, topics, order, connections, cast, overlapped>>

Serving == {"receiving", "answering"}
Unstarted == [pc |-> "idle", key |-> StreamStatusKey, pos |-> 0, left |-> 0, size |-> 0,
              stale |-> {}, owed |-> {}]

HubTypeOK ==
    /\ handler \in [Clients -> {"new", "accepting", "gone"} \cup Serving]
    /\ up \subseteq Clients
    /\ topics \in [Clients -> SUBSET Topics]
    /\ order \in Seq(Clients) /\ connections \subseteq Clients
    /\ cast \in [Casts -> [pc : {"idle", "sending", "over"}, key : Keys, pos : Nat,
                           left : Nat, size : Nat, stale : SUBSET Clients,
                           owed : SUBSET Clients]]
    /\ overlapped \in BOOLEAN

Init ==
    /\ handler = [c \in Clients |-> "new"]
    /\ up = Clients
    /\ topics = [c \in Clients |-> {}]
    /\ order = <<>> /\ connections = {}
    /\ cast = [b \in Casts |-> Unstarted]
    /\ overlapped = FALSE

-----------------------------------------------------------------------------
(* The registry.  Beside its own state a broadcast keeps, as history, the     *)
(* clients it still owes its message: those that were in the registry and     *)
(* subscribed at its start and still are, and none once the registry changes. *)

\* Mutant: off by one.
MutIsFull == Cardinality(connections) > MaxConnections

IsFull == Cardinality(connections) >= MaxConnections

\* f, the broadcasts, once the registry has changed.
Changed(f) == [b \in Casts |-> IF f[b].pc = "sending" THEN [f[b] EXCEPT !.owed = {}]
                                                     ELSE f[b]]

Register(c) ==
    /\ order' = Append(order, c)
    /\ connections' = connections \cup {c}
    /\ cast' = Changed(cast)

\* f is cast with what else the step does to it.
Unregister(gone, f) ==
    /\ connections' = connections \ gone
    /\ cast' = IF gone \cap connections = {} THEN f ELSE Changed(f)
    /\ UNCHANGED order

-----------------------------------------------------------------------------
(* websocket_endpoint.                                                        *)

\* A wrong token (close code 4001) or a full hub (4002).
Refuse(c) ==
    /\ handler[c] = "new"
    /\ handler' = [handler EXCEPT ![c] = "gone"]
    /\ up' = up \ {c}
    /\ UNCHANGED <<topics, order, connections, cast, overlapped>>

\* The token is right and there is room: accept() is awaited.
Admit(c) ==
    /\ handler[c] = "new" /\ ~IsFull
    /\ handler' = [handler EXCEPT ![c] = "accepting"]
    /\ overlapped' = (overlapped \/ \E d \in Clients : handler[d] = "accepting")
    /\ UNCHANGED <<up, topics, order, connections, cast>>

Accepted(c) ==
    /\ handler[c] = "accepting"
    /\ handler' = [handler EXCEPT ![c] = "receiving"]
    /\ Register(c)
    /\ UNCHANGED <<up, topics, overlapped>>

\* accept() raises outside the try block: there is nothing to unregister.
AcceptFails(c) ==
    /\ handler[c] = "accepting" /\ c \notin up
    /\ handler' = [handler EXCEPT ![c] = "gone"]
    /\ UNCHANGED <<up, topics, order, connections, cast, overlapped>>

\* Mutant: no finally clause, the registry keeps the client.
MutLeave(c) ==
    /\ handler' = [handler EXCEPT ![c] = "gone"]
    /\ up' = up \ {c}
    /\ topics' = [topics EXCEPT ![c] = {}]
    /\ UNCHANGED <<order, connections, cast, overlapped>>

\* The coroutine leaves its loop by an exception, its SubscriptionManager with it;
\* the server closes the connection.
Leave(c) ==
    /\ handler' = [handler EXCEPT ![c] = "gone"]
    /\ up' = up \ {c}
    /\ topics' = [topics EXCEPT ![c] = {}]
    /\ Unregister({c}, cast)
    /\ UNCHANGED overlapped

\* Mutant: the exception is swallowed inside the loop.
MutDisconnect(c) ==
    /\ handler[c] = "receiving" /\ c \notin up
    /\ UNCHANGED vars

\* receive_text raises WebSocketDisconnect.
Disconnect(c) ==
    /\ handler[c] = "receiving" /\ c \notin up
    /\ Leave(c)

-----------------------------------------------------------------------------
(* _handle_message: the change of the subscriptions, then the answer.         *)

ToAnswer(c) ==
    /\ handler' = [handler EXCEPT ![c] = "answering"]
    /\ UNCHANGED <<up, order, connections, overlapped>>

Invalid(t) == t = NotText \/ Head(t) \notin VALID_TOPICS

\* The topics are validated in order; an invalid one raises InvalidTopicError,
\* a number an AttributeError, which nobody catches.
FirstInvalid(r) ==
    LET bad == {k \in DOMAIN r.topics : Invalid(r.topics[k])}
    IN IF bad = {} THEN 0 ELSE Min(bad)

IsValid(r) == FirstInvalid(r) = 0
Uncaught(r) == ~IsValid(r) /\ r.topics[FirstInvalid(r)] = NotText

\* A topic that a request names twice counts twice.
NewAt(c, r) == {k \in DOMAIN r.topics : r.topics[k] \notin topics[c]}
Fits(c, r) == Cardinality(topics[c]) + Cardinality(NewAt(c, r)) <= MaxSubscriptions

Subscribe(c, r) ==
    /\ r.action = "subscribe" /\ IsValid(r) /\ Fits(c, r)
    /\ topics' = [topics EXCEPT ![c] = @ \cup {r.topics[k] : k \in NewAt(c, r)}]
    /\ UNCHANGED cast
    /\ ToAnswer(c)

\* An error answer, or a pong: nothing changes.
NoChange(c, r) ==
    /\ \/ r.action \in {"malformed", "ping"}
       \/ r.action = "subscribe" /\ ~Uncaught(r) /\ ~(IsValid(r) /\ Fits(c, r))
    /\ UNCHANGED <<topics, cast>>
    /\ ToAnswer(c)

Unsubscribe(c, r) ==
    LET removed == {r.topics[k] : k \in DOMAIN r.topics} IN
    /\ r.action = "unsubscribe"
    /\ topics' = [topics EXCEPT ![c] = @ \ removed]
    /\ cast' = [b \in Casts |-> IF cast[b].key \in removed
                                THEN [cast[b] EXCEPT !.owed = @ \ {c}] ELSE cast[b]]
    /\ ToAnswer(c)

\* The uncaught exception ends the endpoint.
Crash(c, r) ==
    /\ r.action = "subscribe" /\ Uncaught(r)
    /\ Leave(c)

Receive(c) ==
    /\ handler[c] = "receiving"
    /\ \E r \in Requests : Subscribe(c, r) \/ NoChange(c, r) \/ Unsubscribe(c, r) \/ Crash(c, r)

Answered(c) ==
    /\ handler[c] = "answering"
    /\ handler' = [handler EXCEPT ![c] = "receiving"]
    /\ UNCHANGED <<up, topics, order, connections, cast, overlapped>>

AnswerFails(c) ==
    /\ handler[c] = "answering" /\ c \notin up
    /\ Leave(c)

-----------------------------------------------------------------------------
(* broadcast.  The loop walks the live dict: next() raises when the dict's     *)
(* size is not that of the start, or when there are more entries to visit than *)
(* it had.  (A dict of more than five insertions may also move its entries;    *)
(* a client connects once, and the model has fewer.)                           *)

LiveAfter(pos) == {k \in (pos + 1)..Len(order) : order[k] \in connections}
Visiting(b) == order[cast[b].pos]

Over(it) == [Unstarted EXCEPT !.pc = "over", !.owed = it.owed]

\* The loop of broadcast b runs on, with iterator it, to its next send or its end.
Advance(b, it) ==
    LET todo == LiveAfter(it.pos)
        wanted == {k \in todo : it.key \in topics[order[k]]}
        passed == IF wanted = {} THEN todo ELSE {k \in todo : k <= Min(wanted)}
        raises == \/ Cardinality(connections) # it.size
                  \/ Cardinality(passed) > it.left
    IN \/ /\ raises
          /\ cast' = [cast EXCEPT ![b] = Over(it)]
          /\ UNCHANGED connections
       \/ /\ ~raises /\ wanted # {}
          /\ cast' = [cast EXCEPT ![b] = [it EXCEPT !.pos = Min(wanted),
                                                    !.left = @ - Cardinality(passed)]]
          /\ UNCHANGED connections
       \/ /\ ~raises /\ wanted = {}
          /\ Unregister(it.stale, [cast EXCEPT ![b] = Over(it)])

Broadcast(b, key) ==
    LET n == Cardinality(connections) IN
    /\ cast[b].pc = "idle"
    /\ Advance(b, [Unstarted EXCEPT !.pc = "sending", !.key = key, !.left = n, !.size = n,
                                    !.owed = {c \in connections : key \in topics[c]}])
    /\ UNCHANGED <<handler, up, topics, order, overlapped>>

publish_kline(b) == \E r \in Routes, i \in Intervals : Broadcast(b, KlineKey(r, i))
publish_marketdata(b) ==
    \E n \in MarketDataTopics, r \in Routes : Broadcast(b, MarketDataKey(n, r))
publish_quality_event(b) == \E r \in Routes : Broadcast(b, QualityEventKey(r))
publish_stream_status(b) == Broadcast(b, StreamStatusKey)

Publish(b) == publish_kline(b) \/ publish_marketdata(b)
              \/ publish_quality_event(b) \/ publish_stream_status(b)

\* send_text returns; the library may swallow a message for a closed connection.
Sent(b) ==
    /\ cast[b].pc = "sending"
    /\ Advance(b, [cast[b] EXCEPT !.owed = @ \ {Visiting(b)}])
    /\ UNCHANGED <<handler, up, topics, order, overlapped>>

\* Mutant: the exception of one send ends the broadcast.
MutSendFails(b) ==
    /\ cast[b].pc = "sending" /\ Visiting(b) \notin up
    /\ cast' = [cast EXCEPT ![b] = Over(cast[b])]
    /\ UNCHANGED <<handler, up, topics, order, connections, overlapped>>

\* send_text raises: the client is marked stale, and the loop goes on.
SendFails(b) ==
    /\ cast[b].pc = "sending" /\ Visiting(b) \notin up
    /\ Advance(b, [cast[b] EXCEPT !.owed = @ \ {Visiting(b)}, !.stale = @ \cup {Visiting(b)}])
    /\ UNCHANGED <<handler, up, topics, order, overlapped>>

-----------------------------------------------------------------------------
\* A client closes its connection or loses it.
Drop(c) ==
    /\ c \in up /\ handler[c] # "new"
    /\ up' = up \ {c}
    /\ UNCHANGED <<handler, topics, order, connections, cast, overlapped>>

Next ==
    \/ \E c \in Clients : \/ Refuse(c) \/ Admit(c) \/ Accepted(c) \/ AcceptFails(c)
                          \/ Receive(c) \/ Answered(c) \/ AnswerFails(c)
                          \/ Disconnect(c) \/ Drop(c)
    \/ \E b \in Casts : Publish(b) \/ Sent(b) \/ SendFails(b)

Spec == Init /\ [][Next]_vars

\* An await of the socket ends: the server's keepalive closes a silent connection.
\* Strong fairness for Disconnect: what a client sent before it left is read first,
\* and that is finite.
Fairness ==
    /\ \A c \in Clients : /\ WF_vars(Accepted(c) \/ AcceptFails(c))
                          /\ WF_vars(Answered(c) \/ AnswerFails(c))
                          /\ SF_vars(Disconnect(c))
    /\ \A b \in Casts : WF_vars(Sent(b) \/ SendFails(b))

FairSpec == Spec /\ Fairness

-----------------------------------------------------------------------------
(* Properties.                                                                *)

\* A client is in the registry exactly as long as its endpoint serves it: the
\* one exception is a client that a broadcast threw out, and its connection is
\* closed.  So nothing is sent to an endpoint that has ended, and no open client
\* that is being served is out of reach of the broadcasts.
RegisteredWhileServed ==
    /\ \A c \in connections : handler[c] \in Serving
    /\ \A c \in up : handler[c] \in Serving => c \in connections

\* Subscribing is all or nothing within the limit of the connection, and only
\* valid topics are ever held.
SubscriptionsWithinLimit ==
    \A c \in Clients : /\ Cardinality(topics[c]) <= MaxSubscriptions
                       /\ \A t \in topics[c] : ~Invalid(t)

HubInv == HubTypeOK /\ RegisteredWhileServed /\ SubscriptionsWithinLimit

\* A broadcast reaches, or finds broken, every client that is registered and
\* subscribed all the while, unless the registry changes during one of its sends:
\* a failed send, a client that unsubscribes or another broadcast robs nobody.
CutShortByChangeOnly ==
    \A b \in Casts : cast[b].pc = "over" => cast[b].owed = {}

\* The limit on connections can only be passed by clients whose accept() calls
\* overlapped, because is_full() looks at those already registered.
LimitUnlessOverlapped == ~overlapped => Cardinality(connections) <= MaxConnections

\* Every broadcast ends, whoever comes and goes meanwhile; and a client that is
\* gone does not stay in the registry, even when the broadcast that noticed it
\* raised before it could throw it out.
HubSettles ==
    /\ \A b \in Casts : cast[b].pc = "sending" ~> cast[b].pc = "over"
    /\ \A c \in Clients : c \notin up ~> c \notin connections
================================================================================
