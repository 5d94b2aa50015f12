------------------------ MODULE BinanceWSManagerProofs ------------------------
(***************************************************************************)
(* Proofs about the WebSocket manager, for any streams, any number of lost *)
(* connections and of calls: which socket a task holds, what the server    *)
(* has been told, and what the heartbeat may take down.                    *)
(*                                                                         *)
(* The tasks of a market type touch nothing of another one's, so the       *)
(* invariant is one about a single market type's state, with what it needs *)
(* to know of run_forever and of close(), and a little about those two.    *)
(***************************************************************************)
EXTENDS BinanceWSManager, TLAPS

USE MarketTypesAssumption, BoundsAssumption

-----------------------------------------------------------------------------
(* The inductive invariant: a market type with state c, sockets ss, reader r *)
(* and heartbeat h, while the manager is closing or not (e), and while       *)
(* run_forever is subscribing it again or not (q).                           *)

Live(c, ss) == c.connected /\ c.ws # 0 /\ ss[c.ws].state = "open"
Within(c, ss) == Live(c, ss) => ss[c.ws].subs \subseteq c.subs
Agrees(c, ss) == Live(c, ss) => ss[c.ws].subs = c.subs

\* Only a socket on which SET_PROPERTY was sent is ever open to a SUBSCRIBE.
SocketsInv(ss) ==
    /\ ss \in Seq(Socket)
    /\ \A s \in 1..Len(ss) :
          /\ ss[s].state = "open" => ss[s].combined
          /\ ss[s].subs # {} => ss[s].combined

ConnInv(c, ss, e) ==
    /\ c \in Conn /\ c.ws \in 0..Len(ss)
    /\ c.connected => c.attempt = 0
    /\ c.connected /\ ~e => c.ws # 0
    /\ Within(c, ss)

\* close() takes the socket away from a reader that is still at it.
ReaderInv(c, ss, r, e) ==
    /\ r \in Reader /\ r.sock \in 0..Len(ss)
    /\ r.pc \in {"recv", "dispatch"} =>
          r.sock # 0 /\ (r.sock = c.ws \/ (e /\ c.ws = 0 /\ ~c.connected))
    /\ r.pc = "backoff" /\ ~e => ~c.connected /\ c.attempt > 0

\* The heartbeat waits for the pong of a connection that is up, or that has just
\* been found closed.
HbInv(c, ss, h, e) ==
    /\ h \in Heartbeat /\ h.sock \in 0..Len(ss)
    /\ h.pc = "pong" => h.sock # 0
    /\ h.pc = "pong" /\ ~e => h.sock = c.ws /\ (c.connected \/ ss[h.sock].state = "closed")

MarketInv(c, ss, r, h, e, q) ==
    /\ SocketsInv(ss) /\ ConnInv(c, ss, e) /\ ReaderInv(c, ss, r, e) /\ HbInv(c, ss, h, e)
    /\ ~q /\ r.pc \notin {"resubscribe", "done"} => Agrees(c, ss)

RunnerAt(m) == runner.pc = "resubscribe" /\ RunnerMarket = m
MarketsInv ==
    \A m \in Markets :
        MarketInv(conn[m], sockets[m], reader[m], hb[m], closing, RunnerAt(m))

\* Before run_forever has got past its connects there are no tasks.
TasksInv ==
    /\ runner.pc \in {"off", "start", "connect", "resubscribe"} =>
          \A m \in Markets : reader[m].pc = "off" /\ hb[m].pc = "off"
    /\ runner.pc \in {"connect", "resubscribe"} => runner.at # 0
    /\ runner.pc = "start" => main.pc = "run"
    /\ runner.pc = "off" <=> main.pc \in {"connect", "subscribe", "failed"}

\* While close() waits for a socket, its reader has no connection any more.
CloseInv ==
    /\ closing <=> main.pc \in {"close", "stopped"}
    /\ main.pc = "close" =>
          /\ main.sock # 0
          /\ reader[MainMarket].pc \in {"recv", "dispatch"} => ~conn[MainMarket].connected

\* What main still has to connect has no subscriptions yet.
StartInv ==
    main.pc \in {"connect", "subscribe"} =>
        /\ main.sock = 0
        /\ \A i \in main.at..Len(MarketTypes) : conn[MarketTypes[i]].subs = {}

WsInv == WsTypeOK /\ MarketsInv /\ TasksInv /\ CloseInv /\ StartInv
-----------------------------------------------------------------------------
(* The market types and their positions.                                     *)

LEMMA MarketPositions ==
    /\ Len(MarketTypes) \in {1, 2} /\ DOMAIN MarketTypes = 1..Len(MarketTypes)
    /\ \A i \in 1..Len(MarketTypes) : MarketTypes[i] \in Markets
    /\ \A m \in Markets : \E i \in 1..Len(MarketTypes) : MarketTypes[i] = m
    /\ \A i, j \in 1..Len(MarketTypes) : MarketTypes[i] = MarketTypes[j] => i = j
<1>1. CASE MarketTypes = <<"spot">>
  BY <1>1 DEF Markets
<1>2. CASE MarketTypes = <<"perp">>
  BY <1>2 DEF Markets
<1>3. CASE MarketTypes = <<"spot", "perp">>
  BY <1>3 DEF Markets
<1> QED
  BY <1>1, <1>2, <1>3, MarketTypesAssumption

LEMMA FirstPosition ==
    ASSUME NEW S \in SUBSET (DOMAIN MarketTypes), S # {}
    PROVE  Min(S) \in S
<1>1. S \subseteq {1, 2}
  BY MarketPositions
<1>2. \E k \in S : \A j \in S : k <= j
  <2>1. CASE 1 \in S
    BY <1>1, <2>1
  <2>2. CASE 1 \notin S
    <3>1. S = {2}
      BY <1>1, <2>2
    <3> QED
      BY <3>1
  <2> QED
    BY <2>1, <2>2
<1> QED
  BY <1>2 DEF Min

-----------------------------------------------------------------------------
(* What happens to the sockets.                                              *)

\* Sockets die and lose replies, and keep what is subscribed.
Faded(ss, new) ==
    /\ SocketsInv(new) /\ Len(new) = Len(ss)
    /\ \A s \in 1..Len(ss) :
          /\ new[s].state = "open" => ss[s].state = "open" /\ new[s].subs = ss[s].subs
          /\ ss[s].state = "closed" => new[s].state = "closed"

LEMMA FadedInv ==
    ASSUME NEW c, NEW ss, NEW new, NEW r, NEW h, NEW e, NEW q,
           MarketInv(c, ss, r, h, e, q), Faded(ss, new)
    PROVE  MarketInv(c, new, r, h, e, q)
<1>1. ConnInv(c, new, e)
  <2>1. c \in Conn /\ c.ws \in 0..Len(new) /\ Len(ss) \in Nat
    BY DEF MarketInv, ConnInv, Faded, SocketsInv
  <2>2. Within(c, new)
    BY <2>1 DEF MarketInv, ConnInv, Faded, Within, Live
  <2> QED
    BY <2>1, <2>2 DEF MarketInv, ConnInv
<1>2. ReaderInv(c, new, r, e)
  BY DEF MarketInv, ReaderInv, Faded
<1>3. HbInv(c, new, h, e)
  <2>1. h.sock \in 0..Len(new) /\ (h.pc = "pong" => h.sock \in 1..Len(ss))
    BY DEF MarketInv, HbInv, Faded, SocketsInv
  <2> QED
    BY <2>1 DEF MarketInv, HbInv, Faded
<1>4. Agrees(c, ss) => Agrees(c, new)
  <2>1. c.ws # 0 => c.ws \in 1..Len(ss)
    BY DEF MarketInv, ConnInv, SocketsInv
  <2> QED
    BY <2>1 DEF Agrees, Live, Faded
<1> QED
  BY <1>1, <1>2, <1>3, <1>4 DEF MarketInv, Faded

\* A change of one socket, of which the invariant asks only what it says of each.
LEMMA OneSocket ==
    ASSUME NEW ss, SocketsInv(ss), NEW s \in 1..Len(ss), NEW x \in Socket,
           x.state = "open" => x.combined, x.subs # {} => x.combined
    PROVE  LET new == [ss EXCEPT ![s] = x] IN
           /\ SocketsInv(new) /\ Len(new) = Len(ss) /\ new[s] = x
           /\ \A t \in 1..Len(ss) : t # s => new[t] = ss[t]
<1> DEFINE new == [ss EXCEPT ![s] = x]
<1>1. ss \in Seq(Socket) /\ Len(ss) \in Nat
  BY DEF SocketsInv
<1>2. new \in Seq(Socket) /\ Len(new) = Len(ss) /\ new[s] = x
      /\ \A t \in 1..Len(ss) : t # s => new[t] = ss[t]
  BY <1>1
<1>3. SocketsInv(new)
  BY <1>2 DEF SocketsInv
<1> QED
  BY <1>2, <1>3

LEMMA OneFades ==
    ASSUME NEW ss, SocketsInv(ss), NEW s \in 1..Len(ss), NEW x \in Socket,
           x.combined = ss[s].combined, x.subs = ss[s].subs,
           x.state = "open" => ss[s].state = "open",
           ss[s].state = "closed" => x.state = "closed"
    PROVE  Faded(ss, [ss EXCEPT ![s] = x])
<1> DEFINE new == [ss EXCEPT ![s] = x]
<1>1. (x.state = "open" => x.combined) /\ (x.subs # {} => x.combined)
  BY DEF SocketsInv
<1>2. SocketsInv(new) /\ Len(new) = Len(ss) /\ new[s] = x
      /\ \A t \in 1..Len(ss) : t # s => new[t] = ss[t]
  BY <1>1, OneSocket
<1> HIDE DEF new
<1>3. Faded(ss, new)
  BY <1>2 DEF Faded
<1> QED
  BY <1>3 DEF new

\* The server takes a request on the socket of c, which is open, or nothing happens:
\* subs is what it sends now.
Served(c, ss, new, subs) ==
    /\ SocketsInv(new) /\ Len(new) = Len(ss)
    /\ \A s \in 1..Len(ss) : new[s].state = ss[s].state
    /\ c.ws # 0 /\ ss[c.ws].state = "open" => new[c.ws].subs = subs

LEMMA ServedInv ==
    ASSUME NEW c, NEW ss, NEW new, NEW r, NEW h, NEW e, NEW q, NEW subs, NEW d,
           MarketInv(c, ss, r, h, e, q), Served(c, ss, new, subs), d \in SUBSET AllStreams,
           Live(c, ss) => subs \subseteq d,
           ~q /\ r.pc \notin {"resubscribe", "done"} => (Live(c, ss) => subs = d)
    PROVE  MarketInv([c EXCEPT !.subs = d], new, r, h, e, q)
<1> DEFINE x == [c EXCEPT !.subs = d]
<1>1. c \in Conn /\ c.ws \in 0..Len(new) /\ Len(ss) \in Nat /\ Len(new) = Len(ss)
  BY DEF MarketInv, ConnInv, Served, SocketsInv
<1>2. /\ x \in Conn /\ x.ws = c.ws /\ x.connected = c.connected /\ x.attempt = c.attempt
      /\ x.subs = d
  BY <1>1 DEF Conn
<1> HIDE DEF x
<1>3. Live(x, new) => Live(c, ss) /\ new[x.ws].subs = subs
  BY <1>1, <1>2 DEF Live, Served
<1>4. ConnInv(x, new, e)
  BY <1>1, <1>2, <1>3 DEF MarketInv, ConnInv, Within
<1>5. ReaderInv(x, new, r, e)
  BY <1>1, <1>2 DEF MarketInv, ReaderInv
<1>6. HbInv(x, new, h, e)
  <2>1. h.sock \in 0..Len(new) /\ (h.pc = "pong" => h.sock \in 1..Len(ss))
    BY <1>1 DEF MarketInv, HbInv
  <2> QED
    BY <1>2, <2>1 DEF MarketInv, HbInv, Served
<1>7. ~q /\ r.pc \notin {"resubscribe", "done"} => Agrees(x, new)
  BY <1>2, <1>3 DEF Agrees
<1>8. MarketInv(x, new, r, h, e, q)
  BY <1>4, <1>5, <1>6, <1>7 DEF MarketInv, Served
<1> QED
  BY <1>8 DEF x

\* A connection is opened.
Opened(ss, st) ==
    Append(ss, [state |-> st, combined |-> st = "open", subs |-> {},
                acks |-> IF st = "open" THEN 1 ELSE 0])
Renewed(c, ss) == [c EXCEPT !.ws = Len(ss) + 1, !.connected = TRUE, !.attempt = 0]

LEMMA OpenedInv ==
    ASSUME NEW c \in Conn, NEW ss, SocketsInv(ss), NEW st \in {"open", "closed"},
           NEW e \in BOOLEAN,
           NEW h, h \in Heartbeat, h.sock \in 0..Len(ss), h.pc = "pong" => e /\ h.sock # 0
    PROVE  LET new == Opened(ss, st)
               x == Renewed(c, ss)
           IN /\ SocketsInv(new) /\ ConnInv(x, new, e) /\ HbInv(x, new, h, e)
              /\ x \in Conn /\ x.subs = c.subs /\ x.ws \in 1..Len(new) /\ x.connected
              /\ Len(new) = Len(ss) + 1
              /\ st = "closed" \/ c.subs = {} => Agrees(x, new)
<1> DEFINE new == Opened(ss, st)
           x == Renewed(c, ss)
           y == [state |-> st, combined |-> st = "open", subs |-> {},
                 acks |-> IF st = "open" THEN 1 ELSE 0]
<1>1. ss \in Seq(Socket) /\ Len(ss) \in Nat
  BY DEF SocketsInv
<1>2. /\ y \in Socket /\ y.state = st /\ y.subs = {} /\ y.combined = (st = "open")
  <2>1. {} \in SUBSET AllStreams
    OBVIOUS
  <2>2. (IF st = "open" THEN 1 ELSE 0) \in Nat /\ (st = "open") \in BOOLEAN
    OBVIOUS
  <2> QED
    BY <2>1, <2>2 DEF Socket
<1>3. /\ x \in Conn /\ x.subs = c.subs /\ x.ws = Len(ss) + 1 /\ x.connected /\ x.attempt = 0
  <2>1. Len(ss) + 1 \in Nat /\ 0 \in 0..MaxAttempt
    BY <1>1
  <2> QED
    BY <2>1 DEF Conn, Renewed
<1>4. new = Append(ss, y)
  BY DEF Opened
<1> HIDE DEF x, y
<1>5. /\ new \in Seq(Socket) /\ Len(new) = Len(ss) + 1 /\ new[Len(ss) + 1] = y
      /\ \A s \in 1..Len(ss) : new[s] = ss[s]
  BY <1>1, <1>2, <1>4
<1> HIDE DEF new
<1>6. SocketsInv(new)
  <2>1. ASSUME NEW s \in 1..Len(new)
        PROVE  /\ new[s].state = "open" => new[s].combined
               /\ new[s].subs # {} => new[s].combined
    <3>1. CASE s = Len(ss) + 1
      BY <1>2, <1>5, <3>1
    <3>2. CASE s # Len(ss) + 1
      <4>1. s \in 1..Len(ss)
        BY <1>1, <1>5, <3>2
      <4> QED
        BY <1>5, <4>1 DEF SocketsInv
    <3> QED
      BY <3>1, <3>2
  <2> QED
    BY <1>5, <2>1 DEF SocketsInv
<1>7. new[x.ws].state = st /\ new[x.ws].subs = {}
  BY <1>2, <1>3, <1>5
<1>8. ConnInv(x, new, e)
  BY <1>1, <1>3, <1>5, <1>7 DEF ConnInv, Within
<1>9. HbInv(x, new, h, e)
  BY <1>1, <1>5 DEF HbInv
<1>10. st = "closed" \/ c.subs = {} => Agrees(x, new)
  BY <1>3, <1>7 DEF Agrees, Live
<1>11. x.ws \in 1..Len(new)
  BY <1>1, <1>3, <1>5
<1> QED
  BY <1>3, <1>5, <1>6, <1>8, <1>9, <1>10, <1>11 DEF new, x

\* The top of the reader's loop.
LEMMA LoopInv ==
    ASSUME NEW c, NEW ss, NEW h, NEW e \in BOOLEAN, NEW q,
           SocketsInv(ss), ConnInv(c, ss, e), HbInv(c, ss, h, e), Agrees(c, ss)
    PROVE  /\ MarketInv(TopConn(c, e), ss, Top(c, e), h, e, q)
           /\ Top(c, e).pc \in {"recv", "backoff", "done"} /\ (e => Top(c, e).pc = "done")
<1> DEFINE x == TopConn(c, e)
           r == Top(c, e)
<1>1. c \in Conn /\ c.ws \in 0..Len(ss) /\ Len(ss) \in Nat
  BY DEF ConnInv, SocketsInv
<1>2. /\ x \in Conn /\ x.ws = c.ws /\ x.connected = c.connected /\ x.subs = c.subs
      /\ x.attempt = c.attempt \/ (~e /\ Down(c))
      /\ ~e /\ Down(c) => x.attempt > 0
  <2>1. CASE ~e /\ Down(c) /\ c.attempt < MaxAttempt
    <3>1. c.attempt + 1 \in 0..MaxAttempt /\ c.attempt + 1 > 0
      BY <1>1, <2>1 DEF Conn
    <3>2. x = [c EXCEPT !.attempt = c.attempt + 1]
      BY <2>1 DEF TopConn
    <3> HIDE DEF x
    <3>3. x \in Conn /\ x.attempt = c.attempt + 1
      BY <1>1, <3>1, <3>2 DEF Conn
    <3> QED
      BY <1>1, <2>1, <3>1, <3>2, <3>3 DEF Conn
  <2>2. CASE ~(~e /\ Down(c) /\ c.attempt < MaxAttempt)
    <3>1. x = c
      BY <2>2 DEF TopConn
    <3>2. ~e /\ Down(c) => c.attempt > 0
      BY <1>1, <2>2 DEF Conn
    <3> QED
      BY <1>1, <3>1, <3>2
  <2> QED
    BY <2>1, <2>2
<1>3. /\ r \in Reader /\ r.sock \in 0..Len(ss) /\ r.pc \in {"recv", "backoff", "done"}
      /\ r.pc = "recv" => ~e /\ c.connected /\ c.ws # 0 /\ r.sock = c.ws
      /\ r.pc = "backoff" => ~e /\ Down(c)
      /\ e => r.pc = "done"
  <2>1. c.ws \in Nat /\ 0 \in Nat
    BY <1>1
  <2> QED
    BY <1>1, <2>1 DEF Top, Reader, Down
<1> HIDE DEF x, r
<1>4. ~e /\ Down(c) => ~c.connected
  BY DEF Down, ConnInv
<1>5. ConnInv(x, ss, e) /\ Agrees(x, ss)
  BY <1>1, <1>2, <1>4 DEF ConnInv, Agrees, Within, Live
<1>6. ReaderInv(x, ss, r, e)
  BY <1>2, <1>3, <1>4 DEF ReaderInv
<1>7. HbInv(x, ss, h, e)
  BY <1>2 DEF HbInv
<1> QED
  BY <1>3, <1>5, <1>6, <1>7 DEF MarketInv, x, r

-----------------------------------------------------------------------------
(* The tasks of one market type.                                             *)

LEMMA TypeOfMarket ==
    ASSUME WsInv, NEW m \in Markets
    PROVE  /\ MarketInv(conn[m], sockets[m], reader[m], hb[m], closing, RunnerAt(m))
           /\ SocketsInv(sockets[m]) /\ ConnInv(conn[m], sockets[m], closing)
           /\ ReaderInv(conn[m], sockets[m], reader[m], closing)
           /\ HbInv(conn[m], sockets[m], hb[m], closing)
           /\ conn[m] \in Conn /\ conn[m].ws \in 0..Len(sockets[m]) /\ closing \in BOOLEAN
           /\ Len(sockets[m]) \in Nat /\ DOMAIN sockets[m] = 1..Len(sockets[m])
           /\ \A s \in 1..Len(sockets[m]) : sockets[m][s] \in Socket
BY DEF WsInv, WsTypeOK, MarketsInv, MarketInv, ConnInv, SocketsInv

\* A variable that is left alone, as an update of m.
LEMMA Untouched ==
    ASSUME WsInv, NEW m \in Markets
    PROVE  /\ conn = [conn EXCEPT ![m] = conn[m]]
           /\ sockets = [sockets EXCEPT ![m] = sockets[m]]
           /\ reader = [reader EXCEPT ![m] = reader[m]]
           /\ hb = [hb EXCEPT ![m] = hb[m]]
BY DEF WsInv, WsTypeOK

\* A step that changes no other market type, nor run_forever, nor close().
LEMMA MarketStep ==
    ASSUME WsInv, NEW m \in Markets, NEW c, NEW ss, NEW r, NEW h,
           conn' = [conn EXCEPT ![m] = c], sockets' = [sockets EXCEPT ![m] = ss],
           reader' = [reader EXCEPT ![m] = r], hb' = [hb EXCEPT ![m] = h],
           UNCHANGED <<runner, main, closing>>,
           faults' \in 0..MaxFaults, calls' \in 0..MaxCalls,
           MarketInv(c, ss, r, h, closing, RunnerAt(m)),
           Len(ss) >= Len(sockets[m]),
           runner.pc \in {"gather", "ended"} \/ (r.pc = reader[m].pc /\ h.pc = hb[m].pc),
           runner.pc # "off" \/ c.subs = conn[m].subs,
           closing /\ r.pc \in {"recv", "dispatch"} =>
               /\ reader[m].pc \in {"recv", "dispatch"}
               /\ conn[m].connected = FALSE => c.connected = FALSE
    PROVE  WsInv'
<1>1. /\ conn'[m] = c /\ sockets'[m] = ss /\ reader'[m] = r /\ hb'[m] = h
      /\ \A n \in Markets \ {m} : /\ conn'[n] = conn[n] /\ sockets'[n] = sockets[n]
                                  /\ reader'[n] = reader[n] /\ hb'[n] = hb[n]
  BY DEF WsInv, WsTypeOK
<1>2. c \in Conn /\ ss \in Seq(Socket) /\ r \in Reader /\ h \in Heartbeat
      /\ {c.ws, r.sock, h.sock} \subseteq 0..Len(ss) /\ Len(ss) \in Nat
  BY DEF MarketInv, ConnInv, SocketsInv, ReaderInv, HbInv
<1>3. /\ conn' \in [Markets -> Conn] /\ sockets' \in [Markets -> Seq(Socket)]
      /\ reader' \in [Markets -> Reader] /\ hb' \in [Markets -> Heartbeat]
  BY <1>2 DEF WsInv, WsTypeOK
<1>4. main.sock \in Nat /\ main.sock <= Len(sockets'[MarketTypes[main.at]])
  <2>1. MarketTypes[main.at] \in Markets /\ main.sock \in Nat
        /\ main.sock <= Len(sockets[MarketTypes[main.at]])
    BY MarketPositions DEF WsInv, WsTypeOK
  <2>2. Len(sockets[MarketTypes[main.at]]) \in Nat
    BY <2>1 DEF WsInv, WsTypeOK
  <2>3. Len(sockets'[MarketTypes[main.at]]) >= Len(sockets[MarketTypes[main.at]])
    BY <1>1, <1>2, <2>1, <2>2
  <2>4. Len(sockets'[MarketTypes[main.at]]) \in Nat
    BY <1>1, <1>2, <2>1, <2>2
  <2> QED
    BY <2>1, <2>2, <2>3, <2>4
<1>5. \A n \in Markets :
         {conn'[n].ws, reader'[n].sock, hb'[n].sock} \subseteq 0..Len(sockets'[n])
  BY <1>1, <1>2 DEF WsInv, WsTypeOK
<1>6. WsTypeOK'
  BY <1>3, <1>4, <1>5 DEF WsInv, WsTypeOK
<1>7. \A n \in Markets : RunnerAt(n)' = RunnerAt(n)
  BY DEF RunnerAt, RunnerMarket
<1>8. MarketsInv'
  BY <1>1, <1>7 DEF WsInv, MarketsInv
<1>9. TasksInv'
  BY <1>1 DEF WsInv, TasksInv
<1>10. CloseInv'
  <2>1. main' = main /\ closing' = closing /\ MainMarket \in Markets /\ MainMarket' = MainMarket
    BY MarketPositions DEF WsInv, WsTypeOK, MainMarket
  <2>2. CASE main.pc # "close"
    BY <2>1, <2>2 DEF WsInv, CloseInv
  <2>3. CASE main.pc = "close"
    <3>1. closing /\ main.sock # 0
      BY <2>3 DEF WsInv, CloseInv
    <3>2. reader'[MainMarket].pc \in {"recv", "dispatch"} => ~conn'[MainMarket].connected
      <4>1. CASE MainMarket = m
        <5>1. c.connected \in BOOLEAN /\ conn[m].connected \in BOOLEAN
          BY <1>2, TypeOfMarket DEF Conn
        <5> QED
          BY <1>1, <2>3, <3>1, <4>1, <5>1 DEF WsInv, CloseInv
      <4>2. CASE MainMarket # m
        BY <1>1, <2>1, <2>3, <4>2 DEF WsInv, CloseInv
      <4> QED
        BY <4>1, <4>2
    <3> QED
      BY <2>1, <2>3, <3>1, <3>2 DEF WsInv, CloseInv
  <2> QED
    BY <2>2, <2>3
<1>11. StartInv'
  <2>1. ASSUME main.pc \in {"connect", "subscribe"}, NEW i \in main.at..Len(MarketTypes),
               conn[MarketTypes[i]].subs = {}
        PROVE  conn'[MarketTypes[i]].subs = {}
    <3>1. MarketTypes[i] \in Markets
      BY MarketPositions DEF WsInv, WsTypeOK
    <3>2. c.subs = conn[m].subs
      BY <2>1 DEF WsInv, TasksInv
    <3> QED
      BY <1>1, <2>1, <3>1, <3>2
  <2> QED
    BY <2>1 DEF WsInv, StartInv
<1> QED
  BY <1>6, <1>8, <1>9, <1>10, <1>11 DEF WsInv

\* What the guards of reader and heartbeat say of run_forever.
LEMMA TasksRun ==
    ASSUME WsInv, NEW m \in Markets, reader[m].pc # "off" \/ hb[m].pc # "off"
    PROVE  runner.pc \in {"gather", "ended"} /\ ~RunnerAt(m)
BY DEF WsInv, WsTypeOK, TasksInv, RunnerAt

LEMMA FaultCounts == ASSUME WsInv, Fault \/ UNCHANGED faults PROVE faults' \in 0..MaxFaults
BY DEF WsInv, WsTypeOK, Fault

\* The reader goes round with connection c on sockets ss.
LEMMA LoopTopInv ==
    ASSUME WsInv, NEW m \in Markets, NEW c, NEW ss,
           reader[m].pc # "off", LoopTop(m, c), sockets' = [sockets EXCEPT ![m] = ss],
           Fault \/ UNCHANGED faults, ReaderRest,
           SocketsInv(ss), ConnInv(c, ss, closing), HbInv(c, ss, hb[m], closing),
           Agrees(c, ss), Len(ss) >= Len(sockets[m])
    PROVE  WsInv'
<1> DEFINE r == Top(c, closing)
           x == TopConn(c, closing)
<1>1. closing \in BOOLEAN
  BY TypeOfMarket
<1>2. /\ MarketInv(x, ss, r, hb[m], closing, RunnerAt(m))
      /\ closing => r.pc = "done"
  BY <1>1, LoopInv
<1>3. /\ conn' = [conn EXCEPT ![m] = x] /\ reader' = [reader EXCEPT ![m] = r]
      /\ hb' = [hb EXCEPT ![m] = hb[m]] /\ UNCHANGED <<runner, main, closing, calls>>
  BY Untouched DEF LoopTop, ReaderRest
<1>4. runner.pc \in {"gather", "ended"}
  BY TasksRun
<1>5. faults' \in 0..MaxFaults /\ calls' \in 0..MaxCalls
  BY <1>3, FaultCounts DEF WsInv, WsTypeOK
<1> HIDE DEF x, r
<1> QED
  BY <1>2, <1>3, <1>4, <1>5, MarketStep

LEMMA ReaderSkipsInv == ASSUME WsInv, NEW m \in Markets, ReaderSkips(m) PROVE WsInv'
<1> DEFINE ss == sockets[m]
           s == reader[m].sock
           y == [ss[s] EXCEPT !.acks = @ - 1]
           new == [ss EXCEPT ![s] = y]
<1>1. /\ SocketsInv(ss) /\ s \in 1..Len(ss) /\ ss[s] \in Socket /\ ss[s].acks > 0
      /\ MarketInv(conn[m], ss, reader[m], hb[m], closing, RunnerAt(m))
      /\ reader[m].pc = "recv" /\ ~RunnerAt(m)
  <2>1. reader[m].pc = "recv" /\ sockets[m][s].acks > 0
    BY DEF ReaderSkips
  <2>2. s \in 1..Len(ss)
    BY <2>1, TypeOfMarket DEF ReaderInv
  <2> QED
    BY <2>1, <2>2, TypeOfMarket, TasksRun
<1>2. ss[s].acks - 1 \in Nat
  BY <1>1 DEF Socket
<1>3. y \in Socket /\ y.state = ss[s].state /\ y.subs = ss[s].subs /\ y.combined = ss[s].combined
  BY <1>1, <1>2 DEF Socket
<1>4. sockets' = [sockets EXCEPT ![m] = new]
  BY DEF ReaderSkips, WsInv, WsTypeOK
<1> HIDE DEF y
<1>5. Faded(ss, new)
  BY <1>1, <1>3, OneFades
<1> HIDE DEF new
<1>6. MarketInv(conn[m], new, reader[m], hb[m], closing, RunnerAt(m))
  BY <1>1, <1>5, FadedInv
<1>7. Agrees(conn[m], new) /\ SocketsInv(new) /\ ConnInv(conn[m], new, closing)
      /\ HbInv(conn[m], new, hb[m], closing)
  BY <1>1, <1>6 DEF MarketInv
<1>8. Len(new) >= Len(ss)
  BY <1>5, TypeOfMarket DEF Faded
<1> QED
  BY <1>1, <1>4, <1>7, <1>8, LoopTopInv DEF ReaderSkips

LEMMA ReaderReceivesInv == ASSUME WsInv, NEW m \in Markets, ReaderReceives(m) PROVE WsInv'
<1> DEFINE r == [reader[m] EXCEPT !.pc = "dispatch"]
<1>1. /\ reader[m].pc = "recv" /\ reader' = [reader EXCEPT ![m] = r] /\ reader[m] \in Reader
      /\ UNCHANGED <<conn, sockets, faults, hb, runner, main, closing, calls>>
      /\ faults \in 0..MaxFaults /\ calls \in 0..MaxCalls
  BY DEF ReaderReceives, ReaderRest, WsInv, WsTypeOK
<1>2. r \in Reader /\ r.pc = "dispatch" /\ r.sock = reader[m].sock
  BY <1>1 DEF Reader
<1> HIDE DEF r
<1>3. MarketInv(conn[m], sockets[m], r, hb[m], closing, RunnerAt(m))
  BY <1>1, <1>2, TypeOfMarket DEF MarketInv, ReaderInv
<1> DEFINE c == conn[m]
           ss == sockets[m]
           h == hb[m]
<1>4. /\ MarketInv(c, ss, r, h, closing, RunnerAt(m)) /\ Len(ss) >= Len(sockets[m])
      /\ conn' = [conn EXCEPT ![m] = c] /\ sockets' = [sockets EXCEPT ![m] = ss]
      /\ hb' = [hb EXCEPT ![m] = h] /\ faults' \in 0..MaxFaults /\ calls' \in 0..MaxCalls
      /\ UNCHANGED <<runner, main, closing>> /\ runner.pc \in {"gather", "ended"}
      /\ reader' = [reader EXCEPT ![m] = r]
      /\ reader[m].pc \in {"recv", "dispatch"} /\ c.connected = conn[m].connected
  BY <1>1, <1>3, TypeOfMarket, TasksRun, Untouched
<1> HIDE DEF c, ss, h
<1> QED
  BY <1>4, MarketStep

LEMMA ReaderDispatchedInv == ASSUME WsInv, NEW m \in Markets, ReaderDispatched(m) PROVE WsInv'
<1>1. /\ reader[m].pc = "dispatch" /\ LoopTop(m, conn[m]) /\ ReaderRest
      /\ UNCHANGED <<sockets, faults>>
  BY DEF ReaderDispatched
<1>2. Agrees(conn[m], sockets[m])
  BY <1>1, TypeOfMarket, TasksRun DEF MarketInv
<1>3. Len(sockets[m]) >= Len(sockets[m])
  BY TypeOfMarket
<1> QED
  BY <1>1, <1>2, <1>3, TypeOfMarket, Untouched, LoopTopInv

\* A connection that is given up: nothing is asked of it any more.
LEMMA GivenUp ==
    ASSUME NEW c, NEW ss, NEW e, ConnInv(c, ss, e)
    PROVE  LET x == [c EXCEPT !.connected = FALSE] IN
           /\ ConnInv(x, ss, e) /\ Agrees(x, ss) /\ ~x.connected
           /\ x.ws = c.ws /\ x.attempt = c.attempt
<1> DEFINE x == [c EXCEPT !.connected = FALSE]
<1>1. x \in Conn /\ ~x.connected /\ x.ws = c.ws /\ x.attempt = c.attempt
  BY DEF ConnInv, Conn
<1> HIDE DEF x
<1>2. ConnInv(x, ss, e) /\ Agrees(x, ss)
  BY <1>1 DEF ConnInv, Agrees, Within, Live
<1> QED
  BY <1>1, <1>2 DEF x

LEMMA ReaderLosesInv == ASSUME WsInv, NEW m \in Markets, ReaderLoses(m) PROVE WsInv'
<1> DEFINE x == [conn[m] EXCEPT !.connected = FALSE]
           ss == sockets[m]
<1>1. /\ reader[m].pc = "recv" /\ ss[reader[m].sock].state = "closed" /\ LoopTop(m, x)
      /\ ReaderRest /\ UNCHANGED <<sockets, faults>>
  BY DEF ReaderLoses, State
<1>2. ConnInv(x, ss, closing) /\ Agrees(x, ss) /\ x.ws = conn[m].ws
  BY TypeOfMarket, GivenUp
<1> HIDE DEF x
<1>3. HbInv(x, ss, hb[m], closing)
  <2>1. ~closing => reader[m].sock = conn[m].ws
    BY <1>1, TypeOfMarket DEF ReaderInv
  <2> QED
    BY <1>1, <1>2, <2>1, TypeOfMarket DEF HbInv
<1>4. Len(ss) >= Len(ss)
  BY TypeOfMarket
<1> QED
  BY <1>1, <1>2, <1>3, <1>4, TypeOfMarket, Untouched, LoopTopInv

\* No pong is waited for when a new connection is there.
LEMMA ReaderConnectsInv == ASSUME WsInv, NEW m \in Markets, ReaderConnects(m) PROVE WsInv'
<1> DEFINE ss == sockets[m]
<1>1. reader[m].pc = "backoff" /\ ~PongIsLost(m) /\ ReaderRest
  BY DEF ReaderConnects
<1>2. PICK st \in {"open", "closed"} :
          /\ Connecting(st) /\ SocketOpens(m, st)
          /\ IF st = "open" /\ conn[m].subs # {}
             THEN /\ conn' = [conn EXCEPT ![m] = Connected(m)]
                  /\ reader' = [reader EXCEPT ![m] = [pc |-> "resubscribe", sock |-> 0]]
             ELSE LoopTop(m, Connected(m))
  BY DEF ReaderConnects
<1> DEFINE new == Opened(ss, st)
           x == Renewed(conn[m], ss)
<1>3. sockets' = [sockets EXCEPT ![m] = new] /\ Connected(m) = x /\ (Fault \/ UNCHANGED faults)
  BY <1>2 DEF SocketOpens, Connected, Opened, Renewed, Connecting, WsInv, WsTypeOK
<1>4. /\ conn[m] \in Conn /\ SocketsInv(ss) /\ hb[m] \in Heartbeat /\ hb[m].sock \in 0..Len(ss)
      /\ hb[m].pc = "pong" => closing /\ hb[m].sock # 0
      /\ closing \in BOOLEAN
  BY <1>1, TypeOfMarket DEF HbInv, ReaderInv, PongIsLost, State
<1>5. /\ SocketsInv(new) /\ ConnInv(x, new, closing) /\ HbInv(x, new, hb[m], closing)
      /\ x \in Conn /\ Len(new) = Len(ss) + 1 /\ x.subs = conn[m].subs
      /\ st = "closed" \/ conn[m].subs = {} => Agrees(x, new)
  BY <1>4, OpenedInv
<1> HIDE DEF new, x
<1>6. Len(new) >= Len(ss) /\ runner.pc \in {"gather", "ended"} /\ Len(new) \in Nat
  BY <1>1, <1>5, TypeOfMarket, TasksRun
<1>7. CASE st = "open" /\ conn[m].subs # {}
  <2> DEFINE r == [pc |-> "resubscribe", sock |-> 0]
  <2>1. r \in Reader /\ r.pc = "resubscribe" /\ r.sock \in 0..Len(new)
    BY <1>6 DEF Reader
  <2>2. conn' = [conn EXCEPT ![m] = x] /\ reader' = [reader EXCEPT ![m] = r]
    BY <1>2, <1>3, <1>7
  <2> HIDE DEF r
  <2>3. MarketInv(x, new, r, hb[m], closing, RunnerAt(m))
    BY <1>5, <2>1 DEF MarketInv, ReaderInv
  <2>4. /\ hb' = [hb EXCEPT ![m] = hb[m]] /\ UNCHANGED <<runner, main, closing>>
        /\ faults' \in 0..MaxFaults /\ calls' \in 0..MaxCalls
    BY <1>1, <1>3, Untouched, FaultCounts DEF ReaderRest, WsInv, WsTypeOK
  <2> QED
    BY <1>3, <1>6, <2>1, <2>2, <2>3, <2>4, MarketStep
<1>8. CASE ~(st = "open" /\ conn[m].subs # {})
  <2>1. LoopTop(m, x) /\ Agrees(x, new)
    BY <1>2, <1>3, <1>5, <1>8
  <2> QED
    BY <1>1, <1>3, <1>5, <1>6, <2>1, LoopTopInv
<1> QED
  BY <1>7, <1>8

LEMMA ReaderConnectFailsInv == ASSUME WsInv, NEW m \in Markets, ReaderConnectFails(m) PROVE WsInv'
<1>1. /\ reader[m].pc = "backoff" /\ LoopTop(m, conn[m]) /\ ReaderRest
      /\ Fault /\ UNCHANGED sockets
  BY DEF ReaderConnectFails
<1>2. Agrees(conn[m], sockets[m])
  BY <1>1, TypeOfMarket, TasksRun DEF MarketInv
<1>3. Len(sockets[m]) >= Len(sockets[m])
  BY TypeOfMarket
<1> QED
  BY <1>1, <1>2, <1>3, TypeOfMarket, Untouched, LoopTopInv

-----------------------------------------------------------------------------
(* Subscribing: what the server has been told.                               *)

\* Another round of requests, or none, leaves the server with what is given.
LEMMA ServerGetsServes ==
    ASSUME WsInv, NEW m \in Markets, conn[m].ws # 0,
           NEW new \in SUBSET AllStreams, ServerGets(m, new)
    PROVE  \E ss : /\ sockets' = [sockets EXCEPT ![m] = ss]
                   /\ Served(conn[m], sockets[m], ss, new)
<1> DEFINE ss == sockets[m]
           s == conn[m].ws
           y == [ss[s] EXCEPT !.subs = new, !.acks = @ + 1]
           next == [ss EXCEPT ![s] = y]
<1>1. SocketsInv(ss) /\ s \in 1..Len(ss) /\ ss[s] \in Socket
  BY TypeOfMarket
<1>2. CASE Current(m) # "open"
  <2>1. sockets' = [sockets EXCEPT ![m] = ss]
    BY <1>2, Untouched DEF ServerGets
  <2>2. Served(conn[m], ss, ss, new)
    BY <1>1, <1>2 DEF Served, Current, State
  <2> QED
    BY <2>1, <2>2
<1>3. CASE Current(m) = "open"
  <2>1. ss[s].state = "open" /\ ss[s].combined
    BY <1>1, <1>3 DEF Current, State, SocketsInv
  <2>2. ss[s].acks + 1 \in Nat
    BY <1>1 DEF Socket
  <2>3. y \in Socket /\ y.state = "open" /\ y.combined /\ y.subs = new
    BY <1>1, <2>1, <2>2 DEF Socket
  <2>4. sockets' = [sockets EXCEPT ![m] = next]
    BY <1>3 DEF ServerGets
  <2> HIDE DEF y
  <2>5. SocketsInv(next) /\ Len(next) = Len(ss) /\ next[s] = y
        /\ \A t \in 1..Len(ss) : t # s => next[t] = ss[t]
    BY <1>1, <2>3, OneSocket
  <2> HIDE DEF next
  <2>6. Served(conn[m], ss, next, new)
    BY <2>1, <2>3, <2>5 DEF Served
  <2> QED
    BY <2>4, <2>6
<1> QED
  BY <1>2, <1>3

LEMMA SameServes ==
    ASSUME NEW c, NEW ss, SocketsInv(ss)
    PROVE  Served(c, ss, ss, ss[c.ws].subs)
BY DEF Served

LEMMA SubscribeServes ==
    ASSUME WsInv, NEW m \in Markets, NEW streams \in SUBSET AllStreams,
           SendSubscribe(m, streams)
    PROVE  \E ss : /\ sockets' = [sockets EXCEPT ![m] = ss]
                   /\ Served(conn[m], sockets[m], ss, sockets[m][conn[m].ws].subs \cup streams)
<1> DEFINE subs == sockets[m][conn[m].ws].subs
<1>1. CASE conn[m].ws = 0
  <2>1. sockets' = [sockets EXCEPT ![m] = sockets[m]]
    BY <1>1, Untouched DEF SendSubscribe
  <2>2. Served(conn[m], sockets[m], sockets[m], subs \cup streams)
    BY <1>1, TypeOfMarket DEF Served
  <2> QED
    BY <2>1, <2>2
<1>2. CASE conn[m].ws # 0 /\ streams = {}
  <2>1. sockets' = [sockets EXCEPT ![m] = sockets[m]] /\ subs = subs \cup streams
    BY <1>2, Untouched DEF SendSubscribe
  <2> QED
    BY <2>1, SameServes, TypeOfMarket
<1>3. CASE conn[m].ws # 0 /\ streams # {}
  <2>1. subs \cup streams \in SUBSET AllStreams
    BY <1>3, TypeOfMarket DEF Socket
  <2>2. ServerGets(m, subs \cup streams)
    BY <1>3 DEF SendSubscribe
  <2> QED
    BY <1>3, <2>1, <2>2, ServerGetsServes
<1> QED
  BY <1>1, <1>2, <1>3

LEMMA UnsubscribeServes ==
    ASSUME WsInv, NEW m \in Markets, NEW streams \in SUBSET AllStreams,
           SendUnsubscribe(m, streams)
    PROVE  \E ss : /\ sockets' = [sockets EXCEPT ![m] = ss]
                   /\ Served(conn[m], sockets[m], ss, sockets[m][conn[m].ws].subs \ streams)
<1> DEFINE subs == sockets[m][conn[m].ws].subs
<1>1. CASE conn[m].ws = 0
  <2>1. sockets' = [sockets EXCEPT ![m] = sockets[m]]
    BY <1>1, Untouched DEF SendUnsubscribe
  <2>2. Served(conn[m], sockets[m], sockets[m], subs \ streams)
    BY <1>1, TypeOfMarket DEF Served
  <2> QED
    BY <2>1, <2>2
<1>2. CASE conn[m].ws # 0 /\ streams = {}
  <2>1. sockets' = [sockets EXCEPT ![m] = sockets[m]]
    BY <1>2, Untouched DEF SendUnsubscribe
  <2>2. subs = subs \ streams
    <3>1. conn[m].ws \in 1..Len(sockets[m])
      BY <1>2, TypeOfMarket
    <3>2. sockets[m][conn[m].ws] \in Socket
      BY <3>1, TypeOfMarket
    <3>3. \A S \in SUBSET AllStreams : S = S \ {}
      OBVIOUS
    <3> QED
      BY <1>2, <3>2, <3>3 DEF Socket
  <2>3. Served(conn[m], sockets[m], sockets[m], subs)
    BY SameServes, TypeOfMarket
  <2> QED
    BY <2>1, <2>2, <2>3
<1>3. CASE conn[m].ws # 0 /\ streams # {}
  <2>1. subs \ streams \in SUBSET AllStreams
    BY <1>3, TypeOfMarket DEF Socket
  <2>2. ServerGets(m, subs \ streams)
    BY <1>3 DEF SendUnsubscribe
  <2> QED
    BY <1>3, <2>1, <2>2, ServerGetsServes
<1> QED
  BY <1>1, <1>2, <1>3

\* The streams of the connection are subscribed on it again: after that the server
\* sends them and, since it was sending some of them, nothing else.
LEMMA ResubscribeServes ==
    ASSUME WsInv, NEW m \in Markets,
           IF SendRaises(m) THEN UNCHANGED sockets ELSE SendSubscribe(m, conn[m].subs)
    PROVE  \E ss : /\ sockets' = [sockets EXCEPT ![m] = ss] /\ Len(ss) = Len(sockets[m])
                   /\ SocketsInv(ss) /\ ConnInv(conn[m], ss, closing)
                   /\ HbInv(conn[m], ss, hb[m], closing) /\ Agrees(conn[m], ss)
<1> DEFINE c == conn[m]
           old == sockets[m]
<1>1. MarketInv(c, old, reader[m], hb[m], closing, RunnerAt(m)) /\ c \in Conn
      /\ c.ws \in 0..Len(old) /\ Len(old) \in Nat
  BY TypeOfMarket
<1>2. CASE SendRaises(m)
  <2>1. sockets' = [sockets EXCEPT ![m] = old]
    BY <1>2, Untouched
  <2>2. Agrees(c, old)
    BY <1>2 DEF SendRaises, Current, State, Agrees, Live
  <2> QED
    BY <2>1, <2>2, TypeOfMarket
<1>3. CASE ~SendRaises(m)
  <2>1. c.subs \in SUBSET AllStreams
    BY <1>1 DEF Conn
  <2>2. PICK ss : /\ sockets' = [sockets EXCEPT ![m] = ss]
                  /\ Served(c, old, ss, old[c.ws].subs \cup c.subs)
    BY <1>3, <2>1, SubscribeServes
  <2>3. Len(ss) = Len(old) /\ SocketsInv(ss)
    BY <2>2 DEF Served
  <2>4. Live(c, ss) => Live(c, old)
    BY <1>1, <2>2, <2>3 DEF Live, Served
  <2>5. Agrees(c, ss)
    <3>1. ASSUME Live(c, ss) PROVE ss[c.ws].subs = c.subs
      <4>1. old[c.ws].subs \subseteq c.subs /\ c.ws # 0 /\ old[c.ws].state = "open"
        BY <1>1, <2>4, <3>1 DEF MarketInv, ConnInv, Within, Live
      <4>2. ss[c.ws].subs = old[c.ws].subs \cup c.subs
        BY <2>2, <4>1 DEF Served
      <4> QED
        BY <4>1, <4>2
    <3> QED
      BY <3>1 DEF Agrees
  <2>6. ConnInv(c, ss, closing)
    <3>1. Within(c, ss)
      BY <2>5 DEF Agrees, Within
    <3> QED
      BY <1>1, <2>3, <3>1 DEF MarketInv, ConnInv
  <2>7. HbInv(c, ss, hb[m], closing)
    BY <1>1, <2>2, <2>3 DEF MarketInv, HbInv, Served
  <2> QED
    BY <2>2, <2>3, <2>5, <2>6, <2>7
<1> QED
  BY <1>2, <1>3

LEMMA ReaderResubscribesInv == ASSUME WsInv, NEW m \in Markets, ReaderResubscribes(m) PROVE WsInv'
<1>1. /\ reader[m].pc = "resubscribe" /\ LoopTop(m, conn[m]) /\ ReaderRest /\ UNCHANGED faults
      /\ IF SendRaises(m) THEN UNCHANGED sockets ELSE SendSubscribe(m, conn[m].subs)
  BY DEF ReaderResubscribes
<1>2. PICK ss : /\ sockets' = [sockets EXCEPT ![m] = ss] /\ Len(ss) = Len(sockets[m])
                /\ SocketsInv(ss) /\ ConnInv(conn[m], ss, closing)
                /\ HbInv(conn[m], ss, hb[m], closing) /\ Agrees(conn[m], ss)
  BY <1>1, ResubscribeServes
<1>3. Len(ss) >= Len(sockets[m])
  BY <1>2, TypeOfMarket
<1> QED
  BY <1>1, <1>2, <1>3, LoopTopInv

\* A call of the application; nothing is sent without a connection, and the next
\* connect sends what the call left.
LEMMA ApiCallInv == ASSUME WsInv, NEW m \in Markets, ApiCall(m) PROVE WsInv'
<1> DEFINE sends == conn[m].connected /\ conn[m].ws # 0 /\ ~SendRaises(m)
           c == conn[m]
           old == sockets[m]
           subs == old[c.ws].subs
<1>1. /\ UNCHANGED <<reader, hb, runner, main, closing, faults>> /\ main.pc = "run"
      /\ calls < MaxCalls /\ calls' = calls + 1
  BY DEF ApiCall
<1>2. calls' \in 0..MaxCalls /\ faults' \in 0..MaxFaults /\ ~closing
  BY <1>1 DEF WsInv, WsTypeOK, CloseInv
<1>3. /\ MarketInv(c, old, reader[m], hb[m], closing, RunnerAt(m)) /\ c \in Conn
      /\ Len(old) \in Nat /\ SocketsInv(old)
      /\ Live(c, old) => sends /\ subs \subseteq c.subs
  BY TypeOfMarket DEF Live, SendRaises, Current, State, ConnInv, Within
<1>4. PICK streams \in SUBSET AllStreams \ {{}} :
          \/ /\ conn' = [conn EXCEPT ![m].subs = @ \cup streams]
             /\ IF sends THEN SendSubscribe(m, streams) ELSE UNCHANGED sockets
          \/ /\ conn' = [conn EXCEPT ![m].subs = @ \ streams]
             /\ IF sends THEN SendUnsubscribe(m, streams) ELSE UNCHANGED sockets
  BY DEF ApiCall
<1> HIDE DEF sends
<1>5. ASSUME NEW d \in SUBSET AllStreams, NEW new, NEW told,
             conn' = [conn EXCEPT ![m] = [c EXCEPT !.subs = d]],
             sockets' = [sockets EXCEPT ![m] = new], Served(c, old, new, told),
             Live(c, old) => told \subseteq d,
             Live(c, old) /\ subs = c.subs => told = d
      PROVE  WsInv'
  <2> DEFINE x == [c EXCEPT !.subs = d]
             r == reader[m]
             h == hb[m]
  <2>1. MarketInv(x, new, r, h, closing, RunnerAt(m))
    <3>1. ~RunnerAt(m) /\ r.pc \notin {"resubscribe", "done"} => (Live(c, old) => told = d)
      BY <1>3, <1>5 DEF MarketInv, Agrees
    <3> QED
      BY <1>3, <1>5, <3>1, ServedInv
  <2>2. Len(new) >= Len(old)
    BY <1>3, <1>5 DEF Served
  <2>3. reader' = [reader EXCEPT ![m] = r] /\ hb' = [hb EXCEPT ![m] = h]
        /\ r.pc = reader[m].pc /\ h.pc = hb[m].pc /\ UNCHANGED <<runner, main, closing>>
        /\ runner.pc # "off"
    BY <1>1, Untouched DEF WsInv, TasksInv
  <2> HIDE DEF x, r, h
  <2>4. conn' = [conn EXCEPT ![m] = x]
    BY <1>5 DEF x
  <2> QED
    BY <1>2, <1>5, <2>1, <2>2, <2>3, <2>4, MarketStep
<1>6. CASE /\ conn' = [conn EXCEPT ![m].subs = @ \cup streams]
           /\ IF sends THEN SendSubscribe(m, streams) ELSE UNCHANGED sockets
  <2> DEFINE d == c.subs \cup streams
  <2>1. d \in SUBSET AllStreams /\ conn' = [conn EXCEPT ![m] = [c EXCEPT !.subs = d]]
    BY <1>3, <1>6 DEF Conn, WsInv, WsTypeOK
  <2>2. CASE sends
    <3>1. PICK new : sockets' = [sockets EXCEPT ![m] = new]
                     /\ Served(c, old, new, subs \cup streams)
      BY <1>6, <2>2, SubscribeServes
    <3>2. Live(c, old) => subs \cup streams \subseteq d
      BY <1>3
    <3>3. subs = c.subs => subs \cup streams = d
      OBVIOUS
    <3> HIDE DEF d
    <3> QED
      BY <1>5, <2>1, <3>1, <3>2, <3>3
  <2>3. CASE ~sends
    <3>1. sockets' = [sockets EXCEPT ![m] = old] /\ ~Live(c, old)
      BY <1>3, <1>6, <2>3, Untouched
    <3>2. Served(c, old, old, subs)
      BY <1>3, SameServes
    <3> HIDE DEF d
    <3> QED
      BY <1>5, <2>1, <3>1, <3>2
  <2> QED
    BY <2>2, <2>3
<1>7. CASE /\ conn' = [conn EXCEPT ![m].subs = @ \ streams]
           /\ IF sends THEN SendUnsubscribe(m, streams) ELSE UNCHANGED sockets
  <2> DEFINE d == c.subs \ streams
  <2>1. d \in SUBSET AllStreams /\ conn' = [conn EXCEPT ![m] = [c EXCEPT !.subs = d]]
    BY <1>3, <1>7 DEF Conn, WsInv, WsTypeOK
  <2>2. CASE sends
    <3>1. PICK new : sockets' = [sockets EXCEPT ![m] = new]
                     /\ Served(c, old, new, subs \ streams)
      BY <1>7, <2>2, UnsubscribeServes
    <3>2. Live(c, old) => subs \ streams \subseteq d
      BY <1>3
    <3>3. subs = c.subs => subs \ streams = d
      OBVIOUS
    <3> HIDE DEF d
    <3> QED
      BY <1>5, <2>1, <3>1, <3>2, <3>3
  <2>3. CASE ~sends
    <3>1. sockets' = [sockets EXCEPT ![m] = old] /\ ~Live(c, old)
      BY <1>3, <1>7, <2>3, Untouched
    <3>2. Served(c, old, old, subs)
      BY <1>3, SameServes
    <3> HIDE DEF d
    <3> QED
      BY <1>5, <2>1, <3>1, <3>2
  <2> QED
    BY <2>2, <2>3
<1> QED
  BY <1>4, <1>6, <1>7

-----------------------------------------------------------------------------
(* The heartbeat and the network.                                            *)

\* A step of the heartbeat: it keeps the connection or gives it up.
LEMMA HbStepInv ==
    ASSUME WsInv, NEW m \in Markets, hb[m].pc # "off", HbRest, NEW h, NEW c,
           hb' = [hb EXCEPT ![m] = h], conn' = [conn EXCEPT ![m] = c],
           Fault \/ UNCHANGED faults,
           c \in {conn[m], [conn[m] EXCEPT !.connected = FALSE]},
           HbInv(c, sockets[m], h, closing)
    PROVE  WsInv'
<1> DEFINE ss == sockets[m]
           r == reader[m]
<1>1. MarketInv(conn[m], ss, r, hb[m], closing, RunnerAt(m)) /\ conn[m] \in Conn /\ Len(ss) \in Nat
  BY TypeOfMarket
<1>2. /\ c.ws = conn[m].ws /\ c.attempt = conn[m].attempt
      /\ conn[m].connected = FALSE => c.connected = FALSE
      /\ c = conn[m] \/ c.connected = FALSE
  BY <1>1 DEF Conn
<1>3. ConnInv(c, ss, closing) /\ (Agrees(conn[m], ss) => Agrees(c, ss))
  BY <1>1, GivenUp DEF MarketInv
<1>4. ReaderInv(c, ss, r, closing)
  BY <1>1, <1>2 DEF MarketInv, ReaderInv
<1>5. MarketInv(c, ss, r, h, closing, RunnerAt(m))
  BY <1>1, <1>3, <1>4 DEF MarketInv
<1>6. /\ sockets' = [sockets EXCEPT ![m] = ss] /\ reader' = [reader EXCEPT ![m] = r]
      /\ UNCHANGED <<runner, main, closing>> /\ Len(ss) >= Len(sockets[m])
      /\ runner.pc \in {"gather", "ended"} /\ r.pc = reader[m].pc
      /\ faults' \in 0..MaxFaults /\ calls' \in 0..MaxCalls
  BY SMTT(30), <1>1, Untouched, TasksRun, FaultCounts DEF HbRest, WsInv, WsTypeOK
<1> HIDE DEF ss, r
<1> QED
  BY <1>2, <1>5, <1>6, MarketStep

\* The heartbeat at rest asks for nothing.
LEMMA HbLoopInv ==
    ASSUME NEW c, NEW ss, SocketsInv(ss)
    PROVE  HbInv(c, ss, HbLoop, closing)
<1>1. Len(ss) \in Nat
  BY DEF SocketsInv
<1>2. HbLoop \in Heartbeat /\ HbLoop.pc # "pong" /\ HbLoop.sock = 0
  BY DEF HbLoop, Heartbeat
<1> QED
  BY <1>1, <1>2 DEF HbInv

LEMMA HbWakesInv == ASSUME WsInv, NEW m \in Markets, HbWakes(m) PROVE WsInv'
<1> DEFINE c == conn[m]
           ss == sockets[m]
           x == [c EXCEPT !.connected = FALSE]
<1>1. hb[m].pc = "sleep" /\ HbRest /\ (Fault \/ UNCHANGED faults) /\ SocketsInv(ss)
      /\ ConnInv(c, ss, closing)
  BY TypeOfMarket DEF HbWakes
<1>2. CASE ~HbPings(m)
  <2>1. hb' = [hb EXCEPT ![m] = HbLoop] /\ conn' = [conn EXCEPT ![m] = c]
    BY <1>2, Untouched DEF HbWakes
  <2>2. HbInv(c, ss, HbLoop, closing)
    BY <1>1, HbLoopInv
  <2> QED
    BY <1>1, <2>1, <2>2, HbStepInv
<1>3. CASE HbPings(m) /\ Current(m) = "closed"
  <2>1. hb' = [hb EXCEPT ![m] = HbLoop] /\ conn' = [conn EXCEPT ![m] = x]
    BY <1>3 DEF HbWakes, WsInv, WsTypeOK
  <2>2. HbInv(x, ss, HbLoop, closing)
    BY <1>1, HbLoopInv
  <2> QED
    BY <1>1, <2>1, <2>2, HbStepInv
<1>4. CASE HbPings(m) /\ Current(m) # "closed"
  <2> DEFINE h == [pc |-> "pong", sock |-> c.ws]
  <2>1. hb' = [hb EXCEPT ![m] = h] /\ conn' = [conn EXCEPT ![m] = c]
    BY <1>4, Untouched DEF HbWakes
  <2>2. HbInv(c, ss, h, closing)
    BY <1>1, <1>4 DEF HbInv, Heartbeat, ConnInv, HbPings
  <2> HIDE DEF h
  <2> QED
    BY <1>1, <2>1, <2>2, HbStepInv
<1> QED
  BY <1>2, <1>3, <1>4

LEMMA HbPongInv == ASSUME WsInv, NEW m \in Markets, HbPong(m) PROVE WsInv'
<1>1. /\ hb[m].pc = "pong" /\ HbRest /\ UNCHANGED faults
      /\ hb' = [hb EXCEPT ![m] = HbLoop] /\ conn' = [conn EXCEPT ![m] = conn[m]]
  BY Untouched DEF HbPong
<1>2. HbInv(conn[m], sockets[m], HbLoop, closing)
  BY TypeOfMarket, HbLoopInv
<1> QED
  BY <1>1, <1>2, HbStepInv

LEMMA HbFailsInv == ASSUME WsInv, NEW m \in Markets, HbFails(m) PROVE WsInv'
<1> DEFINE x == [conn[m] EXCEPT !.connected = FALSE]
<1>1. /\ hb[m].pc = "pong" /\ HbRest /\ (Fault \/ UNCHANGED faults)
      /\ hb' = [hb EXCEPT ![m] = HbLoop] /\ conn' = [conn EXCEPT ![m] = x]
  BY DEF HbFails, WsInv, WsTypeOK
<1>2. HbInv(x, sockets[m], HbLoop, closing)
  BY TypeOfMarket, HbLoopInv
<1> QED
  BY <1>1, <1>2, HbStepInv

\* A socket dies, or its death is noticed.
LEMMA SocketBecomesInv ==
    ASSUME WsInv, NEW m \in Markets, NEW s \in InUse(m), NEW st \in {"dead", "closed"},
           SocketBecomes(m, s, st), Fault \/ UNCHANGED faults,
           State(m, s) = "closed" => st = "closed"
    PROVE  WsInv'
<1> DEFINE ss == sockets[m]
           y == [ss[s] EXCEPT !.state = st]
           new == [ss EXCEPT ![s] = y]
           c == conn[m]
           r == reader[m]
           h == hb[m]
<1>1. s \in 1..Len(ss) /\ ss[s] \in Socket /\ SocketsInv(ss) /\ Len(ss) \in Nat
  <2>1. s \in 0..Len(ss) /\ s # 0 /\ Len(ss) \in Nat
    BY TypeOfMarket DEF InUse, ReaderInv
  <2>2. s \in 1..Len(ss)
    BY <2>1
  <2> QED
    BY <2>2, TypeOfMarket
<1>2. y \in Socket /\ y.state = st /\ y.subs = ss[s].subs /\ y.combined = ss[s].combined
  BY <1>1 DEF Socket
<1>3. sockets' = [sockets EXCEPT ![m] = new]
  BY DEF SocketBecomes, WsInv, WsTypeOK
<1> HIDE DEF y
<1>4. Faded(ss, new)
  BY <1>1, <1>2, OneFades DEF State
<1> HIDE DEF new
<1>5. MarketInv(c, new, r, h, closing, RunnerAt(m)) /\ Len(new) >= Len(sockets[m])
  BY <1>1, <1>4, FadedInv, TypeOfMarket DEF Faded
<1>6. /\ conn' = [conn EXCEPT ![m] = c] /\ reader' = [reader EXCEPT ![m] = r]
      /\ hb' = [hb EXCEPT ![m] = h] /\ UNCHANGED <<runner, main, closing>>
      /\ faults' \in 0..MaxFaults /\ calls' \in 0..MaxCalls
      /\ r.pc = reader[m].pc /\ h.pc = hb[m].pc /\ c.connected = conn[m].connected
      /\ c.subs = conn[m].subs
  BY Untouched, FaultCounts DEF SocketBecomes, WsInv, WsTypeOK
<1> HIDE DEF c, r, h, ss
<1> QED
  BY <1>3, <1>5, <1>6, MarketStep

LEMMA DropInv == ASSUME WsInv, NEW m \in Markets, Drop(m) PROVE WsInv'
BY SocketBecomesInv DEF Drop

LEMMA KeepaliveInv == ASSUME WsInv, NEW m \in Markets, Keepalive(m) PROVE WsInv'
BY SocketBecomesInv DEF Keepalive

-----------------------------------------------------------------------------
(* run_async before run_forever.                                             *)

LEMMA StartingUp ==
    ASSUME WsInv, main.pc \in {"connect", "subscribe"}
    PROVE  /\ runner.pc = "off" /\ closing = FALSE /\ main.sock = 0
           /\ MainMarket \in Markets
           /\ \A m \in Markets : reader[m].pc = "off" /\ hb[m].pc = "off" /\ ~RunnerAt(m)
           /\ conn[MainMarket].subs = {}
<1>1. /\ runner.pc = "off" /\ closing = FALSE /\ main.sock = 0
      /\ \A m \in Markets : reader[m].pc = "off" /\ hb[m].pc = "off" /\ ~RunnerAt(m)
  BY DEF WsInv, WsTypeOK, TasksInv, CloseInv, StartInv, RunnerAt
<1>2. MainMarket \in Markets /\ main.at \in main.at..Len(MarketTypes)
  BY MarketPositions DEF WsInv, WsTypeOK, MainMarket
<1>3. conn[MainMarket].subs = {}
  BY <1>2 DEF WsInv, StartInv, MainMarket
<1> QED
  BY <1>1, <1>2, <1>3

\* Without tasks, a connection on which server and client agree is all there is.
LEMMA WithoutTasks ==
    ASSUME WsInv, NEW m \in Markets, reader[m].pc = "off", hb[m].pc = "off",
           NEW c, NEW ss, NEW e, SocketsInv(ss), ConnInv(c, ss, e), NEW q,
           Len(ss) >= Len(sockets[m]), q \/ Agrees(c, ss)
    PROVE  MarketInv(c, ss, reader[m], hb[m], e, q)
<1>1. Len(ss) \in Nat /\ Len(sockets[m]) \in Nat
  BY TypeOfMarket DEF SocketsInv
<1>2. ReaderInv(c, ss, reader[m], e)
  BY <1>1, TypeOfMarket DEF ReaderInv
<1>3. HbInv(c, ss, hb[m], e)
  BY <1>1, TypeOfMarket DEF HbInv
<1> QED
  BY <1>2, <1>3 DEF MarketInv

LEMMA MainPhaseInv ==
    ASSUME WsInv, main.pc \in {"connect", "subscribe"}, NEW c, NEW ss,
           conn' = [conn EXCEPT ![MainMarket] = c],
           sockets' = [sockets EXCEPT ![MainMarket] = ss], MainRest,
           Fault \/ UNCHANGED faults,
           SocketsInv(ss), ConnInv(c, ss, closing), Agrees(c, ss),
           Len(ss) >= Len(sockets[MainMarket]),
           \/ MainGoesOn \/ MainFails
           \/ main' = [main EXCEPT !.pc = "subscribe"] /\ UNCHANGED runner /\ c.subs = {}
    PROVE  WsInv'
<1> DEFINE m == MainMarket
<1>1. /\ runner.pc = "off" /\ closing = FALSE /\ main.sock = 0 /\ m \in Markets
      /\ \A n \in Markets : reader[n].pc = "off" /\ hb[n].pc = "off" /\ ~RunnerAt(n)
  BY StartingUp
<1>2. UNCHANGED <<reader, hb, closing, calls>> /\ faults' \in 0..MaxFaults
  BY FaultCounts DEF MainRest
<1>3. MarketInv(c, ss, reader[m], hb[m], closing, FALSE)
  BY <1>1, WithoutTasks
<1>4. /\ main' \in [pc : {"connect", "subscribe", "run", "failed"},
                    at : 1..Len(MarketTypes), sock : Nat]
      /\ main'.sock = 0
      /\ runner' \in [pc : {"off", "start"}, at : 0..Len(MarketTypes)]
      /\ runner'.pc = "off" <=> main'.pc # "run"
      /\ main'.pc \in {"connect", "subscribe"} =>
            main'.at \in main.at..Len(MarketTypes) /\ (main'.at = main.at => c.subs = {})
  <2>1. main \in [pc : {"connect", "subscribe"}, at : 1..Len(MarketTypes), sock : Nat]
    BY DEF WsInv, WsTypeOK
  <2>2. runner \in [pc : {"off"}, at : 0..Len(MarketTypes)]
    BY <1>1 DEF WsInv, WsTypeOK
  <2>3. CASE main.at < Len(MarketTypes) /\ MainGoesOn
    <3>1. main.at + 1 \in 1..Len(MarketTypes) /\ main.at + 1 \in main.at..Len(MarketTypes)
          /\ main.at + 1 # main.at
      BY <2>1, <2>3, MarketPositions
    <3>2. main' = [main EXCEPT !.pc = "connect", !.at = main.at + 1] /\ runner' = runner
      BY <2>3 DEF MainGoesOn
    <3> QED
      BY <1>1, <2>1, <2>2, <3>1, <3>2
  <2>4. CASE ~(main.at < Len(MarketTypes)) /\ MainGoesOn
    <3>1. main' = [main EXCEPT !.pc = "run"] /\ runner' = [pc |-> "start", at |-> 1]
      BY <2>4 DEF MainGoesOn
    <3>2. 1 \in 0..Len(MarketTypes)
      BY MarketPositions
    <3> QED
      BY <1>1, <2>1, <3>1, <3>2
  <2>5. CASE MainFails
    BY <1>1, <2>1, <2>2, <2>5 DEF MainFails
  <2>6. CASE main' = [main EXCEPT !.pc = "subscribe"] /\ UNCHANGED runner /\ c.subs = {}
    BY <1>1, <2>1, <2>2, <2>6
  <2> QED
    BY <2>3, <2>4, <2>5, <2>6
<1> HIDE DEF m
<1>5. /\ conn'[m] = c /\ sockets'[m] = ss
      /\ \A n \in Markets \ {m} : conn'[n] = conn[n] /\ sockets'[n] = sockets[n]
  BY <1>1 DEF WsInv, WsTypeOK, m
<1>6. c \in Conn /\ ss \in Seq(Socket) /\ c.ws \in 0..Len(ss)
      /\ reader[m].sock \in 0..Len(ss) /\ hb[m].sock \in 0..Len(ss)
  BY <1>3 DEF MarketInv, ConnInv, SocketsInv, ReaderInv, HbInv
<1>7. WsTypeOK'
  <2>1. /\ conn' \in [Markets -> Conn] /\ sockets' \in [Markets -> Seq(Socket)]
        /\ reader' \in [Markets -> Reader] /\ hb' \in [Markets -> Heartbeat]
    BY <1>2, <1>6 DEF WsInv, WsTypeOK
  <2>2. \A n \in Markets :
           {conn'[n].ws, reader'[n].sock, hb'[n].sock} \subseteq 0..Len(sockets'[n])
    <3>1. {conn'[m].ws, reader'[m].sock, hb'[m].sock} \subseteq 0..Len(sockets'[m])
      BY <1>2, <1>5, <1>6
    <3>2. \A n \in Markets \ {m} :
             {conn'[n].ws, reader'[n].sock, hb'[n].sock} \subseteq 0..Len(sockets'[n])
      BY SMTT(30), <1>2, <1>5 DEF WsInv, WsTypeOK
    <3> QED
      BY <3>1, <3>2
  <2>3. main'.sock <= Len(sockets'[MarketTypes[main'.at]])
    <3>1. MarketTypes[main'.at] \in Markets
      BY <1>4, MarketPositions
    <3>2. Len(sockets'[MarketTypes[main'.at]]) \in Nat
      BY <2>1, <3>1
    <3> QED
      BY <1>4, <3>2
  <2>4. /\ runner' \in [pc : {"off", "start", "connect", "resubscribe", "gather", "ended"},
                        at : 0..Len(MarketTypes)]
        /\ main' \in [pc : {"connect", "subscribe", "run", "close", "stopped", "failed"},
                      at : 1..Len(MarketTypes), sock : Nat]
    BY <1>4
  <2> QED
    BY <1>2, <2>1, <2>2, <2>3, <2>4 DEF WsInv, WsTypeOK
<1>8. \A n \in Markets : RunnerAt(n)' = FALSE
  BY <1>4 DEF RunnerAt
<1>9. MarketsInv'
  <2>1. ASSUME NEW n \in Markets
        PROVE  MarketInv(conn'[n], sockets'[n], reader'[n], hb'[n], closing', FALSE)
    <3>1. CASE n = m
      BY <1>2, <1>3, <1>5, <3>1
    <3>2. CASE n # m
      <4>1. MarketInv(conn[n], sockets[n], reader[n], hb[n], closing, RunnerAt(n))
        BY DEF WsInv, MarketsInv
      <4>2. RunnerAt(n) = FALSE
        BY <1>1 DEF RunnerAt
      <4> QED
        BY <1>2, <1>5, <3>2, <4>1, <4>2
    <3> QED
      BY <3>1, <3>2
  <2> QED
    BY <1>8, <2>1 DEF MarketsInv
<1>10. TasksInv'
  BY <1>1, <1>2, <1>4 DEF TasksInv
<1>11. CloseInv'
  BY <1>1, <1>2, <1>4 DEF CloseInv
<1>12. StartInv'
  <2>1. ASSUME main'.pc \in {"connect", "subscribe"}, NEW i \in main'.at..Len(MarketTypes)
        PROVE  conn'[MarketTypes[i]].subs = {}
    <3>1. i \in main.at..Len(MarketTypes) /\ i \in 1..Len(MarketTypes)
          /\ main.at \in 1..Len(MarketTypes) /\ (i = main.at => main'.at = main.at)
      BY SMTT(30), <1>4, <2>1, MarketPositions DEF WsInv, WsTypeOK
    <3>2. CASE i = main.at
      BY <1>4, <1>5, <2>1, <3>1, <3>2 DEF m, MainMarket
    <3>3. CASE i # main.at
      <4>1. MarketTypes[i] \in Markets \ {m}
        BY <3>1, <3>3, MarketPositions DEF m, MainMarket
      <4>2. conn[MarketTypes[i]].subs = {}
        BY <3>1 DEF WsInv, StartInv
      <4> QED
        BY <1>5, <4>1, <4>2
    <3> QED
      BY <3>2, <3>3
  <2> QED
    BY <1>4, <2>1 DEF StartInv
<1> QED
  BY <1>7, <1>9, <1>10, <1>11, <1>12 DEF WsInv

LEMMA MainConnectsInv == WsInv /\ MainConnects => WsInv'
<1> SUFFICES ASSUME WsInv, MainConnects PROVE WsInv'
  OBVIOUS
<1> DEFINE m == MainMarket
           ss == sockets[m]
<1>1. main.pc = "connect" /\ MainRest
  BY DEF MainConnects
<1>2. m \in Markets /\ hb[m].pc = "off" /\ closing \in BOOLEAN /\ conn[m].subs = {}
  BY <1>1, StartingUp
<1>3. PICK st \in {"open", "closed"} :
          /\ Connecting(st) /\ SocketOpens(m, st)
          /\ conn' = [conn EXCEPT ![m] = Connected(m)]
          /\ IF st = "open" THEN main' = [main EXCEPT !.pc = "subscribe"] /\ UNCHANGED runner
             ELSE MainFails
  BY DEF MainConnects
<1> DEFINE new == Opened(ss, st)
           x == Renewed(conn[m], ss)
<1> HIDE DEF m
<1>4. sockets' = [sockets EXCEPT ![m] = new] /\ Connected(m) = x /\ (Fault \/ UNCHANGED faults)
  BY <1>2, <1>3 DEF SocketOpens, Connected, Opened, Renewed, Connecting, WsInv, WsTypeOK
<1>5. /\ SocketsInv(new) /\ ConnInv(x, new, closing) /\ Len(new) = Len(ss) + 1
      /\ Agrees(x, new) /\ x.subs = {}
  <2>1. /\ conn[m] \in Conn /\ SocketsInv(ss) /\ hb[m] \in Heartbeat
        /\ hb[m].sock \in 0..Len(ss) /\ (hb[m].pc = "pong" => closing /\ hb[m].sock # 0)
    BY <1>2, TypeOfMarket DEF HbInv
  <2> QED
    BY <1>2, <2>1, OpenedInv
<1> HIDE DEF new, x
<1>6. Len(new) >= Len(ss)
  BY <1>2, <1>5, TypeOfMarket
<1>7. MainFails \/ (main' = [main EXCEPT !.pc = "subscribe"] /\ UNCHANGED runner)
  BY <1>3
<1>8. conn' = [conn EXCEPT ![m] = x]
  BY <1>3, <1>4
<1> QED
  BY <1>1, <1>4, <1>5, <1>6, <1>7, <1>8, MainPhaseInv DEF m

\* The other steps leave the connection there is, and agree on it.
LEMMA StartedAgrees ==
    ASSUME WsInv, main.pc \in {"connect", "subscribe"}
    PROVE  /\ Agrees(conn[MainMarket], sockets[MainMarket])
           /\ SocketsInv(sockets[MainMarket])
           /\ ConnInv(conn[MainMarket], sockets[MainMarket], closing)
           /\ Len(sockets[MainMarket]) >= Len(sockets[MainMarket])
           /\ conn = [conn EXCEPT ![MainMarket] = conn[MainMarket]]
           /\ sockets = [sockets EXCEPT ![MainMarket] = sockets[MainMarket]]
<1>1. /\ MainMarket \in Markets /\ reader[MainMarket].pc = "off" /\ ~RunnerAt(MainMarket)
  BY StartingUp
<1> QED
  BY <1>1, TypeOfMarket, Untouched DEF MarketInv

LEMMA MainConnectFailsInv == WsInv /\ MainConnectFails => WsInv'
<1> SUFFICES ASSUME WsInv, MainConnectFails PROVE WsInv'
  OBVIOUS
<1> DEFINE c == conn[MainMarket]
           ss == sockets[MainMarket]
<1>1. /\ main.pc = "connect" /\ MainRest /\ Fault /\ MainFails
      /\ conn' = [conn EXCEPT ![MainMarket] = c] /\ sockets' = [sockets EXCEPT ![MainMarket] = ss]
  BY StartedAgrees DEF MainConnectFails
<1>2. /\ SocketsInv(ss) /\ ConnInv(c, ss, closing) /\ Agrees(c, ss)
      /\ Len(ss) >= Len(sockets[MainMarket])
  BY <1>1, StartedAgrees
<1> HIDE DEF c, ss
<1> QED
  BY <1>1, <1>2, MainPhaseInv

LEMMA MainSkipsInv == WsInv /\ MainSkips => WsInv'
<1> SUFFICES ASSUME WsInv, MainSkips PROVE WsInv'
  OBVIOUS
<1> DEFINE c == conn[MainMarket]
           ss == sockets[MainMarket]
<1>1. /\ main.pc = "connect" /\ MainRest /\ UNCHANGED faults /\ MainGoesOn
      /\ conn' = [conn EXCEPT ![MainMarket] = c] /\ sockets' = [sockets EXCEPT ![MainMarket] = ss]
  BY StartedAgrees DEF MainSkips
<1>2. /\ SocketsInv(ss) /\ ConnInv(c, ss, closing) /\ Agrees(c, ss)
      /\ Len(ss) >= Len(sockets[MainMarket])
  BY <1>1, StartedAgrees
<1> HIDE DEF c, ss
<1> QED
  BY <1>1, <1>2, MainPhaseInv

\* The first subscription, on a connection that may be closed by now.
LEMMA MainSubscribesInv == WsInv /\ MainSubscribes => WsInv'
<1> SUFFICES ASSUME WsInv, MainSubscribes PROVE WsInv'
  OBVIOUS
<1> DEFINE m == MainMarket
           c == conn[m]
           old == sockets[m]
           subs == old[c.ws].subs
           d == c.subs \cup Streams[m]
           x == [c EXCEPT !.subs = d]
<1>1. /\ main.pc = "subscribe" /\ MainRest /\ UNCHANGED faults
      /\ conn' = [conn EXCEPT ![m].subs = @ \cup Streams[m]]
      /\ IF SendRaises(m) THEN MainFails /\ UNCHANGED sockets
         ELSE MainGoesOn /\ SendSubscribe(m, Streams[m])
  BY DEF MainSubscribes
<1>2. /\ m \in Markets /\ reader[m].pc = "off" /\ ~RunnerAt(m)
      /\ Streams[m] \in SUBSET AllStreams
  BY <1>1, StartingUp DEF AllStreams
<1> HIDE DEF m
<1>3. /\ MarketInv(c, old, reader[m], hb[m], closing, FALSE) /\ SocketsInv(old)
      /\ c \in Conn /\ Len(old) \in Nat
  <2>1. RunnerAt(m) = FALSE
    BY <1>2 DEF RunnerAt
  <2> QED
    BY <1>2, <2>1, TypeOfMarket
<1>4. d \in SUBSET AllStreams /\ conn' = [conn EXCEPT ![m] = x]
  BY <1>1, <1>2, <1>3 DEF Conn, WsInv, WsTypeOK
<1>5. Live(c, old) => subs = c.subs
  BY <1>2, <1>3 DEF MarketInv, Agrees
<1>6. \E new : /\ sockets' = [sockets EXCEPT ![m] = new] /\ Len(new) = Len(old)
               /\ MarketInv(x, new, reader[m], hb[m], closing, FALSE)
  <2>1. CASE SendRaises(m)
    <3>1. sockets' = [sockets EXCEPT ![m] = old] /\ ~Live(c, old)
      BY <1>1, <1>2, <2>1, Untouched DEF SendRaises, Current, State, Live
    <3>2. Served(c, old, old, subs)
      BY <1>3, SameServes
    <3> HIDE DEF d
    <3>3. MarketInv(x, old, reader[m], hb[m], closing, FALSE)
      BY <1>3, <1>4, <3>1, <3>2, ServedInv
    <3> QED
      BY <3>1, <3>3
  <2>2. CASE ~SendRaises(m)
    <3>1. PICK new : sockets' = [sockets EXCEPT ![m] = new]
                     /\ Served(c, old, new, subs \cup Streams[m])
      BY <1>1, <1>2, <2>2, SubscribeServes
    <3>2. Live(c, old) => subs \cup Streams[m] = d
      BY <1>5
    <3>3. Len(new) = Len(old)
      BY <3>1 DEF Served
    <3> HIDE DEF d
    <3>4. MarketInv(x, new, reader[m], hb[m], closing, FALSE)
      BY <1>3, <1>4, <3>1, <3>2, ServedInv
    <3> QED
      BY <3>1, <3>3, <3>4
  <2> QED
    BY <2>1, <2>2
<1>7. PICK new : /\ sockets' = [sockets EXCEPT ![m] = new] /\ Len(new) = Len(old)
                 /\ MarketInv(x, new, reader[m], hb[m], closing, FALSE)
  BY <1>6
<1> HIDE DEF x
<1>8. SocketsInv(new) /\ ConnInv(x, new, closing) /\ Agrees(x, new) /\ Len(new) >= Len(old)
  BY <1>2, <1>3, <1>7 DEF MarketInv
<1>9. MainGoesOn \/ MainFails
  BY <1>1
<1> QED
  BY <1>1, <1>4, <1>7, <1>8, <1>9, MainPhaseInv DEF m

-----------------------------------------------------------------------------
(* run_forever.                                                              *)

LEMMA BeforeTasks ==
    ASSUME WsInv, runner.pc \in {"start", "connect", "resubscribe"}
    PROVE  /\ \A m \in Markets : reader[m].pc = "off" /\ hb[m].pc = "off"
           /\ runner.pc # "start" => runner.at \in 1..Len(MarketTypes) /\ RunnerMarket \in Markets
           /\ runner.pc = "start" => closing = FALSE
           /\ main.pc \notin {"connect", "subscribe", "failed"}
<1>1. runner.pc # "start" => runner.at \in 1..Len(MarketTypes)
  BY MarketPositions DEF WsInv, WsTypeOK, TasksInv
<1>2. runner.pc # "start" => RunnerMarket \in Markets
  BY <1>1, MarketPositions DEF RunnerMarket
<1> QED
  BY <1>1, <1>2 DEF WsInv, WsTypeOK, TasksInv, CloseInv

\* The loop goes on over connections c and sockets on which nothing is pending.
LEMMA RunnerFromInv ==
    ASSUME WsInv, runner.pc \in {"start", "connect", "resubscribe"},
           NEW c \in [Markets -> Conn], NEW i \in 1..3, RunnerFrom(i, c, closing),
           UNCHANGED <<closing, main, calls>>, Fault \/ UNCHANGED faults,
           sockets' \in [Markets -> Seq(Socket)],
           \A m \in Markets :
              /\ Len(sockets'[m]) >= Len(sockets[m])
              /\ SocketsInv(sockets'[m]) /\ ConnInv(c[m], sockets'[m], closing)
              /\ Agrees(c[m], sockets'[m])
    PROVE  WsInv'
<1> DEFINE missing == {j \in DOMAIN MarketTypes : j >= i /\ ~c[MarketTypes[j]].connected}
           quiet(m) == [pc |-> IF closing THEN "done" ELSE "sleep", sock |-> 0]
<1>1. /\ \A m \in Markets : reader[m].pc = "off" /\ hb[m].pc = "off"
      /\ main.pc \notin {"connect", "subscribe", "failed"}
      /\ faults' \in 0..MaxFaults /\ closing \in BOOLEAN
      /\ \A m \in Markets : Len(sockets[m]) \in Nat /\ Len(sockets'[m]) \in Nat
  <2>1. \A m \in Markets : Len(sockets[m]) \in Nat
    BY TypeOfMarket
  <2>2. \A m \in Markets : Len(sockets'[m]) \in Nat
    OBVIOUS
  <2> QED
    BY <2>1, <2>2, BeforeTasks, FaultCounts DEF WsInv, WsTypeOK
<1>2. \/ /\ runner' = [pc |-> "connect", at |-> Min(missing)] /\ missing # {}
         /\ conn' = c /\ UNCHANGED <<reader, hb>>
      \/ /\ runner' = [pc |-> "gather", at |-> 0]
         /\ conn' = [m \in Markets |-> TopConn(c[m], closing)]
         /\ reader' = [m \in Markets |-> Top(c[m], closing)]
         /\ hb' = [m \in Markets |-> quiet(m)]
  BY DEF RunnerFrom
<1>3. missing # {} => Min(missing) \in 1..Len(MarketTypes)
  <2>1. missing \in SUBSET (DOMAIN MarketTypes)
    OBVIOUS
  <2> HIDE DEF missing
  <2> QED
    BY <2>1, FirstPosition, MarketPositions
<1> HIDE DEF missing
<1>4. /\ runner' \in [pc : {"connect", "gather"}, at : 0..Len(MarketTypes)]
      /\ runner'.pc = "connect" => runner'.at # 0 /\ UNCHANGED <<reader, hb>>
  <2>1. 0 \in 0..Len(MarketTypes) /\ 1..Len(MarketTypes) \subseteq 0..Len(MarketTypes)
        /\ 0 \notin 1..Len(MarketTypes)
    BY MarketPositions
  <2> QED
    BY <1>2, <1>3, <2>1
<1>5. ASSUME NEW m \in Markets
      PROVE  /\ MarketInv(conn'[m], sockets'[m], reader'[m], hb'[m], closing, FALSE)
             /\ closing => reader'[m].pc \in {"off", "done"}
  <2>1. /\ Len(sockets'[m]) >= Len(sockets[m]) /\ SocketsInv(sockets'[m])
        /\ ConnInv(c[m], sockets'[m], closing) /\ Agrees(c[m], sockets'[m])
    OBVIOUS
  <2>2. CASE conn' = c /\ UNCHANGED <<reader, hb>>
    <3>1. MarketInv(c[m], sockets'[m], reader[m], hb[m], closing, FALSE)
      BY <1>1, <2>1, WithoutTasks
    <3> QED
      BY <1>1, <2>2, <3>1
  <2>3. CASE /\ conn' = [n \in Markets |-> TopConn(c[n], closing)]
             /\ reader' = [n \in Markets |-> Top(c[n], closing)]
             /\ hb' = [n \in Markets |-> quiet(n)]
    <3>1. HbInv(c[m], sockets'[m], quiet(m), closing)
      BY <1>1 DEF HbInv, Heartbeat
    <3>2. /\ conn'[m] = TopConn(c[m], closing) /\ reader'[m] = Top(c[m], closing)
          /\ hb'[m] = quiet(m)
      BY <2>3
    <3> DEFINE h == quiet(m)
               d == c[m]
               ss == sockets'[m]
    <3>3. SocketsInv(ss) /\ ConnInv(d, ss, closing) /\ HbInv(d, ss, h, closing) /\ Agrees(d, ss)
      BY <2>1, <3>1
    <3>4. conn'[m] = TopConn(d, closing) /\ reader'[m] = Top(d, closing) /\ hb'[m] = h
      BY <3>2
    <3> HIDE DEF h, d
    <3>5. /\ MarketInv(TopConn(d, closing), ss, Top(d, closing), h, closing, FALSE)
          /\ closing => Top(d, closing).pc = "done"
      BY <1>1, <3>3, LoopInv
    <3> QED
      BY <3>4, <3>5
  <2> QED
    BY <1>2, <2>2, <2>3
<1>6. \A m \in Markets :
         /\ conn'[m] \in Conn /\ reader'[m] \in Reader /\ hb'[m] \in Heartbeat
         /\ {conn'[m].ws, reader'[m].sock, hb'[m].sock} \subseteq 0..Len(sockets'[m])
  BY <1>5 DEF MarketInv, ConnInv, ReaderInv, HbInv
<1>7. /\ conn' \in [Markets -> Conn] /\ reader' \in [Markets -> Reader]
      /\ hb' \in [Markets -> Heartbeat]
  <2>1. CASE conn' = c /\ UNCHANGED <<reader, hb>>
    BY <2>1 DEF WsInv, WsTypeOK
  <2>2. CASE /\ conn' = [n \in Markets |-> TopConn(c[n], closing)]
             /\ reader' = [n \in Markets |-> Top(c[n], closing)]
             /\ hb' = [n \in Markets |-> quiet(n)]
    BY <1>6, <2>2
  <2> QED
    BY <1>2, <2>1, <2>2
<1>8. main.sock \in Nat /\ main.sock <= Len(sockets'[MarketTypes[main.at]])
  <2>1. MarketTypes[main.at] \in Markets /\ main.sock \in Nat
        /\ main.sock <= Len(sockets[MarketTypes[main.at]])
    BY MarketPositions DEF WsInv, WsTypeOK
  <2>2. Len(sockets'[MarketTypes[main.at]]) >= Len(sockets[MarketTypes[main.at]])
    BY <2>1
  <2> QED
    BY <1>1, <2>1, <2>2
<1>9. WsTypeOK'
  BY <1>1, <1>4, <1>6, <1>7, <1>8 DEF WsInv, WsTypeOK
<1>10. MarketsInv'
  <2>1. \A m \in Markets : RunnerAt(m)' = FALSE
    BY <1>4 DEF RunnerAt
  <2> QED
    BY <1>5, <2>1 DEF MarketsInv
<1>11. TasksInv'
  BY <1>1, <1>4 DEF TasksInv
<1>12. CloseInv'
  <2>1. MainMarket' = MainMarket /\ MainMarket \in Markets
    BY MarketPositions DEF WsInv, WsTypeOK, MainMarket
  <2> QED
    BY <1>5, <2>1 DEF WsInv, CloseInv
<1>13. StartInv'
  BY <1>1 DEF StartInv
<1> QED
  BY <1>9, <1>10, <1>11, <1>12, <1>13 DEF WsInv

\* What the market types offer when run_forever looks at them.
LEMMA NothingPending ==
    ASSUME WsInv, runner.pc \in {"start", "connect", "resubscribe"}, NEW m \in Markets,
           runner.pc # "resubscribe" \/ RunnerMarket # m
    PROVE  /\ SocketsInv(sockets[m]) /\ ConnInv(conn[m], sockets[m], closing)
           /\ Agrees(conn[m], sockets[m]) /\ Len(sockets[m]) >= Len(sockets[m])
<1>1. reader[m].pc = "off" /\ ~RunnerAt(m)
  BY BeforeTasks DEF RunnerAt
<1> QED
  BY <1>1, TypeOfMarket DEF MarketInv

LEMMA RunnerStartsInv == WsInv /\ RunnerStarts => WsInv'
<1> SUFFICES ASSUME WsInv, RunnerStarts PROVE WsInv'
  OBVIOUS
<1>1. runner.pc = "start" /\ closing' = FALSE /\ RunnerFrom(1, conn, closing')
      /\ UNCHANGED <<sockets, faults, main, calls>>
  BY DEF RunnerStarts, RunnerRest
<1>2. closing' = closing
  BY <1>1, BeforeTasks
<1>3. /\ conn \in [Markets -> Conn] /\ sockets' \in [Markets -> Seq(Socket)]
      /\ UNCHANGED <<closing, main, calls>> /\ 1 \in 1..3
  BY <1>1, <1>2 DEF WsInv, WsTypeOK
<1>4. RunnerFrom(1, conn, closing)
  BY <1>1, <1>2
<1>5. \A m \in Markets :
         /\ Len(sockets'[m]) >= Len(sockets[m])
         /\ SocketsInv(sockets'[m]) /\ ConnInv(conn[m], sockets'[m], closing)
         /\ Agrees(conn[m], sockets'[m])
  BY <1>1, NothingPending
<1> QED
  BY <1>1, <1>3, <1>4, <1>5, RunnerFromInv

LEMMA RunnerConnectFailsInv == WsInv /\ RunnerConnectFails => WsInv'
<1> SUFFICES ASSUME WsInv, RunnerConnectFails PROVE WsInv'
  OBVIOUS
<1>1. runner.pc = "connect" /\ RunnerFrom(runner.at + 1, conn, closing) /\ Fault
      /\ UNCHANGED <<sockets, closing, main, calls>>
  BY DEF RunnerConnectFails, RunnerGoesOn, RunnerRest
<1>2. /\ conn \in [Markets -> Conn] /\ sockets' \in [Markets -> Seq(Socket)]
      /\ runner.at + 1 \in 1..3
  BY <1>1, BeforeTasks, MarketPositions DEF WsInv, WsTypeOK
<1>3. \A m \in Markets :
         /\ Len(sockets'[m]) >= Len(sockets[m])
         /\ SocketsInv(sockets'[m]) /\ ConnInv(conn[m], sockets'[m], closing)
         /\ Agrees(conn[m], sockets'[m])
  BY <1>1, NothingPending
<1> QED
  BY <1>1, <1>2, <1>3, RunnerFromInv

LEMMA RunnerResubscribesInv == WsInv /\ RunnerResubscribes => WsInv'
<1> SUFFICES ASSUME WsInv, RunnerResubscribes PROVE WsInv'
  OBVIOUS
<1> DEFINE m == RunnerMarket
<1>1. /\ runner.pc = "resubscribe" /\ RunnerFrom(runner.at + 1, conn, closing)
      /\ UNCHANGED <<closing, faults, main, calls>>
      /\ IF SendRaises(m) THEN UNCHANGED sockets ELSE SendSubscribe(m, conn[m].subs)
  BY DEF RunnerResubscribes, RunnerGoesOn, RunnerRest
<1>2. m \in Markets /\ runner.at + 1 \in 1..3
  BY <1>1, BeforeTasks, MarketPositions
<1> HIDE DEF m
<1>3. PICK ss : /\ sockets' = [sockets EXCEPT ![m] = ss] /\ Len(ss) = Len(sockets[m])
                /\ SocketsInv(ss) /\ ConnInv(conn[m], ss, closing) /\ Agrees(conn[m], ss)
  BY <1>1, <1>2, ResubscribeServes
<1>4. conn \in [Markets -> Conn] /\ sockets' \in [Markets -> Seq(Socket)]
  BY <1>2, <1>3 DEF WsInv, WsTypeOK, SocketsInv
<1>5. ASSUME NEW n \in Markets
      PROVE  /\ Len(sockets'[n]) >= Len(sockets[n])
             /\ SocketsInv(sockets'[n]) /\ ConnInv(conn[n], sockets'[n], closing)
             /\ Agrees(conn[n], sockets'[n])
  <2>1. CASE n = m
    BY <1>3, <2>1, TypeOfMarket DEF WsInv, WsTypeOK
  <2>2. CASE n # m
    <3>1. sockets'[n] = sockets[n]
      BY <1>3, <2>2 DEF WsInv, WsTypeOK
    <3> QED
      BY <1>1, <2>2, <3>1, NothingPending DEF m
  <2> QED
    BY <2>1, <2>2
<1> QED
  BY <1>1, <1>2, <1>4, <1>5, RunnerFromInv

\* The new connection has to be subscribed again before the loop goes on.
LEMMA RunnerConnectsInv == WsInv /\ RunnerConnects => WsInv'
<1> SUFFICES ASSUME WsInv, RunnerConnects PROVE WsInv'
  OBVIOUS
<1> DEFINE m == RunnerMarket
           ss == sockets[m]
           x == Renewed(conn[m], ss)
           c == [conn EXCEPT ![m] = x]
<1>1. runner.pc = "connect" /\ UNCHANGED <<closing, main, calls>>
  BY DEF RunnerConnects, RunnerRest
<1>2. /\ m \in Markets /\ runner.at + 1 \in 1..3 /\ closing \in BOOLEAN
      /\ \A n \in Markets : reader[n].pc = "off" /\ hb[n].pc = "off" /\ ~RunnerAt(n)
      /\ main.pc \notin {"connect", "subscribe", "failed"}
  BY <1>1, BeforeTasks, MarketPositions DEF WsInv, WsTypeOK, RunnerAt
<1>3. PICK st \in {"open", "closed"} :
          /\ Connecting(st) /\ SocketOpens(m, st)
          /\ LET d == [conn EXCEPT ![m] = Connected(m)] IN
             IF st = "open" /\ conn[m].subs # {}
             THEN /\ runner' = [runner EXCEPT !.pc = "resubscribe"] /\ conn' = d
                  /\ UNCHANGED <<reader, hb>>
             ELSE RunnerGoesOn(d)
  BY DEF RunnerConnects
<1> DEFINE new == Opened(ss, st)
<1>4. sockets' = [sockets EXCEPT ![m] = new] /\ Connected(m) = x /\ (Fault \/ UNCHANGED faults)
  BY <1>2, <1>3 DEF SocketOpens, Connected, Opened, Renewed, Connecting, WsInv, WsTypeOK
<1>5. /\ SocketsInv(new) /\ ConnInv(x, new, closing) /\ Len(new) = Len(ss) + 1
      /\ (st = "closed" \/ conn[m].subs = {} => Agrees(x, new))
      /\ x \in Conn /\ Len(ss) \in Nat
  <2>1. /\ conn[m] \in Conn /\ SocketsInv(ss) /\ hb[m] \in Heartbeat
        /\ hb[m].sock \in 0..Len(ss) /\ (hb[m].pc = "pong" => closing /\ hb[m].sock # 0)
        /\ Len(ss) \in Nat
    BY <1>2, TypeOfMarket DEF HbInv
  <2> QED
    BY <1>2, <2>1, OpenedInv
<1> HIDE DEF new, x, m
<1>6. /\ c \in [Markets -> Conn] /\ c[m] = x /\ sockets'[m] = new
      /\ sockets' \in [Markets -> Seq(Socket)]
      /\ \A n \in Markets \ {m} : c[n] = conn[n] /\ sockets'[n] = sockets[n]
  BY <1>2, <1>4, <1>5 DEF WsInv, WsTypeOK, SocketsInv
<1> HIDE DEF c
<1>7. \A n \in Markets : /\ Len(sockets'[n]) >= Len(sockets[n])
                         /\ SocketsInv(sockets'[n]) /\ ConnInv(c[n], sockets'[n], closing)
                         /\ n # m => Agrees(c[n], sockets'[n])
  BY <1>1, <1>2, <1>5, <1>6, NothingPending
<1>8. CASE ~(st = "open" /\ conn[m].subs # {})
  <2>1. RunnerFrom(runner.at + 1, c, closing)
    BY <1>3, <1>4, <1>8 DEF c, RunnerGoesOn
  <2>2. Agrees(c[m], sockets'[m])
    BY <1>5, <1>6, <1>8
  <2> QED
    BY <1>1, <1>2, <1>4, <1>6, <1>7, <2>1, <2>2, RunnerFromInv
<1>9. CASE st = "open" /\ conn[m].subs # {}
  <2>1. /\ runner' = [runner EXCEPT !.pc = "resubscribe"] /\ conn' = c
        /\ UNCHANGED <<reader, hb>>
    BY <1>3, <1>4, <1>9 DEF c
  <2>2. runner \in [pc : {"connect"}, at : 0..Len(MarketTypes)]
    BY <1>1 DEF WsInv, WsTypeOK
  <2>3. /\ runner' \in [pc : {"resubscribe"}, at : 0..Len(MarketTypes)]
        /\ runner'.at = runner.at
    BY <2>1, <2>2
  <2>4. \A n \in Markets : RunnerAt(n)' = (n = m)
    BY <2>3 DEF RunnerAt, RunnerMarket, m
  <2>5. ASSUME NEW n \in Markets
        PROVE  MarketInv(c[n], sockets'[n], reader[n], hb[n], closing, n = m)
    BY <1>2, <1>7, WithoutTasks
  <2>6. \A n \in Markets :
           {c[n].ws, reader[n].sock, hb[n].sock} \subseteq 0..Len(sockets'[n])
    BY <2>5 DEF MarketInv, ConnInv, ReaderInv, HbInv
  <2>7. main.sock \in Nat /\ main.sock <= Len(sockets'[MarketTypes[main.at]])
    <3>1. MarketTypes[main.at] \in Markets /\ main.sock \in Nat
          /\ main.sock <= Len(sockets[MarketTypes[main.at]])
      BY MarketPositions DEF WsInv, WsTypeOK
    <3>2. Len(sockets'[MarketTypes[main.at]]) >= Len(sockets[MarketTypes[main.at]])
          /\ Len(sockets'[MarketTypes[main.at]]) \in Nat
          /\ Len(sockets[MarketTypes[main.at]]) \in Nat
      BY <1>6, <1>7, <3>1 DEF WsInv, WsTypeOK
    <3> QED
      BY <3>1, <3>2
  <2>8. faults' \in 0..MaxFaults
    BY <1>4, FaultCounts
  <2>9. WsTypeOK'
    BY <1>1, <1>6, <2>1, <2>3, <2>6, <2>7, <2>8 DEF WsInv, WsTypeOK
  <2>10. MarketsInv'
    BY <1>1, <2>1, <2>4, <2>5 DEF MarketsInv
  <2>11. TasksInv'
    BY <1>1, <1>2, <2>1, <2>3 DEF WsInv, TasksInv
  <2>12. CloseInv'
    <3>1. MainMarket' = MainMarket /\ MainMarket \in Markets
      BY <1>1, MarketPositions DEF WsInv, WsTypeOK, MainMarket
    <3> QED
      BY <1>1, <1>2, <2>1, <3>1 DEF WsInv, CloseInv
  <2>13. StartInv'
    BY <1>1, <1>2 DEF StartInv
  <2> QED
    BY <2>9, <2>10, <2>11, <2>12, <2>13 DEF WsInv
<1> QED
  BY <1>8, <1>9

-----------------------------------------------------------------------------
(* close().                                                                  *)

LEMMA CloseFromInv ==
    ASSUME WsInv, main.pc \in {"run", "close"}, runner.pc # "start",
           NEW c \in [Markets -> Conn], NEW i \in 1..3, CloseFrom(i, c),
           closing' = TRUE, UNCHANGED <<faults, calls>>,
           sockets' \in [Markets -> Seq(Socket)],
           \A m \in Markets :
              /\ Len(sockets'[m]) >= Len(sockets[m])
              /\ MarketInv(c[m], sockets'[m], reader[m], hb[m], TRUE, RunnerAt(m))
    PROVE  WsInv'
<1> DEFINE N == Len(MarketTypes)
           open == {j \in DOMAIN MarketTypes : j >= i /\ c[MarketTypes[j]].ws # 0}
           last == IF open = {} THEN N ELSE Min(open)
           Closed(m) == \E j \in i..last : MarketTypes[j] = m
           x(m) == IF Closed(m) THEN [c[m] EXCEPT !.connected = FALSE] ELSE c[m]
           over == [pc |-> "done", sock |-> 0]
<1>1. N \in {1, 2} /\ last \in 1..N /\ (open # {} => last \in i..last /\ last \in open)
  <2>1. open \in SUBSET (DOMAIN MarketTypes) /\ DOMAIN MarketTypes = 1..N /\ N \in {1, 2}
    BY MarketPositions
  <2>2. open # {} => Min(open) \in open
    <3> HIDE DEF open
    <3> QED
      BY <2>1, FirstPosition
  <2>3. open # {} => last \in 1..N /\ last >= i
    BY <2>1, <2>2
  <2> QED
    BY <2>1, <2>2, <2>3
<1>2. /\ conn' = [m \in Markets |-> x(m)]
      /\ \/ /\ open # {} /\ UNCHANGED <<reader, hb, runner>>
            /\ main' = [pc |-> "close", at |-> last, sock |-> c[MarketTypes[last]].ws]
         \/ /\ open = {} /\ main' = [main EXCEPT !.pc = "stopped"]
            /\ reader' = [m \in Markets |-> over] /\ hb' = [m \in Markets |-> over]
            /\ runner' = [runner EXCEPT !.pc = "ended"]
  BY DEF CloseFrom
<1>3. open # {} => /\ MarketTypes[last] \in Markets /\ Closed(MarketTypes[last])
                   /\ c[MarketTypes[last]].ws # 0
  BY <1>1, MarketPositions
<1>4. /\ \A m \in Markets : Len(sockets[m]) \in Nat /\ Len(sockets'[m]) \in Nat
      /\ main \in [pc : {"run", "close"}, at : 1..N, sock : Nat]
      /\ main.sock <= Len(sockets[MarketTypes[main.at]]) /\ MarketTypes[main.at] \in Markets
      /\ runner \in [pc : {"connect", "resubscribe", "gather", "ended"}, at : 0..N]
  <2>1. \A m \in Markets : Len(sockets[m]) \in Nat
    BY TypeOfMarket
  <2>2. runner.pc # "off"
    BY DEF WsInv, TasksInv
  <2>3. \A m \in Markets : Len(sockets'[m]) \in Nat
    OBVIOUS
  <2> QED
    BY <2>1, <2>2, <2>3, MarketPositions DEF WsInv, WsTypeOK
<1> HIDE DEF open, last, Closed, x
<1>5. ASSUME NEW m \in Markets, NEW q, NEW r, NEW h,
             MarketInv(c[m], sockets'[m], r, h, TRUE, q)
      PROVE  MarketInv(x(m), sockets'[m], r, h, TRUE, q)
  <2>1. CASE ~Closed(m)
    BY <1>5, <2>1 DEF x
  <2>2. CASE Closed(m)
    <3> DEFINE d == c[m]
               y == [d EXCEPT !.connected = FALSE]
               ss == sockets'[m]
    <3>1. SocketsInv(ss) /\ ConnInv(d, ss, TRUE) /\ ReaderInv(d, ss, r, TRUE)
          /\ HbInv(d, ss, h, TRUE)
      BY <1>5 DEF MarketInv
    <3>2. /\ ConnInv(y, ss, TRUE) /\ Agrees(y, ss) /\ ~y.connected
          /\ y.ws = d.ws /\ y.attempt = d.attempt
      BY <3>1, GivenUp
    <3> HIDE DEF y
    <3>3. ReaderInv(y, ss, r, TRUE) /\ HbInv(y, ss, h, TRUE)
      BY <3>1, <3>2 DEF ReaderInv, HbInv
    <3>4. MarketInv(y, ss, r, h, TRUE, q)
      BY <3>1, <3>2, <3>3 DEF MarketInv
    <3> QED
      BY <2>2, <3>4 DEF x, y
  <2> QED
    BY <2>1, <2>2
<1>6. ASSUME NEW m \in Markets
      PROVE  MarketInv(conn'[m], sockets'[m], reader'[m], hb'[m], TRUE, RunnerAt(m)')
  <2>1. MarketInv(x(m), sockets'[m], reader[m], hb[m], TRUE, RunnerAt(m))
    BY <1>5
  <2>2. conn'[m] = x(m)
    BY <1>2
  <2>3. CASE open # {}
    <3>1. reader' = reader /\ hb' = hb /\ runner' = runner
      BY <1>2, <2>3
    <3>2. RunnerAt(m)' = RunnerAt(m)
      BY <3>1 DEF RunnerAt, RunnerMarket
    <3> QED
      BY <2>1, <2>2, <3>1, <3>2
  <2>4. CASE open = {}
    <3>1. reader'[m] = over /\ hb'[m] = over
      BY <1>2, <2>4
    <3>2. over \in Reader /\ over \in Heartbeat /\ over.pc = "done" /\ over.sock = 0
      BY DEF Reader, Heartbeat
    <3> HIDE DEF over
    <3>3. ReaderInv(x(m), sockets'[m], over, TRUE) /\ HbInv(x(m), sockets'[m], over, TRUE)
      BY <1>4, <3>2 DEF ReaderInv, HbInv
    <3>4. MarketInv(x(m), sockets'[m], over, over, TRUE, RunnerAt(m)')
      BY <2>1, <3>2, <3>3 DEF MarketInv
    <3> QED
      BY <2>2, <3>1, <3>4
  <2> QED
    BY <2>3, <2>4
<1>7. \A m \in Markets :
         /\ conn'[m] \in Conn /\ reader'[m] \in Reader /\ hb'[m] \in Heartbeat
         /\ {conn'[m].ws, reader'[m].sock, hb'[m].sock} \subseteq 0..Len(sockets'[m])
  BY <1>6 DEF MarketInv, ConnInv, ReaderInv, HbInv
<1>8. /\ conn' \in [Markets -> Conn] /\ reader' \in [Markets -> Reader]
      /\ hb' \in [Markets -> Heartbeat]
  BY <1>2, <1>7 DEF WsInv, WsTypeOK
<1>9. /\ main' \in [pc : {"close", "stopped"}, at : 1..N, sock : Nat]
      /\ runner' \in [pc : {"connect", "resubscribe", "gather", "ended"}, at : 0..N]
      /\ main'.sock <= Len(sockets'[MarketTypes[main'.at]])
      /\ main'.pc = "close" => /\ open # {} /\ main'.sock # 0 /\ main'.at = last
                               /\ reader' = reader /\ runner' = runner /\ hb' = hb
      /\ runner'.pc # "ended" => reader' = reader /\ runner' = runner /\ hb' = hb
  <2>1. CASE open # {}
    <3>1. c[MarketTypes[last]].ws \in 0..Len(sockets'[MarketTypes[last]])
      BY <1>3, <2>1 DEF MarketInv, ConnInv
    <3> QED
      BY SMTT(30), <1>1, <1>2, <1>3, <1>4, <2>1, <3>1
  <2>2. CASE open = {}
    <3>1. main'.at = main.at /\ main'.sock = main.sock /\ main'.pc = "stopped"
          /\ main' \in [pc : {"close", "stopped"}, at : 1..N, sock : Nat]
          /\ runner' \in [pc : {"ended"}, at : 0..N]
      BY <1>2, <1>4, <2>2
    <3>2. Len(sockets'[MarketTypes[main.at]]) >= Len(sockets[MarketTypes[main.at]])
          /\ Len(sockets'[MarketTypes[main.at]]) \in Nat
          /\ Len(sockets[MarketTypes[main.at]]) \in Nat
      BY <1>4
    <3> QED
      BY <1>4, <3>1, <3>2
  <2> QED
    BY <2>1, <2>2
<1>10. WsTypeOK'
  BY <1>7, <1>8, <1>9 DEF WsInv, WsTypeOK
<1>11. MarketsInv'
  BY <1>6 DEF MarketsInv
<1>12. TasksInv'
  BY <1>4, <1>9 DEF WsInv, TasksInv
<1>13. CloseInv'
  <2>1. ASSUME main'.pc = "close"
        PROVE  ~conn'[MarketTypes[main'.at]].connected
    <3>1. MarketTypes[last] \in Markets /\ Closed(MarketTypes[last])
          /\ c[MarketTypes[last]] \in Conn
      BY <1>3, <1>9, <2>1
    <3>2. conn'[MarketTypes[last]] = [c[MarketTypes[last]] EXCEPT !.connected = FALSE]
      BY <1>2, <3>1 DEF x
    <3>3. ~conn'[MarketTypes[last]].connected
      BY <3>1, <3>2 DEF Conn
    <3> QED
      BY <1>9, <2>1, <3>3
  <2> QED
    BY <1>9, <2>1 DEF CloseInv, MainMarket
<1>14. StartInv'
  BY <1>9 DEF StartInv
<1> QED
  BY <1>10, <1>11, <1>12, <1>13, <1>14 DEF WsInv

\* From then on less is asked.
LEMMA ClosingAsksLess ==
    ASSUME NEW c, NEW ss, NEW r, NEW h, NEW e \in BOOLEAN, NEW q, MarketInv(c, ss, r, h, e, q)
    PROVE  MarketInv(c, ss, r, h, TRUE, q)
BY DEF MarketInv, ConnInv, ReaderInv, HbInv

LEMMA MainSignalledInv == WsInv /\ MainSignalled => WsInv'
<1> SUFFICES ASSUME WsInv, MainSignalled PROVE WsInv'
  OBVIOUS
<1>1. /\ main.pc = "run" /\ runner.pc # "start" /\ closing' = TRUE /\ CloseFrom(1, conn)
      /\ UNCHANGED <<sockets, faults, calls>>
  BY DEF MainSignalled
<1>2. conn \in [Markets -> Conn] /\ sockets' \in [Markets -> Seq(Socket)] /\ 1 \in 1..3
  BY <1>1 DEF WsInv, WsTypeOK
<1>3. ASSUME NEW m \in Markets
      PROVE  /\ Len(sockets'[m]) >= Len(sockets[m])
             /\ MarketInv(conn[m], sockets'[m], reader[m], hb[m], TRUE, RunnerAt(m))
  <2>1. /\ MarketInv(conn[m], sockets[m], reader[m], hb[m], closing, RunnerAt(m))
        /\ closing \in BOOLEAN /\ Len(sockets[m]) \in Nat
    BY TypeOfMarket
  <2>2. MarketInv(conn[m], sockets[m], reader[m], hb[m], TRUE, RunnerAt(m))
    BY <2>1, ClosingAsksLess
  <2>3. sockets'[m] = sockets[m]
    BY <1>1
  <2>4. Len(sockets'[m]) >= Len(sockets[m])
    BY <2>1, <2>3
  <2>5. MarketInv(conn[m], sockets'[m], reader[m], hb[m], TRUE, RunnerAt(m))
    BY <2>2, <2>3
  <2> QED
    BY <2>4, <2>5
<1> QED
  BY <1>1, <1>2, <1>3, CloseFromInv

LEMMA MainClosesInv == WsInv /\ MainCloses => WsInv'
<1> SUFFICES ASSUME WsInv, MainCloses PROVE WsInv'
  OBVIOUS
<1> DEFINE m == MainMarket
           ss == sockets[m]
           s == main.sock
           y == [ss[s] EXCEPT !.state = "closed"]
           new == [ss EXCEPT ![s] = y]
           d == conn[m]
           x == [d EXCEPT !.ws = 0]
           c == [conn EXCEPT ![m] = x]
<1>1. /\ main.pc = "close" /\ UNCHANGED <<closing, faults, calls>>
      /\ CloseFrom(main.at + 1, c)
      /\ sockets' = [sockets EXCEPT ![m][s].state = "closed"]
  BY DEF MainCloses, WsInv, WsTypeOK, MainMarket
<1>2. /\ closing = TRUE /\ runner.pc # "start" /\ m \in Markets /\ main.at + 1 \in 1..3
      /\ s \in 1..Len(ss) /\ (reader[m].pc \in {"recv", "dispatch"} => ~d.connected)
  <2>1. main.at \in 1..Len(MarketTypes) /\ main.sock \in Nat /\ main.sock <= Len(ss)
    BY DEF WsInv, WsTypeOK, MainMarket
  <2>2. m \in Markets /\ main.at + 1 \in 1..3
    BY <2>1, MarketPositions DEF MainMarket
  <2>3. closing = TRUE /\ runner.pc # "start" /\ s # 0
        /\ (reader[m].pc \in {"recv", "dispatch"} => ~d.connected)
    BY <1>1 DEF WsInv, CloseInv, TasksInv, WsTypeOK
  <2>4. Len(ss) \in Nat
    BY <2>2, TypeOfMarket
  <2> QED
    BY <2>1, <2>2, <2>3, <2>4
<1> HIDE DEF m
<1>3. /\ ss[s] \in Socket /\ SocketsInv(ss) /\ d \in Conn
      /\ MarketInv(d, ss, reader[m], hb[m], TRUE, RunnerAt(m)) /\ Len(ss) \in Nat
  BY <1>2, TypeOfMarket, ClosingAsksLess
<1>4. y \in Socket /\ y.state = "closed" /\ y.subs = ss[s].subs /\ y.combined = ss[s].combined
  BY <1>3 DEF Socket
<1>5. sockets' = [sockets EXCEPT ![m] = new]
  BY <1>1 DEF WsInv, WsTypeOK
<1> HIDE DEF y
<1>6. Faded(ss, new)
  BY <1>2, <1>3, <1>4, OneFades
<1> HIDE DEF new
<1>7. MarketInv(d, new, reader[m], hb[m], TRUE, RunnerAt(m)) /\ Len(new) = Len(ss)
  BY <1>3, <1>6, FadedInv DEF Faded
<1>8. /\ x \in Conn /\ x.ws = 0 /\ x.connected = d.connected /\ x.attempt = d.attempt
  BY <1>3 DEF Conn
<1> HIDE DEF x
<1>9. MarketInv(x, new, reader[m], hb[m], TRUE, RunnerAt(m))
  <2>1. ConnInv(x, new, TRUE) /\ Agrees(x, new)
    BY <1>3, <1>7, <1>8 DEF MarketInv, ConnInv, Within, Agrees, Live
  <2>2. ReaderInv(x, new, reader[m], TRUE)
    BY <1>2, <1>7, <1>8 DEF MarketInv, ReaderInv
  <2>3. HbInv(x, new, hb[m], TRUE)
    BY <1>7 DEF MarketInv, HbInv
  <2> QED
    BY <1>7, <2>1, <2>2, <2>3 DEF MarketInv
<1>10. /\ c \in [Markets -> Conn] /\ c[m] = x /\ sockets'[m] = new
       /\ sockets' \in [Markets -> Seq(Socket)]
       /\ \A n \in Markets \ {m} : c[n] = conn[n] /\ sockets'[n] = sockets[n]
  BY <1>2, <1>5, <1>6, <1>8 DEF WsInv, WsTypeOK, Faded, SocketsInv
<1> HIDE DEF c
<1>11. ASSUME NEW n \in Markets
       PROVE  /\ Len(sockets'[n]) >= Len(sockets[n])
              /\ MarketInv(c[n], sockets'[n], reader[n], hb[n], TRUE, RunnerAt(n))
  <2>1. CASE n = m
    <3>1. Len(sockets'[m]) >= Len(sockets[m])
      BY <1>3, <1>7, <1>10
    <3>2. MarketInv(c[m], sockets'[m], reader[m], hb[m], TRUE, RunnerAt(m))
      BY <1>9, <1>10
    <3> QED
      BY <2>1, <3>1, <3>2
  <2>2. CASE n # m
    <3>1. /\ MarketInv(conn[n], sockets[n], reader[n], hb[n], closing, RunnerAt(n))
          /\ closing \in BOOLEAN /\ Len(sockets[n]) \in Nat
      BY TypeOfMarket
    <3>2. MarketInv(conn[n], sockets[n], reader[n], hb[n], TRUE, RunnerAt(n))
      BY <3>1, ClosingAsksLess
    <3>3. c[n] = conn[n] /\ sockets'[n] = sockets[n]
      BY <1>10, <2>2
    <3>4. Len(sockets'[n]) >= Len(sockets[n])
      BY <3>1, <3>3
    <3>5. MarketInv(c[n], sockets'[n], reader[n], hb[n], TRUE, RunnerAt(n))
      BY <3>2, <3>3
    <3> QED
      BY <3>4, <3>5
  <2> QED
    BY <2>1, <2>2
<1> QED
  BY <1>1, <1>2, <1>10, <1>11, CloseFromInv

-----------------------------------------------------------------------------
(* The theorems.                                                             *)

LEMMA InitInv == Init => WsInv
<1> SUFFICES ASSUME Init PROVE WsInv
  OBVIOUS
<1> DEFINE c == [ws |-> 0, connected |-> FALSE, subs |-> {}, attempt |-> 0]
           off == [pc |-> "off", sock |-> 0]
           none == <<>>
<1>1. /\ c \in Conn /\ ~c.connected /\ c.ws = 0 /\ c.subs = {}
      /\ off \in Reader /\ off \in Heartbeat /\ off.pc = "off" /\ off.sock = 0
      /\ none \in Seq(Socket) /\ Len(none) = 0 /\ 0 \in 0..Len(none)
  BY DEF Conn, Reader, Heartbeat
<1>2. /\ conn = [m \in Markets |-> c] /\ sockets = [m \in Markets |-> none]
      /\ reader = [m \in Markets |-> off] /\ hb = [m \in Markets |-> off]
      /\ runner = [pc |-> "off", at |-> 0] /\ main = [pc |-> "connect", at |-> 1, sock |-> 0]
      /\ closing = FALSE /\ faults = 0 /\ calls = 0
  BY DEF Init
<1> HIDE DEF c, off, none
<1>3. WsTypeOK
  <2>1. MarketTypes[1] \in Markets /\ 1 \in 1..Len(MarketTypes) /\ 0 \in 0..Len(MarketTypes)
    BY MarketPositions
  <2>2. /\ runner \in [pc : {"off", "start", "connect", "resubscribe", "gather", "ended"},
                       at : 0..Len(MarketTypes)]
        /\ main \in [pc : {"connect", "subscribe", "run", "close", "stopped", "failed"},
                     at : 1..Len(MarketTypes), sock : Nat]
        /\ main.sock <= Len(sockets[MarketTypes[main.at]])
    BY <1>1, <1>2, <2>1
  <2>3. /\ conn \in [Markets -> Conn] /\ sockets \in [Markets -> Seq(Socket)]
        /\ reader \in [Markets -> Reader] /\ hb \in [Markets -> Heartbeat]
    BY <1>1, <1>2
  <2>4. ASSUME NEW m \in Markets
        PROVE  {conn[m].ws, reader[m].sock, hb[m].sock} \subseteq 0..Len(sockets[m])
    <3>1. conn[m] = c /\ reader[m] = off /\ hb[m] = off /\ sockets[m] = none
      BY <1>2
    <3> QED
      BY <1>1, <3>1
  <2>5. closing \in BOOLEAN /\ faults \in 0..MaxFaults /\ calls \in 0..MaxCalls
    <3>1. closing = FALSE /\ faults = 0 /\ calls = 0
      BY <1>2
    <3>2. 0 \in 0..MaxFaults /\ 0 \in 0..MaxCalls
      OBVIOUS
    <3> QED
      BY <3>1, <3>2
  <2> QED
    BY <2>2, <2>3, <2>4, <2>5 DEF WsTypeOK
<1>4. MarketsInv
  <2>1. SocketsInv(none) /\ ConnInv(c, none, FALSE) /\ Agrees(c, none)
    BY <1>1 DEF SocketsInv, ConnInv, Within, Agrees, Live
  <2>2. ReaderInv(c, none, off, FALSE) /\ HbInv(c, none, off, FALSE)
    BY <1>1 DEF ReaderInv, HbInv
  <2>3. \A q : MarketInv(c, none, off, off, FALSE, q)
    BY <2>1, <2>2 DEF MarketInv
  <2> QED
    BY <1>2, <2>3 DEF MarketsInv
<1>5. TasksInv /\ CloseInv
  BY <1>1, <1>2 DEF TasksInv, CloseInv
<1>6. StartInv
  <2>1. \A i \in 1..Len(MarketTypes) : conn[MarketTypes[i]].subs = {}
    BY <1>1, <1>2, MarketPositions
  <2> QED
    BY <1>2, <2>1 DEF StartInv
<1> QED
  BY <1>3, <1>4, <1>5, <1>6 DEF WsInv

LEMMA StutterInv == WsInv /\ UNCHANGED vars => WsInv'
<1> SUFFICES ASSUME WsInv, UNCHANGED vars PROVE WsInv'
  OBVIOUS
<1>1. /\ conn' = conn /\ sockets' = sockets /\ reader' = reader /\ hb' = hb
      /\ runner' = runner /\ main' = main /\ closing' = closing /\ faults' = faults
      /\ calls' = calls
  BY DEF vars
<1>2. WsTypeOK'
  BY <1>1 DEF WsInv, WsTypeOK
<1>3. MarketsInv'
  BY <1>1 DEF WsInv, MarketsInv, RunnerAt, RunnerMarket
<1>4. TasksInv' /\ StartInv'
  BY <1>1 DEF WsInv, TasksInv, StartInv
<1>5. CloseInv'
  BY <1>1 DEF WsInv, CloseInv, MainMarket
<1> QED
  BY <1>2, <1>3, <1>4, <1>5 DEF WsInv

LEMMA StepInv == WsInv /\ [Next]_vars => WsInv'
<1> SUFFICES ASSUME WsInv, [Next]_vars PROVE WsInv'
  OBVIOUS
<1>1. CASE MainStep
  BY <1>1, MainConnectsInv, MainSkipsInv, MainSubscribesInv, MainClosesInv,
     RunnerStartsInv, RunnerConnectsInv, RunnerResubscribesInv DEF MainStep
<1>2. CASE MainConnectFails \/ RunnerConnectFails \/ MainSignalled
  BY <1>2, MainConnectFailsInv, RunnerConnectFailsInv, MainSignalledInv
<1>3. ASSUME NEW m \in Markets, ReaderStep(m) \/ ReaderConnectFails(m) PROVE WsInv'
  BY <1>3, ReaderSkipsInv, ReaderReceivesInv, ReaderDispatchedInv, ReaderLosesInv,
     ReaderConnectsInv, ReaderResubscribesInv, ReaderConnectFailsInv DEF ReaderStep
<1>4. ASSUME NEW m \in Markets, HbWakes(m) \/ HbPong(m) \/ HbFails(m) PROVE WsInv'
  BY <1>4, HbWakesInv, HbPongInv, HbFailsInv
<1>5. ASSUME NEW m \in Markets, ApiCall(m) \/ Drop(m) \/ Keepalive(m) PROVE WsInv'
  BY <1>5, ApiCallInv, DropInv, KeepaliveInv
<1> QED
  BY <1>1, <1>2, <1>3, <1>4, <1>5, StutterInv DEF Next

\* The inductive invariant of the manager, its tasks, run_forever and close().
THEOREM WsInvariant == Spec => []WsInv
BY InitInv, StepInv, PTL DEF Spec

\* Every task holds a socket that was opened, or none.
THEOREM WsTypeCorrect == Spec => []WsTypeOK
<1>1. WsInv => WsTypeOK
  BY DEF WsInv
<1> QED
  BY <1>1, WsInvariant, PTL

\* _reader_loop is never left behind on a socket that was replaced.
THEOREM ReaderIsCurrent == Spec => []CurrentSocketOnly
<1>1. WsInv => CurrentSocketOnly
  <2> SUFFICES ASSUME WsInv, NEW m \in Markets, reader[m].pc \in {"recv", "dispatch"}, ~closing
               PROVE  reader[m].sock = conn[m].ws
    BY DEF CurrentSocketOnly
  <2> QED
    BY TypeOfMarket DEF ReaderInv
<1> QED
  BY <1>1, WsInvariant, PTL

\* No stream is subscribed on a connection without SET_PROPERTY (_do_connect).
THEOREM EverySocketIsRoutable == Spec => []RoutableMessages
<1>1. WsInv => RoutableMessages
  <2> SUFFICES ASSUME WsInv, NEW m \in Markets, NEW s \in DOMAIN sockets[m],
                      sockets[m][s].subs # {}
               PROVE  sockets[m][s].combined
    BY DEF RoutableMessages
  <2> QED
    BY TypeOfMarket DEF SocketsInv
<1> QED
  BY <1>1, WsInvariant, PTL

\* A reader that waits on a live connection receives what is subscribed, across any
\* number of reconnects and calls.
THEOREM ServerAndClientAgree == Spec => []SubscriptionsAgree
<1>1. WsInv => SubscriptionsAgree
  <2> SUFFICES ASSUME WsInv, NEW m \in Markets, reader[m].pc \in {"recv", "dispatch"},
                      conn[m].connected, Current(m) = "open"
               PROVE  sockets[m][conn[m].ws].subs = conn[m].subs
    BY DEF SubscriptionsAgree
  <2>1. ~RunnerAt(m)
    BY TasksRun
  <2>2. conn[m].ws # 0
    BY TypeOfMarket DEF ReaderInv
  <2>3. Agrees(conn[m], sockets[m])
    BY <2>1, TypeOfMarket DEF MarketInv
  <2> QED
    BY <2>2, <2>3 DEF Agrees, Live, Current, State
<1> QED
  BY <1>1, WsInvariant, PTL

\* Attempts are counted exactly while there is no connection.
THEOREM AttemptsAreCounted == Spec => []AttemptsCountFailures
<1>1. WsInv => AttemptsCountFailures
  <2> SUFFICES ASSUME WsInv, NEW m \in Markets
               PROVE  /\ conn[m].connected => conn[m].attempt = 0
                      /\ reader[m].pc = "backoff" /\ ~closing
                            => ~conn[m].connected /\ conn[m].attempt > 0
    BY DEF AttemptsCountFailures
  <2> QED
    BY TypeOfMarket DEF ConnInv, ReaderInv
<1> QED
  BY <1>1, WsInvariant, PTL

\* The heartbeat takes down the connection it pinged, or none.
THEOREM HeartbeatIsFair == Spec => HeartbeatBlamesItsSocket
<1> DEFINE Blames == \A m \in Markets : HbFails(m) /\ ~closing => hb[m].sock = conn[m].ws
<1>1. WsInv => Blames
  <2> SUFFICES ASSUME WsInv, NEW m \in Markets, HbFails(m), ~closing
               PROVE  hb[m].sock = conn[m].ws
    OBVIOUS
  <2>1. hb[m].pc = "pong"
    BY DEF HbFails
  <2> QED
    BY <2>1, TypeOfMarket DEF HbInv
<1>2. WsInv => [Blames]_vars
  BY <1>1
<1> QED
  BY <1>2, WsInvariant, PTL DEF HeartbeatBlamesItsSocket
===============================================================================
