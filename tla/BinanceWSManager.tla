---------------------------- MODULE BinanceWSManager ----------------------------
(***************************************************************************)
(* adapters/binance_ws_manager.py as apps/run_realtime_ingest.py uses it:  *)
(* the main coroutine, run_forever, and a reader and a heartbeat task per  *)
(* market type, on one event loop.  A step is what a task does from one    *)
(* await to the next.                                                      *)
(*                                                                         *)
(* The websockets library is external: a socket fails only when a send or  *)
(* a recv finds it closed; a connection that died silently is closed by    *)
(* the library's own keepalive.                                            *)
(***************************************************************************)
EXTENDS Integers, Sequences, FiniteSets, FiniteSetsExt

CONSTANTS
    MarketTypes,  \* the keys of _state, in order
    Streams,      \* Streams[m]: what build_streams returns for m
    MaxAttempt,   \* bound: where the reconnect delay has reached its cap
    MaxFaults,    \* bound: lost connections, refused connects, late pongs
    MaxCalls      \* bound: subscribe and unsubscribe calls while it runs

ASSUME MarketTypesAssumption == MarketTypes \in {<<"spot">>, <<"perp">>, <<"spot", "perp">>}
ASSUME BoundsAssumption == MaxAttempt \in Nat \ {0} /\ MaxFaults \in Nat /\ MaxCalls \in Nat

VARIABLES
    conn,     \* _ConnState per market type; ws is a position in sockets, 0 for None
    sockets,  \* per market type, every socket ever opened, and the server's side of it
    reader,   \* per market type: where _reader_loop stands, the socket it receives on
    hb,       \* per market type: where _heartbeat_loop stands, the socket it pinged
    runner,   \* run_forever: where it stands and the market type it is at
    main,     \* run_async: the same, and the socket close() waits for
    closing, faults, calls

vars == <<conn, sockets, reader, hb, runner, main, closing, faults, calls>>

Markets == {MarketTypes[i] : i \in DOMAIN MarketTypes}
AllStreams == UNION {Streams[m] : m \in Markets}

\* A socket is named by its position in sockets[m], 0 is none.
Conn == [ws : Nat, connected : BOOLEAN, subs : SUBSET AllStreams, attempt : 0..MaxAttempt]
Socket == [state : {"open", "dead", "closed"}, combined : BOOLEAN,
           subs : SUBSET AllStreams, acks : Nat]
Reader == [pc : {"off", "backoff", "resubscribe", "recv", "dispatch", "done"}, sock : Nat]
Heartbeat == [pc : {"off", "sleep", "pong", "done"}, sock : Nat]

WsTypeOK ==
    /\ conn \in [Markets -> Conn] /\ sockets \in [Markets -> Seq(Socket)]
    /\ reader \in [Markets -> Reader] /\ hb \in [Markets -> Heartbeat]
    /\ \A m \in Markets : {conn[m].ws, reader[m].sock, hb[m].sock} \subseteq 0..Len(sockets[m])
    /\ runner \in [pc : {"off", "start", "connect", "resubscribe", "gather", "ended"},
                    at : 0..Len(MarketTypes)]
    /\ main \in [pc : {"connect", "subscribe", "run", "close", "stopped", "failed"},
                  at : 1..Len(MarketTypes), sock : Nat]
    /\ main.sock <= Len(sockets[MarketTypes[main.at]])
    /\ closing \in BOOLEAN /\ faults \in 0..MaxFaults /\ calls \in 0..MaxCalls

Init ==
    /\ conn = [m \in Markets |-> [ws |-> 0, connected |-> FALSE, subs |-> {}, attempt |-> 0]]
    /\ sockets = [m \in Markets |-> <<>>]
    /\ reader = [m \in Markets |-> [pc |-> "off", sock |-> 0]]
    /\ hb = [m \in Markets |-> [pc |-> "off", sock |-> 0]]
    /\ runner = [pc |-> "off", at |-> 0]
    /\ main = [pc |-> "connect", at |-> 1, sock |-> 0]
    /\ closing = FALSE /\ faults = 0 /\ calls = 0

Fault == faults < MaxFaults /\ faults' = faults + 1
State(m, s) == sockets[m][s].state
Current(m) == State(m, conn[m].ws)

-----------------------------------------------------------------------------
(* Connecting and subscribing.                                               *)

\* Mutant: the attempts are not reset.
MutConnected(m) ==
    [conn[m] EXCEPT !.ws = Len(sockets[m]) + 1, !.connected = TRUE]

\* Mutant: a connect takes one attempt back.
MutConnectedOnce(m) ==
    [conn[m] EXCEPT !.ws = Len(sockets[m]) + 1, !.connected = TRUE, !.attempt = @ - 1]

\* Mutant: no SET_PROPERTY.
MutSocketOpens(m, st) ==
    sockets' = [sockets EXCEPT ![m] = Append(@,
        [state |-> st, combined |-> FALSE, subs |-> {}, acks |-> 0])]

\* _do_connect from the return of websockets.connect up to SET_PROPERTY, which
\* raises when the connection (st) is closed by then.
Connected(m) ==
    [conn[m] EXCEPT !.ws = Len(sockets[m]) + 1, !.connected = TRUE, !.attempt = 0]
SocketOpens(m, st) ==
    sockets' = [sockets EXCEPT ![m] = Append(@,
        [state |-> st, combined |-> st = "open", subs |-> {},
         acks |-> IF st = "open" THEN 1 ELSE 0])]

Connecting(st) == (st = "open" /\ UNCHANGED faults) \/ (st = "closed" /\ Fault)

\* What a send does at the server; into a dead connection it is lost.
ServerGets(m, new) ==
    LET s == sockets[m][conn[m].ws]
    IN sockets' = IF Current(m) # "open" THEN sockets
                  ELSE [sockets EXCEPT ![m][conn[m].ws] =
                           [s EXCEPT !.subs = new, !.acks = s.acks + 1]]

\* _send_subscribe on a socket that is not closed.
SendSubscribe(m, streams) ==
    IF conn[m].ws = 0 \/ streams = {} THEN UNCHANGED sockets
    ELSE ServerGets(m, sockets[m][conn[m].ws].subs \cup streams)

SendUnsubscribe(m, streams) ==
    IF conn[m].ws = 0 \/ streams = {} THEN UNCHANGED sockets
    ELSE ServerGets(m, sockets[m][conn[m].ws].subs \ streams)

SendRaises(m) == conn[m].ws # 0 /\ Current(m) = "closed"

-----------------------------------------------------------------------------
(* The reader task.                                                          *)

\* The top of the reader's loop on state c: end, _try_reconnect up to its
\* sleep, or recv.
Down(c) == c.ws = 0 \/ ~c.connected
Top(c, ending) ==
    IF ending THEN [pc |-> "done", sock |-> 0]
    ELSE IF Down(c) THEN [pc |-> "backoff", sock |-> 0]
    ELSE [pc |-> "recv", sock |-> c.ws]
TopConn(c, ending) ==
    IF ~ending /\ Down(c) /\ c.attempt < MaxAttempt
    THEN [c EXCEPT !.attempt = @ + 1] ELSE c

LoopTop(m, c) ==
    /\ reader' = [reader EXCEPT ![m] = Top(c, closing)]
    /\ conn' = [conn EXCEPT ![m] = TopConn(c, closing)]

ReaderRest == UNCHANGED <<hb, runner, main, closing, calls>>

\* recv returns the reply to a request, which is skipped ...
ReaderSkips(m) ==
    /\ reader[m].pc = "recv" /\ State(m, reader[m].sock) = "open"
    /\ sockets[m][reader[m].sock].acks > 0
    /\ sockets' = [sockets EXCEPT ![m][reader[m].sock].acks = @ - 1]
    /\ LoopTop(m, conn[m])
    /\ UNCHANGED faults /\ ReaderRest

\* ... or a message, and the callback is awaited.
ReaderReceives(m) ==
    /\ reader[m].pc = "recv" /\ State(m, reader[m].sock) = "open"
    /\ sockets[m][reader[m].sock].subs # {}
    /\ reader' = [reader EXCEPT ![m].pc = "dispatch"]
    /\ UNCHANGED <<conn, sockets, faults>> /\ ReaderRest

\* The callback returned or raised.
ReaderDispatched(m) ==
    /\ reader[m].pc = "dispatch"
    /\ LoopTop(m, conn[m])
    /\ UNCHANGED <<sockets, faults>> /\ ReaderRest

\* recv raises ConnectionClosed.
ReaderLoses(m) ==
    /\ reader[m].pc = "recv" /\ State(m, reader[m].sock) = "closed"
    /\ LoopTop(m, [conn[m] EXCEPT !.connected = FALSE])
    /\ UNCHANGED <<sockets, faults>> /\ ReaderRest

\* A pong that will not come any more is noticed in the same round of the event
\* loop in which the socket closes, so before any later connect returns.
PongIsLost(m) == hb[m].pc = "pong" /\ State(m, hb[m].sock) = "closed"

\* The delay is over and _do_connect has opened a socket.  When SET_PROPERTY
\* raises, _try_reconnect logs it and the loop goes on from its top.
ReaderConnects(m) ==
    /\ reader[m].pc = "backoff" /\ ~PongIsLost(m)
    /\ \E st \in {"open", "closed"} :
          /\ Connecting(st) /\ SocketOpens(m, st)
          /\ IF st = "open" /\ conn[m].subs # {}
             THEN /\ conn' = [conn EXCEPT ![m] = Connected(m)]
                  /\ reader' = [reader EXCEPT ![m] = [pc |-> "resubscribe", sock |-> 0]]
             ELSE LoopTop(m, Connected(m))
    /\ ReaderRest

\* Mutant: a refused connection ends the reader.
MutReaderConnectFails(m) ==
    /\ reader[m].pc = "backoff"
    /\ Fault
    /\ reader' = [reader EXCEPT ![m] = [pc |-> "done", sock |-> 0]]
    /\ UNCHANGED <<conn, sockets>> /\ ReaderRest

ReaderConnectFails(m) ==
    /\ reader[m].pc = "backoff"
    /\ Fault
    /\ LoopTop(m, conn[m])
    /\ UNCHANGED sockets /\ ReaderRest

\* Mutant: the configured streams are subscribed again, not the current ones.
MutReaderResubscribes(m) ==
    /\ reader[m].pc = "resubscribe"
    /\ IF SendRaises(m) THEN UNCHANGED sockets ELSE SendSubscribe(m, Streams[m])
    /\ LoopTop(m, conn[m])
    /\ UNCHANGED faults /\ ReaderRest

\* The rest of _do_connect; a send that raises is logged as well.
ReaderResubscribes(m) ==
    /\ reader[m].pc = "resubscribe"
    /\ IF SendRaises(m) THEN UNCHANGED sockets ELSE SendSubscribe(m, conn[m].subs)
    /\ LoopTop(m, conn[m])
    /\ UNCHANGED faults /\ ReaderRest

ReaderStep(m) ==
    \/ ReaderSkips(m) \/ ReaderReceives(m) \/ ReaderDispatched(m)
    \/ ReaderLoses(m) \/ ReaderConnects(m) \/ ReaderResubscribes(m)

-----------------------------------------------------------------------------
(* The heartbeat task.                                                       *)

HbLoop == [pc |-> IF closing THEN "done" ELSE "sleep", sock |-> 0]
HbRest == UNCHANGED <<sockets, reader, runner, main, closing, calls>>

\* Mutant: pings whatever socket there is.
MutHbPings(m) == conn[m].ws # 0

HbPings(m) == conn[m].ws # 0 /\ conn[m].connected

\* The interval is over: ping, or go round; ping raises on a closed socket.
HbWakes(m) ==
    /\ hb[m].pc = "sleep" /\ (HbPings(m) \/ closing)
    /\ IF ~HbPings(m)
       THEN hb' = [hb EXCEPT ![m] = HbLoop] /\ UNCHANGED conn
       ELSE IF Current(m) = "closed"
       THEN /\ hb' = [hb EXCEPT ![m] = HbLoop]
            /\ conn' = [conn EXCEPT ![m].connected = FALSE]
       ELSE hb' = [hb EXCEPT ![m] = [pc |-> "pong", sock |-> conn[m].ws]] /\ UNCHANGED conn
    /\ UNCHANGED faults /\ HbRest

HbPong(m) ==
    /\ hb[m].pc = "pong" /\ State(m, hb[m].sock) = "open"
    /\ hb' = [hb EXCEPT ![m] = HbLoop]
    /\ UNCHANGED <<conn, faults>> /\ HbRest

\* Mutant: the heartbeat also gives up the socket.
MutHbFails(m) ==
    /\ hb[m].pc = "pong"
    /\ IF State(m, hb[m].sock) = "open" THEN Fault ELSE UNCHANGED faults
    /\ conn' = [conn EXCEPT ![m].connected = FALSE, ![m].ws = 0]
    /\ hb' = [hb EXCEPT ![m] = HbLoop]
    /\ HbRest

\* The socket closed, or ten seconds passed: without a connection, or because
\* the pong of a healthy one is late.  The reader is not told.
HbFails(m) ==
    /\ hb[m].pc = "pong"
    /\ IF State(m, hb[m].sock) = "open" THEN Fault ELSE UNCHANGED faults
    /\ conn' = [conn EXCEPT ![m].connected = FALSE]
    /\ hb' = [hb EXCEPT ![m] = HbLoop]
    /\ HbRest

HbStep(m) == HbWakes(m) \/ HbPong(m) \/ (HbFails(m) /\ UNCHANGED faults)

-----------------------------------------------------------------------------
(* run_async and run_forever.                                                *)

MainRest == UNCHANGED <<reader, hb, closing, calls>>
MainMarket == MarketTypes[main.at]

\* On to the next market type, or start run_forever and wait for a signal.
MainGoesOn ==
    IF main.at < Len(MarketTypes)
    THEN main' = [main EXCEPT !.pc = "connect", !.at = @ + 1] /\ UNCHANGED runner
    ELSE main' = [main EXCEPT !.pc = "run"] /\ runner' = [pc |-> "start", at |-> 1]

\* What raises here ends the process.
MainFails == main' = [main EXCEPT !.pc = "failed"] /\ UNCHANGED runner

MainConnects ==
    /\ main.pc = "connect" /\ Streams[MainMarket] # {}
    /\ \E st \in {"open", "closed"} :
          /\ Connecting(st) /\ SocketOpens(MainMarket, st)
          /\ conn' = [conn EXCEPT ![MainMarket] = Connected(MainMarket)]
          /\ IF st = "open" THEN main' = [main EXCEPT !.pc = "subscribe"] /\ UNCHANGED runner
             ELSE MainFails
    /\ MainRest

MainConnectFails ==
    /\ main.pc = "connect" /\ Streams[MainMarket] # {}
    /\ Fault /\ MainFails
    /\ UNCHANGED <<conn, sockets>> /\ MainRest

MainSkips ==
    /\ main.pc = "connect" /\ Streams[MainMarket] = {}
    /\ MainGoesOn
    /\ UNCHANGED <<conn, sockets, faults>> /\ MainRest

MainSubscribes ==
    /\ main.pc = "subscribe"
    /\ conn' = [conn EXCEPT ![MainMarket].subs = @ \cup Streams[MainMarket]]
    /\ IF SendRaises(MainMarket) THEN MainFails /\ UNCHANGED sockets
       ELSE MainGoesOn /\ SendSubscribe(MainMarket, Streams[MainMarket])
    /\ UNCHANGED faults /\ MainRest

RunnerRest == UNCHANGED <<main, calls>>
RunnerMarket == MarketTypes[runner.at]

\* The loop of run_forever from market type i on: it awaits a connect for the
\* first that is not connected; when all are, it creates a reader and a
\* heartbeat per market type.
RunnerFrom(i, c, ending) ==
    LET missing == {j \in DOMAIN MarketTypes : j >= i /\ ~c[MarketTypes[j]].connected}
    IN IF missing # {}
       THEN /\ runner' = [pc |-> "connect", at |-> Min(missing)]
            /\ conn' = c
            /\ UNCHANGED <<reader, hb>>
       ELSE /\ runner' = [pc |-> "gather", at |-> 0]
            /\ conn' = [m \in Markets |-> TopConn(c[m], ending)]
            /\ reader' = [m \in Markets |-> Top(c[m], ending)]
            /\ hb' = [m \in Markets |->
                        [pc |-> IF ending THEN "done" ELSE "sleep", sock |-> 0]]
RunnerGoesOn(c) == RunnerFrom(runner.at + 1, c, closing)

RunnerStarts ==
    /\ runner.pc = "start"
    /\ closing' = FALSE
    /\ RunnerFrom(1, conn, closing')
    /\ UNCHANGED <<sockets, faults>> /\ RunnerRest

\* Failures are left to the readers.
RunnerConnects ==
    /\ runner.pc = "connect"
    /\ \E st \in {"open", "closed"} :
          /\ Connecting(st) /\ SocketOpens(RunnerMarket, st)
          /\ LET c == [conn EXCEPT ![RunnerMarket] = Connected(RunnerMarket)] IN
             IF st = "open" /\ conn[RunnerMarket].subs # {}
             THEN /\ runner' = [runner EXCEPT !.pc = "resubscribe"] /\ conn' = c
                  /\ UNCHANGED <<reader, hb>>
             ELSE RunnerGoesOn(c)
    /\ UNCHANGED closing /\ RunnerRest

RunnerConnectFails ==
    /\ runner.pc = "connect"
    /\ Fault
    /\ RunnerGoesOn(conn)
    /\ UNCHANGED <<sockets, closing>> /\ RunnerRest

RunnerResubscribes ==
    /\ runner.pc = "resubscribe"
    /\ IF SendRaises(RunnerMarket) THEN UNCHANGED sockets
       ELSE SendSubscribe(RunnerMarket, conn[RunnerMarket].subs)
    /\ RunnerGoesOn(conn)
    /\ UNCHANGED <<closing, faults>> /\ RunnerRest

\* subscribe and unsubscribe while it runs.  A send that raises does so in the
\* caller, after the subscriptions were changed.
ApiCall(m) ==
    /\ main.pc = "run" /\ calls < MaxCalls /\ calls' = calls + 1
    /\ \E streams \in SUBSET AllStreams \ {{}} :
          LET sends == conn[m].connected /\ conn[m].ws # 0 /\ ~SendRaises(m) IN
          \/ /\ conn' = [conn EXCEPT ![m].subs = @ \cup streams]
             /\ IF sends THEN SendSubscribe(m, streams) ELSE UNCHANGED sockets
          \/ /\ conn' = [conn EXCEPT ![m].subs = @ \ streams]
             /\ IF sends THEN SendUnsubscribe(m, streams) ELSE UNCHANGED sockets
    /\ UNCHANGED <<reader, hb, runner, main, closing, faults>>

\* close() from market type i on: it awaits ws.close() of the first that has a
\* socket; after the last, run_forever and its tasks are cancelled.
CloseFrom(i, c) ==
    LET open == {j \in DOMAIN MarketTypes : j >= i /\ c[MarketTypes[j]].ws # 0}
        last == IF open = {} THEN Len(MarketTypes) ELSE Min(open)
    IN /\ conn' = [m \in Markets |->
                      IF \E j \in i..last : MarketTypes[j] = m
                      THEN [c[m] EXCEPT !.connected = FALSE] ELSE c[m]]
       /\ IF open # {}
          THEN /\ main' = [pc |-> "close", at |-> last, sock |-> c[MarketTypes[last]].ws]
               /\ UNCHANGED <<reader, hb, runner>>
          ELSE /\ main' = [main EXCEPT !.pc = "stopped"]
               /\ reader' = [m \in Markets |-> [pc |-> "done", sock |-> 0]]
               /\ hb' = [m \in Markets |-> [pc |-> "done", sock |-> 0]]
               /\ runner' = [runner EXCEPT !.pc = "ended"]

\* The signal, once run_forever has had its first turn (flush_worker.stop()
\* awaits before close() begins).
MainSignalled ==
    /\ main.pc = "run" /\ runner.pc # "start"
    /\ closing' = TRUE
    /\ CloseFrom(1, conn)
    /\ UNCHANGED <<sockets, faults, calls>>

\* ws.close() is over.
MainCloses ==
    /\ main.pc = "close"
    /\ sockets' = [sockets EXCEPT ![MainMarket][main.sock].state = "closed"]
    /\ CloseFrom(main.at + 1, [conn EXCEPT ![MainMarket].ws = 0])
    /\ UNCHANGED <<closing, faults, calls>>

MainStep ==
    \/ MainConnects \/ MainSkips \/ MainSubscribes \/ MainCloses
    \/ RunnerStarts \/ RunnerConnects \/ RunnerResubscribes

-----------------------------------------------------------------------------
(* The network, and the library's keepalive.  A replaced socket that is      *)
(* still open is in nobody's hands any more and left out.                    *)

InUse(m) == {conn[m].ws, reader[m].sock} \ {0}
SocketBecomes(m, s, st) ==
    /\ sockets' = [sockets EXCEPT ![m][s].state = st]
    /\ UNCHANGED <<conn, reader, hb, runner, main, closing, calls>>

Drop(m) ==
    /\ main.pc \notin {"stopped", "failed"}
    /\ \E s \in InUse(m), st \in {"dead", "closed"} :
          State(m, s) = "open" /\ Fault /\ SocketBecomes(m, s, st)

Keepalive(m) ==
    \E s \in InUse(m) :
        State(m, s) = "dead" /\ UNCHANGED faults /\ SocketBecomes(m, s, "closed")

Next ==
    \/ MainStep \/ MainConnectFails \/ RunnerConnectFails \/ MainSignalled
    \/ \E m \in Markets :
          \/ ReaderStep(m) \/ ReaderConnectFails(m)
          \/ HbWakes(m) \/ HbPong(m) \/ HbFails(m)
          \/ ApiCall(m) \/ Drop(m) \/ Keepalive(m)

Spec == Init /\ [][Next]_vars

\* The event loop runs every task that can go on, subscribed streams keep
\* sending, the library closes dead connections.  Faults and the signal are
\* not fair.
FairSpec ==
    /\ Spec /\ WF_vars(MainStep)
    /\ \A m \in Markets :
          WF_vars(ReaderStep(m)) /\ WF_vars(HbStep(m)) /\ WF_vars(Keepalive(m))

-----------------------------------------------------------------------------

\* The reader receives on the socket that subscribe() and the heartbeat use:
\* _reader_loop, _do_connect and _heartbeat_loop never leave it behind on a
\* socket that was replaced.
CurrentSocketOnly ==
    \A m \in Markets : reader[m].pc \in {"recv", "dispatch"} /\ ~closing =>
        reader[m].sock = conn[m].ws

\* No stream is subscribed on a connection that does not send the stream names
\* (the comment in _do_connect says why that would be fatal).
RoutableMessages ==
    \A m \in Markets : \A s \in DOMAIN sockets[m] :
        sockets[m][s].subs # {} => sockets[m][s].combined

\* While the reader waits on a live connection, the server sends exactly the
\* streams of state.subscriptions, whatever was subscribed or unsubscribed
\* before, during or after a reconnect (subscribe, unsubscribe, _do_connect).
SubscriptionsAgree ==
    \A m \in Markets :
        /\ reader[m].pc \in {"recv", "dispatch"} /\ conn[m].connected
        /\ Current(m) = "open"
        => sockets[m][conn[m].ws].subs = conn[m].subs

\* Attempts are counted while there is no connection, and only then
\* (_do_connect resets them, _try_reconnect counts them).
AttemptsCountFailures ==
    \A m \in Markets :
        /\ conn[m].connected => conn[m].attempt = 0
        /\ reader[m].pc = "backoff" /\ ~closing => ~conn[m].connected /\ conn[m].attempt > 0

\* A failed ping takes down only the connection that was pinged, never the one
\* that replaced it (_heartbeat_loop).
HeartbeatBlamesItsSocket ==
    [][\A m \in Markets : HbFails(m) /\ ~closing => hb[m].sock = conn[m].ws]_vars

\* With finitely many failures, every market type with subscriptions is connected,
\* subscribed and read again (_reader_loop, _try_reconnect), until the process is
\* told to stop or failed to start.
Healthy(m) ==
    /\ conn[m].connected /\ Current(m) = "open"
    /\ sockets[m][conn[m].ws].subs = conn[m].subs
    /\ reader[m].pc \in {"recv", "dispatch"}
Recovers ==
    <>[](main.pc \in {"close", "stopped", "failed"}
         \/ \A m \in Markets : conn[m].subs # {} => Healthy(m))

=============================================================================
