---------------------------- MODULE MCConnectionHub ----------------------------
(* Values of the constants for the run of ConnectionHub. *)
EXTENDS ConnectionHub

CONSTANTS c1, c2, b1, b2, r1, i1

MCClients == {c1, c2}
MCCasts == {b1, b2}
MCRoutes == {r1}
MCIntervals == {i1}

Kline == KlineKey(r1, i1)
Depth == MarketDataKey("marketdata.depth_snapshot", r1)
Ask(action, ts) == [action |-> action, topics |-> ts]

\* A topic, a topic named twice, an invalid one behind a valid one, a number.
MCRequests == {Ask("subscribe", <<Kline>>), Ask("subscribe", <<Depth, Depth>>),
               Ask("subscribe", <<Kline, UnknownTopic>>), Ask("subscribe", <<NotText>>),
               Ask("unsubscribe", <<Kline>>)}
================================================================================
