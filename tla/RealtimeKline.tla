----------------------------- MODULE RealtimeKline -----------------------------
(***************************************************************************)
(* ingestion/realtime_kline_handler.py: RealtimeKlineHandler, called by    *)
(* the WebSocket reader of run_realtime_ingest for every kline message of  *)
(* the stream.  Messages come in exchange order; those sent while the      *)
(* connection or the process is down are lost.  The reader awaits the      *)
(* handler, so one message is handled at a time.                           *)
(***************************************************************************)
EXTENDS KlineStore

VARIABLES
    live,  \* the Redis entry (market_type, symbol, "kline", interval)
    rt     \* the handler: where it stands, its bar, the newest closed bar seen

rtVars == <<live, rt>>

RtHandler == [pc : {"idle", "persist", "mark"}, bar : Timestamp, seen : Timestamp]

RtTypeOK ==
    /\ live \in [bar : Timestamp, closed : {"open", "closed", "none"}]
    /\ rt \in RtHandler

RtInit ==
    /\ live = [bar |-> Null, closed |-> "none"]
    /\ rt = [pc |-> "idle", bar |-> Null, seen |-> Null]

RtNew(b) == rt.seen # Null => rt.seen < b

-----------------------------------------------------------------------------

\* A message with x = false: the cache only.
RtOpenMessage(b) ==
    /\ rt.pc = "idle"
    /\ b <= now /\ ~IsClosed(b, now) /\ RtNew(b)
    /\ live' = [bar |-> b, closed |-> "open"]
    /\ UNCHANGED <<storeVars, rt>>

\* A message with x = true, up to the await of upsert_batch; the handler is
\* done when the validator rejects the bar.
RtClosedMessage(b) ==
    /\ rt.pc = "idle"
    /\ IsClosed(b, now) /\ RtNew(b)
    /\ live' = [bar |-> b, closed |-> "closed"]
    /\ rt' = IF b \in RejectedBars
             THEN [rt EXCEPT !.seen = b]
             ELSE [pc |-> "persist", bar |-> b, seen |-> b]
    /\ UNCHANGED storeVars

RtPersist ==
    /\ rt.pc = "persist"
    /\ UpsertBatch({rt.bar}, now)
    /\ rt' = [rt EXCEPT !.pc = "mark"]
    /\ UNCHANGED <<now, faults, checkpoint, base, live>>

\* event is the close timestamp here, the open timestamp everywhere else.
RtMark ==
    /\ rt.pc = "mark"
    /\ UpsertCheckpoint("ok", CloseOf(rt.bar), rt.bar)
    /\ rt' = [rt EXCEPT !.pc = "idle"]
    /\ UNCHANGED <<now, faults, table, base, live>>

\* Mutant: a failed upsert does not end the handler.
MutRtDrop ==
    /\ rt.pc # "idle"
    /\ Fault
    /\ rt' = [rt EXCEPT !.pc = IF rt.pc = "persist" THEN "mark" ELSE "idle"]
    /\ UNCHANGED <<now, table, checkpoint, base, live>>

\* A failed upsert or a failed checkpoint write is logged and swallowed; a
\* crash loses the message too.
RtDrop ==
    /\ rt.pc # "idle"
    /\ Fault
    /\ rt' = [rt EXCEPT !.pc = "idle"]
    /\ UNCHANGED <<now, table, checkpoint, base, live>>

RtStep == RtPersist \/ RtMark
RtMessage == \E b \in Bars : RtOpenMessage(b) \/ RtClosedMessage(b)
RtNext == RtMessage \/ RtStep \/ RtDrop

=============================================================================
