------------------------------ MODULE RateLimiter ------------------------------
(***************************************************************************)
(* adapters/rate_limiter.py and the adapters that use it, against the       *)
(* budget that Binance keeps.  Each process has a limiter of its own, with  *)
(* a window that begins when the process does, and makes one request at a   *)
(* time; Binance counts the requests of all of them in one minute of its    *)
(* own and reports the count with every answer.                             *)
(*                                                                         *)
(* Time is counted in ticks, and clocks are kept as ages that stop at the   *)
(* value beyond which the code makes no difference.  The backoff is left    *)
(* out: nothing in the program calls on_rate_limited.                       *)
(***************************************************************************)
EXTENDS Naturals, FiniteSets

CONSTANTS Processes,
          Minute,       \* ticks of the window
          MinInterval,  \* ticks of min_request_interval_ms
          MaxWeight,    \* the weight per minute of the configuration
          Heaviest,     \* the most that Binance charges for a request
          MaxFaults     \* bound: answers that are lost or carry no count

ASSUME RateAssumption ==
    /\ IsFiniteSet(Processes) /\ Heaviest \in Nat \ {0}
    /\ Minute \in Nat \ {0} /\ MinInterval \in 0..Minute
    /\ MaxWeight \in Nat \ {0} /\ MaxFaults \in Nat

VARIABLES
    limiter,   \* of each process: its counter, the ages of its window and of the
               \* last grant, and where the coroutine in acquire or _request stands
    charged,   \* Binance: the weight used in the current minute
    minute,    \* how far that minute has got
    faults

vars == <<limiter, charged, minute, faults>>

\* acquire counts every request as 1.
Weight == 1

Fresh == [pc |-> "idle", used |-> 0, window |-> 0, last |-> MinInterval, wait |-> 0,
          header |-> 0]

Init ==
    /\ limiter = [p \in Processes |-> Fresh]
    /\ charged = 0 /\ minute = 0 /\ faults = 0

-----------------------------------------------------------------------------
\* Mutant: the age of a window never exceeds a minute, and has to.
MutReset(l) == IF l.window > Minute THEN [l EXCEPT !.window = 0, !.used = 0] ELSE l

\* _maybe_reset_window
Reset(l) == IF l.window = Minute THEN [l EXCEPT !.window = 0, !.used = 0] ELSE l

\* One round of the loop of acquire, under the lock: the request is granted, or the
\* coroutine sleeps to the end of the window.
Try(l) ==
    IF l.used + Weight > MaxWeight
    THEN [l EXCEPT !.pc = "asleep", !.wait = Minute - l.window]
    ELSE [l EXCEPT !.pc = "granted", !.used = @ + Weight,
                   !.wait = MinInterval - l.last, !.last = 0]

acquire(p) ==
    /\ \/ limiter[p].pc = "idle"
       \/ limiter[p].pc = "asleep" /\ limiter[p].wait = 0
    /\ limiter' = [limiter EXCEPT ![p] = Try(Reset(limiter[p]))]
    /\ UNCHANGED <<charged, minute, faults>>

\* The minimum interval has been slept; the request reaches Binance, which charges it
\* and answers with the weight used so far.
send(p) ==
    /\ limiter[p].pc = "granted" /\ limiter[p].wait = 0
    /\ \E w \in 1..Heaviest :
          /\ charged' = charged + w
          /\ limiter' = [limiter EXCEPT ![p].pc = "sent", ![p].header = charged + w]
    /\ UNCHANGED <<minute, faults>>

\* Mutant: the header is not read.
MutCalibrate(p) ==
    /\ limiter[p].pc = "sent"
    /\ limiter' = [limiter EXCEPT ![p].pc = "idle", ![p].header = 0]
    /\ UNCHANGED <<charged, minute, faults>>

\* _calibrate_from_headers, then the result or the status goes to the caller.
calibrate(p) ==
    /\ limiter[p].pc = "sent"
    /\ limiter' = [limiter EXCEPT ![p].pc = "idle", ![p].used = limiter[p].header,
                                  ![p].header = 0]
    /\ UNCHANGED <<charged, minute, faults>>

\* A timeout, or an answer without the header: the counter stays as it is.
LoseAnswer(p) ==
    /\ limiter[p].pc = "sent"
    /\ faults < MaxFaults /\ faults' = faults + 1
    /\ limiter' = [limiter EXCEPT ![p].pc = "idle", ![p].header = 0]
    /\ UNCHANGED <<charged, minute>>

Older(age, top) == IF age < top THEN age + 1 ELSE top
Tick ==
    /\ minute' = (minute + 1) % Minute
    /\ charged' = IF minute' = 0 THEN 0 ELSE charged
    /\ limiter' = [p \in Processes |->
          [limiter[p] EXCEPT !.window = Older(@, Minute), !.last = Older(@, MinInterval),
                             !.wait = IF @ = 0 THEN 0 ELSE @ - 1]]
    /\ UNCHANGED faults

Next == \/ \E p \in Processes : acquire(p) \/ send(p) \/ calibrate(p) \/ LoseAnswer(p)
        \/ Tick

Spec == Init /\ [][Next]_vars

\* Time passes, a sleep that is over ends, and a request is answered or times out.
FairSpec == /\ Spec /\ WF_vars(Tick)
            /\ \A p \in Processes : /\ WF_vars(limiter[p].pc = "asleep" /\ acquire(p))
                                    /\ WF_vars(send(p))
                                    /\ WF_vars(calibrate(p) \/ LoseAnswer(p))

-----------------------------------------------------------------------------
(* Properties.                                                                *)

\* In no minute is more charged than the budget and what the limiters cannot see:
\* for each process a request that is granted on a count that is out of date, one
\* that its window's reset allows within the same minute, and the requests whose
\* answers were lost.
OvershootBounded ==
    charged <= (MaxWeight - 1) + Heaviest * (2 * Cardinality(Processes) + faults)

\* A request that sleeps because the budget is used up is made in the end, whatever
\* the other processes use meanwhile.
EveryRequestIsMade ==
    \A p \in Processes : limiter[p].pc \in {"asleep", "granted"} ~> limiter[p].pc = "sent"
================================================================================
