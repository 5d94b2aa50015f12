--------------------------- MODULE RateLimiterProofs ---------------------------
(***************************************************************************)
(* Proof that the processes pass the budget by no more than what they      *)
(* cannot see.  Once the budget is used up in a minute, a process can send *)
(* another request on one of two credits: its counter is out of date, or   *)
(* its window may still be reset within the minute.  A request that is     *)
(* sent uses up the first, since its answer carries the count; a reset     *)
(* turns the second into the first; and only a lost answer gives one back. *)
(***************************************************************************)
EXTENDS RateLimiter, FiniteSetTheorems, TLAPS

USE RateAssumption

-----------------------------------------------------------------------------
(* The inductive invariant.                                                *)

Limiter == [pc : {"idle", "asleep", "granted", "sent"}, used : Nat, window : 0..Minute,
            last : 0..MinInterval, wait : Nat, header : Nat]

RateTypeOK ==
    /\ limiter \in [Processes -> Limiter]
    /\ charged \in Nat /\ minute \in 0..(Minute - 1) /\ faults \in Nat

\* l may be granted a request, or has been, on a counter below the budget.
Unaware(l) ==
    \/ l.pc = "granted"
    \/ l.pc = "sent" /\ l.header < MaxWeight
    \/ l.pc \in {"idle", "asleep"} /\ l.used < MaxWeight

\* l's window will have lasted a minute before Binance's minute is over.
ResetAhead(l, t) == l.window > t

StaleCounts == {p \in Processes : Unaware(limiter[p])}
Resets == {p \in Processes : ResetAhead(limiter[p], minute)}
Credits == Cardinality(StaleCounts) + Cardinality(Resets)

\* Whatever can still be sent in this minute stays within the bound.
RoomIsLeft ==
    charged >= MaxWeight =>
        charged + Heaviest * Credits
            <= (MaxWeight - 1) + Heaviest * (2 * Cardinality(Processes) + faults)

RateInv == RateTypeOK /\ RoomIsLeft

-----------------------------------------------------------------------------
(* Counting credits.                                                       *)

LEMMA Counts ==
    ASSUME NEW S \in SUBSET Processes
    PROVE  /\ IsFiniteSet(S) /\ Cardinality(S) \in Nat
           /\ Cardinality(S) <= Cardinality(Processes)
           /\ Cardinality(Processes) \in Nat
BY FS_Subset, FS_CardinalityType

LEMMA CountsLess ==
    ASSUME NEW S \in SUBSET Processes, NEW p \in S, NEW T \in SUBSET S, p \notin T
    PROVE  Cardinality(T) <= Cardinality(S) - 1
<1>1. IsFiniteSet(S \ {p}) /\ Cardinality(S \ {p}) = Cardinality(S) - 1
  BY Counts, FS_RemoveElement
<1>2. T \subseteq S \ {p}
  OBVIOUS
<1> QED
  BY <1>1, <1>2, FS_Subset

LEMMA CountsMore ==
    ASSUME NEW S \in SUBSET Processes, NEW p, NEW T \in SUBSET (S \cup {p})
    PROVE  Cardinality(T) <= Cardinality(S) + 1
<1>1. IsFiniteSet(S \cup {p}) /\ Cardinality(S \cup {p}) <= Cardinality(S) + 1
  <2>1. IsFiniteSet(S) /\ Cardinality(S) \in Nat
    BY Counts
  <2>2. CASE p \in S
    <3>1. S \cup {p} = S
      BY <2>2
    <3> QED
      BY <2>1, <3>1
  <2>3. CASE p \notin S
    <3>1. IsFiniteSet(S \cup {p}) /\ Cardinality(S \cup {p}) = Cardinality(S) + 1
      BY <2>1, <2>3, FS_AddElement, Zenon
    <3> QED
      BY <2>1, <3>1
  <2> QED
    BY <2>2, <2>3
<1> QED
  BY <1>1, Counts, FS_Subset, FS_CardinalityType

LEMMA CreditsType ==
    /\ StaleCounts \in SUBSET Processes /\ Resets \in SUBSET Processes
    /\ Cardinality(StaleCounts) \in Nat /\ Cardinality(Resets) \in Nat
    /\ Credits \in Nat /\ Cardinality(Processes) \in Nat
<1>1. StaleCounts \in SUBSET Processes /\ Resets \in SUBSET Processes
  BY DEF StaleCounts, Resets
<1> QED
  BY <1>1, Counts DEF Credits

\* The same one step later.
LEMMA CreditsTypePrime ==
    /\ StaleCounts' \in SUBSET Processes /\ Resets' \in SUBSET Processes
    /\ Cardinality(StaleCounts') \in Nat /\ Cardinality(Resets') \in Nat
    /\ Credits' = Cardinality(StaleCounts') + Cardinality(Resets')
    /\ Credits' \in Nat
<1>1. StaleCounts' \in SUBSET Processes /\ Resets' \in SUBSET Processes
  BY DEF StaleCounts, Resets
<1> QED
  BY <1>1, Counts DEF Credits

\* The products by the heaviest request, of which the provers need the following.
LEMMA Distributes ==
    ASSUME NEW h \in Nat, NEW x \in Int, NEW y \in Int
    PROVE  h * (x + y) = h * x + h * y /\ h * x \in Int
OBVIOUS

LEMMA Scales ==
    ASSUME NEW h \in Nat, NEW x \in Int, NEW y \in Int, x <= y
    PROVE  h * x <= h * y
<1>1. y - x \in Nat
  OBVIOUS
<1>2. h * (y - x) \in Nat
  BY <1>1
<1>3. h * (x + (y - x)) = h * x + h * (y - x)
  BY <1>1, Distributes
<1>4. x + (y - x) = y /\ h * x \in Int
  OBVIOUS
<1> QED
  BY <1>2, <1>3, <1>4

\* The bound for a minute in which a has been charged and c credits are left, after
\* credits are used and faults happened.
LEMMA RoomAfterFaults ==
    ASSUME NEW h \in Nat, NEW m \in Nat, NEW n \in Nat,
           NEW a \in Nat, NEW c \in Nat, NEW f \in Nat, NEW d \in Nat, NEW g \in Nat,
           a + h * c <= m + h * (n + f), d + f <= c + g
    PROVE  a + h * d <= m + h * (n + g)
<1>1. h * (n + f) = h * n + h * f /\ h * (n + g) = h * n + h * g
  BY Distributes
<1>2. h * c \in Int /\ h * d \in Int /\ h * f \in Int /\ h * g \in Int /\ h * n \in Int
  BY Distributes
<1>3. h * (d + f) <= h * (c + g)
  BY Scales
<1>4. h * (d + f) = h * d + h * f /\ h * (c + g) = h * c + h * g
  BY Distributes
<1> QED
  BY <1>1, <1>2, <1>3, <1>4

\* The same after w more has been charged, on a credit.
LEMMA RoomAfterRequest ==
    ASSUME NEW h \in Nat, NEW w \in 0..h, NEW a \in Nat, NEW bound \in Int,
           NEW c \in Nat, NEW d \in Nat,
           a + h * c <= bound, d <= c - 1
    PROVE  (a + w) + h * d <= bound
<1>1. h * (d + 1) <= h * c
  BY Scales
<1>2. h * (d + 1) = h * d + h * 1 /\ h * 1 = h
  BY Distributes
<1>3. h * c \in Int /\ h * d \in Int
  BY Distributes
<1> QED
  BY <1>1, <1>2, <1>3

\* Fewer credits, or one more for a fault, leave the bound as it was.
LEMMA RoomStays ==
    ASSUME RateInv, RateTypeOK', charged' = charged,
           Credits' + faults <= Credits + faults'
    PROVE  RoomIsLeft'
<1> DEFINE N == 2 * Cardinality(Processes)
<1>1. Credits \in Nat /\ Credits' \in Nat /\ N \in Nat /\ faults \in Nat /\ faults' \in Nat
      /\ Heaviest \in Nat /\ charged \in Nat /\ MaxWeight - 1 \in Nat
  BY CreditsType, CreditsTypePrime DEF RateInv, RateTypeOK
<1>2. CASE charged >= MaxWeight
  <2>1. charged + Heaviest * Credits <= (MaxWeight - 1) + Heaviest * (N + faults)
    BY <1>2 DEF RateInv, RoomIsLeft
  <2> HIDE DEF N
  <2>2. charged + Heaviest * Credits' <= (MaxWeight - 1) + Heaviest * (N + faults')
    BY <1>1, <2>1, RoomAfterFaults
  <2> QED
    BY <2>2 DEF RoomIsLeft, N
<1>3. CASE ~(charged >= MaxWeight)
  BY <1>3 DEF RoomIsLeft
<1> QED
  BY <1>2, <1>3

-----------------------------------------------------------------------------
(* The actions.                                                            *)

\* What a step that replaces p's limiter does to the sets.
LEMMA OthersSame ==
    ASSUME RateTypeOK, NEW p \in Processes, NEW l, limiter' = [limiter EXCEPT ![p] = l],
           minute' = minute
    PROVE  /\ limiter'[p] = l
           /\ \A q \in Processes \ {p} : limiter'[q] = limiter[q]
           /\ StaleCounts' \ {p} = StaleCounts \ {p} /\ Resets' \ {p} = Resets \ {p}
           /\ p \in StaleCounts' <=> Unaware(l)
           /\ p \in Resets' <=> ResetAhead(l, minute)
<1>1. limiter'[p] = l /\ \A q \in Processes \ {p} : limiter'[q] = limiter[q]
  BY DEF RateTypeOK
<1>2. ASSUME NEW q \in Processes \ {p}
      PROVE  (q \in StaleCounts' <=> q \in StaleCounts) /\ (q \in Resets' <=> q \in Resets)
  BY <1>1 DEF StaleCounts, Resets
<1>3. StaleCounts \subseteq Processes /\ Resets \subseteq Processes
      /\ StaleCounts' \subseteq Processes /\ Resets' \subseteq Processes
  BY DEF StaleCounts, Resets
<1>4. StaleCounts' \ {p} = StaleCounts \ {p} /\ Resets' \ {p} = Resets \ {p}
  BY <1>2, <1>3
<1>5. (p \in StaleCounts' <=> Unaware(l)) /\ (p \in Resets' <=> ResetAhead(l, minute))
  BY <1>1 DEF StaleCounts, Resets
<1> QED
  BY <1>1, <1>4, <1>5

LEMMA ResetType == ASSUME NEW l \in Limiter PROVE Reset(l) \in Limiter
<1>1. 0 \in 0..Minute /\ 0 \in Nat
  OBVIOUS
<1>2. [l EXCEPT !.window = 0, !.used = 0] \in Limiter
  BY <1>1 DEF Limiter
<1> QED
  BY <1>2 DEF Reset

LEMMA TryType == ASSUME NEW l \in Limiter PROVE Try(l) \in Limiter
<1>1. l.window \in 0..Minute /\ l.last \in 0..MinInterval /\ l.used \in Nat
  BY DEF Limiter
<1>2. Minute - l.window \in Nat /\ MinInterval - l.last \in Nat /\ l.used + Weight \in Nat
      /\ 0 \in 0..MinInterval
  BY <1>1 DEF Weight
<1> QED
  BY <1>2 DEF Try, Limiter

LEMMA AcquireInv == ASSUME RateInv, NEW p \in Processes, acquire(p) PROVE RateInv'
<1> DEFINE l == limiter[p]
           r == Reset(l)
           n == Try(r)
<1>1. l \in Limiter /\ r \in Limiter /\ n \in Limiter
  BY ResetType, TryType DEF RateInv, RateTypeOK
<1>2. /\ limiter' = [limiter EXCEPT ![p] = n]
      /\ l.pc \in {"idle", "asleep"} /\ UNCHANGED <<charged, minute, faults>>
  BY DEF acquire
<1>3. RateTypeOK'
  BY <1>1, <1>2 DEF RateInv, RateTypeOK
<1>4. /\ StaleCounts' \ {p} = StaleCounts \ {p} /\ Resets' \ {p} = Resets \ {p}
      /\ p \in StaleCounts' <=> Unaware(n)
      /\ p \in Resets' <=> ResetAhead(n, minute)
  BY <1>2, OthersSame DEF RateInv
<1>5. n.window = r.window /\ (Unaware(n) => r.used < MaxWeight)
  <2>1. CASE r.used + Weight > MaxWeight
    BY <1>1, <2>1 DEF Try, Limiter, Unaware, Weight
  <2>2. CASE ~(r.used + Weight > MaxWeight)
    BY <1>1, <2>2 DEF Try, Limiter, Unaware, Weight
  <2> QED
    BY <2>1, <2>2
<1>6. CASE l.window = Minute
  <2>1. r.window = 0
    BY <1>1, <1>6 DEF Reset, Limiter
  <2>2. p \in Resets /\ p \notin Resets' /\ Resets' \subseteq Resets
    BY <1>4, <1>5, <1>6, <2>1 DEF Resets, ResetAhead, RateInv, RateTypeOK
  <2>3. StaleCounts' \subseteq StaleCounts \cup {p}
    BY <1>4
  <2>4. Cardinality(Resets') <= Cardinality(Resets) - 1
    BY <2>2, CreditsType, CountsLess
  <2>5. Cardinality(StaleCounts') <= Cardinality(StaleCounts) + 1
    BY <2>3, CreditsType, CountsMore
  <2>6. Credits' <= Credits
    BY <2>4, <2>5, CreditsType, CreditsTypePrime DEF Credits
  <2>7. faults \in Nat
    BY DEF RateInv, RateTypeOK
  <2>8. Credits' + faults <= Credits + faults'
    BY <1>2, <2>6, <2>7, CreditsType, CreditsTypePrime
  <2> QED
    BY <1>2, <1>3, <2>8, RoomStays DEF RateInv
<1>7. CASE l.window # Minute
  <2>1. r = l
    BY <1>7 DEF Reset
  <2>2. Resets' \subseteq Resets
    BY <1>4, <1>5, <2>1 DEF Resets, ResetAhead
  <2>3. p \in StaleCounts' => p \in StaleCounts
    BY <1>2, <1>4, <1>5, <2>1 DEF StaleCounts, Unaware
  <2>4. StaleCounts' \subseteq StaleCounts
    BY <1>4, <2>3
  <2>5. Cardinality(Resets') <= Cardinality(Resets)
        /\ Cardinality(StaleCounts') <= Cardinality(StaleCounts)
    BY <2>2, <2>4, CreditsType, Counts, FS_Subset
  <2>6. faults \in Nat
    BY DEF RateInv, RateTypeOK
  <2>7. Credits' + faults <= Credits + faults'
    BY <1>2, <2>5, <2>6, CreditsType, CreditsTypePrime DEF Credits
  <2> QED
    BY <1>2, <1>3, <2>7, RoomStays DEF RateInv
<1> QED
  BY <1>6, <1>7

LEMMA SendInv == ASSUME RateInv, NEW p \in Processes, send(p) PROVE RateInv'
<1> DEFINE l == limiter[p]
           N == 2 * Cardinality(Processes)
<1>1. PICK w \in 1..Heaviest :
          /\ charged' = charged + w
          /\ limiter' = [limiter EXCEPT ![p].pc = "sent", ![p].header = charged + w]
  BY DEF send
<1> DEFINE n == [l EXCEPT !.pc = "sent", !.header = charged + w]
<1>2. l \in Limiter /\ l.pc = "granted" /\ UNCHANGED <<minute, faults>>
      /\ charged \in Nat /\ charged + w \in Nat /\ faults \in Nat
  BY DEF send, RateInv, RateTypeOK
<1>3. limiter' = [limiter EXCEPT ![p] = n]
  BY <1>1 DEF RateInv, RateTypeOK
<1>4. n \in Limiter /\ n.pc = "sent" /\ n.header = charged + w /\ n.window = l.window
  BY <1>2 DEF Limiter
<1>5. RateTypeOK'
  BY <1>1, <1>2, <1>3, <1>4 DEF RateInv, RateTypeOK
<1>6. /\ StaleCounts' \ {p} = StaleCounts \ {p} /\ Resets' \ {p} = Resets \ {p}
      /\ p \in StaleCounts' <=> Unaware(n)
      /\ p \in Resets' <=> ResetAhead(n, minute)
  <2> HIDE DEF n
  <2> QED
    BY <1>2, <1>3, OthersSame DEF RateInv
<1>7. CASE charged' >= MaxWeight
  <2>1. ~Unaware(n)
    BY <1>1, <1>2, <1>4, <1>7 DEF Unaware
  <2>2. p \in StaleCounts /\ p \notin StaleCounts' /\ StaleCounts' \subseteq StaleCounts
    BY <1>2, <1>6, <2>1 DEF StaleCounts, Unaware
  <2>3. Resets' \subseteq Resets
    BY <1>4, <1>6 DEF Resets, ResetAhead
  <2>4. Cardinality(StaleCounts') <= Cardinality(StaleCounts) - 1
    BY <2>2, CreditsType, CountsLess
  <2>5. Cardinality(Resets') <= Cardinality(Resets)
    BY <2>3, CreditsType, Counts, FS_Subset
  <2>6. Credits' <= Credits - 1
    BY <2>4, <2>5, CreditsType, CreditsTypePrime DEF Credits
  <2>7. /\ Credits \in Nat /\ Credits' \in Nat /\ N \in Nat /\ Heaviest \in Nat
        /\ w \in 0..Heaviest /\ MaxWeight - 1 \in Nat /\ Credits <= N
    BY CreditsType, CreditsTypePrime, Counts DEF Credits
  <2> HIDE DEF N
  <2> DEFINE Bound == (MaxWeight - 1) + Heaviest * (N + faults)
  <2>8. /\ Heaviest * Credits <= Heaviest * (N + faults)
        /\ Heaviest * Credits \in Int /\ Heaviest * (N + faults) \in Int
    <3>1. Credits \in Int /\ N + faults \in Int /\ Credits <= N + faults
      BY <1>2, <2>7
    <3> QED
      BY <2>7, <3>1, Scales, Distributes
  <2>9. Bound \in Int
    BY <2>7, <2>8
  <2>10. (charged + w) + Heaviest * Credits' <= Bound
    <3>1. CASE charged >= MaxWeight
      <4>1. charged + Heaviest * Credits <= Bound
        BY <3>1 DEF RateInv, RoomIsLeft, N
      <4> HIDE DEF Bound
      <4> QED
        BY <1>2, <2>6, <2>7, <2>9, <4>1, RoomAfterRequest
    <3>2. CASE ~(charged >= MaxWeight)
      <4>1. charged + Heaviest * Credits <= Bound
        BY <1>2, <2>7, <2>8, <3>2
      <4> HIDE DEF Bound
      <4> QED
        BY <1>2, <2>6, <2>7, <2>9, <4>1, RoomAfterRequest
    <3> QED
      BY <3>1, <3>2
  <2> QED
    BY <1>1, <1>2, <1>5, <2>10 DEF RateInv, RoomIsLeft, N
<1>8. CASE ~(charged' >= MaxWeight)
  BY <1>5, <1>8 DEF RateInv, RoomIsLeft
<1> QED
  BY <1>7, <1>8

\* The answer: the counter becomes what the header says.
LEMMA CalibrateInv == ASSUME RateInv, NEW p \in Processes, calibrate(p) PROVE RateInv'
<1> DEFINE l == limiter[p]
           n == [l EXCEPT !.pc = "idle", !.used = l.header, !.header = 0]
<1>1. l \in Limiter /\ l.pc = "sent" /\ UNCHANGED <<charged, minute, faults>> /\ faults \in Nat
  BY DEF calibrate, RateInv, RateTypeOK
<1>2. limiter' = [limiter EXCEPT ![p] = n]
  BY DEF calibrate, RateInv, RateTypeOK
<1>3. n \in Limiter /\ n.pc = "idle" /\ n.used = l.header /\ n.window = l.window
  BY <1>1 DEF Limiter
<1>4. RateTypeOK'
  BY <1>1, <1>2, <1>3 DEF RateInv, RateTypeOK
<1>5. /\ StaleCounts' \ {p} = StaleCounts \ {p} /\ Resets' \ {p} = Resets \ {p}
      /\ p \in StaleCounts' <=> Unaware(n)
      /\ p \in Resets' <=> ResetAhead(n, minute)
  <2> HIDE DEF n
  <2> QED
    BY <1>1, <1>2, OthersSame DEF RateInv
<1>6. StaleCounts' \subseteq StaleCounts /\ Resets' \subseteq Resets
  BY <1>1, <1>3, <1>5 DEF StaleCounts, Resets, Unaware, ResetAhead
<1>7. Cardinality(Resets') <= Cardinality(Resets)
      /\ Cardinality(StaleCounts') <= Cardinality(StaleCounts)
  BY <1>6, CreditsType, Counts, FS_Subset
<1>8. Credits' + faults <= Credits + faults'
  BY <1>1, <1>7, CreditsType, CreditsTypePrime DEF Credits
<1> QED
  BY <1>1, <1>4, <1>8, RoomStays DEF RateInv

\* A lost answer costs a fault and leaves at most this process unaware.
LEMMA LoseAnswerInv == ASSUME RateInv, NEW p \in Processes, LoseAnswer(p) PROVE RateInv'
<1> DEFINE l == limiter[p]
           n == [l EXCEPT !.pc = "idle", !.header = 0]
<1>1. l \in Limiter /\ faults' = faults + 1 /\ UNCHANGED <<charged, minute>> /\ faults \in Nat
  BY DEF LoseAnswer, RateInv, RateTypeOK
<1>2. limiter' = [limiter EXCEPT ![p] = n]
  BY DEF LoseAnswer, RateInv, RateTypeOK
<1>3. n \in Limiter /\ n.window = l.window
  BY <1>1 DEF Limiter
<1>4. RateTypeOK'
  BY <1>1, <1>2, <1>3 DEF RateInv, RateTypeOK
<1>5. /\ StaleCounts' \ {p} = StaleCounts \ {p} /\ Resets' \ {p} = Resets \ {p}
      /\ p \in Resets' <=> ResetAhead(n, minute)
  <2> HIDE DEF n
  <2> QED
    BY <1>1, <1>2, OthersSame DEF RateInv
<1>6. StaleCounts' \subseteq StaleCounts \cup {p} /\ Resets' \subseteq Resets
  BY <1>3, <1>5 DEF Resets, ResetAhead
<1>7. Cardinality(Resets') <= Cardinality(Resets)
  BY <1>6, CreditsType, Counts, FS_Subset
<1>8. Cardinality(StaleCounts') <= Cardinality(StaleCounts) + 1
  BY <1>6, CreditsType, CountsMore
<1>9. Credits' + faults <= Credits + faults'
  BY <1>1, <1>7, <1>8, CreditsType, CreditsTypePrime DEF Credits
<1> QED
  BY <1>1, <1>4, <1>9, RoomStays DEF RateInv

\* Time passes: the count starts anew, or every window that will be reset within
\* the minute would have been a tick ago.
LEMMA TickInv == RateInv /\ Tick => RateInv'
<1> SUFFICES ASSUME RateInv, Tick PROVE RateInv'
  OBVIOUS
<1>1. /\ limiter \in [Processes -> Limiter] /\ faults \in Nat /\ faults' = faults
      /\ charged \in Nat /\ minute \in 0..(Minute - 1) /\ minute' = (minute + 1) % Minute
  BY DEF RateInv, RateTypeOK, Tick
<1>2. minute' \in 0..(Minute - 1) /\ (minute' = 0 \/ minute' = minute + 1)
  BY <1>1
<1>3. charged' = IF minute' = 0 THEN 0 ELSE charged
  BY DEF Tick
<1> DEFINE n(p) == [limiter[p] EXCEPT !.window = Older(limiter[p].window, Minute),
                                      !.last = Older(limiter[p].last, MinInterval),
                                      !.wait = IF limiter[p].wait = 0 THEN 0
                                               ELSE limiter[p].wait - 1]
<1>4. limiter' = [p \in Processes |-> n(p)]
  BY DEF Tick
<1>5. ASSUME NEW p \in Processes
      PROVE  /\ limiter'[p] \in Limiter
             /\ limiter'[p].window = Older(limiter[p].window, Minute)
             /\ limiter'[p].pc = limiter[p].pc /\ limiter'[p].used = limiter[p].used
             /\ limiter'[p].header = limiter[p].header
  <2> DEFINE l == limiter[p]
  <2>1. l \in Limiter
    BY <1>1
  <2>2. Older(l.window, Minute) \in 0..Minute /\ Older(l.last, MinInterval) \in 0..MinInterval
        /\ (IF l.wait = 0 THEN 0 ELSE l.wait - 1) \in Nat
    BY <2>1 DEF Limiter, Older
  <2>3. limiter'[p] = n(p)
    BY <1>4
  <2>4. n(p) \in Limiter
    BY <2>1, <2>2 DEF Limiter
  <2>5. /\ n(p).window = Older(l.window, Minute) /\ n(p).pc = l.pc
        /\ n(p).used = l.used /\ n(p).header = l.header
    BY <2>1 DEF Limiter
  <2> QED
    BY <2>3, <2>4, <2>5
<1>6. RateTypeOK'
  <2>1. limiter' \in [Processes -> Limiter]
    BY <1>4, <1>5
  <2>2. charged' \in Nat
    BY <1>1 DEF Tick
  <2> QED
    BY <1>1, <1>2, <2>1, <2>2 DEF RateTypeOK
<1>7. CASE minute' = 0
  <2>1. charged' = 0 /\ ~(charged' >= MaxWeight)
    BY <1>7, <1>3
  <2> QED
    BY <1>6, <2>1 DEF RateInv, RoomIsLeft
<1>8. CASE minute' = minute + 1
  <2>1. charged' = charged
    BY <1>1, <1>8, <1>3
  <2>2. StaleCounts' = StaleCounts
    BY <1>5 DEF StaleCounts, Unaware
  <2>3. ASSUME NEW p \in Processes, ResetAhead(limiter'[p], minute')
        PROVE  ResetAhead(limiter[p], minute)
    <3>1. limiter[p].window \in 0..Minute
      BY <1>1 DEF Limiter
    <3>2. Older(limiter[p].window, Minute) > minute + 1
      BY <1>5, <1>8, <2>3 DEF ResetAhead
    <3> QED
      BY <1>1, <3>1, <3>2 DEF Older, ResetAhead
  <2>4. Resets' \subseteq Resets
    BY <2>3 DEF Resets
  <2>5. Cardinality(Resets') <= Cardinality(Resets)
    BY <2>4, CreditsType, Counts, FS_Subset
  <2>6. Credits' + faults <= Credits + faults'
    BY <1>1, <2>2, <2>5, CreditsType, CreditsTypePrime DEF Credits
  <2> QED
    BY <1>6, <2>1, <2>6, RoomStays DEF RateInv
<1> QED
  BY <1>2, <1>7, <1>8

-----------------------------------------------------------------------------
(* The theorems.                                                           *)

LEMMA InitInv == Init => RateInv
<1> SUFFICES ASSUME Init PROVE RateInv
  OBVIOUS
<1>1. 0 \in 0..Minute /\ MinInterval \in 0..MinInterval /\ 0 \in 0..(Minute - 1) /\ 0 \in Nat
      /\ ~(0 >= MaxWeight)
  OBVIOUS
<1>2. Fresh \in Limiter
  BY <1>1 DEF Fresh, Limiter
<1>3. RateTypeOK
  BY <1>1, <1>2 DEF Init, RateTypeOK
<1>4. RoomIsLeft
  BY <1>1 DEF Init, RoomIsLeft
<1> QED
  BY <1>3, <1>4 DEF RateInv

\* The inductive invariant: in the rest of a minute whose budget is used up, the
\* processes have no more credits than the bound has room for.
THEOREM RateInvariant == Spec => []RateInv
<1>1. RateInv /\ [Next]_vars => RateInv'
  <2>1. ASSUME RateInv, UNCHANGED vars PROVE RateInv'
    <3>1. RateTypeOK' /\ StaleCounts' = StaleCounts /\ Resets' = Resets
      BY <2>1 DEF vars, RateInv, RateTypeOK, StaleCounts, Resets
    <3>2. RoomIsLeft'
      BY <2>1, <3>1 DEF vars, RateInv, RoomIsLeft, Credits
    <3> QED
      BY <3>1, <3>2 DEF RateInv
  <2>2. RateInv /\ Next => RateInv'
    BY AcquireInv, SendInv, CalibrateInv, LoseAnswerInv, TickInv DEF Next
  <2> QED
    BY <2>1, <2>2
<1> QED
  BY <1>1, InitInv, PTL DEF Spec

\* The budget is passed by at most two of the heaviest requests per process and one
\* per lost answer, however the windows lie in Binance's minute.
THEOREM BudgetOvershoot == Spec => []OvershootBounded
<1>1. RateInv => OvershootBounded
  <2> SUFFICES ASSUME RateInv PROVE OvershootBounded
    OBVIOUS
  <2> DEFINE N == Cardinality(Processes)
  <2>1. Credits \in Nat /\ N \in Nat /\ faults \in Nat /\ charged \in Nat
    BY CreditsType DEF RateInv, RateTypeOK
  <2>2. Heaviest * Credits \in Nat /\ Heaviest * (2 * N + faults) \in Nat
    BY <2>1
  <2> QED
    BY <2>1, <2>2 DEF RateInv, RoomIsLeft, OvershootBounded
<1> QED
  BY <1>1, RateInvariant, PTL
================================================================================
