------------------------------ MODULE KlinePrefix ------------------------------
(***************************************************************************)
(* What a resumable sync promises of a stream: rows are only ever added,   *)
(* and the recorded position mark stands for a complete prefix, that is,   *)
(* every bar that can be had from the start of the range up to mark has a  *)
(* row.  Failures may make the sync forget the position, never lie about   *)
(* it.                                                                     *)
(***************************************************************************)
EXTENDS Integers

CONSTANTS Bars, RejectedBars, Null

VARIABLES
    stored,  \* the bars that have a row
    from,    \* where the range begins
    mark     \* the recorded position, or Null

vars == <<stored, from, mark>>

Complete(lo, hi) == \A b \in Bars \ RejectedBars : lo <= b /\ b <= hi => b \in stored

Init == stored = {} /\ from = 0 /\ mark = Null

Store == stored \subseteq stored' /\ stored' \subseteq Bars /\ UNCHANGED <<from, mark>>

\* A range that begins anew lies beyond the position, if there is one.
Start == from' \in Nat /\ (mark # Null => mark < from') /\ UNCHANGED <<stored, mark>>

Advance ==
    /\ mark' \in Bars
    /\ mark # Null => mark < mark'
    /\ Complete(from, mark')
    /\ UNCHANGED <<stored, from>>

Forget == mark' = Null /\ UNCHANGED <<stored, from>>

Next == Store \/ Start \/ Advance \/ Forget

Spec == Init /\ [][Next]_vars
=============================================================================
