------------------------------- MODULE Timestamps -------------------------------
(***************************************************************************)
(* Times as inspector/store.py keeps and compares them: the text of          *)
(* isoformat() of a datetime in UTC, and sqlite's comparison of texts.       *)
(*                                                                           *)
(* isoformat writes the fraction only if the microseconds are not 0:         *)
(*   2026-07-23T08:00:00+00:00       2026-07-23T08:00:00.000001+00:00        *)
(* The date, the time of day and the fraction have fixed widths, so that the *)
(* text order of each is its order as a number: a text is the sequence of    *)
(* the number of its second, counted from any day, the character after it,   *)
(* and, if that is a point, the microseconds and the character after them.   *)
(***************************************************************************)
EXTENDS Integers, Sequences

Million == 1000000

Time == [second : Int, micro : {m \in Nat : m < Million}]

\* The characters' codes.
Plus == 43
Point == 46
Zed == 90

\* A variant with a bug: the offset is written as Z.
IsoformatWithZ(t) ==
  IF t.micro = 0 THEN <<t.second, Zed>> ELSE <<t.second, Point, t.micro, Zed>>

Isoformat(t) ==
  IF t.micro = 0 THEN <<t.second, Plus>> ELSE <<t.second, Point, t.micro, Plus>>

\* a <= b for two texts: b goes on where a ends, or the first difference decides.
TextAtMost(a, b) ==
  \/ /\ Len(a) <= Len(b)
     /\ \A i \in 1 .. Len(a) : a[i] = b[i]
  \/ \E i \in 1 .. Len(a) :
       /\ i <= Len(b)
       /\ a[i] < b[i]
       /\ \A j \in 1 .. i - 1 : a[j] = b[j]

\* next_retry_at <= now in dequeue_pending_webhooks.
IsDue(nextRetryAt, now) == TextAtMost(Isoformat(nextRetryAt), Isoformat(now))

\* timestamp < cutoff in cleanup_metrics, and what ORDER BY goes by.
IsBefore(s, t) == ~TextAtMost(Isoformat(t), Isoformat(s))

At(microseconds) ==
  [second |-> microseconds \div Million, micro |-> microseconds % Million]

=============================================================================
