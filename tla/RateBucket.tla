----------------------------- MODULE RateBucket -----------------------------
(***************************************************************************)
(* What yacul/qos/token_bucket.h promises: a level that rises by Rate with *)
(* every unit of time up to Cap, whoever looks at it and however often,    *)
(* and from which callers take what is there.                              *)
(***************************************************************************)
EXTENDS Integers

CONSTANTS Rate, Cap, Amounts

VARIABLE level

Fill(n) == level' = IF level + n <= Cap THEN level + n ELSE Cap

Init == level = Cap

TimePasses == Fill(Rate)

Take(k) == k <= level /\ level' = level - k

Credit(k) == Fill(k)

Full == level' = Cap

Next == TimePasses \/ Full \/ \E k \in Amounts : Take(k) \/ Credit(k)

Spec == Init /\ [][Next]_level
=============================================================================
