----------------------------- MODULE MCSessions -----------------------------
(***************************************************************************)
(* Two tabs of one browser; one has two calls under way at once.           *)
(***************************************************************************)
EXTENDS Sessions

CONSTANTS t1, t2, a, b, c
TwoTabs    == {t1, t2}
ThreeCalls == {a, b, c}
CallsTabs  == [x \in {a, b, c} |-> IF x = c THEN t2 ELSE t1]
=============================================================================
