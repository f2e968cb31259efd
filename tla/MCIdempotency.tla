--------------------------- MODULE MCIdempotency ---------------------------
(* Three requests with one key: two ask for the same, one for another thing. *)
EXTENDS Idempotency, TLC

CONSTANTS q1, q2, q3, key1

MCRequests == {q1, q2, q3}
MCKeys     == {key1}
MCKeyOf    == [r \in MCRequests |-> key1]
MCBodyOf   == [r \in MCRequests |-> IF r = q3 THEN "other" ELSE "same"]
=============================================================================
