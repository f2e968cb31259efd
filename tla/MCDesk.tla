------------------------------- MODULE MCDesk -------------------------------
(***************************************************************************)
(* Every kind of record; the leading seats, of companies whose             *)
(* subscription and plan are in order.                                     *)
(***************************************************************************)
EXTENDS Desk

EveryKind  == AllKinds
Leaders    ==
    {u \in People : /\ u.sub = "ACTIVE" /\ u.plan = "room" /\ u.verified
                    /\ u.role \in {"OWNER", "SELLER", "SUPERADMIN"}}
=============================================================================
