----------------------------- MODULE MCCourier -----------------------------
\* One stop and two tabs of the courier's browser: the one in hand, and one
\* that was left open and goes on syncing.
EXTENDS Courier

CONSTANTS t1, t2

TwoTabs == {t1, t2}
Acting  == {t1}
=============================================================================
