---------------------------- MODULE MCExitReplay ----------------------------
\* TLC instances of ExitReplay: the stop tightens once in the day, and once more
\* when squeezed.
EXTENDS ExitReplay

Falls == {-2, 1}
BleedArm == -1
Decay == [s \in 0..2 |-> [q \in BOOLEAN |-> IF s = 0 /\ ~q THEN 2 ELSE 1]]
=============================================================================
