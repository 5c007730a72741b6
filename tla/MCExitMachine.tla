---------------------------- MODULE MCExitMachine ----------------------------
\* TLC instances of ExitMachine.  Returns are in units of the magnitude floor.
EXTENDS ExitMachine

Falls == {-2, 1}
BleedArm == -2
=============================================================================
