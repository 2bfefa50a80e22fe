---------------------------- MODULE MCDispatch ----------------------------
EXTENDS Dispatch

MCBankSize == <<9, 5>>
MCOpCodes == {"bad", "stop", "plain2", "branch", "jmp", "jsr", "head", "tail"}
MCTargets == <<{18, 22, 30}, {1, 10, 13}>>
MCReach == {1}
MCRequired == {1}
MCRamCode == {0}
===========================================================================
