----------------------------- MODULE MCRestart -----------------------------
(* The values of MCAddrDb, for Restart.                                    *)
EXTENDS Restart, MCAddrDb
RestartVerdicts == {Verdict(FALSE, "none"), Verdict(FALSE, "ban")}
=============================================================================
