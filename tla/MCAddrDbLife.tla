---------------------------- MODULE MCAddrDbLife ----------------------------
(* The instance of MCAddrDb, with the refinement mapping.                  *)
EXTENDS AddrDbLife, MCAddrDb
=============================================================================
