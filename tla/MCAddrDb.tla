------------------------------ MODULE MCAddrDb ------------------------------
(* Instances of AddrDb for TLC.                                            *)
EXTENDS AddrDb, TLC
MCRumours == {{"NETWORK"}, {"NETWORK", "BLAKE2B"}}
Peer(services, fit) == [services |-> services, fit |-> fit, ancient |-> FALSE]
ForkNode == Peer({"NETWORK", "BLAKE2B"}, TRUE)
MainNode == Peer({"NETWORK"}, TRUE)
MCHellos == {ForkNode, MainNode}
Verdict(reliable, level) == [reliable |-> reliable, level |-> level]
MCVerdicts == {Verdict(FALSE, "none"), Verdict(FALSE, "ignore"), Verdict(FALSE, "ban")}
ForkRumour == {{"NETWORK", "BLAKE2B"}}
=============================================================================
