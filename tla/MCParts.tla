------------------------------ MODULE MCParts ------------------------------
(***************************************************************************)
(* Five parts for TLC, each by itself: a session with a peer, the stream   *)
(* it keeps its bytes in, the reader of counted data, the averages of a    *)
(* record, and the way from a seed to a connection.  They meet only in     *)
(* calls that are modelled where they are made.                            *)
(***************************************************************************)
EXTENDS MCSession, MCNet, DataStream, Wire, AddrStat

VARIABLE unit   \* the part that moves in this behaviour

partVars == <<unit, sessionVars, netVars, streamBufVars, wireVars, statVars>>

(* exp(-age/tau) in parts of 5000, at 1000 seconds, 82 minutes, a day.     *)
Row(h2, h8, d1, w1, m1) ==
  ("2H" :> h2) @@ ("8H" :> h8) @@ ("1D" :> d1) @@ ("1W" :> w1) @@ ("1M" :> m1)
MCDecay == (1000 :> Row(4352, 4829, 4942, 4992, 4998)) @@
           (4920 :> Row(2525, 4215, 4723, 4959, 4991)) @@
           (86400 :> Row(0, 249, 1839, 4334, 4836))

(* Cut short, longer than need be, too large, of nine bytes.               *)
MCOdd == {<<>>, <<253, 5>>, <<253, 2, 0>>, <<254, 3, 0, 0, 0>>, <<254, 0, 0, 0, 200>>,
          <<255, 1, 0, 0, 0, 0, 0, 0, 0>>, <<255, 1, 0, 0, 0, 1, 0, 0, 0>>, <<255, 1, 0, 0, 0>>}

(* A part that does not move starts in one state.                          *)
MCInit ==
  /\ unit \in {"session", "net", "stream", "wire", "stat"}
  /\ DataStreamInit /\ StatInit
  /\ SessionInit
  /\ unit # "session" => /\ wire = (CHOOSE s \in Script : TRUE) /\ ~ proxied /\ vAddr = 0
  /\ WireInit
  /\ unit # "wire" => meant = 0 /\ have = 0 /\ kind = "map"
  /\ IF unit = "net" THEN NetInit
     ELSE seed = <<"dns">> /\ options = <<>> /\ proxies = <<>> /\ known = {} /\ asked = Nowhere

MCNext ==
  /\ UNCHANGED unit
  /\ unit # "session" => UNCHANGED sessionVars
  /\ unit # "net" => UNCHANGED netVars
  /\ unit # "stream" => UNCHANGED streamBufVars
  /\ unit # "wire" => UNCHANGED wireVars
  /\ unit # "stat" => UNCHANGED statVars
  /\ \/ unit = "session" /\ SessionNext
     \/ unit = "net" /\ NetNext
     \/ unit = "stream" /\ DataStreamNext
     \/ unit = "wire" /\ WireNext
     \/ unit = "stat" /\ StatNext

(* SessionFairness where the session moves.                                *)
MCFairness ==
  /\ WF_partVars(unit = "session" /\ Program /\ MCNext)
  /\ WF_partVars(unit = "session" /\ Tick /\ MCNext)
  /\ WF_partVars(unit = "session" /\ ConnectSocketDirectly /\ MCNext)

MCSpec == MCInit /\ [][MCNext]_partVars /\ MCFairness
-----------------------------------------------------------------------------
(* bitcoin.cpp:222-258: a session with a peer that stops sending ends,     *)
(* unless a proxy leaves it waiting for an answer.                         *)
EverySessionEnds == unit = "session" => SessionEnds
=============================================================================
