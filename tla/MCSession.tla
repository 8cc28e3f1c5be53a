----------------------------- MODULE MCSession -----------------------------
(***************************************************************************)
(* Peers for Session.                                                      *)
(***************************************************************************)
EXTENDS Framing

Msg(cmd, size, sum) == <<"m1", "m2", cmd, size, sum>>
OldMsg(cmd, size)   == <<"m1", "m2", cmd, size>>

Version(v) == Msg("version", "1", v) \o <<v>>
Verack     == Msg("verack", "0", "empty")
Addr(n)    == Msg("addr", "1", n) \o <<n>>
OldAddr(n) == OldMsg("addr", "1") \o <<n>>

MCScript == {
  Version("v300h") \o Verack \o Addr("two"),
  Version("v300") \o <<"x">> \o Verack,
  Version("v150") \o OldAddr("many"),
  Verack \o OldAddr("one") \o OldMsg("version", "0"),
  Addr("two") \o Verack,
  Addr("many"),
  Msg("addr", "1", "two") \o Version("v300h"),           \* a checksum of something else
  Msg("ping", "2", "m1") \o <<"m1", "m2">> \o Verack,    \* a start inside a payload
  <<"m1", "x", "m1", "m1", "m2", "verack", "0", "empty">>,
  <<"x", "x", "x", "x", "x", "m1">> \o Verack,
  Verack \o OldMsg("x", "0"),
  Msg("version", "0", "empty"),
  Msg("verack", "x", "empty"),
  <<"x", "x", "x">> }
=============================================================================
