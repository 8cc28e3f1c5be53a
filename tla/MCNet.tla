------------------------------- MODULE MCNet -------------------------------
(***************************************************************************)
(* Seeds, proxies and addresses for NetAddr.                               *)
(***************************************************************************)
EXTENDS NetAddr, TLC

Nine == Quad(9, 9, 9, 9)
Ten  == Quad(10, 0, 0, 1)
Host6 == <<32, 1, 4, 112>> \o Zeroes(11) \o <<7>>
Local6 == <<253, 0>> \o Zeroes(13) \o <<1>>

MCNumericText ==
  (<<"9.9.9.9">> :> Nine) @@ (<<"10.0.0.1">> :> Ten) @@ (<<"0.0.0.0">> :> Quad(0, 0, 0, 0)) @@
  (<<"2001", ":", "470", ":", ":", "7">> :> Host6) @@ (<<"fd00", ":", ":", "1">> :> Local6) @@
  (<<":", ":", "1">> :> Append(Zeroes(15), 1))

MCPortText == (<<"0">> :> 0) @@ (<<"9150">> :> 9150) @@ (<<"70000">> :> 70000)

MCProxyTexts == {
  <<"9.9.9.9">>, <<"9.9.9.9", ":", "9150">>, <<"9.9.9.9", ":">>, <<"9.9.9.9", ":", "70000">>,
  <<"9.9.9.9", ":", "x">>, <<"0.0.0.0">>, <<"localhost", ":", "9150">>,
  <<"[", "9.9.9.9", "]", ":", "9150">>, <<"[", ":", ":", "1", "]", ":", "9150">>,
  <<"[", ":", ":", "1", "]">>, <<":", ":", "1">>, <<":", ":", "1", ":", "9150">>}

(* Every place of a name with letters that differ in every bit.            *)
NameWith(p, c) == [q \in 1..16 |-> IF q = p THEN c ELSE pbase32[1 + ((7 * q) % 32)]]
Names == {NameWith(p, c) : p \in 1..16, c \in {"b", "q", "7"}}
Name1 == NameWith(1, "a")

MCSeedTexts ==
  {Append(n, Onion) : n \in Names} \cup
  {Append(Name1, Garlic), Name1 \o <<"a", Onion>>, Name1 \o <<"-", "z", Onion>>,
   Name1 \o Name1 \o <<Onion>>, <<"a", "b", Onion>>, Name1 \o <<Onion, ":", "8333">>,
   <<"dns">>, <<"9.9.9.9">>, <<"9.9.9.9", ":", "8333">>, <<"10.0.0.1">>,
   <<"[", "2001", ":", "470", ":", ":", "7", "]">>}

MCDnsAnswers == {{}, {Nine, Host6}, {Ten, Local6}}
=============================================================================
