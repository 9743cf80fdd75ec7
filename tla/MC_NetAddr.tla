----------------------------- MODULE MC_NetAddr -----------------------------
(***************************************************************************)
(* Model-checking instance of NetAddr.  The IPv4 inputs combine octets at *)
(* the edges of every reserved IPv4 block (10/8, 172.16/12, 192.168/16,   *)
(* 198.18/15 with 198.17 and 198.20 just outside it, 169.254/16,         *)
(* 100.64/10, the three TEST-NETs, 0/8, 127/8 and 255.255.255.255); the   *)
(* IPv6 inputs sit just inside and just outside every IPv6 prefix the     *)
(* code tests.                                                             *)
(***************************************************************************)
EXTENDS NetAddr

\* An IPv6 address with the given leading bytes and a final 1.
W(prefix) == prefix \o Zeros(15 - Len(prefix)) \o <<1>>

OnionPayload1 == <<1, 2, 3, 4, 5, 6, 7, 8, 9, 10>>
OnionPayload2 == <<240, 2, 3, 4, 5, 6, 7, 8, 9, 10>>
TeredoOf8888  == <<32, 1, 0, 0, 65, 1, 2, 3, 128, 0, 1, 2, 247, 247, 247, 247>>

MC_V4Inputs ==
    { <<o1, o2, o3, o4>> :
        o1 \in {0, 8, 10, 100, 127, 169, 172, 192, 198, 203, 255},
        o2 \in {0, 15, 16, 17, 18, 19, 20, 31, 32, 51, 63, 64, 127, 128, 168, 254, 255},
        o3 \in {2, 100, 113, 255},
        o4 \in {0, 255} }

MC_V6Inputs ==
    { W(<<32, 1, 13, 184>>), W(<<32, 1, 13, 185>>),
      W(<<32, 2, 8, 8, 8, 8>>), W(<<32, 2, 10, 0, 0, 1>>), W(<<32, 3>>),
      TeredoOf8888, W(<<32, 1, 0, 1>>),
      W(<<32, 1, 0, 16>>), W(<<32, 1, 0, 31>>), W(<<32, 1, 0, 32>>),
      W(<<32, 1, 4, 112>>), W(<<32, 1, 4, 113>>),
      W(<<254, 128>>), W(<<254, 128, 0, 0, 0, 0, 0, 1>>),
      W(<<252>>), W(<<253, 1>>), W(<<254, 0>>),
      pchOnionCat \o OnionPayload1, W(g_internal_prefix),
      Zeros(15) \o <<1>>, Zeros(16), Zeros(15) \o <<2>>,
      <<0, 100, 255, 155>> \o Zeros(8) \o <<8, 8, 8, 8>>,
      W(<<0, 100, 255, 155, 0, 1>>),
      Zeros(8) \o <<255, 255, 0, 0, 8, 8, 8, 8>>,
      pchIPv4 \o <<8, 8, 8, 8>>,
      Zeros(7) \o <<255, 255, 1, 2, 3, 4, 5, 6, 7>>,
      W(<<42, 0, 20, 80>>) }

MC_OnionNames ==
    { [onion |-> TRUE, decoded |-> OnionPayload1],
      [onion |-> TRUE, decoded |-> OnionPayload2],
      [onion |-> TRUE, decoded |-> SubSeq(OnionPayload1, 1, 9)],
      [onion |-> FALSE, decoded |-> << >>] }

MC_Partners ==
    { pchIPv4 \o <<8, 8, 8, 8>>, W(<<42, 0, 20, 80>>), pchOnionCat \o OnionPayload2,
      TeredoOf8888, W(<<252>>), W(g_internal_prefix) }
=============================================================================
