----------------------------- MODULE MC_HostLookup -----------------------------
(***************************************************************************)
(* Model-checking instance of HostLookup: a numeric IPv4 and IPv6 name,   *)
(* the IPv6 one also in brackets; a name whose lookup returns an internal *)
(* IPv6 address, an IPv4 address, an address one bit outside the internal *)
(* block and a documentation IPv6 address; a name that fails; an onion    *)
(* name that decodes to 10 bytes, one that decodes to 9 (SetSpecial fails *)
(* and the lookup runs), and "".  nMaxSolutions 0 (unlimited), 1 and 2.   *)
(***************************************************************************)
EXTENDS HostLookup

\* An IPv6 answer: prefix padded with zeros, then a last byte.
A6(prefix, last) ==
    [family |-> "AF_INET6",
     addr |-> prefix \o [i \in 1..15 - Len(prefix) |-> 0] \o <<last>>]
A4(o1, o2, o3, o4) == [family |-> "AF_INET", addr |-> <<o1, o2, o3, o4>>]

MC_Hosts == {"", "1.2.3.4", "::6", "[::6]", "seed.example", "bad.example",
             "x.onion", "short.onion"}
MC_Unbracket == [n \in MC_Hosts |-> IF n = "[::6]" THEN "::6" ELSE n]
MC_Special == [n \in MC_Hosts |->
                 CASE n = "x.onion"     -> [onion |-> TRUE, decoded |-> <<1, 2, 3, 4, 5, 6, 7, 8, 9, 10>>]
                   [] n = "short.onion" -> [onion |-> TRUE, decoded |-> <<1, 2, 3, 4, 5, 6, 7, 8, 9>>]
                   [] OTHER             -> [onion |-> FALSE, decoded |-> << >>]]
MC_Resolve == [n \in MC_Hosts |->
                 CASE n = "1.2.3.4"          -> << A4(1, 2, 3, 4) >>
                   [] n \in {"::6", "[::6]"} -> << A6(<< >>, 6) >>
                   [] n = "seed.example"     ->
                        << A6(<<253, 107, 136, 192, 135, 36>>, 1), A4(5, 6, 7, 8),
                           A6(<<253, 107, 136, 192, 135, 37>>, 1), A6(<<32, 1, 13, 184>>, 1) >>
                   [] OTHER                  -> "error"]
MC_Numeric == {"1.2.3.4", "::6"}
MC_MaxSolutions == {0, 1, 2}
MC_MaxVector == 4
=============================================================================
