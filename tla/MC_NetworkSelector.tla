------------------------- MODULE MC_NetworkSelector -------------------------
(***************************************************************************)
(* Model-checking instance of NetworkSelector: the registered name in     *)
(* lower, upper and mixed case, the names of the networks whose           *)
(* registration is commented out, in two cases, and the empty name.      *)
(***************************************************************************)
EXTENDS NetworkSelector

MC_Objects == {"o1", "o2"}
MC_Names == {"", "bco", "BCO", "Bco", "bCO", "testnet3", "TESTNET3", "litecoin"}
MC_Lower == [n \in MC_Names |-> CASE n \in {"BCO", "Bco", "bCO"} -> "bco"
                                 [] n = "TESTNET3"            -> "testnet3"
                                 [] OTHER                     -> n]
=============================================================================
