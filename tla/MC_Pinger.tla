----------------------------- MODULE MC_Pinger -----------------------------
(***************************************************************************)
(* Model-checking instance of Pinger: three pings, sequence numbers       *)
(* modulo 4 (for 2^16), replies outliving at most two newer requests, so  *)
(* a late reply can meet a request other than its own but never alias it. *)
(***************************************************************************)
EXTENDS Pinger

MC_PingCount == 3
MC_SeqMod == 4
MC_ReplyLifetime == 2
=============================================================================
