---------------------------- MODULE MCRecovery -----------------------------
(* Two bands that share the RF. *)
EXTENDS Recovery

LowThenHigh == <<"lb", "hb">>
============================================================================
