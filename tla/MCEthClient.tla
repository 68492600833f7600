----------------------------- MODULE MCEthClient -----------------------------
(* Instances of EthClient for TLC. *)
EXTENDS EthClient
=============================================================================
