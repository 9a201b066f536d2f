------------------------------ MODULE MCEthTx ------------------------------
(* One Tx table for TLC; the README explains the bounds.                     *)
EXTENDS EthTx
=============================================================================
