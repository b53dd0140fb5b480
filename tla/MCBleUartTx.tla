---------------------------- MODULE MCBleUartTx -----------------------------
(***************************************************************************)
(* BleUartTx with messages of two default segments.  The constants are     *)
(* numbers, so that the configurations give them all.                      *)
(***************************************************************************)
EXTENDS BleUartTx_proofs
=============================================================================
