-------------------------- MODULE MCBlePeripheral ---------------------------
(* BlePeripheral on a small instance. *)
EXTENDS BlePeripheral

=============================================================================
