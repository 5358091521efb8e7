--------------------------- MODULE MCBluetoothHci ---------------------------
(***************************************************************************)
(* Small instances of BluetoothHci: every command line that is accepted,   *)
(* a pass of three messages with the Location after another one.           *)
(***************************************************************************)
EXTENDS BluetoothHci

MCSingles == <<"basic", "location", "system">>
=============================================================================
