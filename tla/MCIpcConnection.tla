-------------------------- MODULE MCIpcConnection --------------------------
(* Commands for IpcConnection, with the sizes of payloads and replies. *)
EXTENDS IpcConnection, TLC

CONSTANTS focus, switch, bad, quit

PayloadSizes == focus :> 2 @@ switch :> 1 @@ bad :> 1 @@ quit :> 1
ReplySizes == focus :> 0 @@ switch :> 6 @@ bad :> 3 @@ quit :> 0

ClientSymmetry == Permutations(Clients)
=============================================================================
