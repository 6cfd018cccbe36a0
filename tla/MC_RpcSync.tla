----------------------------- MODULE MC_RpcSync -----------------------------
(* A ThriftClient shared by threads, one call of each kind: one that may     *)
(* raise a declared exception, one the server does not know, one it cannot   *)
(* decode, and a oneway call.  All oneway methods have a handler.            *)
EXTENDS ThriftRpc, TLC

CONSTANTS get, odd, bad, note

MC_MethodOf == (get :> "get") @@ (odd :> "odd") @@ (bad :> "bad") @@ (note :> "note")
=============================================================================
