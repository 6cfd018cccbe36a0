---------------------------- MODULE MC_RpcAsync ----------------------------
(* An AsyncThriftClient shared by coroutines that may be cancelled: two     *)
(* calls to an `async def' handler and a oneway call for which no handler   *)
(* is registered.                                                           *)
EXTENDS RpcInvariant, TLC

CONSTANTS get1, get2, note

MC_MethodOf == (get1 :> "get") @@ (get2 :> "get") @@ (note :> "note")

MC_Symmetry == Permutations({get1, get2})
=============================================================================
