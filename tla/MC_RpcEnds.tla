----------------------------- MODULE MC_RpcEnds -----------------------------
(* Calls that end in different ways: answered by a handler of the same       *)
(* process, unknown to the server, and not decodable by it.                  *)
EXTENDS InProcess, TLC

CONSTANTS fetch, odd, bad

MC_MethodOf == (fetch :> "fetch") @@ (odd :> "odd") @@ (bad :> "bad")
=============================================================================
