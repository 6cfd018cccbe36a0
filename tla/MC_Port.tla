------------------------------ MODULE MC_Port ------------------------------
(* Texts: a request with a short and one with the longest method, one that     *)
(* leaves a method behind after two bytes, one that is a method up to its       *)
(* space, and a JSON scalar. The probe does not look at the framing, so not   *)
(* every setup is needed.                                                     *)
EXTENDS ServicePort

MC_Setup(framing, http, speaks) == [framing |-> framing, http |-> http, speaks |-> speaks]

MC_Setups ==
    {MC_Setup("framed", "none", "thrift"), MC_Setup("json", "none", "thrift"),
     MC_Setup("framed", "sync", "thrift"), MC_Setup("json", "async", "text"),
     MC_Setup("framed", "sync", "text")}

MC_MaxBytes == [framed |-> 11, json |-> 6]

MC_Requests ==
    {<<71,69,84,32,47,10>>,                 \* GET /
     <<67,79,78,78,69,67,84,32,47>>,        \* CONNECT /
     <<80,79,88>>,                          \* POX
     <<68,69,76,69,84,69>>,                 \* DELETE
     <<49>>}                                \* 1
=============================================================================
