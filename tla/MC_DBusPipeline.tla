-------------------------- MODULE MC_DBusPipeline --------------------------
(* A byte is named by the call that wrote it and its place in the value; <<0, *)
(* k>> is what lane k held first, <<0, 8>> a zero and <<0, 9>> unknown.       *)
EXTENDS DBusPipeline

Bytes == (0 .. MaxCalls) \X (0 .. 9)
ZeroByte == <<0, 8>>
At(a, w) == [addr |-> a, width |-> w]
SomeCells == {At(3, 1), At(2, 2), At(14, 2), At(0, 8)}
=============================================================================
