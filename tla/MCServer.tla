------------------------------ MODULE MCServer ------------------------------
(***************************************************************************)
(* Server for TLC: a BatchPredict of two inputs over HTTP and an Infer, or *)
(* a StreamInfer of one input, over gRPC.                                  *)
(***************************************************************************)
EXTENDS Server, TLC

CONSTANTS b1, b2, g1, batch, call

InferInputs == (batch :> <<b1, b2>>) @@ (call :> <<g1>>)
=============================================================================
