------------------------- MODULE MCInferenceEngine --------------------------
(* Model checking of InferenceEngine: calls and keys are interchangeable.  *)
EXTENDS InferenceEngine, TLC

EngineSymmetry == Permutations(Calls) \cup Permutations(Keys)
=============================================================================
