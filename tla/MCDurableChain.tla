--------------------------- MODULE MCDurableChain ---------------------------
(* Instances of DurableChain for TLC.                                      *)
EXTENDS DurableChain

CONSTANTS c1, c2, w1, w2, w3

MCChains == {c1}
MCWorkers == {w1, w2, w3}
MCHopKinds == {"patch", "qa_failed"}
=============================================================================
