--------------------------- MODULE MCHopRuntime ---------------------------
(* Instances of HopRuntime for TLC.                                        *)
EXTENDS HopRuntime, TLC

CONSTANTS qa, dev

(* QA discovers commands and runs on Bedrock; the other hop has no SLA, so *)
(* it may keep the only slot for ever.                                     *)
MCHops == {qa, dev}
MCBedrockHops == {qa}
MCDiscovering == {qa}
MCSla == qa :> 2 @@ dev :> NoSla
=============================================================================
