---------------------------- MODULE MCEcuRequests -----------------------------
(* The request TunerStudio polls with: r, table 7, all 209 bytes of OUTPC, *)
(* and its CRC-32.                                                         *)
EXTENDS EcuRequests, TLC

R == <<114, 0, 7, 0, 0, 0, 209>>

MCCrc == R :> <<165, 111, 32, 46>>
===============================================================================
