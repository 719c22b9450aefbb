------------------------------- MODULE MCGate -------------------------------
(* One image and two tests; no cache is reclaimed before the first.        *)
EXTENDS Gate

MCPeak == [p \in {"bootstrap", "sast", "source", "scan", "wallet", "integrity", "suite"} |->
             IF p = "wallet" THEN 2 ELSE 1]
MCBuildOrder == <<"wallet">>
MCTestOrder == <<"integrity", "suite">>
MCReclaimers == {"wallet", "scan", "suite"}
=============================================================================
