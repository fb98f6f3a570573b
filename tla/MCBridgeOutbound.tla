-------------------------- MODULE MCBridgeOutbound --------------------------
(* TLC instance of BridgeOutbound: a message queued twice, in the mailbox and in *)
(* flight, a message for another domain, and one that does not decrypt.          *)
EXTENDS BridgeOutbound, TLC

MCDomain == [m \in Msgs |-> IF m \in {"c", "d"} THEN "D2" ELSE "D1"]
MCKey == [m \in Msgs |-> IF m \in {"c", "d"} THEN m ELSE "k1"]
=============================================================================
