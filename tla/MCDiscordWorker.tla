-------------------------- MODULE MCDiscordWorker ---------------------------
(* Instances of DiscordWorker for TLC.                                     *)
EXTENDS DiscordWorker

CONSTANTS a1, a2, d1, d2

Recipient == [d \in Dms |-> IF d = d1 THEN a1 ELSE a2]
=============================================================================
