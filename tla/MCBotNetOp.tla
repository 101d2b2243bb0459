----------------------------- MODULE MCBotNetOp -----------------------------
(* Two bots that know the third and are known to it only.                  *)
EXTENDS BotNetOp

CONSTANTS b1, b2, b3

MCTrusts == [b \in Bots |-> IF b = b3 THEN {b1, b2} ELSE {b3}]
=============================================================================
