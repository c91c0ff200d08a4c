----------------------------- MODULE MCTurnQueue -----------------------------
EXTENDS TurnQueue, TLC

Senders == Permutations(AgentMessages)
==============================================================================
