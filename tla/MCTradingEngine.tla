--------------------------- MODULE MCTradingEngine ---------------------------
(***************************************************************************)
(* Submission in a small world: the plan of one process is submitted while *)
(* another process recovers, resolves and replaces, and the account, its   *)
(* records and the fence change under it.                                  *)
(***************************************************************************)
EXTENDS TradingEngine

CONSTANTS r1

AllPaper == [r \in Runtimes |-> "paper"]
IntentsOnPaper == [i \in Intents |-> "paper"]

OnR1 == [p \in Plans |-> r1]
NoStableIntent == [p \in Plans |-> NoIntent]
AllEntries == [p \in Plans |-> TRUE]
UnitNotional == [p \in Plans |-> 1]

=============================================================================
