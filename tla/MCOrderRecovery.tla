--------------------------- MODULE MCOrderRecovery ---------------------------
(***************************************************************************)
(* Recovery in small worlds: two executions of one process that supervises *)
(* them, one behind the other, and an intent that is submitted again.      *)
(***************************************************************************)
EXTENDS OrderRecovery

AllPaper == [r \in Runtimes |-> "paper"]
IntentsOnPaper == [i \in Intents |-> "paper"]

=============================================================================
