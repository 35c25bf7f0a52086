----------------------------- MODULE MCAccountRisk -----------------------------
(***************************************************************************)
(* Two processes that share the account of one entry at a time.            *)
(***************************************************************************)
EXTENDS AccountRisk

=============================================================================
