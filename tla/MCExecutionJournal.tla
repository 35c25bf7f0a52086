-------------------------- MODULE MCExecutionJournal --------------------------
(***************************************************************************)
(* The journal under its most general callers.  Two configurations ask two *)
(* questions: quota, blocks and generations over the paper and the live    *)
(* account and a change of day; stable intents over a history that forgets. *)
(***************************************************************************)
EXTENDS ExecutionJournal, TLC

CONSTANTS r1, r2

OnePaper == r1 :> "paper"
PaperAndLive == r1 :> "paper" @@ r2 :> "live"
IntentsOnPaper == [i \in Intents |-> "paper"]

\* Settlements enough for each question.
RejectOrAck == {<<"release", "definite-rejection", "none">>, <<"commit", "acknowledged", "submission">>}
RejectOrLookup == {<<"release", "definite-rejection", "none">>, <<"release", "reconciled", "none">>,
                   <<"commit", "reconciled", "client-id-lookup">>}

ExecSymmetry == Permutations(Execs)

=============================================================================
