---------------------------- MODULE TradingEngine ----------------------------
(***************************************************************************)
(* Order submission in trading-engine: submitWithReservation of            *)
(* src/engine.ts, run by several processes over one execution journal.     *)
(*                                                                         *)
(* A plan is a prepared order plan inside one runtime; pc[p] says how far  *)
(* its submission got.  Between any two steps another process may act, the *)
(* process may die, or a write may reach the disk although the call        *)
(* reports a failure (persist.ts: "possibly-published").                   *)
(***************************************************************************)
EXTENDS OrderRecovery

CONSTANTS
    Plans,          \* prepared order plans
    RuntimeOf,      \* the runtime holding each plan
    IntentOf,       \* policy.intentId of each plan's submissions
    CountedOf,      \* whether the plan counts towards the daily limit
    NotionalOf      \* the plan's notional

ASSUME EngineAssumption ==
    /\ RuntimeOf \in [Plans -> Runtimes]
    /\ IntentOf \in [Plans -> Intents \cup {NoIntent}]
    /\ CountedOf \in [Plans -> BOOLEAN]
    /\ NotionalOf \in [Plans -> Notionals]

VARIABLES
    pc,             \* per plan: the next step of submitWithReservation
    exec,           \* per plan: the execution it prepared
    seen,           \* per plan: account-risk revision of its preflight
    riskRevision    \* per plan: the revision it hands to begin()

submitVars == <<pc, exec, seen, riskRevision>>
engineVars == <<recoveryVars, submitVars>>

EngineTypeOK ==
    /\ RecoveryTypeOK
    /\ pc \in [Plans -> {"ready", "preflighted", "recorded", "confirming", "confirmed",
                         "sending", "waiting", "consumed"}]
    /\ exec \in [Plans -> Execs \cup {NoExec}]
    /\ \A p \in Plans : pc[p] \notin {"ready", "preflighted", "consumed"} => exec[p] # NoExec
    /\ seen \in [Plans -> Nat]
    /\ riskRevision \in [Plans -> Nat]

EngineInit ==
    /\ RecoveryInit
    /\ pc = [p \in Plans |-> "ready"]
    /\ exec = [p \in Plans |-> NoExec]
    /\ seen = [p \in Plans |-> 0]
    /\ riskRevision = [p \in Plans |-> 0]

AccountOf(p) == account[ModeOf[RuntimeOf[p]]]
Goto(p, label) == pc' = [pc EXCEPT ![p] = label]

-----------------------------------------------------------------------------
(* submitWithReservation, step by step *)

\* Claims the plan, re-reads market and account: everything up to prepare().
Submit(p) ==
    /\ pc[p] = "ready" /\ Running(RuntimeOf[p])
    /\ CountedOf[p] => NewExposureAllowed({})
    /\ AccountLimits /\ CountedOf[p] => ~Shut(ModeOf[RuntimeOf[p]])
    /\ seen' = [seen EXCEPT ![p] = AccountOf(p).revision]
    /\ Goto(p, "preflighted")
    /\ UNCHANGED <<recoveryVars, exec, riskRevision>>

\* Stale plan, retired engine, changed evidence, or a refusal by prepare().
Refuse(p) ==
    /\ pc[p] = "preflighted"
    /\ Goto(p, "ready")
    /\ UNCHANGED <<recoveryVars, exec, seen, riskRevision>>

\* prepare() commits; if the call nevertheless throws, the plan is free again
\* and the record is nobody's.
RecordExecution(p, e, reported) ==
    /\ pc[p] = "preflighted"
    /\ PrepareRecord(RuntimeOf[p], e, IntentOf[p], NotionalOf[p], CountedOf[p], seen[p])
    /\ IF reported
       THEN /\ Goto(p, "recorded")
            /\ exec' = [exec EXCEPT ![p] = e]
       ELSE Goto(p, "ready") /\ UNCHANGED exec
    /\ UNCHANGED <<seen, riskRevision>>

\* riskRevision = this.accountRisk?.state()?.revision: a read of its own.
ReadRevision(p) ==
    /\ pc[p] = "recorded"
    /\ riskRevision' = [riskRevision EXCEPT ![p] = AccountOf(p).revision]
    /\ Goto(p, "confirming")
    /\ UNCHANGED <<recoveryVars, exec, seen>>

\* The confirmation is granted, or none is needed.
Confirm(p) ==
    /\ pc[p] = "confirming"
    /\ Goto(p, "confirmed")
    /\ UNCHANGED <<recoveryVars, exec, seen, riskRevision>>

\* releaseAndThrow: declined, drifted or refused by begin().  The settlement holds
\* only for the revision prepare() returned; if it fails the plan is spent.
ReleaseAndThrow(p) ==
    /\ pc[p] \in {"confirming", "confirmed"}
    /\ \/ ReleasePrepared(exec[p]) /\ Goto(p, "ready")
       \/ Goto(p, "consumed") /\ UNCHANGED recoveryVars
    /\ UNCHANGED <<exec, seen, riskRevision>>

\* begin() commits.  If the call nevertheless throws, nothing is sent, the
\* release meets a newer revision and the plan is spent.
BeginSubmission(p, reported) ==
    /\ pc[p] = "confirmed"
    /\ CountedOf[p] => NewExposureAllowed({exec[p]})
    /\ Permit(RuntimeOf[p], exec[p], riskRevision[p], reported)
    /\ Goto(p, IF reported THEN "sending" ELSE "consumed")
    /\ UNCHANGED <<exec, seen, riskRevision>>

\* Mutant: the request may leave before begin() is durable.
SendUnbegun(p) ==
    /\ pc[p] \in {"confirmed", "sending"}
    /\ wire' = [wire EXCEPT ![exec[p]] = "inflight"]
    /\ Goto(p, "waiting")
    /\ UNCHANGED <<journalVars, order, reply, lookupable, arrivals, look, exec, seen, riskRevision>>

\* submit()
Send(p) ==
    /\ pc[p] = "sending"
    /\ Leave(exec[p])
    /\ Goto(p, "waiting")
    /\ UNCHANGED <<exec, seen, riskRevision>>

\* The answer arrives and is settled, unless recovery or an operator came first;
\* or its evidence is refused or its settlement not persisted.
Answered(p) ==
    /\ pc[p] = "waiting" /\ reply[exec[p]] # "none"
    /\ SettleByReply(exec[p]) \/ UNCHANGED recoveryVars
    /\ Goto(p, "consumed")
    /\ UNCHANGED <<exec, seen, riskRevision>>

\* Mutant: a timeout frees the plan for a retry.
TimeoutFreesPlan(p) ==
    /\ pc[p] \in {"sending", "waiting"}
    /\ GiveUp(exec[p])
    /\ Goto(p, "ready")
    /\ UNCHANGED <<exec, seen, riskRevision>>

\* No answer within policy.timeoutMs, a transport error, or an error before the
\* request left: unknown(), which leaves an execution that was resolved meanwhile
\* alone, and may not persist.
TimedOut(p) ==
    /\ pc[p] \in {"sending", "waiting"}
    /\ GiveUp(exec[p])
    /\ Goto(p, "consumed")
    /\ UNCHANGED <<exec, seen, riskRevision>>

\* The caller prepares a new plan for the same order.
Replan(p) ==
    /\ pc[p] = "consumed"
    /\ Goto(p, "ready")
    /\ exec' = [exec EXCEPT ![p] = NoExec]
    /\ UNCHANGED <<recoveryVars, seen, riskRevision>>

-----------------------------------------------------------------------------
\* The process of r ends: its plans and promises go with it.
EndProcess(r) ==
    /\ Crash(r, {exec[p] : p \in {p \in Plans : RuntimeOf[p] = r}} \ {NoExec})
    /\ pc' = [p \in Plans |-> IF RuntimeOf[p] = r THEN "ready" ELSE pc[p]]
    /\ exec' = [p \in Plans |-> IF RuntimeOf[p] = r THEN NoExec ELSE exec[p]]
    /\ UNCHANGED <<seen, riskRevision>>

EngineNext ==
    \/ \E p \in Plans :
          \/ Submit(p) \/ Refuse(p) \/ ReadRevision(p) \/ Confirm(p) \/ ReleaseAndThrow(p)
          \/ Send(p) \/ Answered(p) \/ TimedOut(p) \/ Replan(p)
          \/ \E e \in Execs, reported \in BOOLEAN : RecordExecution(p, e, reported)
          \/ \E reported \in BOOLEAN : BeginSubmission(p, reported)
    \/ \E r \in Runtimes : EndProcess(r)
    \/ \E r \in Runtimes : (Start(r) \/ Maintain(r) \/ RecoverNext(r)) /\ UNCHANGED submitVars
    \/ (ExchangeNext \/ Environment) /\ UNCHANGED submitVars

EngineSpec == EngineInit /\ [][EngineNext]_engineVars

-----------------------------------------------------------------------------
(* What the engine promises *)

\* submitWithReservation behaves as recovery expects of a submitter: it sends only
\* what begin() reported permitted and gives quota back only for what was never
\* begun or what the exchange refused, under every interleaving with recovery.
ImplementsRecovery == RecoverySpec

\* A plan that may have traded is spent: while its order is open, filled or on its
\* way, no retry with the same plan reaches prepare() again.  ("Consume the plan
\* before awaiting it so concurrent callers and retries cannot double-submit.")
SentPlanSpent ==
    \A p \in Plans : exec[p] # NoExec /\ MayTrade(exec[p])
        => pc[p] \in {"sending", "waiting", "consumed"}

-----------------------------------------------------------------------------
(* The inductive invariant behind these promises *)

\* The steps before begin(), to which a plan that was not submitted returns.
Unsubmitted == {"ready", "preflighted", "recorded", "confirming", "confirmed"}

\* A plan's execution is on record, is no other plan's, and nothing of it was sent
\* before the plan got past begin().
PlanOwnsExecution ==
    \A p \in Plans : exec[p] # NoExec =>
        /\ rec[exec[p]].status # "absent"
        /\ \A q \in Plans : exec[q] = exec[p] => q = p
        /\ pc[p] \in Unsubmitted => wire[exec[p]] = "unsent"

\* Only plans with a stable intent leave records with one.
IntentsFromPlans ==
    \A e \in Execs : rec[e].intent # NoIntent => \E p \in Plans : IntentOf[p] = rec[e].intent

EngineInv == EngineTypeOK /\ RecoveryInv /\ PlanOwnsExecution /\ IntentsFromPlans

=============================================================================
