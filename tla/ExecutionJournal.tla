--------------------------- MODULE ExecutionJournal ---------------------------
(***************************************************************************)
(* The durable execution journal of trading-engine                         *)
(* (src/execution-journal.ts) over the shared trading state.  Every action *)
(* is one ExecutionJournal.transact call: journal record, quota claim and  *)
(* entry block change in one commit, or not at all.  The specification     *)
(* JournalSpec lets any journal instance of any process make any call the  *)
(* class accepts, in any order; TradingEngine.tla says which calls the     *)
(* engine and its recovery really make.                                    *)
(*                                                                         *)
(* A record whose id left the bounded history keeps its last value in rec  *)
(* as history only: no guard looks at a record that is not Present.        *)
(***************************************************************************)
EXTENDS RiskUsage, Sequences, Functions

CONSTANTS
    Runtimes,           \* journal instances, each inside one engine of one process
    ModeOf,             \* the scope of each instance: its account's trading mode
    Intents,            \* stable intent identities callers may supply
    IntentMode,         \* the mode whose account each belongs to: intentKey() hashes
                        \* the identity with the account key
    NoIntent,           \* no stable identity: a random client order id
    Notionals,          \* notionals an order may claim
    Charges,            \* notionals a settlement may carry
    Settlements,        \* <<outcome, status, evidence>> callers settle with
    AccountLimits,      \* whether account hard limits are configured
    HistoryLimit,       \* EXECUTION_HISTORY_LIMIT
    UnresolvedLimit,    \* UNRESOLVED_EXECUTION_LIMIT
    MaxAttempts,        \* MAX_RECOVERY_ATTEMPTS
    MaxRevision,        \* bound: record revisions explored
    MaxGeneration,      \* bound: admission generations explored
    MaxAccountRevision, \* bound: account-risk revisions explored
    MaxDay              \* bound: days explored

Outcomes == {"commit", "release"}
Pending == {"prepared", "submission-started", "unknown"}
Resolved == {"acknowledged", "definite-rejection", "reconciled"}
Evidences == {"none", "submission", "client-id-lookup", "operator"}

\* Every way the engine, its recovery and an operator settle an execution.
AllSettlements ==
    {<<"release", "definite-rejection", "none">>, <<"release", "reconciled", "none">>}
    \cup (Outcomes \X {"acknowledged"} \X {"submission"})
    \cup (Outcomes \X {"reconciled"} \X {"client-id-lookup", "operator"})

ASSUME JournalAssumption ==
    /\ ModeOf \in [Runtimes -> Modes]
    /\ NoIntent \notin Intents
    /\ IntentMode \in [Intents -> Modes]
    /\ Notionals \subseteq Nat
    /\ Charges \subseteq Nat
    /\ Settlements \subseteq Outcomes \X Resolved \X Evidences
    /\ AccountLimits \in BOOLEAN
    /\ HistoryLimit \in Nat \ {0}
    /\ UnresolvedLimit \in Nat
    /\ MaxAttempts \in Nat

VARIABLES
    rec,        \* executions.records by id
    closed,     \* ids of the resolved records still retained, oldest settlement first
    intentKeys, \* executions.intentKeys: the last execution of each intent
    generation, \* executions.admissionGeneration
    fence,      \* whether executions.maintenance is present
    owners,     \* instances whose ownedMaintenance holds the active fence's id
    captured,   \* admissionGeneration captured by each instance; -1: not running
    account     \* per mode, accountRisk: its revision, whether blockedReasons or a
                \* loss trip close entries, whether an account mutation is pending

recordVars == <<rec, closed, intentKeys>>
fenceVars == <<generation, fence, owners>>
journalVars == <<usageVars, recordVars, fenceVars, captured, account>>

Record == [status     : {"absent"} \cup Pending \cup Resolved,
           revision   : Nat,
           attempts   : Nat,
           gen        : Nat,                    \* admissionGeneration of the preparer
           mode       : Modes,                  \* scope.mode
           counted    : BOOLEAN,                \* whether reservationId is present
           notional   : Nat,
           intent     : Intents \cup {NoIntent},
           outcome    : {"none"} \cup Outcomes, \* settlement.outcome
           charge     : Nat,                    \* settlement.notional
           evidence   : Evidences,
           issue      : {"none", "uncertain", "attempts-exhausted"}]

NoRecord == [status |-> "absent", revision |-> 0, attempts |-> 0, gen |-> 0,
             mode |-> "paper", counted |-> FALSE, notional |-> 0, intent |-> NoIntent,
             outcome |-> "none", charge |-> 0, evidence |-> "none", issue |-> "none"]

JournalTypeOK ==
    /\ UsageTypeOK
    /\ rec \in [Execs -> Record]
    /\ closed \in Seq(Execs)
    /\ intentKeys \in [Intents -> Execs \cup {NoExec}]
    /\ generation \in Nat
    /\ fence \in BOOLEAN
    /\ owners \in SUBSET Runtimes
    /\ captured \in [Runtimes -> Nat \cup {-1}]
    /\ account \in [Modes -> [revision : Nat, blocked : BOOLEAN, mutation : BOOLEAN]]

JournalInit ==
    /\ UsageInit
    /\ rec = [e \in Execs |-> NoRecord]
    /\ closed = <<>>
    /\ intentKeys = [i \in Intents |-> NoExec]
    /\ generation = 0
    /\ fence = FALSE
    /\ owners = {}
    /\ captured = [r \in Runtimes |-> -1]
    /\ account = [m \in Modes |-> [revision |-> 0, blocked |-> FALSE, mutation |-> FALSE]]

-----------------------------------------------------------------------------
(* Reading the journal *)

IsUnresolved(e) == rec[e].status \in Pending
IsResolved(e) == rec[e].status \in Resolved
Retained == {closed[k] : k \in 1..Len(closed)}
Present(e) == IsUnresolved(e) \/ e \in Retained
Unresolved == {e \in Execs : IsUnresolved(e)}

\* The claim that reserve() made for the execution e.
ClaimOf(e) == [id |-> e, notional |-> rec[e].notional, exec |-> e]

\* trimExecutionHistory: the youngest HistoryLimit resolved records stay.
Trim(s) == IF Len(s) > HistoryLimit
           THEN SubSeq(s, Len(s) - HistoryLimit + 1, Len(s)) ELSE s

\* Mutant: the fence is honoured, the generation is not compared.
AdmittedStale(r) == ~fence

\* assertAdmission
Admitted(r) == ~fence /\ captured[r] = generation

\* Mutant: an intent whose execution left the history is free again.
IntentForgotten(i) ==
    i # NoIntent /\ intentKeys[i] \in Retained => rec[intentKeys[i]].outcome = "release"

\* An intent runs again only when its last execution is still on record and
\* was released.  (A reuse with other parameters is refused, so is not modelled.)
IntentFree(i) ==
    i # NoIntent /\ intentKeys[i] # NoExec =>
        /\ intentKeys[i] \in Retained
        /\ rec[intentKeys[i]].outcome = "release"

\* The account's hard limits close it to new exposure.
Shut(m) == account[m].blocked \/ account[m].mutation

-----------------------------------------------------------------------------
(* Instances *)

\* A process starts an engine: the journal captures the stored generation.
Open(r) ==
    /\ captured[r] = -1
    /\ captured' = [captured EXCEPT ![r] = generation]
    /\ UNCHANGED <<usageVars, recordVars, fenceVars, account>>

\* The owner of the fence builds its successor for the next generation.
Install(r, s) ==
    /\ fence /\ r \in owners /\ captured[s] = -1
    /\ captured' = [captured EXCEPT ![s] = generation + 1]
    /\ UNCHANGED <<usageVars, recordVars, fenceVars, account>>

\* The process ends, orderly or not; what the instance knew is lost.
Halt(r) ==
    /\ captured[r] # -1
    /\ captured' = [captured EXCEPT ![r] = -1]
    /\ owners' = owners \ {r}
    /\ UNCHANGED <<usageVars, recordVars, generation, fence, account>>

-----------------------------------------------------------------------------
(* Executions *)

\* prepare(): the durable claim, block and intent tombstone of a new execution.
\* seen is the account-risk revision of the caller's preflight.
Prepare(r, e, i, n, counted, seen) ==
    LET m == ModeOf[r] IN
    /\ Admitted(r)
    /\ rec[e].status = "absent"
    /\ i # NoIntent => IntentMode[i] = m
    /\ IntentFree(i)
    /\ AccountLimits => seen = account[m].revision /\ (counted => ~Shut(m))
    /\ account' = [account EXCEPT ![m].revision = @ + (IF AccountLimits THEN 1 ELSE 0)]
    /\ Cardinality(Unresolved) < UnresolvedLimit
    /\ IF counted THEN ReserveClaim(m, e, n, e) ELSE n > 0 /\ UNCHANGED ledgerVars
    /\ rec' = [rec EXCEPT ![e] = [NoRecord EXCEPT !.status = "prepared", !.gen = captured[r],
                                                  !.mode = m, !.counted = counted,
                                                  !.notional = n, !.intent = i]]
    /\ intentKeys' = IF i = NoIntent THEN intentKeys ELSE [intentKeys EXCEPT ![i] = e]
    /\ blocks' = [blocks EXCEPT ![m] = @ \cup {e}]
    /\ UNCHANGED <<today, closed, fenceVars, captured>>

\* begin(): the permission to send.
Begin(r, e, riskRevision) ==
    LET m == ModeOf[r] IN
    /\ Admitted(r)
    /\ rec[e].status = "prepared"
    /\ rec[e].gen = captured[r]
    /\ rec[e].counted => NewExposureAllowed({e})
    /\ AccountLimits => account[m].revision = riskRevision
                        /\ (rec[e].counted => ~Shut(m))
    /\ rec' = [rec EXCEPT ![e].status = "submission-started", ![e].revision = @ + 1]
    /\ UNCHANGED <<usageVars, closed, intentKeys, fenceVars, captured, account>>

\* unknown(): no outcome is established; claim and block stay.
Unknown(e) ==
    /\ IsUnresolved(e)
    /\ rec[e].revision < MaxRevision
    /\ rec' = [rec EXCEPT ![e].status = "unknown", ![e].revision = @ + 1,
                          ![e].issue = "uncertain"]
    /\ UNCHANGED <<usageVars, closed, intentKeys, fenceVars, captured, account>>

\* claimAttempt(): one bounded recovery lookup is granted.  (nextAttemptAt only
\* delays a claim; a claim may come at any later time.)
ClaimAttempt(e) ==
    /\ IsUnresolved(e) /\ rec[e].status # "prepared"
    /\ rec[e].attempts < MaxAttempts
    /\ rec' = [rec EXCEPT ![e].attempts = @ + 1, ![e].revision = @ + 1]
    /\ UNCHANGED <<usageVars, closed, intentKeys, fenceVars, captured, account>>

\* claimAttempt() once the attempts are spent: the record waits for an operator.
ExhaustAttempts(e) ==
    /\ IsUnresolved(e) /\ rec[e].status # "prepared"
    /\ rec[e].attempts >= MaxAttempts
    /\ rec[e].issue # "attempts-exhausted"
    /\ rec' = [rec EXCEPT ![e].status = "unknown", ![e].revision = @ + 1,
                          ![e].issue = "attempts-exhausted"]
    /\ UNCHANGED <<usageVars, closed, intentKeys, fenceVars, captured, account>>

\* Mutant: a late answer settles an execution again.
SettleableAgain(e, outcome, status, evidence) ==
    /\ IsUnresolved(e) \/ IsResolved(e)
    /\ status = "definite-rejection" => outcome = "release"
    /\ status = "acknowledged" => evidence = "submission"

\* What validateExecutionRiskState accepts of a settlement, with settle()'s own
\* demand that a started execution be reconciled only on evidence.
Settleable(e, outcome, status, evidence) ==
    /\ IsUnresolved(e)
    /\ status = "definite-rejection" => outcome = "release"
    /\ status = "acknowledged" => evidence = "submission"
    /\ status = "reconciled" /\ evidence = "none" =>
           /\ rec[e].status = "prepared" /\ outcome = "release"
           /\ rec[e].revision = 0 /\ rec[e].attempts = 0

\* Mutant: only the excess over the claim is charged.
SettledDifference(x, outcome, n, status, evidence) ==
    [x EXCEPT !.status = status, !.revision = @ + 1, !.evidence = evidence, !.issue = "none",
              !.outcome = outcome, !.charge = IF outcome = "commit" THEN n - x.notional ELSE 0]

\* The record x once settled.
Settled(x, outcome, n, status, evidence) ==
    [x EXCEPT !.status = status, !.revision = @ + 1, !.evidence = evidence, !.issue = "none",
              !.outcome = outcome, !.charge = IF outcome = "commit" THEN n ELSE 0]

\* Mutant: the entry block outlives its execution.
SettleKeepsBlock(e, outcome, n, status, evidence) ==
    LET m == rec[e].mode IN
    /\ Settleable(e, outcome, status, evidence)
    /\ IF rec[e].counted THEN ReconcileClaim(m, ClaimOf(e), outcome, n, e)
                         ELSE UNCHANGED ledgerVars
    /\ rec' = [rec EXCEPT ![e] = Settled(@, outcome, n, status, evidence)]
    /\ closed' = Trim(Append(closed, e))
    /\ UNCHANGED <<today, blocks, intentKeys, fenceVars, captured, account>>

\* settle(): claim, block and record are closed in one transaction.
Settle(e, outcome, n, status, evidence) ==
    LET m == rec[e].mode IN
    /\ Settleable(e, outcome, status, evidence)
    /\ IF rec[e].counted THEN ReconcileClaim(m, ClaimOf(e), outcome, n, e)
                         ELSE UNCHANGED ledgerVars
    /\ blocks' = [blocks EXCEPT ![m] = @ \ {e}]
    /\ rec' = [rec EXCEPT ![e] = Settled(@, outcome, n, status, evidence)]
    /\ closed' = Trim(Append(closed, e))
    /\ UNCHANGED <<today, intentKeys, fenceVars, captured, account>>

\* updateEvidence(): a later observation of a resolved order.  Settlement and
\* quota do not move.  Its caller has orders to compare with, so never a record
\* that an operator resolved or that never reached the exchange.
UpdateEvidence(e) ==
    /\ e \in Retained /\ IsResolved(e)
    /\ rec[e].evidence \in {"submission", "client-id-lookup"}
    /\ rec[e].revision < MaxRevision
    /\ rec' = [rec EXCEPT ![e].status = "reconciled", ![e].revision = @ + 1,
                          ![e].evidence = "client-id-lookup"]
    /\ UNCHANGED <<usageVars, closed, intentKeys, fenceVars, captured, account>>

-----------------------------------------------------------------------------
(* Maintenance: the fence around runtime replacement and account reset *)

\* Mutant: the fence is raised at once, before the account has drained.
FenceAtOnce(r) ==
    /\ Admitted(r)
    /\ generation < MaxGeneration
    /\ fence' = TRUE
    /\ owners' = {r}
    /\ UNCHANGED <<usageVars, recordVars, generation, captured, account>>

\* Mutant: only quota claims hold maintenance back, not unresolved executions.
FenceOverReductions(r) ==
    /\ Admitted(r)
    /\ generation < MaxGeneration
    /\ \A m \in Modes : claims[m] = {} /\ reserved[m] = 0
    /\ fence' = TRUE
    /\ owners' = {r}
    /\ UNCHANGED <<usageVars, recordVars, generation, captured, account>>

BeginMaintenance(r) ==
    /\ Admitted(r)
    /\ generation < MaxGeneration
    /\ Unresolved = {}
    /\ \A m \in Modes : claims[m] = {} /\ reserved[m] = 0
    /\ fence' = TRUE
    /\ owners' = {r}
    /\ UNCHANGED <<usageVars, recordVars, generation, captured, account>>

\* Mutant: a failed installation cancels the fence.
CancelAfterInstall(r) ==
    /\ fence /\ r \in owners
    /\ fence' = FALSE
    /\ owners' = {}
    /\ UNCHANGED <<usageVars, recordVars, generation, captured, account>>

\* Only before the owner has built a successor (context.ts cancels a failed
\* inspection, never a failed installation).
CancelMaintenance(r) ==
    /\ fence /\ r \in owners
    /\ \A s \in Runtimes : captured[s] <= generation
    /\ fence' = FALSE
    /\ owners' = {}
    /\ UNCHANGED <<usageVars, recordVars, generation, captured, account>>

\* byOperator: completeMaintenance was given an evidence reference.
CompleteMaintenance(r, byOperator) ==
    /\ fence /\ captured[r] # -1
    /\ byOperator \/ r \in owners \/ captured[r] = generation + 1
    /\ generation' = generation + 1
    /\ fence' = FALSE
    /\ owners' = {}
    /\ UNCHANGED <<usageVars, recordVars, captured, account>>

-----------------------------------------------------------------------------
(* The rest of the shared state *)

Refresh == RefreshUsage /\ UNCHANGED <<today, blocks, recordVars, fenceVars, captured, account>>

Reset(m) == ResetUsage(m) /\ UNCHANGED <<today, blocks, recordVars, fenceVars, captured, account>>

\* AccountRiskGuard.inspect and block: the verdict on entries, same revision.
AccountVerdict(m) ==
    /\ AccountLimits
    /\ \E blocked \in BOOLEAN :
          /\ account[m].mutation => blocked
          /\ account' = [account EXCEPT ![m].blocked = blocked]
    /\ UNCHANGED <<usageVars, recordVars, fenceVars, captured>>

\* AccountRiskGuard.claim: a cancellation or an account setting is about to change.
ClaimMutation(m) ==
    /\ AccountLimits
    /\ ~account[m].mutation
    /\ account[m].revision < MaxAccountRevision
    /\ account' = [account EXCEPT ![m].mutation = TRUE, ![m].revision = @ + 1]
    /\ UNCHANGED <<usageVars, recordVars, fenceVars, captured>>

\* AccountRiskGuard.finishMutation: the change is established.
FinishMutation(m) ==
    /\ account[m].mutation
    /\ account' = [account EXCEPT ![m].mutation = FALSE, ![m].revision = @ + 1]
    /\ UNCHANGED <<usageVars, recordVars, fenceVars, captured>>

\* The clock.
NextDay ==
    /\ today < MaxDay
    /\ today' = today + 1
    /\ UNCHANGED <<blocks, ledgerVars, recordVars, fenceVars, captured, account>>

-----------------------------------------------------------------------------
JournalNext ==
    \/ \E r \in Runtimes :
          \/ Open(r)
          \/ Halt(r)
          \/ BeginMaintenance(r)
          \/ CancelMaintenance(r)
          \/ \E s \in Runtimes : Install(r, s)
          \/ \E byOperator \in BOOLEAN : CompleteMaintenance(r, byOperator)
          \/ \E e \in Execs : Begin(r, e, account[ModeOf[r]].revision)
          \/ \E e \in Execs, i \in Intents \cup {NoIntent}, n \in Notionals, counted \in BOOLEAN :
                Prepare(r, e, i, n, counted, account[ModeOf[r]].revision)
    \/ \E e \in Execs :
          \/ Unknown(e)
          \/ ClaimAttempt(e)
          \/ ExhaustAttempts(e)
          \/ UpdateEvidence(e)
          \/ \E s \in Settlements, n \in Charges : Settle(e, s[1], n, s[2], s[3])
    \/ Refresh
    \/ NextDay
    \/ \E m \in {ModeOf[r] : r \in Runtimes} :
          Reset(m) \/ AccountVerdict(m) \/ ClaimMutation(m) \/ FinishMutation(m)

JournalSpec == JournalInit /\ [][JournalNext]_journalVars

-----------------------------------------------------------------------------
(* What the journal promises *)

\* Executions that hold a claim on the daily quota of mode m.
Claimants(m) == {e \in Unresolved : rec[e].counted /\ rec[e].mode = m}

\* At most one exposure-increasing execution is unresolved, counting both
\* modes and every process: reserve() refuses while any block exists, and a
\* block lives until its execution settles.
EntryExclusive ==
    \A e, f \in Unresolved : rec[e].counted /\ rec[f].counted => e = f

\* The blocks of a mode are exactly its unresolved executions.  Both are written
\* by several methods; validateExecutionRiskState refuses a state where they differ.
BlocksExact ==
    \A m \in Modes : blocks[m] = {e \in Unresolved : rec[e].mode = m}

\* Quota is reserved for the unresolved entries and for nothing else: no claim
\* outlives its execution, none is lost while it may still trade, across
\* settlement, recovery, day change and reset.
QuotaExact ==
    \A m \in Modes :
        /\ claims[m] = {ClaimOf(e) : e \in Claimants(m)}
        /\ \A e \in Claimants(m) : reserved[m] = rec[e].notional
        /\ Claimants(m) = {} => reserved[m] = 0

\* The daily cap: what was committed and what is reserved never exceeds
\* maxDailyNotional by more than fills exceeded the notional claimed for them.
QuotaHonoured ==
    \A m \in Modes : used[m] + reserved[m] <= MaxDaily + overrun[m]

\* usedDailyNotional is the sum of what was committed since it was last zeroed:
\* every commit is counted, on the day it settles, exactly once.
UsedExact ==
    LET charge == [e \in Execs |-> rec[e].charge] IN
    \A m \in Modes :
        /\ \A e \in charged[m] : rec[e].outcome = "commit" /\ rec[e].counted
        /\ used[m] = SumFunctionOnSet(charge, charged[m])

\* While maintenance is active nothing is unresolved and nothing is reserved, so
\* an account may be reset or an engine replaced.
FenceQuiescent ==
    fence => /\ Unresolved = {}
             /\ \A m \in Modes : claims[m] = {} /\ reserved[m] = 0

\* No execution survives the generation it was prepared in: a runtime of an
\* older generation never finds a record it could still send.
GenerationCurrent ==
    \A e \in Unresolved : rec[e].gen = generation

\* Only an installed successor may be ahead of the stored generation, and only
\* while the fence that installs it is up.
SuccessorFenced ==
    \A r \in Runtimes : captured[r] > generation => fence /\ captured[r] = generation + 1

\* A stable intent trades once: of two executions of one intent at least one
\* settled as released, whatever the bounded history has forgotten.
IntentOnce ==
    \A e, f \in Execs :
        e # f /\ rec[e].intent = rec[f].intent /\ rec[e].intent # NoIntent
            => rec[e].outcome = "release" \/ rec[f].outcome = "release"

\* A settlement is final: late answers, recovery, operators and evidence
\* refreshes never reopen an execution nor change what was charged for it.
SettlementFinal ==
    [][\A e \in Execs : IsResolved(e) =>
          /\ rec'[e].status \in Resolved
          /\ rec'[e].outcome = rec[e].outcome
          /\ rec'[e].charge = rec[e].charge]_journalVars

-----------------------------------------------------------------------------
(* The inductive invariant behind these promises *)

\* Exactly the resolved executions carry a settlement.
SettledExact ==
    \A e \in Execs : IsResolved(e) <=> rec[e].outcome # "none"

\* An intent's key names its only execution that may not have been released.
Tombstones ==
    \A e \in Execs : rec[e].intent # NoIntent =>
        intentKeys[rec[e].intent] = e \/ rec[e].outcome = "release"

\* What is reserved fits the cap by itself: it did when it was reserved, and it
\* is carried over when the live counter restarts.
ReservedFits == \A m \in Modes : reserved[m] <= MaxDaily

JournalInv ==
    /\ JournalTypeOK
    /\ SettledExact
    /\ Tombstones
    /\ BlocksExact
    /\ QuotaExact
    /\ EntryExclusive
    /\ QuotaHonoured
    /\ ReservedFits
    /\ FenceQuiescent
    /\ GenerationCurrent
    /\ SuccessorFenced

\* The sum of charges is over finitely many of them.
ChargedFinite == \A m \in Modes : IsFiniteSet(charged[m])

UsedInv == JournalInv /\ ChargedFinite /\ UsedExact

=============================================================================
