------------------------------ MODULE RiskUsage ------------------------------
(***************************************************************************)
(* The accounting half of the durable trading state (trading-risk,         *)
(* src/risk.ts): per trading mode the notional used today, the notional    *)
(* reserved by claims in flight, the claims themselves and the executions  *)
(* that block new exposure.  Every operator below is the body of one       *)
(* RiskLedger.transact call; the store runs it under the state lock, so it *)
(* is one atomic step.  The operators leave `blocks' to their caller: only *)
(* the execution journal writes it, in the same transaction.               *)
(*                                                                         *)
(* Amounts are naturals: the ledger's binary floats and the epsilon its    *)
(* subtraction forgives are not modelled.  Symbols, allowlists and the     *)
(* audit trail do not influence any of the guards kept here.               *)
(***************************************************************************)
EXTENDS Integers, FiniteSets

CONSTANTS
    Execs,      \* identities drawn from randomUUID: executions and their claims
    NoExec,     \* "no execution": an unlinked claim, an unused intent key
    MaxDaily,   \* risk.maxDailyNotional
    MaxOrder    \* risk.maxOrderNotional

Modes == {"paper", "live"}

ASSUME RiskUsageAssumption ==
    /\ NoExec \notin Execs
    /\ MaxDaily \in Nat
    /\ MaxOrder \in Nat

VARIABLES
    today,      \* the UTC day the clock shows
    date,       \* live.date: the day live.usedDailyNotional belongs to
    used,       \* usedDailyNotional, per mode
    reserved,   \* reservedDailyNotional, per mode
    claims,     \* reservations, per mode
    blocks,     \* executionBlocks, per mode
    charged,    \* history: the claims whose commits are in used, per mode
    overrun     \* history: by how much those commits exceeded their claims

ledgerVars == <<date, used, reserved, claims, charged, overrun>>
usageVars == <<today, blocks, date, used, reserved, claims, charged, overrun>>

Claim == [id : Execs, notional : Nat, exec : Execs \cup {NoExec}]

UsageTypeOK ==
    /\ today \in Nat
    /\ date \in Nat
    /\ used \in [Modes -> Nat]
    /\ reserved \in [Modes -> Nat]
    /\ claims \in [Modes -> SUBSET Claim]
    /\ blocks \in [Modes -> SUBSET Execs]
    /\ charged \in [Modes -> SUBSET Execs]
    /\ overrun \in [Modes -> Nat]

UsageInit ==
    /\ today = 0
    /\ date = 0
    /\ used = [m \in Modes |-> 0]
    /\ reserved = [m \in Modes |-> 0]
    /\ claims = [m \in Modes |-> {}]
    /\ blocks = [m \in Modes |-> {}]
    /\ charged = [m \in Modes |-> {}]
    /\ overrun = [m \in Modes |-> 0]

-----------------------------------------------------------------------------
\* refreshDraft: live usage restarts at zero on a new day and its claims are
\* carried over; paper usage never resets by itself.
Rolled(m) == m = "live" /\ date # today

\* Mutant: yesterday's usage is carried into today.
StaleUsed(m) == used[m]

FreshUsed(m) == IF Rolled(m) THEN 0 ELSE used[m]
FreshCharged(m) == IF Rolled(m) THEN {} ELSE charged[m]
FreshOverrun(m) == IF Rolled(m) THEN 0 ELSE overrun[m]

\* assertNewExposureAllowed: no execution of either mode is unresolved, the
\* caller's own excepted.
NewExposureAllowed(except) == \A m \in Modes : blocks[m] \subseteq except

\* Mutant: reserve() asks only its own mode for unresolved executions.
OwnModeOnly(m, n) ==
    n > 0 /\ n <= MaxOrder /\ blocks[m] = {} /\ FreshUsed(m) + reserved[m] + n <= MaxDaily

\* Mutant: the daily cap is compared before the order is added.
CapCheckedBefore(m, n) ==
    n > 0 /\ n <= MaxOrder /\ NewExposureAllowed({}) /\ FreshUsed(m) + reserved[m] <= MaxDaily

\* validateOrder and the checks inside reserve()'s transaction.
WithinLimits(m, n) ==
    /\ n > 0 /\ n <= MaxOrder
    /\ NewExposureAllowed({})
    /\ FreshUsed(m) + reserved[m] + n <= MaxDaily

\* reserve() with countTowardsDailyLimit: the caller's claim id is fresh.
ReserveClaim(m, id, n, exec) ==
    /\ WithinLimits(m, n)
    /\ date' = IF m = "live" THEN today ELSE date
    /\ used' = [used EXCEPT ![m] = FreshUsed(m)]
    /\ charged' = [charged EXCEPT ![m] = FreshCharged(m)]
    /\ overrun' = [overrun EXCEPT ![m] = FreshOverrun(m)]
    /\ reserved' = [reserved EXCEPT ![m] = @ + n]
    /\ claims' = [claims EXCEPT ![m] = @ \cup {[id |-> id, notional |-> n, exec |-> exec]}]

\* reconcileReservation: settles the claim c of mode m.  The live counter is
\* rolled over first, whichever mode the claim is in, and a commit is charged
\* to the day on which it settles.
ReconcileClaim(m, c, outcome, n, exec) ==
    /\ c \in claims[m]
    /\ c.exec = exec
    /\ reserved[m] >= c.notional
    /\ date' = today
    /\ used' = [k \in Modes |->
                   FreshUsed(k) + (IF k = m /\ outcome = "commit" THEN n ELSE 0)]
    /\ charged' = [k \in Modes |->
                   FreshCharged(k) \cup (IF k = m /\ outcome = "commit" THEN {c.id} ELSE {})]
    /\ overrun' = [k \in Modes |->
                   FreshOverrun(k) + (IF k = m /\ outcome = "commit" /\ n > c.notional
                                      THEN n - c.notional ELSE 0)]
    /\ reserved' = [reserved EXCEPT ![m] = @ - c.notional]
    /\ claims' = [claims EXCEPT ![m] = @ \ {c}]

\* Mutant: a new day forgets the claims in flight.
RefreshDropsClaims ==
    /\ Rolled("live")
    /\ date' = today
    /\ used' = [used EXCEPT !["live"] = 0]
    /\ charged' = [charged EXCEPT !["live"] = {}]
    /\ overrun' = [overrun EXCEPT !["live"] = 0]
    /\ reserved' = [reserved EXCEPT !["live"] = 0]
    /\ claims' = [claims EXCEPT !["live"] = {}]

\* refresh(), run by check(), usage() and listPendingReservations().
RefreshUsage ==
    /\ Rolled("live")
    /\ date' = today
    /\ used' = [used EXCEPT !["live"] = 0]
    /\ charged' = [charged EXCEPT !["live"] = {}]
    /\ overrun' = [overrun EXCEPT !["live"] = 0]
    /\ UNCHANGED <<reserved, claims>>

\* reset(): refused while the mode has unresolved executions or claims.
ResetUsage(m) ==
    /\ blocks[m] = {}
    /\ claims[m] = {} /\ reserved[m] = 0
    /\ date' = IF m = "live" THEN today ELSE date
    /\ used' = [used EXCEPT ![m] = 0]
    /\ charged' = [charged EXCEPT ![m] = {}]
    /\ overrun' = [overrun EXCEPT ![m] = 0]
    /\ UNCHANGED <<reserved, claims>>

=============================================================================
