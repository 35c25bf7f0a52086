# TLA+ verification of the Ti-trader trading core

Ti-trader lets a language model and a human operator trade on an exchange. This
directory models the part of it that must not go wrong whatever the model, the
exchange or the machine does: the durable execution journal and the daily quota, order
submission and the recovery of submissions whose outcome is unknown, the account's hard
limits, the supervision of protection, the autonomous daemon, the paper exchange, and
the lock under all of them. Paths below are relative to `src/packages/`.

## 1. Inventory

| Component | State | Operations | Hard behaviour | What makes it correct |
|---|---|---|---|---|
| Risk ledger, `trading-risk/src/risk.ts` | per mode (paper, live): used and reserved notional, reservations, execution blocks; the day of live usage | check, reserve, reconcileReservation, refresh, record, reset | day change under claims in flight, fills above their claim, several processes | quota follows the executions that may trade; the cap holds |
| Execution journal, `trading-engine/src/execution-journal.ts` | records, intent tombstones, admission generation, maintenance fence, protection targets | prepare, begin, unknown, claimAttempt, settle, updateEvidence, begin/cancel/completeMaintenance, claim/finish/retire of repairs | late answers, bounded history, stale runtimes | one entry at a time; settlement is final; an intent trades once; nothing crosses the fence |
| Execution recovery, `trading-engine/src/execution-recovery.ts` | none of its own | recoverJournal, manuallyResolveExecution | races with live confirmers, stale lookups, lost answers, bounded attempts | quota is freed only for what never trades; the oldest unknown record is decided |
| Trading engine, `trading-engine/src/engine.ts` | consumed and in-flight plans | submitWithReservation, cancelOrder, setLeverage, setMarginMode | timeouts, partial writes, crashes between begin and settle | sends only what begin() permitted; a plan that may have traded is spent |
| Account risk guard, `trading-engine/src/account-risk.ts`, `trading-risk/src/account-risk.ts` | per account: revision, blocked reasons, loss memory, pending mutation | inspect, preflight, claim, finishMutation, reconcileMutation | observations overtaken by a mutation, an entry or a newer observation; cancellations whose outcome is lost | a loss trip holds; changes do not overlap; an observed change reopens the account |
| Risk supervisor, `trading-engine/src/risk-supervisor.ts` | none of its own | superviseAccountRisk, controlledRiskClose | repairs whose outcome is unknown, fills between two reads, starvation | a target keeps its repair until the outcome is known; coverage is restored; a target stays as long as its position |
| Durable state and locks, `trading-engine/src/persist.ts`, `trading-agent/src/state.ts` | lock file, state file | acquire, reclaim, release; writeJsonFileDurable | crash with the lock, pids used again, commit reported as failure | transactions are atomic and serial |
| Trading runtime, `trading-agent/src/context.ts` | engine, client, configuration | init, installConfiguration, applyPaperAccountReset, resolveMaintenance | failure after the successor exists | no two generations act on one account |
| Autonomous daemon, `trading-agent/src/autonomous/` | control, events, receipts, wakes, the decision in progress and its actions, unfinished actions, summaries | enqueue, schedule, beginDecision, finishDecision, tick, tool calls, commands | crash inside a decision, late outcomes, deadlines, limits, commands during a tick | events are handled once, in order and at last; a decision that acted is not replayed |
| Paper exchange, `trading-engine/src/paper-client.ts`, `paper-account.ts`, `paper-path.ts` | a spot and a futures account file, a transaction file | place, place OCO, replace, cancel, settle, reset | a stop between two writes, groups that share a reservation, a refusal half way | the spot account's funds are conserved; groups end together; both files change or none |
| Triggers and monitors, trade plans, decision evidence | monitoring store, plan store, archive | evaluate, record, archive | stale references | not modelled (section 7) |

Components interact through one shared state file: every journal, ledger and guard
operation is a transaction on it under the state lock; engines of several processes
(terminal, daemon, tools) use it at the same time. Calls to the exchange happen
between transactions and may outlive the process that made them. The daemon keeps its
own state in the monitoring store and calls the engine, the guard and the supervisor.

## 2. Modules

| Module | Models | Composes |
|---|---|---|
| `RiskUsage` | the ledger operations the journal's transactions contain | |
| `ExecutionJournal` | every journal call as one atomic step, by any instance of any process | extends `RiskUsage` |
| `OrderRecovery` | placement requests, orders and lookups; `recoverJournal`, operators, crashes, supervision | extends `ExecutionJournal` |
| `TradingEngine` | `submitWithReservation` step by step | extends `OrderRecovery` |
| `AccountRisk` | observations, entries, cancellations, settings and reconciliation on one account | entries as in `TradingEngine`, reduced to prepare, begin, settle |
| `RiskSupervisor` | a supervision pass over protection targets, with the entries of other processes and the exchange | submission reduced in the same way |
| `OnceDelivery` | the abstract promise of event delivery | |
| `Autonomous` | the daemon: state, tick, rounds, tools, commands, start and end | implements `OnceDelivery` |
| `PaperExchange` | account operations and their durable writes | |
| `FileLock` | the lock file of `persist.ts` and `transactTradingState` under it | stands below the others: why a transaction may be one step |
| `ExecutionJournal_proofs`, `TradingEngine_proofs`, `AccountRisk_proofs`, `RiskSupervisor_proofs`, `Autonomous_proofs`, `PaperExchange_proofs`, `FileLock_proofs` | theorems about the module they are named after; those about `OrderRecovery` are in `TradingEngine_proofs` | the second builds on the first like their modules |
| `FiniteSums` | lemmas about sums over finite sets, used by the proofs about usage, balances and cover | |
| `MC*` | constants for TLC | |

Two refinements form a chain: `EngineSpec` (how the engine really submits) implements
`RecoverySpec` (what recovery assumes of a submitter), which implements `JournalSpec`
(any caller of the journal). Both are proved, so what is proved of `JournalSpec` holds for
the engine, for all parameters (`EngineKeepsJournal`). A third, proved as well: `AutonomousSpec` implements
`OnceDelivery`, by a refinement mapping that reads the queue, the decision and the round
of the daemon.

State and code.

* Journal. `rec[e]` is the record of execution `e`, with the record's own fields;
  `closed` is the order in which resolved records are kept, since `settle()` moves the
  record to the end and trims. A record that was trimmed keeps its last value in `rec` as
  history, no guard reads it. `claims`, `used`, `reserved`, `blocks` are the two
  `RiskUsageState`s. `charged` and `overrun` are history variables. `fence`,
  `generation`, `owners`, `captured` are `maintenance`, `admissionGeneration`, the
  instances' `ownedMaintenance` and captured generations.
* Recovery and engine. `lookupable` are the executions whose order kind the client can
  look up by client id; the others go to an operator at once. `wire`, `order`, `reply`
  are the exchange's side; `look` is the local state of one recovery pass. `pc`, `exec`,
  `seen`, `riskRevision` are the local variables of `submitWithReservation`.
* Guard. The revision is only ever compared, so `current` is the set of processes whose
  revision is the stored one; `holders` are those that know the id of the pending
  mutation; `seen` orders by time the observations that are not stored yet. `lost`
  is a history variable. The arithmetic of `assessAccountRisk` is a choice (`breach`), the
  loss limits are one bit.
* Supervisor. `targets`, `repair`, `failures` are `protections` with
  `lastRepairIntentId` and `failures`; `view` is the snapshot a pass holds, with the
  executions it has listed; `fresh` says whether its revision is the stored one. The
  observation, its store, `listExecutions()` and `protectionTargets()` are steps of their
  own, between which others act. Any number of entries of one symbol and side: one that
  is committed removes the others' targets, as `settle()` does
  (`execution-journal.ts:986-996`). The position, stops and closes have sizes. What
  `settle()` does for a replacement stop (lines 997-1012: the target's `stopPrice` moves and
  its failures are forgotten) is not modelled.
* Daemon. The durable variables are the fields of `AutonomousState`; an event's id is its
  number. `boot` and `tick` are the control flow of `runDaemon`, `run` and `tick`, `round`
  the model task and its abort signal, `executing` the tool calls whose execution has not
  ended. `acted`, `timedOut`, `fired` are history variables. A "settled" action is one
  the code calls completed or failed.
* Paper exchange. `mem` are the accounts of the operation that has the lock, `todo` the
  durable writes that are left of its save; `Stop` between any two of them is a crash or a
  failed write. `dirty` are the accounts that settlement looked at and saves, `replaced` the
  orders canceled in memory for the order about to be placed. `whole` and `asked` are
  history variables. Orders have an amount of one, prices are naturals, `Fee` gives the fee
  of a trade at each price. Of the futures account only the orders are kept, with their
  status: which of them a changed position leaves as orphans or stale, and whether one that
  fires finds its margin, is left open, and there is no futures money in the model. A
  replacement cancels any number of orders of one side and places a resting or a market
  order of that side. `Open` is the reload of two files that are there and in the configured
  quote currency; the branches of `reloadAccountsUnlocked` for a missing futures file or
  another quote (`paper-client.ts:286-322`), which put a fresh account in memory, are not
  modelled. Nor is liquidation: it closes positions, saves the futures file and enters
  orders named `liquidation-N`, which are outside the numbers `NextId` is about.
* Lock. `pc` is where a process is in acquire, operation or release, `owner` and
  `written` are the lock file and its content, `linked` whose open handle it is (device
  and inode in the code), `gate` the `.reclaim` file, `suspect` the pid a reclaimer read,
  and the state file is a counter that every transaction increments. `outdated` and
  `astray` are history variables.

Abstractions. Amounts are naturals (floats, and the epsilon the ledger's subtraction
forgives, are not modelled). An account is identified with its mode: two accounts of one
mode share the quota and differ for recovery only in that neither touches the other's
records. Market preflight, confirmation dialogue and evidence matching are a choice
between passing and failing. Back-off and poll times only delay a step.

## 3. Runs

| Run | Shows | Bounds |
|---|---|---|
| `journal_quota` | types, exclusive entry, exact blocks, claims and usage, daily cap, quiet fence, current generations, fenced successors | both modes, two executions, two instances, two replacements, two days; charges below and above the claim; a cap that one claim nearly fills |
| `journal_intents` | an intent trades once; settlements are final | a history of one record and three executions of one intent, so that a tombstone outlives its record |
| `recovery_races` | the oldest unknown record is decided; one entry at a time can trade | two executions, so that a reduction or an entry waits behind an unknown record whose attempts may be spent; the first can be looked up, once, the second cannot; one process that crashes, restarts and is replaced |
| `engine_submission` | the engine implements the recovery's submitter and the journal's caller; a plan that may have traded is spent; no lost order; isolation behind the fence | two processes, one submitting a plan on an execution that can or cannot be looked up, both recovering, resolving and replacing each other; account limits on, writes that fail after they are published, crashes |
| `lock_protocol` | one process inside the lock, no lost update, with the exception stated below; a dead owner's lock is reclaimed or is a case for an operator | two processes (any number in the proofs), three ends or failed file operations, so that all may be down and an operator cleans up |
| `autonomous_events` | the stored state validates, outcomes find their place, a timeout ends mutations, wakes fire once, events are delivered once, events are handled | two events, queue and summaries of one (so that events are dropped and receipts compacted), two attempts, two actions, one wake (cancelled, fired and evaluated again; two wakes, where one replaces the other, pass as well but take twice as long: replacement is left to the theorem) |
| `account_guard` | changes do not overlap, a loss trip holds, a lost cancellation is observed at last | two processes and a reconciler, one order, one setting: every pair of operations overlaps |
| `supervisor_repairs` | a target that is seen uncovered gives up a repair only when its outcome is known; coverage is restored | two entries after each other, the second of which takes over the target of the first; two exits, one attempt, a holding of one |
| `paper_accounts` | the spot account's funds are conserved, groups are whole, saves are whole, refused replacements change nothing, ids are distinct | four orders over both accounts (a group, and two more; a replacement of two), two prices with different fees |
| `recovery_intent_reuse` | violation: the lookup for a reused intent finds the earlier order | |
| `supervisor_target` | violation: the target of an open position is retired | one entry, two exits, two attempts |
| `lock_exit_race` | violation: a late reclaimer removes a live lock | three processes |

The bounds `MaxRevision`, `MaxGeneration`, `MaxAccountRevision`, `MaxDay`, `MaxSequence`,
`MaxActions`, `MaxWakes`, `MaxOrders` cut unbounded counters; each is large enough for one
more step than the scenario needs (a stale revision, a replaced generation, a new day, an
event behind the one being decided). Executions are symmetric in the journal's runs and
processes in `lock_exit_race`; the others declare no symmetry, and where several unused
executions, entries or exits are alike the model takes a fixed one. Counters the code only compares with a limit
(attempts, failures) are counted up to it.

`CHECK_DEADLOCK` is on everywhere: some process can always end, start or observe.

Fairness.

* `LiveRecoverySpec`: a process that ended is started again; a lookup that was claimed
  ends, because `boundedLookup` races it with a timer; and the supervisor of a runtime
  that is up again and again gets its turn (strong fairness, since crashes keep disabling
  it). Nothing is assumed of the exchange, submitters or operators.
* `LiveAccountSpec`: every pass of supervision calls `reconcileMutation`; a lookup repeated
  for ever is answered at last, and its process is not stopped every time before it stores
  the answer. Nothing is assumed of the operations that reconciliation races with.
* `LiveSupervisorSpec`: passes follow each other, each call of a pass gets through if it is
  tried again and again, requests reach the exchange or are lost, and unknown orders
  are resolved (recovery or an operator). `CoverageRestored` excuses a target whose
  attempts are spent and one that was retired (`supervisor_target`).
* `LiveAutonomousSpec`: the main loop goes on, because `withDeadline` bounds supervision and
  the facts of wakes; a model answers or meets its deadline and a child that does not end
  is killed; a back-off passes. Nothing is assumed of tool calls or of the operator.
  `EventHandled` excuses a daemon that is down, paused or stopped.
* `FairSpec` of the lock: living processes are scheduled; `Atomics.wait` between attempts
  always returns.

## 4. Findings

* `recovery_intent_reuse`. A released intent may be executed again and keeps its client
  order id. A lookup for the second execution can answer with the voided order of the
  first, and the second is released although its own request may still trade.
* `supervisor_target`. A pass observes the account and then reads the executions. An
  entry that was on its way when the account was asked and is committed before the
  executions are read counts as resolved while the snapshot shows no position: its target
  is retired and the position is not protected any more. A settlement does not change the
  revision that `inspect()` compares. There is a second way: the executions are listed
  (`risk-supervisor.ts:59`) before the targets are read (`:60`), and an entry prepared in
  between has a target that seems to have no execution. `SupervisorTargetKept` proves that
  there is no third.
* `lock_exit_race`. `reclaimDeadOwner` reads the owner, probes it and then removes
  whatever lock is at the path. An owner that released and exited in between, and a
  successor that acquired, lose the successor its live lock. The gate serializes
  reclaimers, not owners. `lock_protocol` and the proofs show that this is the only gap.

Two places where the code departs from what the repository says of it. No run is about them; the
properties say what does hold:

* "Each repair receives a new stable logical identity; unknown repairs never advance it"
  (`execution-journal.ts:152`). But a position that is seen covered finishes the claimed
  repair whatever became of it (`risk-supervisor.ts:90`), which advances the generation
  while its outcome may be unknown; uncovering the position again starts another repair,
  and there may be two stops for one position. `RepairKept` is therefore about a position
  that is seen uncovered. (Also, the claim is per target: while an entry is unresolved,
  a symbol may have two targets, and the repair of the second is submitted while the
  outcome of the first one's is unknown.)
* "Exact event receipts and intent tombstones are retained independently of bounded
  summaries; automatic identity-index compaction is not implemented"
  (`docs/autonomous-trading.md:211`). But `compactReceipts` (`autonomous/state.ts:72`) drops
  event receipts. `StateValidates` shows that this is safe for everything that is still
  referenced.

Observations that no statement of the repository decides, and that no run is about:

* Supervision passes `maxRecords: 1`; a record whose attempts are spent stays first in the
  list and hides younger unknown records until an operator resolves it
  (`risk-supervisor.ts:38`). `OldestDecided` says what does hold.
* `riskRevision` is read in a load of its own after `prepare()` (`engine.ts:723`); an account
  mutation that another process finished in between is accepted by `begin()`. `TradingEngine`
  has the separate read; `AccountRisk` reads the revision with `prepare()`, in one step. No
  property forbids the gap.
* A leverage or margin mode that the exchange definitely refuses leaves its mutation
  pending (`engine.ts:412`): reconciliation waits for a value that is never observed. And
  a setting that was the account's before is "observed" although the request is still on
  its way. `MutationExclusive` and `CancellationObserved` are therefore about
  cancellations.
* A stop command that arrives while a tick awaits supervision is overwritten by the pause
  of the last allowed failure (`autonomous/runtime.ts:118`): the daemon stays up, paused.
* `refreshFuturesOpeningReserves` cancels stale futures orders in memory
  (`paper-client.ts:1387`) and nothing marks the account for saving. If no other futures
  order is open and the operation saves the spot account only, or nothing, the cancellation
  is not stored; the next operation finds the order open and judges it again.

## 5. Proofs

`ExecutionJournal_proofs` proves for every set of instances, executions and intents,
every limit and every bound:

* `JournalInvariant`: `JournalSpec => []JournalInv`;
* its consequences `JournalTypeCorrect`, `EntryIsExclusive`, `QuotaFollowsExecutions`,
  `BlocksFollowExecutions`, `DailyCapHolds`, `FenceIsQuiescent`, `GenerationsAreCurrent`,
  `SuccessorsAreFenced`, `IntentTradesOnce`;
* `SettlementsAreFinal`, an action property, from the same invariant;
* `UsageIsExact`: the usage of a mode is the sum of what its commits were charged since it
  was last zeroed, each once.

The safety properties are not inductive alone. Exclusive entry needs exact blocks
(`reserve()` consults blocks, not records); exact quota needs exclusive entry (`reserved`
is one number, and equals one claim only if there is one); the cap needs `ReservedFits`,
because `used` restarts on a new day while `reserved` is carried over; the fence needs
generations and generations the fence; `IntentOnce` needs `Tombstones`: the key of an
intent names the only execution that may not have been released, even when its record
is gone. `JournalInv` is their conjunction. The assumptions are those of the modules:
distinct "none" values, natural limits, a history of at least one record.

The argument has one lemma per action. Actions that keep every execution in its class
(unresolved, resolved) share `ViewStep` and `TouchStep`; actions that leave the records
alone share `FrameStep`; `PrepareStep` and `SettleStep` are the real work. `UsageIsExact` has
an invariant of its own on top, `UsedInv`: the charged executions of a mode are finitely many
(`ChargedFinite`, by steps, so the set of executions need not be finite), committed and
counted, so a second settlement finds nothing to add.

`FiniteSums` has what such proofs need of sums: that a sum is a natural number, that one
element more adds its value, one less takes it away, and that equal values give equal
sums. Induction over sets is out of the
provers' reach; each lemma takes a smallest counterexample instead and removes one
element from it.

`FileLock_proofs` proves for any number of processes and faults `LockTypes`,
`LockExclusive` and `LockSerializes`: at most one process is inside the lock and no
update is lost as long as no reclaimer removed another file than the one it had read.
The inductive invariant `LockInv` adds that a living handle belongs to a process inside
(`HandlesRight`), that a judgement not outdated is about the file at the path
(`JudgementRight`), and that who is inside owns that file and works on the stored state
(`OwnerInside`). It assumes natural bounds and a "no process" that is none of the
processes.

`AccountRisk_proofs` proves for any number of processes, entries and settings
`AccountInvariant` and from it `AccountTypeCorrect`, `MutationsAreExclusive` and `TripsHold`
(an action property). `MutationExclusive` is not inductive: `AccountInv` adds whose mutation
is pending (a process that knows its id is making it, and what reconciliation found
resolved can take effect no more: `Holders`, `Reconciling`), and that an entry being
prepared or on its way is nobody's cancellation (`Entering`, `EnteringOnce`, `Canceling`,
`Apart`, `InFlight`). `TripsHold` rests on `Tripped`: a stored loss is latched, and `begin()`
reads the latch. The assumptions: entries and settings are distinct, the reconciler is
none of the processes.

`TradingEngine_proofs` proves of recovery, for any set of processes, executions and intents,
`RecoveryInvariant`, and from it that recovery implements the journal
(`RecoveryImplementsJournal`), and:

* `RecoveryLosesOnlyMisread`, without a hypothesis: a released execution whose order may
  trade was released by a lookup that two executions of one intent share. So the
  finding `recovery_intent_reuse` is the only way to lose an order;
* `RecoveryNoLostOrder`, `RecoveryOneEntryInFlight`, `RecoveryFenceIsolation` under
  `[]UniqueClientIds`, no intent is submitted twice. Without it they are false, as the
  run shows.

`RecoveryInv` adds to `JournalInv` that nothing is sent of a record `begin()` has not seen
(`SentBegun`), that a final answer is still true when it is applied (`AnswersTrue`), that
what a lookup found is an order of its execution or of one that shares its id
(`LookupsTrue`) and that a request under way belongs to an unresolved record
(`SentUnresolved`). The journal's own part needs no new work: every step is a journal step
or none (`RecoveryMaps`), so `JournalStep` carries over.

Of the engine it proves for any set of plans `EngineInvariant`, `EngineImplementsRecovery`,
`EngineSentPlanSpent`, and `EngineSafeWithoutIntents`: with plans that carry no stable intent
the three properties above hold of the engine unconditionally. Through the two refinements
the engine inherits the journal's promises (`EngineKeepsJournal`) and, for plans that do
share an intent, `EngineLosesOnlyMisread`. `EngineInv` adds who owns which execution (`PlanOwnsExecution`: a plan
that has not submitted has sent nothing, and no two plans share an execution) and that
intents in records come from plans.

`Autonomous_proofs` proves for every limit on queue, receipts, summaries, attempts, actions
and wakes `AutonomousInvariant`, its consequences `AutonomousStateValidates`,
`AutonomousProgressKept`, `AutonomousTimeoutEnds`, `AutonomousWakeOnce`, and the refinement
`AutonomousDeliversOnce`. `AutonomousInv` adds that queued events are in the order of their
numbers (`Ordered`, compaction drops receipts from the low end), that an action that
is not settled is the last one (`OpenLast`), that a timeout blocks later mutations as long
as its decision is stored (`TimeoutsBlock`), that a decision that acted says so
(`ActedOnRecord`), that the round works on the decision that is stored (`RoundsExact`) and
that a fired wake is spent (`SpentWakes`). The proof splits it into four groups by the
variables they read, and has one lemma per action and group that the action disturbs.
It assumes that "none" is no decision (`NoDecisionAssumption`). `AutonomousHandlesOnce`
says what the refinement means for the daemon's own state: no accepted event is queued
again, a decision starts on the oldest queued event and takes it off the queue, and a
decision that acted gets no other round.

`RiskSupervisor_proofs` proves for any set of entries and exits and any holding
`SupervisorInvariant` and `SupervisorKeepsRepair`. `SupervisorInv` adds how far the exit that a
pass submits has come (`SubmissionKnown`: its record cannot have been resolved behind the
pass's back while it is prepared or sent), that a claimed repair is a stop for its
target, and the repair being submitted is the claimed one unless another entry took the
target over (`ClaimsTrue`), and that whatever has a target was submitted (`TargetsRecorded`).

`SupervisorTargetKept` bounds the finding `supervisor_target`: `TargetKept` holds of every
behaviour in which no entry is committed between a pass's observation and its listing of
the executions, and none is prepared between that listing and the reading of the targets
(`NothingUnseen`). The condition is about these two windows, and the counterexample of the
run is a behaviour that breaks it; entries may be prepared and settle at any other time,
each commit takes the others' targets, and crashes, timeouts, repairs, cancellations and
fills are not restricted. The invariant is `TargetsInv`. An unresolved entry has a target,
and there is one at most (`EntriesTracked`); a holding, or a resting order that may become
one, has the target of an entry that was or will be committed (`Guarded`); after an
observation of an empty account, whatever trades is unresolved (`SeenTracked`), so it is not
among the entries the pass then lists as resolved, which are the only ones it may retire
(`PassTracked`, also while a repair is submitted in between). The set of orders is assumed
finite, because cover is a sum over it.

`PaperExchange_proofs` proves for any number of orders, any prices and balances
`PaperInvariant` and from it `PaperSavedWhole`, `PaperOcoWhole`, `PaperIdsDistinct`,
`PaperCanceledAsAsked`, and with a second invariant `PaperFundsExact`. `SavedWhole` speaks of moments at which nothing is being written;
`PaperInv` says of every moment which writes are left and what the files then hold
(`WritesComplete`), so that recovery from the transaction file completes what a stop
interrupted, that an account that is not being saved has given the ids its file has
(`SameIds`: a save of the other account alone leaves no id behind), and that the accounts in memory are as sound as those on disk (`Sound`). It
assumes that "none" is not a pair of accounts (`NoAccountsAssumption`). That a nonempty set of
orders has a last one is proved from the well-foundedness of the naturals (`MaxExists`), by
a minimal counterexample.

`FundsExact` is about the stored spot account. `FundsInv` says the same of the one in memory,
that an order's price is within what it reserves and that the legs of a group have one
side and reserve the same (`LegsAlike`: any leg that ends gives back what they share).
The proof follows the sums: a placement adds a reservation, a fill or cancellation takes
it away, a replacement exchanges one. It assumes of the fee that it is at most the price
and does not fall with it, which the code ensures by demanding a rate in [0, 1)
(`paper-client.ts:145`): above the price, the fee of a sale would overdraw the account.

TLC checked every inductive invariant on a small instance before it was proved (`TargetsInv`
with the condition as an action constraint).

Only model-checked:

* liveness under fairness: `OldestDecided`, `DeadOwnerReclaimed`, `EventHandled`,
  `CancellationObserved`, `CoverageRestored`;
* the three findings, which are violations of what the runs state.

Every invariant and every other action property of a passing run is stated by a theorem.

## 6. Plan

1. Archive retention of referenced executions; standalone reservations of the ledger.
2. Trigger evaluation, monitoring and plan stores; liquidation on the paper exchange.

## 7. Not modelled

Most of the repository is not trading logic: of about 185 000 lines the agent platform
(sessions, model providers, terminal rendering, packages, exports) is more than nine
tenths. It changes no trading state except through the components above, and its own
correctness is a matter of formats, prompts and rendering. The models cover the
trading core: `risk.ts`, `execution-journal.ts`, `execution-recovery.ts`, `engine.ts`,
`account-risk.ts`, `risk-supervisor.ts`, `persist.ts`, `paper-client.ts`, `context.ts` and
`autonomous/`, where state, concurrency and failure meet.

Of the trading packages the following are left out: adapters to live venues (field
mapping); order planning and risk arithmetic (stateless, on floats); price paths,
futures money, liquidation and reset of the paper exchange; trigger evaluation, trade plans, decision evidence and
archive retention; removal of locks for their age (every trading caller passes an
infinite age); loss of unsynced data at power failure; terminal interface, prompts and
translations.
