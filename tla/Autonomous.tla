------------------------------ MODULE Autonomous ------------------------------
(***************************************************************************)
(* The autonomous daemon of trading-agent (src/autonomous): durable events *)
(* (state.ts), the supervision and decision loop (runtime.ts), the tool    *)
(* calls of a model round (tools.ts, model-process.ts) and its start, stop *)
(* and commands (daemon.ts).  The daemon may die at any step; its state is *)
(* what AutonomousStore.mutate committed.                                  *)
(*                                                                         *)
(* An event's id is the number of events minted before it: every id of the *)
(* code (a uuid, a time, a trigger's revision, the sequence itself) is new *)
(* when it is minted.  Back-off and poll times only delay a step.          *)
(***************************************************************************)
EXTENDS Integers, Sequences, FiniteSets

CONSTANTS
    None,           \* no decision, no blocking action
    Kinds,          \* kinds of observation events: position, fill, risk
    Reports,        \* sequences of kinds one report may change, in the order of observe()
    QueueLimit,     \* events that may wait (256)
    SummaryLimit,   \* summaries that are kept (100)
    Attempts,       \* config.maxAttempts
    MaxActions,     \* bound: actions on record, of the decision and unfinished
    MaxSequence,    \* bound: events minted
    MaxWakes        \* bound: wake revisions scheduled

ASSUME AutonomousAssumption ==
    /\ None \notin Nat
    /\ Kinds \cap {"start", "wake"} = {}
    /\ Reports \subseteq Seq(Kinds)
    /\ QueueLimit \in Nat \ {0}
    /\ SummaryLimit \in Nat \ {0}
    /\ Attempts \in Nat \ {0}
    /\ MaxActions \in Nat /\ MaxSequence \in Nat /\ MaxWakes \in Nat

VARIABLES
    \* durable
    control,        \* running, paused or stopped
    sequence,       \* events ever minted
    events,         \* the queue
    receipts,       \* ids of events that may still be referenced
    decision,       \* the event being decided, its attempts and its actions, or None
    unfinished,     \* unfinishedActions: of closed decisions, outcome open when they closed
    summaries,      \* event ids of the last closed decisions
    wakes,          \* per trigger revision: its state
    \* the daemon process
    boot,           \* how far start or stop has come
    tick,           \* the next step of AutonomousRuntime.tick
    pollFailures,   \* consecutive failures of supervision
    due,            \* wakes whose facts evaluateWakes is fetching
    round,          \* the model task
    executing,      \* mutating tool calls whose execution has not ended
    \* history
    acted,          \* whether a mutation was executed for the open decision
    timedOut,       \* its mutations that timed out
    fired           \* per trigger revision: how often it fired

durableVars == <<control, sequence, events, receipts, decision, unfinished, summaries, wakes>>
processVars == <<boot, tick, pollFailures, due, round, executing>>
historyVars == <<acted, timedOut, fired>>
autonomousVars == <<durableVars, processVars, historyVars>>

Revisions == 1..MaxWakes
Controls == {"running", "paused", "stopped"}
EventKinds == Kinds \cup {"start", "wake"}
Statuses == {"started", "unknown", "settled"}   \* settled: completed or failed
Open == {"started", "unknown"}
NoRound == [at |-> "idle", event |-> 0, aborted |-> FALSE]

Event == [id : Nat, kind : EventKinds]
Decision == [event : Nat, attempts : Nat, actions : Seq(Statuses), blocked : BOOLEAN]

ASSUME NoDecisionAssumption == None \notin Decision

AutonomousTypeOK ==
    /\ control \in Controls
    /\ sequence \in Nat
    /\ events \in Seq(Event)
    /\ receipts \in SUBSET Nat
    /\ decision \in Decision \cup {None}
    /\ unfinished \in SUBSET [event : Nat, index : Nat, status : Statuses]
    /\ summaries \in Seq(Nat)
    /\ wakes \in [Revisions -> {"unused", "active", "spent", "gone"}]
    /\ boot \in {"down", "locked", "initialized", "activated", "up", "halting", "stopping"}
    /\ tick \in {"control", "poll", "wakes", "begin"}
    /\ pollFailures \in Nat
    /\ due \in SUBSET Revisions
    /\ round \in [at : {"idle", "running", "done", "failed"}, event : Nat, aborted : BOOLEAN]
    /\ executing \in SUBSET (Nat \X Nat)
    /\ acted \in BOOLEAN
    /\ timedOut \in SUBSET Nat
    /\ fired \in [Revisions -> Nat]

\* newAutonomousState
AutonomousInit ==
    /\ control = "stopped"
    /\ sequence = 0
    /\ events = <<>>
    /\ receipts = {}
    /\ decision = None
    /\ unfinished = {}
    /\ summaries = <<>>
    /\ wakes = [w \in Revisions |-> "unused"]
    /\ boot = "down"
    /\ tick = "control"
    /\ pollFailures = 0
    /\ due = {}
    /\ round = NoRound
    /\ executing = {}
    /\ acted = FALSE
    /\ timedOut = {}
    /\ fired = [w \in Revisions |-> 0]

Ids(s) == {s[k].id : k \in 1..Len(s)}
KindsOf(s) == {s[k].kind : k \in 1..Len(s)}
IdSeq(s) == [k \in 1..Len(s) |-> s[k].id]
Members(s) == {s[k] : k \in 1..Len(s)}

Deciding(e) == decision # None /\ decision.event = e

-----------------------------------------------------------------------------
(* Events: state.ts *)

\* enqueueAutonomousEvent for the kinds ks in turn: what finds the queue full is
\* dropped.
Enqueue(ks) ==
    LET room == QueueLimit - Len(events)
        n == IF Len(ks) <= room THEN Len(ks) ELSE room
    IN  /\ sequence + n <= MaxSequence
        /\ events' = events \o [j \in 1..n |-> [id |-> sequence + j - 1, kind |-> ks[j]]]
        /\ receipts' = receipts \cup (sequence .. sequence + n - 1)
        /\ sequence' = sequence + n

\* Mutant: the queue's receipts are not retained.
CompactAll(queue, closed) == {closed[k] : k \in 1..Len(closed)}

\* compactReceipts, once the decision is gone.
Compacted(queue, closed) == Ids(queue) \cup Members(closed)

LastOf(s, n) == IF Len(s) > n THEN SubSeq(s, Len(s) - n + 1, Len(s)) ELSE s

\* Mutant: a finished decision takes its open actions with it.
UnfinishedDropped(d) == {}

\* The actions finishDecision keeps visible: their outcome is open.
UnfinishedOf(d) ==
    {[event |-> d.event, index |-> k, status |-> d.actions[k]] :
        k \in {k \in 1..Len(d.actions) : d.actions[k] \in Open}}

\* finishDecision
FinishDecision ==
    /\ unfinished' = unfinished \cup UnfinishedOf(decision)
    /\ summaries' = LastOf(Append(summaries, decision.event), SummaryLimit)
    /\ receipts' = receipts \cap Compacted(events, summaries')
    /\ decision' = None
    /\ acted' = FALSE /\ timedOut' = {}

-----------------------------------------------------------------------------
(* The daemon starts, stops and dies: daemon.ts *)

\* runDaemon takes the daemon lock (FileLock.tla) and creates the scope's state.
Launch ==
    /\ boot = "down" /\ sequence < MaxSequence
    /\ boot' = "locked"
    /\ UNCHANGED <<durableVars, tick, pollFailures, due, round, executing, historyVars>>

\* Mutant: an interrupted decision is always handed to a fresh model.
InitializeReplays ==
    /\ boot = "locked"
    /\ boot' = "initialized"
    /\ UNCHANGED <<durableVars, tick, pollFailures, due, round, executing, historyVars>>

\* initialize: executions are recovered, then a decision that attempted account
\* actions is closed as failed; one that only observed stays for another round.
Initialize ==
    /\ boot = "locked"
    /\ IF decision # None /\ decision.actions # <<>>
       THEN FinishDecision
       ELSE UNCHANGED <<unfinished, summaries, receipts, decision, acted, timedOut>>
    /\ boot' = "initialized"
    /\ UNCHANGED <<control, sequence, events, wakes, tick, pollFailures, due, round, executing,
                   fired>>

\* An explicit stop can be restarted, a pause is not cleared.
Activate ==
    /\ boot = "initialized"
    /\ control' = IF control = "stopped" THEN "running" ELSE control
    /\ boot' = IF decision = None THEN "activated" ELSE "up"
    /\ UNCHANGED <<sequence, events, receipts, decision, unfinished, summaries, wakes,
                   tick, pollFailures, due, round, executing, historyVars>>

\* startEvent
StartEvent ==
    /\ boot = "activated"
    /\ Enqueue(<<"start">>)
    /\ boot' = "up"
    /\ UNCHANGED <<control, decision, unfinished, summaries, wakes,
                   tick, pollFailures, due, round, executing, historyVars>>

\* The process is gone, with all it was doing.
Die ==
    /\ boot # "down"
    /\ boot' = "down"
    /\ tick' = "control"
    /\ pollFailures' = 0
    /\ due' = {}
    /\ round' = NoRound
    /\ executing' = {}
    /\ UNCHANGED <<durableVars, historyVars>>

\* SIGTERM or SIGINT; the tick under way is finished first.
Terminate ==
    /\ boot = "up"
    /\ boot' = "halting"
    /\ UNCHANGED <<durableVars, tick, pollFailures, due, round, executing, historyVars>>

\* The loop of run() ends.
LoopEnds ==
    /\ boot = "halting" /\ tick = "control"
    /\ boot' = "stopping"
    /\ UNCHANGED <<durableVars, tick, pollFailures, due, round, executing, historyVars>>

\* abort(): a running model is cancelled; one that has answered is not.
Aborted(r) == [r EXCEPT !.aborted = TRUE, !.at = IF @ = "running" THEN "failed" ELSE @]

\* AutonomousRuntime.stop, while a model task is left: it is aborted and awaited.
StopModel ==
    /\ boot = "stopping" /\ round.at # "idle" /\ ~round.aborted
    /\ round' = Aborted(round)
    /\ UNCHANGED <<durableVars, boot, tick, pollFailures, due, executing, historyVars>>

\* The orderly end; calls still under way end with the process.
Exit == boot = "stopping" /\ round = NoRound /\ Die

-----------------------------------------------------------------------------
(* Operator commands, from another process *)

Pause ==
    /\ control' = "paused"
    /\ UNCHANGED <<sequence, events, receipts, decision, unfinished, summaries, wakes,
                   processVars, historyVars>>

StopCommand ==
    /\ control' = "stopped"
    /\ UNCHANGED <<sequence, events, receipts, decision, unfinished, summaries, wakes,
                   processVars, historyVars>>

\* resume: two transactions, the second of which may find the id of a resume in
\* the same millisecond, or never come.
Resume(enqueued) ==
    /\ boot \in {"up", "halting", "stopping"}
    /\ control' = "running"
    /\ IF enqueued THEN Enqueue(<<"start">>) ELSE UNCHANGED <<sequence, events, receipts>>
    /\ UNCHANGED <<decision, unfinished, summaries, wakes, processVars, historyVars>>

-----------------------------------------------------------------------------
(* The loop: AutonomousRuntime.tick *)

Looping == boot \in {"up", "halting"}

\* A control that is not running aborts the model task; a stop ends the loop.
TickControl ==
    /\ boot = "up" /\ tick = "control"
    /\ round' = IF control # "running" /\ round.at # "idle" THEN Aborted(round) ELSE round
    /\ IF control = "stopped"
       THEN boot' = "stopping" /\ UNCHANGED tick
       ELSE tick' = "poll" /\ UNCHANGED boot
    /\ UNCHANGED <<durableVars, pollFailures, due, executing, historyVars>>

\* Supervision reports, and observe() stores what changed: a kind with a pending
\* event is folded into it, the kinds in new get an event (noteObservationEvent).
\* Then evaluateWakes starts to fetch the facts of the active wakes.
PollReports(new) ==
    /\ Looping /\ tick = "poll"
    /\ \A j \in 1..Len(new) : new[j] \notin KindsOf(events)
    /\ Enqueue(new)
    /\ pollFailures' = 0
    /\ due' = {w \in Revisions : wakes[w] = "active"}
    /\ tick' = "wakes"
    /\ UNCHANGED <<control, decision, unfinished, summaries, wakes, boot, round, executing,
                   historyVars>>

\* Supervision failed or timed out: entries are blocked (AccountRisk.tla), and after
\* maxAttempts the model is paused, whatever the control was.
PollFails ==
    /\ Looping /\ tick = "poll"
    /\ pollFailures' = IF pollFailures < Attempts THEN pollFailures + 1 ELSE pollFailures
    /\ control' = IF pollFailures' >= Attempts THEN "paused" ELSE control
    /\ tick' = "begin"
    /\ UNCHANGED <<sequence, events, receipts, decision, unfinished, summaries, wakes,
                   boot, due, round, executing, historyVars>>

\* The next poll is not due yet.
PollWaits ==
    /\ Looping /\ tick = "poll"
    /\ tick' = "begin"
    /\ UNCHANGED <<durableVars, boot, pollFailures, due, round, executing, historyVars>>

\* Only revisions that are still there are evaluated.
Current == {w \in due : wakes[w] = "active"}

\* Mutant: the event is queued, the trigger's own state is not stored.
EvaluateForgets(firing) ==
    /\ Looping /\ tick = "wakes"
    /\ Enqueue([j \in 1..Cardinality(firing) |-> "wake"])
    /\ fired' = [w \in Revisions |-> IF w \in firing THEN fired[w] + 1 ELSE fired[w]]
    /\ due' = {}
    /\ tick' = "begin"
    /\ UNCHANGED <<control, decision, unfinished, summaries, wakes, boot, pollFailures, round, executing,
                   acted, timedOut>>

\* evaluateWakes: the condition of firing was met; trigger state and events are
\* one transaction.  (A once policy; a repeating one would stay active.)
EvaluateWakes(firing) ==
    /\ Looping /\ tick = "wakes"
    /\ Enqueue([j \in 1..Cardinality(firing) |-> "wake"])
    /\ wakes' = [w \in Revisions |-> IF w \in firing THEN "spent" ELSE wakes[w]]
    /\ fired' = [w \in Revisions |-> IF w \in firing THEN fired[w] + 1 ELSE fired[w]]
    /\ due' = {}
    /\ tick' = "begin"
    /\ UNCHANGED <<control, decision, unfinished, summaries, boot, pollFailures, round, executing,
                   acted, timedOut>>

\* Nothing to begin.
BeginNothing ==
    /\ Looping /\ tick = "begin"
    /\ control # "running" \/ round.at # "idle" \/ (decision = None /\ events = <<>>)
    /\ tick' = "control"
    /\ UNCHANGED <<durableVars, boot, pollFailures, due, round, executing, historyVars>>

\* A decision that waits for its next attempt.
BeginWaits ==
    /\ Looping /\ tick = "begin"
    /\ decision # None /\ round.at = "idle"
    /\ tick' = "control"
    /\ UNCHANGED <<durableVars, boot, pollFailures, due, round, executing, historyVars>>

\* beginDecision: the oldest event, or the decision that is left; one more attempt.
\* tick() does not ask whether the loop is to end; if it is, run() aborts the model
\* before it can call.
\* (Attempts, like pollFailures, are only compared with maxAttempts: counted up to it.)
BeginDecision ==
    /\ Looping /\ tick = "begin"
    /\ control = "running" /\ round.at = "idle"
    /\ IF decision = None
       THEN /\ events # <<>>
            /\ decision' = [event |-> Head(events).id, attempts |-> 1, actions |-> <<>>,
                            blocked |-> FALSE]
            /\ events' = Tail(events)
       ELSE /\ decision' = [decision EXCEPT !.attempts = IF @ < Attempts THEN @ + 1 ELSE @]
            /\ UNCHANGED events
    /\ round' = IF boot = "up"
                THEN [at |-> "running", event |-> decision'.event, aborted |-> FALSE]
                ELSE [at |-> "failed", event |-> decision'.event, aborted |-> TRUE]
    /\ tick' = "control"
    /\ UNCHANGED <<control, sequence, receipts, unfinished, summaries, wakes,
                   boot, pollFailures, due, executing, historyVars>>

-----------------------------------------------------------------------------
(* A model round: runDecision, ModelProcess.run, AutonomousTools *)

\* The model answers.
ModelDone ==
    /\ round.at = "running"
    /\ round' = [round EXCEPT !.at = "done"]
    /\ UNCHANGED <<durableVars, boot, tick, pollFailures, due, executing, historyVars>>

\* An error, a lost child, or the deadline, which may also pass while the child of
\* a model that answered is being stopped.  Only the deadline aborts at once.
ModelFails(deadline) ==
    /\ round.at = "running" \/ (round.at = "done" /\ deadline)
    /\ round' = [round EXCEPT !.at = "failed", !.aborted = @ \/ deadline]
    /\ UNCHANGED <<durableVars, boot, tick, pollFailures, due, executing, historyVars>>

\* Mutant: failed rounds are retried without end.
RetryForever == decision.actions = <<>> /\ control = "running"

\* "Retry only observation-only rounds."
RetryAllowed == decision.actions = <<>> /\ decision.attempts < Attempts /\ control = "running"

\* The child is gone: the round's result is stored.
EndRound ==
    /\ round.at \in {"done", "failed"}
    /\ IF round.at = "failed" /\ RetryAllowed
       THEN UNCHANGED <<unfinished, summaries, receipts, decision, acted, timedOut>>
       ELSE FinishDecision
    /\ round' = NoRound
    /\ UNCHANGED <<control, sequence, events, wakes, boot, tick, pollFailures, due, executing,
                   fired>>

\* It cannot be stored: entries are blocked and the daemon stops.
EndRoundUnstored ==
    /\ round.at \in {"done", "failed"}
    /\ round' = NoRound
    /\ boot' = IF boot = "up" THEN "halting" ELSE boot
    /\ UNCHANGED <<durableVars, tick, pollFailures, due, executing, historyVars>>

\* call(): the model still has authority and no mutation of its decision is open.
Authorized ==
    /\ round.at # "idle" /\ ~round.aborted
    /\ control = "running"
    /\ Deciding(round.event)

\* Mutant: a completed action clears the way even if it had timed out.
UnblockedByStatus == \A k \in 1..Len(decision.actions) : decision.actions[k] \notin Open

Unblocked ==
    /\ ~decision.blocked
    /\ \A k \in 1..Len(decision.actions) : decision.actions[k] \notin Open

\* A mutating call is put on record before it is executed.
StartCall(status) ==
    /\ Authorized /\ Unblocked
    /\ Len(decision.actions) + Cardinality(unfinished) < MaxActions
    /\ decision' = [decision EXCEPT !.actions = Append(@, status)]
    /\ acted' = TRUE

\* The tools that reach the exchange.
TradeCall ==
    /\ StartCall("started")
    /\ executing' = executing \cup {<<decision.event, Len(decision.actions) + 1>>}
    /\ UNCHANGED <<control, sequence, events, receipts, unfinished, summaries, wakes,
                   boot, tick, pollFailures, due, round, timedOut, fired>>

\* The wakes there are.
Kept == {w \in Revisions : wakes[w] \in {"active", "spent"}}

\* schedule(): a new revision, in place of the wake of the same definition if there is
\* one.  The wake tools wait for nothing: a crash between their writes leaves no more
\* than one in a trade.
ScheduleWake(w, old) ==
    /\ StartCall("settled")
    /\ wakes[w] = "unused" /\ \A v \in Revisions : v < w => wakes[v] # "unused"
    /\ wakes' = [v \in Revisions |-> IF v = w THEN "active" ELSE IF v \in old THEN "gone" ELSE wakes[v]]
    /\ UNCHANGED <<control, sequence, events, receipts, unfinished, summaries,
                   processVars, timedOut, fired>>

\* cancelWake
CancelWake(w) ==
    /\ StartCall("settled")
    /\ w \in Kept
    /\ wakes' = [wakes EXCEPT ![w] = "gone"]
    /\ UNCHANGED <<control, sequence, events, receipts, unfinished, summaries,
                   processVars, timedOut, fired>>

\* The action index of event e gets the status f makes of it, where it is recorded.
Recorded(e, index, f) ==
    IF Deciding(e)
    THEN /\ decision' = [decision EXCEPT !.actions[index] = f[@]]
         /\ UNCHANGED unfinished
    ELSE /\ unfinished' = {IF u.event = e /\ u.index = index
                           THEN [u EXCEPT !.status = f[@]] ELSE u : u \in unfinished}
         /\ UNCHANGED decision

\* The execution ends and its outcome is stored.
EndCall(e, index, status) ==
    /\ <<e, index>> \in executing
    /\ executing' = executing \ {<<e, index>>}
    /\ Recorded(e, index, [s \in Statuses |-> status])
    /\ UNCHANGED <<control, sequence, events, receipts, summaries, wakes,
                   boot, tick, pollFailures, due, round, historyVars>>

Lapsed == [s \in Statuses |-> IF s = "started" THEN "unknown" ELSE s]

\* callWithDeadline, in the decision of the call: the deadline of a mutation passes,
\* or that of a query which the worker numbered with the mutation that followed it.
CallTimesOut(index) ==
    /\ decision # None /\ index \in 1..Len(decision.actions)
    /\ <<decision.event, index>> \in executing \/ round.at # "idle"
    /\ decision' = [decision EXCEPT !.blocked = TRUE, !.actions[index] = Lapsed[@]]
    /\ timedOut' = IF <<decision.event, index>> \in executing
                   THEN timedOut \cup {index} ELSE timedOut
    /\ UNCHANGED <<control, sequence, events, receipts, unfinished, summaries, wakes,
                   processVars, acted, fired>>

\* The same after the decision was closed.
LateCallTimesOut(e, index) ==
    /\ <<e, index>> \in executing
    /\ ~Deciding(e)
    /\ Recorded(e, index, Lapsed)
    /\ UNCHANGED <<control, sequence, events, receipts, summaries, wakes,
                   processVars, historyVars>>

-----------------------------------------------------------------------------
DaemonNext ==
    \/ Launch \/ Initialize \/ Activate \/ StartEvent
    \/ Terminate \/ LoopEnds \/ StopModel \/ Exit \/ Die

OperatorNext == Pause \/ StopCommand \/ \E enqueued \in BOOLEAN : Resume(enqueued)

TickNext ==
    \/ TickControl \/ PollFails \/ PollWaits
    \/ \E new \in Reports : PollReports(new)
    \/ \E firing \in SUBSET Current : EvaluateWakes(firing)
    \/ BeginNothing \/ BeginWaits \/ BeginDecision

ModelNext ==
    \/ ModelDone \/ EndRound \/ EndRoundUnstored
    \/ \E deadline \in BOOLEAN : ModelFails(deadline)

ToolNext ==
    \/ TradeCall
    \/ \E w \in Revisions, old \in {{}} \cup {{v} : v \in Kept} : ScheduleWake(w, old)
    \/ \E w \in Revisions : CancelWake(w)
    \/ \E c \in executing, status \in Statuses \ {"started"} : EndCall(c[1], c[2], status)
    \/ \E c \in executing : LateCallTimesOut(c[1], c[2])
    \/ \E index \in 1..MaxActions : CallTimesOut(index)

AutonomousNext == DaemonNext \/ OperatorNext \/ TickNext \/ ModelNext \/ ToolNext

AutonomousSpec == AutonomousInit /\ [][AutonomousNext]_autonomousVars

-----------------------------------------------------------------------------
(* Fairness: the daemon's own sequence of steps goes on, for deadlines bound   *)
(* supervision and the facts of wakes; a model answers or meets its deadline   *)
(* and a child that does not end is killed; a retry's back-off passes.         *)

MainStep ==
    \/ Initialize \/ Activate \/ StartEvent \/ LoopEnds \/ StopModel \/ Exit
    \/ TickNext

Fairness ==
    /\ WF_autonomousVars(MainStep)
    /\ SF_autonomousVars(BeginDecision)
    /\ WF_autonomousVars(ModelNext)

LiveAutonomousSpec == AutonomousSpec /\ Fairness

-----------------------------------------------------------------------------
(* What the daemon promises *)

\* The stored state always passes validateAutonomousState: every event that is
\* queued, being decided or summarised has its receipt after any compaction, none
\* is there twice, no action id occurs twice.  (A refusal would leave a decision that
\* can never be closed.)
StateValidates ==
    /\ Len(events) <= QueueLimit /\ Len(summaries) <= SummaryLimit
    /\ receipts \subseteq 0..sequence - 1
    /\ Ids(events) \cup Members(summaries) \subseteq receipts
    /\ \A i, j \in 1..Len(events) : events[i].id = events[j].id => i = j
    /\ decision # None =>
           /\ decision.event \in receipts \ Ids(events)
           /\ \A u \in unfinished : u.event # decision.event
    /\ \A u, v \in unfinished : u.event = v.event /\ u.index = v.index => u = v

\* A mutation whose execution is under way is on record, in its decision or among
\* the unfinished actions, so its outcome can be stored when it ends ("Action
\* progress lost" is never thrown), even if the round failed or finished meanwhile.
ProgressKept ==
    \A c \in executing :
        IF Deciding(c[1])
        THEN c[2] \in 1..Len(decision.actions)
        ELSE \E u \in unfinished : u.event = c[1] /\ u.index = c[2]

\* "Further mutations in this decision are blocked": a mutation that timed out is
\* the last one of its decision, also if its execution completes late.
TimeoutEndsMutations ==
    \A k \in timedOut : decision # None /\ k = Len(decision.actions)

\* A wake fires once, across crashes between the fetch of its facts and the
\* transaction, replacement and cancellation; trigger state and event are stored
\* together.
WakeFiresOnce == \A w \in Revisions : fired[w] <= 1

\* Events are handled once and in order, and a decision that has touched the account
\* is never given to another model round, whatever died in between: OnceDelivery.
Once == INSTANCE OnceDelivery WITH
            minted  <- sequence,
            pending <- IdSeq(events),
            current <- IF decision = None THEN None ELSE decision.event,
            inRound <- round.at # "idle" /\ ~round.aborted,
            acted   <- acted

DeliversOnce == Once!OnceSpec

\* Accepted and not summarised.
Waiting(n) == n \in Ids(events) \/ Deciding(n)

\* While the daemon lives and is not paused or stopped, every accepted event is
\* decided and summarised, through failed rounds, lost models and interruptions.
EventHandled ==
    \A n \in 0..MaxSequence - 1 :
        Waiting(n) ~> (~Waiting(n) \/ boot = "down" \/ control # "running")

-----------------------------------------------------------------------------
(* The inductive invariant behind these promises *)

\* Ids grow along the line summaries, decision, queue, sequence.
Ordered ==
    /\ \A i \in 1..Len(events) : events[i].id < sequence
    /\ \A i, j \in 1..Len(events) : i < j => events[i].id < events[j].id
    /\ \A u \in unfinished : u.event < sequence /\ u.event \notin Ids(events)
    /\ decision # None =>
           /\ decision.event < sequence
           /\ \A i \in 1..Len(events) : decision.event < events[i].id

\* Only the last action of a decision can be open, and what executes is open.
OpenLast ==
    decision # None =>
        /\ \A k \in 1..Len(decision.actions) :
              decision.actions[k] \in Open => k = Len(decision.actions)
        /\ \A c \in executing : c[1] = decision.event =>
              c[2] \in 1..Len(decision.actions) /\ decision.actions[c[2]] \in Open

\* A mutation that timed out keeps its decision blocked.
TimeoutsBlock == timedOut # {} => decision # None /\ decision.blocked

\* What was done for the decision is on its record.
ActedOnRecord == acted <=> (decision # None /\ decision.actions # <<>>)

\* A round works on the decision; without one a decision that acted is waiting only
\* for the next start.
RoundsExact ==
    /\ round.at # "idle" => Deciding(round.event)
    /\ boot \in {"down", "locked", "initialized", "activated"} => round = NoRound /\ executing = {}
    /\ boot = "initialized" \/ (boot = "up" /\ round.at = "idle") =>
           (decision # None => decision.actions = <<>>)
    /\ boot = "activated" => decision = None

SpentWakes == \A w \in Revisions : fired[w] = 1 => wakes[w] \in {"spent", "gone"}

AutonomousInv ==
    /\ AutonomousTypeOK
    /\ StateValidates
    /\ ProgressKept
    /\ TimeoutEndsMutations
    /\ WakeFiresOnce
    /\ Ordered
    /\ OpenLast
    /\ TimeoutsBlock
    /\ ActedOnRecord
    /\ RoundsExact
    /\ SpentWakes

=============================================================================
