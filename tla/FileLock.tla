------------------------------- MODULE FileLock -------------------------------
(***************************************************************************)
(* The lock file around the trading state (trading-engine/src/persist.ts)  *)
(* and the read-modify-write it protects (transactTradingState in          *)
(* trading-agent/src/state.ts).  The other modules take a transaction for  *)
(* one atomic step; this one shows what that rests on.                     *)
(*                                                                         *)
(* The lock is a file created exclusively that names its owner's pid.  A   *)
(* waiter may remove the lock of a process that no longer exists, under a  *)
(* second lock file, the gate.  Every trading caller passes an infinite    *)
(* stale age, so no lock is removed for being old.                         *)
(*                                                                         *)
(* An element of Procs is a pid: when it starts again it may be another    *)
(* process that was given the same number.  Inode numbers are not reused   *)
(* while a handle to them is remembered.  All processes are on one host.   *)
(***************************************************************************)
EXTENDS Integers

CONSTANTS
    Procs,          \* process ids
    NoProc,         \* no process
    MaxCommits,     \* bound: transactions explored
    MaxFaults       \* bound: ends of processes and failed file operations explored

ASSUME FileLockAssumption ==
    /\ NoProc \notin Procs
    /\ MaxCommits \in Nat
    /\ MaxFaults \in Nat

VARIABLES
    pc,             \* per process: the next step of acquire, operation or release
    owner,          \* pid in the lock file; NoProc: there is no lock file
    written,        \* whether the pid has been written to it
    linked,         \* the living process whose FileLock handle is that very file
    gate,           \* whether the .reclaim file exists
    gateLinked,     \* the living process whose handle is the gate
    suspect,        \* per process: the pid it read from the lock file
    stored,         \* the state file: a counter every transaction increments
    draft,          \* per process: the state it loaded
    commits,        \* history: transactions published
    faults,         \* history: processes ended and file operations failed
    outdated,       \* history: the lock file is younger than the last reading of one
    astray          \* history: a reclaimer removed another file than it had read

lockVars == <<owner, written, linked>>
gateVars == <<gate, gateLinked>>
dataVars == <<stored, draft, commits>>
readVars == <<suspect, outdated, astray>>
vars == <<pc, lockVars, gateVars, readVars, dataVars, faults>>

Locked == {"creating", "holding", "loaded", "releasing"}
Gated == {"gated", "probing", "condemned", "leaving"}
Steps == {"dead", "idle", "contended", "unlinking"} \cup Locked \cup Gated

TypeOK ==
    /\ pc \in [Procs -> Steps]
    /\ owner \in Procs \cup {NoProc}
    /\ written \in BOOLEAN
    /\ linked \in Procs \cup {NoProc}
    /\ gate \in BOOLEAN
    /\ gateLinked \in Procs \cup {NoProc}
    /\ suspect \in [Procs -> Procs \cup {NoProc}]
    /\ \A p \in Procs : pc[p] = "probing" => suspect[p] \in Procs
    /\ stored \in Nat
    /\ draft \in [Procs -> Nat]
    /\ commits \in Nat
    /\ faults \in Nat
    /\ outdated \in BOOLEAN
    /\ astray \in BOOLEAN

Init ==
    /\ pc = [p \in Procs |-> "idle"]
    /\ owner = NoProc /\ written = FALSE /\ linked = NoProc
    /\ gate = FALSE /\ gateLinked = NoProc
    /\ suspect = [p \in Procs |-> NoProc]
    /\ stored = 0
    /\ draft = [p \in Procs |-> 0]
    /\ commits = 0
    /\ faults = 0
    /\ outdated = FALSE
    /\ astray = FALSE

Goto(p, step) == pc' = [pc EXCEPT ![p] = step]

Fault == faults < MaxFaults /\ faults' = faults + 1

-----------------------------------------------------------------------------
(* Acquisition: tryCreateLock *)

\* openSync(path, "wx"): the file exists, still empty.
CreateLock(p) ==
    /\ pc[p] = "idle" /\ owner = NoProc
    /\ owner' = p /\ written' = FALSE /\ linked' = p
    /\ outdated' = TRUE
    /\ Goto(p, "creating")
    /\ UNCHANGED <<gateVars, suspect, astray, dataVars, faults>>

\* The owner is written and synced.
WriteOwner(p) ==
    /\ pc[p] = "creating"
    /\ written' = IF linked = p THEN TRUE ELSE written
    /\ Goto(p, "holding")
    /\ UNCHANGED <<owner, linked, gateVars, readVars, dataVars, faults>>

\* Writing failed: the file at the path is removed again.
CreateFails(p) ==
    /\ pc[p] = "creating"
    /\ Fault
    /\ owner' = NoProc /\ written' = FALSE /\ linked' = NoProc
    /\ Goto(p, "idle")
    /\ UNCHANGED <<gateVars, readVars, dataVars>>

\* EEXIST
Contend(p) ==
    /\ pc[p] = "idle" /\ owner # NoProc
    /\ Goto(p, "contended")
    /\ UNCHANGED <<lockVars, gateVars, readVars, dataVars, faults>>

-----------------------------------------------------------------------------
(* Reclamation: reclaimDeadOwner *)

\* The gate is free, or another reclaimer has it: then wait and try again.
OpenGate(p) ==
    /\ pc[p] = "contended"
    /\ IF gate THEN Goto(p, "idle") /\ UNCHANGED gateVars
               ELSE Goto(p, "gated") /\ gate' = TRUE /\ gateLinked' = p
    /\ UNCHANGED <<lockVars, readVars, dataVars, faults>>

\* Mutant: what was read is probed without looking at it.
ReadUnchecked(p) ==
    /\ pc[p] = "gated"
    /\ Goto(p, "probing")
    /\ suspect' = [suspect EXCEPT ![p] = owner]
    /\ outdated' = FALSE
    /\ UNCHANGED <<lockVars, gateVars, astray, dataVars, faults>>

\* Mutant: an empty lock file counts as its creator's.
ReadEmptyOwner(p) ==
    /\ pc[p] = "gated"
    /\ Goto(p, IF owner # NoProc THEN "condemned" ELSE "leaving")
    /\ outdated' = FALSE
    /\ UNCHANGED <<lockVars, gateVars, suspect, astray, dataVars, faults>>

\* readJsonFile: no file, or an empty one, proves nothing.
ReadOwner(p) ==
    /\ pc[p] = "gated"
    /\ IF owner # NoProc /\ written
       THEN Goto(p, "probing") /\ suspect' = [suspect EXCEPT ![p] = owner]
       ELSE Goto(p, "leaving") /\ UNCHANGED suspect
    /\ outdated' = FALSE
    /\ UNCHANGED <<lockVars, gateVars, astray, dataVars, faults>>

\* Mutant: the dead owner goes unnoticed.
ProbeNothing(p) ==
    /\ pc[p] = "probing"
    /\ Goto(p, "leaving")
    /\ UNCHANGED <<lockVars, gateVars, readVars, dataVars, faults>>

\* process.kill(pid, 0)
Probe(p) ==
    /\ pc[p] = "probing"
    /\ Goto(p, IF pc[suspect[p]] = "dead" THEN "condemned" ELSE "leaving")
    /\ UNCHANGED <<lockVars, gateVars, readVars, dataVars, faults>>

\* removeFileDurable(path): whatever file is there now.
Reclaim(p) ==
    /\ pc[p] = "condemned"
    /\ owner' = NoProc /\ written' = FALSE /\ linked' = NoProc
    /\ astray' = (astray \/ (owner # NoProc /\ outdated))
    /\ Goto(p, "leaving")
    /\ UNCHANGED <<gateVars, suspect, outdated, dataVars, faults>>

\* The gate could not be written, the owner read or probed, or the file removed.
ReclaimFails(p) ==
    /\ pc[p] \in {"gated", "probing", "condemned"}
    /\ Fault
    /\ Goto(p, "leaving")
    /\ UNCHANGED <<lockVars, gateVars, readVars, dataVars>>

\* releaseFileLock(gate).  Nobody else removes a gate, so that its stat and its
\* unlink are one step; afterwards the acquisition starts over or times out.
LeaveGate(p) ==
    /\ pc[p] = "leaving"
    /\ IF gateLinked = p THEN gate' = FALSE /\ gateLinked' = NoProc ELSE UNCHANGED gateVars
    /\ Goto(p, "idle")
    /\ UNCHANGED <<lockVars, readVars, dataVars, faults>>

-----------------------------------------------------------------------------
(* transactTradingState under withFileLockSync *)

\* Mutant: the transaction works on the state it saw last.
LoadCached(p) ==
    /\ pc[p] = "holding"
    /\ Goto(p, "loaded")
    /\ UNCHANGED <<lockVars, gateVars, readVars, dataVars, faults>>

\* decodeTradingState(readJsonFile(path))
Load(p) ==
    /\ pc[p] = "holding"
    /\ draft' = [draft EXCEPT ![p] = stored]
    /\ Goto(p, "loaded")
    /\ UNCHANGED <<lockVars, gateVars, readVars, stored, commits, faults>>

\* saveTradingState renames the new file into place.  Whether syncing it succeeds
\* decides what the caller is told, not what is there.
Publish(p) ==
    /\ pc[p] = "loaded" /\ commits < MaxCommits
    /\ stored' = draft[p] + 1
    /\ commits' = commits + 1
    /\ Goto(p, "releasing")
    /\ UNCHANGED <<lockVars, gateVars, readVars, draft, faults>>

\* The mutator refused, or nothing was to be saved or could be written.
Abandon(p) ==
    /\ pc[p] = "loaded"
    /\ Goto(p, "releasing")
    /\ UNCHANGED <<lockVars, gateVars, readVars, dataVars, faults>>

\* releaseFileLock: is the file at the path still ours?
CheckRelease(p) ==
    /\ pc[p] = "releasing"
    /\ Goto(p, IF linked = p THEN "unlinking" ELSE "idle")
    /\ UNCHANGED <<lockVars, gateVars, readVars, dataVars, faults>>

\* unlinkSync(path)
Unlink(p) ==
    /\ pc[p] = "unlinking"
    /\ owner' = NoProc /\ written' = FALSE /\ linked' = NoProc
    /\ Goto(p, "idle")
    /\ UNCHANGED <<gateVars, readVars, dataVars, faults>>

\* The file could not be examined or removed: it stays, with a living owner's pid.
ReleaseFails(p) ==
    /\ pc[p] \in {"releasing", "unlinking"}
    /\ Fault
    /\ linked' = IF linked = p THEN NoProc ELSE linked
    /\ Goto(p, "idle")
    /\ UNCHANGED <<owner, written, gateVars, readVars, dataVars>>

-----------------------------------------------------------------------------
(* Processes and operators (external) *)

\* A process exits or is killed, anywhere; its files stay.
End(p) ==
    /\ pc[p] # "dead"
    /\ Fault
    /\ Goto(p, "dead")
    /\ linked' = IF linked = p THEN NoProc ELSE linked
    /\ gateLinked' = IF gateLinked = p THEN NoProc ELSE gateLinked
    /\ UNCHANGED <<owner, written, gate, readVars, dataVars>>

Begin(p) ==
    /\ pc[p] = "dead"
    /\ Goto(p, "idle")
    /\ UNCHANGED <<lockVars, gateVars, readVars, dataVars, faults>>

\* docs/trading-operations.md: once all writers have stopped, an operator removes
\* the abandoned lock files.
OperatorCleans ==
    /\ \A p \in Procs : pc[p] = "dead"
    /\ owner' = NoProc /\ written' = FALSE /\ linked' = NoProc
    /\ gate' = FALSE /\ gateLinked' = NoProc
    /\ UNCHANGED <<pc, readVars, dataVars, faults>>

-----------------------------------------------------------------------------
LockStep(p) ==
    \/ CreateLock(p) \/ WriteOwner(p) \/ Contend(p)
    \/ OpenGate(p) \/ ReadOwner(p) \/ Probe(p) \/ Reclaim(p) \/ LeaveGate(p)
    \/ Load(p) \/ Publish(p) \/ Abandon(p) \/ CheckRelease(p) \/ Unlink(p)

Next ==
    \/ \E p \in Procs :
          \/ LockStep(p)
          \/ CreateFails(p) \/ ReclaimFails(p) \/ ReleaseFails(p)
          \/ End(p) \/ Begin(p)
    \/ OperatorCleans

Spec == Init /\ [][Next]_vars

\* Living processes are scheduled.
FairSpec == Spec /\ \A p \in Procs : WF_vars(LockStep(p))

-----------------------------------------------------------------------------
(* What the lock promises *)

\* Never two processes between acquisition and release: "recovery only when a local
\* owner is verified dead" (docs/trading-operations.md).
MutualExclusion ==
    \A p, q \in Procs : pc[p] \in {"holding", "loaded"} /\ pc[q] \in {"holding", "loaded"} => p = q

\* Exclusion has that one gap: as long as no reclaimer, late between its reading of
\* the owner and its removal, took away a younger lock, at most one process is
\* inside, whoever died where, whatever pid is used again, whatever was released,
\* reclaimed or cleaned up meanwhile.
ExclusiveUnlessAstray == ~astray => MutualExclusion

\* And so long no transaction overwrites another one that it has not seen.
NoLostUpdate == ~astray => stored = commits

\* A lock file that nobody will release: its process ended, or failed to remove it.
Orphaned == owner # NoProc /\ linked = NoProc

\* What only an operator can repair: an interrupted reclamation, an empty lock file,
\* an owner that runs on after failing to remove its lock, a pid in use again, or
\* nobody left to try.
Stranded ==
    \/ gate /\ gateLinked = NoProc
    \/ ~written
    \/ owner \in Procs /\ pc[owner] # "dead"
    \/ \A p \in Procs : pc[p] = "dead"

\* A lock whose owner died does not stop the others for ever: a living process
\* reclaims it, or one of the documented cases for an operator has occurred.
DeadOwnerReclaimed == Orphaned ~> (~Orphaned \/ Stranded)

-----------------------------------------------------------------------------
(* Why that is so: the invariant behind the two promises *)

Inside == Locked \cup {"unlinking"}

\* Handles are right: a handle is a process's inside the lock or the gate.
HandlesRight ==
    /\ linked # NoProc => owner = linked /\ pc[linked] \in Inside
    /\ \A p \in Procs : pc[p] \in Gated <=> gateLinked = p
    /\ gateLinked # NoProc => gate

\* A judgement that is not outdated is about the file at the path.
JudgementRight ==
    ~outdated /\ owner # NoProc =>
        \A p \in Procs :
            /\ pc[p] = "probing" => owner = suspect[p]
            /\ pc[p] = "condemned" => linked = NoProc

\* Who is inside owns the file at the path, with its pid in it once acquired, and
\* what it loaded is what is stored.
OwnerInside ==
    ~astray =>
        /\ stored = commits
        /\ \A p \in Procs :
              /\ pc[p] \in Inside => linked = p
              /\ pc[p] = "creating" => ~written
              /\ pc[p] = "loaded" => draft[p] = stored

\* The lock protocol's inductive invariant.
LockInv == TypeOK /\ HandlesRight /\ JudgementRight /\ OwnerInside

=============================================================================
