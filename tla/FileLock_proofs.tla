--------------------------- MODULE FileLock_proofs ---------------------------
(***************************************************************************)
(* The lock file protocol, for any number of processes, transactions and   *)
(* faults: proofs about FileLock.                                          *)
(***************************************************************************)
EXTENDS FileLock, TLAPS

USE DEF Goto, Locked, Gated, Steps, Inside

\* The protocol starts in its invariant.
LEMMA LockInvInit == Init => LockInv
<1> USE FileLockAssumption DEF Init
<1> SUFFICES ASSUME Init PROVE LockInv
  OBVIOUS
<1>1. TypeOK
  BY DEF TypeOK
<1>2. HandlesRight
  BY DEF HandlesRight
<1>3. JudgementRight
  BY DEF JudgementRight
<1>4. OwnerInside
  BY DEF OwnerInside
<1> QED
  BY <1>1, <1>2, <1>3, <1>4 DEF LockInv

\* Every step keeps types: pids, steps and counters stay what they are, and a
\* probed pid is one that was read.
LEMMA TypeStep == TypeOK /\ [Next]_vars => TypeOK'
<1> USE FileLockAssumption DEF TypeOK, lockVars, gateVars, dataVars, readVars
<1> SUFFICES ASSUME TypeOK, [Next]_vars PROVE TypeOK'
  OBVIOUS
<1>1. ASSUME NEW p \in Procs, CreateLock(p) \/ WriteOwner(p) \/ Contend(p)
      PROVE TypeOK'
  BY <1>1 DEF CreateLock, WriteOwner, Contend
<1>2. ASSUME NEW p \in Procs, OpenGate(p) \/ ReadOwner(p) \/ Probe(p)
      PROVE TypeOK'
  BY <1>2 DEF OpenGate, ReadOwner, Probe
<1>3. ASSUME NEW p \in Procs, Reclaim(p) \/ LeaveGate(p)
      PROVE TypeOK'
  BY <1>3 DEF Reclaim, LeaveGate
<1>4. ASSUME NEW p \in Procs, Load(p) \/ Publish(p) \/ Abandon(p)
      PROVE TypeOK'
  BY <1>4 DEF Load, Publish, Abandon
<1>5. ASSUME NEW p \in Procs, CheckRelease(p) \/ Unlink(p)
      PROVE TypeOK'
  BY <1>5 DEF CheckRelease, Unlink
<1>6. ASSUME NEW p \in Procs, End(p) \/ Begin(p)
      PROVE TypeOK'
  BY <1>6 DEF End, Begin, Fault
<1>7. CASE OperatorCleans
  BY <1>7 DEF OperatorCleans
<1>8. CASE UNCHANGED vars
  BY <1>8 DEF vars
<1>9. ASSUME NEW p \in Procs, CreateFails(p)
      PROVE TypeOK'
  <2>1. pc' \in [Procs -> Steps]
    BY <1>9 DEF CreateFails
  <2>2. \A q \in Procs : pc'[q] = "probing" => pc[q] = "probing"
    BY <1>9 DEF CreateFails
  <2>3. faults' \in Nat
    BY <1>9 DEF CreateFails, Fault
  <2> QED
    BY <1>9, <2>1, <2>2, <2>3 DEF CreateFails
<1>10. ASSUME NEW p \in Procs, ReclaimFails(p)
      PROVE TypeOK'
  <2>1. pc' \in [Procs -> Steps]
    BY <1>10 DEF ReclaimFails
  <2>2. \A q \in Procs : pc'[q] = "probing" => pc[q] = "probing"
    BY <1>10 DEF ReclaimFails
  <2>3. faults' \in Nat
    BY <1>10 DEF ReclaimFails, Fault
  <2> QED
    BY <1>10, <2>1, <2>2, <2>3 DEF ReclaimFails
<1>11. ASSUME NEW p \in Procs, ReleaseFails(p)
      PROVE TypeOK'
  <2>1. pc' \in [Procs -> Steps]
    BY <1>11 DEF ReleaseFails
  <2>2. \A q \in Procs : pc'[q] = "probing" => pc[q] = "probing"
    BY <1>11 DEF ReleaseFails
  <2>3. faults' \in Nat
    BY <1>11 DEF ReleaseFails, Fault
  <2> QED
    BY <1>11, <2>1, <2>2, <2>3 DEF ReleaseFails
<1> QED
  BY <1>1, <1>2, <1>3, <1>4, <1>5, <1>6, <1>7, <1>8, <1>9, <1>10, <1>11 DEF Next, LockStep

\* Every step keeps the rest of the invariant.  The step that needs an argument
\* is Reclaim: with a judgement that is not outdated, the file it removes has no
\* living handle, so nobody is inside; with an outdated one the step is astray.
LEMMA LockStepInv == LockInv /\ [Next]_vars => LockInv'
<1> USE FileLockAssumption DEF lockVars, gateVars, dataVars, readVars
<1> SUFFICES ASSUME LockInv, [Next]_vars PROVE LockInv'
  OBVIOUS
<1>t. TypeOK /\ TypeOK'
  BY TypeStep DEF LockInv
<1> DEFINE Rest == HandlesRight /\ JudgementRight /\ OwnerInside
<1>r. Rest
  BY DEF LockInv
<1> SUFFICES Rest'
  BY <1>t DEF LockInv
<1> USE DEF TypeOK, HandlesRight, JudgementRight, OwnerInside
<1>1. ASSUME NEW p \in Procs, CreateLock(p) PROVE Rest'
  BY <1>t, <1>r, <1>1 DEF CreateLock
<1>2. ASSUME NEW p \in Procs, WriteOwner(p) PROVE Rest'
  BY <1>t, <1>r, <1>2 DEF WriteOwner
<1>3. ASSUME NEW p \in Procs, CreateFails(p) PROVE Rest'
  BY <1>t, <1>r, <1>3 DEF CreateFails
<1>4. ASSUME NEW p \in Procs, Contend(p) PROVE Rest'
  BY <1>t, <1>r, <1>4 DEF Contend
<1>5. ASSUME NEW p \in Procs, OpenGate(p) PROVE Rest'
  BY <1>t, <1>r, <1>5 DEF OpenGate
<1>6. ASSUME NEW p \in Procs, ReadOwner(p) PROVE Rest'
  BY <1>t, <1>r, <1>6 DEF ReadOwner
<1>7. ASSUME NEW p \in Procs, Probe(p) PROVE Rest'
  BY <1>t, <1>r, <1>7 DEF Probe
<1>8. ASSUME NEW p \in Procs, Reclaim(p) PROVE Rest'
  BY <1>t, <1>r, <1>8 DEF Reclaim
<1>9. ASSUME NEW p \in Procs, ReclaimFails(p) PROVE Rest'
  BY <1>t, <1>r, <1>9 DEF ReclaimFails
<1>10. ASSUME NEW p \in Procs, LeaveGate(p) PROVE Rest'
  BY <1>t, <1>r, <1>10 DEF LeaveGate
<1>11. ASSUME NEW p \in Procs, Load(p) PROVE Rest'
  BY <1>t, <1>r, <1>11 DEF Load
<1>12. ASSUME NEW p \in Procs, Publish(p) PROVE Rest'
  BY <1>t, <1>r, <1>12 DEF Publish
<1>13. ASSUME NEW p \in Procs, Abandon(p) PROVE Rest'
  BY <1>t, <1>r, <1>13 DEF Abandon
<1>14. ASSUME NEW p \in Procs, CheckRelease(p) PROVE Rest'
  BY <1>t, <1>r, <1>14 DEF CheckRelease
<1>15. ASSUME NEW p \in Procs, Unlink(p) PROVE Rest'
  BY <1>t, <1>r, <1>15 DEF Unlink
<1>16. ASSUME NEW p \in Procs, ReleaseFails(p) PROVE Rest'
  BY <1>t, <1>r, <1>16 DEF ReleaseFails
<1>17. ASSUME NEW p \in Procs, End(p) PROVE Rest'
  BY <1>t, <1>r, <1>17 DEF End
<1>18. ASSUME NEW p \in Procs, Begin(p) PROVE Rest'
  BY <1>t, <1>r, <1>18 DEF Begin
<1>19. CASE OperatorCleans
  BY <1>t, <1>r, <1>19 DEF OperatorCleans
<1>20. CASE UNCHANGED vars
  BY <1>t, <1>r, <1>20 DEF vars
<1> QED
  BY <1>1, <1>2, <1>3, <1>4, <1>5, <1>6, <1>7, <1>8, <1>9, <1>10, <1>11, <1>12, <1>13,
     <1>14, <1>15, <1>16, <1>17, <1>18, <1>19, <1>20 DEF Next, LockStep

\* The invariant holds in every reachable state.
LEMMA LockInvariant == Spec => []LockInv
  BY LockInvInit, LockStepInv, PTL DEF Spec

\* Types hold in every reachable state, and no pid is probed that was not read
\* from a lock file.
THEOREM LockTypes == Spec => []TypeOK
<1>1. LockInv => TypeOK
  BY DEF LockInv
<1> QED
  BY <1>1, LockInvariant, PTL

\* For any number of processes and faults: at most one process is between
\* acquireFileLockSync and releaseFileLock, unless a reclaimer removed another
\* lock than the one it read.
THEOREM LockExclusive == Spec => []ExclusiveUnlessAstray
<1>1. LockInv => ExclusiveUnlessAstray
  BY FileLockAssumption DEF LockInv, OwnerInside, ExclusiveUnlessAstray, MutualExclusion
<1> QED
  BY <1>1, LockInvariant, PTL

\* With the same exception, transactTradingState loses no update.
THEOREM LockSerializes == Spec => []NoLostUpdate
<1>1. LockInv => NoLostUpdate
  BY DEF LockInv, OwnerInside, NoLostUpdate
<1> QED
  BY <1>1, LockInvariant, PTL

=============================================================================
