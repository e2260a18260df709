------------------------- MODULE MonitoredEvalProofs -------------------------
(***************************************************************************)
(* Proofs about MonitoredEval for every instruction quota and every number *)
(* of calls.  The invariant IInv is shown layer by layer: TypeOK; where    *)
(* the threads are (ThreadInv); what the evaluator left for the host       *)
(* (VerdictInv); what the calls ended with (HistoryInv).  Each layer is    *)
(* preserved by a step under the layers before it.  All but TypeOK assumes *)
(* that no system call fails that makes the host abandon a running         *)
(* evaluator; every other handled failure is allowed.                      *)
(***************************************************************************)
EXTENDS MonitoredEval, TLAPS

\* The engine starts without a thread, an error or a history.
LEMMA InitInvariant == Init => IInv
<1> SUFFICES ASSUME Init PROVE IInv
  OBVIOUS
<1> USE QuotaAssumption, CallsAssumption DEF Init, Calls
<1>1. TypeOK
  <2>1. /\ woken \in BOOLEAN /\ expired \in BOOLEAN /\ evalDone \in BOOLEAN
        /\ quotaErrorRaised \in BOOLEAN /\ torn \in BOOLEAN
    BY Zenon
  <2>2. QED
    BY SMT, <2>1 DEF TypeOK, HostPCs, EvaluatorPCs, EvalErrs, Quotas,
        Exceptions, QuotaErrors, Results, Excs, Host, Nobody, Unmeasured
<1>2. ThreadInv
  BY SMT DEF ThreadInv, Live, EvaluatorPCs, WithThread, Preparing
<1>3. VerdictInv
  BY SMT DEF VerdictInv, QuotaErrorSurvivesHandler, WithThread, Preparing, Quotas
<1>4. HistoryInv
  BY SMT DEF HistoryInv, VerdictIsEarned, SpentEngineRefuses,
      RefusedOnlyWhenSpent, QuotaErrors
<1>5. QED
  BY <1>1, <1>2, <1>3, <1>4 DEF IInv

\* Every variable keeps its range; instruction_count never passes the quota.
LEMMA TypeStep == TypeOK /\ [Next]_vars => TypeOK'
<1> SUFFICES ASSUME TypeOK, [Next]_vars PROVE TypeOK'
  OBVIOUS
<1> USE QuotaAssumption, CallsAssumption

<1>1. CASE HostStep
  <2>1. CASE CallEval
    BY SMT, <2>1, TypeOK DEF CallEval, HostOnly, TypeOK, hostVars, syncVars,
        stateVars, engineVars, threadVars, HostPCs, EvaluatorPCs, EvalErrs,
        Quotas, Exceptions, QuotaErrors, Results, Excs, Calls, Host, Nobody,
        Measured, Unmeasured, ESRCH
  <2>2. CASE Reject
    BY SMT, <2>2, TypeOK DEF Reject, HostOnly, TypeOK, hostVars, syncVars,
        stateVars, engineVars, threadVars, HostPCs, EvaluatorPCs, EvalErrs,
        Quotas, Exceptions, QuotaErrors, Results, Excs, Calls, Host, Nobody,
        Measured, Unmeasured, ESRCH
  <2>3. CASE Compile
    BY SMT, <2>3, TypeOK DEF Compile, Goto, TypeOK, hostVars, syncVars,
        stateVars, engineVars, threadVars, HostPCs, EvaluatorPCs, EvalErrs,
        Quotas, Exceptions, QuotaErrors, Results, Excs, Calls, Host, Nobody,
        Measured, Unmeasured, ESRCH
  <2>4. CASE CompileOutOfMemory
    BY SMT, <2>4, TypeOK DEF CompileOutOfMemory, HostLeave, Goto, MarkSpent,
        TypeOK, hostVars, syncVars, stateVars, engineVars, threadVars,
        HostPCs, EvaluatorPCs, EvalErrs, Quotas, Exceptions, QuotaErrors,
        Results, Excs, Calls, Host, Nobody, Measured, Unmeasured, ESRCH
  <2>5. CASE EvalStateInit
    <3>1. woken' \in BOOLEAN /\ evalDone' \in BOOLEAN
      BY Zenon, <2>5 DEF EvalStateInit
    <3>2. QED
      BY SMT, <2>5, <3>1, TypeOK DEF EvalStateInit, Goto, Fails, TypeOK,
          hostVars, syncVars, stateVars, engineVars, threadVars, HostPCs,
          EvaluatorPCs, EvalErrs, Quotas, Exceptions, QuotaErrors, Results,
          Excs, Calls, Host, Nobody, Measured, Unmeasured, ESRCH
  <2>6. CASE HostCallFails
    BY SMT, <2>6, TypeOK DEF HostCallFails, Goto, HostOnly, Fails, TypeOK,
        hostVars, syncVars, stateVars, engineVars, threadVars, HostPCs,
        EvaluatorPCs, EvalErrs, Quotas, Exceptions, QuotaErrors, Results,
        Excs, Calls, Host, Nobody, Measured, Unmeasured, ESRCH
  <2>7. CASE LockMutex
    BY SMT, <2>7, TypeOK DEF LockMutex, Goto, Acquire, TypeOK, hostVars,
        syncVars, stateVars, engineVars, threadVars, HostPCs, EvaluatorPCs,
        EvalErrs, Quotas, Exceptions, QuotaErrors, Results, Excs, Calls, Host,
        Nobody, Measured, Unmeasured, ESRCH
  <2>8. CASE CreateThread
    BY SMT, <2>8, TypeOK DEF CreateThread, Goto, TypeOK, hostVars, syncVars,
        stateVars, engineVars, threadVars, HostPCs, EvaluatorPCs, EvalErrs,
        Quotas, Exceptions, QuotaErrors, Results, Excs, Calls, Host, Nobody,
        Measured, Unmeasured, ESRCH
  <2>9. CASE ArmDeadline
    <3>1. expired' \in BOOLEAN
      BY Zenon, <2>9 DEF ArmDeadline
    <3>2. QED
      BY SMT, <2>9, <3>1, TypeOK DEF ArmDeadline, Goto, TypeOK, hostVars,
          syncVars, stateVars, engineVars, threadVars, HostPCs, EvaluatorPCs,
          EvalErrs, Quotas, Exceptions, QuotaErrors, Results, Excs, Calls,
          Host, Nobody, Measured, Unmeasured, ESRCH
  <2>10. CASE SampleUsage
    BY SMT, <2>10, TypeOK DEF SampleUsage, Goto, Live, Fails, TypeOK,
        hostVars, syncVars, stateVars, engineVars, threadVars, HostPCs,
        EvaluatorPCs, EvalErrs, Quotas, Exceptions, QuotaErrors, Results,
        Excs, Calls, Host, Nobody, Measured, Unmeasured, ESRCH
  <2>11. CASE Wait
    <3>1. woken' \in BOOLEAN
      BY Zenon, <2>11 DEF Wait
    <3>2. QED
      BY SMT, <2>11, <3>1, TypeOK DEF Wait, Goto, TypeOK, hostVars, syncVars,
          stateVars, engineVars, threadVars, HostPCs, EvaluatorPCs, EvalErrs,
          Quotas, Exceptions, QuotaErrors, Results, Excs, Calls, Host, Nobody,
          Measured, Unmeasured, ESRCH
  <2>12. CASE WakeBySignal
    BY SMT, <2>12, TypeOK DEF WakeBySignal, Awake, HostOnly, TypeOK, hostVars,
        syncVars, stateVars, engineVars, threadVars, HostPCs, EvaluatorPCs,
        EvalErrs, Quotas, Exceptions, QuotaErrors, Results, Excs, Calls, Host,
        Nobody, Measured, Unmeasured, ESRCH
  <2>13. CASE WakeByTimeout
    BY SMT, <2>13, TypeOK DEF WakeByTimeout, Awake, HostOnly, TypeOK,
        hostVars, syncVars, stateVars, engineVars, threadVars, HostPCs,
        EvaluatorPCs, EvalErrs, Quotas, Exceptions, QuotaErrors, Results,
        Excs, Calls, Host, Nobody, Measured, Unmeasured, ESRCH
  <2>14. CASE WakeSpurious
    BY SMT, <2>14, TypeOK DEF WakeSpurious, Awake, HostOnly, TypeOK, hostVars,
        syncVars, stateVars, engineVars, threadVars, HostPCs, EvaluatorPCs,
        EvalErrs, Quotas, Exceptions, QuotaErrors, Results, Excs, Calls, Host,
        Nobody, Measured, Unmeasured, ESRCH
  <2>15. CASE Reacquire
    BY SMT, <2>15, TypeOK DEF Reacquire, Goto, Acquire, TypeOK, hostVars,
        syncVars, stateVars, engineVars, threadVars, HostPCs, EvaluatorPCs,
        EvalErrs, Quotas, Exceptions, QuotaErrors, Results, Excs, Calls, Host,
        Nobody, Measured, Unmeasured, ESRCH
  <2>16. CASE CheckDone
    BY SMT, <2>16, TypeOK DEF CheckDone, Goto, HostOnly, TypeOK, hostVars,
        syncVars, stateVars, engineVars, threadVars, HostPCs, EvaluatorPCs,
        EvalErrs, Quotas, Exceptions, QuotaErrors, Results, Excs, Calls, Host,
        Nobody, Measured, Unmeasured, ESRCH
  <2>17. CASE RecordUsage
    BY SMT, <2>17, TypeOK DEF RecordUsage, Goto, Live, TypeOK, hostVars,
        syncVars, stateVars, engineVars, threadVars, HostPCs, EvaluatorPCs,
        EvalErrs, Quotas, Exceptions, QuotaErrors, Results, Excs, Calls, Host,
        Nobody, Measured, Unmeasured, ESRCH
  <2>18. CASE Unlock
    BY SMT, <2>18, TypeOK DEF Unlock, Goto, TypeOK, hostVars, syncVars,
        stateVars, engineVars, threadVars, HostPCs, EvaluatorPCs, EvalErrs,
        Quotas, Exceptions, QuotaErrors, Results, Excs, Calls, Host, Nobody,
        Measured, Unmeasured, ESRCH
  <2>19. CASE Cancel
    <3>1. pending' \subseteq Calls /\ waitResult' \in {"ok", "ETIMEDOUT"}
      BY SMT, <2>19, TypeOK DEF Cancel, TypeOK
    <3>2. QED
      BY SMT, <2>19, <3>1, TypeOK DEF Cancel, TypeOK, hostVars, syncVars,
          stateVars, engineVars, threadVars, HostPCs, EvaluatorPCs, EvalErrs,
          Quotas, Exceptions, QuotaErrors, Results, Excs, Calls, Host, Nobody,
          Measured, Unmeasured, ESRCH
  <2>20. CASE Join
    BY SMT, <2>20, TypeOK DEF Join, Goto, Joined, TimeQuotaError, HostOnly,
        TypeOK, hostVars, syncVars, stateVars, engineVars, threadVars,
        HostPCs, EvaluatorPCs, EvalErrs, Quotas, Exceptions, QuotaErrors,
        Results, Excs, Calls, Host, Nobody, Measured, Unmeasured, ESRCH
  <2>21. CASE Cleanup
    BY SMT, <2>21, TypeOK DEF Cleanup, Goto, EvalErrToHost, Fails, TypeOK,
        hostVars, syncVars, stateVars, engineVars, threadVars, HostPCs,
        EvaluatorPCs, EvalErrs, Quotas, Exceptions, QuotaErrors, Results,
        Excs, Calls, Host, Nobody, Measured, Unmeasured, ESRCH
  <2>22. CASE GetException
    BY SMT, <2>22, TypeOK DEF GetException, Goto, TakeException, TypeOK,
        hostVars, syncVars, stateVars, engineVars, threadVars, HostPCs,
        EvaluatorPCs, EvalErrs, Quotas, Exceptions, QuotaErrors, Results,
        Excs, Calls, Host, Nobody, Measured, Unmeasured, ESRCH
  <2>23. CASE HostInstruction
    BY SMT, <2>23, TypeOK DEF HostInstruction, HookPasses, TypeOK, hostVars,
        syncVars, stateVars, engineVars, threadVars, HostPCs, EvaluatorPCs,
        EvalErrs, Quotas, Exceptions, QuotaErrors, Results, Excs, Calls, Host,
        Nobody, Measured, Unmeasured, ESRCH
  <2>24. CASE HostQuota
    BY SMT, <2>24, TypeOK DEF HostQuota, QuotaReached, HookPasses, HostLeave,
        Goto, MarkSpent, TypeOK, hostVars, syncVars, stateVars, engineVars,
        threadVars, HostPCs, EvaluatorPCs, EvalErrs, Quotas, Exceptions,
        QuotaErrors, Results, Excs, Calls, Host, Nobody, Measured, Unmeasured,
        ESRCH
  <2>25. CASE DescribeException
    BY SMT, <2>25, TypeOK DEF DescribeException, Goto, TakeException, TypeOK,
        hostVars, syncVars, stateVars, engineVars, threadVars, HostPCs,
        EvaluatorPCs, EvalErrs, Quotas, Exceptions, QuotaErrors, Results,
        Excs, Calls, Host, Nobody, Measured, Unmeasured, ESRCH
  <2>26. CASE Return
    BY SMT, <2>26, TypeOK DEF Return, HostOnly, TypeOK, hostVars, syncVars,
        stateVars, engineVars, threadVars, HostPCs, EvaluatorPCs, EvalErrs,
        Quotas, Exceptions, QuotaErrors, Results, Excs, Calls, Host, Nobody,
        Measured, Unmeasured, ESRCH
  <2>27. QED
    BY SMT, <1>1, <2>1, <2>2, <2>3, <2>4, <2>5, <2>6, <2>7, <2>8, <2>9, <2>10,
        <2>11, <2>12, <2>13, <2>14, <2>15, <2>16, <2>17, <2>18, <2>19, <2>20,
        <2>21, <2>22, <2>23, <2>24, <2>25, <2>26 DEF HostStep
<1>2. ASSUME NEW c \in Calls, EvaluatorStep(c) PROVE TypeOK'
  <2>1. CASE EvaluatorCallFails(c)
    BY SMT, <2>1, TypeOK DEF EvaluatorCallFails, EGoto, Fails, RecordErr,
        TypeOK, hostVars, syncVars, stateVars, engineVars, threadVars,
        HostPCs, EvaluatorPCs, EvalErrs, Quotas, Exceptions, QuotaErrors,
        Results, Excs, Calls, Host, Nobody, Measured, Unmeasured, ESRCH
  <2>2. CASE Start(c)
    BY SMT, <2>2, TypeOK DEF Start, EGoto, TypeOK, hostVars, syncVars,
        stateVars, engineVars, threadVars, HostPCs, EvaluatorPCs, EvalErrs,
        Quotas, Exceptions, QuotaErrors, Results, Excs, Calls, Host, Nobody,
        Measured, Unmeasured, ESRCH
  <2>3. CASE SetCancelType(c)
    BY SMT, <2>3, TypeOK DEF SetCancelType, EGoto, BecomeAsync, TypeOK,
        hostVars, syncVars, stateVars, engineVars, threadVars, HostPCs,
        EvaluatorPCs, EvalErrs, Quotas, Exceptions, QuotaErrors, Results,
        Excs, Calls, Host, Nobody, Measured, Unmeasured, ESRCH
  <2>4. CASE TestCancel(c)
    BY SMT, <2>4, TypeOK DEF TestCancel, EGoto, TypeOK, hostVars, syncVars,
        stateVars, engineVars, threadVars, HostPCs, EvaluatorPCs, EvalErrs,
        Quotas, Exceptions, QuotaErrors, Results, Excs, Calls, Host, Nobody,
        Measured, Unmeasured, ESRCH
  <2>5. CASE Instruction(c)
    BY SMT, <2>5, TypeOK DEF Instruction, HookPasses, TypeOK, hostVars,
        syncVars, stateVars, engineVars, threadVars, HostPCs, EvaluatorPCs,
        EvalErrs, Quotas, Exceptions, QuotaErrors, Results, Excs, Calls, Host,
        Nobody, Measured, Unmeasured, ESRCH
  <2>6. CASE ReachQuota(c)
    BY SMT, <2>6, TypeOK DEF ReachQuota, QuotaReached, HookPasses, EGoto,
        TypeOK, hostVars, syncVars, stateVars, engineVars, threadVars,
        HostPCs, EvaluatorPCs, EvalErrs, Quotas, Exceptions, QuotaErrors,
        Results, Excs, Calls, Host, Nobody, Measured, Unmeasured, ESRCH
  <2>7. CASE Leave(c)
    BY SMT, <2>7, TypeOK DEF Leave, EGoto, MarkSpent, TypeOK, hostVars,
        syncVars, stateVars, engineVars, threadVars, HostPCs, EvaluatorPCs,
        EvalErrs, Quotas, Exceptions, QuotaErrors, Results, Excs, Calls, Host,
        Nobody, Measured, Unmeasured, ESRCH
  <2>8. CASE Finish(c)
    BY SMT, <2>8, TypeOK DEF Finish, EGoto, TypeOK, hostVars, syncVars,
        stateVars, engineVars, threadVars, HostPCs, EvaluatorPCs, EvalErrs,
        Quotas, Exceptions, QuotaErrors, Results, Excs, Calls, Host, Nobody,
        Measured, Unmeasured, ESRCH
  <2>9. CASE ActOnCancel(c)
    <3>1. torn' \in BOOLEAN
      BY Zenon, <2>9 DEF ActOnCancel, TearScript, TypeOK
    <3>2. QED
      BY SMT, <2>9, <3>1, TypeOK DEF ActOnCancel, EGoto, Live, InScript,
          TypeOK, hostVars, syncVars, stateVars, engineVars, threadVars,
          HostPCs, EvaluatorPCs, EvalErrs, Quotas, Exceptions, QuotaErrors,
          Results, Excs, Calls, Host, Nobody, Measured, Unmeasured, ESRCH
  <2>10. CASE HandlerDisable(c)
    BY SMT, <2>10, TypeOK DEF HandlerDisable, EGoto, Fails, RecordErr, TypeOK,
        hostVars, syncVars, stateVars, engineVars, threadVars, HostPCs,
        EvaluatorPCs, EvalErrs, Quotas, Exceptions, QuotaErrors, Results,
        Excs, Calls, Host, Nobody, Measured, Unmeasured, ESRCH
  <2>11. CASE HandlerLock(c)
    BY SMT, <2>11, TypeOK DEF HandlerLock, EGoto, Acquire, Fails, RecordErr,
        TypeOK, hostVars, syncVars, stateVars, engineVars, threadVars,
        HostPCs, EvaluatorPCs, EvalErrs, Quotas, Exceptions, QuotaErrors,
        Results, Excs, Calls, Host, Nobody, Measured, Unmeasured, ESRCH
  <2>12. CASE HandlerDone(c)
    BY SMT, <2>12, TypeOK DEF HandlerDone, EGoto, TypeOK, hostVars, syncVars,
        stateVars, engineVars, threadVars, HostPCs, EvaluatorPCs, EvalErrs,
        Quotas, Exceptions, QuotaErrors, Results, Excs, Calls, Host, Nobody,
        Measured, Unmeasured, ESRCH
  <2>13. CASE HandlerUnlock(c)
    BY SMT, <2>13, TypeOK DEF HandlerUnlock, EGoto, Fails, RecordErr, TypeOK,
        hostVars, syncVars, stateVars, engineVars, threadVars, HostPCs,
        EvaluatorPCs, EvalErrs, Quotas, Exceptions, QuotaErrors, Results,
        Excs, Calls, Host, Nobody, Measured, Unmeasured, ESRCH
  <2>14. CASE HandlerSignal(c)
    <3>1. woken' \in BOOLEAN
      BY Zenon, <2>14 DEF HandlerSignal, WakeHost, TypeOK
    <3>2. QED
      BY SMT, <2>14, <3>1, TypeOK DEF HandlerSignal, EGoto, Fails, RecordErr,
          TypeOK, hostVars, syncVars, stateVars, engineVars, threadVars,
          HostPCs, EvaluatorPCs, EvalErrs, Quotas, Exceptions, QuotaErrors,
          Results, Excs, Calls, Host, Nobody, Measured, Unmeasured, ESRCH
  <2>15. QED
    BY SMT, <1>2, <2>1, <2>2, <2>3, <2>4, <2>5, <2>6, <2>7, <2>8, <2>9, <2>10,
        <2>11, <2>12, <2>13, <2>14 DEF EvaluatorStep, HandlerStep
<1>3. CASE Tick
  BY SMT, <1>3, TypeOK DEF Tick, Armed, TypeOK, hostVars, syncVars, stateVars,
      engineVars, threadVars, HostPCs, EvaluatorPCs, EvalErrs, Quotas,
      Exceptions, QuotaErrors, Results, Excs, Calls, Host, Nobody, Measured,
      Unmeasured, ESRCH
<1>4. CASE UNCHANGED vars
  BY SMT, <1>4, TypeOK DEF vars, TypeOK, hostVars, syncVars, stateVars,
      engineVars, threadVars, HostPCs, EvaluatorPCs, EvalErrs, Quotas,
      Exceptions, QuotaErrors, Results, Excs, Calls, Host, Nobody, Measured,
      Unmeasured, ESRCH
<1>5. QED
  BY SMT, <1>1, <1>2, <1>3, <1>4 DEF Next, Rest

\* The evaluator of a call lives only while the host holds its pthread_t and
\* its mutex and condition are initialised: pthread_join precedes cleanup.
LEMMA ThreadStep ==
  ASSUME MayFail \cap AbandoningCalls = {}
  PROVE  TypeOK /\ TypeOK' /\ ThreadInv /\ [Next]_vars => ThreadInv'
<1> SUFFICES ASSUME TypeOK, TypeOK', ThreadInv, [Next]_vars PROVE ThreadInv'
  OBVIOUS
<1> USE QuotaAssumption, CallsAssumption

<1>1. CASE HostStep
  <2>1. CASE CallEval
    BY SMT, <2>1, TypeOK, TypeOK', ThreadInv DEF CallEval, HostOnly, TypeOK,
        ThreadInv, hostVars, syncVars, stateVars, engineVars, threadVars,
        WithThread, Preparing, Live, EvaluatorPCs, Calls
  <2>2. CASE Reject
    BY SMT, <2>2, TypeOK, TypeOK', ThreadInv DEF Reject, HostOnly, TypeOK,
        ThreadInv, hostVars, syncVars, stateVars, engineVars, threadVars,
        WithThread, Preparing, Live, EvaluatorPCs, Calls
  <2>3. CASE Compile
    BY SMT, <2>3, TypeOK, TypeOK', ThreadInv DEF Compile, Goto, TypeOK,
        ThreadInv, hostVars, syncVars, stateVars, engineVars, threadVars,
        WithThread, Preparing, Live, EvaluatorPCs, Calls
  <2>4. CASE CompileOutOfMemory
    BY SMT, <2>4, TypeOK, TypeOK', ThreadInv DEF CompileOutOfMemory,
        HostLeave, Goto, MarkSpent, TypeOK, ThreadInv, hostVars, syncVars,
        stateVars, engineVars, threadVars, WithThread, Preparing, Live,
        EvaluatorPCs, Calls
  <2>5. CASE EvalStateInit
    BY SMT, <2>5, TypeOK, TypeOK', ThreadInv DEF EvalStateInit, Goto, Fails,
        TypeOK, ThreadInv, hostVars, syncVars, stateVars, engineVars,
        threadVars, WithThread, Preparing, Live, EvaluatorPCs, Calls
  <2>6. CASE HostCallFails
    BY SMT, <2>6, TypeOK, TypeOK', ThreadInv DEF HostCallFails, Goto,
        HostOnly, Fails, AbandoningCalls, TypeOK, ThreadInv, hostVars,
        syncVars, stateVars, engineVars, threadVars, WithThread, Preparing,
        Live, EvaluatorPCs, Calls
  <2>7. CASE LockMutex
    BY SMT, <2>7, TypeOK, TypeOK', ThreadInv DEF LockMutex, Goto, Acquire,
        TypeOK, ThreadInv, hostVars, syncVars, stateVars, engineVars,
        threadVars, WithThread, Preparing, Live, EvaluatorPCs, Calls
  <2>8. CASE CreateThread
    BY SMT, <2>8, TypeOK, TypeOK', ThreadInv DEF CreateThread, Goto, TypeOK,
        ThreadInv, hostVars, syncVars, stateVars, engineVars, threadVars,
        WithThread, Preparing, Live, EvaluatorPCs, Calls
  <2>9. CASE ArmDeadline
    BY SMT, <2>9, TypeOK, TypeOK', ThreadInv DEF ArmDeadline, Goto, TypeOK,
        ThreadInv, hostVars, syncVars, stateVars, engineVars, threadVars,
        WithThread, Preparing, Live, EvaluatorPCs, Calls
  <2>10. CASE SampleUsage
    BY SMT, <2>10, TypeOK, TypeOK', ThreadInv DEF SampleUsage, Goto, Live,
        Fails, TypeOK, ThreadInv, hostVars, syncVars, stateVars, engineVars,
        threadVars, WithThread, Preparing, Live, EvaluatorPCs, Calls
  <2>11. CASE Wait
    BY SMT, <2>11, TypeOK, TypeOK', ThreadInv DEF Wait, Goto, TypeOK,
        ThreadInv, hostVars, syncVars, stateVars, engineVars, threadVars,
        WithThread, Preparing, Live, EvaluatorPCs, Calls
  <2>12. CASE WakeBySignal
    BY SMT, <2>12, TypeOK, TypeOK', ThreadInv DEF WakeBySignal, Awake,
        HostOnly, TypeOK, ThreadInv, hostVars, syncVars, stateVars,
        engineVars, threadVars, WithThread, Preparing, Live, EvaluatorPCs,
        Calls
  <2>13. CASE WakeByTimeout
    BY SMT, <2>13, TypeOK, TypeOK', ThreadInv DEF WakeByTimeout, Awake,
        HostOnly, TypeOK, ThreadInv, hostVars, syncVars, stateVars,
        engineVars, threadVars, WithThread, Preparing, Live, EvaluatorPCs,
        Calls
  <2>14. CASE WakeSpurious
    BY SMT, <2>14, TypeOK, TypeOK', ThreadInv DEF WakeSpurious, Awake,
        HostOnly, TypeOK, ThreadInv, hostVars, syncVars, stateVars,
        engineVars, threadVars, WithThread, Preparing, Live, EvaluatorPCs,
        Calls
  <2>15. CASE Reacquire
    BY SMT, <2>15, TypeOK, TypeOK', ThreadInv DEF Reacquire, Goto, Acquire,
        TypeOK, ThreadInv, hostVars, syncVars, stateVars, engineVars,
        threadVars, WithThread, Preparing, Live, EvaluatorPCs, Calls
  <2>16. CASE CheckDone
    BY SMT, <2>16, TypeOK, TypeOK', ThreadInv DEF CheckDone, Goto, HostOnly,
        TypeOK, ThreadInv, hostVars, syncVars, stateVars, engineVars,
        threadVars, WithThread, Preparing, Live, EvaluatorPCs, Calls
  <2>17. CASE RecordUsage
    BY SMT, <2>17, TypeOK, TypeOK', ThreadInv DEF RecordUsage, Goto, Live,
        TypeOK, ThreadInv, hostVars, syncVars, stateVars, engineVars,
        threadVars, WithThread, Preparing, Live, EvaluatorPCs, Calls
  <2>18. CASE Unlock
    BY SMT, <2>18, TypeOK, TypeOK', ThreadInv DEF Unlock, Goto, TypeOK,
        ThreadInv, hostVars, syncVars, stateVars, engineVars, threadVars,
        WithThread, Preparing, Live, EvaluatorPCs, Calls
  <2>19. CASE Cancel
    BY SMT, <2>19, TypeOK, TypeOK', ThreadInv DEF Cancel, TypeOK, ThreadInv,
        hostVars, syncVars, stateVars, engineVars, threadVars, WithThread,
        Preparing, Live, EvaluatorPCs, Calls
  <2>20. CASE Join
    BY SMT, <2>20, TypeOK, TypeOK', ThreadInv DEF Join, Goto, Joined,
        TimeQuotaError, HostOnly, TypeOK, ThreadInv, hostVars, syncVars,
        stateVars, engineVars, threadVars, WithThread, Preparing, Live,
        EvaluatorPCs, Calls
  <2>21. CASE Cleanup
    BY SMT, <2>21, TypeOK, TypeOK', ThreadInv DEF Cleanup, Goto,
        EvalErrToHost, Fails, TypeOK, ThreadInv, hostVars, syncVars,
        stateVars, engineVars, threadVars, WithThread, Preparing, Live,
        EvaluatorPCs, Calls
  <2>22. CASE GetException
    BY SMT, <2>22, TypeOK, TypeOK', ThreadInv DEF GetException, Goto,
        TakeException, TypeOK, ThreadInv, hostVars, syncVars, stateVars,
        engineVars, threadVars, WithThread, Preparing, Live, EvaluatorPCs,
        Calls
  <2>23. CASE HostInstruction
    BY SMT, <2>23, TypeOK, TypeOK', ThreadInv DEF HostInstruction, HookPasses,
        TypeOK, ThreadInv, hostVars, syncVars, stateVars, engineVars,
        threadVars, WithThread, Preparing, Live, EvaluatorPCs, Calls
  <2>24. CASE HostQuota
    BY SMT, <2>24, TypeOK, TypeOK', ThreadInv DEF HostQuota, QuotaReached,
        HookPasses, HostLeave, Goto, MarkSpent, TypeOK, ThreadInv, hostVars,
        syncVars, stateVars, engineVars, threadVars, WithThread, Preparing,
        Live, EvaluatorPCs, Calls
  <2>25. CASE DescribeException
    BY SMT, <2>25, TypeOK, TypeOK', ThreadInv DEF DescribeException, Goto,
        TakeException, TypeOK, ThreadInv, hostVars, syncVars, stateVars,
        engineVars, threadVars, WithThread, Preparing, Live, EvaluatorPCs,
        Calls
  <2>26. CASE Return
    BY SMT, <2>26, TypeOK, TypeOK', ThreadInv DEF Return, HostOnly, TypeOK,
        ThreadInv, hostVars, syncVars, stateVars, engineVars, threadVars,
        WithThread, Preparing, Live, EvaluatorPCs, Calls
  <2>27. QED
    BY SMT, <1>1, <2>1, <2>2, <2>3, <2>4, <2>5, <2>6, <2>7, <2>8, <2>9, <2>10,
        <2>11, <2>12, <2>13, <2>14, <2>15, <2>16, <2>17, <2>18, <2>19, <2>20,
        <2>21, <2>22, <2>23, <2>24, <2>25, <2>26 DEF HostStep
<1>2. ASSUME NEW c \in Calls, EvaluatorStep(c) PROVE ThreadInv'
  <2>1. CASE EvaluatorCallFails(c)
    BY SMT, <2>1, TypeOK, TypeOK', ThreadInv DEF EvaluatorCallFails, EGoto,
        Fails, RecordErr, TypeOK, ThreadInv, hostVars, syncVars, stateVars,
        engineVars, threadVars, WithThread, Preparing, Live, EvaluatorPCs,
        Calls
  <2>2. CASE Start(c)
    BY SMT, <2>2, TypeOK, TypeOK', ThreadInv DEF Start, EGoto, TypeOK,
        ThreadInv, hostVars, syncVars, stateVars, engineVars, threadVars,
        WithThread, Preparing, Live, EvaluatorPCs, Calls
  <2>3. CASE SetCancelType(c)
    BY SMT, <2>3, TypeOK, TypeOK', ThreadInv DEF SetCancelType, EGoto,
        BecomeAsync, TypeOK, ThreadInv, hostVars, syncVars, stateVars,
        engineVars, threadVars, WithThread, Preparing, Live, EvaluatorPCs,
        Calls
  <2>4. CASE TestCancel(c)
    BY SMT, <2>4, TypeOK, TypeOK', ThreadInv DEF TestCancel, EGoto, TypeOK,
        ThreadInv, hostVars, syncVars, stateVars, engineVars, threadVars,
        WithThread, Preparing, Live, EvaluatorPCs, Calls
  <2>5. CASE Instruction(c)
    BY SMT, <2>5, TypeOK, TypeOK', ThreadInv DEF Instruction, HookPasses,
        TypeOK, ThreadInv, hostVars, syncVars, stateVars, engineVars,
        threadVars, WithThread, Preparing, Live, EvaluatorPCs, Calls
  <2>6. CASE ReachQuota(c)
    BY SMT, <2>6, TypeOK, TypeOK', ThreadInv DEF ReachQuota, QuotaReached,
        HookPasses, EGoto, TypeOK, ThreadInv, hostVars, syncVars, stateVars,
        engineVars, threadVars, WithThread, Preparing, Live, EvaluatorPCs,
        Calls
  <2>7. CASE Leave(c)
    BY SMT, <2>7, TypeOK, TypeOK', ThreadInv DEF Leave, EGoto, MarkSpent,
        TypeOK, ThreadInv, hostVars, syncVars, stateVars, engineVars,
        threadVars, WithThread, Preparing, Live, EvaluatorPCs, Calls
  <2>8. CASE Finish(c)
    BY SMT, <2>8, TypeOK, TypeOK', ThreadInv DEF Finish, EGoto, TypeOK,
        ThreadInv, hostVars, syncVars, stateVars, engineVars, threadVars,
        WithThread, Preparing, Live, EvaluatorPCs, Calls
  <2>9. CASE ActOnCancel(c)
    BY SMT, <2>9, TypeOK, TypeOK', ThreadInv DEF ActOnCancel, EGoto, Live,
        InScript, TypeOK, ThreadInv, hostVars, syncVars, stateVars,
        engineVars, threadVars, WithThread, Preparing, Live, EvaluatorPCs,
        Calls
  <2>10. CASE HandlerDisable(c)
    BY SMT, <2>10, TypeOK, TypeOK', ThreadInv DEF HandlerDisable, EGoto,
        Fails, RecordErr, TypeOK, ThreadInv, hostVars, syncVars, stateVars,
        engineVars, threadVars, WithThread, Preparing, Live, EvaluatorPCs,
        Calls
  <2>11. CASE HandlerLock(c)
    BY SMT, <2>11, TypeOK, TypeOK', ThreadInv DEF HandlerLock, EGoto, Acquire,
        Fails, RecordErr, TypeOK, ThreadInv, hostVars, syncVars, stateVars,
        engineVars, threadVars, WithThread, Preparing, Live, EvaluatorPCs,
        Calls
  <2>12. CASE HandlerDone(c)
    BY SMT, <2>12, TypeOK, TypeOK', ThreadInv DEF HandlerDone, EGoto, TypeOK,
        ThreadInv, hostVars, syncVars, stateVars, engineVars, threadVars,
        WithThread, Preparing, Live, EvaluatorPCs, Calls
  <2>13. CASE HandlerUnlock(c)
    BY SMT, <2>13, TypeOK, TypeOK', ThreadInv DEF HandlerUnlock, EGoto, Fails,
        RecordErr, TypeOK, ThreadInv, hostVars, syncVars, stateVars,
        engineVars, threadVars, WithThread, Preparing, Live, EvaluatorPCs,
        Calls
  <2>14. CASE HandlerSignal(c)
    BY SMT, <2>14, TypeOK, TypeOK', ThreadInv DEF HandlerSignal, EGoto, Fails,
        RecordErr, TypeOK, ThreadInv, hostVars, syncVars, stateVars,
        engineVars, threadVars, WithThread, Preparing, Live, EvaluatorPCs,
        Calls
  <2>15. QED
    BY SMT, <1>2, <2>1, <2>2, <2>3, <2>4, <2>5, <2>6, <2>7, <2>8, <2>9, <2>10,
        <2>11, <2>12, <2>13, <2>14 DEF EvaluatorStep, HandlerStep
<1>3. CASE Tick
  BY SMT, <1>3, TypeOK, TypeOK', ThreadInv DEF Tick, Armed, TypeOK, ThreadInv,
      hostVars, syncVars, stateVars, engineVars, threadVars, WithThread,
      Preparing, Live, EvaluatorPCs, Calls
<1>4. CASE UNCHANGED vars
  BY SMT, <1>4, TypeOK, TypeOK', ThreadInv DEF vars, TypeOK, ThreadInv,
      hostVars, syncVars, stateVars, engineVars, threadVars, WithThread,
      Preparing, Live, EvaluatorPCs, Calls
<1>5. QED
  BY SMT, <1>1, <1>2, <1>3, <1>4 DEF Next, Rest

\* What the evaluator recorded in eval_state and in the engine agrees with
\* the exception the host builds from it.
LEMMA VerdictStep ==
  ASSUME MayFail \cap AbandoningCalls = {}
  PROVE  TypeOK /\ TypeOK' /\ ThreadInv /\ ThreadInv' /\ VerdictInv /\ [Next]_vars
           => VerdictInv'
<1> SUFFICES ASSUME TypeOK, TypeOK', ThreadInv, ThreadInv', VerdictInv,
                    [Next]_vars
             PROVE  VerdictInv'
  OBVIOUS
<1> USE QuotaAssumption, CallsAssumption

<1>1. CASE HostStep
  <2>1. CASE CallEval
    BY SMT, <2>1, TypeOK, TypeOK', ThreadInv, VerdictInv DEF CallEval,
        HostOnly, TypeOK, ThreadInv, VerdictInv, QuotaErrorSurvivesHandler,
        hostVars, syncVars, stateVars, engineVars, threadVars, WithThread,
        Preparing, AfterRun, Live, EvaluatorPCs, Quotas, QuotaErrors, Calls
  <2>2. CASE Reject
    BY SMT, <2>2, TypeOK, TypeOK', ThreadInv, VerdictInv DEF Reject, HostOnly,
        TypeOK, ThreadInv, VerdictInv, QuotaErrorSurvivesHandler, hostVars,
        syncVars, stateVars, engineVars, threadVars, WithThread, Preparing,
        AfterRun, Live, EvaluatorPCs, Quotas, QuotaErrors, Calls
  <2>3. CASE Compile
    BY SMT, <2>3, TypeOK, TypeOK', ThreadInv, VerdictInv DEF Compile, Goto,
        TypeOK, ThreadInv, VerdictInv, QuotaErrorSurvivesHandler, hostVars,
        syncVars, stateVars, engineVars, threadVars, WithThread, Preparing,
        AfterRun, Live, EvaluatorPCs, Quotas, QuotaErrors, Calls
  <2>4. CASE CompileOutOfMemory
    BY SMT, <2>4, TypeOK, TypeOK', ThreadInv, VerdictInv DEF
        CompileOutOfMemory, HostLeave, Goto, MarkSpent, TypeOK, ThreadInv,
        VerdictInv, QuotaErrorSurvivesHandler, hostVars, syncVars, stateVars,
        engineVars, threadVars, WithThread, Preparing, AfterRun, Live,
        EvaluatorPCs, Quotas, QuotaErrors, Calls
  <2>5. CASE EvalStateInit
    BY SMT, <2>5, TypeOK, TypeOK', ThreadInv, VerdictInv DEF EvalStateInit,
        Goto, Fails, TypeOK, ThreadInv, VerdictInv, QuotaErrorSurvivesHandler,
        hostVars, syncVars, stateVars, engineVars, threadVars, WithThread,
        Preparing, AfterRun, Live, EvaluatorPCs, Quotas, QuotaErrors, Calls
  <2>6. CASE HostCallFails
    BY SMT, <2>6, TypeOK, TypeOK', ThreadInv, VerdictInv DEF HostCallFails,
        Goto, HostOnly, Fails, AbandoningCalls, TypeOK, ThreadInv, VerdictInv,
        QuotaErrorSurvivesHandler, hostVars, syncVars, stateVars, engineVars,
        threadVars, WithThread, Preparing, AfterRun, Live, EvaluatorPCs,
        Quotas, QuotaErrors, Calls
  <2>7. CASE LockMutex
    BY SMT, <2>7, TypeOK, TypeOK', ThreadInv, VerdictInv DEF LockMutex, Goto,
        Acquire, TypeOK, ThreadInv, VerdictInv, QuotaErrorSurvivesHandler,
        hostVars, syncVars, stateVars, engineVars, threadVars, WithThread,
        Preparing, AfterRun, Live, EvaluatorPCs, Quotas, QuotaErrors, Calls
  <2>8. CASE CreateThread
    BY SMT, <2>8, TypeOK, TypeOK', ThreadInv, VerdictInv DEF CreateThread,
        Goto, TypeOK, ThreadInv, VerdictInv, QuotaErrorSurvivesHandler,
        hostVars, syncVars, stateVars, engineVars, threadVars, WithThread,
        Preparing, AfterRun, Live, EvaluatorPCs, Quotas, QuotaErrors, Calls
  <2>9. CASE ArmDeadline
    BY SMT, <2>9, TypeOK, TypeOK', ThreadInv, VerdictInv DEF ArmDeadline,
        Goto, TypeOK, ThreadInv, VerdictInv, QuotaErrorSurvivesHandler,
        hostVars, syncVars, stateVars, engineVars, threadVars, WithThread,
        Preparing, AfterRun, Live, EvaluatorPCs, Quotas, QuotaErrors, Calls
  <2>10. CASE SampleUsage
    BY SMT, <2>10, TypeOK, TypeOK', ThreadInv, VerdictInv DEF SampleUsage,
        Goto, Live, Fails, TypeOK, ThreadInv, VerdictInv,
        QuotaErrorSurvivesHandler, hostVars, syncVars, stateVars, engineVars,
        threadVars, WithThread, Preparing, AfterRun, Live, EvaluatorPCs,
        Quotas, QuotaErrors, Calls
  <2>11. CASE Wait
    BY SMT, <2>11, TypeOK, TypeOK', ThreadInv, VerdictInv DEF Wait, Goto,
        TypeOK, ThreadInv, VerdictInv, QuotaErrorSurvivesHandler, hostVars,
        syncVars, stateVars, engineVars, threadVars, WithThread, Preparing,
        AfterRun, Live, EvaluatorPCs, Quotas, QuotaErrors, Calls
  <2>12. CASE WakeBySignal
    BY SMT, <2>12, TypeOK, TypeOK', ThreadInv, VerdictInv DEF WakeBySignal,
        Awake, HostOnly, TypeOK, ThreadInv, VerdictInv,
        QuotaErrorSurvivesHandler, hostVars, syncVars, stateVars, engineVars,
        threadVars, WithThread, Preparing, AfterRun, Live, EvaluatorPCs,
        Quotas, QuotaErrors, Calls
  <2>13. CASE WakeByTimeout
    BY SMT, <2>13, TypeOK, TypeOK', ThreadInv, VerdictInv DEF WakeByTimeout,
        Awake, HostOnly, TypeOK, ThreadInv, VerdictInv,
        QuotaErrorSurvivesHandler, hostVars, syncVars, stateVars, engineVars,
        threadVars, WithThread, Preparing, AfterRun, Live, EvaluatorPCs,
        Quotas, QuotaErrors, Calls
  <2>14. CASE WakeSpurious
    BY SMT, <2>14, TypeOK, TypeOK', ThreadInv, VerdictInv DEF WakeSpurious,
        Awake, HostOnly, TypeOK, ThreadInv, VerdictInv,
        QuotaErrorSurvivesHandler, hostVars, syncVars, stateVars, engineVars,
        threadVars, WithThread, Preparing, AfterRun, Live, EvaluatorPCs,
        Quotas, QuotaErrors, Calls
  <2>15. CASE Reacquire
    BY SMT, <2>15, TypeOK, TypeOK', ThreadInv, VerdictInv DEF Reacquire, Goto,
        Acquire, TypeOK, ThreadInv, VerdictInv, QuotaErrorSurvivesHandler,
        hostVars, syncVars, stateVars, engineVars, threadVars, WithThread,
        Preparing, AfterRun, Live, EvaluatorPCs, Quotas, QuotaErrors, Calls
  <2>16. CASE CheckDone
    BY SMT, <2>16, TypeOK, TypeOK', ThreadInv, VerdictInv DEF CheckDone, Goto,
        HostOnly, TypeOK, ThreadInv, VerdictInv, QuotaErrorSurvivesHandler,
        hostVars, syncVars, stateVars, engineVars, threadVars, WithThread,
        Preparing, AfterRun, Live, EvaluatorPCs, Quotas, QuotaErrors, Calls
  <2>17. CASE RecordUsage
    BY SMT, <2>17, TypeOK, TypeOK', ThreadInv, VerdictInv DEF RecordUsage,
        Goto, Live, TypeOK, ThreadInv, VerdictInv, QuotaErrorSurvivesHandler,
        hostVars, syncVars, stateVars, engineVars, threadVars, WithThread,
        Preparing, AfterRun, Live, EvaluatorPCs, Quotas, QuotaErrors, Calls
  <2>18. CASE Unlock
    BY SMT, <2>18, TypeOK, TypeOK', ThreadInv, VerdictInv DEF Unlock, Goto,
        TypeOK, ThreadInv, VerdictInv, QuotaErrorSurvivesHandler, hostVars,
        syncVars, stateVars, engineVars, threadVars, WithThread, Preparing,
        AfterRun, Live, EvaluatorPCs, Quotas, QuotaErrors, Calls
  <2>19. CASE Cancel
    BY SMT, <2>19, TypeOK, TypeOK', ThreadInv, VerdictInv DEF Cancel, TypeOK,
        ThreadInv, VerdictInv, QuotaErrorSurvivesHandler, hostVars, syncVars,
        stateVars, engineVars, threadVars, WithThread, Preparing, AfterRun,
        Live, EvaluatorPCs, Quotas, QuotaErrors, Calls
  <2>20. CASE Join
    BY SMT, <2>20, TypeOK, TypeOK', ThreadInv, VerdictInv DEF Join, Goto,
        Joined, TimeQuotaError, HostOnly, TypeOK, ThreadInv, VerdictInv,
        QuotaErrorSurvivesHandler, hostVars, syncVars, stateVars, engineVars,
        threadVars, WithThread, Preparing, AfterRun, Live, EvaluatorPCs,
        Quotas, QuotaErrors, Calls
  <2>21. CASE Cleanup
    <3>1. /\ hostErr # "nil" => hostErr' = hostErr
          /\ hostErr = "nil" => hostErr' \in {"EngineInternalError", EvalErrToHost(evalErr)}
          /\ hpc' = IF hostErr' = "nil" THEN "get_exception" ELSE "return"
          /\ hpc = "cleanup" /\ UNCHANGED <<call, evalErr, quotaErrorRaised, instructionCount>>
          /\ UNCHANGED <<epc, pending, completed, waitResult, expired>>
      BY SMT, <2>21 DEF Cleanup, Goto, stateVars, engineVars, threadVars
    <3>2. /\ EvalErrToHost(evalErr) = "nil" => evalErr = "NO_ERR"
          /\ EvalErrToHost(evalErr) \in QuotaErrors => evalErr \in Quotas
          /\ EvalErrToHost(evalErr) = "EngineInstructionQuotaError" =>
               evalErr = "INSTRUCTION_QUOTA_REACHED"
          /\ EvalErrToHost(evalErr) \in QuotaErrors \cup {"nil", "EngineInternalError"}
          /\ evalErr \in Quotas => EvalErrToHost(evalErr) \in QuotaErrors
      BY SMT, TypeOK DEF EvalErrToHost, TypeOK, EvalErrs, Quotas, QuotaErrors
    <3>3. QED
      BY SMT, <3>1, <3>2, TypeOK, ThreadInv, VerdictInv DEF TypeOK, ThreadInv,
          VerdictInv, QuotaErrorSurvivesHandler, WithThread, Preparing, AfterRun, Live,
          EvaluatorPCs, Quotas, QuotaErrors, Calls
  <2>22. CASE GetException
    BY SMT, <2>22, TypeOK, TypeOK', ThreadInv, VerdictInv DEF GetException,
        Goto, TakeException, TypeOK, ThreadInv, VerdictInv,
        QuotaErrorSurvivesHandler, hostVars, syncVars, stateVars, engineVars,
        threadVars, WithThread, Preparing, AfterRun, Live, EvaluatorPCs,
        Quotas, QuotaErrors, Calls
  <2>23. CASE HostInstruction
    BY SMT, <2>23, TypeOK, TypeOK', ThreadInv, VerdictInv DEF HostInstruction,
        HookPasses, TypeOK, ThreadInv, VerdictInv, QuotaErrorSurvivesHandler,
        hostVars, syncVars, stateVars, engineVars, threadVars, WithThread,
        Preparing, AfterRun, Live, EvaluatorPCs, Quotas, QuotaErrors, Calls
  <2>24. CASE HostQuota
    BY SMT, <2>24, TypeOK, TypeOK', ThreadInv, VerdictInv DEF HostQuota,
        QuotaReached, HookPasses, HostLeave, Goto, MarkSpent, TypeOK,
        ThreadInv, VerdictInv, QuotaErrorSurvivesHandler, hostVars, syncVars,
        stateVars, engineVars, threadVars, WithThread, Preparing, AfterRun,
        Live, EvaluatorPCs, Quotas, QuotaErrors, Calls
  <2>25. CASE DescribeException
    BY SMT, <2>25, TypeOK, TypeOK', ThreadInv, VerdictInv DEF
        DescribeException, Goto, TakeException, TypeOK, ThreadInv, VerdictInv,
        QuotaErrorSurvivesHandler, hostVars, syncVars, stateVars, engineVars,
        threadVars, WithThread, Preparing, AfterRun, Live, EvaluatorPCs,
        Quotas, QuotaErrors, Calls
  <2>26. CASE Return
    BY SMT, <2>26, TypeOK, TypeOK', ThreadInv, VerdictInv DEF Return,
        HostOnly, TypeOK, ThreadInv, VerdictInv, QuotaErrorSurvivesHandler,
        hostVars, syncVars, stateVars, engineVars, threadVars, WithThread,
        Preparing, AfterRun, Live, EvaluatorPCs, Quotas, QuotaErrors, Calls
  <2>27. QED
    BY SMT, <1>1, <2>1, <2>2, <2>3, <2>4, <2>5, <2>6, <2>7, <2>8, <2>9, <2>10,
        <2>11, <2>12, <2>13, <2>14, <2>15, <2>16, <2>17, <2>18, <2>19, <2>20,
        <2>21, <2>22, <2>23, <2>24, <2>25, <2>26 DEF HostStep
<1>2. ASSUME NEW c \in Calls, EvaluatorStep(c) PROVE VerdictInv'
  <2>1. CASE EvaluatorCallFails(c)
    BY SMT, <2>1, TypeOK, TypeOK', ThreadInv, VerdictInv DEF
        EvaluatorCallFails, EGoto, Fails, RecordErr, TypeOK, ThreadInv,
        VerdictInv, QuotaErrorSurvivesHandler, hostVars, syncVars, stateVars,
        engineVars, threadVars, WithThread, Preparing, AfterRun, Live,
        EvaluatorPCs, Quotas, QuotaErrors, Calls
  <2>2. CASE Start(c)
    BY SMT, <2>2, TypeOK, TypeOK', ThreadInv, VerdictInv DEF Start, EGoto,
        TypeOK, ThreadInv, VerdictInv, QuotaErrorSurvivesHandler, hostVars,
        syncVars, stateVars, engineVars, threadVars, WithThread, Preparing,
        AfterRun, Live, EvaluatorPCs, Quotas, QuotaErrors, Calls
  <2>3. CASE SetCancelType(c)
    BY SMT, <2>3, TypeOK, TypeOK', ThreadInv, VerdictInv DEF SetCancelType,
        EGoto, BecomeAsync, TypeOK, ThreadInv, VerdictInv,
        QuotaErrorSurvivesHandler, hostVars, syncVars, stateVars, engineVars,
        threadVars, WithThread, Preparing, AfterRun, Live, EvaluatorPCs,
        Quotas, QuotaErrors, Calls
  <2>4. CASE TestCancel(c)
    BY SMT, <2>4, TypeOK, TypeOK', ThreadInv, VerdictInv DEF TestCancel,
        EGoto, TypeOK, ThreadInv, VerdictInv, QuotaErrorSurvivesHandler,
        hostVars, syncVars, stateVars, engineVars, threadVars, WithThread,
        Preparing, AfterRun, Live, EvaluatorPCs, Quotas, QuotaErrors, Calls
  <2>5. CASE Instruction(c)
    BY SMT, <2>5, TypeOK, TypeOK', ThreadInv, VerdictInv DEF Instruction,
        HookPasses, TypeOK, ThreadInv, VerdictInv, QuotaErrorSurvivesHandler,
        hostVars, syncVars, stateVars, engineVars, threadVars, WithThread,
        Preparing, AfterRun, Live, EvaluatorPCs, Quotas, QuotaErrors, Calls
  <2>6. CASE ReachQuota(c)
    BY SMT, <2>6, TypeOK, TypeOK', ThreadInv, VerdictInv DEF ReachQuota,
        QuotaReached, HookPasses, EGoto, TypeOK, ThreadInv, VerdictInv,
        QuotaErrorSurvivesHandler, hostVars, syncVars, stateVars, engineVars,
        threadVars, WithThread, Preparing, AfterRun, Live, EvaluatorPCs,
        Quotas, QuotaErrors, Calls
  <2>7. CASE Leave(c)
    BY SMT, <2>7, TypeOK, TypeOK', ThreadInv, VerdictInv DEF Leave, EGoto,
        MarkSpent, TypeOK, ThreadInv, VerdictInv, QuotaErrorSurvivesHandler,
        hostVars, syncVars, stateVars, engineVars, threadVars, WithThread,
        Preparing, AfterRun, Live, EvaluatorPCs, Quotas, QuotaErrors, Calls
  <2>8. CASE Finish(c)
    BY SMT, <2>8, TypeOK, TypeOK', ThreadInv, VerdictInv DEF Finish, EGoto,
        TypeOK, ThreadInv, VerdictInv, QuotaErrorSurvivesHandler, hostVars,
        syncVars, stateVars, engineVars, threadVars, WithThread, Preparing,
        AfterRun, Live, EvaluatorPCs, Quotas, QuotaErrors, Calls
  <2>9. CASE ActOnCancel(c)
    BY SMT, <2>9, TypeOK, TypeOK', ThreadInv, VerdictInv DEF ActOnCancel,
        EGoto, Live, InScript, TypeOK, ThreadInv, VerdictInv,
        QuotaErrorSurvivesHandler, hostVars, syncVars, stateVars, engineVars,
        threadVars, WithThread, Preparing, AfterRun, Live, EvaluatorPCs,
        Quotas, QuotaErrors, Calls
  <2>10. CASE HandlerDisable(c)
    BY SMT, <2>10, TypeOK, TypeOK', ThreadInv, VerdictInv DEF HandlerDisable,
        EGoto, Fails, RecordErr, TypeOK, ThreadInv, VerdictInv,
        QuotaErrorSurvivesHandler, hostVars, syncVars, stateVars, engineVars,
        threadVars, WithThread, Preparing, AfterRun, Live, EvaluatorPCs,
        Quotas, QuotaErrors, Calls
  <2>11. CASE HandlerLock(c)
    BY SMT, <2>11, TypeOK, TypeOK', ThreadInv, VerdictInv DEF HandlerLock,
        EGoto, Acquire, Fails, RecordErr, TypeOK, ThreadInv, VerdictInv,
        QuotaErrorSurvivesHandler, hostVars, syncVars, stateVars, engineVars,
        threadVars, WithThread, Preparing, AfterRun, Live, EvaluatorPCs,
        Quotas, QuotaErrors, Calls
  <2>12. CASE HandlerDone(c)
    BY SMT, <2>12, TypeOK, TypeOK', ThreadInv, VerdictInv DEF HandlerDone,
        EGoto, TypeOK, ThreadInv, VerdictInv, QuotaErrorSurvivesHandler,
        hostVars, syncVars, stateVars, engineVars, threadVars, WithThread,
        Preparing, AfterRun, Live, EvaluatorPCs, Quotas, QuotaErrors, Calls
  <2>13. CASE HandlerUnlock(c)
    BY SMT, <2>13, TypeOK, TypeOK', ThreadInv, VerdictInv DEF HandlerUnlock,
        EGoto, Fails, RecordErr, TypeOK, ThreadInv, VerdictInv,
        QuotaErrorSurvivesHandler, hostVars, syncVars, stateVars, engineVars,
        threadVars, WithThread, Preparing, AfterRun, Live, EvaluatorPCs,
        Quotas, QuotaErrors, Calls
  <2>14. CASE HandlerSignal(c)
    BY SMT, <2>14, TypeOK, TypeOK', ThreadInv, VerdictInv DEF HandlerSignal,
        EGoto, Fails, RecordErr, TypeOK, ThreadInv, VerdictInv,
        QuotaErrorSurvivesHandler, hostVars, syncVars, stateVars, engineVars,
        threadVars, WithThread, Preparing, AfterRun, Live, EvaluatorPCs,
        Quotas, QuotaErrors, Calls
  <2>15. QED
    BY SMT, <1>2, <2>1, <2>2, <2>3, <2>4, <2>5, <2>6, <2>7, <2>8, <2>9, <2>10,
        <2>11, <2>12, <2>13, <2>14 DEF EvaluatorStep, HandlerStep
<1>3. CASE Tick
  BY SMT, <1>3, TypeOK, TypeOK', ThreadInv, VerdictInv DEF Tick, Armed,
      TypeOK, ThreadInv, VerdictInv, QuotaErrorSurvivesHandler, hostVars,
      syncVars, stateVars, engineVars, threadVars, WithThread, Preparing,
      AfterRun, Live, EvaluatorPCs, Quotas, QuotaErrors, Calls
<1>4. CASE UNCHANGED vars
  BY SMT, <1>4, TypeOK, TypeOK', ThreadInv, VerdictInv DEF vars, TypeOK,
      ThreadInv, VerdictInv, QuotaErrorSurvivesHandler, hostVars, syncVars,
      stateVars, engineVars, threadVars, WithThread, Preparing, AfterRun,
      Live, EvaluatorPCs, Quotas, QuotaErrors, Calls
<1>5. QED
  BY SMT, <1>1, <1>2, <1>3, <1>4 DEF Next, Rest

\* The results of earlier calls agree with quota_error_raised.
LEMMA HistoryStep ==
  TypeOK /\ TypeOK' /\ VerdictInv /\ HistoryInv /\ ThreadInv /\ [Next]_vars
    => HistoryInv'
<1> SUFFICES ASSUME TypeOK, TypeOK', VerdictInv, HistoryInv, ThreadInv,
                    [Next]_vars
             PROVE  HistoryInv'
  OBVIOUS
<1> USE QuotaAssumption, CallsAssumption

<1>1. CASE HostStep
  <2>1. CASE CallEval
    BY SMT, <2>1, TypeOK, TypeOK', VerdictInv, ThreadInv, HistoryInv DEF
        CallEval, HostOnly, TypeOK, VerdictInv, HistoryInv, VerdictIsEarned,
        SpentEngineRefuses, RefusedOnlyWhenSpent, hostVars, syncVars,
        stateVars, engineVars, threadVars, QuotaErrors, Calls
  <2>2. CASE Reject
    BY SMT, <2>2, TypeOK, TypeOK', VerdictInv, ThreadInv, HistoryInv DEF
        Reject, HostOnly, TypeOK, VerdictInv, HistoryInv, VerdictIsEarned,
        SpentEngineRefuses, RefusedOnlyWhenSpent, hostVars, syncVars,
        stateVars, engineVars, threadVars, QuotaErrors, Calls
  <2>3. CASE Compile
    BY SMT, <2>3, TypeOK, TypeOK', VerdictInv, ThreadInv, HistoryInv DEF
        Compile, Goto, TypeOK, VerdictInv, HistoryInv, VerdictIsEarned,
        SpentEngineRefuses, RefusedOnlyWhenSpent, hostVars, syncVars,
        stateVars, engineVars, threadVars, QuotaErrors, Calls
  <2>4. CASE CompileOutOfMemory
    BY SMT, <2>4, TypeOK, TypeOK', VerdictInv, ThreadInv, HistoryInv DEF
        CompileOutOfMemory, HostLeave, Goto, MarkSpent, TypeOK, VerdictInv,
        HistoryInv, VerdictIsEarned, SpentEngineRefuses, RefusedOnlyWhenSpent,
        hostVars, syncVars, stateVars, engineVars, threadVars, QuotaErrors,
        Calls
  <2>5. CASE EvalStateInit
    BY SMT, <2>5, TypeOK, TypeOK', VerdictInv, ThreadInv, HistoryInv DEF
        EvalStateInit, Goto, Fails, TypeOK, VerdictInv, HistoryInv,
        VerdictIsEarned, SpentEngineRefuses, RefusedOnlyWhenSpent, hostVars,
        syncVars, stateVars, engineVars, threadVars, QuotaErrors, Calls
  <2>6. CASE HostCallFails
    BY SMT, <2>6, TypeOK, TypeOK', VerdictInv, ThreadInv, HistoryInv DEF
        HostCallFails, Goto, HostOnly, Fails, TypeOK, VerdictInv, HistoryInv,
        VerdictIsEarned, SpentEngineRefuses, RefusedOnlyWhenSpent, hostVars,
        syncVars, stateVars, engineVars, threadVars, QuotaErrors, Calls
  <2>7. CASE LockMutex
    BY SMT, <2>7, TypeOK, TypeOK', VerdictInv, ThreadInv, HistoryInv DEF
        LockMutex, Goto, Acquire, TypeOK, VerdictInv, HistoryInv,
        VerdictIsEarned, SpentEngineRefuses, RefusedOnlyWhenSpent, hostVars,
        syncVars, stateVars, engineVars, threadVars, QuotaErrors, Calls
  <2>8. CASE CreateThread
    BY SMT, <2>8, TypeOK, TypeOK', VerdictInv, ThreadInv, HistoryInv DEF
        CreateThread, Goto, TypeOK, VerdictInv, HistoryInv, VerdictIsEarned,
        SpentEngineRefuses, RefusedOnlyWhenSpent, hostVars, syncVars,
        stateVars, engineVars, threadVars, QuotaErrors, Calls
  <2>9. CASE ArmDeadline
    BY SMT, <2>9, TypeOK, TypeOK', VerdictInv, ThreadInv, HistoryInv DEF
        ArmDeadline, Goto, ThreadInv, WithThread, Preparing, TypeOK,
        VerdictInv, HistoryInv, VerdictIsEarned, SpentEngineRefuses,
        RefusedOnlyWhenSpent, hostVars, syncVars, stateVars, engineVars,
        threadVars, QuotaErrors, Calls
  <2>10. CASE SampleUsage
    BY SMT, <2>10, TypeOK, TypeOK', VerdictInv, ThreadInv, HistoryInv DEF
        SampleUsage, Goto, Live, Fails, TypeOK, VerdictInv, HistoryInv,
        VerdictIsEarned, SpentEngineRefuses, RefusedOnlyWhenSpent, hostVars,
        syncVars, stateVars, engineVars, threadVars, QuotaErrors, Calls
  <2>11. CASE Wait
    BY SMT, <2>11, TypeOK, TypeOK', VerdictInv, ThreadInv, HistoryInv DEF
        Wait, Goto, TypeOK, VerdictInv, HistoryInv, VerdictIsEarned,
        SpentEngineRefuses, RefusedOnlyWhenSpent, hostVars, syncVars,
        stateVars, engineVars, threadVars, QuotaErrors, Calls
  <2>12. CASE WakeBySignal
    BY SMT, <2>12, TypeOK, TypeOK', VerdictInv, ThreadInv, HistoryInv DEF
        WakeBySignal, Awake, HostOnly, TypeOK, VerdictInv, HistoryInv,
        VerdictIsEarned, SpentEngineRefuses, RefusedOnlyWhenSpent, hostVars,
        syncVars, stateVars, engineVars, threadVars, QuotaErrors, Calls
  <2>13. CASE WakeByTimeout
    BY SMT, <2>13, TypeOK, TypeOK', VerdictInv, ThreadInv, HistoryInv DEF
        WakeByTimeout, Awake, HostOnly, TypeOK, VerdictInv, HistoryInv,
        VerdictIsEarned, SpentEngineRefuses, RefusedOnlyWhenSpent, hostVars,
        syncVars, stateVars, engineVars, threadVars, QuotaErrors, Calls
  <2>14. CASE WakeSpurious
    BY SMT, <2>14, TypeOK, TypeOK', VerdictInv, ThreadInv, HistoryInv DEF
        WakeSpurious, Awake, HostOnly, TypeOK, VerdictInv, HistoryInv,
        VerdictIsEarned, SpentEngineRefuses, RefusedOnlyWhenSpent, hostVars,
        syncVars, stateVars, engineVars, threadVars, QuotaErrors, Calls
  <2>15. CASE Reacquire
    BY SMT, <2>15, TypeOK, TypeOK', VerdictInv, ThreadInv, HistoryInv DEF
        Reacquire, Goto, Acquire, TypeOK, VerdictInv, HistoryInv,
        VerdictIsEarned, SpentEngineRefuses, RefusedOnlyWhenSpent, hostVars,
        syncVars, stateVars, engineVars, threadVars, QuotaErrors, Calls
  <2>16. CASE CheckDone
    BY SMT, <2>16, TypeOK, TypeOK', VerdictInv, ThreadInv, HistoryInv DEF
        CheckDone, Goto, HostOnly, TypeOK, VerdictInv, HistoryInv,
        VerdictIsEarned, SpentEngineRefuses, RefusedOnlyWhenSpent, hostVars,
        syncVars, stateVars, engineVars, threadVars, QuotaErrors, Calls
  <2>17. CASE RecordUsage
    BY SMT, <2>17, TypeOK, TypeOK', VerdictInv, ThreadInv, HistoryInv DEF
        RecordUsage, Goto, Live, TypeOK, VerdictInv, HistoryInv,
        VerdictIsEarned, SpentEngineRefuses, RefusedOnlyWhenSpent, hostVars,
        syncVars, stateVars, engineVars, threadVars, QuotaErrors, Calls
  <2>18. CASE Unlock
    BY SMT, <2>18, TypeOK, TypeOK', VerdictInv, ThreadInv, HistoryInv DEF
        Unlock, Goto, TypeOK, VerdictInv, HistoryInv, VerdictIsEarned,
        SpentEngineRefuses, RefusedOnlyWhenSpent, hostVars, syncVars,
        stateVars, engineVars, threadVars, QuotaErrors, Calls
  <2>19. CASE Cancel
    BY SMT, <2>19, TypeOK, TypeOK', VerdictInv, ThreadInv, HistoryInv DEF
        Cancel, TypeOK, VerdictInv, HistoryInv, VerdictIsEarned,
        SpentEngineRefuses, RefusedOnlyWhenSpent, hostVars, syncVars,
        stateVars, engineVars, threadVars, QuotaErrors, Calls
  <2>20. CASE Join
    BY SMT, <2>20, TypeOK, TypeOK', VerdictInv, ThreadInv, HistoryInv DEF
        Join, Goto, Joined, TimeQuotaError, HostOnly, ThreadInv, WithThread,
        Preparing, TypeOK, VerdictInv, HistoryInv, VerdictIsEarned,
        SpentEngineRefuses, RefusedOnlyWhenSpent, hostVars, syncVars,
        stateVars, engineVars, threadVars, QuotaErrors, Calls
  <2>21. CASE Cleanup
    BY SMT, <2>21, TypeOK, TypeOK', VerdictInv, ThreadInv, HistoryInv DEF
        Cleanup, Goto, EvalErrToHost, Fails, TypeOK, VerdictInv, HistoryInv,
        VerdictIsEarned, SpentEngineRefuses, RefusedOnlyWhenSpent, hostVars,
        syncVars, stateVars, engineVars, threadVars, QuotaErrors, Calls
  <2>22. CASE GetException
    BY SMT, <2>22, TypeOK, TypeOK', VerdictInv, ThreadInv, HistoryInv DEF
        GetException, Goto, TakeException, TypeOK, VerdictInv, HistoryInv,
        VerdictIsEarned, SpentEngineRefuses, RefusedOnlyWhenSpent, hostVars,
        syncVars, stateVars, engineVars, threadVars, QuotaErrors, Calls
  <2>23. CASE HostInstruction
    BY SMT, <2>23, TypeOK, TypeOK', VerdictInv, ThreadInv, HistoryInv DEF
        HostInstruction, HookPasses, TypeOK, VerdictInv, HistoryInv,
        VerdictIsEarned, SpentEngineRefuses, RefusedOnlyWhenSpent, hostVars,
        syncVars, stateVars, engineVars, threadVars, QuotaErrors, Calls
  <2>24. CASE HostQuota
    BY SMT, <2>24, TypeOK, TypeOK', VerdictInv, ThreadInv, HistoryInv DEF
        HostQuota, QuotaReached, HookPasses, HostLeave, Goto, MarkSpent,
        TypeOK, VerdictInv, HistoryInv, VerdictIsEarned, SpentEngineRefuses,
        RefusedOnlyWhenSpent, hostVars, syncVars, stateVars, engineVars,
        threadVars, QuotaErrors, Calls
  <2>25. CASE DescribeException
    BY SMT, <2>25, TypeOK, TypeOK', VerdictInv, ThreadInv, HistoryInv DEF
        DescribeException, Goto, TakeException, TypeOK, VerdictInv,
        HistoryInv, VerdictIsEarned, SpentEngineRefuses, RefusedOnlyWhenSpent,
        hostVars, syncVars, stateVars, engineVars, threadVars, QuotaErrors,
        Calls
  <2>26. CASE Return
    <3>1. /\ hpc = "return" /\ hpc' = "idle" /\ call \in Calls
          /\ result' = [result EXCEPT ![call] = hostErr]
          /\ result'[call] = hostErr
          /\ \A c \in Calls \ {call} : result'[c] = result[c]
          /\ UNCHANGED <<call, hostErr, expired, quotaErrorRaised, instructionCount, completed>>
      BY SMT, <2>26, TypeOK DEF Return, HostOnly, TypeOK, syncVars, engineVars, threadVars, Calls
    <3>2. /\ hostErr \in {"nil", "EngineRuntimeError"} => call \in completed
          /\ hostErr \in QuotaErrors => quotaErrorRaised
          /\ quotaErrorRaised => hostErr \in
               QuotaErrors \cup {"EngineTimeQuotaError", "EngineInternalError"}
          /\ hostErr = "EngineInstructionQuotaError" => instructionCount = InstructionQuota
          /\ hostErr # "EngineQuotaAlreadyReached"
          /\ \A c \in Calls : c >= call => result[c] = "pending"
          /\ \A c \in Calls : result[c] \notin QuotaErrors
      BY SMT, <3>1, TypeOK, VerdictInv, HistoryInv DEF TypeOK, VerdictInv, HistoryInv,
          Exceptions, QuotaErrors, Calls
    <3>3. VerdictIsEarned'
      BY SMT, <3>1, <3>2, HistoryInv DEF HistoryInv, VerdictIsEarned, Calls
    <3>4. SpentEngineRefuses'
      BY SMT, <3>1, <3>2, CallsAssumption DEF SpentEngineRefuses, Calls
    <3>5. RefusedOnlyWhenSpent'
      <4> SUFFICES ASSUME NEW d \in Calls, result'[d] = "EngineQuotaAlreadyReached"
                   PROVE  \E c \in 1..(d - 1) : result'[c] \in
                            QuotaErrors \cup {"EngineTimeQuotaError", "EngineInternalError"}
        BY DEF RefusedOnlyWhenSpent
      <4>1. result[d] = "EngineQuotaAlreadyReached" /\ d < call
        BY SMT, <3>1, <3>2, CallsAssumption DEF Calls
      <4>2. PICK c \in 1..(d - 1) : result[c] \in
              QuotaErrors \cup {"EngineTimeQuotaError", "EngineInternalError"}
        BY <4>1, HistoryInv DEF HistoryInv, RefusedOnlyWhenSpent
      <4>3. c \in Calls \ {call}
        BY SMT, <4>1, <4>2, <3>1, CallsAssumption DEF Calls
      <4>4. QED
        BY <4>2, <4>3, <3>1
    <3>6. quotaErrorRaised' => \E c \in 1..call' : result'[c] \in
            QuotaErrors \cup {"EngineTimeQuotaError", "EngineInternalError"}
      BY SMT, <3>1, <3>2, CallsAssumption DEF Calls
    <3>7. QED
      BY SMT, <3>1, <3>2, <3>3, <3>4, <3>5, <3>6, CallsAssumption DEF HistoryInv, Calls
  <2>27. QED
    BY SMT, <1>1, <2>1, <2>2, <2>3, <2>4, <2>5, <2>6, <2>7, <2>8, <2>9, <2>10,
        <2>11, <2>12, <2>13, <2>14, <2>15, <2>16, <2>17, <2>18, <2>19, <2>20,
        <2>21, <2>22, <2>23, <2>24, <2>25, <2>26 DEF HostStep
<1>2. ASSUME NEW c \in Calls, EvaluatorStep(c) PROVE HistoryInv'
  <2>1. CASE EvaluatorCallFails(c)
    BY SMT, <2>1, TypeOK, TypeOK', VerdictInv, ThreadInv, HistoryInv DEF
        EvaluatorCallFails, EGoto, Fails, RecordErr, TypeOK, VerdictInv,
        HistoryInv, VerdictIsEarned, SpentEngineRefuses, RefusedOnlyWhenSpent,
        hostVars, syncVars, stateVars, engineVars, threadVars, QuotaErrors,
        Calls
  <2>2. CASE Start(c)
    BY SMT, <2>2, TypeOK, TypeOK', VerdictInv, ThreadInv, HistoryInv DEF
        Start, EGoto, TypeOK, VerdictInv, HistoryInv, VerdictIsEarned,
        SpentEngineRefuses, RefusedOnlyWhenSpent, hostVars, syncVars,
        stateVars, engineVars, threadVars, QuotaErrors, Calls
  <2>3. CASE SetCancelType(c)
    BY SMT, <2>3, TypeOK, TypeOK', VerdictInv, ThreadInv, HistoryInv DEF
        SetCancelType, EGoto, BecomeAsync, TypeOK, VerdictInv, HistoryInv,
        VerdictIsEarned, SpentEngineRefuses, RefusedOnlyWhenSpent, hostVars,
        syncVars, stateVars, engineVars, threadVars, QuotaErrors, Calls
  <2>4. CASE TestCancel(c)
    BY SMT, <2>4, TypeOK, TypeOK', VerdictInv, ThreadInv, HistoryInv DEF
        TestCancel, EGoto, TypeOK, VerdictInv, HistoryInv, VerdictIsEarned,
        SpentEngineRefuses, RefusedOnlyWhenSpent, hostVars, syncVars,
        stateVars, engineVars, threadVars, QuotaErrors, Calls
  <2>5. CASE Instruction(c)
    BY SMT, <2>5, TypeOK, TypeOK', VerdictInv, ThreadInv, HistoryInv DEF
        Instruction, HookPasses, TypeOK, VerdictInv, HistoryInv,
        VerdictIsEarned, SpentEngineRefuses, RefusedOnlyWhenSpent, hostVars,
        syncVars, stateVars, engineVars, threadVars, QuotaErrors, Calls
  <2>6. CASE ReachQuota(c)
    BY SMT, <2>6, TypeOK, TypeOK', VerdictInv, ThreadInv, HistoryInv DEF
        ReachQuota, QuotaReached, HookPasses, EGoto, TypeOK, VerdictInv,
        HistoryInv, VerdictIsEarned, SpentEngineRefuses, RefusedOnlyWhenSpent,
        hostVars, syncVars, stateVars, engineVars, threadVars, QuotaErrors,
        Calls
  <2>7. CASE Leave(c)
    BY SMT, <2>7, TypeOK, TypeOK', VerdictInv, ThreadInv, HistoryInv DEF
        Leave, EGoto, MarkSpent, ThreadInv, WithThread, Live, EvaluatorPCs,
        TypeOK, VerdictInv, HistoryInv, VerdictIsEarned, SpentEngineRefuses,
        RefusedOnlyWhenSpent, hostVars, syncVars, stateVars, engineVars,
        threadVars, QuotaErrors, Calls
  <2>8. CASE Finish(c)
    BY SMT, <2>8, TypeOK, TypeOK', VerdictInv, ThreadInv, HistoryInv DEF
        Finish, EGoto, TypeOK, VerdictInv, HistoryInv, VerdictIsEarned,
        SpentEngineRefuses, RefusedOnlyWhenSpent, hostVars, syncVars,
        stateVars, engineVars, threadVars, QuotaErrors, Calls
  <2>9. CASE ActOnCancel(c)
    BY SMT, <2>9, TypeOK, TypeOK', VerdictInv, ThreadInv, HistoryInv DEF
        ActOnCancel, EGoto, Live, InScript, TypeOK, VerdictInv, HistoryInv,
        VerdictIsEarned, SpentEngineRefuses, RefusedOnlyWhenSpent, hostVars,
        syncVars, stateVars, engineVars, threadVars, QuotaErrors, Calls
  <2>10. CASE HandlerDisable(c)
    BY SMT, <2>10, TypeOK, TypeOK', VerdictInv, ThreadInv, HistoryInv DEF
        HandlerDisable, EGoto, Fails, RecordErr, TypeOK, VerdictInv,
        HistoryInv, VerdictIsEarned, SpentEngineRefuses, RefusedOnlyWhenSpent,
        hostVars, syncVars, stateVars, engineVars, threadVars, QuotaErrors,
        Calls
  <2>11. CASE HandlerLock(c)
    BY SMT, <2>11, TypeOK, TypeOK', VerdictInv, ThreadInv, HistoryInv DEF
        HandlerLock, EGoto, Acquire, Fails, RecordErr, TypeOK, VerdictInv,
        HistoryInv, VerdictIsEarned, SpentEngineRefuses, RefusedOnlyWhenSpent,
        hostVars, syncVars, stateVars, engineVars, threadVars, QuotaErrors,
        Calls
  <2>12. CASE HandlerDone(c)
    BY SMT, <2>12, TypeOK, TypeOK', VerdictInv, ThreadInv, HistoryInv DEF
        HandlerDone, EGoto, TypeOK, VerdictInv, HistoryInv, VerdictIsEarned,
        SpentEngineRefuses, RefusedOnlyWhenSpent, hostVars, syncVars,
        stateVars, engineVars, threadVars, QuotaErrors, Calls
  <2>13. CASE HandlerUnlock(c)
    BY SMT, <2>13, TypeOK, TypeOK', VerdictInv, ThreadInv, HistoryInv DEF
        HandlerUnlock, EGoto, Fails, RecordErr, TypeOK, VerdictInv,
        HistoryInv, VerdictIsEarned, SpentEngineRefuses, RefusedOnlyWhenSpent,
        hostVars, syncVars, stateVars, engineVars, threadVars, QuotaErrors,
        Calls
  <2>14. CASE HandlerSignal(c)
    BY SMT, <2>14, TypeOK, TypeOK', VerdictInv, ThreadInv, HistoryInv DEF
        HandlerSignal, EGoto, Fails, RecordErr, TypeOK, VerdictInv,
        HistoryInv, VerdictIsEarned, SpentEngineRefuses, RefusedOnlyWhenSpent,
        hostVars, syncVars, stateVars, engineVars, threadVars, QuotaErrors,
        Calls
  <2>15. QED
    BY SMT, <1>2, <2>1, <2>2, <2>3, <2>4, <2>5, <2>6, <2>7, <2>8, <2>9, <2>10,
        <2>11, <2>12, <2>13, <2>14 DEF EvaluatorStep, HandlerStep
<1>3. CASE Tick
  BY SMT, <1>3, TypeOK, TypeOK', VerdictInv, ThreadInv, HistoryInv DEF Tick,
      Armed, TypeOK, VerdictInv, HistoryInv, VerdictIsEarned,
      SpentEngineRefuses, RefusedOnlyWhenSpent, hostVars, syncVars, stateVars,
      engineVars, threadVars, QuotaErrors, Calls
<1>4. CASE UNCHANGED vars
  BY SMT, <1>4, TypeOK, TypeOK', VerdictInv, ThreadInv, HistoryInv DEF vars,
      TypeOK, VerdictInv, HistoryInv, VerdictIsEarned, SpentEngineRefuses,
      RefusedOnlyWhenSpent, hostVars, syncVars, stateVars, engineVars,
      threadVars, QuotaErrors, Calls
<1>5. QED
  BY SMT, <1>1, <1>2, <1>3, <1>4 DEF Next, Rest

\* A step of the code keeps the whole invariant.
LEMMA InvariantStep ==
  ASSUME MayFail \cap AbandoningCalls = {}
  PROVE  IInv /\ [Next]_vars => IInv'
BY TypeStep, ThreadStep, VerdictStep, HistoryStep DEF IInv

\* Type correctness, whatever system calls fail: instruction_count stays
\* within the quota although guest code also runs on the host thread.
THEOREM TypeCorrect == Spec => []TypeOK
<1>1. Init => TypeOK
  BY InitInvariant DEF IInv
<1>2. QED
  BY <1>1, TypeStep, PTL DEF Spec

\* The inductive invariant holds in every reachable state.
THEOREM Invariance ==
  ASSUME MayFail \cap AbandoningCalls = {}
  PROVE  Spec => []IInv
BY InitInvariant, InvariantStep, PTL DEF Spec

\* The cleanup handler of an evaluator only ever touches the mutex and the
\* condition of its own call, and they are initialised.
THEOREM LiveSync ==
  ASSUME MayFail \cap AbandoningCalls = {}
  PROVE  Spec => []EvaluatorsUseLiveSync
<1>1. IInv => EvaluatorsUseLiveSync
  BY SMT DEF IInv, TypeOK, ThreadInv, EvaluatorsUseLiveSync, Live, EvaluatorPCs,
      WithThread
<1>2. QED
  BY <1>1, Invariance, PTL

\* No evaluator is alive while the host uses the interpreter or the caller
\* has control.
THEOREM OneThreadInInterpreter ==
  ASSUME MayFail \cap AbandoningCalls = {}
  PROVE  Spec => []InterpreterExclusive
<1>1. IInv => InterpreterExclusive
  BY SMT DEF IInv, ThreadInv, InterpreterExclusive, WithThread
<1>2. QED
  BY <1>1, Invariance, PTL

\* nil, EngineRuntimeError, EngineInstructionQuotaError and
\* EngineTimeQuotaError are only reported when what they say has happened.
THEOREM EarnedVerdicts ==
  ASSUME MayFail \cap AbandoningCalls = {}
  PROVE  Spec => []VerdictIsEarned
<1>1. IInv => VerdictIsEarned
  BY DEF IInv, HistoryInv
<1>2. QED
  BY <1>1, Invariance, PTL

\* check_quota_error_raised refuses every call after an instruction, memory
\* or stack error, and no call of an engine whose calls all ended well.
THEOREM ExactGate ==
  ASSUME MayFail \cap AbandoningCalls = {}
  PROVE  Spec => []GateIsExact
<1>1. IInv => GateIsExact
  BY DEF IInv, HistoryInv, GateIsExact
<1>2. QED
  BY <1>1, Invariance, PTL

\* A recorded quota is not overwritten by a failing pthread call of the
\* handler.
THEOREM FirstErrorWins ==
  ASSUME MayFail \cap AbandoningCalls = {}
  PROVE  Spec => []QuotaErrorSurvivesHandler
<1>1. IInv => QuotaErrorSurvivesHandler
  BY DEF IInv, VerdictInv
<1>2. QED
  BY <1>1, Invariance, PTL

\* A step of the two threads is a step of the sandbox's promise or changes
\* nothing that the caller sees.
LEMMA SandboxStep == IInv /\ [Next]_vars => [Sandbox!Next]_(Sandbox!vars)
<1> SUFFICES ASSUME IInv, [Next]_vars PROVE [Sandbox!Next]_(Sandbox!vars)
  OBVIOUS
<1>1. TypeOK /\ ThreadInv /\ VerdictInv
  BY DEF IInv
<1> DEFINE Quiet == /\ hpc \notin {"idle", "dead"} /\ hpc' \notin {"idle", "dead"}
                    /\ UNCHANGED <<call, result>>
<1>2. Quiet => UNCHANGED Sandbox!vars
  BY DEF Sandbox!vars, Phase
<1>3. CASE HostStep
  <2>1. CASE CallEval
    <3>1. Sandbox!Begin
      BY <2>1 DEF CallEval, HostOnly, engineVars, Sandbox!Begin, Phase
    <3>2. QED
      BY <3>1 DEF Sandbox!Next
  <2>2. CASE Reject
    <3>1. Sandbox!Refuse
      BY <2>2 DEF Reject, HostOnly, engineVars, Sandbox!Refuse, Phase
    <3>2. QED
      BY <3>1 DEF Sandbox!Next
  <2>3. CASE CompileOutOfMemory
    <3>1. Sandbox!Die
      BY <2>3 DEF CompileOutOfMemory, HostLeave, Goto, Sandbox!Die, Phase
    <3>2. QED
      BY <3>1 DEF Sandbox!Next
  <2>4. CASE HostQuota
    <3>1. Sandbox!Die
      BY <2>4 DEF HostQuota, HostLeave, Goto, Sandbox!Die, Phase
    <3>2. QED
      BY <3>1 DEF Sandbox!Next
  <2>5. CASE Return
    <3>1. /\ hostErr \in Sandbox!Spending => quotaErrorRaised
          /\ hostErr \in Sandbox!Clean => ~quotaErrorRaised
          /\ hostErr \in Sandbox!Spending \cup Sandbox!Clean \cup Sandbox!Unsettled
      BY <2>5, <1>1 DEF Return, TypeOK, VerdictInv, Exceptions, QuotaErrors,
          Sandbox!Spending, Sandbox!Clean, Sandbox!Unsettled
    <3>2. Phase = "busy" /\ Phase' = "idle" /\ UNCHANGED <<call, quotaErrorRaised>>
      BY <2>5 DEF Return, HostOnly, engineVars, Phase
    <3>3. result' = [result EXCEPT ![call] = hostErr] /\ hpc' = "idle"
      BY <2>5 DEF Return
    <3>4. quotaErrorRaised = TRUE \/ quotaErrorRaised = FALSE
      BY <1>1 DEF TypeOK
    <3>5. Sandbox!End(hostErr)
      BY <3>1, <3>2, <3>3, <3>4 DEF Sandbox!End
    <3>6. QED
      BY <3>1, <3>5 DEF Sandbox!Next
  <2>6. CASE Compile
    BY <2>6, <1>2 DEF Compile, Goto
  <2>7. CASE EvalStateInit
    BY <2>7, <1>2 DEF EvalStateInit, Goto
  <2>8. CASE HostCallFails
    BY <2>8, <1>2 DEF HostCallFails, Goto, HostOnly
  <2>9. CASE LockMutex
    BY <2>9, <1>2 DEF LockMutex, Goto
  <2>10. CASE CreateThread
    BY <2>10, <1>2 DEF CreateThread, Goto
  <2>11. CASE ArmDeadline
    BY <2>11, <1>2 DEF ArmDeadline, Goto
  <2>12. CASE SampleUsage
    BY <2>12, <1>2 DEF SampleUsage, Goto
  <2>13. CASE Wait
    BY <2>13, <1>2 DEF Wait, Goto
  <2>14. CASE WakeBySignal
    BY <2>14, <1>2 DEF WakeBySignal, Awake, HostOnly
  <2>15. CASE WakeByTimeout
    BY <2>15, <1>2 DEF WakeByTimeout, Awake, HostOnly
  <2>16. CASE WakeSpurious
    BY <2>16, <1>2 DEF WakeSpurious, Awake, HostOnly
  <2>17. CASE Reacquire
    BY <2>17, <1>2 DEF Reacquire, Goto
  <2>18. CASE CheckDone
    BY <2>18, <1>2 DEF CheckDone, Goto, HostOnly
  <2>19. CASE RecordUsage
    BY <2>19, <1>2 DEF RecordUsage, Goto
  <2>20. CASE Unlock
    BY <2>20, <1>2 DEF Unlock, Goto
  <2>21. CASE Cancel
    BY <2>21, <1>2 DEF Cancel
  <2>22. CASE Join
    BY <2>22, <1>2 DEF Join, Goto, HostOnly
  <2>23. CASE Cleanup
    BY <2>23, <1>2 DEF Cleanup, Goto
  <2>24. CASE GetException
    BY <2>24, <1>2 DEF GetException, Goto
  <2>25. CASE HostInstruction
    BY <2>25, <1>2 DEF HostInstruction, hostVars
  <2>26. CASE DescribeException
    BY <2>26, <1>2 DEF DescribeException, Goto
  <2>27. QED
    BY <1>3, <2>1, <2>2, <2>3, <2>4, <2>5, <2>6, <2>7, <2>8, <2>9, <2>10,
        <2>11, <2>12, <2>13, <2>14, <2>15, <2>16, <2>17, <2>18, <2>19, <2>20,
        <2>21, <2>22, <2>23, <2>24, <2>25, <2>26 DEF HostStep
<1>4. ASSUME NEW c \in Calls, EvaluatorStep(c) PROVE UNCHANGED Sandbox!vars
  <2>1. UNCHANGED <<hpc, call, result>>
    BY <1>4 DEF EvaluatorStep, HandlerStep, EvaluatorCallFails, Start, SetCancelType, TestCancel, Instruction, ReachQuota, Leave,
        Finish, ActOnCancel, HandlerDisable, HandlerLock, HandlerDone, HandlerUnlock, HandlerSignal, hostVars
  <2>2. UNCHANGED quotaErrorRaised \/ hpc # "idle"
    <3>1. CASE Leave(c)
      BY <3>1, <1>1 DEF Leave, ThreadInv, Live, EvaluatorPCs, WithThread
    <3>2. CASE ~Leave(c)
      BY <1>4, <3>2 DEF EvaluatorStep, HandlerStep, EvaluatorCallFails, Start,
          SetCancelType, TestCancel, Instruction, ReachQuota, Finish,
          ActOnCancel, HandlerDisable, HandlerLock, HandlerDone,
          HandlerUnlock, HandlerSignal, engineVars
    <3>3. QED
      BY <3>1, <3>2
  <2>3. QED
    BY <2>1, <2>2 DEF Sandbox!vars, Phase
<1>5. CASE Tick
  BY <1>5 DEF Tick, hostVars, engineVars, Sandbox!vars, Phase
<1>6. CASE UNCHANGED vars
  BY <1>6 DEF vars, hostVars, engineVars, Sandbox!vars, Phase
<1>7. QED
  BY <1>3, <1>4, <1>5, <1>6 DEF Next, Rest

\* Refinement: host, evaluator, mutex, condition variable and cancellation
\* together keep the promise of sandbox_eval stated by SandboxEval.
THEOREM Refinement ==
  ASSUME MayFail \cap AbandoningCalls = {}
  PROVE  Spec => ImplementsSandbox
<1>1. Init => Sandbox!Init
  BY DEF Init, Sandbox!Init, Phase, Calls
<1>2. QED
  BY <1>1, SandboxStep, Invariance, PTL DEF Spec, ImplementsSandbox, Sandbox!Spec

------------------------------------------------------------------------------
(* The clock and clean calls, on top of IInv: the CPU clock is asked of a   *)
(* live thread (ClockInv), and clean calls leave a fit engine (FitInv).     *)
(* Each is preserved under TypeOK, ThreadInv and VerdictInv.                *)

\* The handler gets past its lock only while the host is without the mutex.
LEMMA ClockStep ==
  ASSUME MayFail \cap AbandoningCalls = {}, "pthread_mutex_lock" \notin MayFail
  PROVE  TypeOK /\ ThreadInv /\ ClockInv /\ [Next]_vars => ClockInv'
<1> SUFFICES ASSUME TypeOK, ThreadInv, ClockInv, [Next]_vars PROVE ClockInv'
  OBVIOUS
<1> USE CallsAssumption DEF Calls, Host, Nobody
<1> DEFINE Locked == {"create", "clock", "rusage", "wait", "check", "record",
                      "unlock"}
           Sampling == {"clock", "rusage"}
<1>1. ASSUME mutex' = mutex, epc' = epc, hpc' \in Locked => hpc \in Locked,
             hpc' \in Sampling => hpc \in Sampling /\ call' = call
      PROVE  ClockInv'
  BY <1>1 DEF ClockInv
<1>2. ASSUME mutex = Host \/ mutex = Nobody, epc' = epc,
             hpc' \in Locked => mutex' = Host, hpc' \notin Sampling
      PROVE  ClockInv'
  BY SMT, <1>2 DEF ClockInv
<1>3. CASE HostStep
  <2>1. CASE CallEval
    BY <1>1, <2>1 DEF CallEval, HostOnly, syncVars, threadVars
  <2>2. CASE Reject
    BY <1>1, <2>2 DEF Reject, HostOnly, syncVars, threadVars
  <2>3. CASE Compile
    BY <1>1, <2>3 DEF Compile, Goto, syncVars, threadVars
  <2>4. CASE CompileOutOfMemory
    BY <1>1, <2>4 DEF CompileOutOfMemory, HostLeave, Goto, syncVars, threadVars
  <2>5. CASE EvalStateInit
    <3>1. \A c \in Calls : ~Live(c)
      BY <2>5 DEF EvalStateInit, ThreadInv, WithThread
    <3>2. hpc' \in {"lock", "return"} /\ epc' = epc
      BY <2>5 DEF EvalStateInit, Goto, threadVars
    <3>3. QED
      BY <3>1, <3>2 DEF ClockInv, Live, EvaluatorPCs
  <2>6. CASE HostCallFails
    BY <1>1, <2>6 DEF HostCallFails, Goto, HostOnly, syncVars, threadVars
  <2>7. CASE LockMutex
    BY <1>2, <2>7 DEF LockMutex, Acquire, Goto, threadVars
  <2>8. CASE CreateThread
    <3>1. call \in Calls /\ hpc' = "clock" /\ call' = call /\ mutex' = mutex
          /\ mutex = Host /\ epc' = [epc EXCEPT ![call] = "start"]
      BY <2>8 DEF CreateThread, Goto, syncVars, TypeOK, ClockInv
    <3>2. QED
      BY <3>1 DEF ClockInv, TypeOK
  <2>9. CASE ArmDeadline
    BY <1>1, <2>9 DEF ArmDeadline, Goto, threadVars
  <2>10. CASE SampleUsage
    BY <1>1, <2>10 DEF SampleUsage, Goto, syncVars, threadVars
  <2>11. CASE Wait
    BY <1>2, <2>11 DEF Wait, Goto, threadVars, ClockInv
  <2>12. ASSUME NEW r, Awake(r) PROVE ClockInv'
    BY <1>1, <2>12 DEF Awake, HostOnly, syncVars, threadVars
  <2>13. CASE WakeBySignal \/ WakeByTimeout \/ WakeSpurious
    BY <2>12, <2>13 DEF WakeBySignal, WakeByTimeout, WakeSpurious
  <2>14. CASE Reacquire
    BY <1>2, <2>14 DEF Reacquire, Acquire, Goto, threadVars
  <2>15. CASE CheckDone
    BY <1>1, <2>15 DEF CheckDone, Goto, HostOnly, syncVars, threadVars
  <2>16. CASE RecordUsage
    BY <1>1, <2>16 DEF RecordUsage, Goto, syncVars, threadVars
  <2>17. CASE Unlock
    BY <1>2, <2>17 DEF Unlock, Goto, threadVars, ClockInv
  <2>18. CASE Cancel
    BY <1>1, <2>18 DEF Cancel, syncVars
  <2>19. CASE Join
    BY <1>1, <2>19 DEF Join, Goto, HostOnly, syncVars, threadVars
  <2>20. CASE Cleanup
    BY <1>1, <2>20 DEF Cleanup, Goto, threadVars
  <2>21. CASE GetException
    BY <1>1, <2>21 DEF GetException, Goto, syncVars, threadVars
  <2>22. CASE HostInstruction
    BY <1>1, <2>22 DEF HostInstruction, hostVars, syncVars, threadVars
  <2>23. CASE HostQuota
    BY <1>1, <2>23 DEF HostQuota, HostLeave, Goto, syncVars, threadVars
  <2>24. CASE DescribeException
    BY <1>1, <2>24 DEF DescribeException, Goto, syncVars, threadVars
  <2>25. CASE Return
    BY <1>1, <2>25 DEF Return, HostOnly, syncVars, threadVars
  <2>26. QED
    BY <1>3, <2>1, <2>2, <2>3, <2>4, <2>5, <2>6, <2>7, <2>8, <2>9, <2>10,
       <2>11, <2>13, <2>14, <2>15, <2>16, <2>17, <2>18, <2>19, <2>20, <2>21,
       <2>22, <2>23, <2>24, <2>25 DEF HostStep
<1>4. ASSUME NEW c \in Calls, EvaluatorStep(c) PROVE ClockInv'
  <2>1. Live(c) /\ c = call /\ hpc' = hpc /\ call' = call
    <3>1. Live(c)
      BY <1>4 DEF EvaluatorStep, EvaluatorCallFails, Start, SetCancelType,
        TestCancel, Instruction, ReachQuota, Leave, Finish, ActOnCancel,
        HandlerStep, HandlerDisable, HandlerLock, HandlerDone, HandlerUnlock,
        HandlerSignal, Live, EvaluatorPCs
    <3>2. hpc' = hpc /\ call' = call
      BY <1>4 DEF EvaluatorStep, EvaluatorCallFails, Start, SetCancelType,
        TestCancel, Instruction, ReachQuota, Leave, Finish, ActOnCancel,
        HandlerStep, HandlerDisable, HandlerLock, HandlerDone, HandlerUnlock,
        HandlerSignal, hostVars
    <3>3. QED
      BY <3>1, <3>2 DEF ThreadInv
  <2>2. ASSUME NEW pc \in EvaluatorPCs, EGoto(c, pc), mutex' = mutex,
               pc \notin {"none", "hdone", "hunlock"},
               pc \in {"hsignal", "exited"} => hpc \notin Sampling
        PROVE  ClockInv'
    BY <2>1, <2>2 DEF ClockInv, EGoto, TypeOK
  <2>3. CASE EvaluatorCallFails(c)
    BY <2>2, <2>3 DEF EvaluatorCallFails, syncVars, EvaluatorPCs
  <2>4. CASE Start(c)
    BY <2>2, <2>4 DEF Start, syncVars, EvaluatorPCs
  <2>5. CASE SetCancelType(c)
    BY <2>2, <2>5 DEF SetCancelType, syncVars, EvaluatorPCs
  <2>6. CASE TestCancel(c)
    BY <2>2, <2>6 DEF TestCancel, syncVars, EvaluatorPCs
  <2>7. CASE Instruction(c)
    BY <1>1, <2>7, <2>1 DEF Instruction, syncVars, threadVars
  <2>8. CASE ReachQuota(c)
    BY <2>2, <2>8 DEF ReachQuota, syncVars, EvaluatorPCs
  <2>9. CASE Leave(c)
    BY <2>2, <2>9 DEF Leave, syncVars, EvaluatorPCs
  <2>10. CASE Finish(c)
    BY <2>2, <2>10 DEF Finish, syncVars, EvaluatorPCs
  <2>11. CASE ActOnCancel(c)
    <3>1. hpc \notin Sampling
      BY <2>1, <2>11 DEF ActOnCancel, ThreadInv, WithThread
    <3>2. QED
      BY <2>2, <2>11, <3>1 DEF ActOnCancel, syncVars, EvaluatorPCs
  <2>12. CASE HandlerDisable(c)
    BY <2>2, <2>12 DEF HandlerDisable, syncVars, EvaluatorPCs
  <2>13. CASE HandlerLock(c)
    <3>1. mutex = Nobody /\ mutex' = c /\ epc' = [epc EXCEPT ![c] = "hdone"]
      BY <2>13 DEF HandlerLock, Fails, Acquire, EGoto
    <3>2. hpc \notin Locked
      BY SMT, <3>1 DEF ClockInv
    <3>3. \A d \in Calls : d # c => epc'[d] \notin {"hdone", "hunlock"}
      BY SMT, <3>1 DEF ClockInv, TypeOK
    <3>4. QED
      BY <2>1, <3>1, <3>2, <3>3 DEF ClockInv
  <2>14. CASE HandlerDone(c)
    <3>1. mutex' = mutex /\ mutex = c /\ hpc \notin Sampling
          /\ epc' = [epc EXCEPT ![c] = "hunlock"]
      BY <2>1, <2>14 DEF HandlerDone, EGoto, syncVars, ClockInv
    <3>2. QED
      BY <2>1, <3>1 DEF ClockInv, TypeOK
  <2>15. CASE HandlerUnlock(c)
    <3>1. mutex = c /\ hpc \notin Locked
      BY SMT, <2>15 DEF HandlerUnlock, ClockInv
    <3>2. PICK pc \in {"hsignal", "exited"} :
            epc' = [epc EXCEPT ![c] = pc]
      BY <2>15 DEF HandlerUnlock, EGoto
    <3>3. \A d \in Calls : epc'[d] \notin {"hdone", "hunlock"}
      BY SMT, <3>1, <3>2 DEF ClockInv, TypeOK
    <3>4. QED
      BY <2>1, <3>1, <3>3 DEF ClockInv
  <2>16. CASE HandlerSignal(c)
    BY <2>1, <2>2, <2>16 DEF HandlerSignal, ClockInv, EvaluatorPCs
  <2>17. QED
    BY <1>4, <2>3, <2>4, <2>5, <2>6, <2>7, <2>8, <2>9, <2>10, <2>11, <2>12,
       <2>13, <2>14, <2>15, <2>16 DEF EvaluatorStep, HandlerStep
<1>5. CASE Tick
  BY <1>1, <1>5 DEF Tick, hostVars, threadVars
<1>6. CASE UNCHANGED vars
  BY <1>1, <1>6 DEF vars, hostVars, syncVars, threadVars
<1>7. QED
  BY <1>3, <1>4, <1>5, <1>6 DEF Next, Rest

\* pthread_getcpuclockid is asked of a thread that is alive, provided that
\* the handler's pthread_mutex_lock does not fail: a handler that goes on
\* without the mutex may end the thread at any time.
THEOREM ClockOfLiveThread ==
  ASSUME MayFail \cap AbandoningCalls = {}, "pthread_mutex_lock" \notin MayFail
  PROVE  Spec => []CpuClockOfLiveThread
<1>1. Init => ClockInv
  BY DEF Init, ClockInv
<1>2. TypeOK /\ ClockInv => CpuClockOfLiveThread
  BY DEF TypeOK, ClockInv, CpuClockOfLiveThread, Live
<1>3. IInv => TypeOK /\ ThreadInv
  BY DEF IInv
<1>4. QED
  BY <1>1, <1>2, <1>3, ClockStep, Invariance, PTL DEF Spec
\* A script that is torn shows in the verdict of its call, and an exception
\* that is left in the interpreter is taken out before a clean one.
LEMMA FitStep ==
  ASSUME MayFail \cap AbandoningCalls = {}
  PROVE  TypeOK /\ ThreadInv /\ VerdictInv /\ FitInv /\ [Next]_vars => FitInv'
<1> SUFFICES ASSUME TypeOK, ThreadInv, VerdictInv, FitInv, [Next]_vars
             PROVE  FitInv'
  OBVIOUS
<1> USE CallsAssumption
<1> DEFINE Clean == {"nil", "EngineRuntimeError", "EngineSyntaxError"}
           Running == WithThread \cup {"cleanup"}
<1>1. ASSUME call' = call, result' = result
      PROVE  CleanUpTo(call - 1)' <=> CleanUpTo(call - 1)
  BY <1>1 DEF CleanUpTo
<1>2. ASSUME call' = call, result' = result, hpc # "idle", hpc # "dead",
             hpc' # "idle", torn' = torn, pending \subseteq pending',
             quotaErrorRaised' = quotaErrorRaised,
             \/ hpc \in Preparing /\ exc' = exc
                /\ hpc' \in Preparing \cup Running
             \/ hpc \in Running /\ hpc' \in Running
      PROVE  FitInv'
  BY <1>1, <1>2 DEF FitInv, Preparing, WithThread
<1>3. ASSUME call' = call, result' = result, hpc' = "return" \/ hpc' = "dead",
             hpc' = "return" => hostErr' \notin Clean
      PROVE  FitInv'
  BY <1>3 DEF FitInv, Preparing, WithThread
<1>4. CASE HostStep
  <2>1. CASE CallEval
    <3>1. call' - 1 = call /\ result' = result
      BY SMT, <2>1 DEF CallEval, TypeOK
    <3>2. CleanUpTo(call - 1)' => CleanUpTo(call)
      BY <3>1 DEF CleanUpTo
    <3>3. hpc = "idle" /\ hpc' = "compile" /\ torn' = torn /\ exc' = exc
      BY <2>1 DEF CallEval, HostOnly, engineVars
    <3>4. QED
      BY <3>2, <3>3 DEF FitInv, WithThread
  <2>2. CASE Reject
    <3>1. call' \in 1..call' /\ result'[call'] = "EngineQuotaAlreadyReached"
      BY SMT, <2>2 DEF Reject, TypeOK, Calls
    <3>2. ~CleanUpTo(call)'
      BY <3>1 DEF CleanUpTo
    <3>3. QED
      BY <2>2, <3>2 DEF Reject, FitInv
  <2>3. CASE Compile
    <3>1. CASE hpc' = "init"
      BY <1>2, <2>3, <3>1 DEF Compile, Goto, engineVars, threadVars, Preparing
    <3>2. CASE hpc' = "return"
      <4>1. call' = call /\ result' = result /\ torn' = torn
            /\ exc' \in {exc, "none"} /\ hpc = "compile"
        BY <2>3, <3>2 DEF Compile, Goto
      <4>2. QED
        BY <1>1, <3>2, <4>1 DEF FitInv, Preparing, WithThread
    <3>3. QED
      BY <2>3, <3>1, <3>2 DEF Compile, Goto
  <2>4. CASE CompileOutOfMemory
    BY <1>3, <2>4 DEF CompileOutOfMemory, HostLeave, Goto
  <2>5. CASE EvalStateInit
    BY <1>2, <1>3, <2>5 DEF EvalStateInit, Goto, engineVars, threadVars,
       Preparing
  <2>6. CASE HostCallFails
    BY <1>2, <2>6 DEF HostCallFails, Goto, HostOnly, engineVars, threadVars,
       Preparing, WithThread
  <2>7. CASE LockMutex
    BY <1>2, <2>7 DEF LockMutex, Goto, engineVars, threadVars, Preparing
  <2>8. CASE CreateThread
    BY <1>2, <2>8 DEF CreateThread, Goto, engineVars, Preparing, WithThread
  <2>9. CASE ArmDeadline
    BY <1>2, <2>9 DEF ArmDeadline, Goto, engineVars, threadVars, WithThread
  <2>10. CASE SampleUsage
    BY <1>2, <2>10 DEF SampleUsage, Goto, threadVars, WithThread
  <2>11. CASE Wait
    BY <1>2, <2>11 DEF Wait, Goto, engineVars, threadVars, WithThread
  <2>12. ASSUME NEW r, Awake(r) PROVE FitInv'
    BY <1>2, <2>12 DEF Awake, HostOnly, engineVars, threadVars, WithThread
  <2>13. CASE WakeBySignal \/ WakeByTimeout \/ WakeSpurious
    BY <2>12, <2>13 DEF WakeBySignal, WakeByTimeout, WakeSpurious
  <2>14. CASE Reacquire
    BY <1>2, <2>14 DEF Reacquire, Goto, engineVars, threadVars, WithThread
  <2>15. CASE CheckDone
    BY <1>2, <2>15 DEF CheckDone, Goto, HostOnly, engineVars, threadVars,
       WithThread
  <2>16. CASE RecordUsage
    BY <1>2, <2>16 DEF RecordUsage, Goto, threadVars, WithThread
  <2>17. CASE Unlock
    BY <1>2, <2>17 DEF Unlock, Goto, engineVars, threadVars, WithThread
  <2>18. CASE Cancel
    BY <1>2, <2>18 DEF Cancel, engineVars, WithThread
  <2>19. CASE Join
    BY <1>2, <2>19 DEF Join, Goto, HostOnly, engineVars, threadVars, WithThread
  <2>20. CASE Cleanup
    <3>1. call' = call /\ result' = result /\ torn' = torn
          /\ hpc = "cleanup" /\ hpc' \in {"get_exception", "return"}
          /\ (hpc' = "return" => hostErr' # "nil")
      BY <2>20 DEF Cleanup, Goto, engineVars
    <3>2. hostErr' \in {hostErr, "EngineInternalError", EvalErrToHost(evalErr)}
      BY <2>20 DEF Cleanup
    <3>3. hostErr \in {"nil", "EngineTimeQuotaError", "EngineInternalError"}
      BY <3>1 DEF VerdictInv
    <3>4. hostErr' \notin {"EngineRuntimeError", "EngineSyntaxError"}
      BY <3>2, <3>3 DEF EvalErrToHost
    <3>5. CASE hpc' = "return"
      BY <1>3, <3>1, <3>4, <3>5
    <3>6. CASE hpc' = "get_exception"
      <4>1. hostErr = "nil" /\ EvalErrToHost(evalErr) = "nil"
        BY <2>20, <3>6 DEF Cleanup, Goto
      <4>2. evalErr \notin Quotas
        BY <4>1 DEF EvalErrToHost, Quotas
      <4>3. ~quotaErrorRaised /\ call \notin pending
        BY <3>1, <4>1, <4>2 DEF VerdictInv, QuotaErrorSurvivesHandler,
           ThreadInv
      <4>4. QED
        BY <1>1, <3>1, <3>6, <4>3 DEF FitInv, Preparing, WithThread
    <3>7. QED
      BY <3>1, <3>5, <3>6
  <2>21. CASE GetException
    <3>1. call' = call /\ result' = result /\ torn' = torn /\ exc' = "none"
          /\ hpc = "get_exception" /\ hpc' \in {"to_s", "return"}
      BY <2>21 DEF GetException, TakeException, Goto
    <3>2. QED
      BY <1>1, <3>1 DEF FitInv, Preparing, WithThread
  <2>22. CASE HostInstruction
    <3>1. call' = call /\ result' = result /\ torn' = torn
          /\ hpc = "to_s" /\ hpc' = "to_s"
      BY <2>22 DEF HostInstruction, hostVars
    <3>2. QED
      BY <1>1, <3>1 DEF FitInv, Preparing, WithThread
  <2>23. CASE HostQuota
    BY <1>3, <2>23 DEF HostQuota, HostLeave, Goto
  <2>24. CASE DescribeException
    <3>1. call' = call /\ result' = result /\ torn' = torn /\ exc' = "none"
          /\ hpc = "to_s" /\ hpc' = "return"
      BY <2>24 DEF DescribeException, TakeException, Goto
    <3>2. QED
      BY <1>1, <3>1 DEF FitInv, Preparing, WithThread
  <2>25. CASE Return
    <3>1. hpc = "return" /\ hpc' = "idle" /\ call' = call /\ call \in Calls
          /\ torn' = torn /\ exc' = exc
          /\ result' = [result EXCEPT ![call] = hostErr]
      BY <2>25 DEF Return, HostOnly, engineVars, TypeOK
    <3>2. CleanUpTo(call)' => CleanUpTo(call - 1) /\ hostErr \in Clean
      BY SMT, <3>1 DEF CleanUpTo, TypeOK, Calls
    <3>3. QED
      BY <3>1, <3>2 DEF FitInv
  <2>26. QED
    BY <1>4, <2>1, <2>2, <2>3, <2>4, <2>5, <2>6, <2>7, <2>8, <2>9, <2>10,
       <2>11, <2>13, <2>14, <2>15, <2>16, <2>17, <2>18, <2>19, <2>20, <2>21,
       <2>22, <2>23, <2>24, <2>25 DEF HostStep
<1>5. ASSUME NEW c \in Calls, EvaluatorStep(c) PROVE FitInv'
  <2>1. /\ Live(c) /\ hpc' = hpc /\ call' = call /\ result' = result
        /\ pending' = pending
        /\ quotaErrorRaised' = quotaErrorRaised \/ quotaErrorRaised' = TRUE
        /\ torn' = torn \/ Leave(c) \/ ActOnCancel(c)
    BY <1>5 DEF EvaluatorStep, EvaluatorCallFails, Start, SetCancelType,
      TestCancel, Instruction, ReachQuota, Leave, Finish, ActOnCancel,
      HandlerStep, HandlerDisable, HandlerLock, HandlerDone, HandlerUnlock,
      HandlerSignal, Live, EvaluatorPCs, hostVars, engineVars, threadVars,
      MarkSpent
  <2>2. c = call /\ hpc \in WithThread
    BY <2>1 DEF ThreadInv
  <2>3. torn' = torn \/ quotaErrorRaised' \/ call \in pending'
    BY <2>1, <2>2 DEF Leave, MarkSpent, ActOnCancel
  <2>4. QED
    BY <1>1, <2>1, <2>2, <2>3 DEF FitInv, WithThread, Preparing
<1>6. CASE Tick
  <2>1. hpc' = hpc /\ call' = call /\ result' = result /\ torn' = torn
        /\ exc' = exc /\ pending' = pending
        /\ quotaErrorRaised' = quotaErrorRaised /\ hpc \in WithThread
    BY <1>6 DEF Tick, Armed, hostVars, engineVars, threadVars, WithThread
  <2>2. QED
    BY <1>2, <2>1 DEF WithThread
<1>7. CASE UNCHANGED vars
  BY <1>7 DEF vars, hostVars, engineVars, threadVars, FitInv, CleanUpTo
<1>8. QED
  BY <1>4, <1>5, <1>6, <1>7 DEF Next, Rest

\* After calls that all ended in nil, EngineRuntimeError or EngineSyntaxError
\* no script was ever torn, no exception is left and no quota is marked,
\* whatever system calls of the handler failed.
THEOREM CleanCallsStayFit ==
  ASSUME MayFail \cap AbandoningCalls = {}
  PROVE  Spec => []FitAfterCleanCalls
<1>1. Init => FitInv
  BY DEF Init, FitInv
<1>2. IInv /\ FitInv => FitAfterCleanCalls
  <2> SUFFICES ASSUME IInv, FitInv, hpc = "idle", CleanUpTo(call)
               PROVE  ~torn /\ exc = "none" /\ ~quotaErrorRaised
    BY DEF FitAfterCleanCalls
  <2>1. \A c \in 1..call :
          result[c] \notin QuotaErrors \cup {"EngineTimeQuotaError",
                                             "EngineInternalError"}
    BY DEF CleanUpTo, QuotaErrors
  <2>2. ~quotaErrorRaised
    BY <2>1 DEF IInv, HistoryInv
  <2>3. QED
    BY <2>2 DEF FitInv
<1>3. IInv => TypeOK /\ ThreadInv /\ VerdictInv
  BY DEF IInv
<1>4. QED
  BY <1>1, <1>2, <1>3, FitStep, Invariance, PTL DEF Spec
==============================================================================
