------------------------ MODULE UnmonitoredEvalProofs ------------------------
(***************************************************************************)
(* Proofs about UnmonitoredEval for every instruction quota and every      *)
(* number of calls: the invariant IInv, that no raise of the guest lands   *)
(* in a dead frame, and that the unmonitored evaluation implements         *)
(* SandboxEval.                                                            *)
(***************************************************************************)
EXTENDS UnmonitoredEval, TLAPS

\* A fresh engine satisfies the invariant.
LEMMA InitInvariant == Init => IInv
<1> SUFFICES ASSUME Init PROVE IInv
  OBVIOUS
<1> USE QuotaAssumption, CallsAssumption DEF Init, Calls
<1>1. quotaErrorRaised \in BOOLEAN
  BY Zenon
<1>2. TypeOK
  BY SMT, <1>1 DEF TypeOK, PCs, Errors, Results, QuotaErrors, Excs, Jmps
<1>3. CallInv
  BY SMT DEF CallInv, InInterpreter, ToS
<1>4. QED
  BY <1>2, <1>3 DEF IInv

\* Every step keeps it: a quota leaves the call at once, and everything else
\* puts the jump buffer back.
LEMMA InvariantStep == IInv /\ [Next]_vars => IInv'
<1> SUFFICES ASSUME TypeOK, CallInv, [Next]_vars PROVE TypeOK' /\ CallInv'
  BY DEF IInv
<1> USE QuotaAssumption, CallsAssumption
<1>1. CASE CallEval
  BY SMT, <1>1, TypeOK, CallInv DEF CallEval, TypeOK, CallInv, PCs,
      InInterpreter, ToS, QuotaErrors, Errors, Results, Excs, Jmps, Calls
<1>2. CASE Reject
  BY SMT, <1>2, TypeOK, CallInv DEF Reject, TypeOK, CallInv, PCs,
      InInterpreter, ToS, QuotaErrors, Errors, Results, Excs, Jmps, Calls
<1>3. CASE EnterParser
  BY SMT, <1>3, TypeOK, CallInv DEF EnterParser, TypeOK, CallInv, PCs,
      InInterpreter, ToS, QuotaErrors, Errors, Results, Excs, Jmps, Calls
<1>4. CASE LeaveParser
  BY SMT, <1>4, TypeOK, CallInv DEF LeaveParser, TypeOK, CallInv, PCs,
      InInterpreter, ToS, QuotaErrors, Errors, Results, Excs, Jmps, Calls
<1>5. CASE GenerateCode
  BY SMT, <1>5, TypeOK, CallInv DEF GenerateCode, TypeOK, CallInv, PCs,
      InInterpreter, ToS, QuotaErrors, Errors, Results, Excs, Jmps, Calls
<1>6. CASE Instruction
  BY SMT, <1>6, TypeOK, CallInv DEF Instruction, InGuestCode, HookPasses,
      TypeOK, CallInv, PCs, InInterpreter, ToS, QuotaErrors, Errors, Results,
      Excs, Jmps, Calls
<1>7. CASE OutOfMemory
  <2>1. quotaErrorRaised' \in BOOLEAN
    BY Zenon, <1>7 DEF OutOfMemory, EvalLeave, MarkSpent
  <2>2. QED
    BY SMT, <1>7, <2>1, TypeOK, CallInv DEF OutOfMemory, EvalLeave, MarkSpent,
        TypeOK, CallInv, PCs, InInterpreter, ToS, QuotaErrors, Errors,
        Results, Excs, Jmps, Calls
<1>8. CASE OutOfInstructions
  <2>1. quotaErrorRaised' \in BOOLEAN
    BY Zenon, <1>8 DEF OutOfInstructions, EvalLeave, MarkSpent
  <2>2. QED
    BY SMT, <1>8, <2>1, TypeOK, CallInv DEF OutOfInstructions, InGuestCode,
        HookPasses, EvalLeave, MarkSpent, TypeOK, CallInv, PCs, InInterpreter,
        ToS, QuotaErrors, Errors, Results, Excs, Jmps, Calls
<1>9. CASE Finish
  BY SMT, <1>9, TypeOK, CallInv DEF Finish, TypeOK, CallInv, PCs,
      InInterpreter, ToS, QuotaErrors, Errors, Results, Excs, Jmps, Calls
<1>10. CASE GetException
  BY SMT, <1>10, TypeOK, CallInv DEF GetException, TakeException, TypeOK,
      CallInv, PCs, InInterpreter, ToS, QuotaErrors, Errors, Results, Excs,
      Jmps, Calls
<1>11. CASE CallToS
  BY SMT, <1>11, TypeOK, CallInv DEF CallToS, TypeOK, CallInv, PCs,
      InInterpreter, ToS, QuotaErrors, Errors, Results, Excs, Jmps, Calls
<1>12. CASE ToSReturns
  BY SMT, <1>12, TypeOK, CallInv DEF ToSReturns, TypeOK, CallInv, PCs,
      InInterpreter, ToS, QuotaErrors, Errors, Results, Excs, Jmps, Calls
<1>13. CASE DescribeException
  BY SMT, <1>13, TypeOK, CallInv DEF DescribeException, TakeException, TypeOK,
      CallInv, PCs, InInterpreter, ToS, QuotaErrors, Errors, Results, Excs,
      Jmps, Calls
<1>14. CASE Return
  BY SMT, <1>14, TypeOK, CallInv DEF Return, TypeOK, CallInv, PCs,
      InInterpreter, ToS, QuotaErrors, Errors, Results, Excs, Jmps, Calls
<1>15. CASE UNCHANGED vars
  BY SMT, <1>15, TypeOK, CallInv DEF vars, TypeOK, CallInv, PCs,
      InInterpreter, ToS, QuotaErrors, Errors, Results, Excs, Jmps, Calls
<1>16. QED
  BY <1>1, <1>2, <1>3, <1>4, <1>5, <1>6, <1>7, <1>8, <1>9, <1>10, <1>11,
      <1>12, <1>13, <1>14, <1>15 DEF Next, Step, Rest

\* The inductive invariant holds in every reachable state.
THEOREM Invariance == Spec => []IInv
BY InitInvariant, InvariantStep, PTL DEF Spec

\* No raise of the guest lands in a frame that is gone: the dead jump buffer
\* of a call that ended with a quota is never used again.
THEOREM NoDeadJump == Spec => []NoJumpToDeadFrame
<1>1. IInv => NoJumpToDeadFrame
  BY SMT DEF IInv, TypeOK, CallInv, NoJumpToDeadFrame, InInterpreter, ToS, PCs
<1>2. QED
  BY <1>1, Invariance, PTL

\* A call that begins on a clean engine and ends without a quota leaves it
\* clean: every way from the script to the return takes the exception out.
LEMMA CleanStep == TypeOK /\ CallInv /\ CleanInv /\ [Next]_vars => CleanInv'
<1> SUFFICES ASSUME TypeOK, CallInv, CleanInv, [Next]_vars PROVE CleanInv'
  OBVIOUS
<1> USE QuotaAssumption, CallsAssumption
<1>1. CASE CallEval
  <2>1. call' - 1 = call /\ result' = result
    BY SMT, <1>1 DEF CallEval, TypeOK
  <2>2. CleanUpTo(call - 1)' => CleanUpTo(call)
    BY SMT, <2>1 DEF CleanUpTo
  <2>3. QED
    BY <1>1, <2>2 DEF CallEval, CleanInv
<1>2. CASE Reject
  <2>1. call' \in 1..call' /\ result'[call'] = "EngineQuotaAlreadyReached"
    BY SMT, <1>2 DEF Reject, TypeOK, Calls
  <2>2. ~CleanUpTo(call)'
    BY <2>1 DEF CleanUpTo
  <2>3. QED
    BY <1>2, <2>2 DEF Reject, CleanInv
<1>3. ASSUME NEW e \in QuotaErrors, hpc # "idle", EvalLeave(e)
      PROVE  CleanInv'
  <2>1. call' \in 1..call' /\ result'[call'] = e
    BY SMT, <1>3 DEF EvalLeave, TypeOK, Calls
  <2>2. ~CleanUpTo(call)'
    BY <2>1, <1>3 DEF CleanUpTo, QuotaErrors
  <2>3. QED
    BY <1>3, <2>2 DEF EvalLeave, CleanInv
<1>4. CASE OutOfMemory
  BY <1>3, <1>4 DEF OutOfMemory, InInterpreter, ToS, QuotaErrors
<1>5. CASE OutOfInstructions
  BY <1>3, <1>5 DEF OutOfInstructions, InGuestCode, ToS, QuotaErrors
<1>6. CASE Return
  <2>1. call \in Calls /\ ~quotaErrorRaised /\ call' = call
    BY <1>6 DEF Return, TypeOK, CallInv
  <2>2. CleanUpTo(call)' => CleanUpTo(call - 1)
    BY SMT, <1>6, <2>1 DEF Return, CleanUpTo, TypeOK, Calls
  <2>3. QED
    BY <1>6, <2>1, <2>2 DEF Return, CleanInv
<1>7. ASSUME call' = call, result' = result,
             hpc' \in {"compile", "generate", "return"} =>
               \/ /\ hpc \in {"compile", "generate", "return"}
                  /\ exc' \in {exc, "none"}
               \/ exc' = "none",
             hpc' # "idle"
      PROVE  CleanInv'
  <2>1. CleanUpTo(call - 1)' <=> CleanUpTo(call - 1)
    BY <1>7 DEF CleanUpTo
  <2>2. QED
    BY <1>7, <2>1 DEF CleanInv
<1>8. CASE EnterParser
  BY <1>7, <1>8 DEF EnterParser
<1>9. CASE LeaveParser
  BY <1>7, <1>9 DEF LeaveParser
<1>10. CASE GenerateCode
  BY <1>7, <1>10 DEF GenerateCode
<1>11. CASE Instruction
  BY <1>7, <1>11 DEF Instruction, InGuestCode, ToS
<1>12. CASE Finish
  BY <1>7, <1>12 DEF Finish
<1>13. CASE GetException
  BY <1>7, <1>13 DEF GetException, TakeException
<1>14. CASE CallToS
  BY <1>7, <1>14 DEF CallToS, ToS
<1>15. CASE ToSReturns
  BY <1>7, <1>15 DEF ToSReturns, ToS
<1>16. CASE DescribeException
  BY <1>7, <1>16 DEF DescribeException, TakeException
<1>17. CASE UNCHANGED vars
  BY <1>17 DEF vars, CleanInv, CleanUpTo
<1>18. QED
  BY <1>1, <1>2, <1>4, <1>5, <1>6, <1>8, <1>9, <1>10, <1>11, <1>12, <1>13,
      <1>14, <1>15, <1>16, <1>17 DEF Next, Step, Rest

\* After calls that ended in nil, a runtime error or a syntax error there is
\* no exception left in the interpreter and no jump buffer, whatever the
\* scripts and their to_s did.
THEOREM CleanCallsStayClean == Spec => []CleanBetweenCalls
<1>1. Init => CleanInv
  BY DEF Init, CleanInv
<1>2. TypeOK /\ CallInv /\ CleanInv => CleanBetweenCalls
  BY DEF TypeOK, Jmps, CallInv, CleanInv, CleanBetweenCalls
<1>3. IInv => TypeOK /\ CallInv
  BY DEF IInv
<1>4. QED
  BY <1>1, <1>2, <1>3, CleanStep, Invariance, PTL DEF Spec

\* A step of the evaluation is a step of the sandbox's promise or changes
\* nothing that the caller sees.
LEMMA SandboxStep == IInv /\ [Next]_vars => [Sandbox!Next]_(Sandbox!vars)
<1> SUFFICES ASSUME TypeOK, CallInv, [Next]_vars
             PROVE  [Sandbox!Next]_(Sandbox!vars)
  BY DEF IInv
<1> DEFINE Quiet == /\ hpc # "idle" /\ hpc' # "idle"
                    /\ UNCHANGED <<call, result>>
<1>1. Quiet => UNCHANGED Sandbox!vars
  BY DEF Sandbox!vars, Phase
<1>2. CASE CallEval
  <2>1. Sandbox!Begin
    BY <1>2 DEF CallEval, Sandbox!Begin, Phase
  <2>2. QED
    BY <2>1 DEF Sandbox!Next
<1>3. CASE Reject
  <2>1. Sandbox!Refuse
    BY <1>3 DEF Reject, Sandbox!Refuse, Phase
  <2>2. QED
    BY <2>1 DEF Sandbox!Next
<1>4. ASSUME NEW e \in QuotaErrors, hpc # "idle", EvalLeave(e)
      PROVE  Sandbox!Next
  <2>1. e \in Sandbox!Spending
    BY <1>4 DEF QuotaErrors, Sandbox!Spending
  <2>2. Sandbox!End(e)
    BY <1>4, <2>1 DEF EvalLeave, MarkSpent, Sandbox!End, Phase
  <2>3. QED
    BY <2>1, <2>2 DEF Sandbox!Next
<1>5. CASE OutOfMemory
  <2>1. hpc # "idle" /\ EvalLeave("EngineMemoryQuotaError")
    BY <1>5 DEF OutOfMemory, InInterpreter, ToS
  <2>2. QED
    BY <1>4, <2>1 DEF QuotaErrors
<1>6. CASE OutOfInstructions
  <2>1. hpc # "idle" /\ EvalLeave("EngineInstructionQuotaError")
    BY <1>6 DEF OutOfInstructions, InGuestCode, ToS
  <2>2. QED
    BY <1>4, <2>1 DEF QuotaErrors
<1>7. CASE Return
  <2>1. err \in Sandbox!Clean \cup {"EngineInternalError"}
    BY DEF TypeOK, Errors, Sandbox!Clean
  <2>2. ~quotaErrorRaised
    BY <1>7 DEF Return, CallInv
  <2>3. (hpc' = "idle" /\ quotaErrorRaised') = FALSE
    BY <1>7, <2>2 DEF Return
  <2>4. Sandbox!End(err)
    BY <1>7, <2>1, <2>3 DEF Return, Sandbox!End, Sandbox!Unsettled, Phase
  <2>5. QED
    BY <2>1, <2>4 DEF Sandbox!Next, Sandbox!Unsettled
<1>8. CASE EnterParser
  BY <1>8, <1>1 DEF EnterParser
<1>9. CASE LeaveParser
  BY <1>9, <1>1 DEF LeaveParser
<1>10. CASE GenerateCode
  BY <1>10, <1>1 DEF GenerateCode
<1>11. CASE Instruction
  BY <1>11, <1>1 DEF Instruction, InGuestCode, ToS
<1>12. CASE Finish
  BY <1>12, <1>1 DEF Finish
<1>13. CASE GetException
  BY <1>13, <1>1 DEF GetException
<1>14. CASE CallToS
  BY <1>14, <1>1 DEF CallToS, ToS
<1>15. CASE ToSReturns
  BY <1>15, <1>1 DEF ToSReturns, ToS
<1>16. CASE DescribeException
  BY <1>16, <1>1 DEF DescribeException
<1>17. CASE UNCHANGED vars
  BY <1>17 DEF vars, Sandbox!vars, Phase
<1>18. QED
  BY <1>2, <1>3, <1>5, <1>6, <1>7, <1>8, <1>9, <1>10, <1>11, <1>12, <1>13,
      <1>14, <1>15, <1>16, <1>17 DEF Next, Step, Rest

\* Refinement: without a second thread, too, sandbox_eval keeps the promise
\* stated by SandboxEval.
THEOREM Refinement == Spec => ImplementsSandbox
<1>1. Init => Sandbox!Init
  BY DEF Init, Sandbox!Init, Phase, Calls
<1>2. QED
  BY <1>1, SandboxStep, Invariance, PTL DEF Spec, ImplementsSandbox, Sandbox!Spec
==============================================================================
