--------------------------- MODULE UnmonitoredEval ---------------------------
(***************************************************************************)
(* MRubyEngine#sandbox_eval where evaluations are not monitored            *)
(* (eval_unmonitored.c, any platform but Linux).  The Ruby thread runs the *)
(* script itself.  A quota is reported by raising a Ruby exception out of  *)
(* the allocator or the fetch hook, through the frames of the interpreter, *)
(* whose jump buffer is then a pointer into a frame that is gone.          *)
(*                                                                         *)
(* One engine, MaxCalls calls, one after the other.  There is no time      *)
(* quota and no stack quota.                                               *)
(***************************************************************************)
EXTENDS Integers

CONSTANTS
  InstructionQuota, \* engine->instruction_quota
  MaxCalls          \* bound: how many calls the caller makes

ASSUME QuotaAssumption == InstructionQuota \in Nat \ {0}
ASSUME CallsAssumption == MaxCalls \in Nat \ {0}

Calls == 1..MaxCalls

VARIABLES
  hpc,     \* where the Ruby thread is in sandbox_eval
  call,    \* the current or last call
  err,     \* *err, the exception sandbox_eval will raise
  result,  \* what each call ended with
  quotaErrorRaised, \* quota_error_raised
  instructionCount, \* instruction_count
  exc,     \* state->exc
  jmp      \* state->jmp: no buffer, one of a live frame, or of a dead one

vars == <<hpc, call, err, result, quotaErrorRaised, instructionCount, exc, jmp>>

PCs == {"idle", "compile", "generate", "run", "get_exception", "class_to_s",
        "message_to_s", "describe", "return"}
QuotaErrors == {"EngineInstructionQuotaError", "EngineMemoryQuotaError"}
Errors == {"nil", "EngineRuntimeError", "EngineSyntaxError",
           "EngineInternalError"}
Results ==
  Errors \cup QuotaErrors \cup {"pending", "EngineQuotaAlreadyReached"}
Excs == {"none", "exit", "error"}
Jmps == {"null", "live", "dead"}

\* The pcs at which the interpreter runs code that may raise.
ToS == {"class_to_s", "message_to_s"}
InInterpreter == {"compile", "generate", "run", "describe"} \cup ToS
\* The guest's instructions pass the fetch hook.
InGuestCode == hpc \in {"run"} \cup ToS /\ jmp = "live"

Init ==
  /\ hpc = "idle" /\ call = 0 /\ err = "nil"
  /\ result = [c \in Calls |-> "pending"]
  /\ quotaErrorRaised = FALSE /\ instructionCount = 0
  /\ exc = "none" /\ jmp = "null"

CallEval ==
  /\ hpc = "idle" /\ call < MaxCalls /\ ~quotaErrorRaised
  /\ hpc' = "compile" /\ call' = call + 1 /\ err' = "nil"
  /\ UNCHANGED <<result, quotaErrorRaised, instructionCount, exc, jmp>>

Reject ==
  /\ hpc = "idle" /\ call < MaxCalls /\ quotaErrorRaised
  /\ call' = call + 1
  /\ result' = [result EXCEPT ![call + 1] = "EngineQuotaAlreadyReached"]
  /\ UNCHANGED <<hpc, err, quotaErrorRaised, instructionCount, exc, jmp>>

\* generate_code makes its own frame the target of a raise ...
EnterParser ==
  /\ hpc = "compile" /\ jmp = "null" /\ jmp' = "live"
  /\ UNCHANGED <<hpc, call, err, result, quotaErrorRaised, instructionCount,
                 exc>>

\* ... and puts back the previous one on every way out; an error thrown by
\* the parser is dropped.
LeaveParser ==
  /\ hpc = "compile" /\ jmp = "live" /\ jmp' = "null"
  /\ \/ hpc' = "generate" /\ UNCHANGED <<err, exc>>
     \/ /\ hpc' = "return" /\ exc' \in {exc, "none"}
        /\ err' = "EngineSyntaxError"
     \/ hpc' = "return" /\ exc' = "none" /\ err' = "EngineInternalError"
  /\ UNCHANGED <<call, result, quotaErrorRaised, instructionCount>>

\* mrb_generate_code; then mrb_context_run makes its frame the target.
GenerateCode ==
  /\ hpc = "generate"
  /\ \/ hpc' = "run" /\ jmp' = "live" /\ UNCHANGED err
     \/ hpc' = "return" /\ err' = "EngineInternalError" /\ UNCHANGED jmp
  /\ UNCHANGED <<call, result, quotaErrorRaised, instructionCount, exc>>

\* Mutant: one instruction too many.
HookPassesOneMore == instructionCount <= InstructionQuota
\* The test of mruby_engine_code_fetch_hook.
HookPasses == instructionCount < InstructionQuota

\* Mutant: instructions are not counted.
FreeInstruction ==
  /\ InGuestCode /\ exc' \in Excs
  /\ UNCHANGED <<hpc, call, err, result, quotaErrorRaised, instructionCount,
                 jmp>>
\* An instruction of the script, or of the to_s of its exception.
Instruction ==
  /\ InGuestCode /\ HookPasses
  /\ instructionCount' = instructionCount + 1 /\ exc' \in Excs
  /\ UNCHANGED <<hpc, call, err, result, quotaErrorRaised, jmp>>

\* Mutant: the quota is not remembered.
MarkNothing == UNCHANGED quotaErrorRaised
\* me_mruby_engine_eval_leave: quota_error_raised = true
MarkSpent == quotaErrorRaised' = TRUE

\* me_host_raise leaves sandbox_eval at once; no frame restores state->jmp.
EvalLeave(quotaError) ==
  /\ MarkSpent /\ hpc' = "idle"
  /\ result' = [result EXCEPT ![call] = quotaError]
  /\ jmp' = IF jmp = "live" THEN "dead" ELSE jmp
  /\ UNCHANGED <<call, err, exc>>

\* The allocator finds no room, wherever it is called from.
OutOfMemory ==
  /\ hpc \in InInterpreter /\ EvalLeave("EngineMemoryQuotaError")
  /\ UNCHANGED instructionCount

\* The hook finds the instruction quota used up.
OutOfInstructions ==
  /\ InGuestCode /\ ~HookPasses
  /\ EvalLeave("EngineInstructionQuotaError") /\ UNCHANGED instructionCount

\* mrb_context_run returns, with or without an exception.
Finish ==
  /\ hpc = "run" /\ hpc' = "get_exception" /\ exc' \in Excs /\ jmp' = "null"
  /\ UNCHANGED <<call, err, result, quotaErrorRaised, instructionCount>>

\* Mutant: the exception stays in the interpreter.
LeaveException == UNCHANGED exc
\* state->exc = NULL
TakeException == exc' = "none"

\* me_mruby_engine_get_exception takes state->exc; the one of `exit` is no
\* error, any other is described.
GetException ==
  /\ hpc = "get_exception" /\ TakeException
  /\ hpc' = IF exc = "error" THEN "class_to_s" ELSE "return"
  /\ UNCHANGED <<call, err, result, quotaErrorRaised, instructionCount, jmp>>

\* mrb_obj_as_string calls guest code, for the name of the exception's class
\* and for its message; mrb_funcall makes its own frame the
\* target of a raise for as long.
CallToS ==
  /\ hpc \in ToS /\ jmp = "null" /\ jmp' = "live"
  /\ UNCHANGED <<hpc, call, err, result, quotaErrorRaised, instructionCount,
                 exc>>

ToSReturns ==
  /\ hpc \in ToS /\ jmp = "live" /\ jmp' = "null"
  /\ hpc' = IF hpc = "class_to_s" THEN "message_to_s" ELSE "describe"
  /\ UNCHANGED <<call, err, result, quotaErrorRaised, instructionCount, exc>>

DescribeException ==
  /\ hpc = "describe" /\ hpc' = "return" /\ TakeException
  /\ err' = "EngineRuntimeError"
  /\ UNCHANGED <<call, result, quotaErrorRaised, instructionCount, jmp>>

Return ==
  /\ hpc = "return" /\ hpc' = "idle"
  /\ result' = [result EXCEPT ![call] = err]
  /\ UNCHANGED <<call, err, quotaErrorRaised, instructionCount, exc, jmp>>

\* The caller makes no more calls.
Rest == hpc = "idle" /\ call = MaxCalls /\ UNCHANGED vars

Step ==
  \/ EnterParser \/ LeaveParser \/ GenerateCode \/ Instruction
  \/ OutOfMemory \/ OutOfInstructions \/ Finish \/ GetException
  \/ CallToS \/ ToSReturns \/ DescribeException \/ Return

Next == CallEval \/ Reject \/ Step \/ Rest

Spec == Init /\ [][Next]_vars

\* The thread runs, and every single instruction of the guest ends.
FairSpec == Spec /\ WF_vars(Step)

------------------------------------------------------------------------------
TypeOK ==
  /\ hpc \in PCs /\ call \in 0..MaxCalls /\ (hpc # "idle" => call \in Calls)
  /\ err \in Errors /\ result \in [Calls -> Results]
  /\ quotaErrorRaised \in BOOLEAN /\ instructionCount \in 0..InstructionQuota
  /\ exc \in Excs /\ jmp \in Jmps

\* The interpreter never runs with a jump buffer of a frame that is gone: a
\* raise of the guest would land there.  Only the refusal of later calls
\* keeps it so, nothing resets state->jmp.
NoJumpToDeadFrame == hpc \in InInterpreter => jmp # "dead"

\* The calls up to c have ended without a quota or an internal error.
CleanUpTo(c) ==
  \A d \in 1..c :
    result[d] \in {"nil", "EngineRuntimeError", "EngineSyntaxError"}

\* While every call has ended without a quota or internal error the
\* interpreter is left as a fresh one: no exception in it, no jump buffer.
CleanBetweenCalls ==
  hpc = "idle" /\ CleanUpTo(call) =>
    exc = "none" /\ jmp = "null" /\ ~quotaErrorRaised

\* Without a clock it is the instruction quota that ends every call, also
\* one whose script or whose to_s loops.
EvalReturns == hpc # "idle" ~> hpc = "idle"

Phase == IF hpc = "idle" THEN "idle" ELSE "busy"
Sandbox == INSTANCE SandboxEval
  WITH phase <- Phase, spent <- (hpc = "idle" /\ quotaErrorRaised)

\* The unmonitored evaluation keeps the promise of sandbox_eval too.
ImplementsSandbox == Sandbox!Spec

\* What the properties rest on: a call in progress has not reached a quota,
\* and only a quota leaves a dead jump buffer.
CallInv ==
  /\ hpc # "idle" => ~quotaErrorRaised
  /\ quotaErrorRaised \/ jmp # "dead"
  /\ hpc \in {"generate", "get_exception", "describe", "return", "idle"} =>
       jmp # "live"

IInv == TypeOK /\ CallInv

\* What CleanBetweenCalls rests on: after such calls there is no exception in
\* the interpreter where a call begins, compiles or ends.
CleanInv ==
  /\ hpc = "idle" /\ CleanUpTo(call) => exc = "none" /\ ~quotaErrorRaised
  /\ hpc \in {"compile", "generate", "return"} /\ CleanUpTo(call - 1) =>
       exc = "none"
==============================================================================
