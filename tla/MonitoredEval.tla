---------------------------- MODULE MonitoredEval ----------------------------
(***************************************************************************)
(* MRubyEngine#sandbox_eval on Linux (ME_EVAL_MONITORED_P).  A Ruby        *)
(* thread, the host, compiles a script, starts an evaluator thread for it  *)
(* and sleeps on a condition variable until the evaluator's cancellation   *)
(* handler signals it or the time quota runs out; then it cancels, joins   *)
(* and translates what happened into an exception                          *)
(* (eval_monitored.c).  The guest code runs under the hooks of             *)
(* mruby_engine.c, which end it when a quota is reached.                   *)
(*                                                                         *)
(* One engine, MaxCalls calls, one after the other.  The evaluator of call *)
(* c is thread c; the host is thread 0.  The eval_state structure and the  *)
(* interpreter are shared by them all, as in the code.  A step is one      *)
(* pthread call with the assignments that follow it.                       *)
(***************************************************************************)
EXTENDS Integers

CONSTANTS
  InstructionQuota, \* engine->instruction_quota
  MaxCalls,         \* bound: how many calls the caller makes
  MayFail           \* the system calls that may return an error

\* The calls whose error the code handles.
Syscalls ==
  {"pthread_condattr_init", "pthread_condattr_setclock", "pthread_cond_init",
   "pthread_mutex_init", "host_pthread_mutex_lock", "pthread_create",
   "clock_gettime", "pthread_getcpuclockid", "pthread_cond_timedwait",
   "host_pthread_mutex_unlock", "pthread_cancel", "pthread_join",
   "pthread_mutex_destroy", "pthread_cond_destroy",
   "me_platform_get_stack_base", "pthread_setcanceltype",
   "pthread_setcancelstate", "pthread_mutex_lock", "pthread_mutex_unlock",
   "pthread_cond_signal"}

\* Their failure makes the host give up on an evaluator it has started and
\* not joined.
AbandoningCalls ==
  {"clock_gettime", "pthread_cond_timedwait", "host_pthread_mutex_unlock",
   "pthread_cancel", "pthread_join"}

ASSUME QuotaAssumption == InstructionQuota \in Nat \ {0}
ASSUME CallsAssumption == MaxCalls \in Nat \ {0}
ASSUME MayFailAssumption == MayFail \subseteq Syscalls

Host   == 0
Calls  == 1..MaxCalls
Nobody == -1

VARIABLES
  hpc,         \* where the host is in sandbox_eval
  call,        \* the current or last call
  waitResult,  \* wait_result
  hostErr,     \* *err, the exception sandbox_eval will raise
  result,      \* what each call ended with
  mutex,       \* eval_state.mutex: its owner
  mutexLife,   \* whether it is initialised
  condLife,    \* the same of eval_state.cond
  woken,       \* a signal reached the sleeping host
  expired,     \* the clock passed eval_state.deadline
  evalErr,     \* eval_state.err.type
  evalDone,    \* eval_state.eval_done_p
  cpuTime,     \* cpu_time_ns
  quotaErrorRaised, \* quota_error_raised
  instructionCount, \* instruction_count
  exc,         \* state->exc
  epc,         \* where each evaluator is
  ecancel,     \* its cancelability
  pending,     \* the evaluators with a cancellation request
  exiting,     \* those that are unwinding (cancelled or in pthread_exit)
  completed,   \* history: those whose script ran to its end
  torn         \* history: the interpreter was stopped inside a script

hostVars   == <<hpc, call, waitResult, hostErr, result>>
syncVars   == <<mutex, mutexLife, condLife, woken, expired>>
stateVars  == <<evalErr, evalDone>>
engineVars == <<cpuTime, quotaErrorRaised, instructionCount, exc, torn>>
threadVars == <<epc, ecancel, pending, exiting, completed>>
vars == <<hostVars, syncVars, stateVars, engineVars, threadVars>>

HostPCs ==
  {"idle", "compile", "init", "lock", "create", "clock", "rusage", "wait",
   "sleep", "reacquire", "check", "record", "unlock", "cancel", "join",
   "cleanup", "get_exception", "to_s", "return", "dead"}
EvaluatorPCs ==
  {"none", "start", "canceltype", "testcancel", "run", "leave", "handler",
   "hlock", "hdone", "hunlock", "hsignal", "exited"}
Quotas == {"INSTRUCTION_QUOTA_REACHED", "MEMORY_QUOTA_REACHED",
           "STACK_EXHAUSTED"}
EvalErrs == Quotas \cup {"NO_ERR", "SYSTEM_ERROR"}
QuotaErrors == {"EngineInstructionQuotaError", "EngineMemoryQuotaError",
                "EngineStackExhaustedError"}
Exceptions == QuotaErrors \cup
  {"nil", "EngineTimeQuotaError", "EngineInternalError",
   "EngineRuntimeError", "EngineSyntaxError"}
Results == Exceptions \cup {"pending", "EngineQuotaAlreadyReached"}
Excs == {"none", "exit", "error"}

\* Mutant: the error of the evaluator is not handed on.
ForgetErr(e) == "nil"
\* me_eval_err_to_host
EvalErrToHost(e) ==
  CASE e = "INSTRUCTION_QUOTA_REACHED" -> "EngineInstructionQuotaError"
    [] e = "MEMORY_QUOTA_REACHED"      -> "EngineMemoryQuotaError"
    [] e = "STACK_EXHAUSTED"           -> "EngineStackExhaustedError"
    [] e = "SYSTEM_ERROR"              -> "EngineInternalError"
    [] OTHER                           -> "nil"

\* cpu_time_ns holds a reading of the evaluator's clock or minus an error.
Unmeasured == 0
Measured   == 1000000
ESRCH      == 3

InScript == {"testcancel", "run", "leave"}
Live(c) == epc[c] \in EvaluatorPCs \ {"none", "exited"}
Fails(f) == f \in MayFail

\* Mutant: every error is recorded.
RecordLastErr == evalErr' = "SYSTEM_ERROR"
\* ME_PTHREAD_CALL: the first error is the one that is kept.
RecordErr ==
  evalErr' = IF evalErr = "NO_ERR" THEN "SYSTEM_ERROR" ELSE evalErr

\* Mutant: the mutex keeps nobody out.
PassMutex(t) == UNCHANGED mutex
\* pthread_mutex_lock
Acquire(t) == mutex = Nobody /\ mutex' = t

\* Mutant: one instruction too many.
HookPassesOneMore == instructionCount <= InstructionQuota
\* The test of mruby_engine_code_fetch_hook.
HookPasses == instructionCount < InstructionQuota

\* The hook finds the instruction quota used up, an allocation fails, or the
\* hook counts the instruction and finds the stack almost used up.
QuotaReached(e) ==
  \/ /\ e = "INSTRUCTION_QUOTA_REACHED" /\ ~HookPasses
     /\ UNCHANGED instructionCount
  \/ e = "MEMORY_QUOTA_REACHED" /\ UNCHANGED instructionCount
  \/ /\ e = "STACK_EXHAUSTED" /\ HookPasses
     /\ instructionCount' = instructionCount + 1

\* Mutant: the quota is not remembered.
MarkNothing == UNCHANGED quotaErrorRaised
\* me_mruby_engine_eval_leave: quota_error_raised = true
MarkSpent == quotaErrorRaised' = TRUE

Init ==
  /\ hpc = "idle" /\ call = 0 /\ waitResult = "ok" /\ hostErr = "nil"
  /\ result = [c \in Calls |-> "pending"]
  /\ mutex = Nobody /\ mutexLife = "raw" /\ condLife = "raw"
  /\ woken = FALSE /\ expired = FALSE
  /\ evalErr = "NO_ERR" /\ evalDone = FALSE
  /\ cpuTime = Unmeasured /\ quotaErrorRaised = FALSE
  /\ instructionCount = 0 /\ exc = "none" /\ torn = FALSE
  /\ epc = [c \in Calls |-> "none"]
  /\ ecancel = [c \in Calls |-> "deferred"]
  /\ pending = {} /\ exiting = {} /\ completed = {}

------------------------------------------------------------------------------
(* The host: ext_mruby_engine_eval, me_mruby_engine_eval.                   *)

Goto(pc) == hpc' = pc /\ UNCHANGED <<call, waitResult, result>>
HostOnly == UNCHANGED <<syncVars, stateVars, engineVars, threadVars>>

\* check_quota_error_raised lets the call in.
CallEval ==
  /\ hpc = "idle" /\ call < MaxCalls /\ ~quotaErrorRaised
  /\ hpc' = "compile" /\ call' = call + 1 /\ hostErr' = "nil"
  /\ UNCHANGED <<waitResult, result>> /\ HostOnly

\* check_quota_error_raised turns it away.
Reject ==
  /\ hpc = "idle" /\ call < MaxCalls /\ quotaErrorRaised
  /\ call' = call + 1
  /\ result' = [result EXCEPT ![call + 1] = "EngineQuotaAlreadyReached"]
  /\ UNCHANGED <<hpc, waitResult, hostErr>> /\ HostOnly

\* me_mruby_engine_generate_code; an error of the parser drops state->exc.
Compile ==
  /\ hpc = "compile"
  /\ \/ Goto("init") /\ UNCHANGED <<hostErr, exc>>
     \/ /\ Goto("return") /\ exc' \in {exc, "none"}
        /\ hostErr' \in {"EngineSyntaxError", "EngineInternalError"}
  /\ UNCHANGED <<syncVars, stateVars, cpuTime, quotaErrorRaised,
                 instructionCount, torn, threadVars>>

\* me_mruby_engine_eval_leave called on the host thread: pthread_exit ends
\* the Ruby thread.
HostLeave(e) ==
  /\ evalErr' = e /\ MarkSpent /\ Goto("dead")
  /\ UNCHANGED <<hostErr, syncVars, evalDone, cpuTime, exc, torn, threadVars>>

\* The compiler allocates from the engine's pool.
CompileOutOfMemory ==
  /\ hpc = "compile" /\ HostLeave("MEMORY_QUOTA_REACHED")
  /\ UNCHANGED instructionCount

\* mruby_engine_eval_state_init: the structure is zeroed, the condition and
\* the mutex are made.
EvalStateInit ==
  LET fresh == mutex' = Nobody /\ woken' = FALSE /\ evalErr' = "NO_ERR"
               /\ evalDone' = FALSE
  IN /\ hpc = "init" /\ fresh
     /\ \/ /\ Goto("lock") /\ UNCHANGED hostErr
           /\ mutexLife' = "live" /\ condLife' = "live"
        \/ /\ \E f \in {"pthread_condattr_init", "pthread_condattr_setclock",
                        "pthread_cond_init"} : Fails(f)
           /\ Goto("return") /\ hostErr' = "EngineInternalError"
           /\ mutexLife' = "raw" /\ condLife' = "raw"
        \/ /\ Fails("pthread_mutex_init")
           /\ Goto("return") /\ hostErr' = "EngineInternalError"
           /\ mutexLife' = "raw" /\ condLife' = "destroyed"
     /\ UNCHANGED <<expired, engineVars, threadVars>>

\* A call of the host failed: goto cleanup.
HostCallFails ==
  /\ \/ hpc = "lock"   /\ Fails("host_pthread_mutex_lock")
     \/ hpc = "create" /\ Fails("pthread_create")
     \/ hpc = "clock"  /\ Fails("clock_gettime")
     \/ hpc = "wait"   /\ Fails("pthread_cond_timedwait")
     \/ hpc = "unlock" /\ Fails("host_pthread_mutex_unlock")
     \/ hpc = "cancel" /\ Fails("pthread_cancel")
     \/ hpc = "join"   /\ Fails("pthread_join")
  /\ Goto("cleanup") /\ hostErr' = "EngineInternalError" /\ HostOnly

LockMutex ==
  /\ hpc = "lock" /\ Acquire(Host) /\ Goto("create")
  /\ UNCHANGED <<hostErr, mutexLife, condLife, woken, expired, stateVars,
                 engineVars, threadVars>>

CreateThread ==
  /\ hpc = "create" /\ Goto("clock")
  /\ epc' = [epc EXCEPT ![call] = "start"]
  /\ UNCHANGED <<hostErr, syncVars, stateVars, engineVars, ecancel, pending,
                 exiting, completed>>

\* clock_gettime, timespec_add: the deadline is set from now.
ArmDeadline ==
  /\ hpc = "clock" /\ Goto("rusage") /\ expired' = FALSE
  /\ UNCHANGED <<hostErr, mutex, mutexLife, condLife, woken, stateVars,
                 engineVars, threadVars>>

\* getrusage, pthread_getcpuclockid: ESRCH when the thread has exited.
SampleUsage ==
  /\ hpc = "rusage" /\ Goto("wait")
  /\ \/ Live(call) /\ UNCHANGED cpuTime
     \/ ~Live(call) /\ cpuTime' = -ESRCH
     \/ Fails("pthread_getcpuclockid") /\ cpuTime' = -ESRCH
  /\ UNCHANGED <<hostErr, syncVars, stateVars, quotaErrorRaised,
                 instructionCount, exc, torn, threadVars>>

\* pthread_cond_timedwait releases the mutex and sleeps in one step.
Wait ==
  /\ hpc = "wait" /\ Goto("sleep") /\ mutex' = Nobody /\ woken' = FALSE
  /\ UNCHANGED <<hostErr, mutexLife, condLife, expired, stateVars, engineVars,
                 threadVars>>

Awake(r) ==
  /\ hpc = "sleep" /\ hpc' = "reacquire" /\ waitResult' = r
  /\ UNCHANGED <<call, hostErr, result>> /\ HostOnly
WakeBySignal  == woken /\ Awake("ok")
WakeByTimeout == expired /\ Awake("ETIMEDOUT")
\* Not once the deadline is over: the wait then ends with ETIMEDOUT.
WakeSpurious  == ~expired /\ ~woken /\ Awake("ok")

Reacquire ==
  /\ hpc = "reacquire" /\ Acquire(Host) /\ Goto("check")
  /\ UNCHANGED <<hostErr, mutexLife, condLife, woken, expired, stateVars,
                 engineVars, threadVars>>

\* while (!wait_result && !eval_done_p)
CheckDone ==
  /\ hpc = "check"
  /\ Goto(IF waitResult = "ok" /\ ~evalDone THEN "wait" ELSE "record")
  /\ UNCHANGED hostErr /\ HostOnly

\* The CPU clock of the evaluator, read on the first call only.  Once the
\* thread has exited clock_gettime returns -1, which is negated.
RecordUsage ==
  /\ hpc = "record" /\ Goto("unlock")
  /\ cpuTime' = IF cpuTime # Unmeasured THEN cpuTime
                ELSE IF Live(call) THEN Measured ELSE (-1) * (-1)
  /\ UNCHANGED <<hostErr, syncVars, stateVars, quotaErrorRaised,
                 instructionCount, exc, torn, threadVars>>

Unlock ==
  /\ hpc = "unlock" /\ mutex' = Nobody
  /\ Goto(IF waitResult = "ok" THEN "join" ELSE "cancel")
  /\ UNCHANGED <<hostErr, mutexLife, condLife, woken, expired, stateVars,
                 engineVars, threadVars>>

\* pthread_cancel.  For a thread that has exited glibc answers ESRCH, or 0
\* since 2.34.
Cancel ==
  /\ hpc = "cancel" /\ hpc' = "join"
  /\ \/ Live(call) /\ pending' = pending \cup {call} /\ UNCHANGED waitResult
     \/ ~Live(call) /\ waitResult' \in {waitResult, "ok"} /\ UNCHANGED pending
  /\ UNCHANGED <<call, hostErr, result, syncVars, stateVars, engineVars, epc,
                 ecancel, exiting, completed>>

\* Mutant: the host does not wait for the evaluator's end.
NotJoined == TRUE
\* pthread_join returns.
Joined == epc[call] = "exited"
\* Mutant: the time-out is forgotten.
NoTimeQuotaError == hostErr
\* if (wait_result == ETIMEDOUT)
TimeQuotaError ==
  IF waitResult = "ETIMEDOUT" THEN "EngineTimeQuotaError" ELSE hostErr

Join ==
  /\ hpc = "join" /\ Joined /\ Goto("cleanup") /\ hostErr' = TimeQuotaError
  /\ HostOnly

\* pthread_mutex_destroy answers EBUSY when somebody holds the mutex.
Cleanup ==
  /\ hpc = "cleanup"
  /\ \E m \in BOOLEAN, d \in BOOLEAN :
       /\ m => mutex # Nobody \/ Fails("pthread_mutex_destroy")
       /\ mutex # Nobody => m
       /\ d => Fails("pthread_cond_destroy")
       /\ mutexLife' = IF m THEN mutexLife ELSE "destroyed"
       /\ condLife' = IF d THEN condLife ELSE "destroyed"
       /\ hostErr' = IF hostErr # "nil" THEN hostErr
                     ELSE IF m \/ d THEN "EngineInternalError"
                     ELSE EvalErrToHost(evalErr)
  /\ Goto(IF hostErr' = "nil" THEN "get_exception" ELSE "return")
  /\ UNCHANGED <<mutex, woken, expired, stateVars, engineVars, threadVars>>

\* Mutant: the exception stays in the interpreter.
LeaveException == UNCHANGED exc
\* state->exc = NULL
TakeException == exc' = "none"

\* me_mruby_engine_get_exception takes state->exc; the one of `exit` is no
\* error, any other is described with guest code (to_s).
GetException ==
  /\ hpc = "get_exception" /\ TakeException
  /\ Goto(IF exc = "error" THEN "to_s" ELSE "return")
  /\ UNCHANGED <<hostErr, syncVars, stateVars, cpuTime, quotaErrorRaised,
                 instructionCount, torn, threadVars>>

\* An instruction of that guest code, on the host thread: the hook counts it
\* too, and what it raises is dropped in the end.
HostInstruction ==
  /\ hpc = "to_s" /\ HookPasses
  /\ instructionCount' = instructionCount + 1 /\ exc' \in Excs
  /\ UNCHANGED <<hostVars, syncVars, stateVars, cpuTime, quotaErrorRaised,
                 torn, threadVars>>

\* A quota is reached on the host thread.
HostQuota ==
  /\ hpc = "to_s"
  /\ \E e \in Quotas : QuotaReached(e) /\ HostLeave(e)

DescribeException ==
  /\ hpc = "to_s" /\ TakeException /\ hostErr' = "EngineRuntimeError"
  /\ Goto("return")
  /\ UNCHANGED <<syncVars, stateVars, cpuTime, quotaErrorRaised,
                 instructionCount, torn, threadVars>>

\* sandbox_eval returns or raises.
Return ==
  /\ hpc = "return" /\ hpc' = "idle"
  /\ result' = [result EXCEPT ![call] = hostErr]
  /\ UNCHANGED <<call, waitResult, hostErr>> /\ HostOnly

Armed == hpc \in {"rusage", "wait", "sleep", "reacquire", "check"}

\* The clock passes the deadline.
Tick ==
  /\ Armed /\ ~expired /\ expired' = TRUE
  /\ UNCHANGED <<hostVars, mutex, mutexLife, condLife, woken, stateVars,
                 engineVars, threadVars>>

HostStep ==
  \/ CallEval \/ Reject \/ Compile \/ CompileOutOfMemory \/ EvalStateInit
  \/ HostCallFails \/ LockMutex \/ CreateThread \/ ArmDeadline \/ SampleUsage \/ Wait
  \/ WakeBySignal \/ WakeByTimeout \/ WakeSpurious \/ Reacquire \/ CheckDone
  \/ RecordUsage \/ Unlock \/ Cancel \/ Join \/ Cleanup \/ GetException
  \/ HostInstruction \/ HostQuota \/ DescribeException \/ Return

------------------------------------------------------------------------------
(* The evaluator: mruby_engine_monitored_eval and its cleanup handler.      *)

EGoto(c, pc) == epc' = [epc EXCEPT ![c] = pc]

\* A call made before the script fails: pthread_exit runs the handler.
EvaluatorCallFails(c) ==
  /\ \/ epc[c] = "start"      /\ Fails("me_platform_get_stack_base")
     \/ epc[c] = "canceltype" /\ Fails("pthread_setcanceltype")
  /\ RecordErr /\ EGoto(c, "handler")
  /\ exiting' = exiting \cup {c}
  /\ UNCHANGED <<hostVars, syncVars, evalDone, engineVars, ecancel, pending,
                 completed>>

Start(c) ==
  /\ epc[c] = "start" /\ EGoto(c, "canceltype")
  /\ UNCHANGED <<hostVars, syncVars, stateVars, engineVars, ecancel, pending,
                 exiting, completed>>

\* Mutant: the script can only be cancelled at a cancellation point.
BecomeDeferred(c) == UNCHANGED ecancel
\* pthread_setcanceltype(PTHREAD_CANCEL_ASYNCHRONOUS)
BecomeAsync(c) == ecancel' = [ecancel EXCEPT ![c] = "async"]

SetCancelType(c) ==
  /\ epc[c] = "canceltype" /\ EGoto(c, "testcancel") /\ BecomeAsync(c)
  /\ UNCHANGED <<hostVars, syncVars, stateVars, engineVars, pending, exiting,
                 completed>>

\* pthread_testcancel lets the thread go on to the script.
TestCancel(c) ==
  /\ epc[c] = "testcancel" /\ c \notin pending /\ EGoto(c, "run")
  /\ UNCHANGED <<hostVars, syncVars, stateVars, engineVars, ecancel, pending,
                 exiting, completed>>

\* mruby_engine_code_fetch_hook lets an instruction of the script pass.
Instruction(c) ==
  /\ epc[c] = "run" /\ HookPasses
  /\ instructionCount' = instructionCount + 1 /\ exc' \in Excs
  /\ UNCHANGED <<hostVars, syncVars, stateVars, cpuTime, quotaErrorRaised,
                 torn, threadVars>>

\* The hook or the allocator calls me_mruby_engine_eval_leave, whose first
\* assignment is the error.
ReachQuota(c) ==
  /\ epc[c] = "run" /\ EGoto(c, "leave")
  /\ \E e \in Quotas : QuotaReached(e) /\ evalErr' = e
  /\ UNCHANGED <<hostVars, syncVars, evalDone, cpuTime, quotaErrorRaised, exc,
                 torn, ecancel, pending, exiting, completed>>

\* Its second assignment, and pthread_exit.
Leave(c) ==
  /\ epc[c] = "leave" /\ MarkSpent /\ torn' = TRUE
  /\ EGoto(c, "handler") /\ exiting' = exiting \cup {c}
  /\ UNCHANGED <<hostVars, syncVars, stateVars, cpuTime, instructionCount,
                 exc, ecancel, pending, completed>>

\* mrb_context_run returns: pthread_cleanup_pop runs the handler.
Finish(c) ==
  /\ epc[c] = "run" /\ EGoto(c, "handler") /\ exc' \in Excs
  /\ completed' = completed \cup {c}
  /\ UNCHANGED <<hostVars, syncVars, stateVars, cpuTime, quotaErrorRaised,
                 instructionCount, torn, ecancel, pending, exiting>>

TearScript(c) == torn' = IF epc[c] \in {"run", "leave"} THEN TRUE ELSE torn

\* An asynchronous cancellation.  It runs the handler, unless
\* pthread_cleanup_pop has already taken it off: then it ends the thread.
ActOnCancel(c) ==
  /\ c \in pending /\ ecancel[c] = "async" /\ c \notin exiting
  /\ Live(c)
  /\ EGoto(c, IF epc[c] \in InScript THEN "handler" ELSE "exited")
  /\ TearScript(c)
  /\ exiting' = exiting \cup {c}
  /\ UNCHANGED <<hostVars, syncVars, stateVars, cpuTime, quotaErrorRaised,
                 instructionCount, exc, ecancel, pending, completed>>

\* mruby_engine_monitored_eval_cleanup.
HandlerDisable(c) ==
  /\ epc[c] = "handler" /\ EGoto(c, "hlock")
  /\ \/ ecancel' = [ecancel EXCEPT ![c] = "disabled"] /\ UNCHANGED evalErr
     \/ /\ Fails("pthread_setcancelstate") /\ RecordErr
        /\ UNCHANGED ecancel
  /\ UNCHANGED <<hostVars, syncVars, evalDone, engineVars, pending, exiting,
                 completed>>

\* The result of pthread_mutex_lock is not looked at.
HandlerLock(c) ==
  /\ epc[c] = "hlock" /\ EGoto(c, "hdone")
  /\ \/ Acquire(c) /\ UNCHANGED evalErr
     \/ /\ Fails("pthread_mutex_lock") /\ RecordErr
        /\ UNCHANGED mutex
  /\ UNCHANGED <<hostVars, mutexLife, condLife, woken, expired, evalDone,
                 engineVars, ecancel, pending, exiting, completed>>

HandlerDone(c) ==
  /\ epc[c] = "hdone" /\ EGoto(c, "hunlock") /\ evalDone' = TRUE
  /\ UNCHANGED <<hostVars, syncVars, evalErr, engineVars, ecancel, pending,
                 exiting, completed>>

\* On an error of pthread_mutex_unlock the handler returns: no signal.
HandlerUnlock(c) ==
  /\ epc[c] = "hunlock"
  /\ \/ EGoto(c, "hsignal") /\ mutex' = Nobody /\ UNCHANGED evalErr
     \/ /\ Fails("pthread_mutex_unlock") /\ RecordErr
        /\ EGoto(c, "exited") /\ UNCHANGED mutex
  /\ UNCHANGED <<hostVars, mutexLife, condLife, woken, expired, evalDone,
                 engineVars, ecancel, pending, exiting, completed>>

\* Mutant: the signal is forgotten.
WakeNobody == UNCHANGED woken
\* pthread_cond_signal wakes the host if it sleeps.
WakeHost == woken' = IF hpc = "sleep" THEN TRUE ELSE woken

\* The thread ends.
HandlerSignal(c) ==
  /\ epc[c] = "hsignal" /\ EGoto(c, "exited")
  /\ \/ WakeHost /\ UNCHANGED evalErr
     \/ Fails("pthread_cond_signal") /\ RecordErr /\ UNCHANGED woken
  /\ UNCHANGED <<hostVars, mutex, mutexLife, condLife, expired, evalDone,
                 engineVars, ecancel, pending, exiting, completed>>

HandlerStep(c) ==
  HandlerDisable(c) \/ HandlerLock(c) \/ HandlerDone(c) \/ HandlerUnlock(c)
    \/ HandlerSignal(c)

EvaluatorStep(c) ==
  \/ EvaluatorCallFails(c) \/ Start(c) \/ SetCancelType(c)
  \/ TestCancel(c) \/ Instruction(c)
  \/ ReachQuota(c) \/ Leave(c) \/ Finish(c) \/ ActOnCancel(c)
  \/ HandlerStep(c)

\* The caller makes no more calls, or its thread is gone.
Rest ==
  /\ hpc = "dead" \/ (hpc = "idle" /\ call = MaxCalls)
  /\ UNCHANGED vars

Next == HostStep \/ Tick \/ Rest \/ \E c \in Calls : EvaluatorStep(c)

Spec == Init /\ [][Next]_vars

------------------------------------------------------------------------------
(* Fairness.  The kernel schedules both threads and the mutex does not      *)
(* starve either of them.  Nothing makes the guest's code end, in the       *)
(* evaluator or in to_s, and nobody has to call.                            *)

HostFairness ==
  /\ WF_vars(Compile) /\ WF_vars(EvalStateInit) /\ WF_vars(LockMutex)
  /\ WF_vars(CreateThread) /\ WF_vars(ArmDeadline) /\ WF_vars(SampleUsage)
  /\ WF_vars(Wait) /\ WF_vars(WakeBySignal) /\ WF_vars(WakeByTimeout)
  /\ SF_vars(Reacquire) /\ WF_vars(CheckDone) /\ WF_vars(RecordUsage)
  /\ WF_vars(Unlock) /\ WF_vars(Cancel) /\ WF_vars(Join) /\ WF_vars(Cleanup)
  /\ WF_vars(GetException) /\ WF_vars(Return)

EvaluatorFairness(c) ==
  /\ WF_vars(Start(c)) /\ WF_vars(SetCancelType(c))
  /\ WF_vars(TestCancel(c)) /\ WF_vars(Leave(c))
  /\ WF_vars(ActOnCancel(c)) /\ WF_vars(HandlerDisable(c))
  /\ SF_vars(HandlerLock(c)) /\ WF_vars(HandlerDone(c))
  /\ WF_vars(HandlerUnlock(c)) /\ WF_vars(HandlerSignal(c))

\* The clock may stand still: what a script that ends is owed by the signal.
FairSpec ==
  Spec /\ HostFairness /\ \A c \in Calls : EvaluatorFairness(c)

\* Assumed only where a property needs it.
ClockRuns == WF_vars(Tick)

------------------------------------------------------------------------------
(* Properties.                                                              *)

TypeOK ==
  /\ hpc \in HostPCs /\ hostErr \in Exceptions
  /\ call \in 0..MaxCalls /\ (hpc # "idle" => call \in Calls)
  /\ waitResult \in {"ok", "ETIMEDOUT"} /\ result \in [Calls -> Results]
  /\ mutex \in Calls \cup {Host, Nobody}
  /\ mutexLife \in {"raw", "live", "destroyed"}
  /\ condLife \in {"raw", "live", "destroyed"}
  /\ woken \in BOOLEAN /\ expired \in BOOLEAN
  /\ evalErr \in EvalErrs /\ evalDone \in BOOLEAN
  /\ cpuTime \in {Unmeasured, Measured, -ESRCH, 1}
  /\ quotaErrorRaised \in BOOLEAN /\ instructionCount \in 0..InstructionQuota
  /\ exc \in Excs /\ torn \in BOOLEAN
  /\ epc \in [Calls -> EvaluatorPCs]
  /\ ecancel \in [Calls -> {"deferred", "async", "disabled"}]
  /\ pending \subseteq Calls /\ exiting \subseteq Calls
  /\ completed \subseteq Calls

\* The handler of an evaluator never locks, unlocks or signals an object that
\* the host has destroyed or made anew: cleanup comes after the join.
EvaluatorsUseLiveSync ==
  \A c \in Calls :
    epc[c] \in {"hlock", "hdone", "hunlock", "hsignal"} =>
      c = call /\ mutexLife = "live" /\ condLife = "live"

\* No evaluator is left when the host compiles, takes the exception, runs
\* to_s, or has given control back to the caller, who may inject and extract:
\* two threads are never in one interpreter.
InterpreterExclusive ==
  hpc \in {"idle", "compile", "get_exception", "to_s", "return", "dead"} =>
    \A c \in Calls : ~Live(c)

\* pthread_getcpuclockid finds the thread alive: the host holds the mutex
\* that the evaluator needs to end.
CpuClockOfLiveThread == hpc = "rusage" => Live(call)

\* What a call reports is what happened: nil and EngineRuntimeError come from
\* a script that ran to its end, EngineInstructionQuotaError from a count
\* that is exactly the quota, EngineTimeQuotaError from a deadline that is
\* over.
VerdictIsEarned ==
  /\ \A c \in Calls :
       /\ result[c] \in {"nil", "EngineRuntimeError"} => c \in completed
       /\ result[c] = "EngineInstructionQuotaError" =>
            instructionCount = InstructionQuota
  /\ hostErr = "EngineTimeQuotaError" => expired

\* A call that ended with an instruction, memory or stack error is the last
\* one of the engine: check_quota_error_raised refuses every later one.
SpentEngineRefuses ==
  \A c \in Calls, d \in Calls :
    c < d /\ d <= call /\ result[c] \in QuotaErrors =>
      result[d] = "EngineQuotaAlreadyReached"

\* An engine is refused only after a call that some quota or some failing
\* system call ended.
RefusedOnlyWhenSpent ==
  \A d \in Calls : result[d] = "EngineQuotaAlreadyReached" =>
    \E c \in 1..(d - 1) :
      result[c] \in QuotaErrors \cup {"EngineTimeQuotaError",
                                      "EngineInternalError"}

\* The check at the start of every call lets in exactly the calls of an engine
\* that is not spent.
GateIsExact == SpentEngineRefuses /\ RefusedOnlyWhenSpent

\* A quota that was reached stays the verdict of the evaluation: no error of
\* the handler's pthread calls takes its place.
QuotaErrorSurvivesHandler ==
  quotaErrorRaised /\ hpc # "idle" => evalErr \in Quotas

\* The calls up to c have ended without a quota or an internal error.
CleanUpTo(c) ==
  \A d \in 1..c :
    result[d] \in {"nil", "EngineRuntimeError", "EngineSyntaxError"}

\* While every call has ended in nil, EngineRuntimeError or
\* EngineSyntaxError the engine is fit for use between calls: the interpreter
\* was never stopped inside a script, no exception is left in it and no quota
\* is marked.
FitAfterCleanCalls ==
  hpc = "idle" /\ CleanUpTo(call) =>
    ~torn /\ exc = "none" /\ ~quotaErrorRaised

\* sandbox_eval comes back, whatever the script does: unless guest code
\* stays in to_s on the host thread.
EvalReturns == ClockRuns => (hpc # "idle" ~> hpc \in {"idle", "to_s", "dead"})

\* A script that ends is noticed by the signal alone: with a clock that never
\* reaches the deadline the host still comes out of the wait, unless a system
\* call of the handler has failed.
CompletionWakesHost ==
  \A c \in Calls : (call = c /\ c \in completed) ~> hpc \notin
    {"rusage", "wait", "sleep", "reacquire", "check"}
    \/ evalErr = "SYSTEM_ERROR"

\* spec/mruby_engine_spec.rb: "raise EngineQuotaAlreadyReached if quota was
\* reached before", of every EngineQuotaError, EngineTimeQuotaError being one.
EveryQuotaRefuses ==
  \A c \in Calls, d \in Calls :
    c < d /\ d <= call
    /\ result[c] \in QuotaErrors \cup {"EngineTimeQuotaError"} =>
      result[d] = "EngineQuotaAlreadyReached"

\* spec/mruby_engine_spec.rb: "raises an EngineInstructionQuotaError when the
\* instruction quota is exceeded": a quota ends the call, not the caller.
QuotaIsReported == hpc # "dead"

------------------------------------------------------------------------------
(* The abstract specification.                                              *)

Phase == IF hpc \in {"idle", "dead"} THEN hpc ELSE "busy"
Sandbox == INSTANCE SandboxEval
  WITH phase <- Phase, spent <- (hpc = "idle" /\ quotaErrorRaised)

\* Two threads, a mutex, a condition variable and a cancellation keep the
\* promise of sandbox_eval.
ImplementsSandbox == Sandbox!Spec

------------------------------------------------------------------------------
(* The inductive invariant, in three layers.  It holds when no call of      *)
(* AbandoningCalls may fail.                                                *)

WithThread == {"clock", "rusage", "wait", "sleep", "reacquire", "check",
               "record", "unlock", "cancel", "join"}
Preparing == {"compile", "init", "lock", "create"}
AfterRun == {"handler", "hlock", "hdone", "hunlock", "hsignal", "exited"}

\* Only the evaluator of the current call lives, while the host holds its
\* pthread_t; it is cancelled only by a host that reports the time-out.
ThreadInv ==
  /\ \A c \in Calls : Live(c) => c = call /\ hpc \in WithThread
  /\ hpc \in WithThread => epc[call] # "none"
  /\ hpc \in {"lock", "create"} \cup WithThread =>
       mutexLife = "live" /\ condLife = "live"
  /\ hpc \in Preparing \cup WithThread => hostErr = "nil"
  /\ \A c \in pending : c <= call
  /\ hpc \in Preparing \cup (WithThread \ {"join"}) => call \notin pending
  /\ hpc = "cancel" => waitResult = "ETIMEDOUT"
  /\ hpc = "join" /\ call \in pending => waitResult = "ETIMEDOUT"
  /\ hpc = "cleanup" /\ call \in pending => hostErr = "EngineTimeQuotaError"

\* What the evaluator leaves behind, the error, the flag, or a script that
\* ran to its end, agrees with what the host makes of it.
VerdictInv ==
  /\ hpc \in Preparing => ~quotaErrorRaised
  /\ hpc \in {"lock", "create"} => evalErr = "NO_ERR"
  /\ \A c \in Calls : epc[c] = "leave" => evalErr \in Quotas
  /\ hpc \in WithThread \cup {"cleanup"} /\ evalErr \in Quotas =>
       quotaErrorRaised \/ epc[call] = "leave" \/ call \in pending
  /\ QuotaErrorSurvivesHandler
  /\ hpc \in WithThread /\ epc[call] \in AfterRun =>
       call \in completed \/ evalErr # "NO_ERR" \/ call \in pending
  /\ hpc = "cleanup" /\ hostErr = "nil" =>
       call \in completed \/ evalErr # "NO_ERR"
  /\ hpc = "cleanup" => hostErr \in {"nil", "EngineTimeQuotaError",
                                     "EngineInternalError"}
  /\ hpc \in {"get_exception", "to_s"} =>
       call \in completed /\ ~quotaErrorRaised /\ hostErr = "nil"
  /\ hpc = "return" =>
       /\ hostErr \in {"nil", "EngineRuntimeError"} => call \in completed
       /\ hostErr \in QuotaErrors => quotaErrorRaised
       /\ quotaErrorRaised =>
            hostErr \in QuotaErrors \cup {"EngineTimeQuotaError",
                                          "EngineInternalError"}
  /\ evalErr = "INSTRUCTION_QUOTA_REACHED" =>
       instructionCount = InstructionQuota
  /\ hostErr = "EngineInstructionQuotaError" =>
       instructionCount = InstructionQuota
  /\ hpc \in {"reacquire", "check", "record", "unlock", "cancel", "join"}
     /\ waitResult = "ETIMEDOUT" => expired

\* The results of the calls made so far agree with the flag.
HistoryInv ==
  /\ VerdictIsEarned /\ SpentEngineRefuses /\ RefusedOnlyWhenSpent
  /\ \A c \in Calls :
       c > call \/ (c = call /\ hpc # "idle") => result[c] = "pending"
  /\ (\E c \in Calls : result[c] \in QuotaErrors) =>
       hpc = "idle" /\ quotaErrorRaised
  /\ hpc = "idle" /\ quotaErrorRaised =>
       \E c \in 1..call :
         result[c] \in QuotaErrors \cup {"EngineTimeQuotaError",
                                         "EngineInternalError"}

IInv == TypeOK /\ ThreadInv /\ VerdictInv /\ HistoryInv

\* What CpuClockOfLiveThread rests on where the handler's lock cannot fail:
\* the host keeps the mutex from before the evaluator exists until it waits,
\* and nobody else unlocks it, so that the evaluator stops at the latest at
\* its handler's lock.
ClockInv ==
  /\ hpc \in {"create", "clock", "rusage", "wait", "check", "record", "unlock"}
       => mutex = Host
  /\ \A c \in Calls : epc[c] \in {"hdone", "hunlock"} => mutex = c
  /\ hpc \in {"clock", "rusage"} =>
       epc[call] \notin {"none", "hdone", "hunlock", "hsignal", "exited"}

\* What FitAfterCleanCalls rests on: after clean calls a script is only torn
\* by a quota or a cancellation of this call, which its verdict shows, and
\* the exception it leaves is taken out before a verdict that shows none.
FitInv ==
  /\ hpc = "idle" /\ CleanUpTo(call) => ~torn /\ exc = "none"
  /\ hpc \notin {"idle", "dead"} /\ CleanUpTo(call - 1) =>
       /\ hpc \in Preparing => ~torn /\ exc = "none"
       /\ hpc \in WithThread \cup {"cleanup"} /\ torn =>
            quotaErrorRaised \/ call \in pending
       /\ hpc \in {"get_exception", "to_s"} => ~torn
       /\ hpc = "return"
          /\ hostErr \in {"nil", "EngineRuntimeError", "EngineSyntaxError"} =>
            ~torn /\ exc = "none"
==============================================================================
