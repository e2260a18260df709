----------------------------- MODULE SandboxEval -----------------------------
(***************************************************************************)
(* What MRubyEngine#sandbox_eval promises its caller, whatever the way the *)
(* platform runs the script (eval_monitored.c, eval_unmonitored.c): a call *)
(* ends with one verdict; an instruction, memory or stack quota spends the *)
(* engine, and a spent engine refuses every later call.  A quota reached   *)
(* on the caller's own thread ends that thread (phase "dead").             *)
(***************************************************************************)
EXTENDS Integers

CONSTANT MaxCalls  \* bound: how many calls the caller makes

VARIABLES
  phase,   \* "idle", "busy" in a call, or "dead"
  call,    \* the current or last call
  result,  \* what each call ended with
  spent    \* the engine refuses calls; FALSE while busy

vars == <<phase, call, result, spent>>

Spending == {"EngineInstructionQuotaError", "EngineMemoryQuotaError",
             "EngineStackExhaustedError"}
Clean == {"nil", "EngineRuntimeError", "EngineSyntaxError"}
\* The evaluation was cut short by the clock or by a failing system call: a
\* quota may have been reached as well.
Unsettled == {"EngineTimeQuotaError", "EngineInternalError"}

Init ==
  /\ phase = "idle" /\ call = 0 /\ spent = FALSE
  /\ result = [c \in 1..MaxCalls |-> "pending"]

Begin ==
  /\ phase = "idle" /\ call < MaxCalls /\ ~spent
  /\ phase' = "busy" /\ call' = call + 1
  /\ UNCHANGED <<result, spent>>

Refuse ==
  /\ phase = "idle" /\ call < MaxCalls /\ spent
  /\ call' = call + 1
  /\ result' = [result EXCEPT ![call + 1] = "EngineQuotaAlreadyReached"]
  /\ UNCHANGED <<phase, spent>>

End(verdict) ==
  /\ phase = "busy" /\ phase' = "idle"
  /\ result' = [result EXCEPT ![call] = verdict]
  /\ \/ verdict \in Spending /\ spent' = TRUE
     \/ verdict \in Clean /\ spent' = FALSE
     \/ verdict \in Unsettled /\ spent' \in BOOLEAN
  /\ UNCHANGED call

Die == phase = "busy" /\ phase' = "dead" /\ UNCHANGED <<call, result, spent>>

Next ==
  \/ Begin \/ Refuse \/ Die
  \/ \E verdict \in Spending \cup Clean \cup Unsettled : End(verdict)

Spec == Init /\ [][Next]_vars
==============================================================================
