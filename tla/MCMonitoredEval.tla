--------------------------- MODULE MCMonitoredEval ---------------------------
(* Instances of MonitoredEval for TLC.                                      *)
EXTENDS MonitoredEval

\* Which system calls fail in a run.
NoFailures == {}
HandledFailures == Syscalls \ (AbandoningCalls \cup {"pthread_mutex_unlock"})
AbandoningFailures == AbandoningCalls \cup {"pthread_mutex_unlock"}
==============================================================================
