---------------------------- MODULE EngineObjects ----------------------------
(***************************************************************************)
(* The Ruby objects of the extension (ext.c): an MRubyEngine holds an      *)
(* engine inside a memory pool of its own (memory_pool.c), an              *)
(* InstructionSequence holds code that a short-lived engine has compiled   *)
(* (me_iseq_new).  What is hard is who owns a pool when an operation       *)
(* raises half way, and that initialize destroys before it looks at its    *)
(* arguments, whose conversion calls Ruby code of the caller.              *)
(*                                                                         *)
(* Every other method is one step: its arguments are strings, which need   *)
(* no code of the caller.  A pool is a mapping; an address that was        *)
(* unmapped may be mapped again.  That two Ruby threads are in one engine  *)
(* is left out.                                                            *)
(***************************************************************************)
EXTENDS Integers

CONSTANTS
  Engines, Sequences, \* the Ruby objects of the two classes
  Pools,       \* bound: addresses where pools are mapped
  Null,        \* DATA_PTR of an object without an engine or code
  PageSize,    \* sysconf(_SC_PAGE_SIZE)
  CapacityMin, CapacityMax, \* CAPACITY_MIN, CAPACITY_MAX
  CompileCapacity, \* COMPILE_MEMORY_CAPACITY
  Requests,    \* bound: the memory quotas that initialize is called with
  MaxNesting,  \* bound: initialize calls of one object within each other
  Monitored    \* ME_EVAL_MONITORED_P

ASSUME ObjectsAssumption ==
  /\ Engines \cap Sequences = {} /\ Null \notin Pools
  /\ MaxNesting \in Nat /\ Monitored \in BOOLEAN
  /\ PageSize \in Nat \ {0} /\ Requests \subseteq Nat \ {0}
  /\ CapacityMin \in Nat \ {0} /\ CapacityMax \in Nat
  /\ CompileCapacity \in Nat \ {0}

VARIABLES
  live,       \* the objects that the garbage collector has not taken
  ptr,        \* DATA_PTR of each MRubyEngine
  seq,        \* whether DATA_PTR of each InstructionSequence is set
  pool,       \* what is mapped at each address
  converting, \* initialize calls of each MRubyEngine in their arguments
  again,      \* history: some object was initialised a second time
  outcome     \* what the last operation raised

vars == <<live, ptr, seq, pool, converting, again, outcome>>

\* RubyError is an ArgumentError, a TypeError, a RangeError, or what Ruby
\* code of the caller raises when an argument is converted.
Outcomes ==
  {"ok", "RubyError", "EngineInternalError", "EngineSyntaxError",
   "EngineMemoryQuotaError", "EngineQuotaAlreadyReached", "EngineError",
   "dead", "null", "freed"}

\* A pool with its capacity, the capacity asked for, and whether there is an
\* engine in it.
States == {"bare", "fit", "spent"}
Unmapped == [capacity |-> 0, asked |-> 0, engine |-> "unmapped"]
PoolTypes == [capacity : Nat, asked : Nat, engine : States \cup {"unmapped"}]
HasEngine(p) == pool[p].engine \in {"fit", "spent"}

\* Mutant: a partial page is cut off.
RoundDown(capacity) == (capacity \div PageSize) * PageSize
\* round_capacity; PageSize is a power of two in the code.
RoundCapacity(capacity) ==
  IF capacity % PageSize = 0 THEN capacity
  ELSE (capacity \div PageSize) * PageSize + PageSize

ValidCapacity(capacity) ==
  RoundCapacity(capacity) \in CapacityMin..CapacityMax

NewPool(capacity, engine) ==
  [capacity |-> RoundCapacity(capacity), asked |-> capacity, engine |-> engine]

Init ==
  /\ live = {} /\ ptr = [o \in Engines |-> Null]
  /\ seq = [s \in Sequences |-> FALSE]
  /\ pool = [p \in Pools |-> Unmapped]
  /\ converting = [o \in Engines |-> 0] /\ again = FALSE /\ outcome = "ok"

\* Neither has the Ruby thread been ended, with the GVL held, nor NULL or
\* freed memory been read, which ends the process or is undefined.
Running == outcome \notin {"dead", "null", "freed"}

Raise(what) ==
  /\ outcome' = what
  /\ UNCHANGED <<live, ptr, seq, pool, converting, again>>

\* Mutant: the pool stays.
DestroyEngineOnly(p) == [pool EXCEPT ![p].engine = "bare"]
\* me_mruby_engine_destroy, me_memory_pool_destroy.
Destroyed(p) == [pool EXCEPT ![p] = Unmapped]

\* A quota is reached on the Ruby thread: me_mruby_engine_eval_leave.
Left == IF Monitored THEN "dead" ELSE "EngineMemoryQuotaError"

------------------------------------------------------------------------------
(* MRubyEngine.                                                             *)

\* Also what dup makes, before its initialize_copy, which copies nothing.
Allocate(o) ==
  /\ o \notin live /\ live' = live \cup {o} /\ outcome' = "ok"
  /\ UNCHANGED <<ptr, seq, pool, converting, again>>

\* Mutant: initialize does not free.
KeepEngine(o) == outcome' = "ok" /\ UNCHANGED pool
\* ext_mruby_engine_free of what DATA_PTR points at.
FreeEngine(o) ==
  \/ ptr[o] = Null /\ outcome' = "ok" /\ UNCHANGED pool
  \/ /\ ptr[o] # Null /\ HasEngine(ptr[o])
     /\ pool' = Destroyed(ptr[o]) /\ outcome' = "ok"
  \/ /\ ptr[o] # Null /\ ~HasEngine(ptr[o])
     /\ outcome' = "freed" /\ UNCHANGED pool

\* initialize frees first; DATA_PTR keeps the address.
InitializeFrees(o) ==
  /\ o \in live /\ converting[o] < MaxNesting /\ FreeEngine(o)
  /\ converting' = [converting EXCEPT ![o] = @ + 1]
  /\ again' = (again \/ ptr[o] # Null \/ converting[o] > 0)
  /\ UNCHANGED <<live, ptr, seq>>

Converted(o) ==
  /\ converting[o] > 0 /\ converting' = [converting EXCEPT ![o] = @ - 1]
  /\ UNCHANGED <<live, seq, again>>

\* Too few arguments, or one that is no number, or not above zero.
InitializeRefused(o) ==
  /\ Converted(o) /\ outcome' = "RubyError"
  /\ UNCHANGED <<ptr, pool>>

\* check_memory_pool_err: the capacity is out of bounds, or mmap fails.
PoolRefused(o) ==
  /\ Converted(o)
  /\ \/ (\E c \in Requests : ~ValidCapacity(c)) /\ outcome' = "RubyError"
     \/ (\E c \in Requests : ValidCapacity(c))
        /\ outcome' = "EngineInternalError"
  /\ UNCHANGED <<ptr, pool>>

\* Mutant: DATA_PTR is set before the engine is made.
SetFirst(o, p) == ptr' = [ptr EXCEPT ![o] = p]
\* DATA_PTR(rself) = engine comes last.
NotYet(o, p) == UNCHANGED ptr

\* me_mruby_engine_new: when the interpreter does not fit, its allocator
\* leaves, past me_memory_pool_destroy.
MakeEngine(o) ==
  /\ Converted(o)
  /\ \E c \in Requests, p \in Pools :
       /\ ValidCapacity(c) /\ pool[p] = Unmapped
       /\ \/ /\ pool' = [pool EXCEPT ![p] = NewPool(c, "fit")]
             /\ ptr' = [ptr EXCEPT ![o] = p] /\ outcome' = "ok"
          \/ /\ pool' = [pool EXCEPT ![p] = NewPool(c, "bare")]
             /\ NotYet(o, p) /\ outcome' = Left

\* ext_mruby_engine_check_initialized
CheckInitialized(o) == ptr[o] = Null /\ Raise("RubyError")

Fit(o) == ptr[o] # Null /\ pool[ptr[o]].engine = "fit"

\* The engine, or what is now at its address, runs a script or converts a
\* value: it may reach a quota, on the Ruby thread too.
UseEngine(o) ==
  /\ ptr[o] # Null
  /\ \/ ~HasEngine(ptr[o]) /\ Raise("freed")
     \/ pool[ptr[o]].engine = "spent" /\ Raise("EngineQuotaAlreadyReached")
     \/ Fit(o) /\ (Raise("ok") \/ Raise("RubyError") \/ Raise("EngineError"))
     \/ /\ Fit(o)
        /\ pool' = [pool EXCEPT ![ptr[o]].engine = "spent"]
        /\ outcome' \in {"EngineError", Left}
        /\ UNCHANGED <<live, ptr, seq, converting, again>>

\* sandbox_eval, inject, extract.
Call(o) == o \in live /\ (CheckInitialized(o) \/ UseEngine(o))

\* stat looks at no quota.
Stat(o) ==
  /\ o \in live
  /\ \/ CheckInitialized(o)
     \/ ptr[o] # Null /\ HasEngine(ptr[o]) /\ Raise("ok")
     \/ ptr[o] # Null /\ ~HasEngine(ptr[o]) /\ Raise("freed")

\* load_instruction_sequence reads through both pointers unasked, through
\* that of the code when the engine is fit.
Load(o, s) ==
  /\ o \in live /\ s \in live
  /\ \/ ptr[o] = Null /\ Raise("null")
     \/ Fit(o) /\ ~seq[s] /\ Raise("null")
     \/ (Fit(o) => seq[s]) /\ UseEngine(o)

\* ext_mruby_engine_free, when the object is swept.
Collect(o) ==
  /\ o \in live /\ converting[o] = 0 /\ live' = live \ {o} /\ FreeEngine(o)
  /\ ptr' = [ptr EXCEPT ![o] = Null] /\ UNCHANGED <<seq, converting, again>>

------------------------------------------------------------------------------
(* InstructionSequence.                                                     *)

SeqAllocate(s) ==
  /\ s \notin live /\ live' = live \cup {s} /\ outcome' = "ok"
  /\ UNCHANGED <<ptr, seq, pool, converting, again>>

\* The sources are no pairs of strings, or none, or mmap fails.
SeqRefused(s) ==
  /\ s \in live /\ (Raise("RubyError") \/ Raise("EngineInternalError"))

\* me_iseq_new returns, with the code or, when the dump failed, without: the
\* engine and its pool are gone.
SeqCompile(s) ==
  /\ s \in live /\ ValidCapacity(CompileCapacity)
  /\ \/ seq' = [seq EXCEPT ![s] = TRUE] /\ outcome' = "ok"
     \/ UNCHANGED seq /\ outcome' = "EngineInternalError"
  /\ UNCHANGED <<live, ptr, pool, converting, again>>

\* generate_code failed: me_host_raise leaves me_iseq_new, and nobody
\* destroys the engine and the pool.  So does a quota.
SeqAbandon(s) ==
  /\ s \in live /\ ValidCapacity(CompileCapacity)
  /\ \E p \in Pools :
       /\ pool[p] = Unmapped
       /\ \/ /\ pool' = [pool EXCEPT ![p] = NewPool(CompileCapacity, "fit")]
             /\ outcome' \in {"EngineSyntaxError", "EngineInternalError"}
          \/ /\ \E e \in {"bare", "spent"} :
                  pool' = [pool EXCEPT ![p] = NewPool(CompileCapacity, e)]
             /\ outcome' = Left
  /\ UNCHANGED <<live, ptr, seq, converting, again>>

\* size, data, hash.
SeqRead(s) == s \in live /\ Raise(IF seq[s] THEN "ok" ELSE "null")

SeqCollect(s) ==
  /\ s \in live /\ live' = live \ {s} /\ seq' = [seq EXCEPT ![s] = FALSE]
  /\ outcome' = "ok" /\ UNCHANGED <<ptr, pool, converting, again>>

------------------------------------------------------------------------------
EngineStep(o) ==
  \/ Allocate(o) \/ InitializeFrees(o) \/ InitializeRefused(o)
  \/ PoolRefused(o) \/ MakeEngine(o) \/ Call(o) \/ Stat(o) \/ Collect(o)

SequenceStep(s) ==
  \/ SeqAllocate(s) \/ SeqRefused(s) \/ SeqCompile(s) \/ SeqAbandon(s)
  \/ SeqRead(s) \/ SeqCollect(s)

Rest == ~Running /\ UNCHANGED vars

Next ==
  \/ /\ Running
     /\ \/ \E o \in Engines : EngineStep(o)
        \/ \E s \in Sequences : SequenceStep(s)
        \/ \E o \in Engines, s \in Sequences : Load(o, s)
  \/ Rest

Spec == Init /\ [][Next]_vars

------------------------------------------------------------------------------
TypeOK ==
  /\ live \subseteq Engines \cup Sequences
  /\ ptr \in [Engines -> Pools \cup {Null}] /\ seq \in [Sequences -> BOOLEAN]
  /\ pool \in [Pools -> PoolTypes]
  /\ converting \in [Engines -> 0..MaxNesting]
  /\ again \in BOOLEAN /\ outcome \in Outcomes

\* As long as initialize is called once on each object, every DATA_PTR is
\* NULL or the address of an engine that no other object has, whatever is
\* refused, cut short, collected or mapped anew.
EnginesAreOwned ==
  ~again =>
    \A o \in Engines :
      ptr[o] # Null =>
        /\ o \in live /\ converting[o] = 0 /\ HasEngine(ptr[o])
        /\ \A q \in Engines \ {o} : ptr[q] # ptr[o]

\* No method, nor the garbage collector, reads an engine or a pool that is
\* gone, unless initialize has been called again on an object.
NoUseAfterFree == outcome = "freed" => again

\* "handles unaligned capacity": a pool is whole pages within the limits, has
\* what was asked for, and less than a page more.
CapacityFits ==
  \A p \in Pools :
    pool[p].engine # "unmapped" =>
      /\ pool[p].capacity % PageSize = 0
      /\ pool[p].capacity \in CapacityMin..CapacityMax
      /\ pool[p].asked \in (pool[p].capacity - PageSize + 1)..pool[p].capacity

Lost == {p \in Pools : pool[p].engine # "unmapped"
                        /\ \A o \in Engines : ptr[o] # p}

LossReported ==
  outcome \in {"EngineSyntaxError", "EngineInternalError", Left}

\* A pool is only lost, for as long as the process lives, by an operation
\* that reports an error of the compiler or an exhausted pool.
LossIsReported ==
  [][~again' /\ Lost' # Lost => Lost \subseteq Lost' /\ LossReported']_vars

\* An object in initialize is on the stack of its caller, and while initialize
\* has been called once on each object, it is so once, without an engine.
ConversionsAreLive ==
  \A o \in Engines :
    converting[o] > 0 => o \in live /\ (~again => converting[o] = 1)

\* The inductive invariant of PoolsProofs.
IInv == TypeOK /\ EnginesAreOwned /\ ConversionsAreLive
==============================================================================
