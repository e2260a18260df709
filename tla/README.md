# A verification project for mruby-engine

mruby-engine embeds an mruby interpreter in a Ruby process and runs scripts in
it under four quotas: memory, instructions, stack and time. This directory holds
TLA+ modules for the parts of it where threads, ownership, memory and arithmetic
are hard to test, the TLC configurations that check them on small instances, and
proofs for every value of the constants.

- [The system](#the-system)
- [The modules and how they correspond to the code](#the-modules)
- [The runs](#the-runs)
- [Fairness](#fairness)
- [What is proved](#what-is-proved)
- [What is only model-checked](#what-is-only-model-checked)
- [Where code and documentation disagree](#where-code-and-documentation-disagree)
- [What is not modelled](#what-is-not-modelled)
- [The plan](#the-plan)

Paths below are relative to `src/ext/mruby_engine/`.

## The system

| Component | State | Operations | What makes it correct |
|---|---|---|---|
| monitored evaluation, `eval_monitored.c` (Linux) | `eval_state`: mutex, condition, deadline, error, `eval_done_p`, stack base | host: initialise, create the evaluator, wait, cancel, join, clean up; evaluator: run, leave at a quota, cancellation handler | the host always comes back; it reports what happened; nobody touches a destroyed mutex; one thread at a time in the interpreter |
| unmonitored evaluation, `eval_unmonitored.c` (other platforms) | `state->jmp`, `state->exc` | run on the Ruby thread; raise through the interpreter at a quota | no later call runs with the jump buffer of a dead frame |
| engine core, `mruby_engine.c` | `struct me_mruby_engine`: interpreter, pool, quotas, counters, `quota_error_raised` | construction, fetch hook, allocator hook, compile, evaluate, describe the guest's exception, inject, extract, instruction sequences | a quota ends the call, and the engine afterwards refuses; clean calls leave a clean interpreter |
| Ruby extension, `ext.c`, `lib/mruby_engine.rb` | the `DATA_PTR` of each `MRubyEngine` and `InstructionSequence` | allocate, initialize, free, `sandbox_eval`, `load_instruction_sequence`, `inject`, `extract`, `stat` | an object owns its engine; uninitialised or spent objects refuse |
| host bridge, `host.c` | none | builds Ruby exceptions, releases the GVL, raises | an exception carries the guest's class, message and backtrace |
| memory pool, `memory_pool.c` | one mapping and a dlmalloc space in it | create, allocate, reallocate, free, destroy | sizes are whole pages within the limits; nothing is taken beyond the capacity |
| value marshalling, `value_host.c`, `value_guest.c` | none | convert strings, numbers, symbols, arrays, hashes both ways, to a depth | a round trip is the identity if all text is UTF-8; a failure half way leaves no trace |
| guest Time, `mruby-time/` | per object a block with seconds, microseconds, zone and broken-down time | make, copy, change zone, add, subtract, compare, collect | arithmetic agrees with instants; every block has one owner |
| guest Decimal, `mruby-mpdecimal/src/ext.c` | per object an `mpd_t`; one context | make, arithmetic, round, compare, hash, to text | equal numbers are equal hash keys; a number survives its text |
| libmpdec numbers, `mpdecimal.c`, `mpsignal.c`, `io.c`, `context.c` | a context with status and traps | arithmetic, roots, powers, comparison, logic, text and formats | every result is the exact one rounded once |
| libmpdec words, `basearith.c`, `typearith.h`, `crt.c`, `fourstep.c` and others | arrays of words | sums, quotients, shifts, three ways to multiply, other bases | no carry is lost; the ways to multiply agree |
| libmpdec memory, `mpalloc.c`, `memory.c` | | allocation functions | the guest's, which never return without memory |
| `dlmalloc.c` | one `malloc_state` in each pool: top, bins, tries, maps | malloc, realloc, free on an mspace | chunks tile the pool, blocks keep their data, NULL only when nothing fits |
| mruby | | | external: an interpreter that calls the two hooks |
| platform, `platform_*.c` | none | stack base, `strerror` | |
| native tests, `*_test.c` | | | |

**How the parts interact.** A Ruby thread calls `sandbox_eval` in the extension,
which checks `quota_error_raised`, compiles in the engine's interpreter and hands
the code to one of the two evaluations. On Linux the evaluation releases the
GVL, starts an evaluator thread and sleeps on a condition variable. The
evaluator and the host share the interpreter, the pool and `eval_state`. The
interpreter calls back into the engine through two hooks: the fetch hook before
each instruction, the allocator for each block. Either hook may call
`me_mruby_engine_eval_leave`, which ends the evaluator with `pthread_exit`, or on
other platforms raises a Ruby exception through the interpreter's frames. When
the evaluator has ended, the host translates the recorded error, or takes the
guest's exception out of the interpreter and describes it by running guest code
again (`to_s`) on the Ruby thread. Every block of the interpreter, of a Time, a
Decimal and of libmpdec comes from the pool's mspace; a NULL from it is the memory
quota, which never returns to whoever asked.

**What is hard.** Completion, quota, deadline and cancellation race with each
other. Cancellation is asynchronous, so the evaluator may stop between any two
instructions. Every pthread call may fail and the first error must win. The
clock is read of a thread that may be gone. The same hooks run on two kinds of
thread. In the unmonitored build a long jump leaves stale pointers behind. In `ext.c`,
`initialize` destroys before it checks, and the checks may run code of the
caller; the compiler of instruction sequences raises past its own cleanup. In
`time.c`, operations raise between an allocation and the moment something owns
it, and doubles are cut towards zero. `inject` stops half way through nested
values, and the guest's constructors report failure through an exception that may
be an older one. dlmalloc keeps what is free in three ways at once, in the words
that are free. libmpdec guesses digits, cuts operands off and relies on carries
that overflow a word. `PROJECT.json` lists each hazard at its
line, with the properties aimed at it or the reason there is none yet.

## The modules

| Module | What it is |
|---|---|
| `SandboxEval` | the abstract specification: what `sandbox_eval` promises a caller |
| `MonitoredEval` | host and evaluator threads of `eval_monitored.c`, with the hooks and error translation of `mruby_engine.c` and the gate of `ext.c` |
| `MCMonitoredEval` | which system calls fail in which run |
| `MonitoredEvalProofs` | its theorems: invariant and refinement; what rests on the whole history |
| `UnmonitoredEval`, `UnmonitoredEvalProofs` | the evaluation without a thread, and its theorems |
| `Calendar` | `timegm` of `time.c` against the Gregorian calendar |
| `EngineObjects` | the Ruby objects of `ext.c`, their engines and pools |
| `GuestTime`, `MCGuestTime` | the Time objects of a script, and values for TLC |
| `ValueMarshal`, `MCValueMarshal` | `inject` and `extract`: nested values copied into the guest and back |
| `GuestProofs` | theorems about the blocks of Time objects, their order, sums and dates, about `Calendar`, and about copies of values of every shape |
| `NatRecursion` | induction as a property of sets, that recursive functions, descents and walks exist, and quotients |
| `MCGuest` | Time, dates and values as one instance |
| `MSpaceLimit` | sizes of dlmalloc, the limit of a pool and what malloc does when nothing fits |
| `MSpaceChunks`, `MSpaceBins`, `MSpace` | dlmalloc in a pool: words and chunks; bins and tries; the three calls |
| `MSpaceBinsProofs` | theorems about the limit, the tries, their order and what bins hold |
| `PoolsProofs` | theorems about engines and their pools, the three calls, the blocks of a pool and what malloc finds |
| `MCPools` | `EngineObjects` and `MSpace` as one instance, with pools that have a history |
| `MpdNumber` | decimals and contexts of libmpdec, and the operations every other one uses |
| `MpdArith`, `MpdLogic`, `MpdPower`, `MpdText` | its arithmetic; digits; roots and powers; text and formats |
| `MpdCalls` | a context and the functions called with it |
| `MpdExact` | exact results as fractions, and what rounding one of them once means |
| `MpdCorrect` | what those functions promise, by `MpdExact` |
| `GuestDecimal` | the Decimals of a script over that library |
| `DecimalProofs` | theorems about those Decimals, and about rounding, sums, products and quotients of the library |
| `CallProofs` | theorems about every call of the library |
| `MpdWords`, `MpdTransform`, `MpdProduct`, `MpdWordCalls` | arrays of words; transforms modulo primes; products; the functions called |
| `MCDecimal` | the three parts of the decimal library as one instance |

`MonitoredEval` and `UnmonitoredEval` each instantiate `SandboxEval` with a
refinement mapping and implement it. `MCGuest`, `MCPools` and `MCDecimal` put
parts side by side that share no state: the variable `part` says which one a
behaviour is about, the others keep their first state.

### SandboxEval

State: a phase (idle, busy, dead), the number of the call, the results so far,
and whether the engine is spent. A call begins unless the engine is spent, and
ends with one verdict. An instruction, memory or stack error spends the engine;
nil, a runtime error or a syntax error never does; a time-out or internal error
may have cut a quota short, so either is allowed. A spent engine refuses every
call. A quota reached on the caller's own thread may end that thread, which is
what the code does and `host_quota` shows.

### MonitoredEval

One engine makes `MaxCalls` calls, one after the other. The evaluator of call
`c` is thread `c`, the host is thread 0.

| Variables | Code |
|---|---|
| `hpc`, `call`, `waitResult`, `hostErr`, `result` | the position in `ext_mruby_engine_eval` and `me_mruby_engine_eval`, `wait_result`, `*err`, and what each call ended with |
| `mutex`, `mutexLife`, `condLife`, `woken`, `expired` | `eval_state.mutex` and `.cond`, their initialisation, a delivered signal, the clock being past `.deadline` |
| `evalErr`, `evalDone` | `eval_state.err.type`, `eval_state.eval_done_p` |
| `cpuTime`, `quotaErrorRaised`, `instructionCount`, `exc` | the fields of the engine, and `state->exc` |
| `epc`, `ecancel`, `pending`, `exiting` | each evaluator's position, its cancelability, requests, and unwinding |
| `completed`, `torn` | history: scripts that ran to their end; the interpreter was stopped inside one |

A step is one pthread call with the assignments that follow it. `hpc` names the
call the host is about to make: `lock`, `create`, `clock` (`ArmDeadline`),
`rusage`, `wait`, `sleep`, `reacquire`, `check` (the `while` condition),
`record`, `unlock`, `cancel`, `join`, `cleanup`. `pthread_cond_timedwait` is
three steps: release and sleep in one, wake (by a signal, the deadline, or for
no reason), and take the mutex again. `HostCallFails` is the `goto cleanup` of
every failing call. The evaluator goes through `Start`, `SetCancelType`,
`TestCancel`, instructions, and then one of: `Finish`; `ReachQuota` and `Leave`,
the two assignments of `me_mruby_engine_eval_leave`, between which cancellation
may strike; or `ActOnCancel`. All end in the handler (`HandlerDisable` to
`HandlerSignal`).

Data is abstracted. A script is any sequence of instructions, each may leave any
of no exception, the one of `exit`, or another; it may end, or find a quota
reached, at any instruction. The stack check runs only on calls and so is a
choice. The context-switch counters are left out; `cpuTime` tells a reading from
an error. `MayFail` is the set of system calls that may return an error.

### UnmonitoredEval

`hpc` walks through the same call, on one thread. `state->jmp` is null, in a live
frame, or in a dead one: `EnterParser`, `GenerateCode` and `CallToS` set it, the
matching ends restore it, and `EvalLeave`, the Ruby exception out of a hook,
kills the frame and leaves the pointer. There is no clock and no stack check.

### EngineObjects

`live` is the set of Ruby objects the garbage collector has not taken, `ptr` and
`seq` are their `DATA_PTR`s (of an InstructionSequence only whether it is set),
`pool` is what is mapped at each address: a capacity, the capacity that was asked
for, and an engine that is fit or spent, or none. `converting` counts the
`initialize` calls of an object that have freed the old engine and not yet
returned, `outcome` is what the last operation raised, and `again` remembers that
`initialize` was called on an object a second time.

| Action | Code |
|---|---|
| `Allocate`, `Collect` | `ext_mruby_engine_alloc`, the sweep |
| `InitializeFrees`, then `InitializeRefused`, `PoolRefused` or `MakeEngine` | `ext_mruby_engine_initialize`, cut after the free: converting the time quota calls `*` of the caller's object, which may do anything, also call `initialize` |
| `Call` | `sandbox_eval`, `inject` and `extract`: the two gates, then the engine runs |
| `Load` | `load_instruction_sequence`, which has no gate for NULL |
| `Stat` | `stat`, which has no gate for a quota |
| `SeqAllocate`, `SeqRefused`, `SeqCompile`, `SeqAbandon`, `SeqRead`, `SeqCollect` | the methods of InstructionSequence; `SeqAbandon` is the syntax error that leaves `me_iseq_new` |

`Left` is what becomes of a quota on the Ruby thread: in the unmonitored build an
exception, in the monitored build the end of that thread with the GVL held, after
which nothing runs. The run takes the first, where more can follow; the proofs
take both. `null` and `freed` stand for a read through NULL and of memory that is
gone; the model stops there. What a call does inside an engine is one choice of
outcome, since `MonitoredEval` and `UnmonitoredEval` have the detail. That a
second `initialize` of an InstructionSequence loses the code of the first, and
whether another Ruby thread is inside an engine that is freed, are left out.

### Calendar

The variables are a date and the number of days since the epoch. `NextDay` walks
the calendar by the rule it is printed by; `Timegm` are the two loops of the
code, as the recursive functions `DaysOfYears` and `DaysOfMonths`. A walk begins
with the days before `FirstYear` counted by `NewYear`, the rule of leap years in
closed form. Times of day add linearly and are left out.

### GuestTime

`live` is the set of objects not collected, `ptr` is each one's `DATA_PTR`,
`heap` is what each block holds. There is one action per operation: `At`, `Utc`,
`Plus`, `MinusFloat`, `GetUtc`, `UtcInPlace`, `Allocate`, `Initialize`,
`InitializeCopy`, `Collect`, and `UseUninitialized` for `time_get_ptr`.
`TimeOf` is `time_alloc`: `InRange` are its tests, `Truncate` the cast to
`time_t`, `Llround` its rounding, `Carry` its two loops. `Wrap` is the gap
between filling a block and owning it, where `time_update_datetime` may raise.

A double is an integer number of half microseconds, exact, so that rounding has
ties. The broken-down time is the one second its fields stand for, or nothing
when a failed `gmtime_r` may have written some fields.

### ValueMarshal

`ivar` is one variable of the guest, `exc` is `state->exc`, `rude` says that a
script has redefined `hash` of Array and Hash to raise. `outcome` is what the last
call did, `given` the value that was injected last, until a script assigns.
Values are leaves and arrays and hashes of values, nested up to `MaxNesting` times
(`NestedIn`), or a container that contains itself. `ToGuest` is the recursion of
`value_host.c` and `ToHost` that of `value_guest.c`, functions from a depth to
what a copy at that depth does with each value, each with its own test of the
depth and its own order of tests. `UnlessFailed` is the early return of every loop
over elements or pairs, `Associated` the hash that comes of setting one pair after
the other. Constructors ask whether there is an exception and take an older one
for their own, so `GuestCopy` says which exception it leaves. `Script` is any
assignment, `Inject` and `Extract` the two calls.

Strings and symbols of the host have an encoding, which `me_value_to_guest_r` drops;
`me_value_host_string_new` and `me_value_host_symbol_new` call whatever comes back
UTF-8. A string or a symbol of another encoding that is not ASCII therefore comes
back as a different one, and interning a symbol whose bytes are not valid UTF-8
raises Ruby's EncodingError instead (`HostString`, `HostSymbol`, `HostCopy`); a
script can make such a symbol too. `InjectedComesBack` speaks of the values it can be
true of: strings in UTF-8, symbols in UTF-8 or, as Ruby has those of ASCII text,
in US-ASCII.

What `mrb_hash_get` does during `extract` when scripts have redefined `hash` is not
modelled: mruby is not in the repository.

### MSpace

`space` is a pool: `word` is what each word of it holds, head and foot of a chunk,
a link of a free one, a data word with its owner and index, or anything; besides
it the fields of `malloc_state`: `dv`, `top`, `smallbins`, `treebins`, the two maps
and the footprint. `blocks` is what the interpreter holds. A list or a ring of equal
chunks is the sequence in the order of `fd`; a trie is a function from paths to
rings, so that a node's place can be compared with the bits of its size. The three
actions are `me_memory_pool_malloc`, `_realloc` and `_free`: a block is written by
its owner when it is given out, and freed words become anything.

The operators return the space after a call. `MspaceMalloc` goes through the cases
of `mspace_malloc` in their order: small bins, `TmallocSmall`, `dv`, `TmallocLarge`,
`top`, and `SysAlloc`, which in a pool with a footprint limit gets nothing.
`DisposeChunk` is the coalescing that `mspace_free` and the tail of `realloc`
share, `SysTrim` what happens to a large top, `TryReallocChunk` the four ways to
grow in place. Sizes are in words and wrap at `SizeBits`. The layout is that of a
64-bit build. The operators were compared with the compiled `dlmalloc.c` on a dozen
random sequences of 40 to 300 calls with the real constants (shift 5, 32 bins, a
state of 118 words): every address is the same.

### The decimal library

A decimal is a kind, a sign, a coefficient and an exponent. An operation of
`MpdArith`, `MpdLogic` and `MpdPower` returns a decimal and the flags it adds, as
the `mpd_q*` functions do, and follows the code to the point where it hands the
rest to `mpd_qfinalize`: the stand-in for an operand that is too small to matter,
the guard digits of a quotient, the exponent that is shifted, the order in which
special operands are looked at. `Finalize` is rounding, overflow, underflow and
clamping as the code orders them. `MpdText` reads and writes a text as what its
grammar makes of it, not as bytes. `MpdCalls` has the context: `mpd_init`, traps,
the status that accumulates, and `Call`, one function of `mpsignal.c` with its
operands.

`MpdExact` shares nothing with this: it says with fractions of whole numbers what
the exact result is and what rounding it once gives. `MpdCorrect` states with it what
each function promises.

`GuestDecimal` has the variables of a script. `New`, `Initialize`, `BinOp` and
`UnaryOp` are the methods that make a decimal, `Answer` and the operators beside it
those that answer with something else. Where the library reports more than that a
result was rounded, the method raises. `Blank` is the decimal without digits that
`initialize` leaves when `to_s` of its argument raises.

`MpdWords` has the arrays of words, with `UintMax` the largest word: sums wrap, and
a carry is found as the code finds it. `MpdTransform` is arithmetic modulo a prime,
the transforms of 2^n, of a matrix of 2^n and of 3 * 2^n words, and the Chinese
remainder. `MpdProduct` chooses between products by rows, by Karatsuba's halves in
one block of memory computed beforehand, and by transforms. `MpdWordCalls` is one
call of any of them.

## The runs

| Run | Instance | What it asks |
|---|---|---|
| `monitored_eval` | 3 calls, 2 instructions, nothing fails | exclusion in the interpreter; the clock is asked of a live thread; clean calls leave a fit engine |
| `monitored_failures` | 2 calls, 1 instruction, every call may fail whose error is handled without abandoning the evaluator | live synchronisation objects, an exact gate, first error wins, and the refinement of `SandboxEval` |
| `monitored_abandoned` | 2 calls, 1 instruction, the abandoning calls and the handler's unlock may fail | the verdict is still earned when the host gives up on a running evaluator |
| `monitored_liveness` | 1 call, 1 instruction, handled failures, fairness | the signal alone wakes the host; with a clock, `sandbox_eval` returns |
| `unmonitored_eval` | 3 calls, 2 instructions, fairness | no dead jump, clean between calls, refinement, and every call returns |
| `guest` | 2 objects, 2 blocks, 2 microseconds to the second; every day from 1970 to 2101; values nested up to 3 levels or without end, with 2 allowed | ownership of Time blocks, order, subtraction, current dates, lost blocks; `timegm` counts the days; round trips, nesting, failures that leave no trace |
| `pools` | 2 engines, 1 sequence, 2 addresses, 4 quotas, pages of 4; five pools with a history, 3 calls, 6 sizes | one owner per engine, no use after free, whole pages, no silent loss; well-formed heap, blocks keep their data, the pool never grows, NULL only when nothing fits, the best fit |
| `decimal` | words of 4 digits, precision 2, exponents from -2 to 2, every rounding mode | ten questions about words, products, rounding, remainders, order, powers, texts, formats, hashes |
| `time_quota_spends`, `host_quota`, `calendar_before_epoch`, `guest_time_range` | small | each finds the disagreement below |

The properties of `decimal`: `WordsAreNumbers` and `ProductsAgree` compare the
functions on words with columns that carry once at the end; `CorrectlyRounded`,
`QuotientAndRemainder`, `OrderIsSound` and `PowersAreFaithful` compare operations
with exact fractions; `TextComesBack` and `FormatShowsTheNumber` compare texts with
the numbers they show; `EqlMeansSameHash` and `TextMakesItAgain` are about the
guest's objects.

**Why the bounds are enough.** The code keeps nothing from one call to the next
but the flag, the count, `state->exc`, and the reused `eval_state`. Two calls
show every effect of one on the next; three let a refused, a failed and a clean
call meet. An instruction quota of 2 has a call that uses part of it, and of 1
is reached by the first instruction; only the distance to the quota matters.
The proofs drop both bounds. 1970 to 2102 has every kind of year but those of
1900, 2200 and 2300, which follow the same rule as 2100. In `GuestTime` two
objects are what sharing and copying need, and a third could only repeat one;
the doubles have both signs, every remainder of a second, ties, and values past
both ends of the range. Exhausted blocks disable an operation there: what
exhausted memory does to a call is in the two evaluations. In `EngineObjects` two
engines and two addresses are what it takes for a stale pointer to reach the
engine of another object; the four quotas are just below a page, above one, in
the last page allowed, and past the limit; `MaxNesting` of 2 is one `initialize`
within another.

In `ValueMarshal` nesting of three levels under a limit of two leaves room for
values that are allowed, just too deep, and without end, and every kind of leaf and
container is at each level, alone and behind an element that copies; the
encodings are the two that come back and another. Three texts stand for all, one of
ASCII, one of UTF-8 besides, and bytes that are neither, since nothing else is asked
of a text. The proofs drop these bounds. In `MSpace` a treebin shift of 3 makes
everything below eight words small and leaves four treebins, any of which a pool
of a hundred words can fill; the sizes asked for are the smallest chunk, both small
bins, one of the first treebin, two of the third, and more than the pool or a
size can hold. Three calls from an empty pool reach little, so four more pools have a history: small bins
with an almost full top, a ring of three chunks of one size, a trie of four sizes
with an inner node, and the last bin. From each, three calls split, join, replace a
node and put back; three is also the shortest sequence in which a free, a free of its
neighbour and a request meet.

A word of four decimal digits in fourteen bits has what the real one of nineteen
digits in 64 bits has: twice the radix is more than a word holds. The three primes
are just below 2^14, congruent to 1 modulo 32, and ordered as the code's. A
precision of two with exponents up to two has overflow, underflow, subnormal
numbers, clamping and ties at every turn; operands lie at these limits and beyond,
with every special value. The lengths at which products and transforms change
their method are scaled down until lists of up to 30 words pass each of them.

`Calendar` stops after `LastYear`, so the runs that have it, `guest` too, do not
look for deadlock. A script of `decimal` stops after four calls. In
`monitored_abandoned` an unlock that fails leaves the mutex with a dead owner,
and the host may wait for it for ever: a real stop, so that run does not look for
deadlock either. Every other run does, and `pools` rests after its calls; `Rest`
marks the states where the caller has no more calls to make.

## Fairness

`FairSpec` of `MonitoredEval` asks weak fairness of each host and evaluator step
that needs only the processor, and strong fairness of the two that take the
mutex after the first time, since the kernel's futex does not starve a waiter
for ever. It asks nothing of the guest's instructions, of `Finish` or of `to_s`:
a script may loop. It asks nothing of the clock, so that `CompletionWakesHost`
shows the signal alone suffices; `EvalReturns` states its own assumption,
`ClockRuns`. `EvalReturns` admits `to_s`, where guest code runs with no
clock, and `dead`. A failing `pthread_mutex_unlock` in the handler is left out of
the failures of that run: it leaves the mutex locked by a thread that ends.

`FairSpec` of `UnmonitoredEval` is weak fairness of the call in progress as a
whole: the thread runs, and each single instruction ends. That every script then
ends is the work of the instruction quota.

## What is proved

The proofs hold for every instruction quota and number of calls
(`QuotaAssumption`, `CallsAssumption`), every choice of failing calls within the
stated limits, and for `GuestTime` every set of objects, blocks, doubles and
microseconds, every length of a second, zone offset and range of years
(`TimeAssumption`), and for `EngineObjects` every set of objects and addresses,
every page size and limits, and both builds (`ObjectsAssumption`), for
`MSpaceLimit` every page size, granularity and capacity (`LimitAssumption`), for
`MSpace` every number of bins and size of a word that the tries fit into
(`BinsAssumption`), every size of the `malloc_state` and every pool that has room for
it and a first block, where sizes of smallbins are below `MAX_REQUEST`
(`PoolAssumption`), every number of blocks and every request, for
`Calendar` every year, for `ValueMarshal` every depth limit, nesting, range
of fixnums and set of texts (`MarshalAssumption`), and for `GuestDecimal` every
precision, every limit of precision and exponents (`LimitsAssumption`), every number
of variables and calls, and every integer, text or failing object as an argument
(`GuestAssumption`).

**MonitoredEval.** `TypeCorrect` needs no assumption on failures. The others
assume `MayFail \cap AbandoningCalls = {}`: if `clock_gettime`, the timed wait,
the host's unlock, the cancel or the join fails, the host walks away from a
running evaluator and most of this is false; `monitored_abandoned` checks what is
left. None of the safety properties is inductive by itself. The invariant `IInv`
has four layers, each preserved given those before it:

1. `TypeOK`;
2. `ThreadInv`, where the threads are: only the current call's evaluator lives,
   and only while the host holds its handle; the mutex and condition are live for
   as long; only a host that will report a time-out cancels. This gives
   `LiveSync` and `OneThreadInInterpreter`;
3. `VerdictInv`, what the evaluator left for the host: an ended evaluator either
   ran to its end, recorded an error, or was cancelled; a recorded quota has set
   the flag unless the evaluator is between the two assignments or cancelled
   there. Without the last clause asynchronous cancellation inside
   `me_mruby_engine_eval_leave` breaks it. This gives `FirstErrorWins`;
4. `HistoryInv`, past results against the flag. This gives `EarnedVerdicts`,
   `ExactGate`, both directions: a spent engine refuses, and no other does.

`Refinement` maps `hpc` to a phase and hides the flag while a call is busy: the
evaluator may set it long before the verdict is known. Under `IInv` every step
is a step of `SandboxEval` or a stutter.

Two more theorems add to `IInv`:

- `ClockOfLiveThread` by `ClockInv`: the host keeps the mutex from before the
  evaluator exists until it waits, so the evaluator stops at the latest at its
  handler's lock. It also assumes that this lock does not fail: a handler that
  goes on without the mutex may end the thread under the host's eyes.
- `CleanCallsStayFit` by `FitInv`: a script is torn only by a quota or a
  cancellation, and both show in the verdict of the call that suffers them; an
  exception is taken out before a verdict that shows none. So after calls that
  all ended in nil, `EngineRuntimeError` or `EngineSyntaxError` the engine is as
  fit as a new one.

**UnmonitoredEval.** `CallInv` says that a call in progress has not reached a
quota and that only a quota leaves a dead jump buffer. With `TypeOK` it is
inductive and gives `NoDeadJump` and `Refinement`. The gate in `ext.c` is what
the argument rests on, since nothing resets `state->jmp`. `CleanInv` says what a
call leaves behind at each point as long as the calls before it were clean, and
gives `CleanCallsStayClean`.

**GuestTime.** `TypeOK` and `BlocksAreOwned` are inductive together: freeing a
block is only safe because no other object points at it. `TypeOK` holds the fact
that microseconds are below a second, by the lemma on `Carry`; on that rests
`CmpOrders`, that comparing seconds first and microseconds second is the order of
instants. `OnlyRangeErrorsLose` is an action property: a block without an owner
comes only of an operation that raised an out-of-range error, and stays lost.
`SumsComeBack` says that `(t + f) - t` is `f` but for the half
microsecond that `llround` may add or take, from the lemmas that the carry keeps the
instant and that `-` is the distance of instants. `DatesStayCurrent` holds by the
invariant that every owned block's date is that of its seconds and zone or was
left behind by a `utc` that failed.

**Calendar.** `CountsDays`: `timegm` counts the days of every date from 1970 on. The
invariant `DateInv` relates the date to the count in closed form, `NewYear(year)` and
the days of the months before and of this one; a step of the calendar keeps it, by
cases on the end of the month and of the year and on the three kinds of leap year.
What remains is that the loops of the code compute the closed form, which is an
induction over years and one over months. `CountsFrom1970` is the same for walks
that begin before 1970, where the code is wrong only before 1970.

**Recursion and induction.** The library states induction with an operator as its
parameter, which the provers here cannot instantiate. `NatRecursion` states it of
sets (`NatIsInductive`), from the library's well-founded order of the numbers, and
every induction of this project is over a set that is defined for it. A recursive
function is `CHOOSE f : f = ...`, of which nothing follows until some function
obeys the recursion: `RecursionExists` builds it from its finite parts. Where a
recursion goes down by a division, as the count of digits does, `DescentExists` does
the same, and `QuotientIs` and its like say of `\div` what the provers do not know.

**ValueMarshal.** The depth of the two recursions grows towards the limit, so
that they exist is shown from the limit upward (`DepthInduction`). Three facts
about one copy rest on each other: it succeeds only for values that nest no
deeper than is left below the limit; what it makes is again a value, nested as
deep; and the copy back of a copy is the value. The third needs for hashes that the
copies of two different keys differ, which is so because each copy leads back to its
own key, and that a hash made pair by pair (`AssociatedKeepsKeysApart`) has each
key once. `ValuesRoundTrip` (`RoundTrips`: of values whose text is UTF-8 on the way in
and out, of all that comes out on the way back), `OnlyDeepIsTooDeep` (`TooDeepMeansDeep`)
and `FailedInjectKeepsVariable` (`FailedInjectIsHarmless`) follow from the invariant
`MarshalInv`: the variable holds a value, what was injected last nests within the
limit, and extracting the variable returns it.

**EngineObjects.** `EnginesAreOwned` is not inductive: between the free and the
new engine nothing says that the object is still alive, or that no other
`initialize` of it will set the pointer first. `ConversionsAreLive` says so, and
`IInv` with `TypeOK` is inductive; `MemorySafety` follows step by step. Both
speak of objects that are initialised once, because of the code: it frees before
it looks at the arguments and keeps the address, so a second `initialize` that is
refused leaves a pointer to an engine that is gone. `PoolsFit` rests on the lemma
`RoundCapacityRounds`, that rounding gives a multiple of the page, not less than
asked for and less than a page more, for every page size; the code's bit mask
needs a power of two, which the division of the model does not. `LossReports` is
an action property: the pools without an owner never become fewer, and become
more only when a quota is exhausted or the compiler reports an error.

**MSpaceLimit.** `me_memory_pool_new` limits a pool to its own size, but
`mspace_set_footprint_limit` rounds that up to the granularity, so there is room
below the limit, and the sums of `sys_alloc` may wrap around. `NothingIsMapped`:
all the same it maps nothing, neither a chunk alone nor a segment, whatever is
asked of it. What is mapped is at least a granularity: a segment is rounded up to
it, and `mmap_alloc`, which rounds to pages only, is not tried below a threshold
that is no smaller (`LimitAssumption`). That is more than the rounding left, and a
sum that wraps around is less than the pool. The theorem assumes a pool larger
than the padding and more than a granularity below 2^`SizeBits`.

**MSpace.** The four invariants of the heap hold for every pool and every sequence
of calls: `HeapStaysWellFormed` (`HeapIsWellFormed`), `DataIsKept`
(`BlocksKeepTheirData`), `PoolStaysTheLimit` (`PoolIsTheLimit`) and `FitStaysFound`
(`FitIsFound`). The proof has five layers.

1. *Tries* (`MSpaceBinsProofs`; the other layers are in `PoolsProofs`). `Holds` says which chunks a trie has: each on the
   path of its size, in the ring of its equals, and with a node all nodes above it.
   `InsertedIsHeld` and `UnlinkedIsHeld` keep it. The second is the delicate one:
   the leaf that takes the place of a node has the path of the node as a prefix of
   its own, and it is a leaf because a longest way down exists in a finite trie and
   no child is left below its end.
2. *Chunks* (`Tiled`). Chunks follow each other from 0 to the end of the pool, with
   truthful `PINUSE` bits and feet, and no two free ones meet. In the middle of a call
   that is not so; what a call does to the words between two heads is stated as a
   replacement of the chunks between them, and `Retiled` says that the pool is tiled
   again if the new chunks tile that part.
3. *Calls*. `Heap` with a set of chunks "in hand" relates the two: bins list every
   free chunk but those in hand, `dv` and `top`. Unlinking takes one into the hand,
   insertion puts it back; `Settled` is a heap with nothing in hand. `MallocAnswers`,
   `Freed` and `ReallocIsAnswered` go through the cases of the three calls and say
   which chunks are newly in use, which are no longer, and that the words of all others
   are as they were (`Changes`).
4. *Blocks*. `PoolInv`, the inductive invariant (`PoolInvHolds`): the heap is settled
   and what is in use is the `malloc_state` and the blocks, each in a chunk of its
   size with its owner's words. `WalkExists` gives the sums that `internal_mallinfo`
   takes over the chunks a value, and with it the first three theorems.
5. *Fits*. `tmalloc_large` looks only at the nodes on the path of the size and at the
   leftmost way of the deepest subtree to the right of it. That this is enough needs an
   order: the sizes of a bin agree in all bits above the first that chooses a child
   (`BinsAgree`), so that where two paths part the right one has the larger sizes
   (`SizesByPath`), and the leftmost way below a node has a size as small as any there
   (`LeftmostIsLeast`). `SeenIsBest`: whichever node is large enough, one that is
   looked at is too and is no larger. Later bins have larger sizes (`IndexIncreases`),
   `dv` is compared with the best chunk, and what remains of a size that is too small
   wraps around and is never best (`RemainderOf`). The state it starts from is that of
   `PoolInv`.

That nothing is ever mapped beside the pool is used in layer 3, so it is not an
assumption. `PowersAssumption` says of 2^k what the provers do not know, that it is
the double of 2^(k-1); TLC evaluates it.

**Decimals.** Powers of ten, the count of digits and the count of trailing zeros are
recursive functions; that they exist is shown first, and that `Digits(c)` is the one
number of digits with `10^(Digits(c) - 1) <= c < 10^Digits(c)`. On that rests
everything else, of a script and of the library.

*A script* (`GuestDecimal`). `FinalizeFits`: whatever number `mpd_qfinalize` is given,
in whatever state of rounding, limits and clamping, its result has no more digits than
the precision and an exponent within the limits, also after the carry out of nines
that makes it a digit longer. So do the results of all operations that a script
reaches, and `GuestTypeOK`, that every variable holds a decimal that fits, is
inductive (`DecimalsFit`). Without it the next two are false.

- `EqualDecimalsHashAlike` (`EqlMeansSameHash`): decimals that `mpd_qcmp` finds equal
  have one coefficient up to zeros at the end; `mpd_qreduce` takes them off, but for
  those the largest exponent keeps, which are as many for both; so the words that are
  hashed are the same.
- `DecimalsComeBackFromText` (`TextMakesItAgain`): the text shows the digits between
  zeros that it puts in front or behind. Zeros in front change nothing, `k` behind give
  the coefficient times 10^k and the exponent less `k`, and where that is longer than
  the precision, rounding cuts off zeros only. The context of a script does not round
  a number that fits.

*The library* (`MpdExact`), for every context and every mode. `IsRounded`
says that a result is the exact number rounded once, by the rule of `mpdecimal.h`, at
the last place the context has for it, or infinite or the largest number where that
is too large, and that the flags say which.

- `FinalizeRounds`: `mpd_qfinalize` does this to the number it is given. It tests the
  exponent before it rounds and again after a carry; the proof goes through
  numbers that overflow, subnormal ones, which it rounds at a place of their own, and
  the others, where a carry may still overflow.
- `ProductsAreRounded`, `QuotientsAreRounded`: a quotient has a digit more than the
  precision, and if the division leaves a remainder and that digit is 0 or 5 the
  code adds one. Then the true quotient and the computed one lie strictly between the same two
  multiples of half a unit, and `WithinAreRounded` says that two numbers that do are
  rounded alike.
- `SumsAreRounded`, of `mpd_qadd` and `mpd_qsub`: where the operands are too far apart
  the code adds a 1 far to the right in place of the smaller one. `StandIn` says that
  the sum with it and the true sum lie between the same two multiples, on the same side
  of each tie, also where a subtraction takes the first digit away.

*Calls* (`CallProofs`). The contexts are those that the setters of `context.c` let
through (`ContextsAssumption`), the operands any decimals (`OffersAssumption`), also
ones that the context could not hold, but for what C's types leave of them
(`OperandsAssumption`): where a function takes an `mpd_ssize_t` or an `mpd_uint_t`, the
decimal that stands for it is one. The limits of the build are assumed to be as
`mpdecimal.h` has them, not at its values: a word has at most one digit more than
`MPD_RDIGITS` (`WordDigitsAssumption`) and fits the largest precision, which exponents
reach (`LimitsAssumption`); and `mpd_qscaleb` is given no coefficient longer than
`MPD_MAX_PREC`, which no memory could hold. TLC evaluates all of them. `ContextIsOK`, that
calls raise flags and leave the limits alone, is the invariant to which each
property is added.

- `RemaindersAreRight` (`QuotientAndRemainder`): the four functions divide by bringing
  both coefficients to the smaller exponent, but where the divisor is out of reach
  they do not divide at all, and where the quotient is too long they refuse before
  they have computed it, by a count of digits (`DivModCases`). The remainder
  counts units of the smaller exponent, so the sum is one of whole numbers, and
  rounding it to the context shows whether anything is lost (`LeftOver`). Of the
  nearest remainder `OtherSide` says when the one on the other side of 0 is smaller,
  and a quotient of nines is refused since the next one has a digit more
  (`NearestIs`).
- `OrderIsKept` (`OrderIsSound`): `mpd_cmp_total` goes by sign, then by kind, then by
  digits, then by exponent. `Rank` and `Size` put this into one order of pairs
  (`TotalIsOrder`), and `TotalAgrees` says that where the values differ it is theirs.
  `mpd_qnext_plus` and `mpd_qnext_minus` add the least number there is in a context
  with exponents to spare, where the sum is rounded once (`SumsAreRounded`); that no
  number of the context lies between needs a case of its own where the step crosses a
  power of ten, and the digits get finer (`InwardNeighbour`), and one at the subnormal
  numbers, where they do not (`NextIsNeighbour`).
- `CallsAreRounded` (`CorrectlyRounded`): the lemmas on sums, products and quotients, with the zeros and signs that they leave out, and
  the calls made from them. `mpd_qfma` has no limits while it multiplies, so it rounds
  a sum of exact operands. `mpd_qreduce` takes zeros off the rounded number,
  which changes neither its value nor, as the rounding was, the place it was cut at
  (`ZerosTakenOff`). `mpd_qquantize` cuts with shifts of its own and finalizes what is
  left, and that cuts nothing a second time (`InPlaceAlready`); but in a context that
  clamps, `mpd_qfinalize` may take a high exponent down and put zeros in its place, so there
  the result has the value asked for and not the exponent. The roundings to an integer
  shift out the fraction in a mode of their own (`IntegralIs`). C integers become
  decimals and back without loss, since a word fits the largest context (`SsizeIs`,
  `UintIs`), and `mpd_qget_ssize` finds no integer only where there is none (`SsizeOf`).
  `mpd_qscaleb` cuts an exponent off at a limit before it finalizes; from there on any
  exponent leads to the same overflow or underflow (`FarOff`).
  `mpd_qsqrt` shifts its operand so that the root has a digit more than the precision.
  Newton's method from above stops at the integer root, by descent (`FloorRootIs`). What
  the shift cut off is less than one unit of what is left, so the operand is still
  between the squares of the root and of the next number (`RootIs`). A root that is exact ends in as many zeros as
  the code takes off it (`ZerosOfRoot`); one that is not gets a last digit other than 0
  and 5 (`RootShownIs`); so rounding that last digit half to even decides as the true
  root does (`RootRounds`, `RootIsRight`). Two numbers can be equally near a root, as 10 and
  11 are to that of 110.25, and then it is the even one.

## What is only model-checked

- Liveness: `EvalReturns` of both evaluations and `CompletionWakesHost`. Fairness
  is outside the prover's reach.
- `PowersAreFaithful`, `TextComesBack` and `FormatShowsTheNumber` of `MpdCorrect`. Powers
  are computed with some digits more than the result has; how many roundings they
  absorb depends on the exponent, and the bound is checked for those of the instance.
  An exponent that does not fit a word (`PowMpd`) is reached by no run: the working
  precision it brings makes products that TLC's 32-bit integers do not hold.
  The other two read a text back with as many digits and exponents as the
  instance needs.
- The two properties of `MpdWordCalls`: products by halves and the conversion of the
  base are recursive operators, which the prover does not take.
- `monitored_abandoned`.

## Where code and documentation disagree

Each has a run whose single property is the documented behaviour and which TLC
finds violated.

- A time-out does not spend the engine (`time_quota_spends`). Only
  `me_mruby_engine_eval_leave` sets the flag; after a time-out the next call
  enters an interpreter that was stopped at an arbitrary point. The test says
  that a reached quota refuses later calls, and `EngineTimeQuotaError` is an
  `EngineQuotaError`.
- A quota reached on the Ruby thread ends that thread (`host_quota`). The
  allocator runs there while compiling, and both hooks run there in the `to_s`
  of a guest's exception; `me_mruby_engine_eval_leave` calls `pthread_exit` on
  whichever thread it is.
- `timegm` never subtracts a year (`calendar_before_epoch`): every date before
  1970 falls into 1970.
- The test for overflow in `time_alloc` is true of every negative double with a
  fraction (`guest_time_range`), so `Time.at(-0.5)` is "out of range" and the
  loop that borrows from the seconds is not reached for it.

## What is not modelled

- Transcendental functions of libmpdec: `mpd_qexp`, `mpd_qln`, `mpd_qlog10`,
  `mpd_qinvroot`, powers with a fraction in the exponent. They compute with
  precisions and tables that a small instance does not have. The guest's Decimal
  calls none of them. The same holds for the division by reciprocals
  (`_mpd_base_ndivmod`), which begins at a thousand words, and the estimates of
  sizes in the conversion to other bases.
- Exhausted memory inside libmpdec: its allocation functions are the guest's, which
  end the evaluation. What a method of Decimal that raises leaves unfreed is
  returned with the pool.
- A decimal without digits (`Blank`) used afterwards: the code reads a word before
  the first, which has no defined value.
- The segments that an mspace without a footprint limit maps for itself, chunks
  mapped alone, `sbrk`, locks, and the interface nobody here calls (calloc,
  memalign, bulk and independent allocation). Of the numbers `stat` reports only
  the allocation is modelled. `cpu_time_ns` may be 1: `clock_gettime` returns -1
  when the evaluator is gone, the code negates that, and the comments expect an
  error number. `RecordUsage` models it and no property depends on it.
- Ruby's own scheduling: the GVL is released during an evaluation, so another
  Ruby thread could enter the same engine, and an interrupt could leave
  `me_mruby_engine_eval`. No document, comment or test says what then holds.
- Builds for 32 bits, and the variants of libmpdec for other compilers
  (`LEGACY_COMPILER`, `PPRO`).
- The effect of cancelling inside dlmalloc or the interpreter. The model records
  that it happened (`torn`).
- Readers of single fields of Time, its `to_s`, and libc's conversions.
- mruby is outside the repository; `platform_*.c` wraps system calls, whose
  failures are modelled where they are made; `memory_pool_test.c` is a test.

## The plan

In order of importance. What is done:

1. `SandboxEval`, `MonitoredEval`: the core.
2. `MonitoredEvalProofs`: invariant, safety, refinement.
3. `UnmonitoredEval` with proofs.
4. `Calendar`, `GuestTime` with proofs.
5. `EngineObjects` with proofs.
6. `ValueMarshal`: both conversions over nested values, with failures half way and
   an exception left in the interpreter.
7. `MpdNumber` to `MpdCorrect` and `GuestDecimal`: decimals against exact fractions.
8. `MpdWords` to `MpdWordCalls`: coefficients, and products three ways.
9. `MSpaceChunks`, `MSpaceBins`, `MSpace`: the blocks of a pool.
10. Proofs of `CpuClockOfLiveThread`, `FitAfterCleanCalls`, `CleanBetweenCalls`,
    `MinusUndoesPlus` and `DatetimeIsCurrent`.
11. `MSpaceLimit` with its proof: a limited pool never maps more, for every
    granularity.
12. `NatRecursion`, and with it proofs about recursive functions: `CountsTheDays`,
    `RoundTrips`, `TooDeepMeansDeep`, `FailedInjectIsHarmless`.
13. `MSpaceBinsProofs`, `PoolsProofs`: `HeapIsWellFormed`, `BlocksKeepTheirData`,
    `PoolIsTheLimit`, `FitIsFound`.
14. `DecimalProofs`: `EqlMeansSameHash`, `TextMakesItAgain`, and the rounding of
    sums, products and quotients by `MpdExact`.
15. `CallProofs`: `QuotientAndRemainder`, `OrderIsSound`, `CorrectlyRounded`.

Left: integer powers by an error bound that grows with the exponent, and the sums and
products of `MpdWords` as arithmetic of numbers (`WordsAreNumbers`), by induction
over the words.
