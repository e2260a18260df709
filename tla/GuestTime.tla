------------------------------ MODULE GuestTime ------------------------------
(***************************************************************************)
(* The Time objects of a guest script (mruby-time, time.c): a Ruby object  *)
(* holds a pointer to a block of the guest's heap, the block holds seconds,*)
(* microseconds, the time zone and the broken-down time.  What is hard is  *)
(* the arithmetic on doubles at both ends of the range and below zero, and *)
(* who owns a block when an operation raises half way.                     *)
(*                                                                         *)
(* A double is a number of half microseconds, so that rounding to a        *)
(* microsecond has ties; the doubles of the model are exact.  A broken-down*)
(* time is the set of the seconds that its fields stand for: one number, or*)
(* none when only some fields have been written.                           *)
(***************************************************************************)
EXTENDS Integers, FiniteSets

CONSTANTS
  Objects,     \* the Time objects of the script
  Blocks,      \* bound: blocks of the heap that hold a struct mrb_time
  Null,        \* DATA_PTR of a Time without a block
  UsecPerSec,  \* 1000000 in the code
  LocalOffset, \* seconds from UTC to local time
  MinTm, MaxTm, \* the seconds whose year fits tm_year
  MaxTimeT,    \* the largest time_t
  Doubles,     \* bound: the seconds that Time.at, + and - are called with
  Usecs        \* bound: the microseconds that Time.at and Time.utc get

ASSUME TimeAssumption ==
  /\ Null \notin Blocks /\ UsecPerSec \in Nat \ {0} /\ LocalOffset \in Int
  /\ MinTm \in Int /\ MaxTm \in Int /\ MaxTimeT \in Nat
  /\ Doubles \subseteq Int /\ Usecs \subseteq Int

VARIABLES
  live,   \* the objects that the garbage collector has not taken
  ptr,    \* DATA_PTR of each object
  heap,   \* what each block holds; Free before malloc and after free
  raised  \* what the last operation raised

vars == <<live, ptr, heap, raised>>

Zones == {"UTC", "LOCAL"}
Outcomes == {"nothing", "OutOfRange", "NotValid", "Uninitialized"}
Free == [sec |-> 0, usec |-> 0, zone |-> "NONE", datetime |-> {}]
Used(b) == heap[b].zone # "NONE"
Initialized(o) == o \in live /\ ptr[o] # Null
Time(o) == heap[ptr[o]]

------------------------------------------------------------------------------
(* The arithmetic of time_alloc.                                            *)

\* Half microseconds in a second.
Halves == 2 * UsecPerSec

\* (time_t)sec cuts towards zero.
Truncate(d) == IF d >= 0 THEN d \div Halves ELSE -((-d) \div Halves)

\* The tests before the label out_of_range: what does not fit time_t, and
\* what is below zero and was cut.
InRange(d) ==
  /\ d <= MaxTimeT * Halves /\ d >= -(MaxTimeT + 1) * Halves
  /\ ~(d < 0 /\ Truncate(d) * Halves > d)

\* llround, ties away from zero.
Llround(h) == IF h >= 0 THEN (h + 1) \div 2 ELSE -((1 - h) \div 2)

\* Mutants: microseconds below zero stay; a full second is not carried.
CarryUpOnly(sec, usec) ==
  IF usec < 0 THEN <<sec, usec>>
  ELSE <<sec + usec \div UsecPerSec, usec % UsecPerSec>>
DropCarry(sec, usec) == <<sec, usec % UsecPerSec>>
\* The two while loops.
Carry(sec, usec) == <<sec + usec \div UsecPerSec, usec % UsecPerSec>>

\* gmtime_r and localtime_r.
BrokenDown(sec, zone) == {IF zone = "UTC" THEN sec ELSE sec + LocalOffset}
FitsTm(sec, zone) == BrokenDown(sec, zone) \subseteq MinTm..MaxTm

\* The time that time_alloc makes of d seconds and h half microseconds.
TimeOf(d, h, zone) ==
  LET sec == Truncate(d)
      carried == Carry(sec, Llround(d - sec * Halves + h))
  IN  [sec |-> carried[1], usec |-> carried[2], zone |-> zone,
       datetime |-> BrokenDown(carried[1], zone)]

\* mrb_time_plus, the double it hands to time_alloc beside 2 * t.usec.
PlusSec(t, f) == t.sec * Halves + f
\* mrb_time_minus of two times, in half microseconds.
Minus(t1, t2) == (t1.sec - t2.sec) * Halves + 2 * (t1.usec - t2.usec)

\* mrb_time_cmp
Cmp(t1, t2) ==
  IF t1.sec > t2.sec THEN 1
  ELSE IF t1.sec < t2.sec THEN -1
  ELSE IF t1.usec > t2.usec THEN 1
  ELSE IF t1.usec < t2.usec THEN -1
  ELSE 0

------------------------------------------------------------------------------
(* The operations.                                                          *)

Init ==
  /\ live = {} /\ ptr = [o \in Objects |-> Null]
  /\ heap = [b \in Blocks |-> Free] /\ raised = "nothing"

Raise(what) == raised' = what /\ UNCHANGED <<live, ptr, heap>>

\* A new object for a filled block; mrb_raisef leaves between the two when
\* the block's seconds have no broken-down time, and nobody frees the block.
Wrap(o, b, t) ==
  /\ o \notin live /\ ~Used(b)
  /\ IF FitsTm(t.sec, t.zone)
     THEN live' = live \cup {o} /\ ptr' = [ptr EXCEPT ![o] = b]
          /\ raised' = "nothing"
     ELSE UNCHANGED <<live, ptr>> /\ raised' = "OutOfRange"
  /\ heap' = [heap EXCEPT ![b] = t]

\* mrb_time_make
Make(o, d, h, zone) ==
  \/ InRange(d) /\ \E b \in Blocks : Wrap(o, b, TimeOf(d, h, zone))
  \/ ~InRange(d) /\ Raise("OutOfRange")

\* The second argument may be half a microsecond too.
At(o) == \E d \in Doubles, h \in Usecs : Make(o, d, h, "LOCAL")

\* Every whole number of seconds a date can stand for; -1 is an error value.
Dates == {d \div Halves : d \in {e \in Doubles : e % Halves = 0}}

Utc(o) ==
  \E sec \in Dates, u \in Usecs :
    \/ sec = -1 /\ Raise("NotValid")
    \/ sec # -1 /\ Make(o, sec * Halves, 2 * u, "UTC")

Plus(o, p) ==
  /\ Initialized(p)
  /\ \E f \in Doubles :
       Make(o, PlusSec(Time(p), f), 2 * Time(p).usec, Time(p).zone)

MinusFloat(o, p) ==
  /\ Initialized(p)
  /\ \E f \in Doubles :
       Make(o, PlusSec(Time(p), -f), 2 * Time(p).usec, Time(p).zone)

\* Mutant: getutc keeps the broken-down time of the copied zone.
CopyInUtc(t) == [t EXCEPT !.zone = "UTC"]
\* The copy that mrb_time_getutc makes, and time_update_datetime on it.
InUtc(t) ==
  [t EXCEPT !.zone = "UTC", !.datetime = BrokenDown(t.sec, "UTC")]

GetUtc(o, p) ==
  Initialized(p) /\ \E b \in Blocks : Wrap(o, b, InUtc(Time(p)))

\* utc changes the zone first; a gmtime_r that fails may have written some
\* fields of the broken-down time.
UtcInPlace(p) ==
  /\ Initialized(p)
  /\ \/ /\ FitsTm(Time(p).sec, "UTC")
        /\ heap' = [heap EXCEPT ![ptr[p]] = InUtc(@)]
        /\ raised' = "nothing"
     \/ /\ ~FitsTm(Time(p).sec, "UTC")
        /\ \E old \in {Time(p).datetime, {}} :
             heap' = [heap EXCEPT ![ptr[p]].zone = "UTC",
                                  ![ptr[p]].datetime = old]
        /\ raised' = "OutOfRange"
  /\ UNCHANGED <<live, ptr>>

\* An object before its initialize, or of a subclass whose initialize does
\* not call it.
Allocate(o) ==
  /\ o \notin live /\ live' = live \cup {o} /\ raised' = "nothing"
  /\ UNCHANGED <<ptr, heap>>

\* Mutant: the pointer is only replaced by the new block.
KeepPointer(o) == UNCHANGED ptr
\* mrb_data_init(self, NULL, ...), before anything can raise.
DropPointer(o) == ptr' = [ptr EXCEPT ![o] = Null]

\* Mutant: the block is not freed.
NotFreed(o) == heap
\* mrb_free of the block of o.
Freed(o) == IF ptr[o] = Null THEN heap ELSE [heap EXCEPT ![ptr[o]] = Free]

\* mrb_time_initialize: it frees, forgets, and makes a time of the date.
Initialize(o) ==
  /\ o \in live /\ UNCHANGED live
  /\ \E sec \in Dates, u \in Usecs :
       LET t == TimeOf(sec * Halves, 2 * u, "UTC") IN
       \/ /\ sec = -1 \/ ~InRange(sec * Halves)
          /\ heap' = Freed(o) /\ DropPointer(o)
          /\ raised' = IF sec = -1 THEN "NotValid"
                                   ELSE "OutOfRange"
       \/ /\ sec # -1 /\ InRange(sec * Halves)
          /\ \E b \in Blocks :
               /\ Freed(o)[b].zone = "NONE"
               /\ heap' = [Freed(o) EXCEPT ![b] = t]
               /\ \/ /\ FitsTm(t.sec, "UTC")
                     /\ ptr' = [ptr EXCEPT ![o] = b] /\ raised' = "nothing"
                  \/ /\ ~FitsTm(t.sec, "UTC")
                     /\ DropPointer(o) /\ raised' = "OutOfRange"

\* A copy keeps the block it has.
BlockOfCopy(o) ==
  IF ptr[o] # Null THEN {ptr[o]} ELSE {b \in Blocks : ~Used(b)}

InitializeCopy(o, p) ==
  /\ o \in live /\ o # p /\ Initialized(p)
  /\ \E b \in BlockOfCopy(o) :
       /\ ptr' = [ptr EXCEPT ![o] = b] /\ heap' = [heap EXCEPT ![b] = Time(p)]
  /\ raised' = "nothing" /\ UNCHANGED live

\* time_get_ptr, and initialize_copy of a source without a block.
UseUninitialized(p) ==
  p \in live /\ ptr[p] = Null /\ Raise("Uninitialized")

\* mrb_free of the data type Time, when the object is swept.
Collect(o) ==
  /\ o \in live /\ live' = live \ {o} /\ heap' = Freed(o)
  /\ ptr' = [ptr EXCEPT ![o] = Null] /\ raised' = "nothing"

Next ==
  \/ \E o \in Objects :
       \/ At(o) \/ Utc(o) \/ Allocate(o) \/ Initialize(o) \/ Collect(o)
       \/ UtcInPlace(o) \/ UseUninitialized(o)
  \/ \E o, p \in Objects :
       Plus(o, p) \/ MinusFloat(o, p) \/ GetUtc(o, p) \/ InitializeCopy(o, p)

Spec == Init /\ [][Next]_vars

------------------------------------------------------------------------------
Structs == [sec : Int, usec : 0..(UsecPerSec - 1), zone : Zones \cup {"NONE"},
            datetime : SUBSET Int]

TypeOK ==
  /\ live \subseteq Objects /\ ptr \in [Objects -> Blocks \cup {Null}]
  /\ heap \in [Blocks -> Structs] /\ raised \in Outcomes

\* No two objects share a block, no object points at a freed one and a
\* collected object points nowhere: initialize may raise after its free,
\* copies may go either way round, and the blocks are used again at once.
BlocksAreOwned ==
  \A o \in Objects :
    ptr[o] # Null =>
      /\ o \in live /\ Used(ptr[o])
      /\ \A p \in Objects \ {o} : ptr[p] # ptr[o]

Lost == {b \in Blocks : Used(b) /\ \A o \in Objects : ptr[o] # b}

\* A block is only lost, for as long as the engine lives, by an operation
\* that raises because its seconds have no broken-down time.
LossNeedsRangeError ==
  [][Lost' # Lost => Lost \subseteq Lost' /\ raised' = "OutOfRange"]_vars

\* <=> orders times as the instants they stand for, whatever sums, roundings
\* and carries, below zero too, have made them.
CmpIsOrder ==
  \A o, p \in live :
    Initialized(o) /\ Initialized(p) =>
      LET t1 == Time(o)
          t2 == Time(p)
          usecs == (t1.sec - t2.sec) * UsecPerSec + t1.usec - t2.usec
      IN  /\ (Cmp(t1, t2) = 1) <=> (usecs > 0)
          /\ (Cmp(t1, t2) = 0) <=> (usecs = 0)

\* (t + f) - t is f up to the rounding of half a microsecond, when the sum
\* is a time at all.
MinusUndoesPlus ==
  \A o \in live : Initialized(o) =>
    \A f \in Doubles :
      InRange(PlusSec(Time(o), f)) =>
        LET sum == TimeOf(PlusSec(Time(o), f), 2 * Time(o).usec, Time(o).zone)
        IN  Minus(sum, Time(o)) - f \in {-1, 0, 1}

\* The broken-down time, that every reader of a date uses, is that of the
\* seconds in the object's own zone; but for an object whose utc has failed.
DatetimeIsCurrent ==
  \A o \in live : Initialized(o) =>
    LET t == Time(o) IN
    \/ t.datetime = BrokenDown(t.sec, t.zone)
    \/ t.zone = "UTC" /\ ~FitsTm(t.sec, "UTC")

\* "raises if time is out of range": a sum whose seconds have a broken-down
\* time on either side is a Time, and so is its Time.at.
SumInRangeIsATime ==
  \A o \in live : Initialized(o) =>
    \A f \in Doubles :
      LET sum == PlusSec(Time(o), f) IN
      FitsTm(sum \div Halves, "LOCAL") /\ FitsTm(sum \div Halves + 1, "LOCAL")
        => InRange(sum)
==============================================================================
