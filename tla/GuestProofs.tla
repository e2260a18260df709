------------------------------ MODULE GuestProofs ------------------------------
(***************************************************************************)
(* Proofs about what a guest works with.  GuestTime, for every size of the *)
(* heap, number of objects, microseconds to the second and range of years; *)
(* Calendar: timegm counts the days of the calendar, for every year from   *)
(* 1970 on; ValueMarshal: what inject and extract promise, for values of   *)
(* every shape and every depth limit.  The loops and the recursions are    *)
(* recursive functions; NatRecursion shows that they have values at all.   *)
(***************************************************************************)
EXTENDS GuestTime, Calendar, ValueMarshal, NatRecursion

------------------------------------------------------------------------------
(* Time.                                                                    *)

\* The two while loops of time_alloc end with microseconds below a second.
LEMMA CarryType ==
  ASSUME NEW sec \in Int, NEW usec \in Int
  PROVE  Carry(sec, usec) \in Int \X (0..(UsecPerSec - 1))
<1>1. UsecPerSec \in Nat /\ UsecPerSec > 0 BY TimeAssumption
<1>2. usec \div UsecPerSec \in Int /\ usec % UsecPerSec \in 0..(UsecPerSec - 1)
  BY <1>1
<1> QED BY <1>2 DEF Carry

\* time_alloc fills every field of the struct.
LEMMA TimeOfType ==
  ASSUME NEW d \in Int, NEW h \in Int, NEW zone \in Zones
  PROVE  /\ TimeOf(d, h, zone) \in Structs
         /\ TimeOf(d, h, zone).zone = zone
<1> DEFINE sec == Truncate(d)
           c == Carry(sec, Llround(d - sec * Halves + h))
<1>1. Halves \in Nat /\ Halves > 0 BY TimeAssumption DEF Halves
<1>2. sec \in Int BY <1>1 DEF Truncate
<1>3. d - sec * Halves + h \in Int BY <1>1, <1>2
<1>4. \A x \in Int : Llround(x) \in Int BY DEF Llround
<1>5. c \in Int \X (0..(UsecPerSec - 1)) BY <1>2, <1>3, <1>4, CarryType
<1>6. BrokenDown(c[1], zone) \in SUBSET Int
  BY <1>5, TimeAssumption DEF BrokenDown
<1>7. TimeOf(d, h, zone) = [sec |-> c[1], usec |-> c[2], zone |-> zone,
                            datetime |-> BrokenDown(c[1], zone)]
  BY DEF TimeOf
<1> HIDE DEF c
<1> QED BY <1>5, <1>6, <1>7 DEF Structs, Zones

IInv == TypeOK /\ BlocksAreOwned

\* A freed block has the type of a struct.
LEMMA FreeType == Free \in Structs /\ Free.zone = "NONE"
  BY TimeAssumption DEF Free, Structs

\* A broken-down time is a set of seconds.
LEMMA InUtcType ==
  ASSUME NEW t \in Structs
  PROVE  InUtc(t) \in Structs /\ InUtc(t).zone = "UTC"
<1>1. BrokenDown(t.sec, "UTC") \in SUBSET Int BY DEF BrokenDown, Structs
<1> QED BY <1>1 DEF InUtc, Structs, Zones

\* The objects that a step may touch point at blocks of their own.
LEMMA WrapStep ==
  ASSUME IInv, NEW o \in Objects, NEW b \in Blocks, NEW t \in Structs,
         t.zone \in Zones, Wrap(o, b, t)
  PROVE  IInv'
<1> USE TimeAssumption
<1>1. heap' = [heap EXCEPT ![b] = t] /\ ~Used(b) /\ o \notin live
  BY DEF Wrap
<1>2. heap' \in [Blocks -> Structs] /\ heap'[b].zone # "NONE"
  BY <1>1 DEF IInv, TypeOK, Zones
<1>3. \A c \in Blocks : Used(c) => heap'[c].zone # "NONE"
  BY <1>1, <1>2 DEF IInv, TypeOK, Used
<1>4. \A p \in Objects : ptr[p] # b BY <1>1 DEF IInv, BlocksAreOwned, TypeOK
<1>5. CASE FitsTm(t.sec, t.zone)
  <2>1. live' = live \cup {o} /\ ptr' = [ptr EXCEPT ![o] = b]
        /\ raised' = "nothing"
    BY <1>5 DEF Wrap
  <2>2. TypeOK' BY <2>1, <1>2 DEF IInv, TypeOK, Outcomes
  <2>3. BlocksAreOwned'
    BY <2>1, <1>2, <1>3, <1>4 DEF IInv, TypeOK, BlocksAreOwned, Used
  <2> QED BY <2>2, <2>3 DEF IInv
<1>6. CASE ~FitsTm(t.sec, t.zone)
  <2>1. live' = live /\ ptr' = ptr /\ raised' = "OutOfRange"
    BY <1>6 DEF Wrap
  <2>2. TypeOK' BY <2>1, <1>2 DEF IInv, TypeOK, Outcomes
  <2>3. BlocksAreOwned'
    BY <2>1, <1>3 DEF IInv, TypeOK, BlocksAreOwned, Used
  <2> QED BY <2>2, <2>3 DEF IInv
<1> QED BY <1>5, <1>6

\* mrb_time_make, for whatever seconds it is called with.
LEMMA MakeStep ==
  ASSUME IInv, NEW o \in Objects, NEW d \in Int, NEW h \in Int,
         NEW zone \in Zones, Make(o, d, h, zone)
  PROVE  IInv'
<1>1. CASE \E b \in Blocks : Wrap(o, b, TimeOf(d, h, zone))
  <2>1. PICK b \in Blocks : Wrap(o, b, TimeOf(d, h, zone)) BY <1>1
  <2>2. TimeOf(d, h, zone) \in Structs /\ TimeOf(d, h, zone).zone \in Zones
    BY TimeOfType
  <2> QED BY <2>1, <2>2, WrapStep
<1>2. CASE Raise("OutOfRange")
  BY <1>2 DEF Outcomes, Raise, IInv, TypeOK, BlocksAreOwned, Used
<1> QED BY <1>1, <1>2 DEF Make

\* free leaves a free block and everything else as it was.
LEMMA FreedType ==
  ASSUME IInv, NEW o \in Objects
  PROVE  /\ Freed(o) \in [Blocks -> Structs]
         /\ \A p \in Objects \ {o} : ptr[p] # Null =>
              ptr[p] \in Blocks /\ Freed(o)[ptr[p]] = heap[ptr[p]]
  BY FreeType, TimeAssumption DEF Freed, IInv, TypeOK, BlocksAreOwned

\* IInv holds at first.
LEMMA InitInvariant == Init => IInv
  BY FreeType DEF Outcomes, Init, IInv, TypeOK, BlocksAreOwned, Used

\* Every step keeps the invariant.
LEMMA InvariantStep == IInv /\ [Next]_vars => IInv'
<1> SUFFICES ASSUME IInv, [Next]_vars PROVE IInv' OBVIOUS
<1> USE TimeAssumption
<1>0. Halves \in Nat /\ Halves > 0 BY DEF Halves
<1>1. ASSUME NEW o \in Objects, At(o) PROVE IInv'
  <2>1. PICK d \in Doubles, h \in Usecs : Make(o, d, h, "LOCAL")
    BY <1>1 DEF At
  <2>2. d \in Int /\ h \in Int /\ "LOCAL" \in Zones BY DEF Zones
  <2> QED BY <2>1, <2>2, MakeStep
<1>2. \A sec \in Dates : sec \in Int BY <1>0 DEF Dates
<1>3. ASSUME NEW o \in Objects, Utc(o) PROVE IInv'
  <2>1. PICK sec \in Dates, u \in Usecs :
          Raise("NotValid") \/ Make(o, sec * Halves, 2 * u, "UTC")
    BY <1>3 DEF Utc
  <2>2. sec * Halves \in Int /\ 2 * u \in Int /\ "UTC" \in Zones
    BY <1>0, <1>2 DEF Zones
  <2>3. CASE Raise("NotValid")
    BY <2>3 DEF Outcomes, Raise, IInv, TypeOK, BlocksAreOwned, Used
  <2> QED BY <2>1, <2>2, <2>3, MakeStep
<1>4. ASSUME NEW p \in Objects, Initialized(p)
      PROVE  /\ ptr[p] \in Blocks /\ Time(p) \in Structs
             /\ Time(p).sec \in Int /\ Time(p).usec \in Int
             /\ Time(p).zone \in Zones
  <2>1. ptr[p] \in Blocks /\ Used(ptr[p])
    BY <1>4 DEF Initialized, IInv, TypeOK, BlocksAreOwned
  <2> QED BY <2>1 DEF Time, Used, IInv, TypeOK, Structs, Zones
<1>5. ASSUME NEW o \in Objects, NEW p \in Objects, Plus(o, p) PROVE IInv'
  <2>1. PICK f \in Doubles :
          Make(o, PlusSec(Time(p), f), 2 * Time(p).usec, Time(p).zone)
    BY <1>5 DEF Plus
  <2>2. PlusSec(Time(p), f) \in Int /\ 2 * Time(p).usec \in Int
    BY <1>0, <1>4, <1>5 DEF Plus, PlusSec
  <2> QED BY <1>4, <1>5, <2>1, <2>2, MakeStep DEF Plus
<1>6. ASSUME NEW o \in Objects, NEW p \in Objects, MinusFloat(o, p)
      PROVE  IInv'
  <2>1. PICK f \in Doubles :
          Make(o, PlusSec(Time(p), -f), 2 * Time(p).usec, Time(p).zone)
    BY <1>6 DEF MinusFloat
  <2>2. PlusSec(Time(p), -f) \in Int /\ 2 * Time(p).usec \in Int
    BY <1>0, <1>4, <1>6 DEF MinusFloat, PlusSec
  <2> QED BY <1>4, <1>6, <2>1, <2>2, MakeStep DEF MinusFloat
<1>7. ASSUME NEW o \in Objects, NEW p \in Objects, GetUtc(o, p) PROVE IInv'
  <2>1. PICK b \in Blocks : Wrap(o, b, InUtc(Time(p))) BY <1>7 DEF GetUtc
  <2>2. InUtc(Time(p)) \in Structs /\ InUtc(Time(p)).zone = "UTC"
    BY <1>4, <1>7, InUtcType DEF GetUtc
  <2> QED BY <2>1, <2>2, WrapStep DEF Zones
<1>8. ASSUME NEW p \in Objects, UtcInPlace(p) PROVE IInv'
  <2>1. ptr[p] \in Blocks /\ Time(p) \in Structs /\ live' = live /\ ptr' = ptr
    BY <1>4, <1>8 DEF UtcInPlace
  <2>2. raised' \in Outcomes BY <1>8 DEF UtcInPlace, Outcomes
  <2>3. PICK t \in Structs :
          heap' = [heap EXCEPT ![ptr[p]] = t] /\ t.zone = "UTC"
    <3>1. CASE heap' = [heap EXCEPT ![ptr[p]] = InUtc(@)]
      BY <2>1, <3>1, InUtcType DEF Time
    <3>2. CASE \E old \in {Time(p).datetime, {}} :
                 heap' = [heap EXCEPT ![ptr[p]].zone = "UTC",
                                      ![ptr[p]].datetime = old]
      <4>1. PICK old \in {Time(p).datetime, {}} :
              heap' = [heap EXCEPT ![ptr[p]].zone = "UTC",
                                   ![ptr[p]].datetime = old]
        BY <3>2
      <4> DEFINE t == [Time(p) EXCEPT !.zone = "UTC", !.datetime = old]
      <4>2. t \in Structs /\ t.zone = "UTC" BY <2>1 DEF Structs, Zones
      <4>3. heap' = [heap EXCEPT ![ptr[p]] = t]
        BY <2>1, <4>1 DEF Time, IInv, TypeOK
      <4> QED BY <4>2, <4>3
    <3> QED BY <1>8, <3>1, <3>2 DEF UtcInPlace
  <2>4. TypeOK' BY <2>1, <2>2, <2>3 DEF IInv, TypeOK
  <2>5. BlocksAreOwned'
    BY <2>1, <2>3 DEF IInv, TypeOK, BlocksAreOwned, Used
  <2> QED BY <2>4, <2>5 DEF IInv
<1>9. ASSUME NEW o \in Objects, Allocate(o) PROVE IInv'
  BY <1>9 DEF Outcomes, Allocate, IInv, TypeOK, BlocksAreOwned, Used
<1>10. ASSUME NEW o \in Objects, Initialize(o) PROVE IInv'
  <2>1. o \in live /\ live' = live BY <1>10 DEF Initialize
  <2>2. PICK sec \in Dates, u \in Usecs :
          LET t == TimeOf(sec * Halves, 2 * u, "UTC") IN
          \/ heap' = Freed(o) /\ DropPointer(o) /\ raised' \in Outcomes
          \/ \E b \in Blocks :
               /\ Freed(o)[b].zone = "NONE"
               /\ heap' = [Freed(o) EXCEPT ![b] = t] /\ raised' \in Outcomes
               /\ ptr' = [ptr EXCEPT ![o] = b] \/ DropPointer(o)
    BY <1>10 DEF Initialize, Outcomes
  <2> DEFINE t == TimeOf(sec * Halves, 2 * u, "UTC")
  <2>3. t \in Structs /\ t.zone = "UTC"
    BY <1>0, <1>2, TimeOfType DEF Zones
  <2> HIDE DEF t
  <2>4. CASE heap' = Freed(o) /\ DropPointer(o) /\ raised' \in Outcomes
    <3>1. TypeOK' BY <2>1, <2>4, FreedType DEF DropPointer, IInv, TypeOK
    <3>2. BlocksAreOwned'
      BY <2>1, <2>4, FreedType
      DEF DropPointer, IInv, TypeOK, BlocksAreOwned, Used
    <3> QED BY <3>1, <3>2 DEF IInv
  <2>5. ASSUME NEW b \in Blocks, Freed(o)[b].zone = "NONE",
               heap' = [Freed(o) EXCEPT ![b] = t], raised' \in Outcomes,
               ptr' = [ptr EXCEPT ![o] = b] \/ DropPointer(o)
        PROVE  IInv'
    <3>1. TypeOK'
      BY <2>1, <2>3, <2>5, FreedType DEF DropPointer, IInv, TypeOK
    <3>2. \A p \in Objects \ {o} : ptr[p] # Null =>
            ptr[p] # b /\ heap'[ptr[p]] = heap[ptr[p]]
      BY <2>5, FreedType DEF IInv, TypeOK, BlocksAreOwned, Used
    <3>3. heap'[b].zone = "UTC" BY <2>3, <2>5, FreedType
    <3>4. BlocksAreOwned'
      BY <2>1, <2>5, <3>2, <3>3
      DEF DropPointer, IInv, TypeOK, BlocksAreOwned, Used
    <3> QED BY <3>1, <3>4 DEF IInv
  <2> QED BY <2>2, <2>4, <2>5 DEF t
<1>11. ASSUME NEW o \in Objects, NEW p \in Objects, InitializeCopy(o, p)
       PROVE  IInv'
  <2>1. PICK b \in BlockOfCopy(o) :
          ptr' = [ptr EXCEPT ![o] = b] /\ heap' = [heap EXCEPT ![b] = Time(p)]
    BY <1>11 DEF InitializeCopy
  <2>2. live' = live /\ o \in live /\ raised' = "nothing"
    BY <1>11 DEF InitializeCopy
  <2>3. b \in Blocks /\ (b = ptr[o] \/ ~Used(b))
    BY DEF BlockOfCopy, IInv, TypeOK
  <2>4. Time(p) \in Structs /\ Time(p).zone # "NONE"
    BY <1>4, <1>11 DEF InitializeCopy, Zones
  <2>5. TypeOK' BY <2>1, <2>2, <2>3, <2>4 DEF Outcomes, IInv, TypeOK
  <2>6. \A q \in Objects \ {o} : ptr[q] # Null => ptr[q] # b
    BY <2>3 DEF IInv, TypeOK, BlocksAreOwned
  <2>7. BlocksAreOwned'
    BY <2>1, <2>2, <2>3, <2>4, <2>6 DEF IInv, TypeOK, BlocksAreOwned, Used
  <2> QED BY <2>5, <2>7 DEF IInv
<1>12. ASSUME NEW p \in Objects, UseUninitialized(p) PROVE IInv'
  BY <1>12
  DEF Outcomes, UseUninitialized, Raise, IInv, TypeOK, BlocksAreOwned, Used
<1>13. ASSUME NEW o \in Objects, Collect(o) PROVE IInv'
  <2>1. /\ live' = live \ {o} /\ heap' = Freed(o) /\ raised' = "nothing"
        /\ ptr' = [ptr EXCEPT ![o] = Null]
    BY <1>13 DEF Collect
  <2>2. TypeOK' BY <2>1, FreedType DEF Outcomes, IInv, TypeOK
  <2>3. BlocksAreOwned'
    BY <2>1, FreedType DEF IInv, TypeOK, BlocksAreOwned, Used
  <2> QED BY <2>2, <2>3 DEF IInv
<1>14. CASE UNCHANGED vars
  BY <1>14 DEF vars, IInv, TypeOK, BlocksAreOwned, Used
<1> QED BY <1>1, <1>3, <1>5, <1>6, <1>7, <1>8, <1>9, <1>10, <1>11, <1>12,
           <1>13, <1>14 DEF Next

\* The inductive invariant holds of every Time the script can make.
THEOREM Invariance == Spec => []IInv
<1>1. IInv /\ [][Next]_vars => []IInv BY InvariantStep, PTL
<1> QED BY <1>1, InitInvariant, PTL DEF Spec

\* Whatever time_alloc, initialize, getutc and the copies do, every struct
\* keeps its microseconds below a second and its fields in their ranges.
THEOREM TypeCorrect == Spec => []TypeOK
<1>1. IInv => TypeOK BY DEF IInv
<1> QED BY <1>1, Invariance, PTL

\* No two Time objects share a block and none points at a freed one.
THEOREM Ownership == Spec => []BlocksAreOwned
<1>1. IInv => BlocksAreOwned BY DEF IInv
<1> QED BY <1>1, Invariance, PTL

\* A whole second outweighs any difference of microseconds.
LEMMA SecondsFirst ==
  ASSUME NEW n \in Int, NEW u1 \in 0..(UsecPerSec - 1),
         NEW u2 \in 0..(UsecPerSec - 1)
  PROVE  /\ n > 0 => n * UsecPerSec + u1 - u2 > 0
         /\ n < 0 => n * UsecPerSec + u1 - u2 < 0
<1>1. UsecPerSec \in Nat /\ UsecPerSec > 0 BY TimeAssumption
<1>2. n > 0 => n * UsecPerSec >= UsecPerSec BY <1>1
<1>3. n < 0 => n * UsecPerSec <= -UsecPerSec BY <1>1
<1> QED BY <1>1, <1>2, <1>3

\* The five ways mrb_time_cmp can answer.
LEMMA CmpCases ==
  ASSUME NEW t1 \in Structs, NEW t2 \in Structs
  PROVE  /\ (Cmp(t1, t2) = 1) <=>
              (t1.sec > t2.sec \/ (t1.sec = t2.sec /\ t1.usec > t2.usec))
         /\ (Cmp(t1, t2) = 0) <=> (t1.sec = t2.sec /\ t1.usec = t2.usec)
<1>1. t1.sec \in Int /\ t2.sec \in Int /\ t1.usec \in Int /\ t2.usec \in Int
  BY DEF Structs
<1>2. Cmp(t1, t2) = 1 =>
        t1.sec > t2.sec \/ (t1.sec = t2.sec /\ t1.usec > t2.usec)
  BY <1>1 DEF Cmp
<1>3. Cmp(t1, t2) = 0 => t1.sec = t2.sec /\ t1.usec = t2.usec
  BY <1>1 DEF Cmp
<1>4. t1.sec > t2.sec => Cmp(t1, t2) = 1 BY <1>1 DEF Cmp
<1>5. t1.sec = t2.sec /\ t1.usec > t2.usec => Cmp(t1, t2) = 1
  BY <1>1 DEF Cmp
<1>6. t1.sec = t2.sec /\ t1.usec = t2.usec => Cmp(t1, t2) = 0
  BY <1>1 DEF Cmp
<1> QED BY <1>2, <1>3, <1>4, <1>5, <1>6

\* <=> orders times as the instants they stand for.
THEOREM CmpOrders == Spec => []CmpIsOrder
<1>1. IInv => CmpIsOrder
  <2> SUFFICES ASSUME IInv, NEW o \in live, NEW p \in live,
                      Initialized(o), Initialized(p)
               PROVE  LET t1 == Time(o)
                          t2 == Time(p)
                          usecs == (t1.sec - t2.sec) * UsecPerSec
                                   + t1.usec - t2.usec
                      IN  /\ (Cmp(t1, t2) = 1) <=> (usecs > 0)
                          /\ (Cmp(t1, t2) = 0) <=> (usecs = 0)
    BY DEF CmpIsOrder
  <2>1. Time(o) \in Structs /\ Time(p) \in Structs
    BY DEF IInv, TypeOK, Initialized, Time
  <2> DEFINE n == Time(o).sec - Time(p).sec
             u1 == Time(o).usec
             u2 == Time(p).usec
  <2>2. n \in Int /\ u1 \in 0..(UsecPerSec - 1) /\ u2 \in 0..(UsecPerSec - 1)
        /\ Time(o).sec \in Int /\ Time(p).sec \in Int
    BY <2>1 DEF Structs
  <2>3. /\ n > 0 => n * UsecPerSec + u1 - u2 > 0
        /\ n < 0 => n * UsecPerSec + u1 - u2 < 0
    BY <2>2, SecondsFirst
  <2>4. UsecPerSec \in Nat BY TimeAssumption
  <2>5. n = 0 => n * UsecPerSec + u1 - u2 = u1 - u2 BY <2>2, <2>4
  <2>6. /\ (Cmp(Time(o), Time(p)) = 1) <=> (n > 0 \/ (n = 0 /\ u1 > u2))
        /\ (Cmp(Time(o), Time(p)) = 0) <=> (n = 0 /\ u1 = u2)
    <3>1. n > 0 <=> Time(o).sec > Time(p).sec BY <2>2
    <3>2. n = 0 <=> Time(o).sec = Time(p).sec BY <2>2
    <3> HIDE DEF n
    <3> QED BY <2>1, <3>1, <3>2, CmpCases
  <2>7. n * UsecPerSec \in Int BY <2>2, <2>4
  <2> QED
    <3> DEFINE s == n * UsecPerSec
    <3>0. n \in Int /\ u1 \in Int /\ u2 \in Int
          /\ (Time(o).sec > Time(p).sec <=> n > 0)
          /\ (Time(o).sec = Time(p).sec <=> n = 0)
      BY <2>2
    <3>1. s \in Int /\ (n > 0 => s + u1 - u2 > 0) /\ (n < 0 => s + u1 - u2 < 0)
          /\ (n = 0 => s + u1 - u2 = u1 - u2)
      BY <2>3, <2>5, <2>7
    <3> HIDE DEF s, n, u1, u2
    <3>2. (s + u1 - u2 > 0) <=> (n > 0 \/ (n = 0 /\ u1 > u2))
      BY <3>0, <3>1
    <3>3. (s + u1 - u2 = 0) <=> (n = 0 /\ u1 = u2) BY <3>0, <3>1
    <3> QED BY <2>6, <3>2, <3>3 DEF s, n, u1, u2
<1> QED BY <1>1, Invariance, PTL

------------------------------------------------------------------------------
(* Which steps lose a block.                                                *)

LossAllowed == Lost' # Lost => Lost \subseteq Lost' /\ raised' = "OutOfRange"

\* mrb_time_wrap and what raises before it: the object owns the block, or
\* time_update_datetime has raised.
LEMMA WrapLoss ==
  ASSUME IInv, NEW o \in Objects, NEW b \in Blocks, NEW t \in Structs,
         t.zone \in Zones, Wrap(o, b, t)
  PROVE  LossAllowed
<1>1. heap' = [heap EXCEPT ![b] = t] /\ ~Used(b) /\ t.zone # "NONE"
  BY DEF Wrap, Zones
<1>2. \A c \in Blocks : heap'[c].zone # "NONE" <=> (c = b \/ Used(c))
  BY <1>1 DEF IInv, TypeOK, Used
<1>3. CASE FitsTm(t.sec, t.zone)
  <2>1. ptr' = [ptr EXCEPT ![o] = b] BY <1>3 DEF Wrap
  <2>2. ptr[o] = Null \/ ptr[o] \notin Blocks
    BY DEF Wrap, IInv, BlocksAreOwned
  <2>3. \A c \in Blocks : c \in Lost' <=> c \in Lost
    BY <1>1, <1>2, <2>1, <2>2, TimeAssumption DEF Lost, Used, IInv, TypeOK
  <2> QED BY <2>3 DEF Lost, LossAllowed
<1>4. CASE ~FitsTm(t.sec, t.zone)
  <2>1. ptr' = ptr /\ raised' = "OutOfRange" BY <1>4 DEF Wrap
  <2> QED BY <2>1, <1>2 DEF Lost, Used, LossAllowed
<1> QED BY <1>3, <1>4

\* Making an object loses what LossAllowed allows only.
LEMMA MakeLoss ==
  ASSUME IInv, NEW o \in Objects, NEW d \in Int, NEW h \in Int,
         NEW zone \in Zones, Make(o, d, h, zone)
  PROVE  LossAllowed
<1>1. CASE \E b \in Blocks : Wrap(o, b, TimeOf(d, h, zone))
  <2>1. PICK b \in Blocks : Wrap(o, b, TimeOf(d, h, zone)) BY <1>1
  <2>2. TimeOf(d, h, zone) \in Structs /\ TimeOf(d, h, zone).zone \in Zones
    BY TimeOfType
  <2> QED BY <2>1, <2>2, WrapLoss
<1>2. CASE Raise("OutOfRange") BY <1>2 DEF Raise, Lost, Used, LossAllowed
<1> QED BY <1>1, <1>2 DEF Make

\* free of the block an object lets go of loses nothing.
LEMMA FreedLoss ==
  ASSUME IInv, NEW o \in Objects, heap' = Freed(o),
         ptr' = [ptr EXCEPT ![o] = Null]
  PROVE  Lost' = Lost
<1>1. CASE ptr[o] = Null
  BY <1>1 DEF Freed, Lost, Used, IInv, TypeOK
<1>2. CASE ptr[o] # Null
  <2>1. heap' = [heap EXCEPT ![ptr[o]] = Free] BY <1>2 DEF Freed
  <2>2. \A b \in Blocks : b \in Lost' <=> b \in Lost
    BY <2>1, FreeType, TimeAssumption DEF Lost, Used, IInv, TypeOK
  <2> QED BY <2>2 DEF Lost
<1> QED BY <1>1, <1>2

\* Every step loses what LossAllowed allows only.
LEMMA LossStep == IInv /\ [Next]_vars => [LossAllowed]_vars
<1> SUFFICES ASSUME IInv, Next PROVE LossAllowed
  BY DEF LossAllowed
<1> USE TimeAssumption
<1>0. Halves \in Nat /\ Halves > 0 BY DEF Halves
<1>1. \A sec \in Dates : sec \in Int BY <1>0 DEF Dates
<1>2. ASSUME NEW p \in Objects, Initialized(p)
      PROVE  /\ ptr[p] \in Blocks /\ Time(p) \in Structs
             /\ Time(p).sec \in Int /\ Time(p).usec \in Int
             /\ Time(p).zone \in Zones
  <2>1. ptr[p] \in Blocks /\ Used(ptr[p])
    BY <1>2 DEF Initialized, IInv, TypeOK, BlocksAreOwned
  <2> QED BY <2>1 DEF Time, Used, IInv, TypeOK, Structs, Zones
<1>3. ASSUME NEW o \in Objects, At(o) PROVE LossAllowed
  BY <1>3, MakeLoss DEF At, Zones
<1>4. ASSUME NEW o \in Objects, Utc(o) PROVE LossAllowed
  <2>1. PICK sec \in Dates, u \in Usecs :
          Raise("NotValid") \/ Make(o, sec * Halves, 2 * u, "UTC")
    BY <1>4 DEF Utc
  <2>2. sec * Halves \in Int /\ 2 * u \in Int /\ "UTC" \in Zones
    BY <1>0, <1>1 DEF Zones
  <2>3. CASE Raise("NotValid") BY <2>3 DEF Raise, Lost, Used, LossAllowed
  <2> QED BY <2>1, <2>2, <2>3, MakeLoss
<1>5. ASSUME NEW o \in Objects, NEW p \in Objects,
             Plus(o, p) \/ MinusFloat(o, p)
      PROVE  LossAllowed
  <2>1. Initialized(p) BY <1>5 DEF Plus, MinusFloat
  <2>2. PICK f \in Int :
          Make(o, PlusSec(Time(p), f), 2 * Time(p).usec, Time(p).zone)
    BY <1>5 DEF Plus, MinusFloat
  <2>3. PlusSec(Time(p), f) \in Int /\ 2 * Time(p).usec \in Int
    BY <1>0, <1>2, <2>1 DEF PlusSec
  <2> QED BY <1>2, <2>1, <2>2, <2>3, MakeLoss
<1>6. ASSUME NEW o \in Objects, NEW p \in Objects, GetUtc(o, p)
      PROVE  LossAllowed
  <2>1. PICK b \in Blocks : Wrap(o, b, InUtc(Time(p))) BY <1>6 DEF GetUtc
  <2>2. InUtc(Time(p)) \in Structs /\ InUtc(Time(p)).zone = "UTC"
    BY <1>2, <1>6, InUtcType DEF GetUtc
  <2> QED BY <2>1, <2>2, WrapLoss DEF Zones
<1>7. ASSUME NEW p \in Objects, UtcInPlace(p) PROVE LossAllowed
  <2>1. ptr[p] \in Blocks /\ ptr' = ptr BY <1>2, <1>7 DEF UtcInPlace
  <2>2. \A b \in Blocks \ {ptr[p]} : heap'[b] = heap[b]
    BY <2>1, <1>7 DEF UtcInPlace, IInv, TypeOK
  <2>3. \A b \in Blocks : b \in Lost' <=> b \in Lost
    BY <2>1, <2>2 DEF Lost, Used
  <2> QED BY <2>3 DEF Lost, LossAllowed
<1>8. ASSUME NEW o \in Objects, Initialize(o) PROVE LossAllowed
  <2>1. PICK sec \in Dates, u \in Usecs :
          LET t == TimeOf(sec * Halves, 2 * u, "UTC") IN
          \/ heap' = Freed(o) /\ DropPointer(o)
          \/ \E b \in Blocks :
               /\ Freed(o)[b].zone = "NONE"
               /\ heap' = [Freed(o) EXCEPT ![b] = t]
               /\ \/ ptr' = [ptr EXCEPT ![o] = b]
                  \/ DropPointer(o) /\ raised' = "OutOfRange"
    BY <1>8 DEF Initialize
  <2> DEFINE t == TimeOf(sec * Halves, 2 * u, "UTC")
  <2>2. t \in Structs /\ t.zone = "UTC" BY <1>0, <1>1, TimeOfType DEF Zones
  <2> HIDE DEF t
  <2>3. CASE heap' = Freed(o) /\ DropPointer(o)
    BY <2>3, FreedLoss DEF DropPointer, LossAllowed
  <2>4. ASSUME NEW b \in Blocks, Freed(o)[b].zone = "NONE",
               heap' = [Freed(o) EXCEPT ![b] = t],
               \/ ptr' = [ptr EXCEPT ![o] = b]
               \/ DropPointer(o) /\ raised' = "OutOfRange"
        PROVE  LossAllowed
    <3>1. \A c \in Blocks \ {b} : heap'[c] = Freed(o)[c]
      BY <2>4, FreedType
    <3>2. heap'[b].zone = "UTC" BY <2>2, <2>4, FreedType
    <3>3. \A c \in Blocks : Freed(o)[c].zone # "NONE" <=>
            (Used(c) /\ ptr[o] # c)
      <4>1. ptr[o] # Null => Used(ptr[o]) BY DEF IInv, BlocksAreOwned
      <4> QED BY FreeType DEF Freed, Used, IInv, TypeOK
    <3>4. b \notin Lost BY <2>4, <3>3 DEF Lost
    <3>5. \A c \in Blocks \ {b} : c \in Lost' <=> c \in Lost
      BY <2>4, <3>1, <3>3 DEF Lost, Used, DropPointer, IInv, TypeOK
    <3>6. CASE ptr' = [ptr EXCEPT ![o] = b]
      <4>1. b \notin Lost' BY <3>6 DEF Lost, IInv, TypeOK
      <4> QED BY <3>4, <3>5, <4>1 DEF Lost, LossAllowed
    <3>7. CASE raised' = "OutOfRange"
      BY <3>4, <3>5, <3>7 DEF Lost, LossAllowed
    <3> QED BY <2>4, <3>6, <3>7
  <2> QED BY <2>1, <2>3, <2>4 DEF t
<1>9. ASSUME NEW o \in Objects, NEW p \in Objects, InitializeCopy(o, p)
      PROVE  LossAllowed
  <2>1. PICK b \in BlockOfCopy(o) :
          ptr' = [ptr EXCEPT ![o] = b] /\ heap' = [heap EXCEPT ![b] = Time(p)]
    BY <1>9 DEF InitializeCopy
  <2>2. b \in Blocks /\ (b = ptr[o] \/ (~Used(b) /\ ptr[o] = Null))
    BY DEF BlockOfCopy, IInv, TypeOK
  <2>3. \A c \in Blocks : c \in Lost' <=> c \in Lost
    BY <2>1, <2>2 DEF Lost, Used, IInv, TypeOK
  <2> QED BY <2>3 DEF Lost, LossAllowed
<1>10. ASSUME NEW o \in Objects, Collect(o) PROVE LossAllowed
  BY <1>10, FreedLoss DEF Collect, LossAllowed
<1>11. ASSUME NEW o \in Objects, Allocate(o) \/ UseUninitialized(o)
       PROVE  LossAllowed
  BY <1>11 DEF Allocate, UseUninitialized, Raise, Lost, Used, LossAllowed
<1> QED BY <1>3, <1>4, <1>5, <1>6, <1>7, <1>8, <1>9, <1>10, <1>11 DEF Next

\* A block is only lost by an operation that raises "out of Time range".
THEOREM OnlyRangeErrorsLose == Spec => LossNeedsRangeError
<1>1. IInv /\ [Next]_vars => [LossAllowed]_vars BY LossStep
<1> QED BY <1>1, Invariance, PTL DEF Spec, LossNeedsRangeError, LossAllowed

------------------------------------------------------------------------------
(* Sums, on top of IInv.                                                    *)

\* llround is off by half a unit at most, on either side of zero.
LEMMA LlroundIsNear ==
  ASSUME NEW h \in Int
  PROVE  Llround(h) \in Int /\ 2 * Llround(h) - h \in {-1, 0, 1}
<1>1. CASE h >= 0 BY <1>1, SMT DEF Llround
<1>2. CASE h < 0 BY <1>2, SMT DEF Llround
<1> QED BY <1>1, <1>2

\* The two loops move whole seconds only.
LEMMA CarryKeepsInstant ==
  ASSUME NEW sec \in Int, NEW usec \in Int
  PROVE  Carry(sec, usec)[1] * UsecPerSec + Carry(sec, usec)[2]
           = sec * UsecPerSec + usec
<1> DEFINE q == usec \div UsecPerSec
<1>1. UsecPerSec \in Int /\ UsecPerSec > 0 BY TimeAssumption
<1>2. q \in Int /\ usec = q * UsecPerSec + (usec % UsecPerSec)
      /\ usec % UsecPerSec \in Int
  BY <1>1
<1>3. (sec + q) * UsecPerSec = sec * UsecPerSec + q * UsecPerSec
  BY <1>1, <1>2
<1>4. Carry(sec, usec)[1] = sec + q /\ Carry(sec, usec)[2] = usec % UsecPerSec
  BY DEF Carry
<1> QED BY <1>1, <1>2, <1>3, <1>4

\* time_alloc makes the instant of its two arguments, rounded to a
\* microsecond, wherever the seconds are cut.
LEMMA TimeOfIsNear ==
  ASSUME NEW d \in Int, NEW h \in Int, NEW zone \in Zones
  PROVE  LET t == TimeOf(d, h, zone)
         IN  /\ t.sec \in Int /\ t.usec \in Int
             /\ 2 * (t.sec * UsecPerSec + t.usec) - d - h \in {-1, 0, 1}
<1> DEFINE sec == Truncate(d)
           rest == d - sec * Halves + h
           c == Carry(sec, Llround(rest))
<1>1. UsecPerSec \in Int /\ Halves = 2 * UsecPerSec /\ Halves > 0
  BY TimeAssumption DEF Halves
<1>2. sec \in Int BY <1>1 DEF Truncate
<1>3. sec * Halves = 2 * (sec * UsecPerSec) /\ sec * UsecPerSec \in Int
  BY <1>1, <1>2
<1>4. rest \in Int BY <1>3
<1>5. Llround(rest) \in Int /\ 2 * Llround(rest) - rest \in {-1, 0, 1}
  BY <1>4, LlroundIsNear
<1>6. c[1] * UsecPerSec + c[2] = sec * UsecPerSec + Llround(rest)
  BY <1>2, <1>5, CarryKeepsInstant
<1>7. c[1] \in Int /\ c[2] \in Int
  <2>1. c \in Int \X (0..(UsecPerSec - 1)) BY <1>2, <1>5, CarryType
  <2> HIDE DEF c
  <2> QED BY <1>1, <2>1
<1>8. TimeOf(d, h, zone).sec = c[1] /\ TimeOf(d, h, zone).usec = c[2]
  BY DEF TimeOf
<1> HIDE DEF sec, c
<1>9. 2 * (c[1] * UsecPerSec + c[2]) - d - h = 2 * Llround(rest) - rest
  BY <1>3, <1>5, <1>6
<1> QED BY <1>5, <1>7, <1>8, <1>9

\* The difference of two times counts half microseconds from one instant to
\* the other.
LEMMA MinusIsDistance ==
  ASSUME NEW t1, NEW t2, t1.sec \in Int, t2.sec \in Int,
         t1.usec \in Int, t2.usec \in Int
  PROVE  Minus(t1, t2) = 2 * (t1.sec * UsecPerSec + t1.usec)
                           - 2 * (t2.sec * UsecPerSec + t2.usec)
<1>1. UsecPerSec \in Int /\ Halves = 2 * UsecPerSec
  BY TimeAssumption DEF Halves
<1>2. (t1.sec - t2.sec) * Halves
        = 2 * (t1.sec * UsecPerSec) - 2 * (t2.sec * UsecPerSec)
  BY <1>1
<1>3. t1.sec * UsecPerSec \in Int /\ t2.sec * UsecPerSec \in Int
  BY <1>1
<1> QED BY <1>1, <1>2, <1>3 DEF Minus

\* (t + f) - t is f but for half a microsecond that llround may add or take,
\* for every double, every time and every length of a second.
THEOREM SumsComeBack == Spec => []MinusUndoesPlus
<1>1. IInv => MinusUndoesPlus
  <2> SUFFICES ASSUME IInv, NEW o \in live, Initialized(o), NEW f \in Doubles
               PROVE  Minus(TimeOf(PlusSec(Time(o), f), 2 * Time(o).usec,
                                   Time(o).zone), Time(o)) - f
                        \in {-1, 0, 1}
    BY DEF MinusUndoesPlus
  <2> DEFINE t == Time(o)
             sum == TimeOf(PlusSec(t, f), 2 * t.usec, t.zone)
  <2>1. f \in Int /\ UsecPerSec \in Int /\ Halves = 2 * UsecPerSec
    BY TimeAssumption DEF Halves
  <2>2. t.sec \in Int /\ t.usec \in Int /\ t.zone \in Zones
    <3>1. ptr[o] \in Blocks /\ Used(ptr[o])
      BY DEF Initialized, IInv, TypeOK, BlocksAreOwned
    <3> QED BY <3>1 DEF Time, Used, IInv, TypeOK, Structs, Zones
  <2>3. PlusSec(t, f) = 2 * (t.sec * UsecPerSec) + f
        /\ t.sec * UsecPerSec \in Int
    BY <2>1, <2>2 DEF PlusSec
  <2>4. /\ sum.sec \in Int /\ sum.usec \in Int
        /\ 2 * (sum.sec * UsecPerSec + sum.usec) - PlusSec(t, f) - 2 * t.usec
             \in {-1, 0, 1}
    <3>1. PlusSec(t, f) \in Int /\ 2 * t.usec \in Int BY <2>1, <2>2, <2>3
    <3> QED BY <2>2, <3>1, TimeOfIsNear
  <2>5. Minus(sum, t) = 2 * (sum.sec * UsecPerSec + sum.usec)
                          - 2 * (t.sec * UsecPerSec + t.usec)
    BY <2>2, <2>4, MinusIsDistance
  <2> HIDE DEF sum, t
  <2>6. sum.sec * UsecPerSec \in Int BY <2>1, <2>4
  <2>7. Minus(sum, t) - f \in {-1, 0, 1}
    BY <2>1, <2>2, <2>3, <2>4, <2>5, <2>6
  <2> QED BY <2>7 DEF sum, t
<1> QED BY <1>1, Invariance, PTL

------------------------------------------------------------------------------
(* Broken-down times.                                                       *)

\* What DatetimeIsCurrent says of a struct, and of every block.
Current(t) ==
  \/ t.zone = "NONE"
  \/ t.datetime = BrokenDown(t.sec, t.zone)
  \/ t.zone = "UTC" /\ ~FitsTm(t.sec, "UTC")
BlocksAreCurrent == \A b \in Blocks : Current(heap[b])

\* time_alloc leaves a struct whose fields agree.
LEMMA TimeOfIsCurrent ==
  ASSUME NEW d, NEW h, NEW zone
  PROVE  Current(TimeOf(d, h, zone))
BY DEF Current, TimeOf

\* A struct put into a block leaves the others as they are.
LEMMA StoreCurrent ==
  ASSUME IInv, BlocksAreCurrent, NEW b \in Blocks, NEW t, Current(t),
         heap' = [heap EXCEPT ![b] = t]
  PROVE  BlocksAreCurrent'
BY DEF BlocksAreCurrent, IInv, TypeOK

\* Freeing leaves every other struct as it was.
LEMMA FreedCurrent ==
  ASSUME IInv, BlocksAreCurrent, NEW o \in Objects
  PROVE  \A b \in Blocks : Current(Freed(o)[b])
BY DEF Freed, BlocksAreCurrent, Current, Free, IInv, TypeOK

\* Every operation that fills a block or changes its zone breaks its seconds
\* down anew, or raises because they cannot be.
LEMMA CurrentStep ==
  IInv /\ BlocksAreCurrent /\ [Next]_vars => BlocksAreCurrent'
<1> SUFFICES ASSUME IInv, BlocksAreCurrent, [Next]_vars
             PROVE  BlocksAreCurrent'
  OBVIOUS
<1>1. ASSUME heap' = heap PROVE BlocksAreCurrent'
  BY <1>1 DEF BlocksAreCurrent
<1>2. ASSUME NEW o, NEW b \in Blocks, NEW t, Current(t), Wrap(o, b, t)
      PROVE  BlocksAreCurrent'
  BY <1>2, StoreCurrent DEF Wrap
<1>3. ASSUME NEW o, NEW d, NEW h, NEW zone, Make(o, d, h, zone)
      PROVE  BlocksAreCurrent'
  BY <1>1, <1>2, <1>3, TimeOfIsCurrent DEF Make, Raise
<1>4. ASSUME NEW p \in Objects, Initialized(p) PROVE ptr[p] \in Blocks
  BY <1>4 DEF Initialized, IInv, TypeOK
<1>5. ASSUME NEW o \in Objects,
             \/ At(o) \/ Utc(o)
             \/ \E p \in Objects : Plus(o, p) \/ MinusFloat(o, p)
      PROVE  BlocksAreCurrent'
  BY <1>1, <1>3, <1>5 DEF At, Utc, Plus, MinusFloat, Raise
<1>6. ASSUME NEW o \in Objects, NEW p \in Objects, GetUtc(o, p)
      PROVE  BlocksAreCurrent'
  <2>1. PICK b \in Blocks : Wrap(o, b, InUtc(Time(p))) BY <1>6 DEF GetUtc
  <2>2. Time(p) \in Structs
    BY <1>4, <1>6 DEF GetUtc, Time, IInv, TypeOK
  <2>3. Current(InUtc(Time(p))) BY <2>2 DEF Current, InUtc, Structs
  <2> QED BY <1>2, <2>1, <2>3
<1>7. ASSUME NEW p \in Objects, UtcInPlace(p) PROVE BlocksAreCurrent'
  <2>1. ptr[p] \in Blocks /\ Time(p) = heap[ptr[p]]
        /\ heap[ptr[p]] \in Structs
    BY <1>4, <1>7 DEF UtcInPlace, Time, IInv, TypeOK
  <2>2. CASE heap' = [heap EXCEPT ![ptr[p]] = InUtc(@)]
    <3>1. Current(InUtc(heap[ptr[p]])) BY <2>1 DEF Current, InUtc, Structs
    <3> QED BY <2>1, <2>2, <3>1, StoreCurrent
  <2>3. CASE ~FitsTm(Time(p).sec, "UTC")
             /\ \E old \in {Time(p).datetime, {}} :
                  heap' = [heap EXCEPT ![ptr[p]].zone = "UTC",
                                       ![ptr[p]].datetime = old]
    <3>1. PICK old \in {Time(p).datetime, {}} :
            heap' = [heap EXCEPT ![ptr[p]].zone = "UTC",
                                 ![ptr[p]].datetime = old]
      BY <2>3
    <3> DEFINE t == [Time(p) EXCEPT !.zone = "UTC", !.datetime = old]
    <3>2. Current(t) BY <2>1, <2>3 DEF Current, Structs
    <3>3. heap' = [heap EXCEPT ![ptr[p]] = t]
      BY <2>1, <3>1 DEF IInv, TypeOK
    <3> QED BY <2>1, <3>2, <3>3, StoreCurrent
  <2> QED BY <1>7, <2>2, <2>3 DEF UtcInPlace
<1>8. ASSUME NEW o \in Objects, Initialize(o) PROVE BlocksAreCurrent'
  <2>1. PICK sec \in Dates, u \in Usecs :
          \/ heap' = Freed(o)
          \/ \E b \in Blocks :
               heap' = [Freed(o) EXCEPT ![b] =
                          TimeOf(sec * Halves, 2 * u, "UTC")]
    BY <1>8 DEF Initialize
  <2>2. Current(TimeOf(sec * Halves, 2 * u, "UTC")) BY TimeOfIsCurrent
  <2>3. DOMAIN Freed(o) = Blocks BY FreedType
  <2> HIDE DEF TimeOf
  <2> QED BY <2>1, <2>2, <2>3, FreedCurrent, FreedType DEF BlocksAreCurrent
<1>9. ASSUME NEW o \in Objects, NEW p \in Objects, InitializeCopy(o, p)
      PROVE  BlocksAreCurrent'
  <2>1. PICK b \in BlockOfCopy(o) : heap' = [heap EXCEPT ![b] = Time(p)]
    BY <1>9 DEF InitializeCopy
  <2>2. b \in Blocks BY DEF BlockOfCopy, IInv, TypeOK
  <2>3. Current(Time(p))
    BY <1>4, <1>9 DEF InitializeCopy, Time, BlocksAreCurrent
  <2> QED BY <2>1, <2>2, <2>3, StoreCurrent
<1>10. ASSUME NEW o \in Objects, Collect(o) PROVE BlocksAreCurrent'
  BY <1>10, FreedCurrent DEF Collect, BlocksAreCurrent
<1>11. ASSUME NEW o \in Objects, Allocate(o) \/ UseUninitialized(o)
       PROVE  BlocksAreCurrent'
  BY <1>1, <1>11 DEF Allocate, UseUninitialized, Raise
<1>12. CASE UNCHANGED vars
  BY <1>1, <1>12 DEF vars
<1> QED BY <1>5, <1>6, <1>7, <1>8, <1>9, <1>10, <1>11, <1>12 DEF Next

\* What a reader of a date sees belongs to the seconds of the Time in its own
\* zone, whatever copies, zone changes and failures came before; only a utc
\* that failed leaves it behind.
THEOREM DatesStayCurrent == Spec => []DatetimeIsCurrent
<1>1. Init => BlocksAreCurrent
  BY DEF Init, BlocksAreCurrent, Current, Free
<1>2. IInv /\ BlocksAreCurrent => DatetimeIsCurrent
  <2> SUFFICES ASSUME IInv, BlocksAreCurrent, NEW o \in live, Initialized(o)
               PROVE  \/ Time(o).datetime
                           = BrokenDown(Time(o).sec, Time(o).zone)
                      \/ Time(o).zone = "UTC" /\ ~FitsTm(Time(o).sec, "UTC")
    BY DEF DatetimeIsCurrent
  <2>1. ptr[o] \in Blocks /\ Used(ptr[o])
    BY DEF Initialized, IInv, TypeOK, BlocksAreOwned
  <2> QED BY <2>1 DEF Used, Time, BlocksAreCurrent, Current
<1> QED BY <1>1, <1>2, CurrentStep, Invariance, PTL DEF Spec

------------------------------------------------------------------------------
(* timegm.                                                                  *)

YearLength(y) == IF IsLeapyear(y) THEN 366 ELSE 365

\* The first loop obeys its recursion.
LEMMA DaysOfYearsDef ==
  /\ DaysOfYears \in [Nat -> Int]
  /\ \A n \in Nat :
       DaysOfYears[n] =
         IF n = 0 THEN 0 ELSE DaysOfYears[n - 1] + YearLength(1969 + n)
<1> DEFINE step == [n \in Nat |-> [a \in Int |-> a + YearLength(1969 + n)]]
           Counts(f) == f = [n \in Nat |-> IF n = 0 THEN 0
                                       ELSE f[n - 1] + YearLength(1969 + n)]
<1>1. step \in [Nat -> [Int -> Int]]
  BY DEF YearLength
<1>2. PICK f \in [Nat -> Int] :
           f = [n \in Nat |-> IF n = 0 THEN 0 ELSE step[n][f[n - 1]]]
  <2> HIDE DEF step
  <2>1. \A base \in Int : \E f \in [Nat -> Int] :
           f = [n \in Nat |-> IF n = 0 THEN base ELSE step[n][f[n - 1]]]
    BY <1>1, IntRecursionExists, Zenon
  <2>2. 0 \in Int
    OBVIOUS
  <2> QED
    BY <2>1, <2>2, Zenon
<1>3. ASSUME NEW n \in Nat
      PROVE  f[n] = IF n = 0 THEN 0 ELSE f[n - 1] + YearLength(1969 + n)
  <2>1. CASE n = 0
    BY <1>2, <2>1
  <2>2. CASE n # 0
    <3>1. n - 1 \in Nat /\ f[n - 1] \in Int
      BY <2>2
    <3>2. f[n] = step[n][f[n - 1]]
      BY <1>2, <2>2
    <3> QED
      BY <2>2, <3>1, <3>2
  <2> QED
    BY <2>1, <2>2
<1>4. Counts(f)
  BY <1>3
<1>5. DaysOfYears = CHOOSE g : Counts(g)
  BY DEF DaysOfYears, YearLength
<1> HIDE DEF Counts
<1>6. Counts(DaysOfYears)
  BY <1>4, <1>5
<1>7. \A n \in Nat : DaysOfYears[n] \in Int
  <2> DEFINE Good == {n \in Nat : DaysOfYears[n] \in Int}
  <2>1. 0 \in Good
    BY <1>6 DEF Counts
  <2>2. ASSUME NEW n \in Nat, n \in Good
        PROVE  n + 1 \in Good
    <3>1. DaysOfYears[n + 1] = DaysOfYears[n] + YearLength(1969 + (n + 1))
      BY <1>6 DEF Counts
    <3> QED
      BY <2>2, <3>1 DEF YearLength
  <2> HIDE DEF Good
  <2>3. \A n \in Nat : n \in Good
    BY <2>1, <2>2, NatIsInductive
  <2> QED
    BY <2>3 DEF Good
<1> QED
  BY <1>6, <1>7 DEF Counts

------------------------------------------------------------------------------
(* The second loop, and the table it adds up.                               *)

\* The table has a number of days for each month.
LEMMA NDaysType ==
  ASSUME NEW y \in Int
  PROVE  \A n \in 1..12 : NDays(y)[n] \in Int
<1> SUFFICES ASSUME NEW n \in 1..12
             PROVE  NDays(y)[n] \in Int
  OBVIOUS
<1>1. \/ n = 1 \/ n = 2 \/ n = 3 \/ n = 4 \/ n = 5 \/ n = 6
      \/ n = 7 \/ n = 8 \/ n = 9 \/ n = 10 \/ n = 11 \/ n = 12
  OBVIOUS
<1> QED
  BY <1>1 DEF NDays

\* The second loop obeys its recursion.
LEMMA DaysOfMonthsDef ==
  ASSUME NEW y \in Int
  PROVE  /\ DaysOfMonths(y) \in [0..11 -> Int]
         /\ DaysOfMonths(y)[0] = 0
         /\ \A n \in 1..11 :
              DaysOfMonths(y)[n] = DaysOfMonths(y)[n - 1] + NDays(y)[n]
<1> DEFINE step == [n \in 1..11 |-> [a \in Int |-> a + NDays(y)[n]]]
           Counts(f) == f = [n \in 0..11 |-> IF n = 0 THEN 0
                                         ELSE f[n - 1] + NDays(y)[n]]
<1>1. step \in [1..11 -> [Int -> Int]]
  BY NDaysType
<1>2. PICK f \in [0..11 -> Int] :
           f = [n \in 0..11 |-> IF n = 0 THEN 0 ELSE step[n][f[n - 1]]]
  <2> HIDE DEF step
  <2>1. 11 \in Nat /\ 0 \in Int
    OBVIOUS
  <2> QED
    BY <1>1, <2>1, IntRecursionUpToExists, Zenon
<1>3. ASSUME NEW n \in 0..11
      PROVE  f[n] = IF n = 0 THEN 0 ELSE f[n - 1] + NDays(y)[n]
  <2>1. CASE n = 0
    BY <1>2, <2>1
  <2>2. CASE n # 0
    <3>1. n \in 1..11 /\ n - 1 \in 0..11 /\ f[n - 1] \in Int
      BY <2>2
    <3>2. f[n] = step[n][f[n - 1]]
      BY <1>2, <2>2
    <3> QED
      BY <2>2, <3>1, <3>2
  <2> QED
    BY <2>1, <2>2
<1>4. Counts(f)
  BY <1>3
<1>5. DaysOfMonths(y) = CHOOSE g : Counts(g)
  BY DEF DaysOfMonths
<1> HIDE DEF Counts
<1>6. Counts(DaysOfMonths(y))
  BY <1>4, <1>5
<1>7. DaysOfMonths(y)[0] = 0
  BY <1>6 DEF Counts
<1>8. \A n \in 1..11 :
        DaysOfMonths(y)[n] = DaysOfMonths(y)[n - 1] + NDays(y)[n]
  BY <1>6 DEF Counts
<1>9. \A n \in 0..11 : DaysOfMonths(y)[n] \in Int
  <2> DEFINE Good == {n \in Nat : n <= 11 => DaysOfMonths(y)[n] \in Int}
  <2>1. 0 \in Good
    BY <1>7
  <2>2. ASSUME NEW n \in Nat, n \in Good
        PROVE  n + 1 \in Good
    <3>1. CASE n + 1 <= 11
      <4>1. n + 1 \in 1..11 /\ (n + 1) - 1 = n
        BY <3>1
      <4>2. DaysOfMonths(y)[n + 1] = DaysOfMonths(y)[n] + NDays(y)[n + 1]
        BY <1>8, <4>1
      <4>3. NDays(y)[n + 1] \in Int
        BY <4>1, NDaysType
      <4> QED
        BY <2>2, <3>1, <4>2, <4>3
    <3> QED
      BY <3>1
  <2> HIDE DEF Good
  <2>3. \A n \in Nat : n \in Good
    BY <2>1, <2>2, NatIsInductive
  <2> QED
    BY <2>3 DEF Good
<1>10. DaysOfMonths(y) \in [0..11 -> Int]
  BY <1>6, <1>9 DEF Counts
<1> QED
  BY <1>7, <1>8, <1>10

\* The table and the rule of the calendar say the same of every month.
LastOf(y, m) ==
  CASE m = 2 -> LastOfFebruary(y)
    [] m \in {4, 6, 9, 11} -> 30
    [] OTHER -> 31

\* is_leapyear is the rule of the calendar.
LEMMA LeapRulesAgree ==
  ASSUME NEW y \in Int
  PROVE  LastOfFebruary(y) = IF IsLeapyear(y) THEN 29 ELSE 28
<1>1. y % 400 = 0 => y % 4 = 0 /\ y % 100 = 0
  OBVIOUS
<1>2. y % 100 = 0 => y % 4 = 0
  OBVIOUS
<1> QED
  BY <1>1, <1>2 DEF LastOfFebruary, IsLeapyear

\* The table of months is the calendar's.
LEMMA TableIsTheRule ==
  ASSUME NEW y \in Int, NEW m \in 1..12
  PROVE  NDays(y)[m] = LastOf(y, m)
<1>1. \/ m = 1 \/ m = 2 \/ m = 3 \/ m = 4 \/ m = 5 \/ m = 6
      \/ m = 7 \/ m = 8 \/ m = 9 \/ m = 10 \/ m = 11 \/ m = 12
  OBVIOUS
<1> QED
  BY <1>1, LeapRulesAgree DEF NDays, LastOf

\* Eleven months and December are a year.
LEMMA MonthsMakeAYear ==
  ASSUME NEW y \in Int
  PROVE  DaysOfMonths(y)[11] + 31 = YearLength(y)
<1> DEFINE d == DaysOfMonths(y)
<1>1. d[0] = 0 /\ \A n \in 1..11 : d[n] = d[n - 1] + NDays(y)[n]
  BY DaysOfMonthsDef
<1> HIDE DEF d
<1>2. /\ d[1] = d[0] + NDays(y)[1]   /\ d[2] = d[1] + NDays(y)[2]
      /\ d[3] = d[2] + NDays(y)[3]   /\ d[4] = d[3] + NDays(y)[4]
      /\ d[5] = d[4] + NDays(y)[5]   /\ d[6] = d[5] + NDays(y)[6]
      /\ d[7] = d[6] + NDays(y)[7]   /\ d[8] = d[7] + NDays(y)[8]
      /\ d[9] = d[8] + NDays(y)[9]   /\ d[10] = d[9] + NDays(y)[10]
      /\ d[11] = d[10] + NDays(y)[11]
  BY <1>1
<1>3. d[11] = 306 + NDays(y)[2]
  BY <1>1, <1>2 DEF NDays
<1> QED
  BY <1>3 DEF d, NDays, YearLength

------------------------------------------------------------------------------
(* A year that ends adds what the first loop adds for it.                   *)

\* From one first of January to the next is a year's length.
LEMMA NewYearSteps ==
  ASSUME NEW y \in Int
  PROVE  NewYear(y + 1) = NewYear(y) + YearLength(y)
<1>1. y \div 4 = (y - 1) \div 4 + (IF y % 4 = 0 THEN 1 ELSE 0)
  OBVIOUS
<1>2. y \div 100 = (y - 1) \div 100 + (IF y % 100 = 0 THEN 1 ELSE 0)
  OBVIOUS
<1>3. y \div 400 = (y - 1) \div 400 + (IF y % 400 = 0 THEN 1 ELSE 0)
  OBVIOUS
<1>4. (y % 400 = 0 => y % 100 = 0) /\ (y % 100 = 0 => y % 4 = 0)
  OBVIOUS
<1> QED
  BY <1>1, <1>2, <1>3, <1>4 DEF NewYear, YearLength, IsLeapyear

\* The first loop adds up the years from 1970 on.
LEMMA LoopCountsYears ==
  \A n \in Nat : DaysOfYears[n] = NewYear(1970 + n)
<1> DEFINE Good == {n \in Nat : DaysOfYears[n] = NewYear(1970 + n)}
<1>1. 0 \in Good
  <2>1. NewYear(1970 + 0) = 0
    BY DEF NewYear
  <2> QED
    BY <2>1, DaysOfYearsDef
<1>2. ASSUME NEW n \in Nat, n \in Good
      PROVE  n + 1 \in Good
  <2>1. DaysOfYears[n + 1] = DaysOfYears[n] + YearLength(1969 + (n + 1))
    BY DaysOfYearsDef
  <2>2. NewYear((1970 + n) + 1) = NewYear(1970 + n) + YearLength(1970 + n)
    BY NewYearSteps
  <2>3. 1969 + (n + 1) = 1970 + n /\ 1970 + (n + 1) = (1970 + n) + 1
    OBVIOUS
  <2> QED
    BY <1>2, <2>1, <2>2, <2>3
<1> HIDE DEF Good
<1>3. \A n \in Nat : n \in Good
  BY <1>1, <1>2, NatIsInductive
<1> QED
  BY <1>3 DEF Good

------------------------------------------------------------------------------
(* The walk.                                                                *)

\* A date of the calendar.
DateOK ==
  /\ year \in Int /\ year >= FirstYear
  /\ mon \in 1..12
  /\ mday \in 1..LastOfMonth

\* The count of the walk, whatever year it began in.
CountOK == day = NewYear(year) + DaysOfMonths(year)[mon - 1] + mday - 1

DateInv == DateOK /\ CountOK

\* The last day of a month is the one in the table.
LEMMA LastOfMonthIs ==
  ASSUME year \in Int, mon \in 1..12
  PROVE  LastOfMonth = NDays(year)[mon] /\ LastOfMonth \in 28..31
<1>1. LastOfMonth = LastOf(year, mon)
  BY DEF LastOfMonth, LastOf
<1> QED
  BY <1>1, TableIsTheRule, LeapRulesAgree DEF LastOf

\* DateInv holds on the first day.
LEMMA CalendarStarts ==
  ASSUME FirstYear \in Int, CalendarInit
  PROVE  DateInv
<1>1. year \in Int /\ year = FirstYear /\ mon \in 1..12 /\ mday = 1
  BY DEF CalendarInit
<1>2. DateOK
  BY <1>1, LastOfMonthIs DEF DateOK
<1>3. DaysOfMonths(year)[0] = 0
  BY <1>1, DaysOfMonthsDef
<1>4. NewYear(year) \in Int
  BY <1>1 DEF NewYear
<1> QED
  BY <1>2, <1>3, <1>4 DEF DateInv, CountOK, CalendarInit

\* DateInv holds on the next day.
LEMMA CalendarGoesOn ==
  ASSUME FirstYear \in Int, DateInv, [NextDay]_dateVars
  PROVE  DateInv'
<1>1. CASE UNCHANGED dateVars
  BY <1>1 DEF dateVars, DateInv, DateOK, CountOK, LastOfMonth
<1> SUFFICES ASSUME NextDay
             PROVE  DateInv'
  BY <1>1
<1>2. /\ year \in Int /\ year >= FirstYear /\ mon \in 1..12
      /\ mday \in 1..LastOfMonth
      /\ LastOfMonth = NDays(year)[mon] /\ LastOfMonth \in 28..31
  BY LastOfMonthIs DEF DateInv, DateOK
<1>3. /\ DaysOfMonths(year)[mon - 1] \in Int
      /\ NewYear(year) \in Int
      /\ day = NewYear(year) + DaysOfMonths(year)[mon - 1] + mday - 1
      /\ day' = day + 1
  <2>1. mon - 1 \in 0..11
    BY <1>2
  <2>2. DaysOfMonths(year)[mon - 1] \in Int
    BY <1>2, <2>1, DaysOfMonthsDef
  <2>3. NewYear(year) \in Int
    BY <1>2 DEF NewYear
  <2> QED
    BY <2>2, <2>3 DEF DateInv, CountOK, NextDay
\* Another day of the month.
<1>4. CASE mday < LastOfMonth /\ mday' = mday + 1 /\ UNCHANGED <<mon, year>>
  <2>1. LastOfMonth' = LastOfMonth
    BY <1>4 DEF LastOfMonth
  <2> QED
    BY <1>2, <1>3, <1>4, <2>1 DEF DateInv, DateOK, CountOK
\* The next month: the second loop adds the one that ends.
<1>5. CASE mday = LastOfMonth /\ mon < 12 /\ mday' = 1 /\ mon' = mon + 1
           /\ UNCHANGED year
  <2>1. year' \in Int /\ mon' \in 1..12 /\ mon' - 1 = mon /\ mon \in 1..11
    BY <1>2, <1>5
  <2>2. LastOfMonth' \in 28..31
    <3>1. LastOfMonth' = LastOf(year', mon')
      BY DEF LastOfMonth, LastOf
    <3> QED
      BY <2>1, <3>1, LeapRulesAgree DEF LastOf
  <2>3. DaysOfMonths(year)[mon] = DaysOfMonths(year)[mon - 1] + NDays(year)[mon]
    BY <1>2, <2>1, DaysOfMonthsDef
  <2> QED
    BY <1>2, <1>3, <1>5, <2>1, <2>2, <2>3 DEF DateInv, DateOK, CountOK
\* The next year: the first loop adds the one that ends.
<1>6. CASE mday = LastOfMonth /\ mon = 12 /\ mday' = 1 /\ mon' = 1
           /\ year' = year + 1
  <2>1. LastOfMonth' = 31 /\ LastOfMonth = 31
    BY <1>6 DEF LastOfMonth
  <2>2. NewYear(year + 1) = NewYear(year) + YearLength(year)
    BY <1>2, NewYearSteps
  <2>3. DaysOfMonths(year)[11] + 31 = YearLength(year)
    BY <1>2, MonthsMakeAYear
  <2>4. DaysOfMonths(year + 1)[0] = 0
    BY <1>2, DaysOfMonthsDef
  <2>5. year + 1 \in Int /\ YearLength(year) \in Int
    BY <1>2 DEF YearLength
  <2> QED
    BY <1>2, <1>3, <1>6, <2>1, <2>2, <2>3, <2>4, <2>5 DEF DateInv, DateOK, CountOK
<1> QED
  BY <1>4, <1>5, <1>6 DEF NextDay, Today

\* DateInv gives CountsTheDays from 1970 on.
LEMMA CountFollows ==
  ASSUME DateInv, year >= 1970
  PROVE  CountsTheDays
<1>1. year \in Int /\ year - 1970 \in Nat /\ 1970 + (year - 1970) = year
  BY DEF DateInv, DateOK
<1>2. DaysOfYears[year - 1970] = NewYear(year)
  BY <1>1, LoopCountsYears
<1>3. ~(year < 1970)
  BY <1>1
<1> QED
  BY <1>1, <1>2, <1>3 DEF DateInv, CountOK, CountsTheDays, Timegm

\* Whatever year the walk begins in, and however long it is, timegm agrees
\* with the calendar on every date from 1970 on.
THEOREM CountsFrom1970 ==
  ASSUME FirstYear \in Int
  PROVE  CalendarSpec => [](year >= 1970 => CountsTheDays)
<1>1. CalendarInit => DateInv
  BY CalendarStarts
<1>2. DateInv /\ [NextDay]_dateVars => DateInv'
  BY CalendarGoesOn
<1>3. DateInv => (year >= 1970 => CountsTheDays)
  BY CountFollows
<1> QED
  BY <1>1, <1>2, <1>3, PTL DEF CalendarSpec

\* A walk that begins in 1970 or later: timegm counts the days of each of its
\* dates, leap years, centuries and ends of months among them.
THEOREM CountsDays ==
  ASSUME FirstYear \in Int, FirstYear >= 1970
  PROVE  CalendarSpec => []CountsTheDays
<1>1. CalendarInit => DateInv
  BY CalendarStarts
<1>2. DateInv /\ [NextDay]_dateVars => DateInv'
  BY CalendarGoesOn
<1>3. DateInv => CountsTheDays
  <2>1. DateInv => year >= 1970
    BY DEF DateInv, DateOK
  <2> QED
    BY <2>1, CountFollows
<1> QED
  BY <1>1, <1>2, <1>3, PTL DEF CalendarSpec

------------------------------------------------------------------------------
(* What nests.                                                              *)

\* The recursion of NestedIn, followed to n.
UpTo(f, base, n) ==
  f = [i \in 0..n |-> base \cup Made(IF i = 0 THEN {} ELSE f[i - 1])]

\* The recursion of NestedIn can be followed to any depth.
LEMMA UpToExists ==
  ASSUME NEW base
  PROVE  \A n \in Nat : \E f : UpTo(f, base, n)
<1> DEFINE S == {n \in Nat : \E f : UpTo(f, base, n)}
<1>1. 0 \in S
  <2>1. UpTo([i \in 0..0 |-> base \cup Made({})], base, 0)
    BY DEF UpTo
  <2> QED
    BY <2>1
<1>2. ASSUME NEW n \in Nat, n \in S
      PROVE  n + 1 \in S
  <2>1. PICK f : UpTo(f, base, n)
    BY <1>2
  <2> DEFINE g == [i \in 0..(n + 1) |->
                     IF i = n + 1 THEN base \cup Made(f[n]) ELSE f[i]]
  <2>2. ASSUME NEW i \in 0..(n + 1)
        PROVE  g[i] = base \cup Made(IF i = 0 THEN {} ELSE g[i - 1])
    <3>1. CASE i = n + 1
      BY <3>1
    <3>2. CASE i # n + 1
      <4>1. i \in 0..n /\ (i # 0 => i - 1 \in 0..n /\ i - 1 \in 0..(n + 1) /\ i - 1 # n + 1)
        BY <3>2
      <4>2. f[i] = base \cup Made(IF i = 0 THEN {} ELSE f[i - 1])
        BY <2>1, <4>1 DEF UpTo
      <4> QED
        BY <3>2, <4>1, <4>2
    <3> QED
      BY <3>1, <3>2
  <2>3. UpTo(g, base, n + 1)
    BY <2>2 DEF UpTo
  <2> QED
    BY <2>3
<1> HIDE DEF S
<1>3. \A n \in Nat : n \in S
  BY <1>1, <1>2, NatIsInductive
<1> QED
  BY <1>3 DEF S

\* Whatever the depth it is followed to, it gives the same.
LEMMA UpToAgree ==
  ASSUME NEW base, NEW n \in Nat, NEW m \in Nat, n <= m,
         NEW f, UpTo(f, base, n), NEW g, UpTo(g, base, m)
  PROVE  f[n] = g[n]
<1> DEFINE S == {i \in Nat : i <= n => f[i] = g[i]}
<1>1. 0 \in S
  BY DEF UpTo
<1>2. ASSUME NEW i \in Nat, i \in S
      PROVE  i + 1 \in S
  <2> SUFFICES ASSUME i + 1 <= n
               PROVE  f[i + 1] = g[i + 1]
    OBVIOUS
  <2>1. f[i] = g[i]
    BY <1>2
  <2>2. i + 1 \in 0..n /\ i + 1 \in 0..m /\ i + 1 # 0 /\ (i + 1) - 1 = i
    OBVIOUS
  <2>3. f[i + 1] = base \cup Made(f[i])
    BY <2>2 DEF UpTo
  <2>4. g[i + 1] = base \cup Made(g[i])
    BY <2>2 DEF UpTo
  <2> QED
    BY <2>1, <2>3, <2>4
<1> HIDE DEF S
<1>3. \A i \in Nat : i \in S
  BY <1>1, <1>2, NatIsInductive
<1> QED
  BY <1>3 DEF S

\* NestedIn is what the recursion gives.
LEMMA NestedInUpTo ==
  ASSUME NEW base, NEW n \in Nat
  PROVE  \E f : UpTo(f, base, n) /\ NestedIn(base, n) = f[n]
<1> DEFINE F == CHOOSE f : f = [i \in 0..n |-> base \cup Made(IF i = 0 THEN {} ELSE f[i - 1])]
<1>0. \E f : UpTo(f, base, n)
  BY UpToExists
<1>1. \E f : f = [i \in 0..n |-> base \cup Made(IF i = 0 THEN {} ELSE f[i - 1])]
  BY <1>0, Zenon DEF UpTo
<1>2. F = [i \in 0..n |-> base \cup Made(IF i = 0 THEN {} ELSE F[i - 1])]
  BY <1>1
<1>3. NestedIn(base, n) = F[n]
  BY DEF NestedIn
<1> HIDE DEF F
<1>4. UpTo(F, base, n)
  BY <1>2 DEF UpTo
<1> QED
  BY <1>3, <1>4

\* What nests one level deeper.
LEMMA NestedAt ==
  ASSUME NEW base, NEW n \in Nat
  PROVE  NestedIn(base, n) = base \cup Made(IF n = 0 THEN {} ELSE NestedIn(base, n - 1))
<1>1. PICK f : UpTo(f, base, n) /\ NestedIn(base, n) = f[n]
  BY NestedInUpTo
<1>2. f[n] = base \cup Made(IF n = 0 THEN {} ELSE f[n - 1])
  <2>1. f = [i \in 0..n |-> base \cup Made(IF i = 0 THEN {} ELSE f[i - 1])]
    BY <1>1 DEF UpTo
  <2>2. n \in 0..n
    OBVIOUS
  <2> HIDE <1>1
  <2> QED
    BY <2>1, <2>2
<1>3. CASE n = 0
  BY <1>1, <1>2, <1>3
<1>4. CASE n # 0
  <2>1. n - 1 \in Nat
    BY <1>4
  <2>2. PICK g : UpTo(g, base, n - 1) /\ NestedIn(base, n - 1) = g[n - 1]
    BY <2>1, NestedInUpTo
  <2>3. f[n - 1] = g[n - 1]
    BY <1>1, <2>1, <2>2, UpToAgree
  <2> QED
    BY <1>1, <1>2, <1>4, <2>2, <2>3
<1> QED
  BY <1>3, <1>4

\* More contents make more containers.
LEMMA MadeIsMonotone ==
  ASSUME NEW S, NEW T, S \subseteq T
  PROVE  Made(S) \subseteq Made(T)
<1>1. Seq(S) \subseteq Seq(T) /\ Seq(S \X S) \subseteq Seq(T \X T)
  OBVIOUS
<1> QED
  BY <1>1 DEF Made

\* More leaves make more values.
LEMMA NestedInBase ==
  ASSUME NEW A, NEW B, A \subseteq B
  PROVE  \A n \in Nat : NestedIn(A, n) \subseteq NestedIn(B, n)
<1> DEFINE S == {n \in Nat : NestedIn(A, n) \subseteq NestedIn(B, n)}
<1>1. 0 \in S
  BY NestedAt
<1>2. ASSUME NEW n \in Nat, n \in S
      PROVE  n + 1 \in S
  <2>1. Made(NestedIn(A, n)) \subseteq Made(NestedIn(B, n))
    BY <1>2, MadeIsMonotone
  <2>2. NestedIn(A, n + 1) = A \cup Made(NestedIn(A, n))
        /\ NestedIn(B, n + 1) = B \cup Made(NestedIn(B, n))
    <3>1. n + 1 \in Nat /\ n + 1 # 0 /\ (n + 1) - 1 = n
      OBVIOUS
    <3> QED
      BY <3>1, NestedAt
  <2> QED
    BY <2>1, <2>2
<1> HIDE DEF S
<1>3. \A n \in Nat : n \in S
  BY <1>1, <1>2, NatIsInductive
<1> QED
  BY <1>3 DEF S

\* What nests in n levels nests in more.
LEMMA NestedInMore ==
  ASSUME NEW base
  PROVE  \A n \in Nat : NestedIn(base, n) \subseteq NestedIn(base, n + 1)
<1> DEFINE S == {n \in Nat : NestedIn(base, n) \subseteq NestedIn(base, n + 1)}
<1>0. \A n \in Nat : NestedIn(base, n + 1) = base \cup Made(NestedIn(base, n))
  <2> TAKE n \in Nat
  <2>1. n + 1 \in Nat /\ n + 1 # 0 /\ (n + 1) - 1 = n
    OBVIOUS
  <2> QED
    BY <2>1, NestedAt
<1>1. 0 \in S
  <2>1. Made({}) \subseteq Made(NestedIn(base, 0))
    BY MadeIsMonotone
  <2> QED
    BY <1>0, <2>1, NestedAt
<1>2. ASSUME NEW n \in Nat, n \in S
      PROVE  n + 1 \in S
  <2>1. Made(NestedIn(base, n)) \subseteq Made(NestedIn(base, n + 1))
    BY <1>2, MadeIsMonotone
  <2>2. n + 1 \in Nat
    OBVIOUS
  <2> QED
    BY <1>0, <2>1, <2>2
<1> HIDE DEF S
<1>3. \A n \in Nat : n \in S
  BY <1>1, <1>2, NatIsInductive
<1> QED
  BY <1>3 DEF S

\* What a container that nests at most n deep is made of.
Inside(base, n) == IF n = 0 THEN {} ELSE NestedIn(base, n - 1)

NoContainers(base) == \A b \in base : b.t \notin {"array", "hash"}

\* The contents of a container nest one level less.
LEMMA InsideIsNested ==
  ASSUME NEW base, NEW n \in Nat
  PROVE  /\ Inside(base, n) \subseteq NestedIn(base, n)
         /\ NestedIn(base, n) = base \cup Made(Inside(base, n))
<1>1. NestedIn(base, n) = base \cup Made(Inside(base, n))
  BY NestedAt DEF Inside
<1>2. CASE n = 0
  BY <1>1, <1>2 DEF Inside
<1>3. CASE n # 0
  <2>1. n - 1 \in Nat /\ (n - 1) + 1 = n
    BY <1>3
  <2>2. NestedIn(base, n - 1) \subseteq NestedIn(base, (n - 1) + 1)
    BY <2>1, NestedInMore
  <2> QED
    BY <1>1, <1>3, <2>1, <2>2 DEF Inside
<1> QED
  BY <1>2, <1>3

\* An array and a hash, by their contents.
LEMMA Contents ==
  ASSUME NEW base, NoContainers(base), NEW n \in Nat,
         NEW value \in NestedIn(base, n)
  PROVE  /\ value.t = "array" =>
              /\ value.v \in Seq(Inside(base, n))
              /\ value = [t |-> "array", v |-> value.v]
         /\ value.t = "hash" =>
              /\ value.v \in Seq(Inside(base, n) \X Inside(base, n))
              /\ KeysDiffer(value.v)
              /\ value = [t |-> "hash", v |-> value.v]
         /\ value.t \notin {"array", "hash"} => value \in base
<1>1. value \in base \/ value \in Made(Inside(base, n))
  BY InsideIsNested
<1>2. CASE value \in base
  BY <1>2 DEF NoContainers
<1>3. CASE value \in Made(Inside(base, n))
  BY <1>3 DEF Made
<1> QED
  BY <1>1, <1>2, <1>3

\* An array of values that nest is a value that nests.
LEMMA ArrayNests ==
  ASSUME NEW base, NEW n \in Nat, NEW s \in Seq(Inside(base, n))
  PROVE  [t |-> "array", v |-> s] \in NestedIn(base, n)
<1>1. [t |-> "array", v |-> s] \in Made(Inside(base, n))
  BY DEF Made
<1> QED
  BY <1>1, InsideIsNested

\* A hash of values that nest is a value that nests.
LEMMA HashNests ==
  ASSUME NEW base, NEW n \in Nat,
         NEW s \in Seq(Inside(base, n) \X Inside(base, n)), KeysDiffer(s)
  PROVE  [t |-> "hash", v |-> s] \in NestedIn(base, n)
<1>1. [t |-> "hash", v |-> s] \in Made(Inside(base, n))
  BY DEF Made
<1> QED
  BY <1>1, InsideIsNested

------------------------------------------------------------------------------
(* Setting the pairs of a hash one after the other.                         *)

\* Setting a key keeps the keys of a hash apart.
LEMMA AssocKeeps ==
  ASSUME NEW S, NEW pairs \in Seq(S), KeysDiffer(pairs), NEW p \in S
  PROVE  Assoc(pairs, p) \in Seq(S) /\ KeysDiffer(Assoc(pairs, p))
<1>1. CASE \E i \in DOMAIN pairs : pairs[i][1] = p[1]
  <2> DEFINE set == [i \in DOMAIN pairs |-> IF pairs[i][1] = p[1] THEN p ELSE pairs[i]]
  <2>1. Assoc(pairs, p) = set
    BY <1>1 DEF Assoc
  <2>2. set \in Seq(S) /\ DOMAIN set = DOMAIN pairs
    OBVIOUS
  <2>3. \A i \in DOMAIN pairs : set[i][1] = pairs[i][1]
    OBVIOUS
  <2> HIDE DEF set
  <2>4. KeysDiffer(set)
    BY <2>2, <2>3 DEF KeysDiffer
  <2> QED
    BY <2>1, <2>2, <2>4
<1>2. CASE ~\E i \in DOMAIN pairs : pairs[i][1] = p[1]
  <2> DEFINE set == Append(pairs, p)
  <2>1. Assoc(pairs, p) = set
    BY <1>2, Zenon DEF Assoc
  <2>2. set \in Seq(S) /\ DOMAIN set = DOMAIN pairs \cup {Len(pairs) + 1}
        /\ set[Len(pairs) + 1] = p
    OBVIOUS
  <2>3. \A i \in DOMAIN pairs : set[i] = pairs[i]
    OBVIOUS
  <2> HIDE DEF set
  <2>4. KeysDiffer(set)
    BY <1>2, <2>2, <2>3 DEF KeysDiffer
  <2> QED
    BY <2>1, <2>2, <2>4
<1> QED
  BY <1>1, <1>2

\* The loop of Associated, followed to m.
Sets(f, pairs, m) ==
  f = [i \in 0..m |-> IF i = 0 THEN <<>> ELSE Assoc(f[i - 1], pairs[i])]

\* The loop that sets the pairs can be followed.
LEMMA SetsExists ==
  ASSUME NEW pairs
  PROVE  \A m \in Nat : \E f : Sets(f, pairs, m)
<1> DEFINE S == {m \in Nat : \E f : Sets(f, pairs, m)}
<1>1. 0 \in S
  <2>1. Sets([i \in 0..0 |-> <<>>], pairs, 0)
    BY DEF Sets
  <2> QED
    BY <2>1
<1>2. ASSUME NEW m \in Nat, m \in S
      PROVE  m + 1 \in S
  <2>1. PICK f : Sets(f, pairs, m)
    BY <1>2
  <2> DEFINE g == [i \in 0..(m + 1) |->
                     IF i = m + 1 THEN Assoc(f[m], pairs[m + 1]) ELSE f[i]]
  <2>2. ASSUME NEW i \in 0..(m + 1)
        PROVE  g[i] = IF i = 0 THEN <<>> ELSE Assoc(g[i - 1], pairs[i])
    <3>1. CASE i = m + 1
      <4>1. i # 0 /\ i - 1 = m /\ m \in 0..(m + 1) /\ m # m + 1
        BY <3>1
      <4> QED
        BY <3>1, <4>1
    <3>2. CASE i # m + 1
      <4>1. i \in 0..m /\ (i # 0 => i - 1 \in 0..(m + 1) /\ i - 1 # m + 1)
        BY <3>2
      <4>2. f[i] = IF i = 0 THEN <<>> ELSE Assoc(f[i - 1], pairs[i])
        BY <2>1, <4>1 DEF Sets
      <4> QED
        BY <3>2, <4>1, <4>2
    <3> QED
      BY <3>1, <3>2
  <2>3. Sets(g, pairs, m + 1)
    BY <2>2 DEF Sets
  <2> QED
    BY <2>3
<1> HIDE DEF S
<1>3. \A m \in Nat : m \in S
  BY <1>1, <1>2, NatIsInductive
<1> QED
  BY <1>3 DEF S

\* One more pair is set.
LEMMA SetsStep ==
  ASSUME NEW pairs, NEW m \in Nat, NEW f, Sets(f, pairs, m),
         NEW i \in Nat, i + 1 <= m
  PROVE  f[i + 1] = Assoc(f[i], pairs[i + 1])
<1>1. i + 1 \in 0..m /\ i + 1 # 0 /\ (i + 1) - 1 = i
  OBVIOUS
<1>2. f = [j \in 0..m |-> IF j = 0 THEN <<>> ELSE Assoc(f[j - 1], pairs[j])]
  BY DEF Sets
<1>3. f[i + 1] = IF i + 1 = 0 THEN <<>> ELSE Assoc(f[(i + 1) - 1], pairs[i + 1])
  BY <1>1, <1>2
<1> QED
  BY <1>1, <1>3

\* Associated is what the loop ends with.
LEMMA AssociatedSets ==
  ASSUME NEW pairs, Len(pairs) \in Nat
  PROVE  \E f : Sets(f, pairs, Len(pairs)) /\ Associated(pairs) = f[Len(pairs)]
<1> DEFINE F == CHOOSE f : f = [i \in 0..Len(pairs) |->
                  IF i = 0 THEN <<>> ELSE Assoc(f[i - 1], pairs[i])]
<1>0. \E f : Sets(f, pairs, Len(pairs))
  BY SetsExists
<1>1. \E f : f = [i \in 0..Len(pairs) |->
                    IF i = 0 THEN <<>> ELSE Assoc(f[i - 1], pairs[i])]
  BY <1>0, Zenon DEF Sets
<1>2. F = [i \in 0..Len(pairs) |->
             IF i = 0 THEN <<>> ELSE Assoc(F[i - 1], pairs[i])]
  BY <1>1
<1>3. Associated(pairs) = F[Len(pairs)]
  BY DEF Associated
<1> HIDE DEF F
<1>4. Sets(F, pairs, Len(pairs))
  BY <1>2 DEF Sets
<1> QED
  BY <1>3, <1>4

\* Whatever the pairs, no key of the hash comes twice.
LEMMA AssociatedKeepsKeysApart ==
  ASSUME NEW S, NEW pairs \in Seq(S)
  PROVE  Associated(pairs) \in Seq(S) /\ KeysDiffer(Associated(pairs))
<1>1. PICK f : Sets(f, pairs, Len(pairs)) /\ Associated(pairs) = f[Len(pairs)]
  BY AssociatedSets
<1> DEFINE T == {i \in Nat : i <= Len(pairs) => f[i] \in Seq(S) /\ KeysDiffer(f[i])}
<1>2. 0 \in T
  <2>1. f[0] = <<>>
    BY <1>1 DEF Sets
  <2>2. <<>> \in Seq(S) /\ DOMAIN <<>> = {}
    OBVIOUS
  <2>3. KeysDiffer(<<>>)
    BY <2>2 DEF KeysDiffer
  <2> QED
    BY <2>1, <2>2, <2>3
<1>3. ASSUME NEW i \in Nat, i \in T
      PROVE  i + 1 \in T
  <2> SUFFICES ASSUME i + 1 <= Len(pairs)
               PROVE  f[i + 1] \in Seq(S) /\ KeysDiffer(f[i + 1])
    OBVIOUS
  <2>1. f[i + 1] = Assoc(f[i], pairs[i + 1])
    BY <1>1, SetsStep
  <2>2. pairs[i + 1] \in S /\ f[i] \in Seq(S) /\ KeysDiffer(f[i])
    BY <1>3
  <2> QED
    BY <2>1, <2>2, AssocKeeps
<1> HIDE DEF T
<1>4. \A i \in Nat : i \in T
  BY <1>2, <1>3, NatIsInductive
<1> QED
  BY <1>1, <1>4 DEF T

\* Pairs with different keys are the pairs of the hash, in their order.
LEMMA AssociatedIsSame ==
  ASSUME NEW S, NEW pairs \in Seq(S), KeysDiffer(pairs)
  PROVE  Associated(pairs) = pairs
<1>1. PICK f : Sets(f, pairs, Len(pairs)) /\ Associated(pairs) = f[Len(pairs)]
  BY AssociatedSets
<1> DEFINE T == {i \in Nat : i <= Len(pairs) => f[i] = SubSeq(pairs, 1, i)}
<1>2. 0 \in T
  <2>1. f[0] = <<>>
    BY <1>1 DEF Sets
  <2>2. SubSeq(pairs, 1, 0) = <<>>
    OBVIOUS
  <2> QED
    BY <2>1, <2>2
<1>3. ASSUME NEW i \in Nat, i \in T
      PROVE  i + 1 \in T
  <2> SUFFICES ASSUME i + 1 <= Len(pairs)
               PROVE  f[i + 1] = SubSeq(pairs, 1, i + 1)
    OBVIOUS
  <2> DEFINE s == SubSeq(pairs, 1, i)
  <2>1. f[i + 1] = Assoc(s, pairs[i + 1])
    <3>1. f[i + 1] = Assoc(f[i], pairs[i + 1])
      BY <1>1, SetsStep
    <3>2. f[i] = s
      BY <1>3
    <3> HIDE DEF s
    <3> QED
      BY <3>1, <3>2
  <2>2. DOMAIN s = 1..i /\ \A j \in 1..i : s[j] = pairs[j]
    OBVIOUS
  <2>3. SubSeq(pairs, 1, i + 1) = Append(s, pairs[i + 1])
    OBVIOUS
  <2> HIDE DEF s
  <2>4. ~\E j \in DOMAIN s : s[j][1] = pairs[i + 1][1]
    BY <2>2 DEF KeysDiffer
  <2>5. Assoc(s, pairs[i + 1]) = Append(s, pairs[i + 1])
    BY <2>4, Zenon DEF Assoc
  <2> QED
    BY <2>1, <2>3, <2>5
<1> HIDE DEF T
<1>4. \A i \in Nat : i \in T
  BY <1>2, <1>3, NatIsInductive
<1>5. f[Len(pairs)] = SubSeq(pairs, 1, Len(pairs))
  BY <1>4 DEF T
<1> QED
  BY <1>1, <1>5

------------------------------------------------------------------------------
(* The two recursions.  Below the limit nothing is asked of deeper calls,   *)
(* so there is a function that solves each of the equations.                *)

\* What one depth does, given what the next does.
GuestLevel(deeper, depth) ==
  [value \in HostVals |-> [x \in Excs |-> GuestCopy(value, deeper, depth, x)]]

\* f is what the recursion says from depth k on.
GuestFrom(f, k) ==
  f = [depth \in {d \in Nat : d >= k} |-> GuestLevel(f[depth + 1], depth)]

\* Below the limit, nothing deeper is looked at.
LEMMA GuestLevelBelowLimit ==
  ASSUME NEW depth \in Nat, depth > DepthMax, NEW a, NEW b
  PROVE  GuestLevel(a, depth) = GuestLevel(b, depth)
  BY DEF GuestLevel, GuestCopy

\* The recursion to the guest has values, from the limit up.
LEMMA GuestFromExists ==
  \A r \in Nat : r <= DepthMax + 1 => \E f : GuestFrom(f, DepthMax + 1 - r)
<1> DEFINE S == {r \in Nat : r <= DepthMax + 1 => \E f : GuestFrom(f, DepthMax + 1 - r)}
<1>0. DepthMax \in Nat
  BY MarshalAssumption
<1>1. 0 \in S
  <2> DEFINE f == [depth \in {d \in Nat : d >= DepthMax + 1} |-> GuestLevel(0, depth)]
  <2>1. ASSUME NEW depth \in {d \in Nat : d >= DepthMax + 1}
        PROVE  f[depth] = GuestLevel(f[depth + 1], depth)
    <3>1. depth \in Nat /\ depth > DepthMax
      BY <1>0
    <3>2. f[depth] = GuestLevel(0, depth)
      OBVIOUS
    <3> HIDE DEF f
    <3> QED
      BY <3>1, <3>2, GuestLevelBelowLimit
  <2>2. GuestFrom(f, DepthMax + 1)
    BY <2>1 DEF GuestFrom
  <2>3. DepthMax + 1 - 0 = DepthMax + 1
    BY <1>0
  <2> HIDE DEF f
  <2> QED
    BY <2>2, <2>3
<1>2. ASSUME NEW r \in Nat, r \in S
      PROVE  r + 1 \in S
  <2> SUFFICES ASSUME r + 1 <= DepthMax + 1
               PROVE  \E f : GuestFrom(f, DepthMax + 1 - (r + 1))
    OBVIOUS
  <2> DEFINE k == DepthMax + 1 - (r + 1)
  <2>0. k \in Nat /\ DepthMax + 1 - r = k + 1 /\ r <= DepthMax + 1
    BY <1>0
  <2>1. PICK f : GuestFrom(f, k + 1)
    BY <1>2, <2>0
  <2> HIDE DEF k
  <2> DEFINE g == [depth \in {d \in Nat : d >= k} |->
                     IF depth = k THEN GuestLevel(f[k + 1], k) ELSE f[depth]]
  <2>2. ASSUME NEW depth \in {d \in Nat : d >= k}
        PROVE  g[depth] = GuestLevel(g[depth + 1], depth)
    <3>1. g[depth + 1] = f[depth + 1]
      BY <2>0
    <3>2. g[depth] = IF depth = k THEN GuestLevel(f[k + 1], k) ELSE f[depth]
      OBVIOUS
    <3> HIDE DEF g
    <3>3. CASE depth = k
      BY <3>1, <3>2, <3>3
    <3>4. CASE depth # k
      <4>1. depth \in {d \in Nat : d >= k + 1}
        BY <2>0, <3>4
      <4>2. f[depth] = GuestLevel(f[depth + 1], depth)
        BY <2>1, <4>1 DEF GuestFrom
      <4> QED
        BY <3>1, <3>2, <3>4, <4>2
    <3> QED
      BY <3>3, <3>4
  <2>3. GuestFrom(g, k)
    BY <2>2 DEF GuestFrom
  <2> HIDE DEF g
  <2> QED
    BY <2>3 DEF k
<1> HIDE DEF S
<1>3. \A r \in Nat : r \in S
  BY <1>1, <1>2, NatIsInductive
<1> QED
  BY <1>3 DEF S

\* The recursion to the guest, at every depth.
LEMMA ToGuestAt ==
  ASSUME NEW depth \in Nat
  PROVE  ToGuest[depth] = GuestLevel(ToGuest[depth + 1], depth)
<1>0. DepthMax \in Nat
  BY MarshalAssumption
<1>1. PICK f : GuestFrom(f, 0)
  <2>1. DepthMax + 1 \in Nat /\ DepthMax + 1 - (DepthMax + 1) = 0
    BY <1>0
  <2> QED
    BY <2>1, GuestFromExists
<1>2. {d \in Nat : d >= 0} = Nat
  OBVIOUS
<1>3. f = [d \in Nat |-> GuestLevel(f[d + 1], d)]
  BY <1>1, <1>2 DEF GuestFrom
<1>4. ToGuest = CHOOSE g : g = [d \in Nat |-> GuestLevel(g[d + 1], d)]
  BY DEF ToGuest, GuestLevel
<1>5. ToGuest = [d \in Nat |-> GuestLevel(ToGuest[d + 1], d)]
  BY <1>3, <1>4
<1> QED
  BY <1>5

HostLevel(deeper, depth) ==
  [value \in GuestVals |-> HostCopy(value, deeper, depth)]

\* f is what the recursion says from depth k on.
HostFrom(f, k) ==
  f = [depth \in {d \in Nat : d >= k} |-> HostLevel(f[depth + 1], depth)]

\* Below the limit, nothing deeper is looked at.
LEMMA HostLevelBelowLimit ==
  ASSUME NEW depth \in Nat, depth > DepthMax, NEW a, NEW b
  PROVE  HostLevel(a, depth) = HostLevel(b, depth)
  BY DEF HostLevel, HostCopy, DeeperThanMax

\* The recursion to the host has values, from the limit up.
LEMMA HostFromExists ==
  \A r \in Nat : r <= DepthMax + 1 => \E f : HostFrom(f, DepthMax + 1 - r)
<1> DEFINE S == {r \in Nat : r <= DepthMax + 1 => \E f : HostFrom(f, DepthMax + 1 - r)}
<1>0. DepthMax \in Nat
  BY MarshalAssumption
<1>1. 0 \in S
  <2> DEFINE f == [depth \in {d \in Nat : d >= DepthMax + 1} |-> HostLevel(0, depth)]
  <2>1. ASSUME NEW depth \in {d \in Nat : d >= DepthMax + 1}
        PROVE  f[depth] = HostLevel(f[depth + 1], depth)
    <3>1. depth \in Nat /\ depth > DepthMax
      BY <1>0
    <3>2. f[depth] = HostLevel(0, depth)
      OBVIOUS
    <3> HIDE DEF f
    <3> QED
      BY <3>1, <3>2, HostLevelBelowLimit
  <2>2. HostFrom(f, DepthMax + 1)
    BY <2>1 DEF HostFrom
  <2>3. DepthMax + 1 - 0 = DepthMax + 1
    BY <1>0
  <2> HIDE DEF f
  <2> QED
    BY <2>2, <2>3
<1>2. ASSUME NEW r \in Nat, r \in S
      PROVE  r + 1 \in S
  <2> SUFFICES ASSUME r + 1 <= DepthMax + 1
               PROVE  \E f : HostFrom(f, DepthMax + 1 - (r + 1))
    OBVIOUS
  <2> DEFINE k == DepthMax + 1 - (r + 1)
  <2>0. k \in Nat /\ DepthMax + 1 - r = k + 1 /\ r <= DepthMax + 1
    BY <1>0
  <2>1. PICK f : HostFrom(f, k + 1)
    BY <1>2, <2>0
  <2> HIDE DEF k
  <2> DEFINE g == [depth \in {d \in Nat : d >= k} |->
                     IF depth = k THEN HostLevel(f[k + 1], k) ELSE f[depth]]
  <2>2. ASSUME NEW depth \in {d \in Nat : d >= k}
        PROVE  g[depth] = HostLevel(g[depth + 1], depth)
    <3>1. g[depth + 1] = f[depth + 1]
      BY <2>0
    <3>2. g[depth] = IF depth = k THEN HostLevel(f[k + 1], k) ELSE f[depth]
      OBVIOUS
    <3> HIDE DEF g
    <3>3. CASE depth = k
      BY <3>1, <3>2, <3>3
    <3>4. CASE depth # k
      <4>1. depth \in {d \in Nat : d >= k + 1}
        BY <2>0, <3>4
      <4>2. f[depth] = HostLevel(f[depth + 1], depth)
        BY <2>1, <4>1 DEF HostFrom
      <4> QED
        BY <3>1, <3>2, <3>4, <4>2
    <3> QED
      BY <3>3, <3>4
  <2>3. HostFrom(g, k)
    BY <2>2 DEF HostFrom
  <2> HIDE DEF g
  <2> QED
    BY <2>3 DEF k
<1> HIDE DEF S
<1>3. \A r \in Nat : r \in S
  BY <1>1, <1>2, NatIsInductive
<1> QED
  BY <1>3 DEF S

\* The recursion to the host, at every depth.
LEMMA ToHostAt ==
  ASSUME NEW depth \in Nat
  PROVE  ToHost[depth] = HostLevel(ToHost[depth + 1], depth)
<1>0. DepthMax \in Nat
  BY MarshalAssumption
<1>1. PICK f : HostFrom(f, 0)
  <2>1. DepthMax + 1 \in Nat /\ DepthMax + 1 - (DepthMax + 1) = 0
    BY <1>0
  <2> QED
    BY <2>1, HostFromExists
<1>2. {d \in Nat : d >= 0} = Nat
  OBVIOUS
<1>3. f = [d \in Nat |-> HostLevel(f[d + 1], d)]
  BY <1>1, <1>2 DEF HostFrom
<1>4. ToHost = CHOOSE g : g = [d \in Nat |-> HostLevel(g[d + 1], d)]
  BY DEF ToHost, HostLevel
<1>5. ToHost = [d \in Nat |-> HostLevel(ToHost[d + 1], d)]
  BY <1>3, <1>4
<1> QED
  BY <1>5

\* From the deepest level upwards.
LEMMA DepthInduction ==
  ASSUME NEW S,
         \A depth \in Nat : depth > DepthMax => depth \in S,
         \A depth \in Nat : depth <= DepthMax /\ depth + 1 \in S => depth \in S
  PROVE  \A depth \in Nat : depth \in S
<1>0. DepthMax \in Nat
  BY MarshalAssumption
<1> DEFINE T == {r \in Nat : r <= DepthMax => DepthMax - r \in S}
<1>1. 0 \in T
  <2>1. DepthMax + 1 \in S
    BY <1>0
  <2> QED
    BY <1>0, <2>1
<1>2. ASSUME NEW r \in Nat, r \in T
      PROVE  r + 1 \in T
  <2> SUFFICES ASSUME r + 1 <= DepthMax
               PROVE  DepthMax - (r + 1) \in S
    OBVIOUS
  <2>1. DepthMax - r \in S
    BY <1>0, <1>2
  <2>2. DepthMax - (r + 1) \in Nat /\ DepthMax - (r + 1) + 1 = DepthMax - r
        /\ DepthMax - (r + 1) <= DepthMax
    BY <1>0
  <2> QED
    BY <2>1, <2>2
<1> HIDE DEF T
<1>3. \A r \in Nat : r \in T
  BY <1>1, <1>2, NatIsInductive
<1>4. ASSUME NEW depth \in Nat, depth <= DepthMax
      PROVE  depth \in S
  <2>1. DepthMax - depth \in Nat /\ DepthMax - (DepthMax - depth) = depth
        /\ DepthMax - depth <= DepthMax
    BY <1>0, <1>4
  <2>2. DepthMax - (DepthMax - depth) \in S
    BY <1>3, <2>1 DEF T
  <2> QED
    BY <2>1, <2>2
<1> QED
  BY <1>0, <1>4

------------------------------------------------------------------------------
(* One call, type by type.                                                  *)

\* All copies succeed, or the answer is one that failed.
LEMMA UnlessFailedCases ==
  ASSUME NEW copies, DOMAIN copies \subseteq Nat, NEW made
  PROVE  \/ /\ \A i \in DOMAIN copies : copies[i].err = "NoErr"
            /\ UnlessFailed(copies, made) = Copied(made, "none")
         \/ \E i \in DOMAIN copies :
              copies[i].err # "NoErr" /\ UnlessFailed(copies, made) = copies[i]
<1> DEFINE failed == {i \in DOMAIN copies : copies[i].err # "NoErr"}
           first == CHOOSE i \in failed : \A j \in failed : i <= j
<1>1. UnlessFailed(copies, made) =
        IF failed = {} THEN Copied(made, "none") ELSE copies[first]
  BY DEF UnlessFailed
<1>2. CASE failed = {}
  BY <1>1, <1>2
<1>3. CASE failed # {}
  <2>1. failed \in SUBSET Nat
    OBVIOUS
  <2> HIDE DEF failed
  <2>2. \E i \in failed : \A j \in failed : i <= j
    BY <1>3, <2>1, HasSmallest
  <2>3. first \in failed
    BY <2>2
  <2> HIDE DEF first
  <2> QED
    BY <1>1, <1>3, <2>3 DEF failed
<1> QED
  BY <1>2, <1>3

\* Leaves are neither arrays nor hashes.
LEMMA LeavesAreNoContainers ==
  /\ NoContainers(HostLeaves) /\ NoContainers(HostLeaves \cup {Loop})
  /\ NoContainers(GuestLeaves) /\ NoContainers(GuestLeaves \cup {Loop})
  /\ NoContainers(Utf8Leaves \cup {Loop})
  BY DEF NoContainers, HostLeaves, HostSymbols, GuestLeaves, Utf8Leaves, Plain, Immediate, Loop

\* The contents of a host's value are host's values.
LEMMA HostValsAt ==
  ASSUME NEW value \in HostVals
  PROVE  /\ value.t = "array" =>
              value.v \in Seq(HostVals) /\ value = [t |-> "array", v |-> value.v]
         /\ value.t = "hash" =>
              /\ value.v \in Seq(HostVals \X HostVals)
              /\ KeysDiffer(value.v) /\ value = [t |-> "hash", v |-> value.v]
         /\ value.t \notin {"array", "hash"} => value \in HostLeaves \cup {Loop}
         /\ value.t \in Immediate
              \cup {"object", "symbol", "fixnum", "string", "array", "hash", "loop"}
         /\ Loop \in HostVals
<1> DEFINE base == HostLeaves \cup {Loop}
           in == Inside(base, MaxNesting)
<1>1. MaxNesting \in Nat /\ value \in NestedIn(base, MaxNesting)
  BY MarshalAssumption DEF HostVals
<1>2. in \subseteq HostVals /\ base \subseteq HostVals
  BY <1>1, InsideIsNested DEF HostVals
<1> HIDE DEF base, in
<1>3. Seq(in) \subseteq Seq(HostVals) /\ Seq(in \X in) \subseteq Seq(HostVals \X HostVals)
  BY <1>2
<1>4. /\ value.t = "array" =>
           value.v \in Seq(in) /\ value = [t |-> "array", v |-> value.v]
      /\ value.t = "hash" =>
           /\ value.v \in Seq(in \X in)
           /\ KeysDiffer(value.v) /\ value = [t |-> "hash", v |-> value.v]
      /\ value.t \notin {"array", "hash"} => value \in base
  BY <1>1, LeavesAreNoContainers, Contents DEF base, in
<1>5. value \in base => value.t \in Immediate
              \cup {"object", "symbol", "fixnum", "string", "array", "hash", "loop"}
  BY DEF base, HostLeaves, HostSymbols, Plain, Loop
<1> QED
  BY <1>2, <1>3, <1>4, <1>5 DEF base

\* The contents of a guest's value are guest's values.
LEMMA GuestValsAt ==
  ASSUME NEW value \in GuestVals
  PROVE  /\ value.t = "array" =>
              value.v \in Seq(GuestVals) /\ value = [t |-> "array", v |-> value.v]
         /\ value.t = "hash" =>
              /\ value.v \in Seq(GuestVals \X GuestVals)
              /\ KeysDiffer(value.v) /\ value = [t |-> "hash", v |-> value.v]
         /\ value.t \notin {"array", "hash"} => value \in GuestLeaves \cup {Loop}
         /\ value.t \in Immediate
              \cup {"object", "symbol", "fixnum", "string", "array", "hash", "loop"}
         /\ Loop \in GuestVals
<1> DEFINE base == GuestLeaves \cup {Loop}
           in == Inside(base, MaxNesting)
<1>1. MaxNesting \in Nat /\ value \in NestedIn(base, MaxNesting)
  BY MarshalAssumption DEF GuestVals
<1>2. in \subseteq GuestVals /\ base \subseteq GuestVals
  BY <1>1, InsideIsNested DEF GuestVals
<1> HIDE DEF base, in
<1>3. Seq(in) \subseteq Seq(GuestVals) /\ Seq(in \X in) \subseteq Seq(GuestVals \X GuestVals)
  BY <1>2
<1>4. /\ value.t = "array" =>
           value.v \in Seq(in) /\ value = [t |-> "array", v |-> value.v]
      /\ value.t = "hash" =>
           /\ value.v \in Seq(in \X in)
           /\ KeysDiffer(value.v) /\ value = [t |-> "hash", v |-> value.v]
      /\ value.t \notin {"array", "hash"} => value \in base
  BY <1>1, LeavesAreNoContainers, Contents DEF base, in
<1>5. value \in base => value.t \in Immediate
              \cup {"object", "symbol", "fixnum", "string", "array", "hash", "loop"}
  BY DEF base, GuestLeaves, Plain, Loop
<1> QED
  BY <1>2, <1>3, <1>4, <1>5 DEF base

GuestElements(s, depth) == [i \in DOMAIN s |-> ToGuest[depth + 1][s[i]]["none"]]
GuestPairs(s, depth) ==
  [i \in DOMAIN s |-> GuestPair(s[i], ToGuest[depth + 1], "none")]

\* What each type of host's value becomes, case by case.
LEMMA GuestCopies ==
  ASSUME NEW depth \in Nat, NEW value \in HostVals, NEW x \in Excs,
         NEW c, c = ToGuest[depth][value][x]
  PROVE  /\ depth > DepthMax => c = Failed("TooDeep", x)
         /\ depth <= DepthMax =>
              /\ value.t \in Immediate => c = Copied(value, x)
              /\ value.t = "fixnum" => c = CheckException(value, x)
              /\ value.t \in {"string", "symbol"} =>
                   c = CheckException([t |-> value.t, v |-> value.v], x)
              /\ value.t = "object" => c = Failed("Unsupported", x)
              /\ value.t \in {"array", "hash", "loop"} /\ x = "error" =>
                   c = Failed("GuestErr", "none")
              /\ value.t = "array" /\ x # "error" =>
                   c = ArrayOf(GuestElements(value.v, depth))
              /\ value.t = "loop" /\ x # "error" =>
                   c = ArrayOf(GuestElements(<<value>>, depth))
              /\ value.t = "hash" /\ x # "error" =>
                   c = HashOf(GuestPairs(value.v, depth))
<1>0. DepthMax \in Nat
  BY MarshalAssumption
<1> DEFINE deeper == ToGuest[depth + 1]
<1>1. c = GuestCopy(value, deeper, depth, x)
  <2>1. ToGuest[depth] = GuestLevel(deeper, depth)
    BY ToGuestAt
  <2> HIDE DEF deeper
  <2> QED
    BY <2>1 DEF GuestLevel
<1>2. GuestElements(value.v, depth) = [i \in DOMAIN value.v |-> deeper[value.v[i]]["none"]]
      /\ GuestElements(<<value>>, depth) = [i \in DOMAIN <<value>> |-> deeper[<<value>>[i]]["none"]]
      /\ GuestPairs(value.v, depth) = [i \in DOMAIN value.v |-> GuestPair(value.v[i], deeper, "none")]
  BY DEF GuestElements, GuestPairs
<1> HIDE DEF deeper
<1>3. depth > DepthMax => c = Failed("TooDeep", x)
  BY <1>0, <1>1 DEF GuestCopy
<1>4. /\ CheckException(<<>>, "error") = Failed("GuestErr", "none")
      /\ x # "error" => CheckException(<<>>, x) = Copied(<<>>, "none")
      /\ Failed("GuestErr", "none").err = "GuestErr"
      /\ Copied(<<>>, "none").err = "NoErr" /\ Copied(<<>>, "none").exc = "none"
  BY DEF CheckException, Failed, Copied
<1>5. ASSUME NEW s
      PROVE  /\ x = "error" => GuestArray(s, deeper, x) = Failed("GuestErr", "none")
             /\ x # "error" =>
                  GuestArray(s, deeper, x) = ArrayOf([i \in DOMAIN s |-> deeper[s[i]]["none"]])
             /\ x = "error" => GuestHash(s, deeper, x) = Failed("GuestErr", "none")
             /\ x # "error" =>
                  GuestHash(s, deeper, x) = HashOf([i \in DOMAIN s |-> GuestPair(s[i], deeper, "none")])
  <2>1. CASE x = "error"
    BY <1>4, <2>1 DEF GuestArray, GuestHash
  <2>2. CASE x # "error"
    BY <1>4, <2>2 DEF GuestArray, GuestHash
  <2> QED
    BY <2>1, <2>2
<1>6. CASE depth <= DepthMax
  <2>1. ~(depth > DepthMax)
    BY <1>0, <1>6
  <2>2. value.t \in Immediate => c = Copied(value, x)
    BY <1>1, <2>1 DEF GuestCopy, Immediate
  <2>3. value.t = "fixnum" => c = CheckException(value, x)
    BY <1>1, <2>1 DEF GuestCopy, Immediate
  <2>4. value.t \in {"string", "symbol"} => c = CheckException([t |-> value.t, v |-> value.v], x)
    BY <1>1, <2>1 DEF GuestCopy, Immediate
  <2>5. value.t = "object" => c = Failed("Unsupported", x)
    BY <1>1, <2>1 DEF GuestCopy, Immediate
  <2>6. value.t = "array" => c = GuestArray(value.v, deeper, x)
    BY <1>1, <2>1 DEF GuestCopy, Immediate
  <2>7. value.t = "loop" => c = GuestArray(<<value>>, deeper, x)
    BY <1>1, <2>1 DEF GuestCopy, Immediate
  <2>8. value.t = "hash" => c = GuestHash(value.v, deeper, x)
    BY <1>1, <2>1 DEF GuestCopy, Immediate
  <2>9. value.t \in {"array", "hash", "loop"} /\ x = "error" => c = Failed("GuestErr", "none")
    BY <1>5, <2>6, <2>7, <2>8
  <2>10. value.t = "array" /\ x # "error" => c = ArrayOf(GuestElements(value.v, depth))
    BY <1>2, <1>5, <2>6
  <2>11. value.t = "loop" /\ x # "error" => c = ArrayOf(GuestElements(<<value>>, depth))
    BY <1>2, <1>5, <2>7
  <2>12. value.t = "hash" /\ x # "error" => c = HashOf(GuestPairs(value.v, depth))
    BY <1>2, <1>5, <2>8
  <2> QED
    BY <1>0, <1>6, <2>2, <2>3, <2>4, <2>5, <2>9, <2>10, <2>11, <2>12
<1> QED
  BY <1>0, <1>3, <1>6

HostElements(s, depth) == [i \in DOMAIN s |-> ToHost[depth + 1][s[i]]]
HostPairs(s, depth) == [i \in DOMAIN s |-> HostPair(s[i], ToHost[depth + 1])]

\* What each type of guest's value becomes, case by case.
LEMMA HostCopies ==
  ASSUME NEW depth \in Nat, NEW value \in GuestVals,
         NEW c, c = ToHost[depth][value]
  PROVE  /\ depth > DepthMax => c = Failed("TooDeep", "none")
         /\ depth <= DepthMax =>
              /\ value.t \in Immediate => c = Copied(value, "none")
              /\ value.t = "symbol" /\ value.v \in Utf8Texts =>
                   c = Copied(HostSymbol(value.v), "none")
              /\ value.t = "symbol" /\ value.v \notin Utf8Texts =>
                   c = Failed("EncodingError", "none")
              /\ value.t = "fixnum" /\ value.v \in HostFixnums => c = Copied(value, "none")
              /\ value.t = "fixnum" /\ value.v \notin HostFixnums =>
                   c = Failed("OutOfRange", "none")
              /\ value.t = "string" => c = Copied(HostString(value.v), "none")
              /\ value.t = "object" => c = Failed("Unsupported", "none")
              /\ value.t = "array" => c = ArrayOf(HostElements(value.v, depth))
              /\ value.t = "loop" => c = ArrayOf(HostElements(<<value>>, depth))
              /\ value.t = "hash" => c = HashOf(HostPairs(value.v, depth))
<1>0. DepthMax \in Nat
  BY MarshalAssumption
<1> DEFINE deeper == ToHost[depth + 1]
<1>1. c = HostCopy(value, deeper, depth)
  <2>1. ToHost[depth] = HostLevel(deeper, depth)
    BY ToHostAt
  <2> HIDE DEF deeper
  <2> QED
    BY <2>1 DEF HostLevel
<1>2. HostElements(value.v, depth) = [i \in DOMAIN value.v |-> deeper[value.v[i]]]
      /\ HostElements(<<value>>, depth) = [i \in DOMAIN <<value>> |-> deeper[<<value>>[i]]]
      /\ HostPairs(value.v, depth) = [i \in DOMAIN value.v |-> HostPair(value.v[i], deeper)]
  BY DEF HostElements, HostPairs
<1> HIDE DEF deeper
<1>3. depth > DepthMax => c = Failed("TooDeep", "none")
  BY <1>0, <1>1 DEF HostCopy, DeeperThanMax
<1>6. CASE depth <= DepthMax
  <2>1. ~DeeperThanMax(depth)
    BY <1>0, <1>6 DEF DeeperThanMax
  <2>2. /\ value.t \in Immediate => c = Copied(value, "none")
        /\ value.t = "symbol" /\ value.v \in Utf8Texts =>
             c = Copied(HostSymbol(value.v), "none")
        /\ value.t = "symbol" /\ value.v \notin Utf8Texts =>
             c = Failed("EncodingError", "none")
    BY <1>1, <2>1 DEF HostCopy, Immediate
  <2>3. value.t = "fixnum" /\ value.v \in HostFixnums => c = Copied(value, "none")
    BY <1>1, <2>1 DEF HostCopy, Immediate
  <2>4. value.t = "fixnum" /\ value.v \notin HostFixnums => c = Failed("OutOfRange", "none")
    BY <1>1, <2>1 DEF HostCopy, Immediate
  <2>5. value.t = "string" => c = Copied(HostString(value.v), "none")
    BY <1>1, <2>1 DEF HostCopy, Immediate
  <2>6. value.t = "object" => c = Failed("Unsupported", "none")
    BY <1>1, <2>1 DEF HostCopy, Immediate
  <2>7. value.t = "array" => c = HostArray(value.v, deeper)
    BY <1>1, <2>1 DEF HostCopy, Immediate
  <2>8. value.t = "loop" => c = HostArray(<<value>>, deeper)
    BY <1>1, <2>1 DEF HostCopy, Immediate
  <2>9. value.t = "hash" => c = HostHash(value.v, deeper)
    BY <1>1, <2>1 DEF HostCopy, Immediate
  <2>10. /\ HostArray(value.v, deeper) = ArrayOf(HostElements(value.v, depth))
         /\ HostArray(<<value>>, deeper) = ArrayOf(HostElements(<<value>>, depth))
         /\ HostHash(value.v, deeper) = HashOf(HostPairs(value.v, depth))
    BY <1>2 DEF HostArray, HostHash
  <2> QED
    BY <1>0, <1>6, <2>2, <2>3, <2>4, <2>5, <2>6, <2>7, <2>8, <2>9, <2>10
<1> QED
  BY <1>0, <1>3, <1>6

------------------------------------------------------------------------------
(* Exceptions.  No call leaves one that was not there, and one that is      *)
(* reported is gone.                                                        *)

\* What is left of a pending exception, and when a guest's exception is the
\* answer.
Taken(c, x) ==
  /\ c.exc \in {x, "none"}
  /\ c.err = "GuestErr" => c.exc = "none" /\ (x = "error" \/ rude)

\* A container does with a pending exception what its elements do.
LEMMA ContainerTaken ==
  ASSUME NEW copies, DOMAIN copies \subseteq Nat, NEW x \in Excs,
         \A i \in DOMAIN copies : Taken(copies[i], "none")
  PROVE  Taken(ArrayOf(copies), x) /\ Taken(HashOf(copies), x)
<1>1. \A v : Taken(Copied(v, "none"), x)
  BY DEF Taken, Copied
<1>2. \A i \in DOMAIN copies : Taken(copies[i], x)
  BY DEF Taken
<1>3. ASSUME NEW made
      PROVE  Taken(UnlessFailed(copies, made), x)
  BY <1>1, <1>2, UnlessFailedCases
<1> QED
  BY <1>3 DEF ArrayOf, HashOf

\* Copying to the guest never invents a guest's exception.
LEMMA ExceptionsAreTaken ==
  \A depth \in Nat : \A value \in HostVals, x \in Excs :
    Taken(ToGuest[depth][value][x], x)
<1> DEFINE S == {depth \in Nat : \A value \in HostVals, x \in Excs :
                   Taken(ToGuest[depth][value][x], x)}
<1>0. DepthMax \in Nat
  BY MarshalAssumption
<1>1. ASSUME NEW depth \in Nat, depth > DepthMax
      PROVE  depth \in S
  <2> SUFFICES ASSUME NEW value \in HostVals, NEW x \in Excs
               PROVE  Taken(ToGuest[depth][value][x], x)
    OBVIOUS
  <2>1. ToGuest[depth][value][x] = Failed("TooDeep", x)
    BY <1>1, GuestCopies
  <2> QED
    BY <2>1 DEF Failed, Taken
<1>2. ASSUME NEW depth \in Nat, depth <= DepthMax, depth + 1 \in S
      PROVE  depth \in S
  <2> SUFFICES ASSUME NEW value \in HostVals, NEW x \in Excs
               PROVE  Taken(ToGuest[depth][value][x], x)
    OBVIOUS
  <2> DEFINE c == ToGuest[depth][value][x]
             deeper == ToGuest[depth + 1]
  <2>0. "none" \in Excs
    BY DEF Excs
  <2>1. \A e \in HostVals, y \in Excs : Taken(deeper[e][y], y)
    BY <1>2
  <2> HIDE DEF c, deeper
  <2>2. ASSUME NEW s \in Seq(HostVals)
        PROVE  Taken(ArrayOf(GuestElements(s, depth)), x)
    <3>1. /\ DOMAIN GuestElements(s, depth) = DOMAIN s
          /\ DOMAIN s \subseteq Nat
          /\ \A i \in DOMAIN s : GuestElements(s, depth)[i] = deeper[s[i]]["none"] /\ s[i] \in HostVals
      BY DEF GuestElements, deeper
    <3>2. \A i \in DOMAIN s : Taken(GuestElements(s, depth)[i], "none")
      BY <2>0, <2>1, <3>1
    <3> QED
      BY <3>1, <3>2, ContainerTaken
  <2>3. ASSUME NEW s \in Seq(HostVals \X HostVals)
        PROVE  Taken(HashOf(GuestPairs(s, depth)), x)
    <3>1. /\ DOMAIN GuestPairs(s, depth) = DOMAIN s
          /\ DOMAIN s \subseteq Nat
          /\ \A i \in DOMAIN s : GuestPairs(s, depth)[i] = GuestPair(s[i], deeper, "none")
      BY DEF GuestPairs, deeper
    <3>2. ASSUME NEW p \in HostVals \X HostVals
          PROVE  Taken(GuestPair(p, deeper, "none"), "none")
      <4> DEFINE k == deeper[p[1]]["none"]
                 v == deeper[p[2]][k.exc]
      <4>1. GuestPair(p, deeper, "none") =
              IF k.err # "NoErr" THEN k ELSE IF v.err # "NoErr" THEN v
              ELSE CheckException(<<k.v, v.v>>, AfterHashSet(k.v, v.exc))
        BY DEF GuestPair
      <4>2. Taken(k, "none")
        BY <2>0, <2>1
      <4> HIDE DEF k
      <4>3. k.exc = "none"
        BY <4>2 DEF Taken
      <4>4. Taken(v, "none")
        BY <2>0, <2>1, <4>3
      <4> HIDE DEF v
      <4>5. v.exc = "none"
        BY <4>4 DEF Taken
      <4>6. Taken(CheckException(<<k.v, v.v>>, AfterHashSet(k.v, v.exc)), "none")
        BY <4>5 DEF AfterHashSet, CheckException, Taken, Copied, Failed
      <4> QED
        BY <4>1, <4>2, <4>4, <4>6
    <3>3. \A i \in DOMAIN s : Taken(GuestPairs(s, depth)[i], "none")
      BY <3>1, <3>2
    <3> QED
      BY <3>1, <3>3, ContainerTaken
  <2>4. /\ \A v : Taken(Copied(v, x), x) /\ Taken(CheckException(v, x), x)
        /\ Taken(Failed("Unsupported", x), x)
        /\ x = "error" => Taken(Failed("GuestErr", "none"), x)
    BY DEF Taken, Copied, Failed, CheckException
  <2>5. <<value>> \in Seq(HostVals)
    OBVIOUS
  <2>6. /\ value.t = "array" => value.v \in Seq(HostVals)
        /\ value.t = "hash" => value.v \in Seq(HostVals \X HostVals)
        /\ value.t \in Immediate
              \cup {"object", "symbol", "fixnum", "string", "array", "hash", "loop"}
    BY HostValsAt
  <2>7. /\ value.t \in Immediate => c = Copied(value, x)
        /\ value.t = "fixnum" => c = CheckException(value, x)
        /\ value.t \in {"string", "symbol"} => c = CheckException([t |-> value.t, v |-> value.v], x)
        /\ value.t = "object" => c = Failed("Unsupported", x)
        /\ value.t \in {"array", "hash", "loop"} /\ x = "error" => c = Failed("GuestErr", "none")
        /\ value.t = "array" /\ x # "error" => c = ArrayOf(GuestElements(value.v, depth))
        /\ value.t = "loop" /\ x # "error" => c = ArrayOf(GuestElements(<<value>>, depth))
        /\ value.t = "hash" /\ x # "error" => c = HashOf(GuestPairs(value.v, depth))
    BY <1>2, GuestCopies DEF c
  <2>8. Taken(c, x)
    BY <2>2, <2>3, <2>4, <2>5, <2>6, <2>7
  <2> QED
    BY <2>8 DEF c
<1> HIDE DEF S
<1>3. \A depth \in Nat : depth \in S
  BY <1>1, <1>2, DepthInduction
<1> QED
  BY <1>3 DEF S

------------------------------------------------------------------------------
(* What a copy that succeeds is made of.                                    *)

\* An array succeeds exactly when all its elements do.
LEMMA ArraySucceeds ==
  ASSUME NEW copies, DOMAIN copies \subseteq Nat
  PROVE  /\ ArrayOf(copies).err = "NoErr" =>
              /\ \A i \in DOMAIN copies : copies[i].err = "NoErr"
              /\ ArrayOf(copies) =
                   Copied([t |-> "array", v |-> ValuesOf(copies)], "none")
         /\ (\A i \in DOMAIN copies : copies[i].err = "NoErr") =>
              ArrayOf(copies) =
                Copied([t |-> "array", v |-> ValuesOf(copies)], "none")
<1> DEFINE made == [t |-> "array", v |-> ValuesOf(copies)]
<1>1. ArrayOf(copies) = UnlessFailed(copies, made)
  BY DEF ArrayOf
<1> HIDE DEF made
<1>2. \/ /\ \A i \in DOMAIN copies : copies[i].err = "NoErr"
         /\ UnlessFailed(copies, made) = Copied(made, "none")
      \/ \E i \in DOMAIN copies :
           copies[i].err # "NoErr" /\ UnlessFailed(copies, made) = copies[i]
  BY UnlessFailedCases
<1>3. /\ ArrayOf(copies).err = "NoErr" =>
           /\ \A i \in DOMAIN copies : copies[i].err = "NoErr"
           /\ ArrayOf(copies) = Copied(made, "none")
      /\ (\A i \in DOMAIN copies : copies[i].err = "NoErr") =>
           ArrayOf(copies) = Copied(made, "none")
  BY <1>1, <1>2
<1> QED
  BY <1>3 DEF made

\* A hash succeeds exactly when all its pairs do.
LEMMA HashSucceeds ==
  ASSUME NEW copies, DOMAIN copies \subseteq Nat
  PROVE  /\ HashOf(copies).err = "NoErr" =>
              /\ \A i \in DOMAIN copies : copies[i].err = "NoErr"
              /\ HashOf(copies) =
                   Copied([t |-> "hash", v |-> Associated(ValuesOf(copies))], "none")
         /\ (\A i \in DOMAIN copies : copies[i].err = "NoErr") =>
              HashOf(copies) =
                Copied([t |-> "hash", v |-> Associated(ValuesOf(copies))], "none")
<1> DEFINE made == [t |-> "hash", v |-> Associated(ValuesOf(copies))]
<1>1. HashOf(copies) = UnlessFailed(copies, made)
  BY DEF HashOf
<1> HIDE DEF made
<1>2. \/ /\ \A i \in DOMAIN copies : copies[i].err = "NoErr"
         /\ UnlessFailed(copies, made) = Copied(made, "none")
      \/ \E i \in DOMAIN copies :
           copies[i].err # "NoErr" /\ UnlessFailed(copies, made) = copies[i]
  BY UnlessFailedCases
<1>3. /\ HashOf(copies).err = "NoErr" =>
           /\ \A i \in DOMAIN copies : copies[i].err = "NoErr"
           /\ HashOf(copies) = Copied(made, "none")
      /\ (\A i \in DOMAIN copies : copies[i].err = "NoErr") =>
           HashOf(copies) = Copied(made, "none")
  BY <1>1, <1>2
<1> QED
  BY <1>3 DEF made

\* The fields of an answer.
LEMMA CopyFields ==
  \A v, x, err : /\ Copied(v, x).err = "NoErr" /\ Copied(v, x).v = v
                 /\ Copied(v, x).exc = x
                 /\ Failed(err, x).err = err /\ Failed(err, x).exc = x
  BY DEF Copied, Failed

LEMMA GuestErrFails ==
  /\ Failed("GuestErr", "none").err # "NoErr"
  /\ Failed("GuestErr", "none").exc = "none"
  BY DEF Failed

\* What CheckException and mrb_hash_set answer when no exception is there.
LEMMA GuestPairSucceeds ==
  ASSUME NEW depth \in Nat, NEW p \in HostVals \X HostVals
  PROVE  LET deeper == ToGuest[depth]
             k == deeper[p[1]]["none"]
             v == deeper[p[2]]["none"]
             c == GuestPair(p, deeper, "none")
         IN /\ c.err = "NoErr" =>
                 k.err = "NoErr" /\ v.err = "NoErr" /\ c.v = <<k.v, v.v>>
            /\ k.err = "NoErr" /\ v.err = "NoErr" /\ ~rude => c.err = "NoErr"
<1> DEFINE deeper == ToGuest[depth]
           k == deeper[p[1]]["none"]
           v == deeper[p[2]]["none"]
           c == GuestPair(p, deeper, "none")
           set == CheckException(<<k.v, v.v>>, AfterHashSet(k.v, "none"))
<1>1. Taken(k, "none") /\ Taken(v, "none")
  <2>1. p[1] \in HostVals /\ p[2] \in HostVals /\ "none" \in Excs
    BY DEF Excs
  <2> QED
    BY <2>1, ExceptionsAreTaken
<1>2. k.exc = "none" /\ v.exc = "none"
  BY <1>1 DEF Taken
<1>3. c = IF k.err # "NoErr" THEN k ELSE IF v.err # "NoErr" THEN v ELSE set
  BY <1>2 DEF GuestPair
<1>4. /\ set.err = "NoErr" => set.v = <<k.v, v.v>>
      /\ ~rude => set.err = "NoErr"
  BY DEF CheckException, AfterHashSet, Copied, Failed
<1> HIDE DEF set, c, k, v
<1>5. /\ c.err = "NoErr" => k.err = "NoErr" /\ v.err = "NoErr" /\ c.v = <<k.v, v.v>>
      /\ k.err = "NoErr" /\ v.err = "NoErr" /\ ~rude => c.err = "NoErr"
  BY <1>3, <1>4
<1> QED
  BY <1>5 DEF c, k, v

\* A pair succeeds exactly when its key and value do.
LEMMA HostPairSucceeds ==
  ASSUME NEW depth \in Nat, NEW p \in GuestVals \X GuestVals
  PROVE  LET deeper == ToHost[depth]
             k == deeper[p[1]]
             v == deeper[p[2]]
             c == HostPair(p, deeper)
         IN /\ c.err = "NoErr" =>
                 k.err = "NoErr" /\ v.err = "NoErr" /\ c.v = <<k.v, v.v>>
            /\ k.err = "NoErr" /\ v.err = "NoErr" => c = Copied(<<k.v, v.v>>, "none")
<1> DEFINE deeper == ToHost[depth]
           k == deeper[p[1]]
           v == deeper[p[2]]
           c == HostPair(p, deeper)
<1>1. c = IF k.err # "NoErr" THEN k ELSE IF v.err # "NoErr" THEN v
          ELSE Copied(<<k.v, v.v>>, "none")
  BY DEF HostPair
<1> HIDE DEF c, k, v
<1>2. /\ c.err = "NoErr" => k.err = "NoErr" /\ v.err = "NoErr" /\ c.v = <<k.v, v.v>>
      /\ k.err = "NoErr" /\ v.err = "NoErr" => c = Copied(<<k.v, v.v>>, "none")
  BY <1>1, CopyFields
<1> QED
  BY <1>2 DEF c, k, v

\* A value that contains itself is refused on either side.
LEMMA GuestLoopFails ==
  \A depth \in Nat : \A x \in Excs : ToGuest[depth][Loop][x].err # "NoErr"
<1> DEFINE S == {depth \in Nat : \A x \in Excs : ToGuest[depth][Loop][x].err # "NoErr"}
<1>0. Loop.t = "loop" /\ Loop \in HostVals /\ "none" \in Excs
      /\ DOMAIN <<Loop>> = {1} /\ <<Loop>>[1] = Loop
  <2>1. Nil \in HostVals
    BY MarshalAssumption, InsideIsNested DEF HostVals, HostLeaves, Plain, Nil, Immediate
  <2> QED
    BY <2>1, HostValsAt DEF Loop, Excs
<1>1. ASSUME NEW depth \in Nat, depth > DepthMax
      PROVE  depth \in S
  <2>1. \A x \in Excs : ToGuest[depth][Loop][x] = Failed("TooDeep", x)
    BY <1>0, <1>1, GuestCopies
  <2> QED
    BY <2>1, CopyFields
<1>2. ASSUME NEW depth \in Nat, depth <= DepthMax, depth + 1 \in S
      PROVE  depth \in S
  <2> SUFFICES ASSUME NEW x \in Excs
               PROVE  ToGuest[depth][Loop][x].err # "NoErr"
    OBVIOUS
  <2> DEFINE copies == GuestElements(<<Loop>>, depth)
  <2>1. CASE x = "error"
    <3>1. ToGuest[depth][Loop][x] = Failed("GuestErr", "none")
      BY <1>0, <1>2, <2>1, GuestCopies
    <3> QED
      BY <3>1, CopyFields
  <2>2. CASE x # "error"
    <3>1. ToGuest[depth][Loop][x] = ArrayOf(copies)
      BY <1>0, <1>2, <2>2, GuestCopies
    <3>2. DOMAIN copies = {1} /\ copies[1] = ToGuest[depth + 1][Loop]["none"]
      <4> DEFINE s == <<Loop>>
                 deeper == ToGuest[depth + 1]
      <4>1. DOMAIN s = {1} /\ s[1] = Loop
        BY <1>0
      <4>2. copies = [i \in DOMAIN s |-> deeper[s[i]]["none"]]
        BY DEF GuestElements
      <4> HIDE DEF s, copies, deeper
      <4>3. DOMAIN copies = {1} /\ copies[1] = deeper[Loop]["none"]
        BY <4>1, <4>2
      <4> QED
        BY <4>3 DEF deeper
    <3>3. copies[1].err # "NoErr"
      BY <1>0, <1>2, <3>2
    <3> HIDE DEF copies
    <3>4. DOMAIN copies \subseteq Nat /\ 1 \in DOMAIN copies
      BY <3>2
    <3>5. ArrayOf(copies).err # "NoErr"
      BY <3>3, <3>4, ArraySucceeds
    <3> QED
      BY <3>1, <3>5
  <2> QED
    BY <2>1, <2>2
<1> HIDE DEF S
<1>3. \A depth \in Nat : depth \in S
  BY <1>1, <1>2, DepthInduction
<1> QED
  BY <1>3 DEF S

\* A guest's array that contains itself never becomes a host's.
LEMMA HostLoopFails ==
  \A depth \in Nat : ToHost[depth][Loop].err # "NoErr"
<1> DEFINE S == {depth \in Nat : ToHost[depth][Loop].err # "NoErr"}
<1>0. Loop.t = "loop" /\ Loop \in GuestVals
      /\ DOMAIN <<Loop>> = {1} /\ <<Loop>>[1] = Loop
  <2>1. Nil \in GuestVals
    BY MarshalAssumption, InsideIsNested DEF GuestVals, GuestLeaves, Plain, Nil, Immediate
  <2> QED
    BY <2>1, GuestValsAt DEF Loop
<1>1. ASSUME NEW depth \in Nat, depth > DepthMax
      PROVE  depth \in S
  <2>1. ToHost[depth][Loop] = Failed("TooDeep", "none")
    BY <1>0, <1>1, HostCopies
  <2> QED
    BY <2>1, CopyFields
<1>2. ASSUME NEW depth \in Nat, depth <= DepthMax, depth + 1 \in S
      PROVE  depth \in S
  <2> DEFINE copies == HostElements(<<Loop>>, depth)
  <2>1. ToHost[depth][Loop] = ArrayOf(copies)
    BY <1>0, <1>2, HostCopies
  <2>2. DOMAIN copies = {1} /\ copies[1] = ToHost[depth + 1][Loop]
    <3> DEFINE s == <<Loop>>
               deeper == ToHost[depth + 1]
    <3>1. DOMAIN s = {1} /\ s[1] = Loop
      BY <1>0
    <3>2. copies = [i \in DOMAIN s |-> deeper[s[i]]]
      BY DEF HostElements
    <3> HIDE DEF s, copies, deeper
    <3>3. DOMAIN copies = {1} /\ copies[1] = deeper[Loop]
      BY <3>1, <3>2
    <3> QED
      BY <3>3 DEF deeper
  <2>3. copies[1].err # "NoErr"
    BY <1>0, <1>2, <2>2
  <2> HIDE DEF copies
  <2>4. DOMAIN copies \subseteq Nat /\ 1 \in DOMAIN copies
    BY <2>2
  <2>5. ArrayOf(copies).err # "NoErr"
    BY <2>3, <2>4, ArraySucceeds
  <2> QED
    BY <2>1, <2>5
<1> HIDE DEF S
<1>3. \A depth \in Nat : depth \in S
  BY <1>1, <1>2, DepthInduction
<1> QED
  BY <1>3 DEF S

\* An array that is copied to the guest has its elements copied.
LEMMA GuestArrayCopied ==
  ASSUME NEW depth \in Nat, depth <= DepthMax,
         NEW value \in HostVals, value.t = "array", NEW x \in Excs
  PROVE  LET s == value.v
             c == ToGuest[depth][value][x]
             deeper == ToGuest[depth + 1]
             r == [t |-> "array", v |-> [i \in DOMAIN s |-> deeper[s[i]]["none"].v]]
         IN /\ c.err = "NoErr" =>
                 c.v = r /\ \A i \in DOMAIN s : deeper[s[i]]["none"].err = "NoErr"
            /\ x # "error" /\ (\A i \in DOMAIN s : deeper[s[i]]["none"].err = "NoErr") =>
                 c = Copied(r, "none")
<1> DEFINE s == value.v
           c == ToGuest[depth][value][x]
           deeper == ToGuest[depth + 1]
           r == [t |-> "array", v |-> [i \in DOMAIN s |-> deeper[s[i]]["none"].v]]
<1>names. /\ s \in Seq(HostVals) /\ value.v = s
      /\ c = ToGuest[depth][value][x]
      /\ deeper = ToGuest[depth + 1]
      /\ r = [t |-> "array", v |-> [i \in DOMAIN s |-> deeper[s[i]]["none"].v]]
  BY HostValsAt
<1> HIDE DEF s, c, deeper, r
<1> USE <1>names
<1> DEFINE copies == GuestElements(s, depth)
<1>1. /\ DOMAIN copies = DOMAIN s /\ DOMAIN copies \subseteq Nat
      /\ \A i \in DOMAIN s : copies[i] = deeper[s[i]]["none"]
  BY DEF GuestElements
<1>2. [t |-> "array", v |-> ValuesOf(copies)] = r
  <2>1. ValuesOf(copies) = [i \in DOMAIN s |-> deeper[s[i]]["none"].v]
    BY <1>1 DEF ValuesOf
  <2> HIDE DEF copies
  <2> QED
    BY <2>1
<1> HIDE DEF copies
<1>3. CASE x = "error"
  <2>1. c = Failed("GuestErr", "none")
    BY <1>3, GuestCopies
  <2> QED
    BY <1>3, <2>1, CopyFields
<1>4. CASE x # "error"
  <2>1. c = ArrayOf(copies)
    BY <1>4, GuestCopies DEF copies
  <2>2. /\ ArrayOf(copies).err = "NoErr" =>
             /\ \A i \in DOMAIN copies : copies[i].err = "NoErr"
             /\ ArrayOf(copies) = Copied(r, "none")
        /\ (\A i \in DOMAIN copies : copies[i].err = "NoErr") =>
             ArrayOf(copies) = Copied(r, "none")
    <3>1. /\ ArrayOf(copies).err = "NoErr" =>
               /\ \A i \in DOMAIN copies : copies[i].err = "NoErr"
               /\ ArrayOf(copies) =
                    Copied([t |-> "array", v |-> ValuesOf(copies)], "none")
          /\ (\A i \in DOMAIN copies : copies[i].err = "NoErr") =>
               ArrayOf(copies) =
                 Copied([t |-> "array", v |-> ValuesOf(copies)], "none")
      BY <1>1, ArraySucceeds
    <3> QED
      BY <1>2, <3>1, Zenon
  <2> QED
    BY <1>1, <2>1, <2>2, CopyFields
<1>9. /\ c.err = "NoErr" =>
           c.v = r /\ \A i \in DOMAIN s : deeper[s[i]]["none"].err = "NoErr"
      /\ x # "error" /\ (\A i \in DOMAIN s : deeper[s[i]]["none"].err = "NoErr") =>
           c = Copied(r, "none")
  BY <1>3, <1>4
<1> QED
  BY <1>9 DEF s, c, deeper, r

\* An array that is copied to the host has its elements copied.
LEMMA HostArrayCopied ==
  ASSUME NEW depth \in Nat, depth <= DepthMax,
         NEW value \in GuestVals, value.t = "array"
  PROVE  LET s == value.v
             c == ToHost[depth][value]
             deeper == ToHost[depth + 1]
             r == [t |-> "array", v |-> [i \in DOMAIN s |-> deeper[s[i]].v]]
         IN /\ c.err = "NoErr" =>
                 c.v = r /\ \A i \in DOMAIN s : deeper[s[i]].err = "NoErr"
            /\ (\A i \in DOMAIN s : deeper[s[i]].err = "NoErr") =>
                 c = Copied(r, "none")
<1> DEFINE s == value.v
           c == ToHost[depth][value]
           deeper == ToHost[depth + 1]
           r == [t |-> "array", v |-> [i \in DOMAIN s |-> deeper[s[i]].v]]
<1>names. /\ s \in Seq(GuestVals) /\ value.v = s
      /\ c = ToHost[depth][value]
      /\ deeper = ToHost[depth + 1]
      /\ r = [t |-> "array", v |-> [i \in DOMAIN s |-> deeper[s[i]].v]]
  BY GuestValsAt
<1> HIDE DEF s, c, deeper, r
<1> USE <1>names
<1> DEFINE copies == HostElements(s, depth)
<1>1. /\ DOMAIN copies = DOMAIN s /\ DOMAIN copies \subseteq Nat
      /\ \A i \in DOMAIN s : copies[i] = deeper[s[i]]
  BY DEF HostElements
<1>2. [t |-> "array", v |-> ValuesOf(copies)] = r
  <2>1. ValuesOf(copies) = [i \in DOMAIN s |-> deeper[s[i]].v]
    BY <1>1 DEF ValuesOf
  <2> HIDE DEF copies
  <2> QED
    BY <2>1
<1> HIDE DEF copies
<1>3. c = ArrayOf(copies)
  BY HostCopies DEF copies
<1>4. /\ ArrayOf(copies).err = "NoErr" =>
           /\ \A i \in DOMAIN copies : copies[i].err = "NoErr"
           /\ ArrayOf(copies) = Copied(r, "none")
      /\ (\A i \in DOMAIN copies : copies[i].err = "NoErr") =>
           ArrayOf(copies) = Copied(r, "none")
  <2>1. /\ ArrayOf(copies).err = "NoErr" =>
             /\ \A i \in DOMAIN copies : copies[i].err = "NoErr"
             /\ ArrayOf(copies) =
                  Copied([t |-> "array", v |-> ValuesOf(copies)], "none")
        /\ (\A i \in DOMAIN copies : copies[i].err = "NoErr") =>
             ArrayOf(copies) =
               Copied([t |-> "array", v |-> ValuesOf(copies)], "none")
    BY <1>1, ArraySucceeds
  <2> QED
    BY <1>2, <2>1, Zenon
<1>9. /\ c.err = "NoErr" =>
           c.v = r /\ \A i \in DOMAIN s : deeper[s[i]].err = "NoErr"
      /\ (\A i \in DOMAIN s : deeper[s[i]].err = "NoErr") =>
           c = Copied(r, "none")
  BY <1>1, <1>3, <1>4, CopyFields
<1> QED
  BY <1>9 DEF s, c, deeper, r

\* A hash that is copied to the guest has its pairs copied.
LEMMA GuestHashCopied ==
  ASSUME NEW depth \in Nat, depth <= DepthMax,
         NEW value \in HostVals, value.t = "hash", NEW x \in Excs
  PROVE  LET s == value.v
             c == ToGuest[depth][value][x]
             deeper == ToGuest[depth + 1]
             pairs == [i \in DOMAIN s |-> <<deeper[s[i][1]]["none"].v, deeper[s[i][2]]["none"].v>>]
             r == [t |-> "hash", v |-> Associated(pairs)]
             fine == \A i \in DOMAIN s : deeper[s[i][1]]["none"].err = "NoErr" /\ deeper[s[i][2]]["none"].err = "NoErr"
         IN /\ c.err = "NoErr" => c.v = r /\ fine
            /\ x # "error" /\ fine /\ ~rude => c = Copied(r, "none")
<1> DEFINE s == value.v
           c == ToGuest[depth][value][x]
           deeper == ToGuest[depth + 1]
           pairs == [i \in DOMAIN s |-> <<deeper[s[i][1]]["none"].v, deeper[s[i][2]]["none"].v>>]
           r == [t |-> "hash", v |-> Associated(pairs)]
           fine == \A i \in DOMAIN s : deeper[s[i][1]]["none"].err = "NoErr" /\ deeper[s[i][2]]["none"].err = "NoErr"
<1>names. /\ s \in Seq(HostVals \X HostVals) /\ value.v = s
      /\ c = ToGuest[depth][value][x]
      /\ deeper = ToGuest[depth + 1]
      /\ pairs = [i \in DOMAIN s |-> <<deeper[s[i][1]]["none"].v, deeper[s[i][2]]["none"].v>>]
      /\ r = [t |-> "hash", v |-> Associated(pairs)]
      /\ fine = (\A i \in DOMAIN s : deeper[s[i][1]]["none"].err = "NoErr" /\ deeper[s[i][2]]["none"].err = "NoErr")
      /\ fine \in BOOLEAN
  BY HostValsAt
<1> HIDE DEF s, c, deeper, pairs, r, fine
<1> USE <1>names
<1> DEFINE copies == GuestPairs(s, depth)
<1>0. depth + 1 \in Nat /\ \A i \in DOMAIN s : s[i] \in HostVals \X HostVals
  OBVIOUS
<1>1. /\ DOMAIN copies = DOMAIN s /\ DOMAIN copies \subseteq Nat
      /\ \A i \in DOMAIN s : copies[i] = GuestPair(s[i], deeper, "none")
  <2>1. DOMAIN s \subseteq Nat
    OBVIOUS
  <2>2. copies = [i \in DOMAIN s |-> GuestPair(s[i], deeper, "none")]
    BY DEF GuestPairs
  <2> HIDE DEF copies
  <2> QED
    BY <2>1, <2>2
<1> HIDE DEF copies
<1>2. \A i \in DOMAIN s :
        /\ copies[i].err = "NoErr" =>
             /\ deeper[s[i][1]]["none"].err = "NoErr"
             /\ deeper[s[i][2]]["none"].err = "NoErr"
             /\ copies[i].v = <<deeper[s[i][1]]["none"].v, deeper[s[i][2]]["none"].v>>
        /\ /\ deeper[s[i][1]]["none"].err = "NoErr"
           /\ deeper[s[i][2]]["none"].err = "NoErr"
           /\ ~rude
           => copies[i].err = "NoErr"
  <2> TAKE i \in DOMAIN s
  <2> DEFINE p == s[i]
             k == deeper[p[1]]["none"]
             v == deeper[p[2]]["none"]
             c1 == GuestPair(p, deeper, "none")
  <2>1. p \in HostVals \X HostVals /\ copies[i] = c1
    BY <1>0, <1>1
  <2>2. /\ c1.err = "NoErr" => k.err = "NoErr" /\ v.err = "NoErr" /\ c1.v = <<k.v, v.v>>
        /\ k.err = "NoErr" /\ v.err = "NoErr" /\ ~rude => c1.err = "NoErr"
    BY <2>1, <1>0, GuestPairSucceeds
  <2> QED
    BY <2>1, <2>2
<1>3. (\A i \in DOMAIN copies : copies[i].err = "NoErr") =>
        [t |-> "hash", v |-> Associated(ValuesOf(copies))] = r
  <2>1. (\A i \in DOMAIN copies : copies[i].err = "NoErr") => ValuesOf(copies) = pairs
    BY <1>1, <1>2 DEF ValuesOf
  <2> QED
    BY <2>1
<1>4. CASE x = "error"
  <2>1. c = Failed("GuestErr", "none")
    BY <1>4, GuestCopies
  <2>2. c.err # "NoErr"
    BY <2>1, GuestErrFails, Zenon
  <2> QED
    BY <1>4, <2>2
<1>5. CASE x # "error"
  <2>1. c = HashOf(copies)
    BY <1>5, GuestCopies DEF copies
  <2>2. /\ HashOf(copies).err = "NoErr" =>
             /\ \A i \in DOMAIN copies : copies[i].err = "NoErr"
             /\ HashOf(copies) = Copied(r, "none")
        /\ (\A i \in DOMAIN copies : copies[i].err = "NoErr") =>
             HashOf(copies) = Copied(r, "none")
    <3>1. /\ HashOf(copies).err = "NoErr" =>
               /\ \A i \in DOMAIN copies : copies[i].err = "NoErr"
               /\ HashOf(copies) =
                    Copied([t |-> "hash", v |-> Associated(ValuesOf(copies))], "none")
          /\ (\A i \in DOMAIN copies : copies[i].err = "NoErr") =>
               HashOf(copies) =
                 Copied([t |-> "hash", v |-> Associated(ValuesOf(copies))], "none")
      BY <1>1, HashSucceeds
    <3> QED
      BY <1>3, <3>1, Zenon
  <2>3. fine /\ ~rude => \A i \in DOMAIN copies : copies[i].err = "NoErr"
    BY <1>1, <1>2
  <2>4. (\A i \in DOMAIN copies : copies[i].err = "NoErr") => fine
    BY <1>1, <1>2
  <2> QED
    <3>1. Copied(r, "none").v = r
      BY CopyFields
    <3>2. c.err = "NoErr" => c = Copied(r, "none") /\ fine
      BY <2>1, <2>2, <2>4
    <3>3. fine /\ ~rude => c = Copied(r, "none")
      BY <2>1, <2>2, <2>3
    <3> QED
      BY <3>1, <3>2, <3>3
<1>9. /\ c.err = "NoErr" => c.v = r /\ fine
      /\ x # "error" /\ fine /\ ~rude => c = Copied(r, "none")
  BY <1>4, <1>5
<1> QED
  BY <1>9 DEF s, c, deeper, pairs, r, fine

\* A hash that is copied to the host has its pairs copied.
LEMMA HostHashCopied ==
  ASSUME NEW depth \in Nat, depth <= DepthMax,
         NEW value \in GuestVals, value.t = "hash"
  PROVE  LET s == value.v
             c == ToHost[depth][value]
             deeper == ToHost[depth + 1]
             pairs == [i \in DOMAIN s |-> <<deeper[s[i][1]].v, deeper[s[i][2]].v>>]
             r == [t |-> "hash", v |-> Associated(pairs)]
             fine == \A i \in DOMAIN s : deeper[s[i][1]].err = "NoErr" /\ deeper[s[i][2]].err = "NoErr"
         IN /\ c.err = "NoErr" => c.v = r /\ fine
            /\ fine => c = Copied(r, "none")
<1> DEFINE s == value.v
           c == ToHost[depth][value]
           deeper == ToHost[depth + 1]
           pairs == [i \in DOMAIN s |-> <<deeper[s[i][1]].v, deeper[s[i][2]].v>>]
           r == [t |-> "hash", v |-> Associated(pairs)]
           fine == \A i \in DOMAIN s : deeper[s[i][1]].err = "NoErr" /\ deeper[s[i][2]].err = "NoErr"
<1>names. /\ s \in Seq(GuestVals \X GuestVals) /\ value.v = s
      /\ c = ToHost[depth][value]
      /\ deeper = ToHost[depth + 1]
      /\ pairs = [i \in DOMAIN s |-> <<deeper[s[i][1]].v, deeper[s[i][2]].v>>]
      /\ r = [t |-> "hash", v |-> Associated(pairs)]
      /\ fine = (\A i \in DOMAIN s : deeper[s[i][1]].err = "NoErr" /\ deeper[s[i][2]].err = "NoErr")
      /\ fine \in BOOLEAN
  BY GuestValsAt
<1> HIDE DEF s, c, deeper, pairs, r, fine
<1> USE <1>names
<1> DEFINE copies == HostPairs(s, depth)
<1>0. depth + 1 \in Nat /\ \A i \in DOMAIN s : s[i] \in GuestVals \X GuestVals
  OBVIOUS
<1>1. /\ DOMAIN copies = DOMAIN s /\ DOMAIN copies \subseteq Nat
      /\ \A i \in DOMAIN s : copies[i] = HostPair(s[i], deeper)
  <2>1. DOMAIN s \subseteq Nat
    OBVIOUS
  <2>2. copies = [i \in DOMAIN s |-> HostPair(s[i], deeper)]
    BY DEF HostPairs
  <2> HIDE DEF copies
  <2> QED
    BY <2>1, <2>2
<1> HIDE DEF copies
<1>2. \A i \in DOMAIN s :
        /\ copies[i].err = "NoErr" =>
             /\ deeper[s[i][1]].err = "NoErr" /\ deeper[s[i][2]].err = "NoErr"
             /\ copies[i].v = <<deeper[s[i][1]].v, deeper[s[i][2]].v>>
        /\ deeper[s[i][1]].err = "NoErr" /\ deeper[s[i][2]].err = "NoErr" =>
             copies[i] = Copied(<<deeper[s[i][1]].v, deeper[s[i][2]].v>>, "none")
  <2> TAKE i \in DOMAIN s
  <2> DEFINE p == s[i]
             k == deeper[p[1]]
             v == deeper[p[2]]
             c1 == HostPair(p, deeper)
  <2>1. p \in GuestVals \X GuestVals /\ copies[i] = c1
    BY <1>0, <1>1
  <2>2. /\ c1.err = "NoErr" => k.err = "NoErr" /\ v.err = "NoErr" /\ c1.v = <<k.v, v.v>>
        /\ k.err = "NoErr" /\ v.err = "NoErr" => c1 = Copied(<<k.v, v.v>>, "none")
    BY <2>1, <1>0, HostPairSucceeds
  <2> QED
    BY <2>1, <2>2
<1>3. (\A i \in DOMAIN copies : copies[i].err = "NoErr") =>
        [t |-> "hash", v |-> Associated(ValuesOf(copies))] = r
  <2>1. (\A i \in DOMAIN copies : copies[i].err = "NoErr") => ValuesOf(copies) = pairs
    BY <1>1, <1>2 DEF ValuesOf
  <2> QED
    BY <2>1
<1>4. c = HashOf(copies)
  BY HostCopies DEF copies
<1>5. /\ HashOf(copies).err = "NoErr" =>
           /\ \A i \in DOMAIN copies : copies[i].err = "NoErr"
           /\ HashOf(copies) = Copied(r, "none")
      /\ (\A i \in DOMAIN copies : copies[i].err = "NoErr") =>
           HashOf(copies) = Copied(r, "none")
  <2>1. /\ HashOf(copies).err = "NoErr" =>
             /\ \A i \in DOMAIN copies : copies[i].err = "NoErr"
             /\ HashOf(copies) =
                  Copied([t |-> "hash", v |-> Associated(ValuesOf(copies))], "none")
        /\ (\A i \in DOMAIN copies : copies[i].err = "NoErr") =>
             HashOf(copies) =
               Copied([t |-> "hash", v |-> Associated(ValuesOf(copies))], "none")
    BY <1>1, HashSucceeds
  <2> QED
    BY <1>3, <2>1, Zenon
<1>6. fine <=> \A i \in DOMAIN copies : copies[i].err = "NoErr"
  <2>1. fine => \A i \in DOMAIN copies : copies[i].err = "NoErr"
    <3> SUFFICES ASSUME fine, NEW i \in DOMAIN copies
                 PROVE  copies[i].err = "NoErr"
      OBVIOUS
    <3>0. i \in DOMAIN s
      BY <1>1
    <3>1. deeper[s[i][1]].err = "NoErr" /\ deeper[s[i][2]].err = "NoErr"
      BY <3>0
    <3>2. copies[i] = Copied(<<deeper[s[i][1]].v, deeper[s[i][2]].v>>, "none")
      BY <1>2, <3>0, <3>1
    <3> QED
      BY <3>2, CopyFields
  <2>2. (\A i \in DOMAIN copies : copies[i].err = "NoErr") => fine
    BY <1>1, <1>2
  <2> QED
    BY <2>1, <2>2
<1>7. Copied(r, "none").v = r
  BY CopyFields
<1>9. /\ c.err = "NoErr" => c.v = r /\ fine
      /\ fine => c = Copied(r, "none")
  BY <1>4, <1>5, <1>6, <1>7
<1> QED
  BY <1>9 DEF s, c, deeper, pairs, r, fine

------------------------------------------------------------------------------
(* How far a copy reaches, and what it makes.                               *)

\* What is copied nests no deeper than the limit allows.
LEMMA GuestSuccessNests ==
  \A depth \in Nat : depth <= DepthMax + 1 =>
    \A value \in HostVals, x \in Excs : ToGuest[depth][value][x].err = "NoErr" =>
      value \in Inside(HostLeaves, DepthMax + 1 - depth)
<1> DEFINE S == {depth \in Nat : depth <= DepthMax + 1 =>
                   \A value \in HostVals, x \in Excs : ToGuest[depth][value][x].err = "NoErr" =>
                     value \in Inside(HostLeaves, DepthMax + 1 - depth)}
<1>0. DepthMax \in Nat
  BY MarshalAssumption
<1>1. ASSUME NEW depth \in Nat, depth > DepthMax
      PROVE  depth \in S
  <2>1. \A value \in HostVals, x \in Excs : ToGuest[depth][value][x] = Failed("TooDeep", x)
    BY <1>1, GuestCopies
  <2> QED
    BY <2>1, CopyFields
<1>2. ASSUME NEW depth \in Nat, depth <= DepthMax, depth + 1 \in S
      PROVE  depth \in S
  <2> SUFFICES ASSUME NEW value \in HostVals, NEW x \in Excs, ToGuest[depth][value][x].err = "NoErr"
               PROVE  value \in Inside(HostLeaves, DepthMax + 1 - depth)
    OBVIOUS
  <2> DEFINE n == DepthMax - depth
             deeper == ToGuest[depth + 1]
  <2>1. n \in Nat /\ Inside(HostLeaves, DepthMax + 1 - depth) = NestedIn(HostLeaves, n)
    <3>1. DepthMax + 1 - depth # 0 /\ (DepthMax + 1 - depth) - 1 = n /\ n \in Nat
      BY <1>0, <1>2
    <3> QED
      BY <3>1 DEF Inside
  <2>2. \A e \in HostVals : deeper[e]["none"].err = "NoErr" => e \in Inside(HostLeaves, n)
    <3>1. depth + 1 <= DepthMax + 1 /\ DepthMax + 1 - (depth + 1) = n
      BY <1>0, <1>2
    <3>2. "none" \in Excs
      BY DEF Excs
    <3> QED
      BY <1>2, <3>1, <3>2
  <2> HIDE DEF n
  <2>3. CASE value.t = "array"
    <3> DEFINE s == value.v
    <3>1. s \in Seq(HostVals) /\ value = [t |-> "array", v |-> s]
      BY <2>3, HostValsAt
    <3> HIDE DEF s
    <3>2. \A i \in DOMAIN s : deeper[s[i]]["none"].err = "NoErr"
      BY <1>2, <2>3, <3>1, GuestArrayCopied DEF s
    <3> HIDE DEF deeper
    <3>3. \A i \in DOMAIN s : s[i] \in Inside(HostLeaves, n)
      BY <2>2, <3>1, <3>2
    <3>4. s \in Seq(Inside(HostLeaves, n))
      BY <3>1, <3>3
    <3> QED
      BY <2>1, <3>1, <3>4, ArrayNests
  <2>4. CASE value.t = "hash"
    <3> DEFINE s == value.v
    <3>1. s \in Seq(HostVals \X HostVals) /\ KeysDiffer(s) /\ value = [t |-> "hash", v |-> s]
      BY <2>4, HostValsAt
    <3> HIDE DEF s
    <3>2. \A i \in DOMAIN s : /\ deeper[s[i][1]]["none"].err = "NoErr"
                              /\ deeper[s[i][2]]["none"].err = "NoErr"
      BY <1>2, <2>4, <3>1, GuestHashCopied DEF s
    <3> HIDE DEF deeper
    <3>3. \A i \in DOMAIN s : s[i] \in Inside(HostLeaves, n) \X Inside(HostLeaves, n)
      BY <2>2, <3>1, <3>2
    <3>4. s \in Seq(Inside(HostLeaves, n) \X Inside(HostLeaves, n))
      BY <3>1, <3>3
    <3> QED
      BY <2>1, <3>1, <3>4, HashNests
  <2>5. CASE value.t \notin {"array", "hash"}
    <3>1. value \in HostLeaves \cup {Loop}
      BY <2>5, HostValsAt
    <3>2. value # Loop
      BY GuestLoopFails
    <3> QED
      BY <2>1, <3>1, <3>2, InsideIsNested
  <2> QED
    BY <2>3, <2>4, <2>5
<1> HIDE DEF S
<1>3. \A depth \in Nat : depth \in S
  BY <1>1, <1>2, DepthInduction
<1> QED
  BY <1>3 DEF S

\* What is copied nests no deeper than the limit allows.
LEMMA HostSuccessNests ==
  \A depth \in Nat : depth <= DepthMax + 1 =>
    \A value \in GuestVals : ToHost[depth][value].err = "NoErr" =>
      value \in Inside(GuestLeaves, DepthMax + 1 - depth)
<1> DEFINE S == {depth \in Nat : depth <= DepthMax + 1 =>
                   \A value \in GuestVals : ToHost[depth][value].err = "NoErr" =>
                     value \in Inside(GuestLeaves, DepthMax + 1 - depth)}
<1>0. DepthMax \in Nat
  BY MarshalAssumption
<1>1. ASSUME NEW depth \in Nat, depth > DepthMax
      PROVE  depth \in S
  <2>1. \A value \in GuestVals : ToHost[depth][value] = Failed("TooDeep", "none")
    BY <1>1, HostCopies
  <2> QED
    BY <2>1, CopyFields
<1>2. ASSUME NEW depth \in Nat, depth <= DepthMax, depth + 1 \in S
      PROVE  depth \in S
  <2> SUFFICES ASSUME NEW value \in GuestVals, ToHost[depth][value].err = "NoErr"
               PROVE  value \in Inside(GuestLeaves, DepthMax + 1 - depth)
    OBVIOUS
  <2> DEFINE n == DepthMax - depth
             deeper == ToHost[depth + 1]
  <2>1. n \in Nat /\ Inside(GuestLeaves, DepthMax + 1 - depth) = NestedIn(GuestLeaves, n)
    <3>1. DepthMax + 1 - depth # 0 /\ (DepthMax + 1 - depth) - 1 = n /\ n \in Nat
      BY <1>0, <1>2
    <3> QED
      BY <3>1 DEF Inside
  <2>2. \A e \in GuestVals : deeper[e].err = "NoErr" => e \in Inside(GuestLeaves, n)
    <3>1. depth + 1 <= DepthMax + 1 /\ DepthMax + 1 - (depth + 1) = n
      BY <1>0, <1>2
    <3>2. "none" \in Excs
      BY DEF Excs
    <3> QED
      BY <1>2, <3>1, <3>2
  <2> HIDE DEF n
  <2>3. CASE value.t = "array"
    <3> DEFINE s == value.v
    <3>1. s \in Seq(GuestVals) /\ value = [t |-> "array", v |-> s]
      BY <2>3, GuestValsAt
    <3> HIDE DEF s
    <3>2. \A i \in DOMAIN s : deeper[s[i]].err = "NoErr"
      BY <1>2, <2>3, <3>1, HostArrayCopied DEF s
    <3> HIDE DEF deeper
    <3>3. \A i \in DOMAIN s : s[i] \in Inside(GuestLeaves, n)
      BY <2>2, <3>1, <3>2
    <3>4. s \in Seq(Inside(GuestLeaves, n))
      BY <3>1, <3>3
    <3> QED
      BY <2>1, <3>1, <3>4, ArrayNests
  <2>4. CASE value.t = "hash"
    <3> DEFINE s == value.v
    <3>1. s \in Seq(GuestVals \X GuestVals) /\ KeysDiffer(s) /\ value = [t |-> "hash", v |-> s]
      BY <2>4, GuestValsAt
    <3> HIDE DEF s
    <3>2. \A i \in DOMAIN s : /\ deeper[s[i][1]].err = "NoErr"
                              /\ deeper[s[i][2]].err = "NoErr"
      BY <1>2, <2>4, <3>1, HostHashCopied DEF s
    <3> HIDE DEF deeper
    <3>3. \A i \in DOMAIN s : s[i] \in Inside(GuestLeaves, n) \X Inside(GuestLeaves, n)
      BY <2>2, <3>1, <3>2
    <3>4. s \in Seq(Inside(GuestLeaves, n) \X Inside(GuestLeaves, n))
      BY <3>1, <3>3
    <3> QED
      BY <2>1, <3>1, <3>4, HashNests
  <2>5. CASE value.t \notin {"array", "hash"}
    <3>1. value \in GuestLeaves \cup {Loop}
      BY <2>5, GuestValsAt
    <3>2. value # Loop
      BY HostLoopFails
    <3> QED
      BY <2>1, <3>1, <3>2, InsideIsNested
  <2> QED
    BY <2>3, <2>4, <2>5
<1> HIDE DEF S
<1>3. \A depth \in Nat : depth \in S
  BY <1>1, <1>2, DepthInduction
<1> QED
  BY <1>3 DEF S

------------------------------------------------------------------------------
(* Leaves.                                                                  *)

GuestLeaf(value) ==
  IF value.t \in {"string", "symbol"} THEN [t |-> value.t, v |-> value.v] ELSE value
HostLeaf(value) ==
  IF value.t = "string" THEN HostString(value.v)
  ELSE IF value.t = "symbol" THEN HostSymbol(value.v) ELSE value

Representable(value) ==
  /\ value.t = "fixnum" => value.v \in HostFixnums
  /\ value.t = "symbol" => value.v \in Utf8Texts

\* A leaf copied to the guest.
LEMMA GuestLeafCopied ==
  ASSUME NEW depth \in Nat, depth <= DepthMax, NEW value \in HostVals,
         value.t \notin {"array", "hash", "loop"}, NEW x \in Excs
  PROVE  LET c == ToGuest[depth][value][x]
         IN /\ c.err = "NoErr" => c.v = GuestLeaf(value) /\ value.t # "object"
            /\ x # "error" /\ value.t # "object" => c.err = "NoErr"
<1> DEFINE c == ToGuest[depth][value][x]
<1>1. /\ value.t \in Immediate => c = Copied(value, x)
      /\ value.t = "fixnum" => c = CheckException(value, x)
      /\ value.t \in {"string", "symbol"} =>
           c = CheckException([t |-> value.t, v |-> value.v], x)
      /\ value.t = "object" => c = Failed("Unsupported", x)
  BY GuestCopies
<1>2. value.t \in Immediate \cup {"object", "symbol", "fixnum", "string"}
  BY HostValsAt
<1>3. \A v : /\ CheckException(v, x).err = "NoErr" => CheckException(v, x).v = v
             /\ x # "error" => CheckException(v, x).err = "NoErr"
  BY CopyFields DEF CheckException
<1> HIDE DEF c
<1>4. /\ c.err = "NoErr" => c.v = GuestLeaf(value) /\ value.t # "object"
      /\ x # "error" /\ value.t # "object" => c.err = "NoErr"
  BY <1>1, <1>2, <1>3, CopyFields DEF GuestLeaf, Immediate
<1> QED
  BY <1>4 DEF c

\* A leaf copied to the host.
LEMMA HostLeafCopied ==
  ASSUME NEW depth \in Nat, depth <= DepthMax, NEW value \in GuestVals,
         value.t \notin {"array", "hash", "loop"}
  PROVE  LET c == ToHost[depth][value]
         IN /\ c.err = "NoErr" =>
                 c.v = HostLeaf(value) /\ value.t # "object" /\ Representable(value)
            /\ value.t # "object" /\ Representable(value) =>
                 c = Copied(HostLeaf(value), "none")
            /\ c.err # "TooDeep"
<1> DEFINE c == ToHost[depth][value]
<1>1. /\ value.t \in Immediate => c = Copied(value, "none")
      /\ value.t = "symbol" /\ value.v \in Utf8Texts => c = Copied(HostSymbol(value.v), "none")
      /\ value.t = "symbol" /\ value.v \notin Utf8Texts => c = Failed("EncodingError", "none")
      /\ value.t = "fixnum" /\ value.v \in HostFixnums => c = Copied(value, "none")
      /\ value.t = "fixnum" /\ value.v \notin HostFixnums => c = Failed("OutOfRange", "none")
      /\ value.t = "string" => c = Copied(HostString(value.v), "none")
      /\ value.t = "object" => c = Failed("Unsupported", "none")
  BY HostCopies
<1>2. value.t \in Immediate \cup {"object", "symbol", "fixnum", "string"}
  BY GuestValsAt
<1> HIDE DEF c
<1>3. /\ c.err = "NoErr" =>
           c.v = HostLeaf(value) /\ value.t # "object" /\ Representable(value)
      /\ value.t # "object" /\ Representable(value) => c = Copied(HostLeaf(value), "none")
      /\ c.err # "TooDeep"
  BY <1>1, <1>2, CopyFields DEF HostLeaf, Representable, Immediate
<1> QED
  BY <1>3 DEF c

\* A leaf that crosses and comes back is itself.
LEMMA LeavesCross ==
  /\ \A value \in HostLeaves : value.t # "object" =>
       GuestLeaf(value) \in GuestLeaves /\ GuestLeaf(value).t = value.t
  /\ \A value \in GuestLeaves : value.t # "object" /\ Representable(value) =>
       HostLeaf(value) \in Utf8Leaves /\ HostLeaf(value).t = value.t
  /\ \A value \in Utf8Leaves :
       Representable(GuestLeaf(value)) /\ HostLeaf(GuestLeaf(value)) = value
  /\ \A value \in GuestLeaves : GuestLeaf(HostLeaf(value)) = value
<1>0. /\ HostFixnums \subseteq Int /\ "UTF-8" \in Encodings /\ "US-ASCII" \in Encodings
      /\ AsciiTexts \subseteq Utf8Texts /\ Utf8Texts \subseteq Texts
  BY MarshalAssumption
<1>1. \A value \in HostLeaves : value.t # "object" =>
        GuestLeaf(value) \in GuestLeaves /\ GuestLeaf(value).t = value.t
  BY <1>0 DEF HostLeaves, HostSymbols, GuestLeaves, Plain, Immediate, GuestLeaf
<1>2. \A value \in GuestLeaves : value.t # "object" /\ Representable(value) =>
        HostLeaf(value) \in Utf8Leaves /\ HostLeaf(value).t = value.t
  <2> SUFFICES ASSUME NEW value \in GuestLeaves, value.t # "object", Representable(value)
               PROVE  HostLeaf(value) \in Utf8Leaves /\ HostLeaf(value).t = value.t
    OBVIOUS
  <2>1. CASE value.t = "symbol"
    <3>1. value.v \in Utf8Texts /\ HostLeaf(value) = HostSymbol(value.v)
      BY <2>1 DEF Representable, HostLeaf
    <3>2. HostSymbol(value.v) \in HostSymbols
      BY <1>0, <3>1 DEF HostSymbol, HostSymbols
    <3> QED
      BY <2>1, <3>1, <3>2 DEF HostSymbol, HostLeaves, Utf8Leaves
  <2>2. CASE value.t # "symbol"
    BY <1>0, <2>2 DEF HostLeaves, GuestLeaves, Utf8Leaves, Plain, Immediate, HostLeaf, HostString, Representable
  <2> QED
    BY <2>1, <2>2
<1>3. \A value \in Utf8Leaves :
        Representable(GuestLeaf(value)) /\ HostLeaf(GuestLeaf(value)) = value
  <2> SUFFICES ASSUME NEW value \in Utf8Leaves
               PROVE  Representable(GuestLeaf(value)) /\ HostLeaf(GuestLeaf(value)) = value
    OBVIOUS
  <2>1. CASE value.t = "symbol"
    <3>1. value \in HostSymbols /\ value.enc \in {"US-ASCII", "UTF-8"}
      BY <2>1 DEF Utf8Leaves, HostLeaves, Plain, Immediate
    <3>2. value.v \in Utf8Texts /\ HostSymbol(value.v) = value
      BY <1>0, <3>1 DEF HostSymbols, HostSymbol
    <3> QED
      BY <2>1, <3>2 DEF GuestLeaf, HostLeaf, Representable
  <2>2. CASE value.t # "symbol"
    BY <2>2 DEF HostLeaves, HostSymbols, Utf8Leaves, Plain, Immediate, HostLeaf, GuestLeaf, HostString, Representable
  <2> QED
    BY <2>1, <2>2
<1>4. \A value \in GuestLeaves : GuestLeaf(HostLeaf(value)) = value
  BY DEF GuestLeaves, Plain, Immediate, HostLeaf, GuestLeaf, HostString, HostSymbol
<1> QED
  BY <1>1, <1>2, <1>3, <1>4

(* The copies nest as the values do.                                        *)

\* The copy nests no deeper than the value.
LEMMA GuestCopyNests ==
  \A depth \in Nat : \A value \in HostVals, x \in Excs, n \in Nat :
    value \in NestedIn(HostLeaves \cup {Loop}, n) /\ ToGuest[depth][value][x].err = "NoErr" =>
      ToGuest[depth][value][x].v \in NestedIn(GuestLeaves \cup {Loop}, n)
<1> DEFINE S == {depth \in Nat : \A value \in HostVals, x \in Excs, n \in Nat :
                   value \in NestedIn(HostLeaves \cup {Loop}, n) /\ ToGuest[depth][value][x].err = "NoErr" =>
                     ToGuest[depth][value][x].v \in NestedIn(GuestLeaves \cup {Loop}, n)}
<1>0. DepthMax \in Nat /\ HostFixnums \subseteq Int /\ "UTF-8" \in Encodings
  BY MarshalAssumption
<1>1. ASSUME NEW depth \in Nat, depth > DepthMax
      PROVE  depth \in S
  <2>1. \A value \in HostVals, x \in Excs : ToGuest[depth][value][x] = Failed("TooDeep", x)
    BY <1>1, GuestCopies
  <2> QED
    BY <2>1, CopyFields
<1>2. ASSUME NEW depth \in Nat, depth <= DepthMax, depth + 1 \in S
      PROVE  depth \in S
  <2> SUFFICES ASSUME NEW value \in HostVals, NEW x \in Excs, NEW n \in Nat,
                      value \in NestedIn(HostLeaves \cup {Loop}, n), ToGuest[depth][value][x].err = "NoErr"
               PROVE  ToGuest[depth][value][x].v \in NestedIn(GuestLeaves \cup {Loop}, n)
    OBVIOUS
  <2> DEFINE A == HostLeaves \cup {Loop}
             B == GuestLeaves \cup {Loop}
             deeper == ToGuest[depth + 1]
             c == ToGuest[depth][value][x]
  <2>0. "none" \in Excs
    BY DEF Excs
  <2>1. ASSUME NEW e \in HostVals, deeper[e]["none"].err = "NoErr", e \in Inside(A, n)
        PROVE  deeper[e]["none"].v \in Inside(B, n)
    <3>1. n # 0 /\ n - 1 \in Nat /\ e \in NestedIn(A, n - 1)
      BY <2>1 DEF Inside
    <3>2. deeper[e]["none"].v \in NestedIn(B, n - 1)
      BY <1>2, <2>0, <2>1, <3>1
    <3> QED
      BY <3>1, <3>2 DEF Inside
  <2>2. NoContainers(A) /\ value \in NestedIn(A, n)
    BY LeavesAreNoContainers
  <2> HIDE DEF A, B
  <2>3. CASE value.t = "array"
    <3> DEFINE s == value.v
               r == [i \in DOMAIN s |-> deeper[s[i]]["none"].v]
    <3>1. s \in Seq(HostVals)
      BY <2>3, HostValsAt
    <3>2. s \in Seq(Inside(A, n))
      BY <2>2, <2>3, Contents
    <3> HIDE DEF s
    <3>3. c.v = [t |-> "array", v |-> r] /\ \A i \in DOMAIN s : deeper[s[i]]["none"].err = "NoErr"
      BY <1>2, <2>3, <3>1, GuestArrayCopied DEF s
    <3> HIDE DEF deeper, c
    <3>4. \A i \in DOMAIN s : deeper[s[i]]["none"].v \in Inside(B, n)
      BY <2>1, <3>1, <3>2, <3>3
    <3>5. r \in Seq(Inside(B, n))
      BY <3>1, <3>4
    <3>6. c.v \in NestedIn(B, n)
      BY <3>3, <3>5, ArrayNests
    <3> QED
      BY <3>6 DEF c, B
  <2>4. CASE value.t = "hash"
    <3> DEFINE s == value.v
               r == [i \in DOMAIN s |-> <<deeper[s[i][1]]["none"].v, deeper[s[i][2]]["none"].v>>]
    <3>1. s \in Seq(HostVals \X HostVals)
      BY <2>4, HostValsAt
    <3>2. s \in Seq(Inside(A, n) \X Inside(A, n))
      BY <2>2, <2>4, Contents
    <3> HIDE DEF s
    <3>3. c.v = [t |-> "hash", v |-> Associated(r)]
          /\ \A i \in DOMAIN s : /\ deeper[s[i][1]]["none"].err = "NoErr"
                                /\ deeper[s[i][2]]["none"].err = "NoErr"
      BY <1>2, <2>4, <3>1, GuestHashCopied DEF s
    <3> HIDE DEF deeper, c
    <3>4. \A i \in DOMAIN s : /\ deeper[s[i][1]]["none"].v \in Inside(B, n)
                              /\ deeper[s[i][2]]["none"].v \in Inside(B, n)
      <4> TAKE i \in DOMAIN s
      <4>1. /\ s[i][1] \in HostVals /\ s[i][2] \in HostVals
            /\ s[i][1] \in Inside(A, n) /\ s[i][2] \in Inside(A, n)
        BY <3>1, <3>2
      <4> QED
        BY <2>1, <3>3, <4>1
    <3>5. r \in Seq(Inside(B, n) \X Inside(B, n))
      <4>1. \A i \in DOMAIN s : r[i] \in Inside(B, n) \X Inside(B, n)
        BY <3>4
      <4>2. DOMAIN s = 1..Len(s) /\ Len(s) \in Nat
        BY <3>1
      <4>3. r = [i \in DOMAIN s |-> r[i]]
        OBVIOUS
      <4> HIDE DEF r
      <4> QED
        BY <4>1, <4>2, <4>3
    <3> HIDE DEF r
    <3>6. Associated(r) \in Seq(Inside(B, n) \X Inside(B, n)) /\ KeysDiffer(Associated(r))
      BY <3>5, AssociatedKeepsKeysApart
    <3>7. c.v \in NestedIn(B, n)
      BY <3>3, <3>6, HashNests
    <3> QED
      BY <3>7 DEF c, B
  <2>5. CASE value.t \notin {"array", "hash"}
    <3>1. value \in HostLeaves /\ value.t # "loop"
      BY <2>5, HostValsAt, GuestLoopFails DEF Loop, HostLeaves, HostSymbols, Plain, Immediate
    <3>2. c.v \in GuestLeaves
      BY <1>2, <2>5, <3>1, GuestLeafCopied, LeavesCross
    <3> QED
      BY <3>2, InsideIsNested DEF B
  <2> QED
    BY <2>3, <2>4, <2>5
<1> HIDE DEF S
<1>3. \A depth \in Nat : depth \in S
  BY <1>1, <1>2, DepthInduction
<1> QED
  BY <1>3 DEF S

\* The copy nests no deeper than the value.
LEMMA HostCopyNests ==
  \A depth \in Nat : \A value \in GuestVals, n \in Nat :
    value \in NestedIn(GuestLeaves \cup {Loop}, n) /\ ToHost[depth][value].err = "NoErr" =>
      ToHost[depth][value].v \in NestedIn(Utf8Leaves \cup {Loop}, n)
<1> DEFINE S == {depth \in Nat : \A value \in GuestVals, n \in Nat :
                   value \in NestedIn(GuestLeaves \cup {Loop}, n) /\ ToHost[depth][value].err = "NoErr" =>
                     ToHost[depth][value].v \in NestedIn(Utf8Leaves \cup {Loop}, n)}
<1>0. DepthMax \in Nat /\ HostFixnums \subseteq Int /\ "UTF-8" \in Encodings
  BY MarshalAssumption
<1>1. ASSUME NEW depth \in Nat, depth > DepthMax
      PROVE  depth \in S
  <2>1. \A value \in GuestVals : ToHost[depth][value] = Failed("TooDeep", "none")
    BY <1>1, HostCopies
  <2> QED
    BY <2>1, CopyFields
<1>2. ASSUME NEW depth \in Nat, depth <= DepthMax, depth + 1 \in S
      PROVE  depth \in S
  <2> SUFFICES ASSUME NEW value \in GuestVals, NEW n \in Nat,
                      value \in NestedIn(GuestLeaves \cup {Loop}, n), ToHost[depth][value].err = "NoErr"
               PROVE  ToHost[depth][value].v \in NestedIn(Utf8Leaves \cup {Loop}, n)
    OBVIOUS
  <2> DEFINE A == GuestLeaves \cup {Loop}
             B == Utf8Leaves \cup {Loop}
             deeper == ToHost[depth + 1]
             c == ToHost[depth][value]
  <2>0. "none" \in Excs
    BY DEF Excs
  <2>1. ASSUME NEW e \in GuestVals, deeper[e].err = "NoErr", e \in Inside(A, n)
        PROVE  deeper[e].v \in Inside(B, n)
    <3>1. n # 0 /\ n - 1 \in Nat /\ e \in NestedIn(A, n - 1)
      BY <2>1 DEF Inside
    <3>2. deeper[e].v \in NestedIn(B, n - 1)
      BY <1>2, <2>0, <2>1, <3>1
    <3> QED
      BY <3>1, <3>2 DEF Inside
  <2>2. NoContainers(A) /\ value \in NestedIn(A, n)
    BY LeavesAreNoContainers
  <2> HIDE DEF A, B
  <2>3. CASE value.t = "array"
    <3> DEFINE s == value.v
               r == [i \in DOMAIN s |-> deeper[s[i]].v]
    <3>1. s \in Seq(GuestVals)
      BY <2>3, GuestValsAt
    <3>2. s \in Seq(Inside(A, n))
      BY <2>2, <2>3, Contents
    <3> HIDE DEF s
    <3>3. c.v = [t |-> "array", v |-> r] /\ \A i \in DOMAIN s : deeper[s[i]].err = "NoErr"
      BY <1>2, <2>3, <3>1, HostArrayCopied DEF s
    <3> HIDE DEF deeper, c
    <3>4. \A i \in DOMAIN s : deeper[s[i]].v \in Inside(B, n)
      BY <2>1, <3>1, <3>2, <3>3
    <3>5. r \in Seq(Inside(B, n))
      BY <3>1, <3>4
    <3>6. c.v \in NestedIn(B, n)
      BY <3>3, <3>5, ArrayNests
    <3> QED
      BY <3>6 DEF c, B
  <2>4. CASE value.t = "hash"
    <3> DEFINE s == value.v
               r == [i \in DOMAIN s |-> <<deeper[s[i][1]].v, deeper[s[i][2]].v>>]
    <3>1. s \in Seq(GuestVals \X GuestVals)
      BY <2>4, GuestValsAt
    <3>2. s \in Seq(Inside(A, n) \X Inside(A, n))
      BY <2>2, <2>4, Contents
    <3> HIDE DEF s
    <3>3. c.v = [t |-> "hash", v |-> Associated(r)]
          /\ \A i \in DOMAIN s : /\ deeper[s[i][1]].err = "NoErr"
                                /\ deeper[s[i][2]].err = "NoErr"
      BY <1>2, <2>4, <3>1, HostHashCopied DEF s
    <3> HIDE DEF deeper, c
    <3>4. \A i \in DOMAIN s : /\ deeper[s[i][1]].v \in Inside(B, n)
                              /\ deeper[s[i][2]].v \in Inside(B, n)
      <4> TAKE i \in DOMAIN s
      <4>1. /\ s[i][1] \in GuestVals /\ s[i][2] \in GuestVals
            /\ s[i][1] \in Inside(A, n) /\ s[i][2] \in Inside(A, n)
        BY <3>1, <3>2
      <4> QED
        BY <2>1, <3>3, <4>1
    <3>5. r \in Seq(Inside(B, n) \X Inside(B, n))
      BY <3>1, <3>4
    <3> HIDE DEF r
    <3>6. Associated(r) \in Seq(Inside(B, n) \X Inside(B, n)) /\ KeysDiffer(Associated(r))
      BY <3>5, AssociatedKeepsKeysApart
    <3>7. c.v \in NestedIn(B, n)
      BY <3>3, <3>6, HashNests
    <3> QED
      BY <3>7 DEF c, B
  <2>5. CASE value.t \notin {"array", "hash"}
    <3>1. value \in GuestLeaves /\ value.t # "loop"
      BY <2>5, GuestValsAt, HostLoopFails DEF Loop, GuestLeaves, Plain, Immediate
    <3>2. c.v \in Utf8Leaves
      BY <1>2, <2>5, <3>1, HostLeafCopied, LeavesCross
    <3> QED
      BY <3>2, InsideIsNested DEF B
  <2> QED
    BY <2>3, <2>4, <2>5
<1> HIDE DEF S
<1>3. \A depth \in Nat : depth \in S
  BY <1>1, <1>2, DepthInduction
<1> QED
  BY <1>3 DEF S

\* Nothing that nests within the limit is too deep.
LEMMA HostShallowIsNotTooDeep ==
  \A depth \in Nat : depth <= DepthMax + 1 =>
    \A value \in GuestVals : value \in Inside(GuestLeaves, DepthMax + 1 - depth) =>
      ToHost[depth][value].err # "TooDeep"
<1> DEFINE S == {depth \in Nat : depth <= DepthMax + 1 =>
                   \A value \in GuestVals :
                     value \in Inside(GuestLeaves, DepthMax + 1 - depth) =>
                       ToHost[depth][value].err # "TooDeep"}
<1>0. DepthMax \in Nat
  BY MarshalAssumption
<1>1. ASSUME NEW depth \in Nat, depth > DepthMax
      PROVE  depth \in S
  <2> SUFFICES ASSUME depth <= DepthMax + 1
               PROVE  Inside(GuestLeaves, DepthMax + 1 - depth) = {}
    OBVIOUS
  <2>1. DepthMax + 1 - depth = 0
    BY <1>0, <1>1
  <2> QED
    BY <2>1 DEF Inside
<1>2. ASSUME NEW depth \in Nat, depth <= DepthMax, depth + 1 \in S
      PROVE  depth \in S
  <2> SUFFICES ASSUME NEW value \in GuestVals,
                      value \in Inside(GuestLeaves, DepthMax + 1 - depth)
               PROVE  ToHost[depth][value].err # "TooDeep"
    OBVIOUS
  <2> DEFINE n == DepthMax - depth
             deeper == ToHost[depth + 1]
             c == ToHost[depth][value]
             in == Inside(GuestLeaves, n)
  <2>1. n \in Nat /\ value \in NestedIn(GuestLeaves, n)
    <3>1. DepthMax + 1 - depth # 0 /\ (DepthMax + 1 - depth) - 1 = n /\ n \in Nat
      BY <1>0, <1>2
    <3> QED
      BY <3>1 DEF Inside
  <2>2. \A e \in GuestVals : e \in in => deeper[e].err # "TooDeep"
    <3>1. depth + 1 <= DepthMax + 1 /\ DepthMax + 1 - (depth + 1) = n
      BY <1>0, <1>2
    <3> QED
      BY <1>2, <3>1
  <2>3. /\ value.t = "array" => value.v \in Seq(in)
        /\ value.t = "hash" => value.v \in Seq(in \X in)
        /\ value.t \notin {"array", "hash"} => value \in GuestLeaves
    BY <2>1, Contents, LeavesAreNoContainers
  <2>4. /\ value.t = "array" => value.v \in Seq(GuestVals)
        /\ value.t = "hash" => value.v \in Seq(GuestVals \X GuestVals)
    BY GuestValsAt
  <2> HIDE DEF n, in
  <2>5. CASE value.t = "array"
    <3> DEFINE copies == HostElements(value.v, depth)
               made == [t |-> "array", v |-> ValuesOf(copies)]
    <3>1. c = UnlessFailed(copies, made)
      BY <1>2, <2>5, HostCopies DEF ArrayOf
    <3>2. /\ DOMAIN copies = DOMAIN value.v
          /\ DOMAIN copies \subseteq Nat
          /\ \A i \in DOMAIN copies : copies[i] = deeper[value.v[i]]
      BY <2>4, <2>5 DEF HostElements
    <3> HIDE DEF copies, made, c, deeper
    <3>3. \A i \in DOMAIN copies : copies[i].err # "TooDeep"
      BY <2>2, <2>3, <2>4, <2>5, <3>2
    <3>4. c.err # "TooDeep"
      BY <3>1, <3>2, <3>3, UnlessFailedCases, CopyFields
    <3> QED
      BY <3>4 DEF c
  <2>6. CASE value.t = "hash"
    <3> DEFINE copies == HostPairs(value.v, depth)
               made == [t |-> "hash", v |-> Associated(ValuesOf(copies))]
    <3>1. c = UnlessFailed(copies, made)
      BY <1>2, <2>6, HostCopies DEF HashOf
    <3>2. /\ DOMAIN copies = DOMAIN value.v
          /\ DOMAIN copies \subseteq Nat
          /\ \A i \in DOMAIN copies : copies[i] = HostPair(value.v[i], deeper)
      BY <2>4, <2>6 DEF HostPairs
    <3> HIDE DEF copies, made, c, deeper
    <3>3. ASSUME NEW i \in DOMAIN copies
          PROVE  copies[i].err # "TooDeep"
      <4> DEFINE p == value.v[i]
                 k == deeper[p[1]]
                 v == deeper[p[2]]
      <4>1. p[1] \in GuestVals /\ p[2] \in GuestVals /\ p[1] \in in /\ p[2] \in in
        BY <2>3, <2>4, <2>6, <3>2
      <4>2. k.err # "TooDeep" /\ v.err # "TooDeep"
        BY <2>2, <4>1
      <4>3. copies[i] = IF k.err # "NoErr" THEN k ELSE IF v.err # "NoErr" THEN v
                        ELSE Copied(<<k.v, v.v>>, "none")
        BY <3>2 DEF HostPair
      <4> HIDE DEF k, v
      <4> QED
        BY <4>2, <4>3, CopyFields
    <3>4. c.err # "TooDeep"
      BY <3>1, <3>2, <3>3, UnlessFailedCases, CopyFields
    <3> QED
      BY <3>4 DEF c
  <2>7. CASE value.t \notin {"array", "hash"}
    <3>1. value.t # "loop"
      BY <2>3, <2>7 DEF GuestLeaves, Plain, Immediate
    <3> QED
      BY <1>2, <2>7, <3>1, HostLeafCopied
  <2> QED
    BY <2>5, <2>6, <2>7
<1> HIDE DEF S
<1>3. \A depth \in Nat : depth \in S
  BY <1>1, <1>2, DepthInduction
<1> QED
  BY <1>3 DEF S

------------------------------------------------------------------------------
(* There and back.                                                          *)

Utf8Vals == NestedIn(Utf8Leaves \cup {Loop}, MaxNesting)

\* The contents of a host's value in UTF-8 are such values.
LEMMA Utf8ValsAt ==
  /\ Utf8Vals \subseteq HostVals
  /\ \A value \in Utf8Vals :
       /\ value.t = "array" =>
            value.v \in Seq(Utf8Vals) /\ value = [t |-> "array", v |-> value.v]
       /\ value.t = "hash" =>
            /\ value.v \in Seq(Utf8Vals \X Utf8Vals)
            /\ KeysDiffer(value.v) /\ value = [t |-> "hash", v |-> value.v]
       /\ value.t \notin {"array", "hash"} => value \in Utf8Leaves \cup {Loop}
<1> DEFINE base == Utf8Leaves \cup {Loop}
           in == Inside(base, MaxNesting)
<1>0. MaxNesting \in Nat
  BY MarshalAssumption
<1>1. Utf8Vals \subseteq HostVals
  <2>1. base \subseteq HostLeaves \cup {Loop}
    BY DEF Utf8Leaves
  <2> HIDE DEF base
  <2>2. NestedIn(base, MaxNesting) \subseteq NestedIn(HostLeaves \cup {Loop}, MaxNesting)
    BY <1>0, <2>1, NestedInBase
  <2> QED
    BY <2>2 DEF Utf8Vals, HostVals, base
<1>2. in \subseteq Utf8Vals
  BY <1>0, InsideIsNested DEF Utf8Vals
<1> HIDE DEF in
<1>3. Seq(in) \subseteq Seq(Utf8Vals) /\ Seq(in \X in) \subseteq Seq(Utf8Vals \X Utf8Vals)
  BY <1>2
<1>4. ASSUME NEW value \in Utf8Vals
      PROVE  /\ value.t = "array" =>
                  value.v \in Seq(in) /\ value = [t |-> "array", v |-> value.v]
             /\ value.t = "hash" =>
                  /\ value.v \in Seq(in \X in)
                  /\ KeysDiffer(value.v) /\ value = [t |-> "hash", v |-> value.v]
             /\ value.t \notin {"array", "hash"} => value \in base
  BY <1>0, LeavesAreNoContainers, Contents DEF Utf8Vals, in
<1> QED
  BY <1>1, <1>3, <1>4

\* The copy of a host's value in the guest.
LEMMA GuestCopyIsValue ==
  ASSUME NEW depth \in Nat, NEW value \in HostVals, NEW x \in Excs,
         ToGuest[depth][value][x].err = "NoErr"
  PROVE  ToGuest[depth][value][x].v \in GuestVals
  BY MarshalAssumption, GuestCopyNests DEF HostVals, GuestVals

\* What comes to the host is a value in UTF-8.
LEMMA HostCopyIsValue ==
  ASSUME NEW depth \in Nat, NEW value \in GuestVals,
         ToHost[depth][value].err = "NoErr"
  PROVE  ToHost[depth][value].v \in Utf8Vals
  BY MarshalAssumption, HostCopyNests DEF Utf8Vals, GuestVals

\* Whatever inject accepts, extract gives back.
LEMMA InjectedReturns ==
  \A depth \in Nat : \A value \in Utf8Vals, x \in Excs :
    ToGuest[depth][value][x].err = "NoErr" =>
      ToHost[depth][ToGuest[depth][value][x].v] = Copied(value, "none")
<1> DEFINE S == {depth \in Nat : \A value \in Utf8Vals, x \in Excs :
                   ToGuest[depth][value][x].err = "NoErr" =>
                     ToHost[depth][ToGuest[depth][value][x].v] = Copied(value, "none")}
<1>0. DepthMax \in Nat
  BY MarshalAssumption
<1>1. ASSUME NEW depth \in Nat, depth > DepthMax
      PROVE  depth \in S
  <2>1. \A value \in HostVals, x \in Excs :
          ToGuest[depth][value][x] = Failed("TooDeep", x)
    BY <1>1, GuestCopies
  <2> QED
    BY <2>1, CopyFields, Utf8ValsAt
<1>2. ASSUME NEW depth \in Nat, depth <= DepthMax, depth + 1 \in S
      PROVE  depth \in S
  <2> SUFFICES ASSUME NEW value \in Utf8Vals, NEW x \in Excs,
                      ToGuest[depth][value][x].err = "NoErr"
               PROVE  ToHost[depth][ToGuest[depth][value][x].v] = Copied(value, "none")
    OBVIOUS
  <2> DEFINE in == ToGuest[depth + 1]
             out == ToHost[depth + 1]
             g == ToGuest[depth][value][x].v
             h == ToHost[depth][g]
  <2>0. "none" \in Excs /\ value \in HostVals
    BY Utf8ValsAt DEF Excs
  <2>1. g \in GuestVals
    BY <2>0, GuestCopyIsValue
  <2>2. \A e \in Utf8Vals : in[e]["none"].err = "NoErr" =>
          out[in[e]["none"].v] = Copied(e, "none")
    BY <1>2, <2>0
  <2>3. CASE value.t = "array"
    <3> DEFINE s == value.v
               r == [i \in DOMAIN s |-> in[s[i]]["none"].v]
    <3>1. s \in Seq(Utf8Vals) /\ value = [t |-> "array", v |-> s]
      BY <2>3, Utf8ValsAt
    <3>2. g = [t |-> "array", v |-> r] /\ \A i \in DOMAIN s : in[s[i]]["none"].err = "NoErr"
      BY <1>2, <2>0, <2>3, GuestArrayCopied
    <3> HIDE DEF s, in, g
    <3>3. /\ DOMAIN r = DOMAIN s
          /\ \A i \in DOMAIN s : out[r[i]] = Copied(s[i], "none")
      BY <2>2, <3>1, <3>2
    <3>4. \A i \in DOMAIN s : out[r[i]].err = "NoErr" /\ out[r[i]].v = s[i]
      BY <3>3, CopyFields
    <3> HIDE DEF r
    <3>5. g.t = "array" /\ g.v = r
      BY <3>2
    <3>6. h = Copied([t |-> "array", v |-> [i \in DOMAIN r |-> out[r[i]].v]], "none")
      <4>1. \A i \in DOMAIN g.v : out[g.v[i]].err = "NoErr"
        BY <3>3, <3>4, <3>5
      <4>2. h = Copied([t |-> "array", v |-> [i \in DOMAIN g.v |-> out[g.v[i]].v]], "none")
        BY <1>2, <2>1, <3>5, <4>1, HostArrayCopied
      <4> QED
        BY <3>5, <4>2
    <3>7. [i \in DOMAIN r |-> out[r[i]].v] = s
      BY <3>1, <3>3, <3>4
    <3>8. h = Copied(value, "none")
      BY <3>1, <3>6, <3>7
    <3> QED
      BY <3>8 DEF g
  <2>4. CASE value.t = "hash"
    <3> DEFINE s == value.v
               r == [i \in DOMAIN s |-> <<in[s[i][1]]["none"].v, in[s[i][2]]["none"].v>>]
    <3>1. s \in Seq(Utf8Vals \X Utf8Vals) /\ KeysDiffer(s) /\ value = [t |-> "hash", v |-> s]
      BY <2>4, Utf8ValsAt
    <3>2. g = [t |-> "hash", v |-> Associated(r)]
          /\ \A i \in DOMAIN s : /\ in[s[i][1]]["none"].err = "NoErr"
                                /\ in[s[i][2]]["none"].err = "NoErr"
      BY <1>2, <2>0, <2>4, GuestHashCopied
    <3> HIDE DEF s, in, g
    <3>3. /\ DOMAIN r = DOMAIN s
          /\ \A i \in DOMAIN s : /\ out[r[i][1]] = Copied(s[i][1], "none")
                                /\ out[r[i][2]] = Copied(s[i][2], "none")
      <4>1. DOMAIN r = DOMAIN s
        OBVIOUS
      <4> SUFFICES ASSUME NEW i \in DOMAIN s
                   PROVE  /\ out[r[i][1]] = Copied(s[i][1], "none")
                          /\ out[r[i][2]] = Copied(s[i][2], "none")
        BY <4>1
      <4>2. s[i][1] \in Utf8Vals /\ s[i][2] \in Utf8Vals
        BY <3>1
      <4>3. r[i][1] = in[s[i][1]]["none"].v /\ r[i][2] = in[s[i][2]]["none"].v
        OBVIOUS
      <4> QED
        BY <2>2, <3>2, <4>2, <4>3
    <3>4. \A i \in DOMAIN s : /\ out[r[i][1]].err = "NoErr" /\ out[r[i][1]].v = s[i][1]
                            /\ out[r[i][2]].err = "NoErr" /\ out[r[i][2]].v = s[i][2]
      BY <3>3, CopyFields
    <3>5. Associated(r) = r
      <4>1. r \in Seq({r[i] : i \in DOMAIN s})
        BY <3>1
      <4> HIDE DEF r
      <4>2. KeysDiffer(r)
        BY <3>1, <3>3, <3>4 DEF KeysDiffer
      <4> QED
        BY <4>1, <4>2, AssociatedIsSame
    <3> HIDE DEF r
    <3>6. g.t = "hash" /\ g.v = r
      BY <3>2, <3>5
    <3> DEFINE q == [i \in DOMAIN r |-> <<out[r[i][1]].v, out[r[i][2]].v>>]
    <3>7. h = Copied([t |-> "hash", v |-> Associated(q)], "none")
      <4>1. \A i \in DOMAIN g.v : out[g.v[i][1]].err = "NoErr" /\ out[g.v[i][2]].err = "NoErr"
        BY <3>3, <3>4, <3>6
      <4>2. h = Copied([t |-> "hash", v |-> Associated(
                         [i \in DOMAIN g.v |-> <<out[g.v[i][1]].v, out[g.v[i][2]].v>>])], "none")
        BY <1>2, <2>1, <3>6, <4>1, HostHashCopied
      <4> QED
        BY <3>6, <4>2
    <3>8. q = s
      <4>1. \A i \in DOMAIN s : s[i] = <<s[i][1], s[i][2]>>
        BY <3>1
      <4>2. \A i \in DOMAIN s : q[i] = s[i]
        BY <3>3, <3>4, <4>1
      <4>3. DOMAIN q = DOMAIN s /\ q = [i \in DOMAIN q |-> q[i]]
        BY <3>3
      <4> HIDE DEF q
      <4>4. s = [i \in DOMAIN s |-> s[i]]
        BY <3>1
      <4> QED
        BY <4>2, <4>3, <4>4
    <3>9. h = Copied(value, "none")
      BY <3>1, <3>7, <3>8, AssociatedIsSame
    <3> QED
      BY <3>9 DEF g
  <2>5. CASE value.t \notin {"array", "hash"}
    <3>1. value \in Utf8Leaves /\ value.t # "loop" /\ value \in HostLeaves
      <4>1. value \in Utf8Leaves /\ value \in HostLeaves
        BY <2>0, <2>5, Utf8ValsAt, GuestLoopFails DEF Utf8Leaves
      <4> QED
        BY <4>1 DEF HostLeaves, HostSymbols, Plain, Immediate
    <3>2. g = GuestLeaf(value) /\ value.t # "object"
      BY <1>2, <2>0, <2>5, <3>1, GuestLeafCopied
    <3>3. g.t = value.t /\ Representable(g) /\ HostLeaf(g) = value
      BY <3>1, <3>2, LeavesCross
    <3>4. h = Copied(HostLeaf(g), "none")
      BY <1>2, <2>1, <2>5, <3>1, <3>2, <3>3, HostLeafCopied
    <3> QED
      BY <3>3, <3>4
  <2> QED
    BY <2>3, <2>4, <2>5
<1> HIDE DEF S
<1>3. \A depth \in Nat : depth \in S
  BY <1>1, <1>2, DepthInduction
<1> QED
  BY <1>3 DEF S

\* Whatever extract hands out, inject takes back, and it means the same.
LEMMA ExtractedReturns ==
  ASSUME ~rude
  PROVE  \A depth \in Nat : \A value \in GuestVals, x \in Excs :
           x # "error" /\ ToHost[depth][value].err = "NoErr" =>
             /\ ToGuest[depth][ToHost[depth][value].v][x].err = "NoErr"
             /\ ToGuest[depth][ToHost[depth][value].v][x].v = value
<1> DEFINE S == {depth \in Nat : \A value \in GuestVals, x \in Excs :
           x # "error" /\ ToHost[depth][value].err = "NoErr" =>
             /\ ToGuest[depth][ToHost[depth][value].v][x].err = "NoErr"
             /\ ToGuest[depth][ToHost[depth][value].v][x].v = value}
<1>0. DepthMax \in Nat
  BY MarshalAssumption
<1>1. ASSUME NEW depth \in Nat, depth > DepthMax
      PROVE  depth \in S
  <2>1. \A value \in GuestVals : ToHost[depth][value] = Failed("TooDeep", "none")
    BY <1>1, HostCopies
  <2> QED
    BY <2>1, CopyFields
<1>2. ASSUME NEW depth \in Nat, depth <= DepthMax, depth + 1 \in S
      PROVE  depth \in S
  <2> SUFFICES ASSUME NEW value \in GuestVals, NEW x \in Excs, x # "error",
                      ToHost[depth][value].err = "NoErr"
               PROVE  /\ ToGuest[depth][ToHost[depth][value].v][x].err = "NoErr"
                      /\ ToGuest[depth][ToHost[depth][value].v][x].v = value
    OBVIOUS
  <2> DEFINE in == ToGuest[depth + 1]
             out == ToHost[depth + 1]
             h == ToHost[depth][value].v
             g == ToGuest[depth][h][x]
  <2>0. "none" \in Excs /\ "none" # "error"
    BY DEF Excs
  <2>1. h \in HostVals
    BY HostCopyIsValue, Utf8ValsAt
  <2>2. \A e \in GuestVals : out[e].err = "NoErr" =>
          in[out[e].v]["none"].err = "NoErr" /\ in[out[e].v]["none"].v = e
    BY <1>2, <2>0
  <2>3. CASE value.t = "array"
    <3> DEFINE s == value.v
               r == [i \in DOMAIN s |-> out[s[i]].v]
    <3>1. s \in Seq(GuestVals) /\ value = [t |-> "array", v |-> s]
      BY <2>3, GuestValsAt
    <3>2. h = [t |-> "array", v |-> r] /\ \A i \in DOMAIN s : out[s[i]].err = "NoErr"
      BY <1>2, <2>3, HostArrayCopied
    <3> HIDE DEF s, out, h
    <3>3. /\ DOMAIN r = DOMAIN s
          /\ \A i \in DOMAIN s : in[r[i]]["none"].err = "NoErr" /\ in[r[i]]["none"].v = s[i]
      BY <2>2, <3>1, <3>2
    <3> HIDE DEF r
    <3>4. h.t = "array" /\ h.v = r
      BY <3>2
    <3>5. g = Copied([t |-> "array", v |-> [i \in DOMAIN r |-> in[r[i]]["none"].v]], "none")
      <4>1. \A i \in DOMAIN h.v : in[h.v[i]]["none"].err = "NoErr"
        BY <3>3, <3>4
      <4>2. g = Copied([t |-> "array", v |-> [i \in DOMAIN h.v |-> in[h.v[i]]["none"].v]], "none")
        BY <1>2, <2>1, <3>4, <4>1, GuestArrayCopied
      <4> QED
        BY <3>4, <4>2
    <3>6. [i \in DOMAIN r |-> in[r[i]]["none"].v] = s
      BY <3>1, <3>3
    <3>7. g = Copied(value, "none")
      BY <3>1, <3>5, <3>6
    <3>8. g.err = "NoErr" /\ g.v = value
      BY <3>7, CopyFields
    <3> QED
      BY <3>8 DEF h
  <2>4. CASE value.t = "hash"
    <3> DEFINE s == value.v
               r == [i \in DOMAIN s |-> <<out[s[i][1]].v, out[s[i][2]].v>>]
    <3>1. s \in Seq(GuestVals \X GuestVals) /\ KeysDiffer(s) /\ value = [t |-> "hash", v |-> s]
      BY <2>4, GuestValsAt
    <3>2. h = [t |-> "hash", v |-> Associated(r)]
          /\ \A i \in DOMAIN s : out[s[i][1]].err = "NoErr" /\ out[s[i][2]].err = "NoErr"
      BY <1>2, <2>4, HostHashCopied
    <3> HIDE DEF s, out, h
    <3>3. /\ DOMAIN r = DOMAIN s
          /\ \A i \in DOMAIN s :
               /\ in[r[i][1]]["none"].err = "NoErr" /\ in[r[i][1]]["none"].v = s[i][1]
               /\ in[r[i][2]]["none"].err = "NoErr" /\ in[r[i][2]]["none"].v = s[i][2]
      <4>1. DOMAIN r = DOMAIN s
        OBVIOUS
      <4> SUFFICES ASSUME NEW i \in DOMAIN s
                   PROVE  /\ in[r[i][1]]["none"].err = "NoErr" /\ in[r[i][1]]["none"].v = s[i][1]
                          /\ in[r[i][2]]["none"].err = "NoErr" /\ in[r[i][2]]["none"].v = s[i][2]
        BY <4>1
      <4>2. s[i][1] \in GuestVals /\ s[i][2] \in GuestVals
        BY <3>1
      <4>3. r[i][1] = out[s[i][1]].v /\ r[i][2] = out[s[i][2]].v
        OBVIOUS
      <4> QED
        BY <2>2, <3>2, <4>2, <4>3
    <3>4. Associated(r) = r
      <4>1. r \in Seq({r[i] : i \in DOMAIN s})
        BY <3>1
      <4> HIDE DEF r
      <4>2. KeysDiffer(r)
        BY <3>1, <3>3 DEF KeysDiffer
      <4> QED
        BY <4>1, <4>2, AssociatedIsSame
    <3> HIDE DEF r
    <3>5. h.t = "hash" /\ h.v = r
      BY <3>2, <3>4
    <3> DEFINE q == [i \in DOMAIN r |-> <<in[r[i][1]]["none"].v, in[r[i][2]]["none"].v>>]
    <3>6. g = Copied([t |-> "hash", v |-> Associated(q)], "none")
      <4>1. \A i \in DOMAIN h.v : /\ in[h.v[i][1]]["none"].err = "NoErr"
                                  /\ in[h.v[i][2]]["none"].err = "NoErr"
        BY <3>3, <3>5
      <4>2. g = Copied([t |-> "hash", v |-> Associated([i \in DOMAIN h.v |->
                         <<in[h.v[i][1]]["none"].v, in[h.v[i][2]]["none"].v>>])], "none")
        BY <1>2, <2>1, <3>5, <4>1, GuestHashCopied
      <4> QED
        BY <3>5, <4>2
    <3>7. q = s
      <4>1. \A i \in DOMAIN s : s[i] = <<s[i][1], s[i][2]>>
        BY <3>1
      <4>2. \A i \in DOMAIN s : q[i] = s[i]
        BY <3>3, <4>1
      <4>3. DOMAIN q = DOMAIN s /\ q = [i \in DOMAIN q |-> q[i]]
        BY <3>3
      <4> HIDE DEF q
      <4>4. s = [i \in DOMAIN s |-> s[i]]
        BY <3>1
      <4> QED
        BY <4>2, <4>3, <4>4
    <3>8. g = Copied(value, "none")
      BY <3>1, <3>6, <3>7, AssociatedIsSame
    <3>9. g.err = "NoErr" /\ g.v = value
      BY <3>8, CopyFields
    <3> QED
      BY <3>9 DEF h
  <2>5. CASE value.t \notin {"array", "hash"}
    <3>1. value \in GuestLeaves /\ value.t # "loop"
      <4>1. value \in GuestLeaves
        BY <2>5, GuestValsAt, HostLoopFails
      <4> QED
        BY <4>1 DEF GuestLeaves, Plain, Immediate
    <3>2. h = HostLeaf(value) /\ value.t # "object" /\ Representable(value)
      BY <1>2, <2>5, <3>1, HostLeafCopied
    <3>3. h.t = value.t /\ GuestLeaf(h) = value
      BY <3>1, <3>2, LeavesCross
    <3>4. g.err = "NoErr"
      BY <1>2, <2>1, <2>5, <3>1, <3>2, <3>3, GuestLeafCopied
    <3>5. g.v = GuestLeaf(h)
      BY <1>2, <2>1, <2>5, <3>1, <3>3, <3>4, GuestLeafCopied
    <3> QED
      BY <3>3, <3>4, <3>5
  <2> QED
    BY <2>3, <2>4, <2>5
<1> HIDE DEF S
<1>3. \A depth \in Nat : depth \in S
  BY <1>1, <1>2, DepthInduction
<1> QED
  BY <1>3 DEF S

------------------------------------------------------------------------------
(* The engine's variable, in every state.                                   *)

\* The types of the variables.
MarshalTypeOK ==
  /\ ivar \in GuestVals /\ exc \in Excs /\ rude \in BOOLEAN
  /\ given \subseteq HostVals

\* What inject established about the value it set, as long as it is there.
MarshalInv ==
  /\ MarshalTypeOK
  /\ InjectedComesBack
  /\ \A value \in given : value \in HostShallow

\* MarshalInv holds at first.
LEMMA MarshalInitInv == MarshalInit => MarshalInv
<1> SUFFICES ASSUME MarshalInit
             PROVE  MarshalInv
  OBVIOUS
<1>1. Nil \in GuestVals
  BY MarshalAssumption, InsideIsNested DEF GuestVals, GuestLeaves, Plain, Nil, Immediate
<1> QED
  BY <1>1 DEF MarshalInit, MarshalInv, MarshalTypeOK, InjectedComesBack, Excs

\* What a call of inject returns, in a state with the invariant.
LEMMA InjectReturns ==
  ASSUME NEW value \in HostVals, NEW x \in Excs,
         NEW copy, copy = ToGuest[0][value][x]
  PROVE  /\ Taken(copy, x)
         /\ copy.err = "NoErr" =>
              /\ copy.v \in GuestVals /\ value \in HostShallow
              /\ InUtf8(value) => ToHost[0][copy.v] = Copied(value, "none")
<1>0. DepthMax \in Nat /\ 0 \in Nat /\ 0 <= DepthMax + 1
      /\ DepthMax + 1 - 0 # 0 /\ (DepthMax + 1 - 0) - 1 = DepthMax
  BY MarshalAssumption
<1>1. Taken(copy, x)
  BY <1>0, ExceptionsAreTaken
<1>2. ASSUME copy.err = "NoErr"
      PROVE  copy.v \in GuestVals
  BY <1>0, <1>2, GuestCopyIsValue
<1>3. ASSUME copy.err = "NoErr"
      PROVE  value \in HostShallow
  <2>1. value \in Inside(HostLeaves, DepthMax + 1 - 0)
    BY <1>0, <1>3, GuestSuccessNests
  <2> QED
    BY <1>0, <2>1 DEF Inside, HostShallow
<1>4. ASSUME copy.err = "NoErr", InUtf8(value)
      PROVE  ToHost[0][copy.v] = Copied(value, "none")
  BY <1>0, <1>4, InjectedReturns DEF InUtf8, Utf8Vals
<1> QED
  BY <1>1, <1>2, <1>3, <1>4

\* Every step keeps MarshalInv.
LEMMA MarshalNextInv == MarshalInv /\ [MarshalNext]_marshalVars => MarshalInv'
<1> SUFFICES ASSUME MarshalInv, [MarshalNext]_marshalVars
             PROVE  MarshalInv'
  OBVIOUS
<1>1. CASE UNCHANGED marshalVars
  BY <1>1 DEF marshalVars, MarshalInv, MarshalTypeOK, InjectedComesBack
<1>2. ASSUME NEW value \in GuestValues, Script(value)
      PROVE  MarshalInv'
  BY <1>2, ValuesAssumption DEF Script, MarshalInv, MarshalTypeOK, InjectedComesBack
<1>3. ASSUME NEW value \in HostValues, Inject(value)
      PROVE  MarshalInv'
  <2> DEFINE copy == ToGuest[0][value][exc]
  <2>1. /\ SetUnlessFailed(copy, value) /\ exc' = copy.exc /\ rude' = rude
    BY <1>3 DEF Inject
  <2>2. value \in HostVals /\ exc \in Excs
    BY ValuesAssumption DEF MarshalInv, MarshalTypeOK
  <2> HIDE DEF copy
  <2>3. /\ Taken(copy, exc)
        /\ copy.err = "NoErr" =>
             /\ copy.v \in GuestVals /\ value \in HostShallow
             /\ InUtf8(value) => ToHost[0][copy.v] = Copied(value, "none")
    BY <2>2, InjectReturns DEF copy
  <2>4. exc' \in Excs
    BY <2>1, <2>2, <2>3 DEF Taken, Excs
  <2>5. CASE copy.err = "NoErr"
    <3>1. ivar' = copy.v /\ given' = {value}
      BY <2>1, <2>5 DEF SetUnlessFailed
    <3> QED
      BY <2>1, <2>2, <2>3, <2>4, <2>5, <3>1
      DEF MarshalInv, MarshalTypeOK, InjectedComesBack
  <2>6. CASE copy.err # "NoErr"
    <3>1. ivar' = ivar /\ given' = given
      BY <2>1, <2>6 DEF SetUnlessFailed
    <3> QED
      BY <2>1, <2>4, <3>1 DEF MarshalInv, MarshalTypeOK, InjectedComesBack
  <2> QED
    BY <2>5, <2>6
<1>4. CASE Extract
  BY <1>4 DEF Extract, MarshalInv, MarshalTypeOK, InjectedComesBack
<1> QED
  BY <1>1, <1>2, <1>3, <1>4 DEF MarshalNext

\* What the other theorems rest on holds in every state.
THEOREM MarshalInvHolds == MarshalSpec => []MarshalInv
  BY MarshalInitInv, MarshalNextInv, PTL DEF MarshalSpec

\* Values whose strings and symbols are UTF-8 survive the way in and out, and
\* whatever comes out goes in again, in every shape, however deep the limit
\* (me_value_to_guest_r and me_value_to_host_r).
THEOREM ValuesRoundTrip == MarshalSpec => []RoundTrips
<1>1. MarshalInv => RoundTrips
  <2> SUFFICES ASSUME MarshalInv
               PROVE  ExtractedGoesBack
    BY DEF MarshalInv, RoundTrips
  <2>1. ivar \in GuestVals /\ exc \in Excs /\ 0 \in Nat
    BY DEF MarshalInv, MarshalTypeOK
  <2> QED
    BY <2>1, ExtractedReturns DEF ExtractedGoesBack
<1> QED
  BY <1>1, MarshalInvHolds, PTL

\* A value is refused as too deep for its nesting alone, and what is accepted
\* nests no deeper than ME_HOST_DATA_DEPTH_MAX.
THEOREM OnlyDeepIsTooDeep == MarshalSpec => []TooDeepMeansDeep
<1>1. MarshalInv => TooDeepMeansDeep
  <2> SUFFICES ASSUME MarshalInv
               PROVE  TooDeepMeansDeep
    OBVIOUS
  <2>0. DepthMax \in Nat /\ 0 \in Nat /\ 0 <= DepthMax + 1
        /\ DepthMax + 1 - 0 # 0 /\ (DepthMax + 1 - 0) - 1 = DepthMax
    BY MarshalAssumption
  <2>1. Inside(GuestLeaves, DepthMax + 1 - 0) = GuestShallow
    BY <2>0 DEF Inside, GuestShallow
  <2>2. ivar \in GuestVals
    BY DEF MarshalInv, MarshalTypeOK
  <2>3. ToHost[0][ivar].err = "NoErr" => ivar \in GuestShallow
    BY <2>0, <2>1, <2>2, HostSuccessNests
  <2>4. ivar \in GuestShallow => ToHost[0][ivar].err # "TooDeep"
    BY <2>0, <2>1, <2>2, HostShallowIsNotTooDeep
  <2> QED
    BY <2>3, <2>4 DEF MarshalInv, TooDeepMeansDeep
<1> QED
  BY <1>1, MarshalInvHolds, PTL

\* An inject that raises leaves the variable as it was, and reports an
\* exception of the interpreter only once.
THEOREM FailedInjectKeepsVariable == MarshalSpec => FailedInjectIsHarmless
<1> DEFINE Harmless ==
      outcome'[1] = "inject" /\ outcome'[2] # "NoErr" =>
        /\ ivar' = ivar
        /\ outcome'[2] = "GuestErr" =>
             exc' = "none" /\ (exc = "error" \/ rude)
<1>1. MarshalInv /\ [MarshalNext]_marshalVars => [Harmless]_marshalVars
  <2> SUFFICES ASSUME MarshalInv, MarshalNext
               PROVE  Harmless
    OBVIOUS
  <2>1. ASSUME NEW value \in GuestValues, Script(value)
        PROVE  Harmless
    BY <2>1 DEF Script
  <2>2. ASSUME NEW value \in HostValues, Inject(value)
        PROVE  Harmless
    <3> DEFINE copy == ToGuest[0][value][exc]
    <3>1. /\ SetUnlessFailed(copy, value) /\ exc' = copy.exc
          /\ outcome' = <<"inject", copy.err>>
      BY <2>2 DEF Inject
    <3>2. Taken(copy, exc)
      BY InjectReturns, ValuesAssumption DEF MarshalInv, MarshalTypeOK
    <3> HIDE DEF copy
    <3> QED
      BY <3>1, <3>2 DEF SetUnlessFailed, Taken
  <2>3. CASE Extract
    BY <2>3 DEF Extract
  <2> QED
    BY <2>1, <2>2, <2>3 DEF MarshalNext
<1> QED
  BY <1>1, MarshalInvHolds, PTL DEF MarshalSpec, FailedInjectIsHarmless
================================================================================
