-------------------------- MODULE WorkSizing_proofs -------------------------
(***************************************************************************)
(* The properties of WorkSizing survive the roundings, for every width of   *)
(* float, double and word and for whatever the task is given.               *)
(***************************************************************************)
EXTENDS WorkSizing, Floats_proofs

-----------------------------------------------------------------------------
\* The task

\* What is given and what is computed from it.
Sized ==
    /\ work \in WorkUnits /\ tickets \in Tickets /\ yield \in YieldPercents
    /\ slice_percent \in {0} \cup SlicePercents
    /\ allotment \in 0..UintMax
    /\ slice_percent > 0 => allotment = SliceSize(work, slice_percent)

\* The progress of the task, and its tickets since its first dispatch.
Progressing ==
    /\ done \in Nat
    /\ dispatches \in Nat
    /\ allotment = 0 => dispatches = 0 /\ done = 0
    /\ effective = IF dispatches > 0 /\ yield < 100 THEN Boost(tickets, yield) ELSE tickets

\* Every dispatch but the last does a whole slice.
CutUp ==
    slice_percent > 0 /\ work * slice_percent < FloatExact /\ yield = 100 =>
        /\ done = IF dispatches * allotment < work THEN dispatches * allotment ELSE work
        /\ dispatches > 0 => (dispatches - 1) * allotment < work

SizingInv == Sized /\ Progressing /\ CutUp

LEMMA GivenValues ==
    ASSUME Sized
    PROVE  /\ work \in 1..UintMax /\ tickets \in 1..UintMax /\ yield \in 10..100
           /\ slice_percent > 0 => slice_percent \in 1..100
  BY WordsAssumption, PercentAssumption DEF Sized

\* The dispatch and the boost after it.
LEMMA DispatchSizes ==
    ASSUME Sized, allotment \in 1..FloatExact
    PROVE  \E limit \in 1..allotment :
             /\ EarlyLimits(allotment, yield) = {limit}
             /\ KeepsShare(limit, allotment, yield)
             /\ yield = 100 => limit = allotment
  <1>1. yield \in 10..100
    BY GivenValues
  <1> QED
    BY <1>1, LimitKeepsShare, Zenon

LEMMA SizingInit == Init => SizingInv
  <1> SUFFICES ASSUME Init PROVE SizingInv
    OBVIOUS
  <1>1. Sized /\ Progressing
    BY Widths DEF Init, Sized, Progressing
  <1>2. CutUp
    BY DEF Init, CutUp
  <1> QED
    BY <1>1, <1>2 DEF SizingInv

LEMMA ConfigureSizes ==
    ASSUME SizingInv, ConfigureCooperative
    PROVE  SizingInv'
  <1>1. PICK s \in SlicePercents :
          slice_percent' = s /\ allotment' = SliceSize(work, s)
    BY DEF ConfigureCooperative
  <1>2. s \in 1..100
    BY PercentAssumption
  <1>3. work \in 1..UintMax /\ work \in Nat
    BY GivenValues, Widths DEF SizingInv
  <1>4. SliceSize(work, s) \in 1..UintMax
    BY <1>2, <1>3, Slice
  <1>5. done = 0 /\ dispatches = 0
    BY DEF SizingInv, Progressing, ConfigureCooperative
  <1>6. Sized'
    BY <1>1, <1>4, Widths DEF SizingInv, Sized, ConfigureCooperative
  <1>7. Progressing'
    BY <1>1, <1>4, <1>5, Widths DEF SizingInv, Progressing, ConfigureCooperative
  <1>8. CutUp'
    <2>1. done' = 0 /\ dispatches' = 0 /\ work' = work
      BY <1>5 DEF ConfigureCooperative
    <2>2. allotment' \in Nat
      BY <1>1, <1>4, Widths
    <2>3. PICK a \in Nat : a = allotment'
      BY <2>2
    <2>4. dispatches' * allotment' = 0
      <3>1. 0 * a = 0
        OBVIOUS
      <3> QED
        BY <2>1, <2>3, <3>1, Zenon
    <2> QED
      BY <1>3, <2>1, <2>4 DEF CutUp
  <1> QED
    BY <1>6, <1>7, <1>8 DEF SizingInv

LEMMA QuantumSizes ==
    ASSUME SizingInv, UseQuantum
    PROVE  SizingInv'
  <1>1. allotment' \in 1..UintMax
    BY WordsAssumption DEF UseQuantum
  <1>2. done = 0 /\ dispatches = 0
    BY DEF SizingInv, Progressing, UseQuantum
  <1>3. slice_percent = 0
    <2>1. slice_percent > 0 => SliceSize(work, slice_percent) \in 1..UintMax
      BY GivenValues, Slice DEF SizingInv
    <2>2. slice_percent \in Nat
      BY PercentAssumption DEF SizingInv, Sized
    <2> QED
      BY <2>1, <2>2, Widths DEF SizingInv, Sized, UseQuantum
  <1>4. Sized'
    BY <1>1, <1>3, Widths DEF SizingInv, Sized, UseQuantum
  <1>5. Progressing'
    BY <1>1, <1>2, Widths DEF SizingInv, Progressing, UseQuantum
  <1>6. CutUp'
    BY <1>3 DEF CutUp, UseQuantum
  <1> QED
    BY <1>4, <1>5, <1>6 DEF SizingInv

LEMMA DispatchCuts ==
    ASSUME SizingInv, Dispatch
    PROVE  SizingInv'
  <1>1. PICK limit \in EarlyLimits(allotment, yield) :
          done' = IF done + limit < work THEN done + limit ELSE work
    BY DEF Dispatch
  <1>2. /\ work \in 1..UintMax /\ work \in Nat
        /\ yield \in 10..100
        /\ allotment \in 1..UintMax /\ allotment \in Nat
        /\ done \in Nat /\ dispatches \in Nat
    BY GivenValues, Widths DEF SizingInv, Sized, Progressing, Dispatch
  <1>3. limit \in Nat \ {0}
    BY <1>1, <1>2, LimitsPositive
  <1>4. Sized'
    BY DEF SizingInv, Sized, Dispatch
  <1>5. Progressing'
    BY <1>1, <1>2, <1>3 DEF SizingInv, Progressing, Dispatch
  <1>6. CutUp'
    <2> SUFFICES ASSUME slice_percent > 0, work * slice_percent < FloatExact, yield = 100
                 PROVE  /\ done' = IF dispatches' * allotment < work
                                   THEN dispatches' * allotment ELSE work
                        /\ (dispatches' - 1) * allotment < work
      BY DEF CutUp, Dispatch
    <2>1. allotment \in 1..FloatExact
      BY <1>2, GivenValues, Slice DEF SizingInv, Sized
    <2>2. limit = allotment
      <3>1. PICK only \in 1..allotment :
              EarlyLimits(allotment, yield) = {only} /\ (yield = 100 => only = allotment)
        BY <2>1, DispatchSizes DEF SizingInv
      <3> QED
        BY <1>1, <3>1
    <2>3. PICK p \in Nat : p = dispatches * allotment
      BY <1>2, ProductType
    <2>4. (dispatches + 1) * allotment = p + allotment
      BY <1>2, <2>3
    <2>5. done = (IF p < work THEN p ELSE work) /\ done < work
      BY <2>3 DEF SizingInv, CutUp, Dispatch
    <2>6. done = p /\ p < work
      BY <1>2, <2>3, <2>5
    <2>7. dispatches' = dispatches + 1 /\ dispatches' - 1 = dispatches
      BY <1>2 DEF Dispatch
    <2> QED
      BY <1>1, <2>2, <2>3, <2>4, <2>6, <2>7
  <1> QED
    BY <1>4, <1>5, <1>6 DEF SizingInv

LEMMA SizingNext == SizingInv /\ [Next]_vars => SizingInv'
  <1> SUFFICES ASSUME SizingInv, [Next]_vars PROVE SizingInv'
    OBVIOUS
  <1>1. CASE ConfigureCooperative
    BY <1>1, ConfigureSizes
  <1>2. CASE UseQuantum
    BY <1>2, QuantumSizes
  <1>3. CASE Dispatch
    BY <1>3, DispatchCuts
  <1>4. CASE UNCHANGED vars
    BY <1>4 DEF vars, SizingInv, Sized, Progressing, CutUp
  <1> QED
    BY <1>1, <1>2, <1>3, <1>4 DEF Next

LEMMA SizingInvariant == Spec => []SizingInv
  <1> QED
    BY SizingInit, SizingNext, PTL DEF Spec

\* Work so small that its product with the percentage is a float is cut into
\* slices of exactly the size that scheduler.h promises, and into no more of them
\* than that takes (scheduler.c:130-138).
THEOREM SlicesAreExact == Spec => []SmallWorkIsCutExactly
  <1>1. SizingInv => SmallWorkIsCutExactly
    <2> SUFFICES ASSUME SizingInv, slice_percent > 0, work * slice_percent < FloatExact
                 PROVE  LET slice == CeilDiv(work * slice_percent, 100)
                        IN  /\ allotment = slice
                            /\ yield = 100 /\ done = work => dispatches = CeilDiv(work, slice)
      BY DEF SmallWorkIsCutExactly
    <2>1. /\ work \in 1..UintMax /\ work \in Nat \ {0}
          /\ slice_percent \in 1..100
          /\ dispatches \in Nat
      BY GivenValues, Widths DEF SizingInv, Progressing
    <2>2. /\ allotment = CeilDiv(work * slice_percent, 100)
          /\ allotment \in Nat \ {0}
      <3>1. allotment = SliceSize(work, slice_percent)
        BY <2>1 DEF SizingInv, Sized
      <3>2. SliceSize(work, slice_percent) = CeilDiv(work * slice_percent, 100)
            /\ SliceSize(work, slice_percent) \in 1..FloatExact
        BY <2>1, Slice
      <3> QED
        BY <3>1, <3>2, Widths
    <2>3. ASSUME yield = 100, done = work
          PROVE  dispatches = CeilDiv(work, allotment)
      <3>1. PICK p \in Nat : p = dispatches * allotment
        BY <2>1, <2>2, ProductType
      <3>2. p >= work /\ dispatches > 0 /\ (dispatches - 1) * allotment < work
        <4>1. done = (IF p < work THEN p ELSE work)
              /\ (dispatches > 0 => (dispatches - 1) * allotment < work)
          BY <2>3, <3>1 DEF SizingInv, CutUp
        <4>2. p >= work
          BY <2>1, <2>3, <4>1
        <4>3. dispatches # 0
          BY <2>1, <2>2, <3>1, <4>2
        <4> QED
          BY <2>1, <4>1, <4>2, <4>3
      <3>3. CeilDiv(work, allotment) = Ceil(Fraction(work, allotment))
        BY DEF CeilDiv, Ceil, Fraction
      <3>4. PICK c \in Nat : /\ c = CeilDiv(work, allotment)
                             /\ c * allotment >= work
                             /\ \A k \in Nat : work <= k * allotment => c <= k
        <4>1. /\ Ceil(Fraction(work, allotment)) \in Nat
              /\ Ceil(Fraction(work, allotment)) * allotment >= work
              /\ \A k \in Nat : work <= k * allotment => Ceil(Fraction(work, allotment)) <= k
          BY <2>1, <2>2, CeilBounds
        <4> QED
          BY <3>3, <4>1
      <3>5. c <= dispatches
        BY <2>1, <3>1, <3>2, <3>4
      <3>6. c <= dispatches - 1 => c * allotment <= (dispatches - 1) * allotment
        BY <2>1, <2>2, <3>2, ProductMonotone
      <3>7. c * allotment \in Nat /\ (dispatches - 1) * allotment \in Nat
        BY <2>1, <2>2, <3>2, ProductType
      <3> QED
        BY <2>1, <3>2, <3>4, <3>5, <3>6, <3>7
    <2> QED
      BY <2>2, <2>3
  <1> QED
    BY <1>1, SizingInvariant, PTL

\* A yield costs no tickets and earns what the percentage says, to the nearest
\* ticket, in spite of the roundings (task.c:219-227).
THEOREM YieldIsCompensated == Spec => []CompensationIsFair
  <1>1. SizingInv => CompensationIsFair
    <2> SUFFICES ASSUME SizingInv PROVE CompensationIsFair
      OBVIOUS
    <2>1. /\ tickets \in 1..UintMax
          /\ yield \in 10..100
          /\ dispatches \in Nat
          /\ effective = IF dispatches > 0 /\ yield < 100 THEN Boost(tickets, yield) ELSE tickets
      BY GivenValues, Widths DEF SizingInv, Progressing
    <2>2. CASE yield < 100
      BY <2>1, <2>2, BoostFair DEF CompensationIsFair
    <2>3. CASE yield = 100
      BY <2>1, <2>3, UnboostedFair DEF CompensationIsFair
    <2> QED
      BY <2>1, <2>2, <2>3
  <1> QED
    BY <1>1, SizingInvariant, PTL

\* A dispatch does no more than its allotment, and as much of it as the task does
\* not yield, rounded up to a whole unit, but for the roundings of two floats
\* (task.c:281-284).
THEOREM AllotmentIsKept == Spec => DispatchWithinAllotment
  <1> DEFINE Within ==
               (allotment \in 1..FloatExact /\ done' # done) =>
                 /\ done' - done <= allotment
                 /\ done' < work => KeepsShare(done' - done, allotment, yield)
  <1>1. SizingInv /\ [Next]_vars => Within
    <2> SUFFICES ASSUME SizingInv, [Next]_vars, allotment \in 1..FloatExact, done' # done
                 PROVE  /\ done' - done <= allotment
                        /\ done' < work => KeepsShare(done' - done, allotment, yield)
      OBVIOUS
    <2>1. Dispatch
      BY DEF Next, ConfigureCooperative, UseQuantum, vars
    <2>2. PICK limit \in 1..allotment :
            /\ EarlyLimits(allotment, yield) = {limit}
            /\ KeepsShare(limit, allotment, yield)
      BY DispatchSizes DEF SizingInv
    <2>3. done' = IF done + limit < work THEN done + limit ELSE work
      BY <2>1, <2>2 DEF Dispatch
    <2>4. done \in Nat /\ work \in Nat /\ allotment \in Nat /\ done < work
      BY <2>1, GivenValues, Widths DEF SizingInv, Progressing, Dispatch
    <2>5. done' - done <= limit /\ (done' < work => done' - done = limit)
      BY <2>2, <2>3, <2>4
    <2>6. done' - done <= allotment
      BY <2>2, <2>3, <2>4
    <2> QED
      BY <2>2, <2>5, <2>6, Zenon
  <1>2. DispatchWithinAllotment <=> [][Within]_vars
    BY DEF DispatchWithinAllotment
  <1>3. Spec => [][Within]_vars
    <2> HIDE DEF Within
    <2> QED
      BY <1>1, SizingInvariant, PTL DEF Spec
  <1> QED
    BY <1>2, <1>3, PTL

=============================================================================
