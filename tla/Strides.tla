------------------------------ MODULE Strides ------------------------------
(***************************************************************************)
(* The slices of src/ds/stride.c: what a user asks for (start, step and    *)
(* stop, each of which may be missing; a negative index counts from the    *)
(* end), and the stride that it selects in an array of a known length.     *)
(* Python's slices with a positive step are the reference.                 *)
(***************************************************************************)
EXTENDS Integers, FiniteSets

CONSTANT Absent     \* a part that the user left out (its bit of "present" is not set)

ASSUME AbsentAssumption == Absent \notin Int

UserStrides(Index, Step) ==
  [start : Index \cup {Absent}, step : Step \cup {Absent}, stop : Index \cup {Absent}]

StridesOf(Start, Step, Count) == [start : Start, stride : Step, nelems : Count]

\* The small constructors of the header.
ustride_single(i)              == [start |-> i, step |-> Absent, stop |-> Absent]
ustride012(start, step, stop)  == [start |-> start, step |-> step, stop |-> stop]
ustride01(start, step)         == ustride012(start, step, Absent)
ustride0(start)                == ustride012(start, Absent, Absent)
ustride12(step, stop)          == ustride012(Absent, step, stop)
ustride2(stop)                 == ustride012(Absent, Absent, stop)
ustride                        == ustride012(Absent, Absent, Absent)
\* These two mark the start as present; the initializers leave it 0.
ustride1(step)                 == ustride012(0, step, Absent)
USER_STRIDE_ALL                == ustride012(0, 1, Absent)

\* A resolved stride as the slice it stands for.
usfrms(str) == ustride012(str.start, str.stride, str.start + str.stride * str.nelems)

\* Only the parts that are present count: the absent ones are equal here.
ustride_equal(left, right) == left = right

\* An index from the front, clamped to 0 .. arrlen.
Clamped(index, arrlen) ==
  LET i == IF index < 0 THEN index + arrlen ELSE index
  IN  IF i < 0 THEN 0 ELSE IF i > arrlen THEN arrlen ELSE i

StepOf(src) == IF src.step = Absent THEN 1 ELSE src.step

\* Mutant: the last element of a slice that ends between two steps is left out.
ResolveRoundingDown(src, arrlen) ==
  LET start == IF src.start = Absent THEN 0 ELSE Clamped(src.start, arrlen)
      stop  == IF src.stop = Absent THEN arrlen ELSE Clamped(src.stop, arrlen)
      step  == StepOf(src)
  IN  [start  |-> start, stride |-> step,
       nelems |-> IF stop <= start THEN 0 ELSE (stop - start) \div step]

\* The step is positive here (stride_resolve_expect asserts it).
stride_resolve_expect(src, arrlen) ==
  LET start == IF src.start = Absent THEN 0 ELSE Clamped(src.start, arrlen)
      stop  == IF src.stop = Absent THEN arrlen ELSE Clamped(src.stop, arrlen)
      step  == StepOf(src)
  IN  IF arrlen = 0
      THEN [start |-> 0, stride |-> step, nelems |-> 0]
      ELSE [start  |-> start, stride |-> step,
            nelems |-> IF stop <= start THEN 0 ELSE (stop - start + step - 1) \div step]

\* stride_resolve refuses a step that is not positive: ERR_INVALID_ARGUMENT.
Resolvable(src)     == StepOf(src) > 0
stride_resolve(src, arrlen) == stride_resolve_expect(src, arrlen)

(*************************** What a slice selects **************************)

\* The places of a stride, in the order in which the loops meet them.
PlacesOf(str) == [k \in 1..str.nelems |-> str.start + (k - 1) * str.stride]

\* Python: the indices i of the array with lower <= i < upper, one in every step.
Selected(src, arrlen) ==
  LET fromFront(i) == IF i < 0 THEN i + arrlen ELSE i
      lower == IF src.start = Absent \/ fromFront(src.start) < 0 THEN 0 ELSE fromFront(src.start)
      upper == IF src.stop = Absent THEN arrlen ELSE fromFront(src.stop)
  IN  {i \in 0..(arrlen - 1) : i >= lower /\ i < upper /\ (i - lower) % StepOf(src) = 0}

\* A finite set of numbers from its least to its greatest.
InOrder(S) ==
  [k \in 1..Cardinality(S) |-> CHOOSE i \in S : Cardinality({j \in S : j <= i}) = k]

Sliced(src, arrlen) == InOrder(Selected(src, arrlen))

\* stride_resolve selects what the slice says, in order, and the slice made of
\* the resolved stride (usfrms) selects the same places again.
SelectsTheSlice(src, arrlen) ==
  LET str == stride_resolve(src, arrlen) IN
    /\ PlacesOf(str) = Sliced(src, arrlen)
    /\ PlacesOf(stride_resolve(usfrms(str), arrlen)) = PlacesOf(str)

=============================================================================
