----------------------------- MODULE TimeSeries -----------------------------
(***************************************************************************)
(* Class TimeSeries as ControlLogicST uses it: of a series of buffer levels *)
(* it keeps, window by window of discrStep, the minimum, and whether the   *)
(* minima of the finished windows have never fallen.                       *)
(*                                                                         *)
(* A series is a record; the copies kept for printing (data, dataDiscrMin) *)
(* are left out.                                                           *)
(***************************************************************************)
EXTENDS Integers

\* numeric_limits<T>::min() and ::max().
CONSTANTS MinValue, MaxValue

ASSUME TimeSeriesAssumption == MinValue \in Int /\ MaxValue \in Int

Smaller(a, b) == IF a < b THEN a ELSE b

NewSeries ==
  [isMinIncreasing |-> TRUE, lastMinValue |-> MinValue, curMinValue |-> MaxValue,
   curStepNr |-> -1, lastTime |-> 0]

\* The two assertions of pushBack().
MayPush(s, time, discrStep) ==
  /\ time >= s.lastTime
  /\ s.isMinIncreasing => s.curStepNr * discrStep <= time

\* Mutant: the minimum of the closed window is carried into the next one.
CrossStepKeepsMinimum(s, time, x, discrStep) ==
  [isMinIncreasing |-> s.curMinValue >= s.lastMinValue,
   lastMinValue |-> s.curMinValue, curMinValue |-> Smaller(x, s.curMinValue),
   curStepNr |-> time \div discrStep, lastTime |-> time]

\* A value of a window after the current one closes the current one.
CrossStep(s, time, x, discrStep) ==
  [isMinIncreasing |-> s.curMinValue >= s.lastMinValue,
   lastMinValue |-> s.curMinValue, curMinValue |-> x,
   curStepNr |-> time \div discrStep, lastTime |-> time]

PushBack(s, time, x, discrStep) ==
  CASE ~s.isMinIncreasing -> [s EXCEPT !.lastTime = time]
    [] s.isMinIncreasing /\ s.curStepNr = -1 ->
         [s EXCEPT !.lastTime = time, !.curStepNr = time \div discrStep, !.curMinValue = x]
    [] s.isMinIncreasing /\ s.curStepNr # -1 /\ time < (s.curStepNr + 1) * discrStep ->
         [s EXCEPT !.lastTime = time, !.curMinValue = Smaller(x, s.curMinValue)]
    [] OTHER -> CrossStep(s, time, x, discrStep)
=============================================================================
