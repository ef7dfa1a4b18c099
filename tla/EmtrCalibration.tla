--------------------------- MODULE EmtrCalibration ---------------------------
(***************************************************************************)
(* The calibration of the energy meter against a known load                *)
(* (emtr_calibration_calc, emtr_get_range and emtr_set_range of            *)
(* modules/mod_emtr.c).  The new gain is gain * expected / measured; while *)
(* it is out of bounds the measurement is halved, and the range raised, or *)
(* doubled, and the range lowered.  A gain has G bits (16), a range R (8), *)
(* and the ranges of voltage, current and power share a word of four.      *)
(***************************************************************************)
EXTENDS Integers, FiniteSetsExt

CONSTANTS
  G, R, P,     \* bits of a gain, of a range, and of a product (32)
  Least,       \* 25000; twice as much is the most
  Few,         \* 6: a measurement this small is not halved
  Gains, Expected, Measured, FirstRanges   \* to calibrate with

Most == 2 * Least
Word == 2^(4 * R)

VARIABLES
  gain,       \* the register
  was,        \* ... as it was at first
  expected,
  measured,   \* halved and doubled
  first,      \* ... as it was at first
  new_gain,   \* -1 before it is computed
  range,      \* of the shift, a word: below zero it is huge
  shift,      \* in ranges: 0 voltage, 1 current, 2 power
  ranges,     \* registers->range
  before,     \* ... as it was at first
  moved,      \* how far the range went up, or down
  turns,      \* how often halving changed to doubling or back
  way,        \* "start", "halved", "doubled" or "done"
  wrapped     \* a gain or a product did not fit

vars == <<gain, was, expected, measured, first, new_gain, range, shift, ranges, before,
          moved, turns, way, wrapped>>

Byte(word, s) == (word \div 2^(R * s)) % 2^R

(* emtr_get_range *)
emtr_get_range(s) == Byte(ranges, s)

\* The bits that either of two words has.
Or(a, b) ==
  MapThenSumSet(LAMBDA i : IF (a \div 2^i) % 2 = 1 \/ (b \div 2^i) % 2 = 1 THEN 2^i ELSE 0,
                0..4 * R - 1)

(* emtr_set_range: the old range is taken out and the new one put over the *)
(* word, where one that does not fit reaches the next range.               *)
emtr_set_range(s, value) ==
  Or(ranges - emtr_get_range(s) * 2^(R * s), (value * 2^(R * s)) % Word)

Init ==
  /\ gain \in Gains /\ expected \in Expected /\ measured \in Measured
  /\ first = measured /\ was = gain
  /\ shift \in 0..2
  /\ ranges \in FirstRanges /\ before = ranges
  /\ range = Byte(ranges, shift)
  /\ new_gain = -1 /\ moved = 0 /\ turns = 0 /\ way = "start" /\ wrapped = FALSE

Quotient == ((gain * expected) % 2^P) \div measured

(* range++ and range--, of an unsigned word *)
Move(by) == range' = (range + by) % Word /\ moved' = moved + by

Turn(to) ==
  /\ way' = to
  /\ turns' = IF way \in {"halved", "doubled"} /\ way # to THEN turns + 1 ELSE turns

(* The three ways on from calc. *)
Halve ==
  /\ new_gain' < Least /\ measured > Few
  /\ Move(1)
  /\ measured' = measured \div 2
  /\ Turn("halved")
  /\ UNCHANGED <<gain, ranges>>

Double ==
  /\ new_gain' > Most
  /\ Move(-1)
  /\ measured' = measured * 2
  /\ Turn("doubled")
  /\ UNCHANGED <<gain, ranges>>

(* A gain that is too small raises the range even when the measurement is  *)
(* halved no more.                                                         *)
Finish ==
  /\ new_gain' <= Most
  /\ new_gain' >= Least \/ measured <= Few
  /\ Move(IF new_gain' < Least THEN 1 ELSE 0)
  /\ gain' = new_gain'
  /\ ranges' = emtr_set_range(shift, range')
  /\ way' = "done"
  /\ UNCHANGED <<measured, turns>>

(* emtr_calibration_calc, from calc to the next goto or the end; nothing   *)
(* is done with a measurement of zero.                                     *)
emtr_calibration_calc ==
  /\ way # "done" /\ first # 0
  /\ new_gain' = Quotient % 2^G
  /\ wrapped' = (wrapped \/ Quotient >= 2^G \/ gain * expected >= 2^P)
  /\ Halve \/ Double \/ Finish
  /\ UNCHANGED <<was, expected, first, shift, before>>

Next == emtr_calibration_calc

Spec == Init /\ [][Next]_vars
-----------------------------------------------------------------------------
TypeOK ==
  /\ gain \in 0..2^G - 1 /\ new_gain \in -1..2^G - 1
  /\ measured \in Nat /\ first \in Nat /\ expected \in Nat
  /\ range \in 0..Word - 1 /\ ranges \in 0..Word - 1 /\ shift \in 0..2
  /\ way \in {"start", "halved", "doubled", "done"}
  /\ wrapped \in BOOLEAN

\* The calculation ends: halving and doubling do not take turns for ever,
\* and nothing is divided by zero.
CalcEnds == turns <= 1 /\ (first # 0 => measured # 0)

\* What comes out is in bounds, or nothing more could be halved.
GainInBounds ==
  way = "done" => gain \in Least..Most \/ (gain < Least /\ measured <= Few)

\* A gain in bounds goes with its range: the range went up once for every
\* time the measurement was halved, down when it was doubled, and the gain is
\* the one of that measurement, if none on the way was too big for its word.
RangeMatches ==
  way = "done" /\ ~wrapped /\ gain >= Least =>
    /\ gain * measured <= was * expected /\ was * expected < (gain + 1) * measured
    /\ IF moved >= 0
       THEN measured * 2^moved <= first /\ first < (measured + 2) * 2^moved
       ELSE measured = first * 2^(-moved)

\* The ranges of the other two, and the rest of the word, are left alone, and
\* the new range is where it belongs, if it does not run over its own end.
OthersLeft ==
  way = "done" /\ Byte(before, shift) + moved \in 0..2^R - 1 =>
    \A s \in 0..3 :
      Byte(ranges, s) = IF s = shift THEN Byte(before, s) + moved ELSE Byte(before, s)
=============================================================================
