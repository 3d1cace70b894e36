------------------------------ MODULE Numbers ------------------------------
(***************************************************************************)
(* The SDK's number type and its rounding rules (types/fixed.go,           *)
(* types/precision.go): a Fixed is a signed integer of                     *)
(* 10^-FixedDecimals units, written on the wire as a plain decimal.        *)
(*                                                                         *)
(* A text is the record [sign, int, dot, frac] of a decimal string: int    *)
(* and frac are its digits before and after the point, and a digit above 9 *)
(* stands for any other character.  FixedDecimals, MaxSignificantFigures   *)
(* and the machine range MaxInt are parameters, so that the last number    *)
(* that fits is a small one.                                               *)
(***************************************************************************)
EXTENDS Integers, SequencesExt

CONSTANTS
  FixedDecimals,          \* fractional digits of Fixed (8)
  MaxSignificantFigures,  \* significant figures of a non-integer price (5)
  MaxInt,                 \* the largest int64
  FixedMaxFloat           \* bound of FixedFromFloat64, in units of Fixed

\* The powers of ten.
pow10[n \in Nat] == IF n = 0 THEN 1 ELSE 10 * pow10[n - 1]

Scale == pow10[FixedDecimals]

ASSUME NumbersAssumption ==
  /\ FixedDecimals \in Nat \ {0} /\ MaxSignificantFigures \in Nat \ {0}
  /\ FixedMaxFloat \in Nat \ {0}
  /\ MaxInt \in Nat /\ FixedMaxFloat + Scale =< MaxInt

fixedMaxIntPart == MaxInt \div Scale

\* Two's complement wrap-around of a sum that left the int64 range.
Wrap(n) == IF n > MaxInt THEN n - 2 * (MaxInt + 1) ELSE n

AbsOf(n) == IF n < 0 THEN -n ELSE n
Failed == [ok |-> FALSE, value |-> 0]
Done(n) == [ok |-> TRUE, value |-> n]

(***************************************************************************)
(* Parsing and printing.                                                   *)
(***************************************************************************)
\* The number that has these digits in a base.
InBase(base, digits) ==
  LET prefix[n \in 0 .. Len(digits)] ==
        IF n = 0 THEN 0 ELSE base * prefix[n - 1] + digits[n]
  IN prefix[Len(digits)]

ValueOf(digits) == InBase(10, digits)

digitsOf[n \in Nat] ==
  IF n < 10 THEN <<n>> ELSE Append(digitsOf[n \div 10], n % 10)

Zeros(n) == [i \in 1 .. n |-> 0]

\* The fractional digits as FixedDecimals places, cut or filled up with zeros.
FracPart(frac) == ValueOf(SubSeq(frac \o Zeros(FixedDecimals), 1, FixedDecimals))

\* Mutant: a fraction past the end of the range is not looked at.
parseFixedLoose(text, strict) ==
  LET v == ValueOf(text.int) * Scale + FracPart(text.frac)
  IN IF /\ text.int \o text.frac # <<>>
        /\ \A d \in ToSet(text.int \o text.frac) : d =< 9
        /\ strict => ToSet(SubSeq(text.frac, FixedDecimals + 1, Len(text.frac)))
                       \subseteq {0}
        /\ ValueOf(text.int) =< fixedMaxIntPart
     THEN Done(IF text.sign = "-" THEN -v ELSE v)
     ELSE Failed

\* parseFixed; strict rejects a digit it would have to drop, lenient cuts it.
parseFixed(text, strict) ==
  LET intPart == ValueOf(text.int)
      fracPart == FracPart(text.frac)
      dropped == SubSeq(text.frac, FixedDecimals + 1, Len(text.frac))
      v == intPart * Scale + fracPart
  IN IF /\ text.int \o text.frac # <<>>
        /\ \A d \in ToSet(text.int \o text.frac) : d =< 9
        /\ strict => ToSet(dropped) \subseteq {0}
        /\ intPart =< fixedMaxIntPart
        /\ ~ (intPart = fixedMaxIntPart /\ fracPart > MaxInt % Scale)
     THEN Done(IF text.sign = "-" THEN -v ELSE v)
     ELSE Failed

\* AppendWire: no trailing zero, no trailing point, zero is "0".
AppendWire(f) ==
  LET v == AbsOf(f)
      frac == v % Scale
      places == Tail(digitsOf[Scale + frac])    \* FixedDecimals digits
      used == CHOOSE n \in 1 .. FixedDecimals :
                 /\ places[n] # 0
                 /\ \A m \in n + 1 .. FixedDecimals : places[m] = 0
  IN [sign |-> IF f < 0 THEN "-" ELSE "",
      int  |-> digitsOf[v \div Scale],
      dot  |-> frac # 0,
      frac |-> IF frac = 0 THEN <<>> ELSE SubSeq(places, 1, used)]

\* (*Fixed).UnmarshalJSON: null, a string or a bare number, always lenient.
UnmarshalJSON(json) ==
  CASE json.form = "null"                -> Done(0)
    [] json.form \in {"quoted", "bare"}  -> parseFixed(json.text, FALSE)
    [] json.form \in {"empty", "halfquoted"} -> Failed

\* FixedFromFloat64 of the rational num/den units: half away from zero.
FixedFromFloat64(num, den) ==
  IF AbsOf(num) >= FixedMaxFloat * den THEN Failed
  ELSE LET n == (2 * AbsOf(num) + den) \div (2 * den)
       IN Done(IF num < 0 THEN -n ELSE n)

(***************************************************************************)
(* The price and size grids.  A precision is [sz, max]: the decimals of    *)
(* the asset's size and the section's MAX_DECIMALS.                        *)
(***************************************************************************)
Modes == {"nearest", "down", "up"}

countDigits[v \in Nat] == IF v = 0 THEN 0 ELSE 1 + countDigits[v \div 10]

clampDecimals(d) ==
  IF d < 0 THEN 0 ELSE IF d > FixedDecimals THEN FixedDecimals ELSE d

\* Mutant: half a step is rounded down in every mode but "up".
roundToStepHalf(v, step, mode) ==
  LET rem == v % step
  IN IF rem = 0 THEN v
     ELSE IF mode = "up" \/ rem * 4 >= 3 * step THEN Wrap(v - rem + step)
     ELSE v - rem

roundToStep(v, step, mode) ==
  LET rem == v % step
      down == v - rem
  IN IF \/ rem = 0
        \/ mode = "down"
        \/ mode = "nearest" /\ rem * 2 < step
     THEN down
     ELSE Wrap(down + step)

PriceDecimals(p, px) ==
  LET byDecimals == p.max - p.sz
      bySignificant ==
        MaxSignificantFigures + FixedDecimals - countDigits[AbsOf(px)]
  IN clampDecimals(IF px = 0 \/ byDecimals < bySignificant
                   THEN byDecimals ELSE bySignificant)

TickSize(p, px) == pow10[FixedDecimals - PriceDecimals(p, px)]
LotSize(p) == pow10[FixedDecimals - clampDecimals(p.sz)]

ValidatePrice(p, px) == px > 0 /\ px % TickSize(p, px) = 0
ValidateSize(p, sz) == sz > 0 /\ sz % LotSize(p) = 0

NormalizePrice(p, px, mode) ==
  IF px =< 0 THEN px ELSE roundToStep(px, TickSize(p, px), mode)
NormalizeSize(p, sz, mode) ==
  IF sz =< 0 THEN sz ELSE roundToStep(sz, LotSize(p), mode)

\* Mutant: the price is rounded to the nearest valid one for both sides.
SlippagePriceNearest(p, mid, isBuy, slip) ==
  LET factor == IF isBuy THEN slip.den + slip.num ELSE slip.den - slip.num
      raw == FixedFromFloat64(mid * factor, slip.den)
  IN IF slip.num >= slip.den \/ ~ raw.ok THEN Failed
     ELSE Done(NormalizePrice(p, raw.value, "nearest"))

\* SlippagePrice from the mid price on; slip is the rational [num, den].  The
\* product of float64s is the exact rational here; the rounding to a unit, which
\* is coarser than theirs, is the code's.
SlippagePrice(p, mid, isBuy, slip) ==
  LET factor == IF isBuy THEN slip.den + slip.num ELSE slip.den - slip.num
      raw == FixedFromFloat64(mid * factor, slip.den)
  IN IF ~ (0 =< slip.num /\ slip.num < slip.den) \/ ~ raw.ok THEN Failed
     ELSE Done(NormalizePrice(p, raw.value, IF isBuy THEN "up" ELSE "down"))
=============================================================================
