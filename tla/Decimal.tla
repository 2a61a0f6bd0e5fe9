------------------------------ MODULE Decimal ------------------------------
(* The values of Base and Derived rows as crates/transform compares, groups  *)
(* and aggregates them.  A decimal is a number of units and a scale, so that *)
(* 12.50 is 1250 units of scale 2; it is quoted when it travels as a JSON    *)
(* string (an Oracle NUMBER with a fraction does) and bare when it is a JSON *)
(* number, which here is an integer.  Text that is no decimal is a name.     *)
EXTENDS Integers, Sequences, SequencesExt

CONSTANTS WideLimit,    \* the largest magnitude of an i128
          NumberLimit,  \* the largest magnitude of an i64
          FloatDigits   \* significant digits that an f64 tells apart

ASSUME LimitsAssumption == 0 < NumberLimit /\ NumberLimit <= WideLimit
ASSUME FloatDigitsAssumption == FloatDigits \in Nat \ {0}

Null == [null |-> TRUE]
Number(i) == [units |-> i, scale |-> 0, quoted |-> FALSE]
Quoted(u, s) == [units |-> u, scale |-> s, quoted |-> TRUE]
Text(name) == [text |-> name]
Array(items) == [items |-> items]
Object(row) == [object |-> row]

(* What a checked operation returns when it overflows or meets what is no number. *)
Invalid == [invalid |-> TRUE]

IsDecimal(v) == DOMAIN v = {"units", "scale", "quoted"}
Wide(n) == n \in -WideLimit..WideLimit
Magnitude(n) == IF n < 0 THEN -n ELSE n

(* scale_units: the units of a decimal at a larger scale. *)
UnitsAt(v, scale) == v.units * 10 ^ (scale - v.scale)
LargerScale(a, b) == IF a.scale < b.scale THEN b.scale ELSE a.scale

-----------------------------------------------------------------------------
(* json_values_eq: the same value, or decimals equal at a common scale.       *)
JsonValuesEq(a, b) ==
    \/ a = b
    \/ /\ IsDecimal(a) /\ IsDecimal(b)
       /\ LET scale == LargerScale(a, b)
          IN  /\ Wide(UnitsAt(a, scale)) /\ Wide(UnitsAt(b, scale))
              /\ UnitsAt(a, scale) = UnitsAt(b, scale)

(* A decimal without the trailing zeros of its fraction above a least scale.  *)
Trimmed(units, scale, least) ==
    LET k == CHOOSE k \in 0..(scale - least) :
                /\ units % 10 ^ k = 0
                /\ \A j \in (k + 1)..(scale - least) : units % 10 ^ j # 0
    IN  [units |-> units \div 10 ^ k, scale |-> scale - k]

(* The nearest number of FloatDigits significant digits, halves away from 0.  *)
LastDigit(m) == CHOOSE k \in 0..m : /\ m \div 10 ^ k < 10 ^ FloatDigits
                                    /\ \A j \in 0..(k - 1) : m \div 10 ^ j >= 10 ^ FloatDigits
Nearest(m, unit) == ((2 * m + unit) \div (2 * unit)) * unit
NearestFloat(m) == Nearest(m, 10 ^ LastDigit(m))
AsFloat(units) == (IF units < 0 THEN -1 ELSE 1) * NearestFloat(Magnitude(units))

(* value_ord: the key under which grouping tells values apart.  Text that     *)
(* parses as a number goes through an f64, a JSON number through its text.    *)
GroupKey(v) ==
    IF ~IsDecimal(v) THEN v
    ELSE IF v.quoted THEN Trimmed(AsFloat(v.units), v.scale, 0)
    ELSE [units |-> v.units, scale |-> 0]

-----------------------------------------------------------------------------
(* Aggregates over the non-null values of a group.                            *)
TruncatedDiv(a, n) == IF a < 0 THEN -((-a) \div n) ELSE a \div n

(* format_decimal_units: an integer that fits is a JSON number. *)
Formatted(d) ==
    IF d.scale = 0 /\ d.units \in -NumberLimit..NumberLimit
    THEN Number(d.units) ELSE Quoted(d.units, d.scale)

(* The running total of sum_field and avg_field: rescaled by checked steps    *)
(* whenever a value has a larger scale than those before it.                  *)
AddTo(total, v) ==
    IF total = Invalid \/ ~IsDecimal(v) THEN Invalid
    ELSE LET scale == LargerScale(total, v)
             sum == UnitsAt(total, scale) + UnitsAt(v, scale)
         IN  IF /\ Wide(UnitsAt(total, scale)) /\ Wide(UnitsAt(v, scale)) /\ Wide(sum)
             THEN [units |-> sum, scale |-> scale] ELSE Invalid

Total(values) == FoldLeft(AddTo, [units |-> 0, scale |-> 0], values)

FormattedTotal(total) == IF total = Invalid THEN Invalid ELSE Formatted(total)
SumField(values) == FormattedTotal(Total(values))

(* const AVG_EXTRA_SCALE *)
AvgExtraScale == 4

(* avg_field: rounded to four more digits than the values have, halves away   *)
(* from zero, without the zeros this adds.                                    *)
Rounded(dividend, n, quotient) ==
    IF 2 * Magnitude(dividend - n * quotient) < n THEN quotient
    ELSE IF dividend < 0 THEN quotient - 1 ELSE quotient + 1

Average(total, n) ==
    LET dividend == total.units * 10 ^ AvgExtraScale
    IN  IF n = 0 THEN Null
        ELSE IF total = Invalid \/ ~Wide(dividend) THEN Invalid
        ELSE Formatted(Trimmed(Rounded(dividend, n, TruncatedDiv(dividend, n)),
                               total.scale + AvgExtraScale, total.scale))
AvgField(values) == Average(Total(values), Len(values))

CountField(values) == Number(Len(values))

(* extreme_field: the first of the least (greatest) values, as it was written. *)
Extreme(values, Beats(_, _)) ==
    LET Better(best, v) ==
            IF best = Invalid \/ ~IsDecimal(v) THEN Invalid
            ELSE IF best = Null THEN v
            ELSE LET scale == LargerScale(best, v)
                 IN  IF ~Wide(UnitsAt(best, scale)) \/ ~Wide(UnitsAt(v, scale)) THEN Invalid
                     ELSE IF Beats(UnitsAt(v, scale), UnitsAt(best, scale)) THEN v ELSE best
    IN  FoldLeft(Better, Null, values)

MinField(values) == Extreme(values, <)
MaxField(values) == Extreme(values, >)
=============================================================================
