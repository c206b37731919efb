------------------------------- MODULE Iso8601 -------------------------------
(***************************************************************************)
(* format_iso8601 and parse_iso8601.  A time is a number of microseconds;  *)
(* a text is its whole seconds in local time, the digits after the point   *)
(* and the offset of the zone.  The digits are their number and the number *)
(* they stand for.  The calendar is left to gmtime_r and timegm.           *)
(***************************************************************************)
EXTENDS Integers

CONSTANT Digits     \* digits of a fraction: 6 in the code

Second == 10 ^ Digits

\* The second conjunct follows from the first; the provers know no exponents.
ASSUME Iso8601Assumption == Digits \in Nat \ {0} /\ Second \in Nat \ {0}

\* Mutant of Fraction: the width is missing, so leading zeros are dropped.
FractionUnpadded(n) ==
    [width |-> CHOOSE w \in 1..Digits : n < 10 ^ w /\ (w = 1 \/ n >= 10 ^ (w - 1)),
     digits |-> n]

\* setw fills up with zeros.
Fraction(n) == [width |-> Digits, digits |-> n]

NoFraction == [width |-> 0, digits |-> 0]

\* duration_cast rounds towards zero.
WholeSeconds(t) == IF t < 0 THEN -((-t) \div Second) ELSE t \div Second

\* Of a time before 1970 the remainder is not positive, and is made so.
FormatIso(t) ==
    LET whole == WholeSeconds(t)
        rest  == t - whole * Second
    IN  IF rest < 0
        THEN [seconds |-> whole - 1, fraction |-> Fraction(rest + Second), offset |-> 0]
        ELSE [seconds |-> whole, fraction |-> Fraction(rest), offset |-> 0]

\* Python's isoformat, which older recordings hold: a time in any zone, without a
\* fraction when it is zero.
FormatPython(t, offset) ==
    [seconds |-> t \div Second + offset,
     fraction |-> IF t % Second = 0 THEN NoFraction ELSE Fraction(t % Second),
     offset |-> offset]

\* A fraction that is longer is cut, one that is shorter filled up with zeros.
Microseconds(fraction) ==
    IF fraction.width > Digits
    THEN fraction.digits \div 10 ^ (fraction.width - Digits)
    ELSE fraction.digits * 10 ^ (Digits - fraction.width)

ParseIso(text) ==
    (text.seconds - text.offset) * Second + Microseconds(text.fraction)

=============================================================================
