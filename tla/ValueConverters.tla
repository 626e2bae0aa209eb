----------------------------- MODULE ValueConverters -----------------------------
(***************************************************************************)
(* The hundred value converters of commons-object-impl, one for each pair  *)
(* of ten classes: what from(source).to(class) returns or throws, and for  *)
(* which pairs matches() says yes.                                         *)
(*                                                                         *)
(* Numbers are integers: fractions, NaN, infinities and the rounding of    *)
(* Float and Double are left out.  A String is the text that some value    *)
(* has, or empty.                                                          *)
(***************************************************************************)
EXTENDS Integers

CONSTANT Modulus  \* how many values the classes that have a width can hold

Integral == {"Byte", "Short", "Integer", "Long"}
Floating == {"Float", "Double"}
Numeric == Integral \cup Floating \cup {"BigDecimal"}
ValueClass == Numeric \cup {"Character", "Boolean", "String"}

\* In Java 2 ^ 8, 2 ^ 16 twice, 2 ^ 32 and 2 ^ 64.
ASSUME ModulusAssumption ==
  /\ Modulus \in [Integral \cup {"Character"} -> Nat]
  /\ Modulus["Byte"] = 256 /\ Modulus["Short"] = 65536 /\ Modulus["Character"] = 65536
  /\ Modulus["Integer"] > 2 * 65536 /\ Modulus["Integer"] % 2 = 0
  /\ Modulus["Long"] > Modulus["Integer"] /\ Modulus["Long"] % 2 = 0

MinOf(c) == IF c = "Character" THEN 0 ELSE - (Modulus[c] \div 2)
MaxOf(c) == MinOf(c) + Modulus[c] - 1

\* Can the class hold the number?
Holds(c, n) ==
  IF c \in DOMAIN Modulus THEN n \in MinOf(c) .. MaxOf(c)
  ELSE IF c = "Boolean" THEN n \in 0 .. 1
  ELSE n \in Int

\* "of" is the class whose text a String is, and the class itself otherwise.
Value(c, n) == [class |-> c, of |-> c, n |-> n]
Text(c, n) == [class |-> "String", of |-> c, n |-> n]
Null == Value("null", 0)

\* The exceptions that a conversion may end with.
NumberFormatException == Value("NumberFormatException", 0)
ClassCastException == Value("ClassCastException", 0)

IsValue(v) ==
  /\ IF v.class = "String" THEN v.of \in (ValueClass \ {"String"}) \cup {"empty"}
     ELSE v.class \in ValueClass \cup {"null"} /\ v.of = v.class
  /\ Holds(v.of, v.n)

-------------------------------------------------------------------------------
TruncateSigned(n, c) ==
  ((n + Modulus[c] \div 2) % Modulus[c]) - Modulus[c] \div 2

\* Java's narrowing of integers: the low bits.
Truncate(n, c) == ((n - MinOf(c)) % Modulus[c]) + MinOf(c)

\* Java's narrowing of a floating number to int or long.
Saturate(n, c) ==
  IF n < MinOf(c) THEN MinOf(c) ELSE IF n > MaxOf(c) THEN MaxOf(c) ELSE n

IntOrLong(v, c) == IF v.class \in Floating THEN Saturate(v.n, c) ELSE Truncate(v.n, c)

\* byteValue() and shortValue() of the floating classes and (char) intValue() go
\* by way of an int; the others come to the same.
Narrow(v, c) ==
  IF c \in {"Integer", "Long"} THEN IntOrLong(v, c) ELSE Truncate(IntOrLong(v, "Integer"), c)

\* A character is true if it is '1', 't' or 'T', a number if it is not zero.
ToBoolean(v) ==
  CASE v.class = "Character" -> v.n \in {49, 84, 116}
    [] v.class = "String"    -> v.of = "Boolean" /\ v.n = 1
    [] OTHER                 -> v.n # 0

LeadingDigit[n \in Nat] == IF n < 10 THEN n ELSE LeadingDigit[n \div 10]

\* The first character of a text.
CharAt0(v) ==
  IF v.of = "empty" THEN 0
  ELSE IF v.of = "Character" THEN v.n
  ELSE IF v.of = "Boolean" THEN IF v.n = 1 THEN 116 ELSE 102
  ELSE IF v.n < 0 THEN 45
  ELSE 48 + LeadingDigit[v.n]

\* A text is a number in digits, or one with a point, or no number.
Parse(v, c) ==
  IF \/ v.of \in Integral \cup {"BigDecimal"} /\ Holds(c, v.n)
     \/ v.of \in Floating /\ c \in Floating \cup {"BigDecimal"}
  THEN Value(c, v.n)
  ELSE IF v.of = "Character" /\ v.n \in 48 .. 57 THEN Value(c, v.n - 48)
  ELSE NumberFormatException

\* from(v).to(c)
Convert(v, c) ==
  IF v.class = c THEN v
  ELSE IF c = "String" THEN Text(v.class, v.n)
  ELSE IF c = "Boolean" THEN Value(c, IF ToBoolean(v) THEN 1 ELSE 0)
  ELSE IF c = "Character" /\ v.class = "String" THEN Value(c, CharAt0(v))
  ELSE IF v.class = "String" THEN Parse(v, c)
  ELSE IF c \in DOMAIN Modulus THEN Value(c, Narrow(v, c))
  ELSE Value(c, v.n)

-------------------------------------------------------------------------------
Converter == [from : ValueClass, to : ValueClass]

\* The class that matches() tests the source for: ByteToStringConverterImpl
\* tests it for Integer.
MatchedClass(converter) ==
  IF converter = [from |-> "Byte", to |-> "String"] THEN "Integer" ELSE converter.from

\* The bridge method from(Object) casts to the converter's own source class.
Apply(converter, v) ==
  IF v.class = converter.from THEN Convert(v, converter.to) ELSE ClassCastException
===============================================================================
