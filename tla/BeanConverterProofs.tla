--------------------------- MODULE BeanConverterProofs ---------------------------
(***************************************************************************)
(* What to() returns, for every conversion: any classes, any fields, any   *)
(* values, any schedule of the copies.  The values are those of the source *)
(* in the target's types (TargetFromSource), equal wherever they fit       *)
(* (EqualWhereRepresentable), and all there (ReturnedWhole); a conversion  *)
(* that throws has a reason (FailsForReason).                              *)
(*                                                                         *)
(* A copy that gets past the search for a converter has a value that some  *)
(* matches() accepted (CopiesMatched), to() waits for the copy of every    *)
(* pair of fields (CopiesOfPairs) and returns when all are written         *)
(* (ReturnsLast).  What a converter computes are lemmas about Convert.     *)
(***************************************************************************)
EXTENDS BeanConverter, WellFoundedInduction, TLAPS

-------------------------------------------------------------------------------
(* Numbers. *)

Wide == Integral \cup {"Character"}

\* A set of naturals has a least element, which is how induction is done here.
LEMMA LeastOf ==
  ASSUME NEW S, S \subseteq Nat, S # {}
  PROVE  \E n \in S : \A m \in S : n <= m
<1> DEFINE R == OpToRel(<, Nat)
<1>1. IsWellFoundedOn(R, Nat)
  BY NatLessThanWellFounded
<1>2. \A x, y \in Nat : x < y => <<x, y>> \in R
  BY DEF OpToRel
<1> HIDE DEF R
<1>3. PICK n \in S : \A m \in S : ~ (<<m, n>> \in R)
  BY <1>1, WFMin
<1>4. \A m \in S : ~ (m < n)
  BY <1>2, <1>3
<1> QED
  BY <1>4

\* The first digits of the numbers up to some bound.
DigitsUpTo(N) ==
  {g \in [0 .. N -> 0 .. 9] : \A i \in 0 .. N : g[i] = IF i < 10 THEN i ELSE g[i \div 10]}

\* A number without its last digit.
LEMMA FewerDigits ==
  ASSUME NEW n \in Nat, n >= 10
  PROVE  n \div 10 \in Nat /\ n \div 10 < n
OBVIOUS

\* There are such digits.
LEMMA DigitsExist == \A N \in Nat : DigitsUpTo(N) # {}
<1> DEFINE S == {N \in Nat : DigitsUpTo(N) = {}}
<1> SUFFICES ASSUME S # {} PROVE FALSE
  OBVIOUS
<1>1. PICK N \in S : \A m \in S : N <= m
  BY LeastOf
<1>2. CASE N = 0
  <2>1. [i \in 0 .. 0 |-> 0] \in DigitsUpTo(0)
    BY DEF DigitsUpTo
  <2> QED
    BY <1>1, <1>2, <2>1
<1>3. CASE N > 0
  <2>1. N - 1 \in Nat /\ N - 1 \notin S
    BY <1>1, <1>3
  <2>2. PICK g : g \in DigitsUpTo(N - 1)
    BY <2>1
  <2> DEFINE h == [i \in 0 .. N |-> IF i < N THEN g[i] ELSE IF N < 10 THEN N ELSE g[N \div 10]]
  <2>3. /\ g \in [0 .. N - 1 -> 0 .. 9]
        /\ \A i \in 0 .. N - 1 : g[i] = IF i < 10 THEN i ELSE g[i \div 10]
    BY <2>2 DEF DigitsUpTo
  <2>4. N >= 10 => N \div 10 \in 0 .. N - 1
    BY <1>1, FewerDigits
  <2>5. h \in [0 .. N -> 0 .. 9]
    BY <1>1, <2>3, <2>4
  <2>6. ASSUME NEW i \in 0 .. N PROVE h[i] = IF i < 10 THEN i ELSE h[i \div 10]
    <3>1. i \in Nat /\ (i < N => i \in 0 .. N - 1) /\ (i < N \/ i = N)
      BY <1>1
    <3>2. i >= 10 => i \div 10 \in 0 .. N /\ i \div 10 < N
      BY <1>1, <3>1, FewerDigits
    <3>3. i >= 10 => h[i \div 10] = g[i \div 10]
      BY <3>2
    <3> QED
      BY <1>1, <2>3, <3>1, <3>3
  <2>7. h \in DigitsUpTo(N)
    BY <2>5, <2>6 DEF DigitsUpTo
  <2> QED
    BY <1>1, <2>7
<1> QED
  BY <1>1, <1>2, <1>3

\* And they do not depend on the bound.
LEMMA DigitsAgree ==
  ASSUME NEW N \in Nat, NEW M \in Nat, NEW g \in DigitsUpTo(N), NEW h \in DigitsUpTo(M),
         NEW n \in Nat, n <= N, n <= M
  PROVE  g[n] = h[n]
<1> DEFINE S == {i \in Nat : i <= N /\ i <= M /\ g[i] # h[i]}
<1> SUFFICES ASSUME S # {} PROVE FALSE
  OBVIOUS
<1>1. PICK i \in S : \A m \in S : i <= m
  BY LeastOf
<1>2. /\ g[i] = IF i < 10 THEN i ELSE g[i \div 10]
      /\ h[i] = IF i < 10 THEN i ELSE h[i \div 10]
  BY DEF DigitsUpTo
<1>3. i >= 10 => i \div 10 \in Nat /\ i \div 10 < i /\ i \div 10 \notin S
  BY <1>1, FewerDigits
<1> QED
  BY <1>2, <1>3

\* LeadingDigit satisfies its definition, for there is a function that does.
LEMMA LeadingDigitDef ==
  LeadingDigit = [n \in Nat |-> IF n < 10 THEN n ELSE LeadingDigit[n \div 10]]
<1> DEFINE g(n) == CHOOSE d : d \in DigitsUpTo(n)
           f == [n \in Nat |-> g(n)[n]]
<1>1. \A n \in Nat : g(n) \in DigitsUpTo(n)
  BY DigitsExist
<1>2. ASSUME NEW n \in Nat PROVE g(n)[n] = IF n < 10 THEN n ELSE g(n \div 10)[n \div 10]
  <2>1. g(n) \in DigitsUpTo(n)
    BY <1>1
  <2> HIDE DEF g
  <2>2. g(n)[n] = IF n < 10 THEN n ELSE g(n)[n \div 10]
    BY <2>1 DEF DigitsUpTo
  <2>3. CASE n >= 10
    <3>1. n \div 10 \in Nat /\ n \div 10 <= n
      BY <2>3, FewerDigits
    <3>2. g(n \div 10) \in DigitsUpTo(n \div 10)
      BY <1>1, <3>1
    <3>3. g(n)[n \div 10] = g(n \div 10)[n \div 10]
      BY <2>1, <3>1, <3>2, DigitsAgree
    <3> QED
      BY <2>2, <2>3, <3>3
  <2> QED
    BY <2>2, <2>3
<1> HIDE DEF g
<1>3. f = [n \in Nat |-> IF n < 10 THEN n ELSE f[n \div 10]]
  <2>1. ASSUME NEW n \in Nat PROVE f[n] = IF n < 10 THEN n ELSE f[n \div 10]
    <3>1. n >= 10 => n \div 10 \in Nat
      BY FewerDigits
    <3> QED
      BY <1>2, <3>1
  <2> QED
    BY <2>1
<1> HIDE DEF f
<1> QED
  BY <1>3 DEF LeadingDigit

\* It is a digit.
LEMMA LeadingDigitType == ASSUME NEW n \in Nat PROVE LeadingDigit[n] \in 0 .. 9
<1> DEFINE S == {i \in Nat : LeadingDigit[i] \notin 0 .. 9}
<1> SUFFICES ASSUME S # {} PROVE FALSE
  OBVIOUS
<1>1. PICK i \in S : \A m \in S : i <= m
  BY LeastOf
<1>2. LeadingDigit[i] = IF i < 10 THEN i ELSE LeadingDigit[i \div 10]
  BY LeadingDigitDef
<1>3. i >= 10 => i \div 10 \in Nat /\ i \div 10 \notin S
  BY <1>1, FewerDigits
<1> QED
  BY <1>2, <1>3
-------------------------------------------------------------------------------
(* What the converters compute. *)

LEMMA Bounds ==
  ASSUME NEW c \in Wide
  PROVE  /\ Modulus[c] \in Nat /\ Modulus[c] > 0
         /\ MinOf(c) \in Int /\ MaxOf(c) \in Int /\ MinOf(c) <= 0 /\ MaxOf(c) = MinOf(c) + Modulus[c] - 1
         /\ MaxOf(c) >= 9
<1>1. Modulus[c] \in Nat /\ Modulus[c] >= 256
  BY ModulusAssumption DEF Wide, Integral
<1>2. Modulus[c] \div 2 \in Nat /\ Modulus[c] - Modulus[c] \div 2 >= 128
  BY <1>1
<1>3. c = "Character" => MinOf(c) = 0
  BY DEF MinOf
<1>4. c # "Character" => MinOf(c) = - (Modulus[c] \div 2)
  BY DEF MinOf
<1>5. MinOf(c) \in Int /\ MinOf(c) <= 0 /\ MinOf(c) + Modulus[c] - 1 >= 9
  BY <1>1, <1>2, <1>3, <1>4
<1>6. MaxOf(c) = MinOf(c) + Modulus[c] - 1
  BY DEF MaxOf
<1> QED
  BY <1>1, <1>5, <1>6

\* An int holds what a byte, a short or a char holds.
LEMMA IntegerIsWider ==
  ASSUME NEW c \in {"Byte", "Short", "Character"}
  PROVE  MinOf("Integer") <= MinOf(c) /\ MaxOf(c) <= MaxOf("Integer")
<1>1. Modulus["Integer"] \in Nat /\ Modulus["Integer"] > 131072 /\ Modulus["Integer"] % 2 = 0
  BY ModulusAssumption DEF Integral
<1> DEFINE h == Modulus["Integer"] \div 2
<1>2. h \in Nat /\ h >= 65536 /\ Modulus["Integer"] = 2 * h
  BY <1>1
<1>3. MinOf("Integer") = - h /\ MaxOf("Integer") = h - 1
  BY <1>2 DEF MinOf, MaxOf
<1> HIDE DEF h
<1>4. CASE c = "Byte"
  <2>1. MinOf(c) = -128 /\ MaxOf(c) = 127
    BY <1>4, ModulusAssumption DEF MinOf, MaxOf
  <2> QED
    BY <1>2, <1>3, <2>1
<1>5. CASE c = "Short"
  <2>1. MinOf(c) = -32768 /\ MaxOf(c) = 32767
    BY <1>5, ModulusAssumption DEF MinOf, MaxOf
  <2> QED
    BY <1>2, <1>3, <2>1
<1>6. CASE c = "Character"
  <2>1. MinOf(c) = 0 /\ MaxOf(c) = 65535
    BY <1>6, ModulusAssumption DEF MinOf, MaxOf
  <2> QED
    BY <1>2, <1>3, <2>1
<1> QED
  BY <1>4, <1>5, <1>6

LEMMA HoldsWide ==
  ASSUME NEW c \in Wide, NEW n
  PROVE  Holds(c, n) <=> n \in MinOf(c) .. MaxOf(c)
<1>1. DOMAIN Modulus = Wide
  BY ModulusAssumption DEF Wide
<1>2. c # "Boolean"
  BY DEF Wide, Integral
<1> QED
  BY <1>1, <1>2 DEF Holds

\* Narrowing an integer gives a number of the class, the same one if it was one.
LEMMA TruncateInRange ==
  ASSUME NEW c \in Wide, NEW n \in Int
  PROVE  /\ Truncate(n, c) \in MinOf(c) .. MaxOf(c)
         /\ n \in MinOf(c) .. MaxOf(c) => Truncate(n, c) = n
<1> DEFINE m == Modulus[c]
           low == MinOf(c)
<1>1. m \in Nat /\ m > 0 /\ low \in Int /\ MaxOf(c) = low + m - 1
  BY Bounds
<1>2. Truncate(n, c) = ((n - low) % m) + low
  BY DEF Truncate
<1> HIDE DEF m, low
<1>3. (n - low) % m \in 0 .. m - 1
  BY <1>1
<1>4. n - low \in 0 .. m - 1 => (n - low) % m = n - low
  BY <1>1
<1>5. n \in low .. low + m - 1 => n - low \in 0 .. m - 1
  BY <1>1
<1>6. ((n - low) % m) + low \in low .. low + m - 1
  BY <1>1, <1>3
<1>7. n \in low .. low + m - 1 => ((n - low) % m) + low = n
  BY <1>1, <1>4, <1>5
<1> QED
  BY <1>1, <1>2, <1>6, <1>7 DEF low

LEMMA SaturateInRange ==
  ASSUME NEW c \in Wide, NEW n \in Int
  PROVE  /\ Saturate(n, c) \in MinOf(c) .. MaxOf(c)
         /\ n \in MinOf(c) .. MaxOf(c) => Saturate(n, c) = n
<1>1. MinOf(c) \in Int /\ MaxOf(c) \in Int /\ MinOf(c) <= 0 /\ MaxOf(c) >= 9
  BY Bounds
<1> QED
  BY <1>1 DEF Saturate

\* So does every narrowing conversion, also the one by way of an int.
LEMMA NarrowInRange ==
  ASSUME NEW c \in Wide, NEW v, v.n \in Int
  PROVE  /\ Narrow(v, c) \in MinOf(c) .. MaxOf(c)
         /\ v.n \in MinOf(c) .. MaxOf(c) => Narrow(v, c) = v.n
<1>1. ASSUME NEW d \in Wide
      PROVE  /\ IntOrLong(v, d) \in MinOf(d) .. MaxOf(d)
             /\ v.n \in MinOf(d) .. MaxOf(d) => IntOrLong(v, d) = v.n
  BY TruncateInRange, SaturateInRange DEF IntOrLong
<1>2. CASE c \in {"Integer", "Long"}
  <2>1. Narrow(v, c) = IntOrLong(v, c)
    BY <1>2 DEF Narrow
  <2> QED
    BY <1>1, <2>1
<1>3. CASE c \notin {"Integer", "Long"}
  <2> DEFINE i == IntOrLong(v, "Integer")
  <2>1. c \in {"Byte", "Short", "Character"} /\ "Integer" \in Wide
    BY <1>3 DEF Wide, Integral
  <2>2. Narrow(v, c) = Truncate(i, c)
    BY <1>3 DEF Narrow
  <2>3. i \in MinOf("Integer") .. MaxOf("Integer") /\ (v.n \in MinOf("Integer") .. MaxOf("Integer") => i = v.n)
    BY <1>1, <2>1
  <2> HIDE DEF i
  <2>4. /\ MinOf(c) \in Int /\ MaxOf(c) \in Int /\ MinOf("Integer") \in Int /\ MaxOf("Integer") \in Int
        /\ MinOf("Integer") <= MinOf(c) /\ MaxOf(c) <= MaxOf("Integer")
    BY <2>1, Bounds, IntegerIsWider
  <2>5. v.n \in MinOf(c) .. MaxOf(c) => v.n \in MinOf("Integer") .. MaxOf("Integer")
    BY <2>4
  <2>6. i \in Int
    BY <2>3, <2>4
  <2>7. /\ Truncate(i, c) \in MinOf(c) .. MaxOf(c)
        /\ i \in MinOf(c) .. MaxOf(c) => Truncate(i, c) = i
    BY <2>6, TruncateInRange
  <2> QED
    BY <2>2, <2>3, <2>5, <2>7
<1> QED
  BY <1>2, <1>3

LEMMA HoldsOther ==
  /\ \A n : Holds("Boolean", n) <=> n \in 0 .. 1
  /\ \A c, n : c \notin Wide \cup {"Boolean"} => (Holds(c, n) <=> n \in Int)
<1>1. DOMAIN Modulus = Wide /\ "Boolean" \notin Wide
  BY ModulusAssumption DEF Wide, Integral
<1> QED
  BY <1>1 DEF Holds

\* What a class holds are integers, and the digits among them.
LEMMA HoldsIntegers ==
  /\ \A c, n : Holds(c, n) => n \in Int
  /\ \A c, n : c # "Boolean" /\ n \in 0 .. 9 => Holds(c, n)
<1>1. ASSUME NEW c \in Wide, NEW n
      PROVE  (Holds(c, n) => n \in Int) /\ (n \in 0 .. 9 => Holds(c, n))
  <2>1. MinOf(c) \in Int /\ MaxOf(c) \in Int /\ MinOf(c) <= 0 /\ MaxOf(c) >= 9
    BY Bounds
  <2>2. Holds(c, n) <=> n \in MinOf(c) .. MaxOf(c)
    BY HoldsWide
  <2> QED
    BY <2>1, <2>2
<1> QED
  BY <1>1, HoldsOther

LEMMA ValueOfClass ==
  ASSUME NEW c \in ValueClass \ {"String"}, NEW n, Holds(c, n)
  PROVE  IsValue(Value(c, n))
BY DEF IsValue, Value

\* The first character of a text is a character.
LEMMA CharAt0InRange ==
  ASSUME NEW v, v.of \in (ValueClass \ {"String"}) \cup {"empty"}, Holds(v.of, v.n)
  PROVE  Holds("Character", CharAt0(v))
<1>1. ASSUME NEW n \in Nat, n <= 116 PROVE Holds("Character", n)
  <2>1. MinOf("Character") = 0 /\ MaxOf("Character") = 65535
    BY ModulusAssumption DEF MinOf, MaxOf
  <2>2. MinOf("Character") = 0 /\ MaxOf("Character") \in Int /\ n <= MaxOf("Character")
    BY <1>1, <2>1
  <2>3. "Character" \in Wide /\ n \in MinOf("Character") .. MaxOf("Character")
    BY <2>2 DEF Wide
  <2> QED
    BY <2>3, HoldsWide
<1>2. v.n \in Int
  BY HoldsIntegers
<1>3. v.n >= 0 => 48 + LeadingDigit[v.n] \in Nat /\ 48 + LeadingDigit[v.n] <= 116
  <2> SUFFICES ASSUME v.n >= 0 PROVE 48 + LeadingDigit[v.n] \in Nat /\ 48 + LeadingDigit[v.n] <= 116
    OBVIOUS
  <2>1. LeadingDigit[v.n] \in 0 .. 9
    BY <1>2, LeadingDigitType
  <2> QED
    BY <2>1
<1>4. CASE v.of = "Character"
  BY <1>4 DEF CharAt0
<1>5. CASE v.of # "Character"
  <2>1. CharAt0(v) \in Nat /\ CharAt0(v) <= 116
    <3>1. CASE v.of = "empty"
      BY <3>1 DEF CharAt0
    <3>2. CASE v.of = "Boolean"
      BY <3>2 DEF CharAt0
    <3>3. CASE v.of \notin {"empty", "Boolean"}
      <4>1. CharAt0(v) = IF v.n < 0 THEN 45 ELSE 48 + LeadingDigit[v.n]
        BY <1>5, <3>3 DEF CharAt0
      <4> QED
        BY <1>2, <1>3, <4>1
    <3> QED
      BY <3>1, <3>2, <3>3
  <2> QED
    BY <1>1, <2>1
<1> QED
  BY <1>4, <1>5

\* A text is read as the number that it is, or not at all.
LEMMA ParseType ==
  ASSUME NEW v, v.n \in Int, NEW c \in Numeric
  PROVE  \/ Parse(v, c) = NumberFormatException
         \/ \E n : Parse(v, c) = Value(c, n) /\ Holds(c, n) /\ (v.of \in Integral => n = v.n)
<1>1. Integral \cap Floating = {} /\ "Character" \notin Integral \cup Floating \cup {"BigDecimal"}
      /\ "BigDecimal" \notin Integral \cup Floating
  BY DEF Integral, Floating
<1>2. CASE v.of \in Integral \cup {"BigDecimal"} /\ Holds(c, v.n)
  <2>1. Parse(v, c) = Value(c, v.n)
    BY <1>1, <1>2 DEF Parse
  <2> QED
    BY <1>2, <2>1
<1>3. CASE v.of \in Floating /\ c \in Floating \cup {"BigDecimal"}
  <2>1. Parse(v, c) = Value(c, v.n)
    BY <1>1, <1>3 DEF Parse
  <2>2. Holds(c, v.n)
    BY <1>3, HoldsOther DEF Floating, Wide, Integral
  <2> QED
    BY <1>1, <1>3, <2>1, <2>2
<1>4. CASE v.of = "Character" /\ v.n \in 48 .. 57
  <2>1. Parse(v, c) = Value(c, v.n - 48)
    BY <1>1, <1>4 DEF Parse
  <2>2. v.n - 48 \in 0 .. 9 /\ c # "Boolean"
    BY <1>4 DEF Numeric, Integral, Floating
  <2>3. Holds(c, v.n - 48)
    BY <2>2, HoldsIntegers
  <2> QED
    BY <1>1, <1>4, <2>1, <2>3
<1>5. CASE /\ ~ (v.of \in Integral \cup {"BigDecimal"} /\ Holds(c, v.n))
           /\ ~ (v.of \in Floating /\ c \in Floating \cup {"BigDecimal"})
           /\ ~ (v.of = "Character" /\ v.n \in 48 .. 57)
  BY <1>5 DEF Parse
<1> QED
  BY <1>2, <1>3, <1>4, <1>5

\* A text of the class is read.
LEMMA ParseOwn ==
  ASSUME NEW v, NEW c \in Numeric, v.of = c, Holds(c, v.n)
  PROVE  Parse(v, c) = Value(c, v.n)
<1>1. CASE c \in Floating
  BY <1>1 DEF Parse, Floating, Integral
<1>2. CASE c \notin Floating
  BY <1>2 DEF Parse, Numeric
<1> QED
  BY <1>1, <1>2

\* from(v).to(c) for a v of another class, kind by kind.
LEMMA ConvertCases ==
  ASSUME NEW v, NEW c \in ValueClass, v.class # c
  PROVE  /\ c = "String" => Convert(v, c) = Text(v.class, v.n)
         /\ c = "Boolean" => Convert(v, c) = Value(c, IF ToBoolean(v) THEN 1 ELSE 0)
         /\ c = "Character" /\ v.class = "String" => Convert(v, c) = Value(c, CharAt0(v))
         /\ c \in Numeric /\ v.class = "String" => Convert(v, c) = Parse(v, c)
         /\ c \in Wide /\ v.class # "String" => Convert(v, c) = Value(c, Narrow(v, c))
         /\ c \in Numeric \ Wide /\ v.class # "String" => Convert(v, c) = Value(c, v.n)
<1>1. DOMAIN Modulus = Wide /\ Wide = Integral \cup {"Character"}
  BY ModulusAssumption DEF Wide
<1>2. c \in Numeric => c \notin {"String", "Boolean", "Character"}
  BY DEF Numeric, Integral, Floating
<1>3. c \in Wide => c \notin {"String", "Boolean"}
  BY <1>1 DEF Integral
<1>4. c = "String" => Convert(v, c) = Text(v.class, v.n)
  BY DEF Convert
<1>5. c = "Boolean" => Convert(v, c) = Value(c, IF ToBoolean(v) THEN 1 ELSE 0)
  BY DEF Convert
<1>6. c = "Character" /\ v.class = "String" => Convert(v, c) = Value(c, CharAt0(v))
  BY DEF Convert
<1>7. c \in Numeric /\ v.class = "String" => Convert(v, c) = Parse(v, c)
  BY <1>2 DEF Convert
<1>8. c \in Wide /\ v.class # "String" => Convert(v, c) = Value(c, Narrow(v, c))
  BY <1>1, <1>3 DEF Convert
<1>9. c \in Numeric \ Wide /\ v.class # "String" => Convert(v, c) = Value(c, v.n)
  BY <1>1, <1>2 DEF Convert
<1> QED
  BY <1>4, <1>5, <1>6, <1>7, <1>8, <1>9

\* A conversion gives a value of the class that was asked for, or throws
\* NumberFormatException, and that only for a text of another class.
LEMMA ConvertType ==
  ASSUME NEW v, IsValue(v), v.class \in ValueClass, NEW c \in ValueClass
  PROVE  \/ IsValue(Convert(v, c)) /\ Convert(v, c).class = c
         \/ /\ Convert(v, c) = NumberFormatException
            /\ v.class = "String" /\ c \in Numeric /\ v.of # c
<1>1. CASE v.class = c
  <2>1. Convert(v, c) = v
    BY <1>1 DEF Convert
  <2> QED
    BY <1>1, <2>1
<1>2. CASE v.class # c
  <2>1. v.n \in Int /\ Holds(v.of, v.n)
    BY HoldsIntegers DEF IsValue
  <2>2. CASE c = "String"
    <3>1. Convert(v, c) = Text(v.class, v.n)
      BY <1>2, <2>2, ConvertCases
    <3>2. v.of = v.class /\ v.class \in ValueClass \ {"String"}
      BY <1>2, <2>2 DEF IsValue
    <3>3. Holds(v.class, v.n)
      BY <2>1, <3>2
    <3> QED
      BY <2>2, <3>1, <3>2, <3>3 DEF IsValue, Text
  <2>3. CASE c = "Boolean"
    <3>1. Convert(v, c) = Value(c, IF ToBoolean(v) THEN 1 ELSE 0)
      BY <1>2, <2>3, ConvertCases
    <3>2. Holds(c, IF ToBoolean(v) THEN 1 ELSE 0)
      BY <2>3, HoldsOther
    <3> QED
      BY <2>3, <3>1, <3>2, ValueOfClass DEF Value
  <2>4. CASE c = "Character" /\ v.class = "String"
    <3>1. Convert(v, c) = Value(c, CharAt0(v))
      BY <1>2, <2>4, ConvertCases
    <3>2. Holds(c, CharAt0(v))
      BY <2>1, <2>4, CharAt0InRange DEF IsValue
    <3> QED
      BY <2>4, <3>1, <3>2, ValueOfClass DEF Value
  <2>5. CASE c \in Numeric /\ v.class = "String"
    <3>1. Convert(v, c) = Parse(v, c)
      BY <1>2, <2>5, ConvertCases
    <3>2. c # "String"
      BY <1>2, <2>5
    <3>3. CASE Parse(v, c) = NumberFormatException
      <4>1. v.of # c
        <5> SUFFICES ASSUME v.of = c PROVE FALSE
          OBVIOUS
        <5>1. Parse(v, c) = Value(c, v.n)
          BY <2>1, <2>5, ParseOwn
        <5>2. c = "NumberFormatException"
          BY <3>3, <5>1 DEF Value, NumberFormatException
        <5> QED
          BY <5>2 DEF ValueClass, Numeric, Integral, Floating
      <4> QED
        BY <2>5, <3>1, <3>3, <4>1
    <3>4. CASE Parse(v, c) # NumberFormatException
      <4>1. PICK n : Parse(v, c) = Value(c, n) /\ Holds(c, n)
        BY <2>1, <2>5, <3>4, ParseType
      <4> QED
        BY <3>1, <3>2, <4>1, ValueOfClass DEF Value
    <3> QED
      BY <3>3, <3>4
  <2>6. CASE c \in Wide /\ v.class # "String"
    <3>1. Convert(v, c) = Value(c, Narrow(v, c))
      BY <1>2, <2>6, ConvertCases
    <3>2. Holds(c, Narrow(v, c))
      BY <2>1, <2>6, NarrowInRange, HoldsWide
    <3>3. c # "String"
      BY <2>6 DEF Wide, Integral
    <3> QED
      BY <3>1, <3>2, <3>3, ValueOfClass DEF Value
  <2>7. CASE c \in Numeric \ Wide /\ v.class # "String"
    <3>1. Convert(v, c) = Value(c, v.n)
      BY <1>2, <2>7, ConvertCases
    <3>2. c \notin {"String", "Boolean"}
      BY <2>7 DEF Numeric, Integral, Floating
    <3>3. Holds(c, v.n)
      BY <2>1, <2>7, <3>2, HoldsOther
    <3> QED
      BY <3>1, <3>2, <3>3, ValueOfClass DEF Value
  <2>8. c \in Numeric \cup {"Character", "Boolean", "String"} /\ "Character" \in Wide
    BY DEF ValueClass, Wide
  <2> QED
    BY <2>2, <2>3, <2>4, <2>5, <2>6, <2>7, <2>8
<1> QED
  BY <1>1, <1>2

\* It gives an equal number wherever the class has one, and a text of digits is
\* read as the number it says.
LEMMA ConvertEqual ==
  ASSUME NEW v, IsValue(v), NEW c \in Numeric \cup {"Character"}
  PROVE  /\ v.class \in Numeric \cup {"Character"} /\ Holds(c, v.n) => Convert(v, c).n = v.n
         /\ /\ v.class = "String" /\ v.of \in Integral /\ c \in Numeric
            /\ Convert(v, c) # NumberFormatException
            => Convert(v, c).n = v.n
<1>1. c \in ValueClass /\ c # "String" /\ v.n \in Int
  BY HoldsIntegers DEF ValueClass, Numeric, Integral, Floating, IsValue
<1>2. ASSUME v.class \in Numeric \cup {"Character"}, Holds(c, v.n)
      PROVE  Convert(v, c).n = v.n
  <2>1. v.class # "String"
    BY <1>2 DEF Numeric, Integral, Floating
  <2>2. CASE v.class = c
    BY <2>2 DEF Convert
  <2>3. CASE v.class # c /\ c \in Wide
    <3>1. Convert(v, c) = Value(c, Narrow(v, c))
      BY <1>1, <2>1, <2>3, ConvertCases
    <3>2. Narrow(v, c) = v.n
      BY <1>1, <1>2, <2>3, NarrowInRange, HoldsWide
    <3> QED
      BY <3>1, <3>2 DEF Value
  <2>4. CASE v.class # c /\ c \notin Wide
    <3>1. c \in Numeric \ Wide
      BY <2>4 DEF Wide
    <3>2. Convert(v, c) = Value(c, v.n)
      BY <1>1, <2>1, <2>4, <3>1, ConvertCases
    <3> QED
      BY <3>2 DEF Value
  <2> QED
    BY <2>2, <2>3, <2>4
<1>3. ASSUME v.class = "String", v.of \in Integral, c \in Numeric,
             Convert(v, c) # NumberFormatException
      PROVE  Convert(v, c).n = v.n
  <2>1. Convert(v, c) = Parse(v, c)
    BY <1>1, <1>3, ConvertCases
  <2>2. PICK n : Parse(v, c) = Value(c, n) /\ n = v.n
    BY <1>1, <1>3, <2>1, ParseType
  <2> QED
    BY <2>1, <2>2 DEF Value
<1> QED
  BY <1>2, <1>3

-------------------------------------------------------------------------------
(* The fields and their values. *)

LEMMA NullIsValue == IsValue(Null) /\ ~ IsBean(Null)
<1>1. Null.class = "null" /\ Null.of = "null" /\ Null.n = 0
  BY DEF Null, Value
<1>2. Holds("null", 0)
  BY HoldsOther DEF Wide, Integral
<1> QED
  BY <1>1, <1>2 DEF IsValue, IsBean, Bean

LEMMA BeanOrValue ==
  ASSUME NEW v, IsValue(v) \/ IsBean(v)
  PROVE  /\ IsBean(v) <=> v.class \notin ValueClass \cup {"null"}
         /\ v \notin {NumberFormatException, ClassCastException}
<1>1. NumberFormatException.class = "NumberFormatException" /\ ClassCastException.class = "ClassCastException"
  BY DEF NumberFormatException, ClassCastException, Value
<1> QED
  BY <1>1 DEF IsValue, IsBean, Bean, ValueClass, Numeric, Integral, Floating

\* What findMembers collects: the fields that are not synthetic, at their places.
LEMMA MembersFound ==
  ASSUME NEW class
  PROVE  /\ \A place \in DOMAIN FindMembers(class) :
              FindMembers(class)[place] \in Fields(class) /\ ~ FindMembers(class)[place].synthetic
         /\ \A f \in Fields(class) :
              ~ f.synthetic => \E place \in DOMAIN FindMembers(class) : FindMembers(class)[place] = f
<1> DEFINE M == {p \in Places(class) : ~ FieldAt(class, p).synthetic}
<1>1. DOMAIN FindMembers(class) = M /\ \A p \in M : FindMembers(class)[p] = FieldAt(class, p)
  BY DEF FindMembers
<1>2. ASSUME NEW p \in Places(class) PROVE FieldAt(class, p) \in Fields(class)
  <2>1. PICK level \in DOMAIN class : p \in {<<level, i>> : i \in DOMAIN class[level]}
    BY DEF Places
  <2>2. PICK i \in DOMAIN class[level] : p = <<level, i>>
    BY <2>1
  <2>3. FieldAt(class, p) = class[level][i]
    BY <2>2 DEF FieldAt
  <2> QED
    BY <2>2, <2>3 DEF Fields, Range
<1>3. ASSUME NEW f \in Fields(class), ~ f.synthetic PROVE \E p \in M : FieldAt(class, p) = f
  <2>1. PICK level \in DOMAIN class : f \in Range(class[level])
    BY DEF Fields
  <2>2. PICK i \in DOMAIN class[level] : f = class[level][i]
    BY <2>1 DEF Range
  <2>3. <<level, i>> \in Places(class)
    BY DEF Places
  <2>4. FieldAt(class, <<level, i>>) = f
    BY <2>2 DEF FieldAt
  <2> QED
    BY <1>3, <2>3, <2>4
<1> QED
  BY <1>1, <1>2, <1>3

\* What is known of a field of either class.
KnownField(f) ==
  /\ f.type \in Type
  /\ IsValue(f.value) \/ IsBean(f.value)
  /\ f.value.class = BoxOf(f.type) \/ (f.value = Null /\ f.type \notin Primitive)

LEMMA FieldsKnown ==
  ASSUME conversion \in Conversions,
         NEW f \in Fields(conversion.source) \cup Fields(conversion.target)
  PROVE  KnownField(f)
BY ConversionsAssumption DEF KnownField

\* The fields of a copy.
LEMMA CopyFields ==
  ASSUME BeanInv, NEW p \in DOMAIN copies
  PROVE  /\ status \notin {"new", "from"} /\ p \in Pairs
         /\ p[1] \in DOMAIN TargetFields /\ TargetField(p) = TargetFields[p[1]]
         /\ SourceField(p) \in Fields(conversion.source) /\ ~ SourceField(p).synthetic
         /\ SourceField(p).name = TargetField(p).name
         /\ KnownField(SourceField(p)) /\ KnownField(TargetField(p))
<1>1. status \notin {"new", "from"} /\ p \in Pairs
  BY DEF BeanInv, CopiesOfPairs
<1>2. p[1] \in DOMAIN TargetFields /\ p[2] \in DOMAIN sourceFields
      /\ TargetFields[p[1]].name = sourceFields[p[2]].name
  BY <1>1 DEF Pairs
<1>3. sourceFields = FindMembers(conversion.source) /\ conversion \in Conversions
  BY <1>1 DEF BeanInv, FieldsCollected
<1>4. SourceField(p) \in Fields(conversion.source) /\ ~ SourceField(p).synthetic
  BY <1>2, <1>3, MembersFound DEF SourceField
<1>5. TargetField(p) \in Fields(conversion.target)
  BY <1>2, MembersFound DEF TargetField, TargetFields
<1> QED
  BY <1>1, <1>2, <1>3, <1>4, <1>5, FieldsKnown DEF TargetField, SourceField

LEMMA KindOf ==
  ASSUME NEW f, KnownField(f), f.value # Null
  PROVE  /\ f.value.class = BoxOf(f.type)
         /\ f.type \in ValueClass => f.value.class = f.type
         /\ f.value.class \in Bean => f.type \in Bean
         /\ f.value.class = "String" => f.type = "String"
         /\ f.type \notin Bean => f.value.class \in ValueClass
<1>1. f.value.class = BoxOf(f.type) /\ f.type \in Type
  BY DEF KnownField
<1>2. f.type \in ValueClass => f.type # "int"
  BY DEF ValueClass, Numeric, Integral, Floating
<1> QED
  BY <1>1, <1>2 DEF BoxOf, Type, Bean, Primitive, ValueClass, Numeric, Integral

-------------------------------------------------------------------------------
(* The steps of one copy. *)

\* matches() never accepts a null, and what it accepts leads to the target's type.
LEMMA MatchKinds ==
  ASSUME NEW p, NEW converter \in Converters, Matches(converter, p)
  PROVE  /\ copies[p].value # Null
         /\ \/ /\ converter \in Converter /\ converter.to = TargetField(p).type
               /\ TargetField(p).type \in ValueClass
               /\ copies[p].value.class \in ValueClass
               /\ \/ copies[p].value.class = converter.from
                  \/ copies[p].value.class = "Integer" /\ TargetField(p).type = "String"
            \/ copies[p].value.class = "SourceBean" /\ TargetField(p).type = "TargetBean"
<1>1. Null.class = "null" /\ "null" \notin ValueClass \cup {"SourceBean"}
  BY DEF Null, Value, ValueClass, Numeric, Integral, Floating
<1>2. MatchedClass(converter) = copies[p].value.class /\ converter.to = TargetField(p).type
  BY DEF Matches
<1>3. CASE converter \in Converter
  <2>1. converter.from \in ValueClass /\ converter.to \in ValueClass
    BY <1>3 DEF Converter
  <2>2. \/ MatchedClass(converter) = converter.from
        \/ MatchedClass(converter) = "Integer" /\ converter.to = "String"
    BY DEF MatchedClass
  <2>3. "Integer" \in ValueClass
    BY DEF ValueClass, Numeric, Integral
  <2> QED
    BY <1>1, <1>2, <1>3, <2>1, <2>2, <2>3
<1>4. CASE converter = [from |-> "SourceBean", to |-> "TargetBean"]
  <2>1. converter.from = "SourceBean" /\ converter.to = "TargetBean"
    BY <1>4
  <2>2. MatchedClass(converter) = "SourceBean"
    BY <2>1 DEF MatchedClass
  <2> QED
    BY <1>1, <1>2, <2>1, <2>2
<1> QED
  BY <1>3, <1>4 DEF Converters

\* A value that no converter accepts has a reason.
LEMMA NoConverterReason ==
  ASSUME BeanInv, NEW p \in DOMAIN copies, copies[p].pc = "read",
         ~ \E converter \in Converters : Matches(converter, p)
  PROVE  HasReason(p)
<1> DEFINE f == SourceField(p)
           to == TargetField(p).type
<1>1. KnownField(f) /\ to \in Type
  BY CopyFields DEF KnownField
<1>2. copies[p].value = f.value /\ f.type # to
  BY DEF BeanInv, CopiesMatched, CopyMatched, SameType
<1> SUFFICES ASSUME f.value # Null, to \notin Primitive \cup Bean, f.type \notin Bean,
                    ~ (f.value.class \in {"Byte", "Integer"} /\ to = "String")
             PROVE  FALSE
  BY <1>2 DEF HasReason
<1>3. to \in ValueClass /\ f.value.class \in ValueClass
  BY <1>1, KindOf DEF Type
<1> DEFINE k == [from |-> f.value.class, to |-> to]
<1>4. k \in Converters /\ k.from = f.value.class /\ k.to = to
  BY <1>3 DEF Converters, Converter
<1>5. k # [from |-> "Byte", to |-> "String"]
  BY <1>4
<1> HIDE DEF k
<1>6. MatchedClass(k) = f.value.class
  BY <1>4, <1>5 DEF MatchedClass
<1>7. Matches(k, p)
  BY <1>2, <1>4, <1>6 DEF Matches
<1> QED
  BY <1>4, <1>7

\* What the converter that was found returns is the image of the source field's
\* value; if it throws there is a reason.
LEMMA ConvertedFits ==
  ASSUME BeanInv, NEW p \in DOMAIN copies, copies[p].pc = "found", NEW v \in Converted(p)
  PROVE  IF v \in {NumberFormatException, ClassCastException} THEN HasReason(p)
         ELSE /\ v \in Image(SourceField(p), TargetField(p).type)
              /\ IsValue(v) \/ IsBean(v)
<1> DEFINE f == SourceField(p)
           to == TargetField(p).type
           x == f.value
           k == copies[p].converter
<1>1. KnownField(f)
  BY CopyFields
<1>2. copies[p].value = x /\ f.type # to /\ k \in Converters /\ Matches(k, p)
  BY DEF BeanInv, CopiesMatched, CopyMatched, SameType
<1>3. x # Null /\ (IsValue(x) \/ IsBean(x))
  BY <1>1, <1>2, MatchKinds DEF KnownField
<1>4. ASSUME f.type # to, to = TargetField(p).type,
             \/ f.type = "String" /\ to \in Numeric /\ Convert(f.value, to) = NumberFormatException
             \/ to \in Primitive \cup Bean \/ f.type \in Bean
             \/ f.value.class \in {"Byte", "Integer"} /\ to = "String"
      PROVE  HasReason(p)
  BY <1>4 DEF HasReason
<1>5. CASE IsBean(x)
  <2>1. v \in {Value("TargetBean", x.n), ClassCastException}
    BY <1>2, <1>5 DEF Converted
  <2>2. f.type \in Bean
    BY <1>1, <1>3, <1>5, KindOf DEF IsBean
  <2>3. IsBean(Value("TargetBean", x.n))
    BY DEF IsBean, Bean, Value
  <2>4. Image(f, to) = {Value("TargetBean", x.n)}
    BY <1>2, <1>5 DEF Image
  <2> QED
    BY <1>2, <1>4, <2>1, <2>2, <2>3, <2>4
<1>6. CASE ~ IsBean(x)
  <2>1. v = Apply(k, x)
    BY <1>2, <1>6 DEF Converted
  <2>2. Image(f, to) = {Convert(x, to)}
    BY <1>2, <1>6 DEF Image
  <2>3. /\ k \in Converter /\ k.to = to /\ to \in ValueClass /\ x.class \in ValueClass
        /\ x.class = k.from \/ (x.class = "Integer" /\ to = "String")
    BY <1>2, <1>6, MatchKinds DEF IsBean, Bean
  <2>4. CASE x.class = k.from
    <3>1. v = Convert(x, to)
      BY <2>1, <2>3, <2>4 DEF Apply
    <3>2. CASE v = NumberFormatException
      <4>1. ~ IsValue(v)
        BY <3>2, BeanOrValue
      <4>2. x.class = "String" /\ to \in Numeric /\ x.of # to
        BY <1>3, <1>6, <2>3, <3>1, <4>1, ConvertType
      <4>3. f.type = "String"
        BY <1>1, <1>3, <4>2, KindOf
      <4> QED
        BY <1>2, <1>4, <3>1, <3>2, <4>2, <4>3
    <3>3. CASE v # NumberFormatException
      <4>1. IsValue(v)
        BY <1>3, <1>6, <2>3, <3>1, <3>3, ConvertType
      <4>2. v # ClassCastException
        BY <4>1, BeanOrValue
      <4> QED
        BY <2>2, <3>1, <3>3, <4>1, <4>2
    <3> QED
      BY <3>2, <3>3
  <2>5. CASE x.class # k.from
    <3>1. v = ClassCastException
      BY <2>1, <2>5 DEF Apply
    <3>2. HasReason(p)
      BY <1>2, <1>4, <2>3, <2>5
    <3> QED
      BY <3>1, <3>2
  <2> QED
    BY <2>4, <2>5
<1> QED
  BY <1>5, <1>6

\* What does not change with the conversion.
LEMMA FieldsStay ==
  ASSUME UNCHANGED <<conversion, sourceFields>>
  PROVE  /\ TargetFields' = TargetFields /\ Pairs' = Pairs
         /\ \A p : SourceField(p)' = SourceField(p) /\ TargetField(p)' = TargetField(p)
         /\ \A p : (SameType(p)' <=> SameType(p)) /\ (HasReason(p)' <=> HasReason(p))
<1>1. TargetFields' = TargetFields
  BY DEF TargetFields
<1>2. \A p : SourceField(p)' = SourceField(p) /\ TargetField(p)' = TargetField(p)
  BY <1>1 DEF SourceField, TargetField
<1>3. Pairs' = Pairs
  BY <1>1 DEF Pairs
<1> QED
  BY <1>1, <1>2, <1>3 DEF SameType, HasReason

\* What a step of one copy leaves alone, and what it does.
CopySteps(p) ==
  /\ UNCHANGED <<conversion, strategy, sourceFields, status>>
  /\ copies[p].pc \notin {"written", "failed"}
  /\ \E c : /\ copies' = [copies EXCEPT ![p] = c]
            /\ c.pc \in {"read", "found", "converted", "written", "failed"}
            /\ c.converter \in Converters \cup {Null}
  /\ \/ results' = results
     \/ \E v : results' = [results EXCEPT ![p] = v] /\ (IsValue(v) \/ IsBean(v))
  /\ CopyMatched(p)'
  /\ \/ target' = target /\ copies'[p].pc # "written"
     \/ \E v : /\ target' = [target EXCEPT ![p[1]] = v]
               /\ v \in Image(SourceField(p), TargetField(p).type)
               /\ IsValue(v) \/ IsBean(v)

LEMMA FailSteps ==
  ASSUME BeanInv, NEW p \in DOMAIN copies, NEW pc \in {"read", "found", "converted"},
         Fail(p, pc), HasReason(p)
  PROVE  CopySteps(p)
<1> DEFINE c == [copies[p] EXCEPT !.pc = "failed"]
<1>1. /\ UNCHANGED <<conversion, strategy, sourceFields, status, target, results>>
      /\ copies[p].pc = pc /\ copies' = [copies EXCEPT ![p] = c]
  BY DEF Fail, Step
<1>2. DOMAIN copies[p] = DOMAIN Waiting /\ copies[p].value = SourceField(p).value
  BY <1>1 DEF BeanInv, CopiesMatched, CopyMatched
<1>3. copies[p].converter \in Converters \cup {Null}
  BY DEF BeanInv, BeanTypeOK
<1>4. /\ DOMAIN c = DOMAIN Waiting /\ c.pc = "failed" /\ c.value = SourceField(p).value
      /\ c.converter = copies[p].converter
  BY <1>2 DEF Waiting
<1> HIDE DEF c
<1>5. copies'[p] = c
  BY <1>1
<1>6. CopyMatched(p)'
  BY <1>1, <1>4, <1>5, FieldsStay DEF CopyMatched
<1> QED
  BY <1>1, <1>3, <1>4, <1>5, <1>6 DEF CopySteps

LEMMA GetValueSteps ==
  ASSUME BeanInv, NEW p \in DOMAIN copies, GetValue(p)
  PROVE  CopySteps(p)
<1> DEFINE c == [copies[p] EXCEPT !.pc = IF SameType(p) THEN "converted" ELSE "read",
                                  !.value = SourceField(p).value]
<1>1. /\ UNCHANGED <<conversion, strategy, sourceFields, status, target, results>>
      /\ copies[p].pc = "waiting" /\ copies' = [copies EXCEPT ![p] = c]
  BY DEF GetValue, Step
<1>2. DOMAIN copies[p] = DOMAIN Waiting
  BY DEF BeanInv, CopiesMatched, CopyMatched
<1>3. copies[p].converter \in Converters \cup {Null}
  BY DEF BeanInv, BeanTypeOK
<1>4. /\ DOMAIN c = DOMAIN Waiting /\ c.pc = (IF SameType(p) THEN "converted" ELSE "read")
      /\ c.value = SourceField(p).value /\ c.converter = copies[p].converter
  BY <1>2 DEF Waiting
<1> HIDE DEF c
<1>5. copies'[p] = c
  BY <1>1
<1>6. CopyMatched(p)'
  BY <1>1, <1>4, <1>5, FieldsStay DEF CopyMatched
<1> QED
  BY <1>1, <1>3, <1>4, <1>5, <1>6 DEF CopySteps

LEMMA FindConverterSteps ==
  ASSUME BeanInv, NEW p \in DOMAIN copies, FindConverter(p)
  PROVE  CopySteps(p)
<1>0. PICK k \in Converters :
        /\ Matches(k, p)
        /\ Step(p, "read", [copies[p] EXCEPT !.pc = "found", !.converter = k,
                                             !.loaded = LoadedConverter(p, k)])
        /\ UNCHANGED <<target, results>>
  BY DEF FindConverter
<1> DEFINE c == [copies[p] EXCEPT !.pc = "found", !.converter = k,
                                  !.loaded = LoadedConverter(p, k)]
<1>1. /\ UNCHANGED <<conversion, strategy, sourceFields, status, target, results>>
      /\ copies[p].pc = "read" /\ copies' = [copies EXCEPT ![p] = c]
  BY <1>0 DEF Step
<1>2. DOMAIN copies[p] = DOMAIN Waiting /\ copies[p].value = SourceField(p).value /\ ~ SameType(p)
  BY <1>1 DEF BeanInv, CopiesMatched, CopyMatched
<1>4. /\ DOMAIN c = DOMAIN Waiting /\ c.pc = "found" /\ c.value = copies[p].value
      /\ c.converter = k /\ c.loaded = p
  BY <1>2 DEF Waiting, LoadedConverter
<1> HIDE DEF c
<1>5. copies'[p] = c
  BY <1>1
<1>6. MatchedClass(k) = copies'[p].value.class /\ k.to = TargetField(p)'.type
  <2>1. MatchedClass(k) = copies[p].value.class /\ k.to = TargetField(p).type
    BY <1>0 DEF Matches
  <2>2. TargetField(p)' = TargetField(p)
    BY <1>1, FieldsStay
  <2> QED
    BY <1>4, <1>5, <2>1, <2>2
<1>7. Matches(copies[p].converter, p)'
  <2>1. copies'[p].converter = k
    BY <1>4, <1>5
  <2> QED
    BY <1>6, <2>1 DEF Matches
<1>8. CopyMatched(p)'
  BY <1>0, <1>1, <1>2, <1>4, <1>5, <1>7, FieldsStay DEF CopyMatched
<1> QED
  BY <1>0, <1>1, <1>4, <1>5, <1>8 DEF CopySteps

LEMMA ConvertValueSteps ==
  ASSUME BeanInv, NEW p \in DOMAIN copies, ConvertValue(p)
  PROVE  CopySteps(p)
<1>0. PICK v \in Converted(p) :
        IF v \in {NumberFormatException, ClassCastException} THEN Fail(p, "found")
        ELSE /\ Step(p, "found", [copies[p] EXCEPT !.pc = "converted"])
             /\ results' = [results EXCEPT ![copies[p].loaded] = v]
             /\ UNCHANGED target
  BY DEF ConvertValue
<1>1. copies[p].pc = "found"
  BY DEF ConvertValue
<1>2. CASE v \in {NumberFormatException, ClassCastException}
  BY <1>0, <1>1, <1>2, ConvertedFits, FailSteps
<1>3. CASE v \notin {NumberFormatException, ClassCastException}
  <2> DEFINE c == [copies[p] EXCEPT !.pc = "converted"]
             k == copies[p].converter
  <2>1. v \in Image(SourceField(p), TargetField(p).type) /\ (IsValue(v) \/ IsBean(v))
    BY <1>1, <1>3, ConvertedFits
  <2>2. /\ UNCHANGED <<conversion, strategy, sourceFields, status, target>>
        /\ copies' = [copies EXCEPT ![p] = c]
        /\ results' = [results EXCEPT ![copies[p].loaded] = v]
    BY <1>0, <1>3 DEF Step
  <2>3. /\ DOMAIN copies[p] = DOMAIN Waiting /\ copies[p].value = SourceField(p).value /\ ~ SameType(p)
        /\ copies[p].converter \in Converters /\ Matches(copies[p].converter, p) /\ copies[p].loaded = p
    BY <1>1 DEF BeanInv, CopiesMatched, CopyMatched
  <2>4. /\ DOMAIN c = DOMAIN Waiting /\ c.pc = "converted" /\ c.value = copies[p].value
        /\ c.converter = copies[p].converter /\ c.loaded = p
    BY <2>3 DEF Waiting
  <2> HIDE DEF c
  <2>5. copies'[p] = c
    BY <2>2
  <2>6. DOMAIN results = DOMAIN copies
    BY DEF BeanInv, TargetWritten
  <2>7. results' = [results EXCEPT ![p] = v] /\ results'[p] = v
    BY <2>2, <2>3, <2>6
  <2>8. Matches(copies[p].converter, p)'
    <3>1. MatchedClass(k) = copies'[p].value.class /\ k.to = TargetField(p)'.type
      <4>1. MatchedClass(k) = copies[p].value.class /\ k.to = TargetField(p).type
        BY <2>3 DEF Matches
      <4>2. TargetField(p)' = TargetField(p)
        BY <2>2, FieldsStay
      <4> QED
        BY <2>4, <2>5, <4>1, <4>2
    <3>2. copies'[p].converter = k
      BY <2>4, <2>5
    <3> QED
      BY <3>1, <3>2 DEF Matches
  <2>9. Image(SourceField(p), TargetField(p).type)' = Image(SourceField(p), TargetField(p).type)
    BY <2>2, FieldsStay DEF Image
  <2>10. CopyMatched(p)'
    BY <2>1, <2>2, <2>3, <2>4, <2>5, <2>7, <2>8, <2>9, FieldsStay DEF CopyMatched
  <2> QED
    BY <1>1, <2>1, <2>2, <2>3, <2>4, <2>5, <2>7, <2>10 DEF CopySteps
<1> QED
  BY <1>2, <1>3

LEMMA SetValueSteps ==
  ASSUME BeanInv, NEW p \in DOMAIN copies, SetValue(p)
  PROVE  CopySteps(p)
<1>1. CASE TargetField(p).constant
  <2>1. Fail(p, "converted")
    BY <1>1 DEF SetValue
  <2>2. HasReason(p)
    BY <1>1 DEF HasReason
  <2> QED
    BY <2>1, <2>2, FailSteps
<1>2. CASE ~ TargetField(p).constant
  <2> DEFINE c == [copies[p] EXCEPT !.pc = "written"]
             v == IF SameType(p) THEN copies[p].value ELSE results[copies[p].loaded]
             k == copies[p].converter
  <2>1. /\ UNCHANGED <<conversion, strategy, sourceFields, status, results>>
        /\ copies[p].pc = "converted" /\ copies' = [copies EXCEPT ![p] = c]
        /\ target' = [target EXCEPT ![p[1]] = v]
    BY <1>2 DEF SetValue, Step
  <2>2. /\ DOMAIN copies[p] = DOMAIN Waiting /\ copies[p].value = SourceField(p).value
        /\ ~ SameType(p) =>
             /\ copies[p].converter \in Converters /\ Matches(copies[p].converter, p)
             /\ copies[p].loaded = p
             /\ results[p] \in Image(SourceField(p), TargetField(p).type)
    BY <2>1 DEF BeanInv, CopiesMatched, CopyMatched
  <2>3. copies[p].converter \in Converters \cup {Null} /\ \A r \in Range(results) : IsValue(r) \/ IsBean(r)
    BY DEF BeanInv, BeanTypeOK
  <2>4. /\ DOMAIN c = DOMAIN Waiting /\ c.pc = "written" /\ c.value = copies[p].value
        /\ c.converter = copies[p].converter /\ c.loaded = copies[p].loaded
    BY <2>2 DEF Waiting
  <2> HIDE DEF c
  <2>5. copies'[p] = c
    BY <2>1
  <2>6. DOMAIN results = DOMAIN copies
    BY DEF BeanInv, TargetWritten
  <2>7. v \in Image(SourceField(p), TargetField(p).type) /\ (IsValue(v) \/ IsBean(v))
    <3>1. CASE SameType(p)
      <4>1. v = SourceField(p).value
        BY <2>2, <3>1
      <4>2. KnownField(SourceField(p))
        BY CopyFields
      <4> QED
        BY <3>1, <4>1, <4>2 DEF Image, SameType, KnownField
    <3>2. CASE ~ SameType(p)
      <4>1. v = results[p]
        BY <2>2, <3>2
      <4>2. results[p] \in Range(results)
        BY <2>6 DEF Range
      <4> QED
        BY <2>2, <2>3, <3>2, <4>1, <4>2
    <3> QED
      BY <3>1, <3>2
  <2> HIDE DEF v
  <2>8. ~ SameType(p) => Matches(copies[p].converter, p)'
    <3> SUFFICES ASSUME ~ SameType(p) PROVE Matches(copies[p].converter, p)'
      OBVIOUS
    <3>1. MatchedClass(k) = copies'[p].value.class /\ k.to = TargetField(p)'.type
      <4>1. MatchedClass(k) = copies[p].value.class /\ k.to = TargetField(p).type
        BY <2>2 DEF Matches
      <4>2. TargetField(p)' = TargetField(p)
        BY <2>1, FieldsStay
      <4> QED
        BY <2>4, <2>5, <4>1, <4>2
    <3>2. copies'[p].converter = k
      BY <2>4, <2>5
    <3> QED
      BY <3>1, <3>2 DEF Matches
  <2>9. Image(SourceField(p), TargetField(p).type)' = Image(SourceField(p), TargetField(p).type)
    <3>1. SourceField(p)' = SourceField(p) /\ TargetField(p)' = TargetField(p)
      BY <2>1, FieldsStay
    <3> QED
      BY <3>1 DEF Image
  <2>10. CopyMatched(p)'
    BY <1>2, <2>1, <2>2, <2>4, <2>5, <2>8, <2>9, FieldsStay DEF CopyMatched
  <2> QED
    BY <2>1, <2>3, <2>4, <2>5, <2>7, <2>10 DEF CopySteps
<1> QED
  BY <1>1, <1>2

LEMMA CopyStep ==
  ASSUME BeanInv, NEW p \in DOMAIN copies, Copy(p)
  PROVE  CopySteps(p)
<1>1. ASSUME FindNoConverter(p) PROVE CopySteps(p)
  <2>1. Fail(p, "read") /\ ~ \E converter \in Converters : Matches(converter, p)
    BY <1>1 DEF FindNoConverter
  <2>2. copies[p].pc = "read"
    BY <2>1 DEF Fail, Step
  <2> QED
    BY <2>1, <2>2, NoConverterReason, FailSteps
<1> QED
  BY <1>1, GetValueSteps, FindConverterSteps, ConvertValueSteps, SetValueSteps DEF Copy

LEMMA CopyKeepsTypeOK ==
  ASSUME BeanInv, NEW p \in DOMAIN copies, CopySteps(p)
  PROVE  BeanTypeOK'
<1>1. UNCHANGED <<strategy, status>>
  BY DEF CopySteps
<1>2. ASSUME NEW r \in Range(target)' PROVE IsValue(r) \/ IsBean(r)
  <2>1. PICK j \in DOMAIN target' : r = target'[j]
    BY DEF Range
  <2>2. \A i \in DOMAIN target : IsValue(target[i]) \/ IsBean(target[i])
    BY DEF BeanInv, BeanTypeOK, Range
  <2>3. CASE target' = target
    BY <2>1, <2>2, <2>3
  <2>4. CASE target' # target
    <3>1. PICK v : target' = [target EXCEPT ![p[1]] = v] /\ (IsValue(v) \/ IsBean(v))
      BY <2>4 DEF CopySteps
    <3> QED
      BY <2>1, <2>2, <3>1
  <2> QED
    BY <2>3, <2>4
<1>3. ASSUME NEW r \in Range(results)' PROVE IsValue(r) \/ IsBean(r)
  <2>1. PICK j \in DOMAIN results' : r = results'[j]
    BY DEF Range
  <2>2. \A i \in DOMAIN results : IsValue(results[i]) \/ IsBean(results[i])
    BY DEF BeanInv, BeanTypeOK, Range
  <2>3. CASE results' = results
    BY <2>1, <2>2, <2>3
  <2>4. CASE results' # results
    <3>1. PICK v : results' = [results EXCEPT ![p] = v] /\ (IsValue(v) \/ IsBean(v))
      BY <2>4 DEF CopySteps
    <3> QED
      BY <2>1, <2>2, <3>1
  <2> QED
    BY <2>3, <2>4
<1>4. ASSUME NEW q \in DOMAIN copies'
      PROVE  /\ copies'[q].pc \in {"waiting", "read", "found", "converted", "written", "failed"}
             /\ copies'[q].converter \in Converters \cup {Null}
  <2>1. PICK c : /\ copies' = [copies EXCEPT ![p] = c]
                 /\ c.pc \in {"read", "found", "converted", "written", "failed"}
                 /\ c.converter \in Converters \cup {Null}
    BY DEF CopySteps
  <2>2. q \in DOMAIN copies /\ copies'[q] = IF q = p THEN c ELSE copies[q]
    BY <2>1
  <2>3. /\ copies[q].pc \in {"waiting", "read", "found", "converted", "written", "failed"}
        /\ copies[q].converter \in Converters \cup {Null}
    BY <2>2 DEF BeanInv, BeanTypeOK
  <2> QED
    BY <2>1, <2>2, <2>3
<1> QED
  BY <1>1, <1>2, <1>3, <1>4 DEF BeanInv, BeanTypeOK

LEMMA CopyKeepsCopies ==
  ASSUME BeanInv, NEW p \in DOMAIN copies, CopySteps(p)
  PROVE  /\ DOMAIN copies' = DOMAIN copies /\ DOMAIN results' = DOMAIN results
         /\ \A q \in DOMAIN copies : q # p => copies'[q] = copies[q] /\ results'[q] = results[q]
         /\ CopiesMatched'
<1>1. UNCHANGED <<conversion, strategy, sourceFields, status>> /\ CopyMatched(p)'
  BY DEF CopySteps
<1>2. DOMAIN copies' = DOMAIN copies /\ \A q \in DOMAIN copies : q # p => copies'[q] = copies[q]
  BY DEF CopySteps
<1>3. DOMAIN results = DOMAIN copies
  BY DEF BeanInv, TargetWritten
<1>4. /\ DOMAIN results' = DOMAIN results
      /\ \A q \in DOMAIN copies : q # p => results'[q] = results[q]
  <2>1. CASE results' = results
    BY <2>1
  <2>2. CASE results' # results
    <3>1. PICK v : results' = [results EXCEPT ![p] = v]
      BY <2>2 DEF CopySteps
    <3> QED
      BY <1>3, <3>1
  <2> QED
    BY <2>1, <2>2
<1>5. ASSUME NEW q \in DOMAIN copies, q # p PROVE CopyMatched(q)'
  <2>1. copies'[q] = copies[q] /\ results'[q] = results[q]
    BY <1>2, <1>4, <1>5
  <2>2. CopyMatched(q)
    BY DEF BeanInv, CopiesMatched
  <2>3. /\ SourceField(q)' = SourceField(q) /\ TargetField(q)' = TargetField(q)
        /\ (SameType(q)' <=> SameType(q)) /\ (HasReason(q)' <=> HasReason(q))
    BY <1>1, FieldsStay
  <2>4. Matches(copies[q].converter, q)' <=> Matches(copies[q].converter, q)
    <3> DEFINE k == copies[q].converter
               v == copies[q].value
    <3>1. copies'[q].converter = k /\ copies'[q].value = v
      BY <2>1
    <3>2. Matches(copies[q].converter, q)'
            <=> MatchedClass(k) = v.class /\ k.to = TargetField(q)'.type
      BY <3>1 DEF Matches
    <3> QED
      BY <2>3, <3>2 DEF Matches
  <2>5. Image(SourceField(q), TargetField(q).type)' = Image(SourceField(q), TargetField(q).type)
    BY <2>3 DEF Image
  <2> QED
    BY <2>1, <2>2, <2>3, <2>4, <2>5 DEF CopyMatched
<1>6. CopiesMatched'
  BY <1>1, <1>2, <1>5 DEF CopiesMatched
<1> QED
  BY <1>2, <1>4, <1>6

\* The steps of the copies, which may interleave in any order.
LEMMA CopyKeepsInv ==
  ASSUME BeanInv, NEW p \in DOMAIN copies, Copy(p)
  PROVE  BeanInv'
<1>1. CopySteps(p)
  BY CopyStep
<1>2. /\ UNCHANGED <<conversion, strategy, sourceFields, status>>
      /\ copies[p].pc \notin {"written", "failed"}
  BY <1>1 DEF CopySteps
<1>3. /\ DOMAIN copies' = DOMAIN copies /\ DOMAIN results' = DOMAIN results
      /\ \A q \in DOMAIN copies : q # p => copies'[q] = copies[q] /\ results'[q] = results[q]
      /\ CopiesMatched'
  BY <1>1, CopyKeepsCopies
<1>4. /\ TargetFields' = TargetFields /\ Pairs' = Pairs
      /\ \A q : SourceField(q)' = SourceField(q) /\ TargetField(q)' = TargetField(q)
  BY <1>2, FieldsStay
<1>5. BeanTypeOK'
  BY <1>1, CopyKeepsTypeOK
<1>6. FieldsCollected'
  BY <1>2 DEF BeanInv, FieldsCollected
<1>7. CopiesOfPairs'
  BY <1>2, <1>3, <1>4, CopyFields DEF BeanInv, CopiesOfPairs
<1>8. TargetWritten'
  <2>1. DOMAIN target' = DOMAIN target
    BY <1>1 DEF CopySteps
  <2>2. /\ DOMAIN results = DOMAIN copies
        /\ status \in {"copying", "returned"} => DOMAIN target = DOMAIN TargetFields
    BY DEF BeanInv, TargetWritten
  <2>3. ASSUME NEW j \in DOMAIN target
        PROVE  /\ j \in DOMAIN TargetFields
               /\ \/ /\ target'[j] = TargetFields[j].value
                     /\ \A q \in DOMAIN copies : q[1] = j => copies'[q].pc # "written"
                  \/ \E q \in DOMAIN copies :
                       q[1] = j /\ target'[j] \in Image(SourceField(q), TargetFields[j].type)
    <3>1. /\ j \in DOMAIN TargetFields
          /\ \/ /\ target[j] = TargetFields[j].value
                /\ \A q \in DOMAIN copies : q[1] = j => copies[q].pc # "written"
             \/ \E q \in DOMAIN copies :
                  q[1] = j /\ target[j] \in Image(SourceField(q), TargetFields[j].type)
      BY DEF BeanInv, TargetWritten
    <3>2. CASE target' = target /\ copies'[p].pc # "written"
      BY <1>3, <3>1, <3>2
    <3>3. CASE ~ (target' = target /\ copies'[p].pc # "written")
      <4>1. PICK v : /\ target' = [target EXCEPT ![p[1]] = v]
                     /\ v \in Image(SourceField(p), TargetField(p).type)
        BY <1>1, <3>3 DEF CopySteps
      <4>2. CASE j = p[1]
        BY <3>1, <4>1, <4>2 DEF TargetField
      <4>3. CASE j # p[1]
        <5>1. target'[j] = target[j]
          BY <4>1, <4>3
        <5> QED
          BY <1>3, <3>1, <4>3, <5>1
      <4> QED
        BY <4>2, <4>3
    <3> QED
      BY <3>2, <3>3
  <2>4. ASSUME NEW q, NEW j
        PROVE  Image(SourceField(q), TargetFields[j].type)' = Image(SourceField(q), TargetFields[j].type)
    BY <1>4 DEF Image
  <2> QED
    BY <1>2, <1>3, <1>4, <2>1, <2>2, <2>3, <2>4 DEF TargetWritten
<1>9. EndsLast'
  <2>1. status # "returned"
    BY <1>2 DEF BeanInv, EndsLast
  <2>2. Failed => Failed'
    BY <1>2, <1>3 DEF Failed
  <2> QED
    BY <1>2, <2>1, <2>2 DEF BeanInv, EndsLast
<1> QED
  BY <1>3, <1>5, <1>6, <1>7, <1>8, <1>9 DEF BeanInv

-------------------------------------------------------------------------------
(* The steps of the call. *)

LEMMA InitInv == Init => BeanInv
<1> SUFFICES ASSUME Init PROVE BeanInv
  OBVIOUS
<1>1. /\ DOMAIN target = {} /\ DOMAIN copies = {} /\ DOMAIN results = {}
      /\ target = <<>> /\ copies = <<>> /\ status = "new" /\ strategy = "null"
      /\ conversion \in Conversions
  BY DEF Init
<1>2. BeanTypeOK
  BY <1>1 DEF BeanTypeOK, Range
<1> QED
  BY <1>1, <1>2 DEF BeanInv, FieldsCollected, CopiesOfPairs, CopiesMatched, TargetWritten, EndsLast

\* to() makes a copy for each pair of fields and a target with its own values.
LEMMA ToKeepsInv ==
  ASSUME BeanInv, To
  PROVE  BeanInv'
<1>1. /\ UNCHANGED <<conversion, strategy, sourceFields>> /\ status = "from"
      /\ results' = [p \in DOMAIN copies' |-> Null]
  BY DEF To
<1>2. /\ conversion \in Conversions /\ sourceFields = FindMembers(conversion.source)
      /\ copies = <<>> /\ target = <<>> /\ strategy \in Strategy \cup {"null"}
  BY <1>1 DEF BeanInv, FieldsCollected, CopiesOfPairs, BeanTypeOK
<1>3. TargetFields' = TargetFields /\ Pairs' = Pairs
  BY <1>1, FieldsStay
<1>4. FieldsCollected'
  BY <1>1, <1>2, <1>3 DEF FieldsCollected
<1>5. \A r \in Range(results)' : IsValue(r)
  BY <1>1, NullIsValue DEF Range
<1>6. CASE conversion.constructible
  <2>1. /\ target' = [j \in DOMAIN TargetFields |-> TargetFields[j].value]
        /\ copies' = [p \in IF strategy \in {"null", "SAME_NAME"} THEN Pairs ELSE {} |-> Waiting]
        /\ status' = "copying"
    BY <1>6 DEF To
  <2>2. \A p \in DOMAIN copies' : copies'[p] = Waiting
    BY <2>1
  <2>3. Waiting.pc = "waiting" /\ Waiting.converter = Null
    BY DEF Waiting
  <2>4. \A r \in Range(target)' : IsValue(r) \/ IsBean(r)
    <3>1. \A j \in DOMAIN TargetFields : KnownField(TargetFields[j])
      BY <1>2, FieldsKnown, MembersFound DEF TargetFields
    <3> QED
      BY <2>1, <3>1 DEF Range, KnownField
  <2>5. BeanTypeOK'
    BY <1>1, <1>2, <1>5, <2>1, <2>2, <2>3, <2>4 DEF BeanTypeOK
  <2>6. CopiesOfPairs'
    BY <1>1, <1>3, <2>1 DEF CopiesOfPairs
  <2>7. CopiesMatched'
    BY <2>2, <2>3 DEF CopiesMatched, CopyMatched
  <2>8. TargetWritten'
    BY <1>1, <1>3, <2>1, <2>2, <2>3 DEF TargetWritten
  <2>9. EndsLast'
    BY <2>1 DEF EndsLast
  <2> QED
    BY <1>4, <2>5, <2>6, <2>7, <2>8, <2>9 DEF BeanInv
<1>7. CASE ~ conversion.constructible
  <2>1. status' = "failed" /\ target' = <<>> /\ copies' = <<>>
    BY <1>2, <1>7 DEF To
  <2>2. DOMAIN target' = {} /\ DOMAIN copies' = {}
    BY <2>1
  <2>3. BeanTypeOK'
    BY <1>1, <1>2, <1>5, <2>1, <2>2 DEF BeanTypeOK, Range
  <2>4. CopiesOfPairs' /\ CopiesMatched' /\ EndsLast'
    BY <1>1, <1>7, <2>1, <2>2 DEF CopiesOfPairs, CopiesMatched, EndsLast
  <2>5. TargetWritten'
    BY <1>1, <2>1, <2>2 DEF TargetWritten
  <2> QED
    BY <1>4, <2>3, <2>4, <2>5 DEF BeanInv
<1> QED
  BY <1>6, <1>7

\* Before to() there are no copies; the others only end the call.
LEMMA CallKeepsInv ==
  ASSUME BeanInv,
         \/ \E s \in Strategy : SetStrategy(s)
         \/ From \/ Return \/ Throw
         \/ UNCHANGED vars
  PROVE  BeanInv'
<1>1. UNCHANGED <<conversion, target, copies, results>>
  BY DEF SetStrategy, From, Return, Throw, vars
<1>2. TargetFields' = TargetFields
  BY <1>1 DEF TargetFields
<1>3. CASE status \in {"new", "from"}
  <2>1. copies = <<>> /\ target = <<>> /\ DOMAIN copies = {} /\ DOMAIN target = {} /\ DOMAIN results = {}
    BY <1>3 DEF BeanInv, CopiesOfPairs, TargetWritten
  <2>2. /\ status' \in {"new", "from"} /\ strategy' \in Strategy \cup {"null"}
        /\ status' # "new" => sourceFields' = FindMembers(conversion.source)
    BY <1>1, <1>3 DEF BeanInv, BeanTypeOK, FieldsCollected, SetStrategy, From, Return, Throw, vars
  <2>3. BeanTypeOK'
    BY <1>1, <2>1, <2>2 DEF BeanTypeOK, Range
  <2>4. FieldsCollected'
    BY <1>1, <2>2 DEF BeanInv, FieldsCollected
  <2> QED
    BY <1>1, <2>1, <2>2, <2>3, <2>4 DEF BeanInv, CopiesOfPairs, CopiesMatched, TargetWritten, EndsLast
<1>4. CASE status \notin {"new", "from"}
  <2>1. UNCHANGED <<strategy, sourceFields>>
    BY <1>4 DEF SetStrategy, From, Return, Throw, vars
  <2>2. /\ Pairs' = Pairs
        /\ \A q : SourceField(q)' = SourceField(q) /\ TargetField(q)' = TargetField(q)
        /\ \A q : (SameType(q)' <=> SameType(q)) /\ (HasReason(q)' <=> HasReason(q))
    BY <1>1, <2>1, FieldsStay
  <2>3. \/ status' = status
        \/ /\ status = "copying" /\ status' = "returned"
           /\ \A p \in DOMAIN copies : copies[p].pc = "written"
        \/ status = "copying" /\ status' = "failed" /\ Failed
    BY <1>4 DEF SetStrategy, From, Return, Throw, vars
  <2>4. Failed' = Failed
    BY <1>1 DEF Failed
  <2>5. BeanTypeOK'
    BY <1>1, <2>1, <2>3 DEF BeanInv, BeanTypeOK, Range
  <2>6. FieldsCollected'
    BY <1>1, <1>4, <2>1, <2>3 DEF BeanInv, FieldsCollected
  <2>7. CopiesOfPairs'
    BY <1>1, <1>4, <2>1, <2>2, <2>3 DEF BeanInv, CopiesOfPairs
  <2>8. CopiesMatched'
    <3> SUFFICES ASSUME NEW q \in DOMAIN copies PROVE CopyMatched(q)'
      BY <1>1 DEF CopiesMatched
    <3>1. CopyMatched(q)
      BY DEF BeanInv, CopiesMatched
    <3>2. Image(SourceField(q), TargetField(q).type)' = Image(SourceField(q), TargetField(q).type)
      BY <2>2 DEF Image
    <3>3. Matches(copies[q].converter, q)' <=> Matches(copies[q].converter, q)
      BY <1>1, <2>2 DEF Matches
    <3> QED
      BY <1>1, <2>2, <3>1, <3>2, <3>3 DEF CopyMatched
  <2>9. TargetWritten'
    <3>1. \A q, j : Image(SourceField(q), TargetFields[j].type)'
                      = Image(SourceField(q), TargetFields[j].type)
      BY <1>2, <2>2 DEF Image
    <3> QED
      BY <1>1, <1>2, <2>2, <2>3, <3>1 DEF BeanInv, TargetWritten
  <2>10. EndsLast'
    BY <1>1, <2>3, <2>4 DEF BeanInv, EndsLast
  <2> QED
    BY <2>5, <2>6, <2>7, <2>8, <2>9, <2>10 DEF BeanInv
<1> QED
  BY <1>3, <1>4

LEMMA NextKeepsInv == BeanInv /\ [Next]_vars => BeanInv'
<1> SUFFICES ASSUME BeanInv, [Next]_vars PROVE BeanInv'
  OBVIOUS
<1>1. CASE \E p \in DOMAIN copies : Copy(p)
  BY <1>1, CopyKeepsInv
<1>2. CASE To
  BY <1>2, ToKeepsInv
<1>3. CASE (\E s \in Strategy : SetStrategy(s)) \/ From \/ Return \/ Throw \/ UNCHANGED vars
  BY <1>3, CallKeepsInv
<1> QED
  BY <1>1, <1>2, <1>3 DEF Next, Terminated

-------------------------------------------------------------------------------
(* What to() promises. *)

\* The inductive invariant of a conversion: every copy is where its converter and
\* its value say, and the target has what the copies wrote (BeanInv).
THEOREM BeanInvariance == Spec => []BeanInv
<1>1. Init => BeanInv
  BY InitInv
<1>2. BeanInv /\ [Next]_vars => BeanInv'
  BY NextKeepsInv
<1> QED
  BY <1>1, <1>2, PTL DEF Spec

\* A target that to() returns is whole: the copies of all pairs of fields were
\* written by then, none of them to a static final field, and none from a null of
\* another type.
THEOREM WholeReturned == Spec => []ReturnedWhole
<1>1. BeanInv => ReturnedWhole
  <2> SUFFICES ASSUME BeanInv, status = "returned", strategy \notin {"ANNOTATED", "HYBRID"},
                      NEW p \in Pairs
               PROVE  /\ copies[p].pc = "written"
                      /\ ~ TargetField(p).constant
                      /\ SourceField(p).value = Null => SameType(p)
    BY DEF ReturnedWhole
  <2>1. strategy \in {"null", "SAME_NAME"}
    BY ConversionsAssumption DEF BeanInv, BeanTypeOK
  <2>2. p \in DOMAIN copies
    BY <2>1 DEF BeanInv, CopiesOfPairs
  <2>3. copies[p].pc = "written"
    BY <2>2 DEF BeanInv, EndsLast
  <2>4. /\ copies[p].value = SourceField(p).value /\ ~ TargetField(p).constant
        /\ ~ SameType(p) => copies[p].converter \in Converters /\ Matches(copies[p].converter, p)
    BY <2>2, <2>3 DEF BeanInv, CopiesMatched, CopyMatched
  <2>5. SourceField(p).value = Null => SameType(p)
    BY <2>4, MatchKinds
  <2> QED
    BY <2>3, <2>4, <2>5
<1> QED
  BY <1>1, BeanInvariance, PTL

\* In each field of the target that to() returns is the value of a field of the same
\* name in the source, in the target's type, or what was there if there is none:
\* no copy got another one's value from a converter.
THEOREM ValuesComeFromSource == Spec => []TargetFromSource
<1>1. BeanInv => TargetFromSource
  <2> SUFFICES ASSUME BeanInv, status = "returned", NEW j \in DOMAIN target
               PROVE  LET field == TargetFields[j]
                          namesakes == {f \in Fields(conversion.source) :
                                          f.name = field.name /\ ~ f.synthetic}
                      IN  target[j] \in
                            IF namesakes = {} \/ strategy \in {"ANNOTATED", "HYBRID"} THEN {field.value}
                            ELSE UNION {Image(f, field.type) : f \in namesakes}
    BY DEF TargetFromSource
  <2> DEFINE field == TargetFields[j]
             namesakes == {f \in Fields(conversion.source) : f.name = field.name /\ ~ f.synthetic}
  <2>1. /\ DOMAIN copies = IF strategy \in {"null", "SAME_NAME"} THEN Pairs ELSE {}
        /\ \A p \in DOMAIN copies : copies[p].pc = "written"
        /\ sourceFields = FindMembers(conversion.source)
        /\ strategy \in {"null", "SAME_NAME", "ANNOTATED", "HYBRID"}
    BY ConversionsAssumption
       DEF BeanInv, BeanTypeOK, CopiesOfPairs, EndsLast, FieldsCollected
  <2>2. /\ j \in DOMAIN TargetFields
        /\ \/ /\ target[j] = field.value
              /\ \A p \in DOMAIN copies : p[1] = j => copies[p].pc # "written"
           \/ \E p \in DOMAIN copies : p[1] = j /\ target[j] \in Image(SourceField(p), field.type)
    BY DEF BeanInv, TargetWritten
  <2>3. ASSUME NEW p \in DOMAIN copies, p[1] = j PROVE SourceField(p) \in namesakes
    BY <2>3, CopyFields
  <2>4. ASSUME NEW f \in namesakes, strategy \notin {"ANNOTATED", "HYBRID"}
        PROVE  \E p \in DOMAIN copies : p[1] = j
    <3>1. PICK place \in DOMAIN sourceFields : sourceFields[place] = f
      BY <2>1, MembersFound
    <3>2. <<j, place>> \in Pairs
      BY <2>2, <3>1 DEF Pairs
    <3> QED
      BY <2>1, <2>4, <3>2
  <2>5. CASE namesakes = {} \/ strategy \in {"ANNOTATED", "HYBRID"}
    <3>1. ~ \E p \in DOMAIN copies : p[1] = j
      BY <2>1, <2>3, <2>5
    <3> QED
      BY <2>2, <2>5, <3>1
  <2>6. CASE namesakes # {} /\ strategy \notin {"ANNOTATED", "HYBRID"}
    <3>1. PICK p \in DOMAIN copies : p[1] = j /\ target[j] \in Image(SourceField(p), field.type)
      BY <2>1, <2>2, <2>4, <2>6
    <3>2. SourceField(p) \in namesakes
      BY <2>3, <3>1
    <3> HIDE DEF namesakes, field
    <3>3. target[j] \in UNION {Image(f, field.type) : f \in namesakes}
      BY <3>1, <3>2
    <3> QED
      BY <2>6, <3>3 DEF namesakes, field
  <2> QED
    BY <2>5, <2>6
<1> QED
  BY <1>1, BeanInvariance, PTL

\* A number that the target's class can hold arrives as the same number, and so
\* does one in digits: nothing is wrapped or saturated that fits.
THEOREM ValuesStayEqual == Spec => []EqualWhereRepresentable
<1>1. BeanInv => EqualWhereRepresentable
  <2> SUFFICES ASSUME BeanInv, NEW p \in DOMAIN copies,
                      copies[p].pc \in {"converted", "written"}, ~ SameType(p)
               PROVE  LET v == copies[p].value
                          to == BoxOf(TargetField(p).type)
                      IN  /\ /\ v.class \in Numeric \cup {"Character"}
                             /\ to \in Numeric \cup {"Character"} /\ Holds(to, v.n)
                             => results[p].n = v.n
                          /\ v.class = "String" /\ v.of \in Integral /\ to \in Numeric =>
                               results[p].n = v.n
    BY DEF EqualWhereRepresentable
  <2> DEFINE v == copies[p].value
             type == TargetField(p).type
             to == BoxOf(type)
  <2>1. /\ v = SourceField(p).value
        /\ copies[p].converter \in Converters /\ Matches(copies[p].converter, p)
        /\ results[p] \in Image(SourceField(p), type) /\ SourceField(p).type # type
    BY DEF BeanInv, CopiesMatched, CopyMatched, SameType
  <2>2. v # Null /\ (IsValue(v) \/ IsBean(v))
    BY <2>1, CopyFields, MatchKinds DEF KnownField
  <2>3. IsValue(results[p]) \/ IsBean(results[p])
    BY DEF BeanInv, TargetWritten, BeanTypeOK, Range
  <2> SUFFICES ASSUME v.class \in Numeric \cup {"Character", "String"}, to \in Numeric \cup {"Character"}
               PROVE  /\ v.class \in Numeric \cup {"Character"} /\ Holds(to, v.n) => results[p].n = v.n
                      /\ v.class = "String" /\ v.of \in Integral /\ to \in Numeric =>
                           results[p].n = v.n
    OBVIOUS
  <2>4. ~ IsBean(v)
    BY DEF IsBean, Bean, Numeric, Integral, Floating
  <2>5. IsValue(v)
    BY <2>2, <2>4
  <2>6. type \in ValueClass
    BY <2>1, <2>4, MatchKinds DEF IsBean, Bean
  <2>7. to = type
    BY <2>6 DEF BoxOf, ValueClass, Numeric, Integral, Floating
  <2>8. results[p] = Convert(v, type)
    BY <2>1, <2>4 DEF Image
  <2>9. results[p] # NumberFormatException
    BY <2>3, BeanOrValue
  <2> QED
    BY <2>5, <2>7, <2>8, <2>9, ConvertEqual
<1> QED
  BY <1>1, BeanInvariance, PTL

\* No conversion throws without a reason: every source type has a converter to
\* every target type, and each converter is total, but for the cases of HasReason.
THEOREM FailuresHaveReasons == Spec => []FailsForReason
<1>1. BeanInv => FailsForReason
  <2> SUFFICES ASSUME BeanInv, status = "failed", conversion.constructible
               PROVE  \E p \in Pairs : HasReason(p)
    BY DEF FailsForReason
  <2>1. PICK p \in DOMAIN copies : copies[p].pc = "failed"
    BY DEF BeanInv, EndsLast, Failed
  <2>2. p \in Pairs /\ HasReason(p)
    BY <2>1 DEF BeanInv, CopiesOfPairs, CopiesMatched, CopyMatched
  <2> QED
    BY <2>2
<1> QED
  BY <1>1, BeanInvariance, PTL

===============================================================================
