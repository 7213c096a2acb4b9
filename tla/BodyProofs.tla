----------------------------- MODULE BodyProofs -----------------------------
(***************************************************************************)
(* The handler gets the body that its client means to send, whole, for     *)
(* every payload, every way to cut it into chunks and into the portions    *)
(* that arrive, every end of the connection and every base that sizes are  *)
(* written in (sixteen in the code).                                       *)
(*                                                                         *)
(* The handler has the first pieces of the payload, and what has arrived   *)
(* and is not read yet is a beginning of the chunks of the others.  A size *)
(* is read to its ";", so that the data, which may look like chunks, does  *)
(* not matter; and what is left of a size that breaks off is no zero, for  *)
(* a client writes none in front: only the last chunk ends the body.       *)
(***************************************************************************)
EXTENDS Gateway, SequenceProofs

(***************************************************************************)
(* Chunk sizes.                                                            *)
(***************************************************************************)
Base == Len(Digits)

DigitValue(d) == (CHOOSE k \in DOMAIN Digits : Digits[k] = d) - 1

Numerals == Seq(ToSet(Digits))

\* There are two digits at least, each with its value, and ";" is none of them.
LEMMA DigitsFacts ==
  /\ Base \in Nat /\ Base >= 2
  /\ \A d \in ToSet(Digits) : DigitValue(d) \in Nat
  /\ \A r \in 0..(Base - 1) : Digits[r + 1] \in ToSet(Digits) /\ DigitValue(Digits[r + 1]) = r
  /\ \A d \in ToSet(Digits) : d \in STRING /\ d # ";" /\ (d # Digits[1] <=> DigitValue(d) # 0)
<1>1. Base \in Nat /\ Base >= 2 /\ DOMAIN Digits = 1..Base
  <2>1. Digits \in Seq(STRING) /\ Len(Digits) >= 2
    BY GatewayAssumption
  <2> QED BY <2>1 DEF Base
<1>2. ToSet(Digits) = {Digits[k] : k \in 1..Base}
  BY <1>1 DEF ToSet
<1>3. ASSUME NEW k \in 1..Base
      PROVE  DigitValue(Digits[k]) = k - 1
  <2>1. (CHOOSE j \in DOMAIN Digits : Digits[j] = Digits[k]) = k
    BY <1>1, GatewayAssumption
  <2> QED BY <2>1 DEF DigitValue
<1>5. \A k \in 1..Base : Digits[k] \in STRING
  <2>1. Digits \in Seq(STRING)
    BY GatewayAssumption
  <2> QED BY <2>1 DEF Base
<1>6. ";" \notin ToSet(Digits)
  BY GatewayAssumption
<1>7. ASSUME NEW d \in ToSet(Digits)
      PROVE  /\ DigitValue(d) \in Nat /\ d \in STRING /\ d # ";"
             /\ d # Digits[1] <=> DigitValue(d) # 0
  <2>1. PICK k \in 1..Base : d = Digits[k]
    BY <1>2
  <2>2. DigitValue(d) = k - 1
    BY <1>3, <2>1
  <2>3. DigitValue(Digits[1]) = 0 /\ (k - 1 = 0 => k = 1)
    BY <1>1, <1>3
  <2>4. d # Digits[1] <=> DigitValue(d) # 0
    BY <1>1, <2>1, <2>2, <2>3
  <2>5. d \in STRING /\ d # ";"
    BY <1>5, <1>6, <2>1
  <2>6. DigitValue(d) \in Nat
    BY <1>1, <2>1, <2>2
  <2> QED BY <2>4, <2>5, <2>6
<1>8. ASSUME NEW r \in 0..(Base - 1)
      PROVE  Digits[r + 1] \in ToSet(Digits) /\ DigitValue(Digits[r + 1]) = r
  <2>1. r + 1 \in 1..Base /\ (r + 1) - 1 = r
    BY <1>1
  <2> QED BY <1>2, <1>3, <2>1
<1> QED BY <1>1, <1>7, <1>8

IsValue(v, digits) ==
  v = [i \in 0..Len(digits) |->
         IF i = 0 THEN 0 ELSE Base * v[i - 1] + DigitValue(digits[i])]

\* Number, with its recursive function named.
LEMMA NumberByValue ==
  ASSUME NEW digits
  PROVE  Number(digits) = (CHOOSE v : IsValue(v, digits))[Len(digits)]
BY DEF Number, IsValue, Base, DigitValue

\* The smallest index at which two values differed would have no value.
LEMMA ValueUnique ==
  ASSUME NEW digits \in Numerals, NEW v, NEW w, IsValue(v, digits), IsValue(w, digits)
  PROVE  v = w
<1> DEFINE n == Len(digits)
           T == {i \in 0..n : v[i] # w[i]}
<1>1. n \in Nat
  BY DEF Numerals
<1>2. /\ \A i \in 0..n : v[i] = IF i = 0 THEN 0 ELSE Base * v[i - 1] + DigitValue(digits[i])
      /\ \A i \in 0..n : w[i] = IF i = 0 THEN 0 ELSE Base * w[i - 1] + DigitValue(digits[i])
  BY DEF IsValue
<1> HIDE DEF n
<1>3. T = {}
  <2> SUFFICES ASSUME T # {} PROVE FALSE
    OBVIOUS
  <2>1. PICK m \in T : \A i \in T : m <= i
    <3>1. T \subseteq Nat
      BY <1>1
    <3> HIDE DEF T
    <3> QED BY <3>1, SmallestNumber
  <2>2. m # 0
    BY <1>2, <2>1
  <2>3. m - 1 \in 0..n /\ m - 1 \notin T
    BY <1>1, <2>1, <2>2
  <2>4. v[m - 1] = w[m - 1]
    BY <2>3
  <2> QED BY <1>2, <2>1, <2>2, <2>4
<1>4. \A i \in 0..n : v[i] = w[i]
  BY <1>3
<1>5. v = [i \in 0..n |-> v[i]] /\ w = [i \in 0..n |-> w[i]]
  BY DEF IsValue, n
<1> QED BY <1>4, <1>5

\* The value of all digits but the last, and its own.
LEMMA ValueAppend ==
  ASSUME NEW digits \in Numerals, NEW d \in ToSet(Digits),
         NEW v \in [0..Len(digits) -> Nat], IsValue(v, digits),
         NEW total, total = Base * v[Len(digits)] + DigitValue(d)
  PROVE  \E w \in [0..(Len(digits) + 1) -> Nat] :
           IsValue(w, Append(digits, d)) /\ w[Len(digits) + 1] = total
<1> DEFINE n == Len(digits)
           all == Append(digits, d)
           w == [i \in 0..(n + 1) |-> IF i = n + 1 THEN total ELSE v[i]]
<1>1. /\ n \in Nat /\ Len(all) = n + 1 /\ all[n + 1] = d
      /\ \A i \in 1..n : all[i] = digits[i]
  BY DEF Numerals
<1>2. \A i \in 0..n : v[i] = IF i = 0 THEN 0 ELSE Base * v[i - 1] + DigitValue(digits[i])
  BY DEF IsValue
<1>3. total \in Nat
  <2>1. v[n] \in Nat
    BY <1>1
  <2>3. Base \in Nat /\ DigitValue(d) \in Nat
    BY DigitsFacts
  <2>2. Base * v[n] \in Nat
    BY <2>1, <2>3
  <2> QED BY <2>2, <2>3
<1>4. w \in [0..(n + 1) -> Nat] /\ w[n + 1] = total
  BY <1>1, <1>3
<1>5. \A i \in 0..n : w[i] = v[i]
  BY <1>1
<1> HIDE DEF n, all
<1>6. ASSUME NEW i \in 0..(n + 1)
      PROVE  w[i] = IF i = 0 THEN 0 ELSE Base * w[i - 1] + DigitValue(all[i])
  <2> HIDE DEF w
  <2>1. CASE i = n + 1
    <3>1. i # 0 /\ i - 1 = n /\ n \in 0..n
      BY <1>1, <2>1
    <3> QED BY <1>1, <1>4, <1>5, <2>1, <3>1 DEF n
  <2>2. CASE i = 0
    BY <1>1, <1>2, <1>5, <2>2
  <2>3. CASE i \in 1..n
    <3>1. i \in 0..n /\ i - 1 \in 0..n /\ i # 0
      BY <1>1, <2>3
    <3> QED BY <1>1, <1>2, <1>5, <2>3, <3>1
  <2> QED BY <1>1, <2>1, <2>2, <2>3
<1>7. IsValue(w, all)
  <2>1. w = [i \in 0..(n + 1) |-> w[i]]
    OBVIOUS
  <2> HIDE DEF w
  <2> QED BY <1>1, <1>6, <2>1 DEF IsValue
<1> QED BY <1>4, <1>7 DEF n, all

\* A shortest numeral without a value would be another one and a digit.
LEMMA ValueExists ==
  \A digits \in Numerals : \E v \in [0..Len(digits) -> Nat] : IsValue(v, digits)
<1> DEFINE Has(digits) == \E v \in [0..Len(digits) -> Nat] : IsValue(v, digits)
           T == {n \in Nat : \E digits \in Numerals : Len(digits) = n /\ ~Has(digits)}
<1> SUFFICES ASSUME T # {} PROVE FALSE
  BY DEF Numerals
<1>1. PICK n \in T : \A m \in T : n <= m
  BY SmallestNumber
<1>2. PICK digits \in Numerals : Len(digits) = n /\ ~Has(digits)
  OBVIOUS
<1>3. CASE digits = <<>>
  <2> DEFINE v == [i \in 0..0 |-> 0]
  <2>1. v \in [0..Len(digits) -> Nat] /\ IsValue(v, digits)
    BY <1>3 DEF IsValue
  <2> QED BY <1>2, <2>1
<1>4. CASE digits # <<>>
  <2>1. PICK s \in Numerals, d \in ToSet(Digits) : digits = Append(s, d)
    BY <1>4, SequenceEmptyOrAppend DEF Numerals
  <2>2. Len(s) \in Nat /\ n = Len(s) + 1
    BY <1>2, <2>1 DEF Numerals
  <2>3. Has(s)
    <3>1. Len(s) \notin T
      BY <1>1, <2>2
    <3> QED BY <2>2, <3>1
  <2>4. PICK v \in [0..Len(s) -> Nat] : IsValue(v, s)
    BY <2>3
  <2>5. \E w \in [0..(Len(s) + 1) -> Nat] : IsValue(w, Append(s, d))
    BY <2>4, ValueAppend
  <2> QED BY <1>2, <2>1, <2>2, <2>5
<1> QED BY <1>3, <1>4

LEMMA NumberIs ==
  ASSUME NEW digits \in Numerals, NEW v, IsValue(v, digits)
  PROVE  Number(digits) = v[Len(digits)]
<1>1. IsValue(CHOOSE w : IsValue(w, digits), digits)
  OBVIOUS
<1>2. (CHOOSE w : IsValue(w, digits)) = v
  BY <1>1, ValueUnique
<1> QED BY <1>2, NumberByValue

\* A digit more is Base times as much and the value of the digit.
LEMMA NumberAppend ==
  ASSUME NEW digits \in Numerals, NEW d \in ToSet(Digits)
  PROVE  /\ Number(digits) \in Nat
         /\ Append(digits, d) \in Numerals
         /\ Number(Append(digits, d)) = Base * Number(digits) + DigitValue(d)
<1>1. PICK v \in [0..Len(digits) -> Nat] : IsValue(v, digits)
  BY ValueExists
<1>2. PICK w \in [0..(Len(digits) + 1) -> Nat] :
        /\ IsValue(w, Append(digits, d))
        /\ w[Len(digits) + 1] = Base * v[Len(digits)] + DigitValue(d)
  BY <1>1, ValueAppend
<1>3. /\ Len(digits) \in Nat /\ Append(digits, d) \in Numerals
      /\ Len(Append(digits, d)) = Len(digits) + 1
  BY DEF Numerals
<1>4. Number(digits) = v[Len(digits)]
  BY <1>1, NumberIs
<1>5. Number(Append(digits, d)) = w[Len(digits) + 1]
  BY <1>2, <1>3, NumberIs
<1> QED BY <1>1, <1>2, <1>3, <1>4, <1>5

\* What handlers make of no digits at all.
LEMMA NumberEmpty == Number(<<>>) = 0
<1> DEFINE v == [i \in 0..0 |-> 0]
<1>1. <<>> \in Numerals /\ Len(<<>>) = 0
  BY DEF Numerals
<1>2. IsValue(v, <<>>) /\ v[0] = 0
  BY <1>1 DEF IsValue
<1> HIDE DEF v
<1> QED BY <1>1, <1>2, NumberIs

\* A numeral that does not begin with a zero is not zero, nor is any beginning
\* of it.
LEMMA NoLeadingZero ==
  \A digits \in Numerals :
    digits # <<>> /\ digits[1] # Digits[1] => Number(digits) >= 1
<1> DEFINE P(digits) == digits # <<>> /\ digits[1] # Digits[1] => Number(digits) >= 1
           T == {n \in Nat : \E digits \in Numerals : Len(digits) = n /\ ~P(digits)}
<1> SUFFICES ASSUME T # {} PROVE FALSE
  BY DEF Numerals
<1>1. PICK n \in T : \A m \in T : n <= m
  BY SmallestNumber
<1>2. PICK digits \in Numerals : Len(digits) = n /\ ~P(digits)
  OBVIOUS
<1>3. PICK s \in Numerals, d \in ToSet(Digits) : digits = Append(s, d)
  BY <1>2, SequenceEmptyOrAppend DEF Numerals
<1>4. Len(s) \in Nat /\ n = Len(s) + 1
  BY <1>2, <1>3 DEF Numerals
<1>5. P(s)
  <2>1. Len(s) \notin T
    BY <1>1, <1>4
  <2> QED BY <1>4, <2>1
<1>6. /\ Number(s) \in Nat /\ Number(digits) = Base * Number(s) + DigitValue(d)
      /\ DigitValue(d) \in Nat /\ Base \in Nat /\ Base >= 2
  BY <1>3, NumberAppend, DigitsFacts
<1>7. CASE s = <<>>
  <2>1. digits[1] = d
    BY <1>3, <1>7
  <2>2. Number(s) = 0 /\ DigitValue(d) # 0
    BY <1>2, <1>7, <2>1, NumberEmpty, DigitsFacts
  <2> QED BY <1>2, <1>6, <2>2
<1>8. CASE s # <<>>
  <2>1. digits[1] = s[1]
    BY <1>3, <1>8 DEF Numerals
  <2>2. Number(s) >= 1
    BY <1>2, <1>5, <1>8, <2>1
  <2>3. Base * Number(s) >= 1 /\ Base * Number(s) \in Nat
    BY <1>6, <2>2
  <2> QED BY <1>2, <1>6, <2>3
<1> QED BY <1>7, <1>8

\* Division with a remainder, of the smallest number that has none.
LEMMA Divided ==
  ASSUME NEW b \in Nat, b >= 2
  PROVE  \A n \in Nat : \E q \in Nat, r \in 0..(b - 1) : n = b * q + r
<1> DEFINE Has(n) == \E q \in Nat, r \in 0..(b - 1) : n = b * q + r
           T == {n \in Nat : ~Has(n)}
<1> SUFFICES ASSUME T # {} PROVE FALSE
  OBVIOUS
<1>1. PICK n \in T : \A m \in T : n <= m
  <2>1. T \subseteq Nat
    OBVIOUS
  <2> HIDE DEF T
  <2> QED BY <2>1, SmallestNumber
<1>2. n # 0
  <2>1. 0 = b * 0 + 0 /\ 0 \in 0..(b - 1)
    OBVIOUS
  <2>2. Has(0)
    BY <2>1
  <2> QED BY <2>2
<1>3. n - 1 \in Nat /\ Has(n - 1)
  <2>1. n - 1 \in Nat /\ ~(n <= n - 1)
    BY <1>2
  <2>2. n - 1 \notin T
    <3> HIDE DEF T
    <3> QED BY <1>1, <2>1
  <2> HIDE DEF Has
  <2> QED BY <2>1, <2>2
<1>4. PICK q \in Nat, r \in 0..(b - 1) : n - 1 = b * q + r
  BY <1>3
<1>5. CASE r + 1 < b
  <2>1. n = b * q + (r + 1) /\ r + 1 \in 0..(b - 1)
    BY <1>3, <1>4, <1>5
  <2> QED BY <2>1
<1>6. CASE r + 1 = b
  <2>1. b * (q + 1) = b * q + b
    OBVIOUS
  <2>2. n = b * (q + 1) + 0 /\ q + 1 \in Nat /\ 0 \in 0..(b - 1)
    BY <1>3, <1>4, <1>6, <2>1
  <2>3. Has(n)
    BY <2>2
  <2> QED BY <2>3
<1> QED BY <1>4, <1>5, <1>6

\* A number has a numeral, of no more digits than it takes to count to it.
LEMMA NumeralExists ==
  \A n \in Nat :
    \E digits \in Numerals :
      /\ digits # <<>> /\ Len(digits) <= n + 1
      /\ Number(digits) = n
      /\ Len(digits) > 1 => digits[1] # Digits[1]
<1> DEFINE Has(n) ==
             \E digits \in Numerals :
               /\ digits # <<>> /\ Len(digits) <= n + 1
               /\ Number(digits) = n
               /\ Len(digits) > 1 => digits[1] # Digits[1]
           T == {n \in Nat : ~Has(n)}
<1> SUFFICES ASSUME T # {} PROVE FALSE
  OBVIOUS
<1>1. PICK n \in T : \A m \in T : n <= m
  <2>1. T \subseteq Nat
    OBVIOUS
  <2> HIDE DEF T
  <2> QED BY <2>1, SmallestNumber
<1>2. n \in Nat /\ ~Has(n)
  OBVIOUS
<1>3. PICK q \in Nat, r \in 0..(Base - 1) : n = Base * q + r
  BY <1>2, DigitsFacts, Divided
<1> DEFINE d == Digits[r + 1]
<1>4. d \in ToSet(Digits) /\ DigitValue(d) = r
  BY <1>3, DigitsFacts
<1> HIDE DEF d
<1>5. CASE q = 0
  <2>1. <<>> \in Numerals
    BY DEF Numerals
  <2>2. Append(<<>>, d) \in Numerals /\ Number(Append(<<>>, d)) = Base * 0 + r
    BY <1>4, <2>1, NumberAppend, NumberEmpty
  <2>3. Base * 0 + r = n
    BY <1>3, <1>5, DigitsFacts
  <2>4. Append(<<>>, d) # <<>> /\ Len(Append(<<>>, d)) = 1
    OBVIOUS
  <2>5. Has(n)
    <3> DEFINE digits == Append(<<>>, d)
    <3>1. /\ digits \in Numerals /\ digits # <<>> /\ Len(digits) = 1
          /\ Number(digits) = n
      BY <2>2, <2>3, <2>4
    <3> HIDE DEF digits
    <3>2. Len(digits) <= n + 1 /\ ~(Len(digits) > 1)
      BY <1>2, <3>1
    <3> QED BY <3>1, <3>2
  <2> QED BY <1>2, <2>5
<1>6. CASE q # 0
  <2>1. q + 1 <= n /\ q < n
    <3>1. Base \in Nat /\ Base >= 2
      BY DigitsFacts
    <3>3. q \in Nat /\ q >= 1 /\ r \in Nat
      BY <1>6, <3>1
    <3>2. Base * q >= 2 * q
      BY <3>1, <3>3
    <3>4. Base * q \in Nat
      BY <3>1, <3>3
    <3> QED BY <1>3, <3>2, <3>3, <3>4
  <2>2. Has(q)
    <3>1. q \notin T
      BY <1>1, <1>2, <1>3, <2>1
    <3> QED BY <1>3, <3>1
  <2>3. PICK s \in Numerals :
          /\ s # <<>> /\ Len(s) <= q + 1
          /\ Number(s) = q
          /\ Len(s) > 1 => s[1] # Digits[1]
    BY <2>2
  <2> DEFINE digits == Append(s, d)
  <2>4. digits \in Numerals /\ Number(digits) = n
    BY <1>3, <1>4, <2>3, NumberAppend
  <2>5. /\ Len(s) \in Nat /\ Len(s) >= 1 /\ Len(digits) = Len(s) + 1
        /\ digits # <<>> /\ digits[1] = s[1] /\ s[1] \in ToSet(Digits)
    <3>1. /\ s \in Seq(ToSet(Digits)) /\ s # <<>> /\ d \in ToSet(Digits)
      BY <1>4, <2>3 DEF Numerals
    <3> HIDE DEF d
    <3> QED BY <3>1, AppendProperties
  <2> HIDE DEF digits
  <2>6. s[1] # Digits[1]
    <3>1. CASE Len(s) > 1
      BY <2>3, <3>1
    <3>2. CASE Len(s) = 1
      <4>1. s = Append(<<>>, s[1]) /\ <<>> \in Numerals
        BY <2>3, <3>2 DEF Numerals
      <4>2. Number(s) = Base * 0 + DigitValue(s[1])
        BY <2>5, <4>1, NumberAppend, NumberEmpty
      <4>3. DigitValue(s[1]) # 0
        <5>2. Base \in Nat /\ DigitValue(s[1]) \in Nat
          BY <2>5, DigitsFacts
        <5>1. Base * 0 = 0 /\ DigitValue(s[1]) \in Nat
          BY <5>2
        <5> QED BY <1>6, <2>3, <4>2, <5>1
      <4>4. s[1] # Digits[1] <=> DigitValue(s[1]) # 0
        BY <2>5, DigitsFacts
      <4> QED BY <4>3, <4>4
    <3>3. Len(s) = 1 \/ Len(s) > 1
      <4>1. Len(s) \in Nat /\ Len(s) >= 1
        BY <2>5
      <4>2. \A k \in Nat : k >= 1 => k = 1 \/ k > 1
        OBVIOUS
      <4> QED BY ONLY <4>1, <4>2
    <3> QED BY <3>1, <3>2, <3>3
  <2>7. Len(digits) <= n + 1
    BY <1>2, <1>3, <2>1, <2>3, <2>5
  <2> QED BY <1>2, <2>4, <2>5, <2>6, <2>7
<1> QED BY <1>5, <1>6

\* What the CHOOSE of Numeral chooses: Number reads back what was written.
LEMMA NumeralIs ==
  ASSUME NEW n \in Nat
  PROVE  /\ Numeral(n) \in Numerals /\ Numeral(n) # <<>>
         /\ Number(Numeral(n)) = n
         /\ Len(Numeral(n)) > 1 => Numeral(n)[1] # Digits[1]
<1>1. PICK digits \in Numerals :
        /\ digits # <<>> /\ Len(digits) <= n + 1
        /\ Number(digits) = n
        /\ Len(digits) > 1 => digits[1] # Digits[1]
  BY NumeralExists
<1>2. digits \in SeqOf(ToSet(Digits), n + 1) \ {<<>>}
  <2>1. Len(digits) \in 0..(n + 1) /\ digits \in [1..Len(digits) -> ToSet(Digits)]
    BY <1>1 DEF Numerals
  <2> QED BY <1>1, <2>1 DEF SeqOf
<1>3. SeqOf(ToSet(Digits), n + 1) \subseteq Numerals
  BY DEF SeqOf, Numerals
<1> DEFINE P(s) == Number(s) = n /\ (Len(s) > 1 => s[1] # Digits[1])
<1>4. Numeral(n) \in SeqOf(ToSet(Digits), n + 1) \ {<<>>} /\ P(Numeral(n))
  <2>1. Numeral(n) = CHOOSE s \in SeqOf(ToSet(Digits), n + 1) \ {<<>>} : P(s)
    BY DEF Numeral
  <2>2. P(digits)
    BY <1>1
  <2> HIDE DEF P
  <2> QED BY <1>2, <2>1, <2>2
<1> QED BY <1>3, <1>4

(***************************************************************************)
(* Chunks.                                                                 *)
(***************************************************************************)
SizeEnd == ";"

Symbols ==
  ToSet(Digits) \cup ToSet(Payload) \cup {";"} \cup {"signature"} \cup {"newline"}

Bytes == Seq(Symbols)

Pieces == Seq(Bytes \ {<<>>})

\* A numeral is not empty, and has no ";" that would end it early.
LEMMA NumeralBytes ==
  ASSUME NEW n \in Nat
  PROVE  /\ Numeral(n) \in Bytes /\ Len(Numeral(n)) \in Nat /\ Len(Numeral(n)) >= 1
         /\ \A i \in 1..Len(Numeral(n)) : Numeral(n)[i] # SizeEnd
<1> DEFINE numeral == Numeral(n)
           D == ToSet(Digits)
<1>1. D \subseteq Symbols /\ \A d \in D : d # SizeEnd
  BY DigitsFacts DEF Symbols, SizeEnd
<1>2. numeral \in Seq(D) /\ numeral # <<>>
  BY NumeralIs DEF Numerals
<1> HIDE DEF numeral, D
<1>3. numeral \in Bytes
  BY <1>1, <1>2, SeqMonotonic DEF Bytes
<1>4. Len(numeral) \in Nat /\ Len(numeral) >= 1
  BY <1>2
<1>5. \A i \in 1..Len(numeral) : numeral[i] \in D
  BY <1>2
<1>6. \A i \in 1..Len(numeral) : numeral[i] # SizeEnd
  BY <1>1, <1>5
<1> QED BY <1>3, <1>4, <1>6 DEF numeral

\* What stands behind the ";" of a chunk.
Behind(data) == <<"signature">> \o (data \o <<"newline">>)

\* The symbols of the framing.
LEMMA OneSymbol ==
  /\ <<SizeEnd>> \in Bytes /\ Len(<<SizeEnd>>) = 1 /\ <<SizeEnd>>[1] = SizeEnd
  /\ <<"signature">> \in Bytes /\ Len(<<"signature">>) = 1
  /\ <<"newline">> \in Bytes /\ Len(<<"newline">>) = 1
<1>1. SizeEnd \in Symbols /\ "signature" \in Symbols /\ "newline" \in Symbols
  BY DEF Symbols, SizeEnd
<1>2. \A x \in Symbols : <<x>> \in Seq(Symbols) /\ Len(<<x>>) = 1 /\ <<x>>[1] = x
  OBVIOUS
<1> QED BY <1>1, <1>2 DEF Bytes

\* Concatenation of what is sent.
LEMMA BytesConcat == \A s, t \in Bytes : s \o t \in Bytes
BY ConcatProperties DEF Bytes

LEMMA BytesAssociate == \A s, t, u \in Bytes : Associates(s, t, u)
BY Regrouped DEF Bytes

\* Behind the ";" come the signature, the data and the end of their line.
LEMMA BehindIs ==
  ASSUME NEW data \in Bytes
  PROVE  /\ Behind(data) \in Bytes /\ Len(Behind(data)) = Len(data) + 2
         /\ Len(data) \in Nat
         /\ \A i \in 1..Len(data) : Behind(data)[1 + i] = data[i]
<1> DEFINE sig == <<"signature">>
           nl == <<"newline">>
           line == data \o nl
<1>0. /\ sig \in Bytes /\ Len(sig) = 1
      /\ nl \in Bytes /\ Len(nl) = 1
  BY OneSymbol
<1> HIDE DEF sig, nl
<1>1. /\ line \in Bytes /\ Len(line) = Len(data) + 1
      /\ \A i \in 1..Len(data) : line[i] = data[i]
      /\ Len(data) \in Nat
  <2>1. line \in Bytes /\ IsJoined(line, data, nl)
    BY <1>0, Joined, Zenon DEF Bytes
  <2> HIDE DEF line
  <2> QED BY <1>0, <2>1 DEF IsJoined, Bytes
<1> HIDE DEF line
<1> DEFINE behind == sig \o line
<1>2. /\ behind \in Bytes /\ Len(behind) = 1 + Len(line)
      /\ \A i \in 1..Len(line) : behind[1 + i] = line[i]
  <2> HIDE DEF behind
  <2>1. /\ behind \in Bytes /\ Len(behind) = Len(sig) + Len(line)
        /\ \A i \in 1..Len(line) : behind[Len(sig) + i] = line[i]
    <3>1. behind \in Bytes /\ IsJoined(behind, sig, line)
      BY <1>0, <1>1, Joined, Zenon DEF Bytes, behind
    <3> QED BY <3>1 DEF IsJoined
  <2> QED BY <1>0, <2>1
<1> HIDE DEF behind
<1>3. \A i \in 1..Len(data) : i \in 1..Len(line)
  BY <1>1
<1>4. \A i \in 1..Len(data) : behind[1 + i] = data[i]
  BY <1>1, <1>2, <1>3
<1>5. Behind(data) = behind
  BY DEF Behind, behind, line, sig, nl
<1> QED BY <1>1, <1>2, <1>4, <1>5

\* A chunk is its size, the ";" and what is behind it.
LEMMA ChunkIs ==
  ASSUME NEW data \in Bytes
  PROVE  /\ Chunk(data) = Numeral(Len(data)) \o (<<SizeEnd>> \o Behind(data))
         /\ Chunk(data) \in Bytes
         /\ Len(Chunk(data)) = Len(Numeral(Len(data))) + Len(data) + 3
<1> DEFINE numeral == Numeral(Len(data))
<1>1. Len(data) \in Nat
  BY DEF Bytes
<1>2. numeral \in Bytes
  BY <1>1, NumeralBytes
<1> HIDE DEF numeral
<1>3. Chunk(data) = ((numeral \o <<SizeEnd, "signature">>) \o data) \o <<"newline">>
  BY DEF Chunk, numeral, SizeEnd
<1>4. <<SizeEnd, "signature">> = <<SizeEnd>> \o <<"signature">>
  <2>1. SizeEnd \in Symbols /\ "signature" \in Symbols
    BY DEF Symbols, SizeEnd
  <2> QED BY <2>1, PairIs
<1> DEFINE semi == <<SizeEnd>>
           sig == <<"signature">>
           nl == <<"newline">>
<1>6. semi \in Bytes /\ sig \in Bytes /\ nl \in Bytes
  BY OneSymbol
<1> HIDE DEF semi, sig, nl
<1>7. Chunk(data) = ((numeral \o (semi \o sig)) \o data) \o nl
  BY <1>3, <1>4 DEF semi, sig, nl
<1>8. ((numeral \o (semi \o sig)) \o data) \o nl
        = numeral \o (semi \o (sig \o (data \o nl)))
  <2> DEFINE head == semi \o sig
             line == data \o nl
             front == numeral \o head
  <2>1. head \in Bytes /\ line \in Bytes
    BY <1>6, BytesConcat
  <2> HIDE DEF head, line
  <2>2. front \in Bytes
    BY <1>2, <2>1, BytesConcat
  <2> HIDE DEF front
  <2>3. Associates(front, data, nl)
    BY <1>6, <2>2, BytesAssociate
  <2>4. Associates(numeral, head, line) /\ Associates(semi, sig, line)
    BY <1>2, <1>6, <2>1, BytesAssociate
  <2> QED BY ONLY <2>3, <2>4 DEF Associates, front, head, line
<1>9. Chunk(data) = numeral \o (semi \o Behind(data))
  BY <1>7, <1>8 DEF Behind, sig, nl
<1>10. /\ Behind(data) \in Bytes /\ Len(Behind(data)) = Len(data) + 2
       /\ Len(semi) = 1
  BY BehindIs, OneSymbol DEF semi
<1>11. \A s, t \in Bytes : s \o t \in Bytes /\ Len(s \o t) = Len(s) + Len(t)
  BY Joined DEF Bytes, IsJoined
<1>14. /\ semi \o Behind(data) \in Bytes
       /\ Len(semi \o Behind(data)) = Len(semi) + Len(Behind(data))
  BY <1>6, <1>10, <1>11, Zenon
<1>15. /\ numeral \o (semi \o Behind(data)) \in Bytes
       /\ Len(numeral \o (semi \o Behind(data))) = Len(numeral) + Len(semi \o Behind(data))
  BY <1>2, <1>11, <1>14, Zenon
<1>16. Len(numeral) \in Nat
  BY <1>2 DEF Bytes
<1>12. /\ numeral \o (semi \o Behind(data)) \in Bytes
       /\ Len(numeral \o (semi \o Behind(data))) = Len(numeral) + (Len(data) + 3)
       /\ Len(numeral) \in Nat
  BY ONLY <1>1, <1>10, <1>14, <1>15, <1>16
<1>13. /\ Chunk(data) \in Bytes
       /\ Len(Chunk(data)) = Len(numeral) + Len(data) + 3
  BY <1>1, <1>9, <1>12
<1> QED BY <1>9, <1>13 DEF numeral, semi

\* Where the data of a chunk is: that is where the reader takes it.
LEMMA ChunkAt ==
  ASSUME NEW data \in Bytes
  PROVE  /\ Len(data) \in Nat
         /\ \A i \in 1..Len(data) :
              Chunk(data)[(Len(Numeral(Len(data))) + 2) + i] = data[i]
<1> DEFINE numeral == Numeral(Len(data))
           behind == Behind(data)
           semi == <<SizeEnd>>
           line == semi \o behind
           chunk == numeral \o line
           n == Len(numeral)
<1>1. Len(data) \in Nat
  BY DEF Bytes
<1>2. Chunk(data) = chunk
  BY ChunkIs
<1>3. numeral \in Bytes /\ n \in Nat
  BY <1>1, NumeralBytes
<1>4. /\ behind \in Bytes /\ Len(behind) = Len(data) + 2
      /\ \A i \in 1..Len(data) : behind[1 + i] = data[i]
  BY BehindIs
<1>5. semi \in Bytes /\ Len(semi) = 1
  BY OneSymbol
<1> HIDE DEF behind, semi, numeral
<1>6. line \in Bytes /\ IsJoined(line, semi, behind)
  BY <1>4, <1>5, Joined, Zenon DEF Bytes
<1> HIDE DEF line
<1>7. IsJoined(chunk, numeral, line)
  BY <1>3, <1>6, Joined, Zenon DEF Bytes
<1> HIDE DEF chunk, n
<1>8. /\ Len(line) = Len(data) + 3
      /\ \A i \in 1..(Len(data) + 2) : line[1 + i] = behind[i]
  BY <1>1, <1>4, <1>5, <1>6 DEF IsJoined
<1>9. \A i \in 1..(Len(data) + 3) : chunk[n + i] = line[i]
  BY <1>7, <1>8 DEF IsJoined, n
<1>10. \A i \in 1..Len(data) : chunk[(n + 2) + i] = data[i]
  <2> TAKE i \in 1..Len(data)
  <2>1. 1 + i \in 1..(Len(data) + 2) /\ 1 + (1 + i) \in 1..(Len(data) + 3)
    BY <1>1
  <2>2. (n + 2) + i = n + (1 + (1 + i))
    BY <1>1, <1>3
  <2>3. /\ chunk[n + (1 + (1 + i))] = line[1 + (1 + i)]
        /\ line[1 + (1 + i)] = behind[1 + i]
        /\ behind[1 + i] = data[i]
    BY <1>4, <1>8, <1>9, <2>1
  <2> QED BY <2>2, <2>3
<1> QED BY <1>1, <1>2, <1>10 DEF n, numeral

\* Chunks are bytes.
LEMMA ChunkBytes ==
  <<>> \in Bytes /\ \A data \in Bytes : Chunk(data) \in Bytes
<1>1. <<>> \in Bytes
  BY DEF Bytes
<1>2. \A data \in Bytes : Chunk(data) \in Bytes
  BY ChunkIs
<1> QED BY <1>1, <1>2

Each(pieces) == [k \in DOMAIN pieces |-> Chunk(pieces[k])]

\* The body of the first chunk and the others.
LEMMA ChunkedFirst ==
  ASSUME NEW p \in Bytes, NEW rest \in Seq(Bytes)
  PROVE  /\ Chunked(<<p>> \o rest) = Chunk(p) \o Chunked(rest)
         /\ Chunked(rest) \in Bytes
<1> DEFINE all == <<p>> \o rest
           each == <<Chunk(p)>> \o Each(rest)
           n == Len(rest)
<1>1. /\ \A data \in Bytes : Chunk(data) \in Bytes
      /\ <<>> \in Bytes
  BY ChunkBytes
<1>2. /\ n \in Nat /\ Len(all) = n + 1 /\ DOMAIN all = 1..(n + 1) /\ DOMAIN rest = 1..n
      /\ all[1] = p /\ \A k \in 1..n : all[k + 1] = rest[k] /\ rest[k] \in Bytes
  OBVIOUS
<1>3. Each(rest) \in Seq(Bytes) /\ Len(Each(rest)) = n
      /\ \A k \in 1..n : Each(rest)[k] = Chunk(rest[k])
  BY <1>1, <1>2 DEF Each
<1>4. Each(all) \in Seq(Bytes) /\ Len(Each(all)) = n + 1
      /\ \A k \in 1..(n + 1) : Each(all)[k] = Chunk(all[k])
  <2> HIDE DEF all, n
  <2>1. \A k \in 1..(n + 1) : all[k] \in Bytes
    <3> TAKE k \in 1..(n + 1)
    <3>1. CASE k = 1
      BY <1>2, <3>1
    <3>2. CASE k # 1
      <4>1. PICK j \in 1..n : k = j + 1
        BY <1>2, <3>2
      <4> QED BY <1>2, <4>1
    <3> QED BY <3>1, <3>2
  <2> QED BY <1>1, <1>2, <2>1 DEF Each
<1>5. /\ each \in Seq(Bytes) /\ Len(each) = n + 1
      /\ each[1] = Chunk(p) /\ \A k \in 1..n : each[k + 1] = Each(rest)[k]
  <2>1. Chunk(p) \in Bytes
    BY <1>1
  <2> QED BY <1>2, <1>3, <2>1
<1>6. Each(all) = each
  <2> HIDE DEF each, all, n
  <2>1. ASSUME NEW k \in 1..(n + 1) PROVE Each(all)[k] = each[k]
    <3>1. CASE k = 1
      BY <1>2, <1>4, <1>5, <3>1
    <3>2. CASE k # 1
      <4>1. PICK j \in 1..n : k = j + 1
        BY <1>2, <3>2
      <4> QED BY <1>2, <1>3, <1>4, <1>5, <4>1
    <3> QED BY <3>1, <3>2
  <2> QED BY <1>4, <1>5, <2>1, SeqEqual
<1>7. FlattenSeq(each) = Chunk(p) \o FlattenSeq(Each(rest)) /\ FlattenSeq(Each(rest)) \in Bytes
  BY <1>1, <1>3, FlattenFirst DEF Bytes
<1>8. Chunked(all) = FlattenSeq(Each(all)) \o Chunk(<<>>)
      /\ Chunked(rest) = FlattenSeq(Each(rest)) \o Chunk(<<>>)
  BY DEF Chunked, Each
<1> DEFINE c == Chunk(p)
           f == FlattenSeq(Each(rest))
           last == Chunk(<<>>)
<1>9. c \in Bytes /\ f \in Bytes /\ last \in Bytes
  BY <1>1, <1>7
<1>10. Chunked(all) = (c \o f) \o last /\ Chunked(rest) = f \o last
  BY <1>6, <1>7, <1>8
<1> HIDE DEF all, each, c, f, last
<1>11. (c \o f) \o last = c \o (f \o last)
  <2>1. Associates(c, f, last)
    BY <1>9, BytesAssociate
  <2> QED BY ONLY <2>1 DEF Associates
<1>12. f \o last \in Bytes
  BY <1>9, BytesConcat
<1> QED BY <1>10, <1>11, <1>12 DEF all, c

\* The body without data is the last chunk.
LEMMA ChunkedEmpty == Chunked(<<>>) = Chunk(<<>>)
<1>1. Each(<<>>) = <<>>
  BY DEF Each
<1>2. Chunked(<<>>) = FlattenSeq(Each(<<>>)) \o Chunk(<<>>)
  BY DEF Chunked, Each
<1>3. <<>> \in Bytes /\ Chunk(<<>>) \in Bytes
  BY ChunkBytes
<1> QED BY <1>1, <1>2, <1>3, FlattenEmpty, ConcatEmptySeq DEF Bytes

LEMMA BytesAre ==
  \A s \in Bytes : Len(s) \in Nat /\ DOMAIN s = 1..Len(s)
BY DEF Bytes

\* Facts of SequenceProofs, for sequences of the symbols of a body.
LEMMA BytesPrefix ==
  \A s, t \in Bytes :
    IsPrefix(s, t) <=> Len(s) <= Len(t) /\ \A i \in 1..Len(s) : s[i] = t[i]
BY PrefixIs DEF Bytes

LEMMA BytesPart ==
  \A s \in Bytes : \A m, n \in Nat :
    m <= n /\ n <= Len(s) =>
      /\ SubSeq(s, m + 1, n) \in Bytes /\ Len(SubSeq(s, m + 1, n)) = n - m
      /\ \A i \in 1..(n - m) : SubSeq(s, m + 1, n)[i] = s[m + i]
BY DEF Bytes

LEMMA BytesStart ==
  \A s \in Bytes : \A n \in Nat :
    n <= Len(s) =>
      /\ SubSeq(s, 1, n) \in Bytes /\ Len(SubSeq(s, 1, n)) = n
      /\ \A i \in 1..n : SubSeq(s, 1, n)[i] = s[i]
BY DEF Bytes

\* A beginning of "size;...".
BeginsSized(s, n, after) == IsPrefix(s, Numeral(n) \o (<<SizeEnd>> \o after))

\* What begins as "size;..." has the numeral at its start, then the ";".
LEMMA SizedIs ==
  ASSUME NEW n \in Nat, NEW after \in Bytes, NEW s \in Bytes, BeginsSized(s, n, after)
  PROVE  /\ \A i \in 1..Len(s) : i <= Len(Numeral(n)) => s[i] = Numeral(n)[i]
         /\ Len(Numeral(n)) + 1 <= Len(s) => s[Len(Numeral(n)) + 1] = SizeEnd
<1> DEFINE numeral == Numeral(n)
           l == Len(numeral)
           semi == <<SizeEnd>>
           line == semi \o after
           t == numeral \o line
<1>1. numeral \in Bytes /\ l \in Nat
  BY NumeralBytes
<1>2. semi \in Bytes /\ Len(semi) = 1 /\ semi[1] = SizeEnd
  BY OneSymbol
<1> HIDE DEF numeral, semi
<1>3. line \in Bytes /\ IsJoined(line, semi, after)
  BY <1>2, Joined, Zenon DEF Bytes
<1> HIDE DEF line
<1>4. t \in Bytes /\ IsJoined(t, numeral, line)
  BY <1>1, <1>3, Joined, Zenon DEF Bytes
<1>5. IsPrefix(s, t)
  BY DEF BeginsSized, numeral, semi, line
<1> HIDE DEF t, l
<1>6. line[1] = SizeEnd /\ 1 \in 1..Len(line)
  BY <1>2, <1>3, BytesAre DEF IsJoined
<1>7. \A i \in 1..l : t[i] = numeral[i]
  BY <1>4 DEF IsJoined, l
<1>8. t[l + 1] = SizeEnd
  BY <1>4, <1>6 DEF IsJoined, l
<1>9. Len(s) \in Nat /\ \A i \in 1..Len(s) : s[i] = t[i]
  BY <1>4, <1>5, BytesAre, BytesPrefix
<1>10. \A i \in 1..Len(s) : i <= l => s[i] = numeral[i]
  BY <1>1, <1>7, <1>9
<1>11. l + 1 <= Len(s) => s[l + 1] = SizeEnd
  BY <1>1, <1>8, <1>9
<1> QED BY <1>10, <1>11 DEF l, numeral

\* The first ";" of the buffer, if it has one.
LEMMA SizesAre ==
  ASSUME buffer \in Bytes
  PROVE  \A i : i \in Sizes <=>
           /\ i \in 1..Len(buffer) /\ buffer[i] = SizeEnd
           /\ \A j \in 1..(i - 1) : buffer[j] # SizeEnd
<1>1. DOMAIN buffer = 1..Len(buffer)
  BY BytesAre
<1> QED BY <1>1 DEF Sizes, SizeEnd

\* What the reader takes from a buffer that begins as a chunk does: the
\* numeral, if its end has arrived.
LEMMA SizeIsRead ==
  ASSUME buffer \in Bytes, NEW n \in Nat, NEW after \in Bytes,
         BeginsSized(buffer, n, after), Sizes # {}
  PROVE  /\ SizeDigits = Numeral(n) /\ Number(SizeDigits) = n
         /\ Len(SizeRead) = Len(Numeral(n)) + 1
         /\ Len(SizeRead) <= Len(buffer)
<1> DEFINE numeral == Numeral(n)
           l == Len(numeral)
           b == Len(buffer)
<1>1. /\ numeral \in Bytes /\ l \in Nat /\ \A i \in 1..l : numeral[i] # SizeEnd
      /\ Number(numeral) = n /\ b \in Nat
  BY NumeralBytes, NumeralIs, BytesAre
<1>2. /\ \A i \in 1..b : i <= l => buffer[i] = numeral[i]
      /\ l + 1 <= b => buffer[l + 1] = SizeEnd
  BY SizedIs
<1> HIDE DEF numeral, l, b
<1>7. ASSUME NEW i \in Sizes
      PROVE  i = l + 1 /\ l + 1 <= b
  <2>1. i \in 1..b /\ buffer[i] = SizeEnd /\ \A j \in 1..(i - 1) : buffer[j] # SizeEnd
    BY SizesAre DEF b
  <2>2. ~(i \in 1..l)
    BY <1>1, <1>2, <2>1
  <2>3. ~(l + 1 < i)
    <3> SUFFICES ASSUME l + 1 < i PROVE FALSE
      OBVIOUS
    <3>1. l + 1 \in 1..(i - 1) /\ l + 1 <= b
      BY <1>1, <2>1
    <3> QED BY <1>2, <2>1, <3>1
  <2> QED BY <1>1, <2>1, <2>2, <2>3
<1>8. (CHOOSE i \in Sizes : TRUE) = l + 1 /\ l + 1 <= b
  BY <1>7
<1> DEFINE read == SubSeq(buffer, 1, l + 1)
<1>9. SizeRead = read
  BY <1>8 DEF SizeRead
<1>10. read \in Bytes /\ Len(read) = l + 1 /\ \A i \in 1..(l + 1) : read[i] = buffer[i]
  <2>1. l + 1 \in Nat /\ l + 1 <= Len(buffer)
    BY <1>1, <1>8 DEF b
  <2> QED BY <2>1, BytesStart
<1> HIDE DEF read
<1> DEFINE u == SubSeq(read, 1, l)
<1>11. SizeDigits = u
  BY <1>1, <1>9, <1>10 DEF SizeDigits
<1>12. u \in Bytes /\ Len(u) = l /\ \A i \in 1..l : u[i] = read[i]
  <2>1. l <= Len(read)
    BY <1>1, <1>10
  <2> QED BY <1>1, <1>10, <2>1, BytesStart
<1> HIDE DEF u
<1>13. \A i \in 1..l : u[i] = numeral[i]
  <2> TAKE i \in 1..l
  <2>1. i \in 1..(l + 1) /\ i \in 1..b /\ i <= l
    BY <1>1, <1>8
  <2> QED BY <1>2, <1>10, <1>12, <2>1
<1>14. u = numeral
  BY <1>1, <1>12, <1>13, SeqEqual DEF Bytes, l
<1>15. Len(SizeRead) = l + 1
  BY <1>9, <1>10
<1> QED BY <1>1, <1>8, <1>11, <1>14, <1>15 DEF l, numeral, b

\* Every numeral has a value.
LEMMA NumberIsNat ==
  ASSUME NEW digits \in Numerals
  PROVE  Number(digits) \in Nat
<1>1. Digits[1] \in ToSet(Digits)
  <2>1. 0 \in 0..(Base - 1) /\ 0 + 1 = 1
    <3>1. Base \in Nat /\ Base >= 2
      BY DigitsFacts
    <3> QED BY <3>1
  <2> QED BY <2>1, DigitsFacts
<1> QED BY <1>1, NumberAppend

\* A body that ends in a numeral: its last digit is dropped, which makes no
\* zero of it.
LEMMA SizeBrokenOff ==
  ASSUME buffer \in Bytes, NEW n \in Nat, NEW after \in Bytes,
         BeginsSized(buffer, n, after), Sizes = {}
  PROVE  /\ Len(Rest) = 0
         /\ SizeDigits # <<>> => Number(SizeDigits) \in Nat /\ Number(SizeDigits) >= 1
<1> DEFINE numeral == Numeral(n)
           l == Len(numeral)
           b == Len(buffer)
<1>1. l \in Nat /\ l >= 1 /\ b \in Nat
      /\ \A i \in 1..l : numeral[i] # SizeEnd
  BY NumeralBytes, BytesAre
<1>2. /\ numeral \in Seq(ToSet(Digits))
      /\ l > 1 => numeral[1] # Digits[1]
  BY NumeralIs DEF Numerals
<1>3. /\ \A i \in 1..b : i <= l => buffer[i] = numeral[i]
      /\ l + 1 <= b => buffer[l + 1] = SizeEnd
  BY SizedIs
<1> HIDE DEF numeral, l, b
<1>7. b <= l
  <2> SUFFICES ASSUME l + 1 <= b PROVE FALSE
    BY <1>1
  <2>1. buffer[l + 1] = SizeEnd
    BY <1>3
  <2>2. ASSUME NEW j \in 1..((l + 1) - 1) PROVE buffer[j] # SizeEnd
    <3>1. j \in 1..l /\ j \in 1..b /\ j <= l
      BY <1>1
    <3> QED BY <1>1, <1>3, <3>1
  <2>3. l + 1 \in 1..Len(buffer)
    BY <1>1 DEF b
  <2> QED BY <2>1, <2>2, <2>3, SizesAre
<1>8. SizeRead = buffer
  BY DEF SizeRead
<1>9. Len(Rest) = 0
  <2>1. Rest = SubSeq(buffer, b + 1, b)
    BY <1>8 DEF Rest, b
  <2>2. b <= b /\ b - b = 0
    BY <1>1
  <2> QED BY <1>1, <2>1, <2>2, BytesPart DEF b
<1>10. ASSUME SizeDigits # <<>>
       PROVE  Number(SizeDigits) \in Nat /\ Number(SizeDigits) >= 1
  <2> DEFINE read == SubSeq(buffer, 1, b - 1)
  <2>1. SizeDigits = read
    BY <1>8 DEF SizeDigits, b
  <2>2. b >= 1
    <3> SUFFICES ASSUME b = 0 PROVE FALSE
      BY <1>1
    <3>1. read = <<>>
      BY DEF b
    <3> QED BY <1>10, <2>1, <3>1
  <2>3. read \in Bytes /\ Len(read) = b - 1 /\ \A i \in 1..(b - 1) : read[i] = buffer[i]
    <3>1. b - 1 \in Nat /\ b - 1 <= Len(buffer)
      BY <1>1, <2>2 DEF b
    <3> QED BY <3>1, BytesStart
  <2> HIDE DEF read
  <2>4. \A i \in 1..(b - 1) : read[i] = numeral[i] /\ i \in 1..l
    <3> TAKE i \in 1..(b - 1)
    <3>1. i \in 1..l /\ i \in 1..b /\ i <= l
      BY <1>1, <1>7
    <3> QED BY <1>3, <2>3, <3>1
  <2>5. \A i \in 1..l : numeral[i] \in ToSet(Digits)
    BY <1>2 DEF l
  <2>6. read \in Numerals
    <3>1. \A i \in 1..Len(read) : read[i] \in ToSet(Digits)
      BY <2>3, <2>4, <2>5
    <3>2. read \in Seq(Symbols)
      BY <2>3 DEF Bytes
    <3>3. read \in [1..Len(read) -> ToSet(Digits)] /\ Len(read) \in Nat
      BY <3>1, <3>2
    <3> QED BY <3>3 DEF Numerals
  <2>7. b >= 2
    <3> SUFFICES ASSUME b = 1 PROVE FALSE
      BY <1>1, <2>2
    <3>1. Len(read) = 0
      BY <2>3
    <3>2. read = <<>>
      BY <2>6, <3>1 DEF Numerals
    <3> QED BY <1>10, <2>1, <3>2
  <2>8. 1 \in 1..(b - 1) /\ l > 1
    BY <1>1, <1>7, <2>7
  <2>9. read[1] = numeral[1]
    BY <2>4, <2>8
  <2>10. Number(read) >= 1
    BY <1>2, <1>10, <2>1, <2>6, <2>8, <2>9, NoLeadingZero
  <2>11. Number(read) \in Nat
    BY <2>6, NumberIsNat
  <2> QED BY <2>1, <2>10, <2>11
<1> QED BY <1>9, <1>10

\* The pieces that are to come are none, or one and the others.
LEMMA FirstPiece ==
  ASSUME NEW pieces \in Pieces, pieces # <<>>
  PROVE  \E p \in Bytes \ {<<>>}, rest \in Pieces : pieces = <<p>> \o rest
<1> DEFINE P == Bytes \ {<<>>}
<1>1. pieces \in Seq(P)
  BY DEF Pieces
<1> HIDE DEF P
<1>2. Head(pieces) \in P /\ Tail(pieces) \in Seq(P) /\ pieces = <<Head(pieces)>> \o Tail(pieces)
  BY <1>1
<1> QED BY <1>2 DEF Pieces, P

LEMMA PiecesAreBytes == Pieces \subseteq Seq(Bytes)
<1> DEFINE P == Bytes \ {<<>>}
<1>1. P \subseteq Bytes
  OBVIOUS
<1> HIDE DEF P
<1>2. \A pieces \in Seq(P) : pieces \in Seq(Bytes)
  BY <1>1, SeqMonotonic
<1> QED BY <1>2 DEF Pieces, P

\* What has arrived of a chunked body.
Arrives(pieces) == IsPrefix(buffer \o sent, Chunked(pieces))

\* When no piece is to come the buffer begins as the last chunk does.
LEMMA EmptyBegins ==
  ASSUME buffer \in Bytes, sent \in Bytes, Arrives(<<>>)
  PROVE  BeginsSized(buffer, 0, Behind(<<>>)) /\ Behind(<<>>) \in Bytes
<1>1. /\ <<>> \in Bytes /\ Len(<<>>) = 0 /\ Chunk(<<>>) \in Bytes
  BY ChunkBytes
<1>2. IsPrefix(buffer, Chunked(<<>>))
  BY <1>1, ChunkedEmpty, PrefixOfLeft DEF Arrives, Bytes
<1>3. Chunk(<<>>) = Numeral(Len(<<>>)) \o (<<SizeEnd>> \o Behind(<<>>))
  BY <1>1, ChunkIs
<1>4. Behind(<<>>) \in Bytes
  BY <1>1, BehindIs
<1> QED BY <1>1, <1>2, <1>3, <1>4, ChunkedEmpty DEF BeginsSized

Regroup(s, t, u, v) ==
  (s \o (t \o u)) \o v = s \o (t \o (u \o v)) /\ u \o v \in Bytes

\* A body of four parts, each put behind the last or before the next.
LEMMA RegroupedTwice ==
  ASSUME NEW s \in Bytes, NEW t \in Bytes, NEW u \in Bytes, NEW v \in Bytes
  PROVE  Regroup(s, t, u, v)
<1> DEFINE tu == t \o u
           uv == u \o v
<1>1. tu \in Bytes /\ uv \in Bytes
  BY BytesConcat
<1> HIDE DEF tu, uv
<1>2. Associates(s, tu, v) /\ Associates(t, u, v)
  BY <1>1, BytesAssociate
<1> QED BY ONLY <1>1, <1>2 DEF Associates, Regroup, tu, uv

\* When a piece is to come the buffer begins with its size.
LEMMA PieceBegins ==
  ASSUME buffer \in Bytes, sent \in Bytes, NEW p \in Bytes, NEW rest \in Pieces,
         Arrives(<<p>> \o rest)
  PROVE  \E after \in Bytes : BeginsSized(buffer, Len(p), after)
<1> DEFINE numeral == Numeral(Len(p))
           semi == <<SizeEnd>>
           behind == Behind(p)
           more == Chunked(rest)
           chunk == Chunk(p)
<1>1. numeral \in Bytes /\ semi \in Bytes /\ behind \in Bytes
  <2>1. Len(p) \in Nat
    BY BytesAre
  <2> QED BY <2>1, NumeralBytes, OneSymbol, BehindIs
<1>2. Chunked(<<p>> \o rest) = chunk \o more /\ more \in Bytes
  BY PiecesAreBytes, ChunkedFirst
<1>3. chunk = numeral \o (semi \o behind) /\ chunk \in Bytes
  BY ChunkIs
<1>4. IsPrefix(buffer, chunk \o more)
  <2>1. chunk \o more \in Bytes
    BY <1>2, <1>3, Joined, Zenon DEF Bytes
  <2> HIDE DEF chunk, more
  <2>2. IsPrefix(buffer \o sent, chunk \o more)
    BY <1>2 DEF Arrives
  <2>3. buffer \in Seq(Symbols) /\ sent \in Seq(Symbols) /\ chunk \o more \in Seq(Symbols)
    BY <2>1 DEF Bytes
  <2> QED BY ONLY <2>2, <2>3, PrefixOfLeft
<1> HIDE DEF numeral, semi, behind, more, chunk
<1>5. chunk \o more = numeral \o (semi \o (behind \o more)) /\ behind \o more \in Bytes
  <2>1. Regroup(numeral, semi, behind, more)
    BY <1>1, <1>2, RegroupedTwice
  <2> QED BY ONLY <1>3, <2>1 DEF Regroup
<1>6. BeginsSized(buffer, Len(p), behind \o more)
  BY <1>4, <1>5 DEF BeginsSized, numeral, semi
<1> QED BY <1>5, <1>6

\* Only the last chunk has the size zero.
LEMMA ZeroIsLast ==
  ASSUME buffer \in Bytes, sent \in Bytes, NEW pieces \in Pieces, Arrives(pieces),
         Parses, Number(SizeDigits) = 0
  PROVE  pieces = <<>>
<1> SUFFICES ASSUME pieces # <<>> PROVE FALSE
  OBVIOUS
<1>1. PICK p \in Bytes \ {<<>>}, rest \in Pieces : pieces = <<p>> \o rest
  BY FirstPiece
<1>2. Len(p) \in Nat /\ Len(p) # 0
  BY EmptySeq DEF Bytes
<1>3. PICK after \in Bytes : BeginsSized(buffer, Len(p), after)
  BY <1>1, PieceBegins
<1>4. CASE Sizes # {}
  BY <1>2, <1>3, <1>4, SizeIsRead
<1>5. CASE Sizes = {}
  BY <1>2, <1>3, <1>5, SizeBrokenOff DEF Parses
<1> QED BY <1>4, <1>5

\* What is read as a chunk is the next piece.
LEMMA PieceIsRead ==
  ASSUME buffer \in Bytes, sent \in Bytes, NEW pieces \in Pieces, Arrives(pieces),
         Parses, Number(SizeDigits) > 0, Len(Rest) >= ChunkNeeds
  PROVE  \E p \in Bytes \ {<<>>}, rest \in Pieces :
           /\ pieces = <<p>> \o rest
           /\ ChunkRead = p
           /\ SubSeq(Rest, ChunkNeeds + 1, Len(Rest)) \in Bytes
           /\ IsPrefix(SubSeq(Rest, ChunkNeeds + 1, Len(Rest)) \o sent, Chunked(rest))
<1>1. ASSUME NEW n \in Nat, NEW after \in Bytes, BeginsSized(buffer, n, after)
      PROVE  /\ Number(SizeDigits) = n /\ n > 0
             /\ Len(SizeRead) = Len(Numeral(n)) + 1 /\ Len(SizeRead) <= Len(buffer)
  <2>1. CASE Sizes = {}
    <3>1. Len(Rest) = 0 /\ Number(SizeDigits) \in Nat
      BY <1>1, <2>1, SizeBrokenOff DEF Parses
    <3> QED BY <3>1 DEF ChunkNeeds
  <2>2. CASE Sizes # {}
    BY <1>1, <2>2, SizeIsRead
  <2> QED BY <2>1, <2>2
<1>2. pieces # <<>>
  <2> SUFFICES ASSUME pieces = <<>> PROVE FALSE
    OBVIOUS
  <2> QED BY <1>1, EmptyBegins
<1>3. PICK p \in Bytes \ {<<>>}, rest \in Pieces : pieces = <<p>> \o rest
  BY <1>2, FirstPiece
<1> DEFINE n == Len(p)
           l == Len(Numeral(n))
           b == Len(buffer)
           chunk == Chunk(p)
           more == Chunked(rest)
<1>4. n \in Nat /\ b \in Nat
  BY BytesAre
<1>5. PICK after \in Bytes : BeginsSized(buffer, n, after)
  BY <1>3, PieceBegins
<1>6. Number(SizeDigits) = n /\ n > 0 /\ Len(SizeRead) = l + 1 /\ l + 1 <= b /\ l \in Nat
  BY <1>1, <1>4, <1>5, NumeralBytes
<1> DEFINE read == SubSeq(buffer, (l + 1) + 1, b)
<1>7. Rest = read /\ ChunkNeeds = n + 2
  BY <1>6 DEF Rest, ChunkNeeds
<1>8. /\ read \in Bytes /\ Len(read) = b - (l + 1)
      /\ \A i \in 1..(b - (l + 1)) : read[i] = buffer[(l + 1) + i]
  <2>1. l + 1 \in Nat /\ b <= Len(buffer)
    BY <1>4, <1>6
  <2> QED BY <1>4, <1>6, <2>1, BytesPart
<1> HIDE DEF read
<1>9. l + n + 3 <= b
  BY <1>4, <1>6, <1>7, <1>8
<1>10. /\ chunk \in Bytes /\ Len(chunk) = l + n + 3
       /\ \A i \in 1..n : chunk[(l + 2) + i] = p[i]
  BY ChunkIs, ChunkAt
<1>11. more \in Bytes /\ IsPrefix(buffer \o sent, chunk \o more)
  BY <1>3, PiecesAreBytes, ChunkedFirst DEF Arrives
<1> HIDE DEF n, l, b, chunk, more
<1> DEFINE left == SubSeq(buffer, Len(chunk) + 1, Len(buffer))
<1>12. /\ left \in Bytes /\ IsPrefix(left \o sent, more)
       /\ \A i \in 1..(l + n + 3) : buffer[i] = chunk[i]
  <2>1. /\ buffer \in Seq(Symbols) /\ sent \in Seq(Symbols)
        /\ chunk \in Seq(Symbols) /\ more \in Seq(Symbols)
    BY <1>10, <1>11 DEF Bytes
  <2>2. Len(chunk) <= Len(buffer)
    BY <1>9, <1>10 DEF b
  <2>3. /\ left \in Seq(Symbols) /\ IsPrefix(left \o sent, more)
        /\ \A i \in 1..Len(chunk) : buffer[i] = chunk[i]
    BY <1>11, <2>1, <2>2, PrefixRest
  <2> HIDE DEF left
  <2> QED BY <1>10, <2>3 DEF Bytes
<1>13. ChunkRead = p
  <2> DEFINE u == SubSeq(read, 1 + 1, n + 1)
  <2>1. u \in Bytes /\ Len(u) = n /\ \A i \in 1..n : u[i] = read[1 + i]
    <3>1. /\ (n + 1) - 1 = n /\ 1 \in Nat /\ n + 1 \in Nat /\ 1 <= n + 1
          /\ n + 1 <= Len(read)
      BY <1>4, <1>6, <1>8, <1>9
    <3>2. PICK k \in Nat : k = 1
      OBVIOUS
    <3>3. /\ SubSeq(read, k + 1, n + 1) \in Bytes /\ Len(SubSeq(read, k + 1, n + 1)) = (n + 1) - k
          /\ \A i \in 1..((n + 1) - k) : SubSeq(read, k + 1, n + 1)[i] = read[k + i]
      <4>1. k \in Nat /\ k <= n + 1
        BY <3>1, <3>2
      <4> QED BY ONLY <1>8, <3>1, <4>1, BytesPart
    <3> QED BY <3>1, <3>2, <3>3
  <2>2. ChunkRead = u
    BY <1>6, <1>7 DEF ChunkRead
  <2> HIDE DEF u
  <2>3. ASSUME NEW i \in 1..n PROVE u[i] = p[i]
    <3>1. /\ 1 + i \in 1..(b - (l + 1)) /\ (l + 2) + i \in 1..(l + n + 3)
          /\ (l + 1) + (1 + i) = (l + 2) + i
      BY <1>4, <1>6, <1>9
    <3> QED BY <1>8, <1>10, <1>12, <2>1, <3>1
  <2>4. u = p
    BY <2>1, <2>3, SeqEqual DEF Bytes, n
  <2> QED BY <2>2, <2>4
<1>14. SubSeq(Rest, ChunkNeeds + 1, Len(Rest)) = left
  <2> DEFINE u == SubSeq(read, (n + 2) + 1, b - (l + 1))
             m == b - (l + n + 3)
  <2>1. u \in Bytes /\ Len(u) = m /\ \A i \in 1..m : u[i] = read[(n + 2) + i]
    <3>1. /\ n + 2 \in Nat /\ b - (l + 1) \in Nat /\ n + 2 <= b - (l + 1)
          /\ b - (l + 1) <= Len(read) /\ (b - (l + 1)) - (n + 2) = m
      BY <1>4, <1>6, <1>8, <1>9
    <3>2. read \in Bytes
      BY <1>8
    <3> QED BY ONLY <3>1, <3>2, BytesPart
  <2>2. SubSeq(Rest, ChunkNeeds + 1, Len(Rest)) = u
    BY <1>7, <1>8
  <2>3. left \in Bytes /\ Len(left) = m /\ \A i \in 1..m : left[i] = buffer[(l + n + 3) + i]
    <3>1. l + n + 3 \in Nat /\ l + n + 3 <= b /\ b <= Len(buffer)
      BY <1>4, <1>6, <1>9 DEF b
    <3> QED BY <1>4, <1>10, <3>1, BytesPart DEF b
  <2> HIDE DEF u, left
  <2>4. ASSUME NEW i \in 1..m PROVE u[i] = left[i]
    <3>1. /\ (n + 2) + i \in 1..(b - (l + 1))
          /\ (l + 1) + ((n + 2) + i) = (l + n + 3) + i
      BY <1>4, <1>6, <1>9
    <3> QED BY <1>8, <2>1, <2>3, <3>1
  <2> HIDE DEF m
  <2>5. u = left
    BY <2>1, <2>3, <2>4, SeqEqual DEF Bytes
  <2> QED BY <2>2, <2>5
<1> QED BY <1>3, <1>12, <1>13, <1>14 DEF more

(***************************************************************************)
(* The body.                                                               *)
(***************************************************************************)
\* What the handler has and the pieces that are still to come make the payload.
CodedInv ==
  \E pieces \in Pieces : payload = body \o FlattenSeq(pieces) /\ Arrives(pieces)

ComingInv ==
  /\ IF BodyHash(signed) = Streaming
     THEN CodedInv
     ELSE body = <<>> /\ payload = buffer \o sent
  /\ ended = "closed" => sent = <<>>

Typed == payload \in Bytes /\ sent \in Bytes /\ buffer \in Bytes /\ body \in Bytes

BodyInv ==
  /\ at = "idle" => buffer = <<>> /\ body = <<>> /\ ended = "no"
  /\ wire = signed =>
       /\ Typed
       /\ at \in {"sent", "reading"} => ComingInv
       /\ BodyIsPayload

\* What clients send is bytes,
LEMMA PayloadBytes ==
  ASSUME NEW data \in Prefixes(Payload)
  PROVE  data \in Bytes
<1>1. Payload \in Bytes
  <2>1. Payload \in Seq(STRING)
    BY GatewayAssumption
  <2>2. Payload \in Seq(ToSet(Payload))
    BY <2>1 DEF ToSet
  <2>3. ToSet(Payload) \subseteq Symbols
    BY DEF Symbols
  <2> QED BY <2>2, <2>3, SeqMonotonic DEF Bytes
<1>2. PICK l \in 0..Len(Payload) : data = SubSeq(Payload, 1, l)
  BY DEF Prefixes
<1> QED BY <1>1, <1>2, BytesAre, BytesStart

\* and every cut of it is pieces, none empty, that make it up again.
LEMMA CutsArePieces ==
  ASSUME NEW data \in Bytes, NEW pieces \in Cuts(data)
  PROVE  pieces \in Pieces /\ FlattenSeq(pieces) = data
<1>1. SubSeqs(data) \subseteq Bytes
  <2> DEFINE Part(i, j) == SubSeq(data, i + 1, j)
  <2>1. \A i, j \in 0..Len(data) : Part(i, j) \in Bytes
    BY DEF Bytes
  <2>2. SubSeqs(data) = {Part(i, j) : i, j \in 0..Len(data)}
    BY DEF SubSeqs
  <2> HIDE DEF Part
  <2> QED BY <2>1, <2>2
<1> DEFINE P == SubSeqs(data) \ {<<>>}
           B == Bytes \ {<<>>}
<1>2. P \subseteq B
  BY <1>1
<1>3. pieces \in SeqOf(P, Len(data)) /\ FlattenSeq(pieces) = data
  BY DEF Cuts
<1> HIDE DEF P, B
<1>4. pieces \in Seq(P)
  BY <1>3, BytesAre DEF SeqOf
<1>5. pieces \in Seq(B)
  BY <1>2, <1>4, SeqMonotonic
<1> QED BY <1>3, <1>5 DEF Pieces, B

\* Every signing keeps the headers, and the body is read as it is announced.
LEMMA AnnouncedAsDrafted ==
  ASSUME NEW method, NEW key, NEW query, NEW hash \in Hashes,
         NEW r \in Signings(Draft(method, key, query, hash))
  PROVE  BodyHash(r) = Streaming <=> hash = Streaming
<1> DEFINE d == Draft(method, key, query, hash)
           h == d.headers
<1>1. "x-amz-content-sha256" \in ToSet(NameOrder)
  BY GatewayAssumption
<1>2. /\ DOMAIN h = ToSet(NameOrder) \ (IF hash = "none" THEN {"x-amz-content-sha256"} ELSE {})
      /\ \A name \in DOMAIN h : h[name] = IF name = "x-amz-content-sha256" THEN hash ELSE "first"
  BY DEF Draft
<1>3. r.headers = h
  <2>1. d.headers = h
    OBVIOUS
  <2>2. CASE r = SignHeader(d, DOMAIN d.headers, "scope")
    BY <2>2 DEF SignHeader, Draft
  <2>3. CASE r = Presign(d, {"host"}, "first", "scope")
    BY <2>3 DEF Presign, Draft
  <2> QED BY <2>2, <2>3 DEF Signings
<1> HIDE DEF d, h
<1>4. CASE hash = "none"
  BY <1>1, <1>2, <1>3, <1>4 DEF BodyHash, Streaming
<1>5. CASE hash # "none"
  BY <1>1, <1>2, <1>3, <1>5 DEF BodyHash
<1> QED BY <1>4, <1>5

\* Every piece is to come when the request is sent.
LEMMA SendKeepsBody ==
  ASSUME BodyInv, Send
  PROVE  BodyInv'
<1>1. /\ at = "idle" /\ buffer = <<>> /\ body = <<>> /\ ended = "no"
      /\ buffer' = <<>> /\ body' = <<>> /\ ended' = "no" /\ at' = "sent"
  BY DEF Send, BodyInv
<1>2. PICK method \in Methods, key \in Keys, query \in Queries, hash \in Hashes :
        \E r \in Signings(Draft(method, key, query, hash)), data \in Prefixes(Payload) :
          /\ signed' = r /\ wire' = r /\ payload' = data
          /\ IF hash = Streaming
             THEN \E pieces \in Cuts(data) : sent' \in Prefixes(Chunked(pieces))
             ELSE sent' = data
  BY DEF Send
<1>3. PICK r \in Signings(Draft(method, key, query, hash)), data \in Prefixes(Payload) :
          /\ signed' = r /\ wire' = r /\ payload' = data
          /\ IF hash = Streaming
             THEN \E pieces \in Cuts(data) : sent' \in Prefixes(Chunked(pieces))
             ELSE sent' = data
  BY <1>2
<1>4. data \in Bytes /\ <<>> \in Bytes
  BY PayloadBytes, ChunkBytes
<1>5. BodyHash(signed') = Streaming <=> hash = Streaming
  BY <1>3, AnnouncedAsDrafted
<1>6. \A s \in Bytes : <<>> \o s = s
  BY DEF Bytes
<1>7. CASE hash = Streaming
  <2>1. PICK pieces \in Cuts(data) : sent' \in Prefixes(Chunked(pieces))
    BY <1>3, <1>7
  <2>2. pieces \in Pieces /\ FlattenSeq(pieces) = data
    BY <1>4, CutsArePieces
  <2>3. Chunked(pieces) \in Bytes
    BY <1>4, <2>2, PiecesAreBytes, ChunkedFirst
  <2> DEFINE chunked == Chunked(pieces)
  <2>4. PICK l \in 0..Len(chunked) : sent' = SubSeq(chunked, 1, l)
    BY <2>1 DEF Prefixes
  <2> HIDE DEF chunked
  <2>5. sent' \in Bytes /\ IsPrefix(sent', chunked)
    <3>1. chunked \in Bytes /\ Len(chunked) \in Nat
      BY <2>3, BytesAre DEF chunked
    <3>2. /\ sent' \in Bytes /\ Len(sent') = l /\ l <= Len(chunked)
          /\ \A i \in 1..l : sent'[i] = chunked[i]
      BY <2>4, <3>1, BytesStart
    <3> QED BY <3>1, <3>2, BytesPrefix
  <2>6. buffer' \o sent' = sent' /\ body' \o FlattenSeq(pieces) = payload'
    BY <1>1, <1>3, <1>4, <1>6, <2>2, <2>5
  <2>7. CodedInv'
    BY <2>2, <2>5, <2>6 DEF CodedInv, Arrives, chunked
  <2>8. ComingInv'
    BY <1>1, <1>5, <1>7, <2>7 DEF ComingInv
  <2>9. Typed'
    BY <1>1, <1>3, <1>4, <2>5 DEF Typed
  <2> QED BY <1>1, <2>8, <2>9 DEF BodyInv, BodyIsPayload
<1>8. CASE hash # Streaming
  <2>1. sent' = data /\ buffer' \o sent' = payload'
    BY <1>1, <1>3, <1>4, <1>6, <1>8
  <2>2. ComingInv'
    BY <1>1, <1>5, <1>8, <2>1 DEF ComingInv
  <2>3. Typed'
    BY <1>1, <1>3, <1>4, <2>1 DEF Typed
  <2> QED BY <1>1, <2>2, <2>3 DEF BodyInv, BodyIsPayload
<1> QED BY <1>7, <1>8

\* What arrives goes from what was sent to what is buffered.
LEMMA ArriveKeepsBody ==
  ASSUME BodyInv, Arrive
  PROVE  BodyInv'
<1> SUFFICES ASSUME wire = signed
             PROVE  BodyInv'
  BY DEF BodyInv, Arrive
<1>1. Typed /\ ComingInv /\ at = "reading" /\ at' = "reading"
  BY DEF BodyInv, Arrive
<1>2. /\ UNCHANGED <<guarded, signed, wire, payload, ended, body>>
      /\ ended = "no" /\ sent # <<>>
      /\ buffer' = Append(buffer, Head(sent)) /\ sent' = Tail(sent)
  BY DEF Arrive
<1>3. /\ buffer' \in Bytes /\ sent' \in Bytes
      /\ buffer' \o sent' = buffer \o sent
  <2>1. \A s, t \in Bytes : t # <<>> =>
          /\ Append(s, Head(t)) \in Bytes /\ Tail(t) \in Bytes
          /\ Append(s, Head(t)) \o Tail(t) = s \o t
    BY DEF Bytes
  <2> QED BY <1>1, <1>2, <2>1 DEF Typed
<1>4. Typed'
  BY <1>1, <1>2, <1>3 DEF Typed
<1>5. ComingInv'
  <2>1. CASE BodyHash(signed) = Streaming
    <3>1. CodedInv'
      BY <1>1, <1>2, <1>3, <2>1 DEF ComingInv, CodedInv, Arrives
    <3> QED BY <1>2, <2>1, <3>1 DEF ComingInv
  <2>2. CASE BodyHash(signed) # Streaming
    BY <1>1, <1>2, <1>3, <2>2 DEF ComingInv
  <2> QED BY <2>1, <2>2
<1> QED BY <1>1, <1>4, <1>5 DEF BodyInv, BodyIsPayload

\* The next piece goes from what is to come to the handler.
LEMMA NextChunkKeepsBody ==
  ASSUME BodyInv, NextChunk
  PROVE  BodyInv'
<1> SUFFICES ASSUME wire = signed
             PROVE  BodyInv'
  BY DEF BodyInv, NextChunk
<1>1. Typed /\ ComingInv /\ at = "reading" /\ at' = "reading" /\ BodyHash(signed) = Streaming
  BY DEF BodyInv, NextChunk, Decodes
<1>2. /\ Parses /\ Number(SizeDigits) > 0 /\ Len(Rest) >= ChunkNeeds
      /\ body' = body \o ChunkRead
      /\ buffer' = SubSeq(Rest, ChunkNeeds + 1, Len(Rest))
      /\ UNCHANGED <<guarded, signed, wire, payload, sent, ended>>
  BY DEF NextChunk
<1>3. PICK pieces \in Pieces : payload = body \o FlattenSeq(pieces) /\ Arrives(pieces)
  BY <1>1 DEF ComingInv, CodedInv
<1>4. PICK p \in Bytes \ {<<>>}, rest \in Pieces :
        /\ pieces = <<p>> \o rest /\ ChunkRead = p
        /\ SubSeq(Rest, ChunkNeeds + 1, Len(Rest)) \in Bytes
        /\ IsPrefix(SubSeq(Rest, ChunkNeeds + 1, Len(Rest)) \o sent, Chunked(rest))
  BY <1>1, <1>2, <1>3, PieceIsRead DEF Typed
<1>5. buffer' \in Bytes /\ IsPrefix(buffer' \o sent', Chunked(rest))
  BY <1>2, <1>4
<1>6. body' \in Bytes /\ payload' = body' \o FlattenSeq(rest)
  <2> DEFINE more == FlattenSeq(rest)
  <2>1. FlattenSeq(pieces) = p \o more /\ more \in Bytes
    BY <1>4, PiecesAreBytes, FlattenFirst DEF Bytes
  <2> HIDE DEF more
  <2>2. body \in Seq(Symbols) /\ p \in Seq(Symbols) /\ more \in Seq(Symbols)
    BY <1>1, <2>1 DEF Typed, Bytes
  <2>3. (body \o p) \o more = body \o (p \o more) /\ body \o p \in Seq(Symbols)
    BY <2>2, ConcatAssociative, ConcatProperties
  <2> QED BY <1>2, <1>3, <1>4, <2>1, <2>3 DEF more, Bytes
<1>7. ComingInv'
  <2>1. CodedInv'
    BY <1>5, <1>6 DEF CodedInv, Arrives
  <2> QED BY <1>1, <1>2, <2>1 DEF ComingInv
<1>8. Typed'
  BY <1>1, <1>2, <1>5, <1>6 DEF Typed
<1> QED BY <1>1, <1>7, <1>8 DEF BodyInv, BodyIsPayload

\* The handler ends with all pieces: a zero is read only when none is to come.
LEMMA LastChunkKeepsBody ==
  ASSUME BodyInv, LastChunk
  PROVE  BodyInv'
<1> SUFFICES ASSUME wire = signed
             PROVE  BodyInv'
  BY DEF BodyInv, LastChunk, Leave
<1>1. /\ Typed /\ ComingInv /\ at' = "handled" /\ BodyHash(signed) = Streaming
      /\ Parses /\ Number(SizeDigits) = 0
      /\ UNCHANGED <<guarded, signed, wire, payload, sent, buffer, ended, body>>
  BY DEF BodyInv, LastChunk, Leave, Decodes
<1>2. PICK pieces \in Pieces : payload = body \o FlattenSeq(pieces) /\ Arrives(pieces)
  BY <1>1 DEF ComingInv, CodedInv
<1>3. pieces = <<>>
  BY <1>1, <1>2, ZeroIsLast DEF Typed
<1>4. payload = body
  <2>1. \A s \in Bytes : s \o <<>> = s
    BY DEF Bytes
  <2> QED BY <1>1, <1>2, <1>3, <2>1, FlattenEmpty DEF Typed
<1>5. Typed'
  BY <1>1 DEF Typed
<1> QED BY <1>1, <1>4, <1>5 DEF BodyInv, BodyIsPayload

LEMMA ReadBodyKeepsBody ==
  ASSUME BodyInv, ReadBody
  PROVE  BodyInv'
<1> SUFFICES ASSUME wire = signed
             PROVE  BodyInv'
  BY DEF BodyInv, ReadBody
<1>1. /\ Typed /\ ComingInv /\ ended = "closed" /\ ~Decodes
      /\ at' = "handled" /\ body' = buffer
      /\ UNCHANGED <<guarded, signed, wire, payload, sent, buffer, ended>>
  BY DEF BodyInv, ReadBody
<1>2. ASSUME BodyHash(signed) # Streaming
      PROVE  body' = payload'
  <2>1. payload = buffer \o <<>>
    BY <1>1, <1>2 DEF ComingInv
  <2>2. \A s \in Bytes : s \o <<>> = s
    BY DEF Bytes
  <2> QED BY <1>1, <2>1, <2>2 DEF Typed
<1>3. Typed'
  BY <1>1 DEF Typed
<1> QED BY <1>1, <1>2, <1>3 DEF BodyInv, BodyIsPayload, Decodes

LEMMA BodyInvNext ==
  ASSUME BodyInv, [Next]_vars
  PROVE  BodyInv'
<1>1. CASE Send
  BY <1>1, SendKeepsBody
<1>2. CASE Arrive
  BY <1>2, ArriveKeepsBody
<1>3. CASE NextChunk
  BY <1>3, NextChunkKeepsBody
<1>4. CASE LastChunk
  BY <1>4, LastChunkKeepsBody
<1>5. CASE ReadBody
  BY <1>5, ReadBodyKeepsBody
<1>6. CASE Rewrite
  <2>1. /\ at = "sent" /\ at' = at /\ wire = signed
        /\ UNCHANGED <<guarded, signed, payload, sent, buffer, ended, body>>
    BY <1>6 DEF Rewrite
  <2>2. Typed' /\ ComingInv'
    BY <2>1 DEF BodyInv, Typed, ComingInv, CodedInv, Arrives
  <2> QED BY <2>1, <2>2 DEF BodyInv, BodyIsPayload
<1>7. CASE End
  <2>1. /\ at = "reading" /\ at' = at
        /\ ended' = "closed" => sent' = <<>>
        /\ UNCHANGED <<guarded, signed, wire, payload, sent, buffer, body>>
    BY <1>7 DEF End
  <2>2. wire = signed => Typed' /\ ComingInv'
    BY <2>1 DEF BodyInv, Typed, ComingInv, CodedInv, Arrives
  <2> QED BY <2>1, <2>2 DEF BodyInv, BodyIsPayload
<1>8. CASE Close
  <2>1. /\ at' = "idle" /\ payload' = <<>> /\ sent' = <<>> /\ buffer' = <<>>
        /\ body' = <<>> /\ ended' = "no"
    BY <1>8 DEF Close
  <2>2. Typed'
    BY <2>1, ChunkBytes DEF Typed
  <2> QED BY <2>1, <2>2 DEF BodyInv, BodyIsPayload
<1>9. CASE Authorize \/ NoSizePanics \/ ChunkFails \/ BodyFails
  <2>1. /\ at \in {"sent", "reading"}
        /\ at' \in {"reading", "unauthorized", "panicked", "rejected"}
        /\ UNCHANGED <<guarded, signed, wire, payload, sent, buffer, ended, body>>
    BY <1>9 DEF Authorize, NoSizePanics, ChunkFails, BodyFails, Leave
  <2>2. wire = signed => Typed' /\ ComingInv'
    BY <2>1 DEF BodyInv, Typed, ComingInv, CodedInv, Arrives
  <2> QED BY <2>1, <2>2 DEF BodyInv, BodyIsPayload
<1>10. CASE UNCHANGED vars
  BY <1>10 DEF vars, BodyInv, Typed, ComingInv, CodedInv, Arrives, BodyIsPayload
<1> QED BY <1>1, <1>2, <1>3, <1>4, <1>5, <1>6, <1>7, <1>8, <1>9, <1>10 DEF Next, Read

\* A body that is handled is the payload of its client, whole, for every
\* payload, every way to cut it into chunks and into portions, and every base
\* that sizes are written in.
THEOREM BodiesAreWhole == Spec => []BodyIsPayload
<1>1. Init => BodyInv
  <2>1. Init => Typed
    BY ChunkBytes DEF Init, Blank, Typed
  <2> QED BY <2>1 DEF Init, Blank, BodyInv, BodyIsPayload
<1>2. BodyInv /\ [Next]_vars => BodyInv'
  BY BodyInvNext
<1>3. BodyInv => BodyIsPayload
  BY DEF BodyInv, BodyIsPayload
<1> QED BY <1>1, <1>2, <1>3, PTL DEF Spec

=============================================================================
