--------------------------- MODULE OperandsProofs ---------------------------
(***************************************************************************)
(* Proofs about Operands: the slots of a frame hold words, and what the    *)
(* handlers do to them is what Java does to typed values, whatever residue *)
(* the slots had.                                                          *)
(***************************************************************************)
EXTENDS Operands, FiniteSetTheorems, SequenceTheorems, TLAPS

-----------------------------------------------------------------------------
(* Remainders.                                                             *)

(* A multiple that is not 0 is at least as far from 0 as what it is a      *)
(* multiple of.                                                            *)
LEMMA Multiplied ==
  ASSUME NEW m \in Nat \ {0}, NEW d \in Int
  PROVE  d * m \in Int /\ (d > 0 => d * m >= m) /\ (d < 0 => d * m <= -m)
<1>1. d * m \in Int
  OBVIOUS
<1>2. ASSUME d > 0 PROVE d * m >= m
  <2>1. PICK e \in Nat : d = e + 1
    BY <1>2
  <2>2. (e + 1) * m = e * m + m /\ e * m >= 0
    OBVIOUS
  <2> QED BY <2>1, <2>2
<1>3. ASSUME d < 0 PROVE d * m <= -m
  <2>1. PICK e \in Nat : d = -e - 1
    BY <1>3
  <2>2. (-e - 1) * m = -(e * m) - m /\ e * m >= 0
    OBVIOUS
  <2> QED BY <2>1, <2>2
<1> QED BY <1>1, <1>2, <1>3

MultipleOf(x, m) == \E q \in Int : x = q * m

(* A remainder is in its range, and differs from the number by a multiple. *)
LEMMA Remainder ==
  ASSUME NEW m \in Nat \ {0}, NEW n \in Int
  PROVE  n % m \in 0 .. m - 1 /\ \E x \in Int : MultipleOf(x, m) /\ n % m = n - x
<1>1. n \div m \in Int /\ n % m \in 0 .. m - 1
  OBVIOUS
<1>2. PICK q \in Int : q = n \div m
  BY <1>1
<1>3. n % m = n - q * m
  BY <1>2
<1>4. PICK x \in Int : x = q * m
  OBVIOUS
<1>5. n % m = n - x
  BY <1>3, <1>4
<1> QED BY <1>1, <1>4, <1>5 DEF MultipleOf

(* Multiples add up, and a small one is 0.                                 *)
LEMMA MultipleFacts ==
  ASSUME NEW m \in Nat \ {0}, NEW x \in Int, MultipleOf(x, m), NEW y \in Int, MultipleOf(y, m)
  PROVE  /\ MultipleOf(x + y, m) /\ MultipleOf(x - y, m)
         /\ x < m /\ x > -m => x = 0
<1>1. PICK q \in Int : x = q * m
  BY DEF MultipleOf
<1>2. PICK p \in Int : y = p * m
  BY DEF MultipleOf
<1>3. PICK d \in Int, e \in Int : d = q + p /\ e = q - p
  OBVIOUS
<1>4. x + y = d * m /\ x - y = e * m
  BY <1>1, <1>2, <1>3
<1>5. MultipleOf(x + y, m) /\ MultipleOf(x - y, m)
  BY <1>4 DEF MultipleOf
<1>6. ASSUME x < m /\ x > -m PROVE x = 0
  <2>1. q = 0
    BY <1>1, <1>6, Multiplied
  <2> QED BY <1>1, <2>1
<1> QED BY <1>5, <1>6

(* A multiple of a multiple is one.                                        *)
LEMMA MultipleOfMultiple ==
  ASSUME NEW m \in Nat \ {0}, NEW b \in Int, MultipleOf(b, m), NEW x \in Int, MultipleOf(x, b)
  PROVE  MultipleOf(x, m)
<1>1. PICK k \in Int : b = k * m
  BY DEF MultipleOf
<1>2. PICK q \in Int : x = q * b
  BY DEF MultipleOf
<1>3. q * (k * m) = (q * k) * m
  OBVIOUS
<1>4. PICK d \in Int : d = q * k
  OBVIOUS
<1>5. x = d * m
  BY <1>1, <1>2, <1>3, <1>4, Zenon
<1> QED BY <1>5 DEF MultipleOf

(* A number less some multiple is its remainder, if it is small enough.    *)
LEMMA RemainderIs ==
  ASSUME NEW m \in Nat \ {0}, NEW n \in Int, NEW x \in Int, MultipleOf(x, m),
         NEW r \in 0 .. m - 1, n = x + r
  PROVE  n % m = r
<1>1. PICK y \in Int : MultipleOf(y, m) /\ n % m = n - y
  BY Remainder
<1>2. PICK t \in 0 .. m - 1 : t = n % m
  BY Remainder
<1>3. x - y < m /\ x - y > -m /\ t = r + (x - y)
  BY <1>1, <1>2
<1>4. PICK z \in Int : z = x - y
  OBVIOUS
<1>5. MultipleOf(z, m)
  BY <1>1, <1>4, MultipleFacts
<1>6. z = 0
  BY <1>3, <1>4, <1>5, MultipleFacts
<1> QED BY <1>2, <1>3, <1>4, <1>6

(* From here on remainders are what Unsigned says.                         *)
LEMMA UnsignedFacts ==
  ASSUME NEW m \in Nat \ {0}, NEW n \in Int
  PROVE  /\ Unsigned(m, n) \in 0 .. m - 1
         /\ \E x \in Int : MultipleOf(x, m) /\ Unsigned(m, n) = n - x
  BY Remainder DEF Unsigned

(* What is left of a number next to a multiple is its unsigned value.      *)
LEMMA UnsignedIs ==
  ASSUME NEW m \in Nat \ {0}, NEW n \in Int, NEW x \in Int, MultipleOf(x, m),
         NEW r \in 0 .. m - 1, n = x + r
  PROVE  Unsigned(m, n) = r
  BY RemainderIs DEF Unsigned

(* Multiples do not count.                                                 *)
LEMMA UnsignedSame ==
  ASSUME NEW m \in Nat \ {0}, NEW n \in Int, NEW x \in Int, MultipleOf(x, m),
         NEW l \in Int, l = x + n
  PROVE  Unsigned(m, l) = Unsigned(m, n)
<1>1. PICK y \in Int : MultipleOf(y, m) /\ Unsigned(m, n) = n - y
  BY UnsignedFacts
<1>2. PICK t \in 0 .. m - 1 : t = Unsigned(m, n)
  BY UnsignedFacts
<1>3. PICK z \in Int : z = x + y
  OBVIOUS
<1>4. MultipleOf(z, m)
  BY <1>1, <1>3, MultipleFacts
<1>5. l = z + t
  BY <1>1, <1>2, <1>3
<1>6. Unsigned(m, l) = t
  BY <1>4, <1>5, UnsignedIs
<1> QED BY <1>2, <1>6

(* 0 is a multiple of every width.                                         *)
LEMMA ZeroIsMultiple ==
  ASSUME NEW m \in Nat \ {0}
  PROVE  MultipleOf(0, m)
<1>1. 0 = 0 * m
  OBVIOUS
<1> QED BY <1>1 DEF MultipleOf

(* A number in the unsigned range is its own unsigned value.               *)
LEMMA UnsignedSmall ==
  ASSUME NEW m \in Nat \ {0}, NEW r \in 0 .. m - 1
  PROVE  Unsigned(m, r) = r
  BY ZeroIsMultiple, UnsignedIs

(* Cutting to a multiple of the width first makes no difference.           *)
LEMMA UnsignedTwice ==
  ASSUME NEW m \in Nat \ {0}, NEW b \in Nat \ {0}, MultipleOf(b, m), NEW n \in Int
  PROVE  Unsigned(m, Unsigned(b, n)) = Unsigned(m, n)
<1>1. PICK x \in Int : MultipleOf(x, b) /\ Unsigned(b, n) = n - x
  BY UnsignedFacts
<1>2. PICK t \in 0 .. b - 1 : t = Unsigned(b, n)
  BY UnsignedFacts
<1>3. MultipleOf(x, m)
  BY <1>1, MultipleOfMultiple
<1>4. n = x + t
  BY <1>1, <1>2
<1>5. Unsigned(m, n) = Unsigned(m, t)
  BY <1>3, <1>4, UnsignedSame
<1> QED BY <1>2, <1>5

-----------------------------------------------------------------------------
(* Signed numbers.                                                         *)

Even(m) == \E half \in Nat \ {0} : m = 2 * half

(* The signed numbers of a width go from minus half of it to below half.   *)
LEMMA SignedRangeIs ==
  ASSUME NEW m, NEW half \in Nat \ {0}, m = 2 * half
  PROVE  SignedRange(m) = -half .. half - 1
<1>1. m \div 2 = half
  OBVIOUS
<1> QED BY <1>1 DEF SignedRange

(* A signed value is in its range, has the bits of the number, and is the  *)
(* unsigned one unless its sign is set.                                    *)
LEMMA SignedFacts ==
  ASSUME NEW m \in Nat \ {0}, Even(m), NEW n \in Int
  PROVE  /\ Signed(m, n) \in SignedRange(m) /\ Signed(m, n) \in Int
         /\ Unsigned(m, Signed(m, n)) = Unsigned(m, n)
         /\ Signed(m, n) >= 0 <=> Signed(m, n) = Unsigned(m, n)
         /\ 2 * Unsigned(m, n) < m => Signed(m, n) = Unsigned(m, n)
<1>1. PICK half \in Nat \ {0} : m = 2 * half
  BY DEF Even
<1>2. PICK u \in 0 .. m - 1 : u = Unsigned(m, n)
  BY UnsignedFacts
<1>3. PICK s \in Int : s = Signed(m, n) /\ s = IF 2 * u >= m THEN u - m ELSE u
  BY <1>2 DEF Signed
<1>4. s \in SignedRange(m)
  BY <1>1, <1>3, SignedRangeIs
<1>5. Unsigned(m, u) = u
  BY UnsignedSmall
<1>6. Unsigned(m, s) = u
  <2>1. MultipleOf(-m, m)
    <3>1. -m = (-1) * m
      OBVIOUS
    <3> QED BY <3>1 DEF MultipleOf
  <2>2. CASE 2 * u >= m
    <3>1. s = -m + u
      BY <1>3, <2>2
    <3> QED BY <2>1, <3>1, UnsignedIs
  <2>3. CASE ~(2 * u >= m)
    BY <1>3, <1>5, <2>3
  <2> QED BY <2>2, <2>3
<1>7. (s >= 0 <=> s = u) /\ (2 * u < m => s = u)
  BY <1>3
<1> QED BY <1>2, <1>3, <1>4, <1>6, <1>7

(* Numbers with the same bits have the same signed value.                  *)
LEMMA SignedSame ==
  ASSUME NEW m, NEW a, NEW b, Unsigned(m, a) = Unsigned(m, b)
  PROVE  Signed(m, a) = Signed(m, b)
  BY DEF Signed

(* A number in the range stays as it is.                                   *)
LEMMA SignedIs ==
  ASSUME NEW m \in Nat \ {0}, Even(m), NEW v \in SignedRange(m)
  PROVE  v \in Int /\ Signed(m, v) = v
<1>1. PICK half \in Nat \ {0} : m = 2 * half
  BY DEF Even
<1>2. v \in -half .. half - 1
  BY <1>1, SignedRangeIs
<1>3. CASE v >= 0
  <2>1. Unsigned(m, v) = v
    BY <1>1, <1>2, <1>3, UnsignedSmall
  <2> QED BY <1>1, <1>2, <1>3, <2>1 DEF Signed
<1>4. CASE v < 0
  <2>1. MultipleOf(-m, m)
    <3>1. -m = (-1) * m
      OBVIOUS
    <3> QED BY <3>1 DEF MultipleOf
  <2>2. PICK r \in 0 .. m - 1 : r = v + m
    BY <1>1, <1>2, <1>4
  <2>3. v = -m + r
    BY <1>2, <2>2
  <2>4. Unsigned(m, v) = r
    BY <1>2, <2>1, <2>3, UnsignedIs
  <2> QED BY <1>1, <1>2, <1>4, <2>2, <2>4 DEF Signed
<1> QED BY <1>2, <1>3, <1>4

-----------------------------------------------------------------------------
(* The widths.                                                             *)

Widths == {BYTE, SHORT, INT, LONG}

(* A larger width that is a multiple of an even one is even, and at least  *)
(* twice as large.                                                         *)
LEMMA Doubles ==
  ASSUME NEW b \in Nat \ {0}, Even(b), NEW m \in Nat, b < m, m % b = 0
  PROVE  Even(m) /\ MultipleOf(m, b) /\ 2 * b <= m
<1>1. PICK x \in Int : MultipleOf(x, b) /\ m % b = m - x
  <2>1. m \in Int
    OBVIOUS
  <2>2. \A i \in Int : \E x \in Int : MultipleOf(x, b) /\ i % b = i - x
    BY Remainder, Zenon
  <2> QED BY <2>1, <2>2, Zenon
<1>2. MultipleOf(m, b)
  <2>1. x = m
    BY <1>1
  <2> QED BY <1>1, <2>1, Zenon
<1>3. PICK q \in Int : m = q * b
  BY <1>2 DEF MultipleOf
<1>4. PICK half \in Nat \ {0} : b = 2 * half
  BY DEF Even
<1>5. q >= 2
  <2>1. PICK d \in Int : d = q - 1
    OBVIOUS
  <2>2. q * b = d * b + b
    BY <2>1
  <2>3. d * b > 0
    BY <1>3, <2>1, <2>2
  <2>4. d > 0
    <3>1. CASE d = 0
      BY <2>3, <3>1
    <3>2. CASE d < 0
      BY <2>3, <3>2, Multiplied
    <3> QED BY <3>1, <3>2
  <2> QED BY <2>1, <2>4
<1>6. 2 * b <= m
  <2>1. PICK e \in Nat : q = e + 2
    BY <1>5
  <2>2. (e + 2) * b = e * b + 2 * b /\ e * b >= 0
    OBVIOUS
  <2> QED BY <1>3, <2>1, <2>2
<1>7. Even(m)
  <2>1. PICK h \in Int : h = q * half
    OBVIOUS
  <2>2. q * (2 * half) = 2 * (q * half)
    OBVIOUS
  <2>3. m = 2 * h
    BY <1>3, <1>4, <2>1, <2>2
  <2>4. h \in Nat \ {0}
    BY <2>3
  <2> QED BY <2>3, <2>4 DEF Even
<1> QED BY <1>2, <1>6, <1>7

(* All widths are even, divide the long one, and each is at least twice    *)
(* the one below.                                                          *)
LEMMA WidthFacts ==
  /\ \A m \in Widths : m \in Nat \ {0} /\ Even(m) /\ MultipleOf(LONG, m)
  /\ MultipleOf(SHORT, BYTE) /\ MultipleOf(INT, BYTE) /\ MultipleOf(INT, SHORT)
  /\ 2 <= BYTE /\ 2 * BYTE <= SHORT /\ 2 * SHORT <= INT /\ 2 * INT <= LONG
  /\ \A m \in Widths : MultipleOf(m, m)
<1>1. /\ BYTE \in Nat \ {0} /\ BYTE % 2 = 0 /\ SHORT \in Nat /\ INT \in Nat /\ LONG \in Nat
      /\ BYTE < SHORT /\ SHORT < INT /\ INT < LONG
      /\ SHORT % BYTE = 0 /\ INT % SHORT = 0 /\ LONG % INT = 0
  BY WidthAssumption
<1>2. Even(BYTE) /\ 2 <= BYTE
  <2>1. PICK h \in Int : BYTE = 2 * h
    BY <1>1
  <2>2. h \in Nat \ {0}
    BY <1>1, <2>1
  <2> QED BY <2>1, <2>2 DEF Even
<1>3. Even(SHORT) /\ MultipleOf(SHORT, BYTE) /\ 2 * BYTE <= SHORT
  BY <1>1, <1>2, Doubles
<1>4. Even(INT) /\ MultipleOf(INT, SHORT) /\ 2 * SHORT <= INT
  BY <1>1, <1>3, Doubles
<1>5. Even(LONG) /\ MultipleOf(LONG, INT) /\ 2 * INT <= LONG
  BY <1>1, <1>4, Doubles
<1>6. MultipleOf(INT, BYTE) /\ MultipleOf(LONG, SHORT) /\ MultipleOf(LONG, BYTE)
  BY <1>1, <1>3, <1>4, <1>5, MultipleOfMultiple
<1>7. \A m \in Widths : m \in Nat \ {0} /\ MultipleOf(m, m)
  <2> TAKE m \in Widths
  <2>1. m \in Nat \ {0}
    BY <1>1 DEF Widths
  <2>2. m = 1 * m
    BY <2>1
  <2> QED BY <2>1, <2>2 DEF MultipleOf
<1> QED BY <1>2, <1>3, <1>4, <1>5, <1>6, <1>7 DEF Widths

(* The types a macro is given, and what a type is read as.                 *)
Macros == {"char", "short", "int", "long"}

(* The widths of the types that the stack macros are used with.            *)
LEMMA MacroWidth ==
  /\ \A t \in Macros : Width[t] \in Widths
  /\ Width["char"] = BYTE /\ Width["short"] = SHORT /\ Width["int"] = INT /\ Width["long"] = LONG
  BY DEF Macros, Width, Widths

(* A macro writes its type's bytes, and leaves the rest of the word.       *)
LEMMA WriteFacts ==
  ASSUME NEW word \in Words, NEW t \in Macros, NEW v \in Int
  PROVE  /\ Write(word, t, v) \in Words
         /\ \A m \in Widths : MultipleOf(Width[t], m) =>
              Unsigned(m, Write(word, t, v)) = Unsigned(m, v)
<1>1. PICK W \in Nat \ {0} : W = Width[t] /\ W \in Widths /\ MultipleOf(LONG, W)
  BY MacroWidth, WidthFacts
<1>2. word \in Int /\ 0 <= word /\ word < LONG /\ LONG \in Nat \ {0}
  BY WidthFacts DEF Words, Widths
<1>3. PICK x \in Int : MultipleOf(x, W) /\ Unsigned(W, word) = word - x
  BY <1>2, UnsignedFacts
<1>4. PICK a \in 0 .. W - 1 : a = Unsigned(W, word)
  BY <1>2, UnsignedFacts
<1>5. PICK b \in 0 .. W - 1 : b = Unsigned(W, v)
  BY UnsignedFacts
<1>6. PICK r : r = Write(word, t, v)
  OBVIOUS
<1>7. r = x + b /\ r \in Int
  BY <1>1, <1>2, <1>3, <1>4, <1>5, <1>6 DEF Write
<1>8. r \in Words
  <2>1. PICK y \in Int : y = LONG - x
    BY <1>2
  <2>2. MultipleOf(y, W)
    BY <1>1, <1>2, <1>3, <2>1, MultipleFacts
  <2>3. y > 0 /\ x > -W
    BY <1>2, <1>3, <1>4, <2>1
  <2>4. y >= W
    BY <2>2, <2>3, MultipleFacts
  <2>5. x >= 0
    <3>1. MultipleOf(x, W) /\ x > -W
      BY <1>3, <2>3
    <3> QED BY <3>1, MultipleFacts
  <2> QED BY <1>2, <1>5, <1>7, <2>1, <2>4, <2>5 DEF Words
<1>9. ASSUME NEW m \in Widths, MultipleOf(W, m)
      PROVE  Unsigned(m, r) = Unsigned(m, v)
  <2>1. m \in Nat \ {0}
    BY WidthFacts
  <2>2. MultipleOf(x, m)
    BY <1>3, <1>9, <2>1, MultipleOfMultiple
  <2>3. Unsigned(m, r) = Unsigned(m, b)
    BY <1>7, <2>1, <2>2, UnsignedSame
  <2>4. Unsigned(m, b) = Unsigned(m, v)
    BY <1>5, <1>9, <2>1, UnsignedTwice
  <2> QED BY <2>3, <2>4
<1> QED BY <1>1, <1>6, <1>8, <1>9

(* Writing a long replaces the word.                                       *)
LEMMA WriteLong ==
  ASSUME NEW word \in Words, NEW v \in Int
  PROVE  /\ Write(word, "long", v) = Unsigned(LONG, v)
         /\ v \in Words => Write(word, "long", v) = v
<1>1. LONG \in Widths /\ LONG \in Nat \ {0} /\ MultipleOf(LONG, LONG) /\ "long" \in Macros
  BY WidthFacts DEF Widths, Macros
<1>2. PICK r : r = Write(word, "long", v)
  OBVIOUS
<1>3. r \in 0 .. LONG - 1 /\ Unsigned(LONG, r) = Unsigned(LONG, v)
  BY <1>1, <1>2, WriteFacts, MacroWidth DEF Words
<1>4. Unsigned(LONG, r) = r
  BY <1>1, <1>3, UnsignedSmall
<1>5. v \in Words => Unsigned(LONG, v) = v
  BY <1>1, UnsignedSmall DEF Words
<1> QED BY <1>2, <1>3, <1>4, <1>5

(* Reading a word as a long loses no bit of it.                            *)
LEMMA ReadLong ==
  ASSUME NEW word \in Words
  PROVE  Read(word, "long") \in Int /\ Unsigned(LONG, Read(word, "long")) = word
<1>1. LONG \in Nat \ {0} /\ Even(LONG)
  BY WidthFacts DEF Widths
<1>2. word \in Int /\ Unsigned(LONG, word) = word
  BY <1>1, UnsignedSmall DEF Words
<1> QED BY <1>1, <1>2, SignedFacts, MacroWidth DEF Read

(* Words are moved as longs.                                               *)
LEMMA MoveLong ==
  ASSUME NEW word \in Words, NEW old \in Words
  PROVE  Write(old, "long", Read(word, "long")) = word
  BY ReadLong, WriteLong

(* What is read back is what was written, in the type it is read as.       *)
LEMMA WriteValue ==
  ASSUME NEW old \in Words, NEW v \in Int, NEW t \in {"int", "long"},
         NEW u \in {t, "long"}
  PROVE  /\ Value(Write(old, u, v), t) = Signed(Width[t], v)
         /\ v \in SignedRange(Width[t]) => Value(Write(old, u, v), t) = v
<1>1. u \in Macros /\ t \in Macros /\ Width[t] \in Widths
  BY MacroWidth DEF Macros
<1>2. PICK W \in Nat \ {0} : W = Width[t] /\ Even(W) /\ W \in Widths
  BY <1>1, WidthFacts
<1>3. MultipleOf(Width[u], W)
  BY <1>1, <1>2, WidthFacts, MacroWidth
<1>4. Unsigned(W, Write(old, u, v)) = Unsigned(W, v)
  BY <1>1, <1>2, <1>3, WriteFacts
<1>5. Signed(W, Write(old, u, v)) = Signed(W, v)
  BY <1>4, SignedSame
<1>6. v \in SignedRange(W) => Signed(W, v) = v
  BY <1>2, SignedIs
<1> QED BY <1>2, <1>5, <1>6 DEF Value, Read

(* A narrow type written where the rest of an int is 0.                    *)
LEMMA WriteNarrow ==
  ASSUME NEW old \in Words, NEW v \in Int, NEW t \in {"char", "short"},
         Unsigned(INT, old) < Width[t]
  PROVE  Value(Write(old, t, v), "int") = Unsigned(Width[t], v)
<1>1. PICK W \in Nat \ {0} : /\ W = Width[t] /\ W \in Widths /\ MultipleOf(INT, W)
                            /\ 2 * W <= INT
  BY MacroWidth, WidthFacts DEF Widths
<1>2. INT \in Nat \ {0} /\ Even(INT) /\ old \in Int
  BY WidthFacts DEF Widths, Words
<1>3. PICK x \in Int : MultipleOf(x, INT) /\ Unsigned(INT, old) = old - x
  BY <1>2, UnsignedFacts
<1>4. PICK a \in 0 .. W - 1 : a = Unsigned(INT, old) /\ old = x + a
  <2>1. Unsigned(INT, old) \in 0 .. INT - 1
    BY <1>2, UnsignedFacts
  <2> QED BY <1>1, <1>2, <1>3, <2>1
<1>5. MultipleOf(x, W)
  BY <1>1, <1>2, <1>3, MultipleOfMultiple
<1>6. Unsigned(W, old) = a
  BY <1>2, <1>4, <1>5, UnsignedIs
<1>7. PICK b \in 0 .. W - 1 : b = Unsigned(W, v)
  BY UnsignedFacts
<1>8. PICK r \in Int : r = Write(old, t, v) /\ r = x + b
  BY <1>1, <1>2, <1>4, <1>6, <1>7 DEF Write
<1>9. Unsigned(INT, r) = b
  BY <1>1, <1>2, <1>3, <1>7, <1>8, UnsignedIs
<1>10. Signed(INT, r) = b
  BY <1>1, <1>2, <1>7, <1>8, <1>9, SignedFacts
<1> QED BY <1>1, <1>7, <1>8, <1>10, MacroWidth DEF Value, Read

-----------------------------------------------------------------------------
(* Frames.                                                                 *)

FrameTypes == [operand_stacks : [0 .. MAX_STACK - 1 -> Words], operand_offset : 0 .. MAX_STACK,
               local_variables : [Locals -> Words]]

(* Operand i of a frame, counted from 1 as in types.                       *)
Word(f, i) == f.operand_stacks[i - 1]

(* Frame g has the words nw instead of the n top operands of f.            *)
Restacked(f, n, g, nw) ==
  /\ g \in FrameTypes /\ nw \in Seq(Words)
  /\ g.operand_offset = f.operand_offset - n + Len(nw)
  /\ \A i \in 1 .. f.operand_offset - n : Word(g, i) = Word(f, i)
  /\ \A i \in 1 .. Len(nw) : Word(g, f.operand_offset - n + i) = nw[i]

Moved(f, n, g, nw) == Restacked(f, n, g, nw) /\ g.local_variables = f.local_variables

(* A frame that nothing was done to has all its operands.                  *)
LEMMA MovedNot ==
  ASSUME NEW f \in FrameTypes
  PROVE  Moved(f, 0, f, << >>)
  BY DEF Moved, Restacked, FrameTypes

(* The words and the depth of a frame are of their types.                  *)
LEMMA FrameFacts ==
  ASSUME NEW f \in FrameTypes
  PROVE  /\ f.operand_offset \in 0 .. MAX_STACK /\ f.operand_stacks \in [0 .. MAX_STACK - 1 -> Words]
         /\ f.local_variables \in [Locals -> Words]
         /\ \A i \in 1 .. MAX_STACK : Word(f, i) \in Words
         /\ MAX_STACK \in Nat \ {0} /\ MAX_LOCALS \in Nat \ {0}
  BY FrameAssumption DEF FrameTypes, Word

(* A record is its fields.                                                 *)
LEMMA FrameIs ==
  ASSUME NEW s \in [0 .. MAX_STACK - 1 -> Words], NEW o \in 0 .. MAX_STACK, NEW l \in [Locals -> Words]
  PROVE  [operand_stacks |-> s, operand_offset |-> o, local_variables |-> l] \in FrameTypes
  BY DEF FrameTypes

(* A pop takes one more operand, whatever type it is given.                *)
LEMMA PopMoves ==
  ASSUME NEW f \in FrameTypes, NEW n \in Nat, NEW g, Moved(f, n, g, << >>),
         n < f.operand_offset, NEW t \in Macros
  PROVE  Moved(f, n + 1, Popped(g, t), << >>)
<1>1. /\ g \in FrameTypes /\ g.operand_offset = f.operand_offset - n
      /\ \A i \in 1 .. f.operand_offset - n : Word(g, i) = Word(f, i)
      /\ g.local_variables = f.local_variables
  BY FrameFacts DEF Moved, Restacked
<1>2. PICK o \in 1 .. MAX_STACK : o = g.operand_offset /\ o = f.operand_offset - n
  BY <1>1, FrameFacts
<1>3. PICK w \in Words : w = Write(Word(g, o), t, 0)
  BY <1>1, <1>2, FrameFacts, WriteFacts
<1>4. PICK h : h = Popped(g, t)
  OBVIOUS
<1>5. PICK st \in [0 .. MAX_STACK - 1 -> Words], l \in [Locals -> Words] :
        st = g.operand_stacks /\ l = g.local_variables
  BY <1>1, FrameFacts
<1>6. PICK s : s = [st EXCEPT ![o - 1] = w]
  OBVIOUS
<1>7. h = [operand_stacks |-> s, operand_offset |-> o - 1, local_variables |-> l]
  BY <1>1, <1>2, <1>3, <1>4, <1>5, <1>6 DEF Popped, FrameTypes, Word
<1>8. /\ s \in [0 .. MAX_STACK - 1 -> Words] /\ \A i \in 1 .. o - 1 : s[i - 1] = Word(g, i)
      /\ h \in FrameTypes
  <2>1. o - 1 \in 0 .. MAX_STACK - 1 /\ o - 1 \in 0 .. MAX_STACK /\ MAX_STACK \in Nat
    BY <1>1, FrameFacts
  <2>2. s \in [0 .. MAX_STACK - 1 -> Words]
    BY <1>6, <2>1
  <2>3. \A i \in 1 .. o - 1 : s[i - 1] = st[i - 1]
    BY <1>6, <2>1
  <2>4. h \in FrameTypes
    BY <1>7, <2>1, <2>2, FrameIs
  <2> QED BY <1>5, <2>2, <2>3, <2>4 DEF Word
<1>9. /\ h.operand_offset = o - 1 /\ h.local_variables = f.local_variables
      /\ \A i \in 1 .. o - 1 : Word(h, i) = Word(g, i)
  BY <1>1, <1>5, <1>7, <1>8 DEF Word
<1> QED BY <1>1, <1>2, <1>4, <1>8, <1>9, FrameFacts DEF Moved, Restacked

(* A push adds one word, of which the macro writes the bytes of its type.  *)
LEMMA PushMoves ==
  ASSUME NEW f \in FrameTypes, NEW n \in 0 .. f.operand_offset, NEW g, NEW nw, Moved(f, n, g, nw),
         g.operand_offset < MAX_STACK, NEW t \in Macros, NEW v \in Int,
         NEW old, old = g.operand_stacks[g.operand_offset]
  PROVE  old \in Words /\ Moved(f, n, Pushed(g, t, v), Append(nw, Write(old, t, v)))
<1>1. /\ g \in FrameTypes /\ nw \in Seq(Words)
      /\ g.operand_offset = f.operand_offset - n + Len(nw)
      /\ \A i \in 1 .. f.operand_offset - n : Word(g, i) = Word(f, i)
      /\ \A i \in 1 .. Len(nw) : Word(g, f.operand_offset - n + i) = nw[i]
      /\ g.local_variables = f.local_variables
  BY DEF Moved, Restacked
<1>2. PICK o \in 0 .. MAX_STACK - 1 : o = g.operand_offset
  BY <1>1, FrameFacts
<1>3. old \in Words
  BY <1>1, <1>2, FrameFacts
<1>4. PICK w \in Words : w = Write(old, t, v)
  BY <1>3, WriteFacts
<1>5. PICK h : h = Pushed(g, t, v)
  OBVIOUS
<1>6. PICK st \in [0 .. MAX_STACK - 1 -> Words], lo \in [Locals -> Words] :
        st = g.operand_stacks /\ lo = g.local_variables
  BY <1>1, FrameFacts
<1>7. PICK s : s = [st EXCEPT ![o] = w]
  OBVIOUS
<1>8. h = [operand_stacks |-> s, operand_offset |-> o + 1, local_variables |-> lo]
  BY <1>1, <1>2, <1>4, <1>5, <1>6, <1>7 DEF Pushed, FrameTypes
<1>9. /\ s \in [0 .. MAX_STACK - 1 -> Words] /\ s[o] = w
      /\ \A i \in 1 .. o : s[i - 1] = Word(g, i)
      /\ h \in FrameTypes
  <2>1. o + 1 \in 0 .. MAX_STACK /\ MAX_STACK \in Nat
    BY <1>1, FrameFacts
  <2>2. s \in [0 .. MAX_STACK - 1 -> Words] /\ s[o] = w
    BY <1>7, <2>1
  <2>3. \A i \in 1 .. o : s[i - 1] = st[i - 1]
    BY <1>7, <2>1
  <2>4. h \in FrameTypes
    BY <1>8, <2>1, <2>2, FrameIs
  <2> QED BY <1>6, <2>2, <2>3, <2>4 DEF Word
<1>10. /\ h.operand_offset = o + 1 /\ h.local_variables = f.local_variables
       /\ \A i \in 1 .. o : Word(h, i) = Word(g, i)
       /\ Word(h, o + 1) = w
  <2>1. h.operand_offset = o + 1 /\ h.local_variables = lo /\ h.operand_stacks = s
    BY <1>8
  <2>2. (o + 1) - 1 = o
    OBVIOUS
  <2> QED BY <1>1, <1>6, <1>9, <2>1, <2>2 DEF Word
<1>11. PICK mw : mw = Append(nw, w)
  OBVIOUS
<1>12. PICK l \in Nat : l = Len(nw)
  BY <1>1
<1>13. /\ mw \in Seq(Words) /\ Len(mw) = l + 1 /\ mw[l + 1] = w
       /\ \A i \in 1 .. l : mw[i] = nw[i]
  BY <1>1, <1>11, <1>12
<1>14. PICK b \in Nat : b = f.operand_offset - n /\ o = b + l
  <2>1. PICK x \in Nat : x = f.operand_offset
    BY FrameFacts
  <2>2. n \in 0 .. x /\ o = x - n + l
    BY <1>1, <1>2, <1>12, <2>1
  <2>3. PICK b \in Nat : b = x - n
    BY <2>2
  <2> QED BY <1>12, <2>1, <2>2, <2>3
<1>15. \A i \in 1 .. b : Word(h, i) = Word(f, i)
  <2> TAKE i \in 1 .. b
  <2>1. i \in 1 .. o /\ i \in 1 .. f.operand_offset - n
    BY <1>14
  <2>2. Word(h, i) = Word(g, i)
    BY <1>10, <2>1, Zenon
  <2>3. Word(g, i) = Word(f, i)
    BY <1>1, <2>1, Zenon
  <2> QED BY <2>2, <2>3, Zenon
<1>16. \A i \in 1 .. l + 1 : Word(h, b + i) = mw[i]
  <2> TAKE i \in 1 .. l + 1
  <2>1. CASE i = l + 1
    <3>1. b + i = o + 1
      BY <1>14, <2>1
    <3> QED BY <1>10, <1>13, <2>1, <3>1, Zenon
  <2>2. CASE i # l + 1
    <3>1. i \in 1 .. l /\ b + i \in 1 .. o
      BY <1>14, <2>2
    <3>2. Word(g, b + i) = nw[i]
      BY <1>1, <1>12, <1>14, <3>1
    <3> QED BY <1>10, <1>13, <3>1, <3>2
  <2> QED BY <2>1, <2>2
<1>17. h.operand_offset = b + (l + 1)
  BY <1>10, <1>14
<1>18. Moved(f, n, h, mw)
  BY <1>9, <1>10, <1>13, <1>14, <1>15, <1>16, <1>17 DEF Moved, Restacked
<1> QED BY <1>3, <1>4, <1>5, <1>11, <1>18

-----------------------------------------------------------------------------
(* Sequences.                                                              *)

(* A sequence without its last elements, with others in their place.       *)
LEMMA Lower ==
  ASSUME NEW S, NEW s \in Seq(S), NEW k \in 0 .. Len(s)
  PROVE  /\ SubSeq(s, 1, k) \in Seq(S) /\ Len(SubSeq(s, 1, k)) = k
         /\ \A i \in 1 .. k : SubSeq(s, 1, k)[i] = s[i]
  OBVIOUS

(* Sequence r has k elements, which are those of s, and behind them the m  *)
(* elements of t.                                                          *)
Joins(S, s, k, t, m, r) ==
  /\ r \in Seq(S) /\ Len(r) = k + m
  /\ \A i \in 1 .. k : r[i] = s[i]
  /\ \A i \in 1 .. m : r[k + i] = t[i]

(* The elements of a sequence that is put behind another.                  *)
LEMMA Above ==
  ASSUME NEW S, NEW p \in Seq(S), NEW t \in Seq(S)
  PROVE  Joins(S, p, Len(p), t, Len(t), p \o t)
<1>1. PICK k \in Nat, m \in Nat : k = Len(p) /\ m = Len(t)
  OBVIOUS
<1>2. PICK r : r = p \o t
  OBVIOUS
<1>3. /\ r \in Seq(S) /\ Len(r) = k + m
      /\ \A i \in 1 .. k + m : r[i] = IF i <= k THEN p[i] ELSE t[i - k]
  BY <1>1, <1>2, ConcatProperties
<1>4. ASSUME NEW j \in 1 .. m
      PROVE  r[k + j] = t[j]
  <2>1. k + j \in 1 .. k + m /\ ~(k + j <= k) /\ (k + j) - k = j
    OBVIOUS
  <2> QED BY <1>3, <2>1
<1>5. \A i \in 1 .. k : r[i] = p[i]
  BY <1>3
<1> QED BY <1>1, <1>2, <1>3, <1>4, <1>5 DEF Joins

(* The elements of a sequence whose end is exchanged for another.          *)
LEMMA Exchanged ==
  ASSUME NEW S, NEW s \in Seq(S), NEW k \in Nat, k <= Len(s), NEW t \in Seq(S)
  PROVE  Joins(S, s, k, t, Len(t), SubSeq(s, 1, k) \o t)
<1>1. PICK p : p = SubSeq(s, 1, k)
  OBVIOUS
<1>2. p \in Seq(S) /\ Len(p) = k /\ \A i \in 1 .. k : p[i] = s[i]
  BY <1>1, Lower
<1>3. Joins(S, p, k, t, Len(t), p \o t)
  BY <1>2, Above
<1> QED BY <1>1, <1>2, <1>3 DEF Joins

(* Sequences of the same length and elements are equal.                    *)
LEMMA SameSequence ==
  ASSUME NEW S, NEW s \in Seq(S), NEW t \in Seq(S), Len(s) = Len(t),
         \A i \in 1 .. Len(s) : s[i] = t[i]
  PROVE  s = t
  OBVIOUS

(* The elements of a suffix are the last ones.                             *)
LEMMA SuffixIs ==
  ASSUME NEW S, NEW s \in Seq(S), NEW t \in Seq(S), IsSuffix(s, t)
  PROVE  /\ Len(s) <= Len(t)
         /\ \A i \in 1 .. Len(s) : s[i] = t[Len(t) - Len(s) + i]
<1>1. PICK p, q : p = Reverse(s) /\ q = Reverse(t)
  OBVIOUS
<1>2. /\ p \in Seq(S) /\ Len(p) = Len(s)
      /\ \A i \in 1 .. Len(s) : p[i] = s[(Len(s) - i) + 1]
  BY <1>1 DEF Reverse
<1>3. /\ q \in Seq(S) /\ Len(q) = Len(t)
      /\ \A i \in 1 .. Len(t) : q[i] = t[(Len(t) - i) + 1]
  BY <1>1 DEF Reverse
<1>4. Len(p) <= Len(q) /\ SubSeq(p, 1, Len(p)) = SubSeq(q, 1, Len(p))
  BY <1>1 DEF IsSuffix, IsPrefix
<1>5. \A i \in 1 .. Len(p) : p[i] = q[i]
  <2>1. \A i \in 1 .. Len(p) : SubSeq(p, 1, Len(p))[i] = p[i]
    BY <1>2
  <2>2. \A i \in 1 .. Len(p) : SubSeq(q, 1, Len(p))[i] = q[i]
    BY <1>2, <1>3, <1>4
  <2> QED BY <1>4, <2>1, <2>2
<1>6. ASSUME NEW i \in 1 .. Len(s)
      PROVE  s[i] = t[Len(t) - Len(s) + i]
  <2>1. PICK k \in 1 .. Len(s) : k = (Len(s) - i) + 1
    <3>1. PICK l \in Nat : l = Len(s)
      OBVIOUS
    <3>2. (l - i) + 1 \in 1 .. l
      BY <3>1
    <3> QED BY <3>1, <3>2
  <2>2. p[k] = q[k] /\ k \in 1 .. Len(t)
    BY <1>2, <1>3, <1>4, <1>5
  <2>3. p[k] = s[(Len(s) - k) + 1] /\ q[k] = t[(Len(t) - k) + 1]
    BY <1>2, <1>3, <2>2
  <2>4. (Len(s) - k) + 1 = i /\ (Len(t) - k) + 1 = Len(t) - Len(s) + i
    BY <2>1
  <2> QED BY <2>2, <2>3, <2>4
<1> QED BY <1>2, <1>3, <1>4, <1>6

-----------------------------------------------------------------------------
(* What the slots mean.                                                    *)

Entries == [type : Types, value : Int]

(* What a word means as a type is a number, the one read unless it is a    *)
(* reference.                                                              *)
LEMMA ValueFacts ==
  ASSUME NEW word \in Words, NEW t \in Types
  PROVE  /\ Value(word, t) \in Int /\ Typed(t, Value(word, t)) \in Entries
         /\ t # "ref" => Value(word, t) = Read(word, t)
<1>1. word \in Int
  BY WidthFacts DEF Words, Widths
<1>2. t # "ref" => Width[t] \in Widths /\ Width[t] \in Nat \ {0} /\ Even(Width[t])
  BY MacroWidth, WidthFacts DEF Types, Macros
<1>3. Value(word, t) \in Int
  BY <1>1, <1>2, SignedFacts DEF Value, Read
<1> QED BY <1>3 DEF Typed, Entries, Value

StackOf(ts, f) == [i \in DOMAIN ts |-> Typed(ts[i], Value(f.operand_stacks[i - 1], ts[i]))]
Means(vs, us, nw) == /\ vs \in Seq(Entries) /\ Len(vs) = Len(us) /\ Len(nw) = Len(us)
                     /\ \A i \in 1 .. Len(us) : vs[i] = Typed(us[i], Value(nw[i], us[i]))

(* The abstract stack has one entry for each type, the meaning of the word *)
(* in its slot.                                                            *)
LEMMA StackFacts ==
  ASSUME NEW f \in FrameTypes, NEW ts \in Seq(Types), Len(ts) = f.operand_offset
  PROVE  /\ StackOf(ts, f) \in Seq(Entries) /\ Len(StackOf(ts, f)) = Len(ts)
         /\ \A i \in 1 .. Len(ts) : /\ Word(f, i) \in Words
                                    /\ StackOf(ts, f)[i] = Typed(ts[i], Value(Word(f, i), ts[i]))
<1>1. PICK n \in 0 .. MAX_STACK : n = Len(ts) /\ MAX_STACK \in Nat
  BY FrameFacts
<1>2. \A i \in 1 .. n : Word(f, i) \in Words /\ ts[i] \in Types
  BY <1>1, FrameFacts
<1>3. PICK s : s = StackOf(ts, f)
  OBVIOUS
<1>4. s = [i \in 1 .. n |-> Typed(ts[i], Value(Word(f, i), ts[i]))]
  BY <1>1, <1>3 DEF StackOf, Word
<1>5. \A i \in 1 .. n : Typed(ts[i], Value(Word(f, i), ts[i])) \in Entries
  BY <1>2, ValueFacts
<1>6. s \in [1 .. n -> Entries]
  BY <1>4, <1>5
<1>7. s \in Seq(Entries) /\ Len(s) = n
  BY <1>6
<1> QED BY <1>1, <1>2, <1>3, <1>4, <1>7

(* Sequence rs is ts with the elements of us instead of the last n.        *)
Exchanges(ts, n, us, rs) == rs = SubSeq(ts, 1, Len(ts) - n) \o us

(* An instruction that exchanges words exchanges what they mean.           *)
LEMMA Regrouped ==
  ASSUME NEW f \in FrameTypes, NEW ts \in Seq(Types), Len(ts) = f.operand_offset,
         NEW n \in 0 .. Len(ts), NEW us \in Seq(Types), NEW g, NEW nw, Restacked(f, n, g, nw),
         NEW vs, Means(vs, us, nw), NEW rs, Exchanges(ts, n, us, rs)
  PROVE  /\ g \in FrameTypes /\ rs \in Seq(Types) /\ Len(rs) = g.operand_offset
         /\ Exchanges(StackOf(ts, f), n, vs, StackOf(rs, g))
<1>1. PICK l \in Nat, m \in Nat, k \in Nat :
        l = Len(ts) /\ m = Len(us) /\ k = l - n /\ k <= l
  <2>1. PICK l \in Nat : l = Len(ts)
    OBVIOUS
  <2>2. PICK k \in Nat : k = l - n /\ k <= l
    BY <2>1
  <2> QED BY <2>1, <2>2
<1>2. rs = SubSeq(ts, 1, k) \o us /\ Joins(Types, ts, k, us, m, rs)
  <2>1. rs = SubSeq(ts, 1, k) \o us
    BY <1>1 DEF Exchanges
  <2>2. Joins(Types, ts, k, us, Len(us), SubSeq(ts, 1, k) \o us)
    BY <1>1, Exchanged
  <2> QED BY <1>1, <2>1, <2>2
<1>3. /\ rs \in Seq(Types) /\ Len(rs) = k + m
      /\ \A i \in 1 .. k : rs[i] = ts[i]
      /\ \A i \in 1 .. m : rs[k + i] = us[i]
  BY <1>2 DEF Joins
<1>4. /\ g \in FrameTypes /\ nw \in Seq(Words) /\ g.operand_offset = k + m
      /\ \A i \in 1 .. k : Word(g, i) = Word(f, i)
      /\ \A i \in 1 .. m : Word(g, k + i) = nw[i]
  BY <1>1 DEF Restacked, Means
<1>5. PICK s, r, x : s = StackOf(ts, f) /\ r = StackOf(rs, g) /\ x = SubSeq(s, 1, k) \o vs
  OBVIOUS
<1>6. /\ s \in Seq(Entries) /\ Len(s) = l
      /\ \A i \in 1 .. l : s[i] = Typed(ts[i], Value(Word(f, i), ts[i]))
  BY <1>1, <1>5, StackFacts
<1>7. /\ r \in Seq(Entries) /\ Len(r) = k + m
      /\ \A i \in 1 .. k + m : r[i] = Typed(rs[i], Value(Word(g, i), rs[i]))
  <2>1. Len(rs) = g.operand_offset
    BY <1>3, <1>4
  <2> QED BY <1>3, <1>4, <1>5, <2>1, StackFacts
<1>8. /\ vs \in Seq(Entries) /\ Len(vs) = m
      /\ \A i \in 1 .. m : vs[i] = Typed(us[i], Value(nw[i], us[i]))
  BY <1>1 DEF Means
<1>9. Joins(Entries, s, k, vs, m, x)
  BY <1>1, <1>5, <1>6, <1>8, Exchanged
<1>10. /\ x \in Seq(Entries) /\ Len(x) = k + m
       /\ \A i \in 1 .. k : x[i] = s[i]
       /\ \A i \in 1 .. m : x[k + i] = vs[i]
  BY <1>9 DEF Joins
<1>11. ASSUME NEW i \in 1 .. k + m
       PROVE  r[i] = x[i]
  <2>1. CASE i <= k
    <3>1. i \in 1 .. k /\ i \in 1 .. l
      BY <1>1, <2>1
    <3> QED BY <1>3, <1>4, <1>6, <1>7, <1>10, <3>1
  <2>2. CASE i > k
    <3>1. PICK j \in 1 .. m : i = k + j
      <4>1. PICK j \in Int : j = i - k
        OBVIOUS
      <4> QED BY <2>2, <4>1
    <3>2. rs[i] = us[j] /\ Word(g, i) = nw[j] /\ x[i] = vs[j]
      BY <1>3, <1>4, <1>10, <3>1
    <3>3. r[i] = Typed(us[j], Value(nw[j], us[j]))
      BY <1>7, <3>2
    <3>4. vs[j] = Typed(us[j], Value(nw[j], us[j]))
      BY <1>8
    <3> QED BY <3>2, <3>3, <3>4
  <2> QED BY <2>1, <2>2
<1>12. r = x
  BY <1>7, <1>10, <1>11, SameSequence
<1>13. k = Len(s) - n
  BY <1>1, <1>6
<1> QED BY <1>3, <1>4, <1>5, <1>12, <1>13 DEF Exchanges

(* No words mean no entries.                                               *)
LEMMA MeansNothing == Means(<< >>, << >>, << >>)
  BY DEF Means

(* One word means one entry.                                               *)
LEMMA MeansOne ==
  ASSUME NEW t \in Types, NEW word \in Words, NEW v, v = Value(word, t)
  PROVE  Means(<< Typed(t, v) >>, << t >>, << word >>)
<1>1. Typed(t, v) \in Entries
  BY ValueFacts
<1> QED BY <1>1 DEF Means

-----------------------------------------------------------------------------
(* The two modules in one another's terms.                                 *)

(* The empty sequence is a suffix of every one.                            *)
LEMMA SuffixNone ==
  ASSUME NEW S, NEW s \in Seq(S)
  PROVE  IsSuffix(<< >>, s)
<1>1. PICK r : r = Reverse(s)
  OBVIOUS
<1>2. r \in Seq(S)
  BY <1>1 DEF Reverse
<1>3. SubSeq(r, 1, 0) = << >> /\ Len(r) >= 0
  BY <1>2
<1>4. PICK e : e = Reverse(<< >>)
  OBVIOUS
<1>5. e = << >>
  BY <1>4 DEF Reverse
<1>6. Len(e) = 0 /\ SubSeq(e, 1, 0) = << >>
  BY <1>5
<1>7. IsPrefix(e, r)
  BY <1>3, <1>6 DEF IsPrefix
<1> QED BY <1>1, <1>4, <1>7 DEF IsSuffix

(* The last element is a suffix.                                           *)
LEMMA SuffixTop ==
  ASSUME NEW S, NEW s \in Seq(S), s # << >>
  PROVE  IsSuffix(<< Last(s) >>, s) /\ Last(s) \in S /\ Len(s) \in Nat \ {0}
<1>1. PICK n \in Nat \ {0} : n = Len(s)
  OBVIOUS
<1>2. PICK x \in S : x = s[n] /\ x = Last(s)
  BY <1>1 DEF Last
<1>3. PICK r : r = Reverse(s)
  OBVIOUS
<1>4. r \in Seq(S) /\ Len(r) = n /\ r[1] = x
  <2>1. r = [i \in 1 .. n |-> s[(n - i) + 1]]
    BY <1>1, <1>3 DEF Reverse
  <2>2. \A i \in 1 .. n : s[(n - i) + 1] \in S
    BY <1>1
  <2>3. r \in Seq(S) /\ Len(r) = n
    BY <2>1, <2>2
  <2>4. r[1] = s[(n - 1) + 1] /\ (n - 1) + 1 = n
    BY <2>1
  <2> QED BY <1>2, <2>3, <2>4
<1>5. PICK e : e = Reverse(<< x >>)
  OBVIOUS
<1>6. e = << x >>
  BY <1>5 DEF Reverse
<1>7. IsPrefix(e, r)
  BY <1>4, <1>6 DEF IsPrefix
<1> QED BY <1>1, <1>2, <1>3, <1>5, <1>7 DEF IsSuffix

(* BoundedSeq in terms of Len.                                             *)
LEMMA Bounded ==
  ASSUME NEW S, NEW n \in Nat, NEW s
  PROVE  s \in BoundedSeq(S, n) <=> s \in Seq(S) /\ Len(s) <= n
  BY DEF BoundedSeq, SeqOf

(* IsSuffix is the same in both modules.                                   *)
LEMMA JvmSuffix ==
  ASSUME NEW s, NEW t
  PROVE  Jvm!IsSuffix(s, t) = IsSuffix(s, t)
  BY DEF Jvm!IsSuffix, Jvm!IsPrefix, Jvm!Reverse, IsSuffix, IsPrefix, Reverse

(* The operators on numbers and sequences are the same in both modules.    *)
LEMMA JvmNames ==
  ASSUME NEW m, NEW n
  PROVE  /\ Jvm!Signed(m, n) = Signed(m, n) /\ Jvm!Unsigned(m, n) = Unsigned(m, n)
         /\ Jvm!Quotient(m, n) = Quotient(m, n) /\ Jvm!Typed(m, n) = Typed(m, n)
         /\ Jvm!Last(m) = Last(m) /\ Jvm!Front(m) = Front(m)
  BY DEF Jvm!Signed, Signed, Jvm!Unsigned, Unsigned, Jvm!Quotient, Quotient,
         Jvm!Last, Jvm!Front, Last, Front, Jvm!Typed, Typed

LocalTypes == [Locals -> Types \cup {"none"}]

(* What TypeOK says about the frame and the types of what is in it.        *)
LEMMA State ==
  ASSUME TypeOK
  PROVE  /\ Frame \in FrameTypes /\ types \in Seq(Types) /\ Len(types) <= MAX_STACK
         /\ localTypes \in LocalTypes
         /\ stack = StackOf(types, Frame)
         /\ status = "run" => Frame.operand_offset = Len(types)
  BY FrameAssumption, Bounded DEF TypeOK, Frame, FrameTypes, LocalTypes, stack, StackOf

(* While the machine runs the abstract stack has an entry for each operand *)
(* slot.                                                                   *)
LEMMA Running ==
  ASSUME TypeOK, status = "run"
  PROVE  /\ stack \in Seq(Entries) /\ Len(stack) = Len(types)
         /\ \A i \in 1 .. Len(types) : /\ Word(Frame, i) \in Words /\ types[i] \in Types
                                       /\ stack[i] = Typed(types[i], Value(Word(Frame, i), types[i]))
         /\ Jvm!Types = types
<1>1. /\ stack \in Seq(Entries) /\ Len(stack) = Len(types)
      /\ \A i \in 1 .. Len(types) : /\ Word(Frame, i) \in Words
                                    /\ stack[i] = Typed(types[i], Value(Word(Frame, i), types[i]))
  BY State, StackFacts
<1>2. types \in Seq(Types)
  BY State
<1>3. PICK n \in Nat : n = Len(types)
  BY <1>2
<1>4. ASSUME NEW i \in 1 .. n
      PROVE  types[i] \in Types /\ stack[i].type = types[i]
  <2>1. PICK t \in Types : t = types[i]
    BY <1>2, <1>3
  <2>2. stack[i] = Typed(types[i], Value(Word(Frame, i), types[i]))
    BY <1>1, <1>3
  <2>3. Typed(t, Value(Word(Frame, i), types[i])).type = t
    BY DEF Typed
  <2> QED BY <2>1, <2>2, <2>3
<1>5. DOMAIN stack = 1 .. n /\ DOMAIN types = 1 .. n
  BY <1>1, <1>2, <1>3
<1>6. types = [i \in 1 .. n |-> types[i]]
  BY <1>2, <1>3
<1>7. [i \in 1 .. n |-> stack[i].type] = [i \in 1 .. n |-> types[i]]
  BY <1>4
<1>8. Jvm!Types = [i \in 1 .. n |-> stack[i].type]
  BY <1>5 DEF Jvm!Types
<1> QED BY <1>1, <1>3, <1>4, <1>6, <1>7, <1>8

-----------------------------------------------------------------------------
(* A step exchanges the operands of types ts for others of types us.       *)

(* Slots that are exchanged for words of other types exchange entries of   *)
(* the stack.                                                              *)
LEMMA StepExchanges ==
  ASSUME TypeOK, status = "run", NEW ts \in Seq(Types), IsSuffix(ts, types),
         NEW us \in Seq(Types), Retyped(ts, us),
         NEW nw, Restacked(Frame, Len(ts), Frame', nw), Len(nw) = Len(us)
  PROVE  /\ Frame' \in FrameTypes /\ types' \in BoundedSeq(Types, MAX_STACK)
         /\ Frame'.operand_offset = Len(types')
         /\ \A vs : Means(vs, us, nw) => Jvm!Replace(ts, vs)
<1>1. /\ Frame \in FrameTypes /\ types \in Seq(Types) /\ Len(types) = Frame.operand_offset
      /\ stack = StackOf(types, Frame) /\ MAX_STACK \in Nat
  BY State, FrameFacts
<1>2. PICK n \in Nat : n = Len(ts) /\ n \in 0 .. Len(types)
  <2>1. Len(ts) \in Nat /\ Len(ts) <= Len(types)
    BY <1>1, SuffixIs
  <2> QED BY <1>1, <2>1
<1>3. PICK rs : rs = types'
  OBVIOUS
<1>4. rs = SubSeq(types, 1, Len(types) - n) \o us /\ Len(rs) <= MAX_STACK
  BY <1>2, <1>3 DEF Retyped
<1>5. PICK g : g = Frame'
  OBVIOUS
<1>6. Restacked(Frame, n, g, nw)
  BY <1>2, <1>5
<1>7. ASSUME NEW vs, Means(vs, us, nw)
      PROVE  /\ g \in FrameTypes /\ rs \in Seq(Types) /\ Len(rs) = g.operand_offset
             /\ Exchanges(stack, n, vs, StackOf(rs, g))
  <2>1. Exchanges(types, n, us, rs)
    BY <1>4 DEF Exchanges
  <2>2. /\ g \in FrameTypes /\ rs \in Seq(Types) /\ Len(rs) = g.operand_offset
        /\ Exchanges(StackOf(types, Frame), n, vs, StackOf(rs, g))
    BY <1>1, <1>2, <1>6, <1>7, <2>1, Regrouped
  <2> QED BY <1>1, <2>2
<1>8. \E vs : Means(vs, us, nw)
  <2>1. PICK m \in Nat : m = Len(us) /\ m = Len(nw)
    OBVIOUS
  <2>2. nw \in Seq(Words)
    BY <1>6 DEF Restacked
  <2>3. \A i \in 1 .. m : us[i] \in Types /\ nw[i] \in Words
    BY <2>1, <2>2
  <2>4. \A i \in 1 .. m : Typed(us[i], Value(nw[i], us[i])) \in Entries
    BY <2>3, ValueFacts
  <2>5. PICK vs : vs = [i \in 1 .. m |-> Typed(us[i], Value(nw[i], us[i]))]
    OBVIOUS
  <2>6. vs \in [1 .. m -> Entries] /\ \A i \in 1 .. m : vs[i] = Typed(us[i], Value(nw[i], us[i]))
    BY <2>4, <2>5
  <2>7. vs \in Seq(Entries) /\ Len(vs) = m
    BY <2>6
  <2> QED BY <2>1, <2>6, <2>7 DEF Means
<1>9. g \in FrameTypes /\ rs \in Seq(Types) /\ Len(rs) = g.operand_offset
  BY <1>7, <1>8
<1>10. rs \in BoundedSeq(Types, MAX_STACK)
  BY <1>1, <1>4, <1>9, Bounded
<1>11. ASSUME NEW vs, Means(vs, us, nw)
       PROVE  Jvm!Replace(ts, vs)
  <2>1. stack' = StackOf(rs, g)
    BY <1>3, <1>5 DEF stack, StackOf, Frame
  <2>2. stack' = SubSeq(stack, 1, Len(stack) - n) \o vs
    BY <1>7, <1>11, <2>1 DEF Exchanges
  <2>3. Len(stack') <= MAX_STACK
    <3>1. Len(StackOf(rs, g)) = Len(rs)
      BY <1>9, StackFacts
    <3> QED BY <1>4, <2>1, <3>1
  <2>4. Jvm!IsSuffix(ts, Jvm!Types)
    BY Running, JvmSuffix
  <2> QED BY <1>2, <2>2, <2>3, <2>4 DEF Jvm!Replace
<1> QED BY <1>3, <1>5, <1>9, <1>10, <1>11

(* What an instruction has to establish, c being what it is faithful on.   *)
LEMMA Outcome ==
  ASSUME TypeOK, status = "run", NEW c, Faithful(c), Frame' \in FrameTypes,
         types' \in BoundedSeq(Types, MAX_STACK), Frame'.operand_offset = Len(types'),
         localTypes' \in LocalTypes,
         c /\ status' = status => Jvm!Execute(instr'.op, instr'.arg)
  PROVE  TypeOK' /\ Jvm!Next
<1>1. status' \in {"run", "lost"} /\ (status' = "run" => c) /\ (status' # "run" => status' = "lost")
  BY DEF Faithful
<1>2. TypeOK'
  <2>1. cur_stack_frame' \in FrameTypes /\ cur_stack_frame'.operand_offset = Len(types')
    BY DEF Frame
  <2> QED BY <1>1, <2>1 DEF TypeOK, Frame, FrameTypes, LocalTypes
<1>3. ASSUME status' = "run" PROVE Jvm!Next
  <2>1. c /\ status' = status
    BY <1>1, <1>3
  <2>2. Jvm!Execute(instr'.op, instr'.arg)
    BY <2>1
  <2> QED BY <2>2 DEF Jvm!Next
<1>4. ASSUME status' = "lost" PROVE Jvm!Next
  BY <1>4 DEF Jvm!Next, Jvm!GiveUp
<1> QED BY <1>1, <1>2, <1>3, <1>4

(* The operands after an exchange are as many as their types, at most the  *)
(* maximal depth.                                                          *)
LEMMA StepFits ==
  ASSUME TypeOK, NEW ts \in Seq(Types), IsSuffix(ts, types), NEW us \in Seq(Types),
         Retyped(ts, us)
  PROVE  Len(types) - Len(ts) + Len(us) <= MAX_STACK
<1>1. types \in Seq(Types)
  BY State
<1>2. PICK k \in Nat : k = Len(types) - Len(ts) /\ k <= Len(types)
  <2>1. Len(ts) \in Nat /\ Len(ts) <= Len(types)
    BY <1>1, SuffixIs
  <2>2. PICK l \in Nat : l = Len(types)
    BY <1>1
  <2>3. l - Len(ts) \in Nat /\ l - Len(ts) <= l
    BY <2>1, <2>2
  <2> QED BY <2>2, <2>3
<1>3. Joins(Types, types, k, us, Len(us), SubSeq(types, 1, k) \o us)
  BY <1>1, <1>2, Exchanged
<1>4. types' = SubSeq(types, 1, k) \o us /\ Len(types') <= MAX_STACK
  BY <1>2 DEF Retyped
<1> QED BY <1>2, <1>3, <1>4 DEF Joins

(* A step that leaves locals, status and program counter alone goes        *)
(* straight on.                                                            *)
LEMMA StepStraight ==
  ASSUME jump' = 0, UNCHANGED localTypes, status' = status,
         NEW n, NEW nw, Moved(Frame, n, Frame', nw)
  PROVE  Jvm!Straight
<1>1. Frame'.local_variables = Frame.local_variables
  BY DEF Moved, Restacked
<1>2. locals' = locals
  BY <1>1 DEF locals
<1> QED BY <1>2 DEF Jvm!Straight

(* A constant that is pushed means what Java pushes, whatever was in the   *)
(* slot.                                                                   *)
LEMMA StepPushes ==
  ASSUME TypeOK, NEW t \in Types, NEW u \in Macros, NEW v \in Int, NEW x \in Int,
         Constant(t, u, v, x), NEW c, Faithful(c),
         NEW old, old = Frame.operand_stacks[Frame.operand_offset],
         old \in Words /\ c => Value(Write(old, u, x), t) = v
  PROVE  TypeOK' /\ Jvm!Next
<1>1. /\ status = "run" /\ Executes("push", Typed(t, v)) /\ Retyped(<< >>, << t >>)
      /\ Frame' = Pushed(Frame, u, x) /\ jump' = 0 /\ UNCHANGED localTypes
  BY DEF Constant, Completes, Frame
<1>2. /\ Frame \in FrameTypes /\ types \in Seq(Types) /\ Len(types) = Frame.operand_offset
      /\ localTypes \in LocalTypes
  BY <1>1, State
<1>3. IsSuffix(<< >>, types)
  BY <1>2, SuffixNone
<1>4. Len(types) + 1 <= MAX_STACK
  <2>1. << t >> \in Seq(Types) /\ << >> \in Seq(Types) /\ Len(<< t >>) = 1 /\ Len(<< >>) = 0
    OBVIOUS
  <2>2. Len(types) - 0 + 1 <= MAX_STACK
    BY <1>1, <1>2, <1>3, <2>1, StepFits
  <2> QED BY <1>2, <2>2
<1>5. PICK w : w = Write(old, u, x)
  OBVIOUS
<1>6. old \in Words /\ w \in Words /\ Moved(Frame, 0, Frame', << w >>)
  <2>1. Moved(Frame, 0, Frame, << >>)
    BY <1>2, MovedNot
  <2>2. 0 \in 0 .. Frame.operand_offset /\ Frame.operand_offset < MAX_STACK
    BY <1>2, <1>4, FrameFacts
  <2>3. old \in Words /\ Moved(Frame, 0, Pushed(Frame, u, x), Append(<< >>, w))
    BY <1>2, <1>5, <2>1, <2>2, PushMoves
  <2>4. Append(<< >>, w) = << w >>
    OBVIOUS
  <2> QED BY <1>1, <1>5, <2>3, <2>4, WriteFacts
<1>7. << t >> \in Seq(Types) /\ << >> \in Seq(Types) /\ Len(<< t >>) = Len(<< w >>)
      /\ Len(<< >>) = 0
  OBVIOUS
<1>8. /\ Frame' \in FrameTypes /\ types' \in BoundedSeq(Types, MAX_STACK)
      /\ Frame'.operand_offset = Len(types')
      /\ \A vs : Means(vs, << t >>, << w >>) => Jvm!Replace(<< >>, vs)
  BY <1>1, <1>3, <1>6, <1>7, StepExchanges DEF Moved
<1>9. ASSUME c, status' = status
      PROVE  Jvm!Execute(instr'.op, instr'.arg)
  <2>1. Means(<< Typed(t, v) >>, << t >>, << w >>)
    BY <1>5, <1>6, <1>9, MeansOne
  <2>2. instr'.op = "push" /\ instr'.arg = Typed(t, v)
    BY <1>1 DEF Executes
  <2>3. Jvm!Replace(<< >>, << Typed(t, v) >>)
    BY <1>8, <2>1
  <2>4. Jvm!Straight
    BY <1>1, <1>6, <1>9, StepStraight
  <2>5. Jvm!Replace(<< >>, << instr'.arg >>)
    BY <2>2, <2>3
  <2> QED BY <2>2, <2>4, <2>5 DEF Jvm!Execute
<1> QED BY <1>1, <1>2, <1>8, <1>9, Outcome

-----------------------------------------------------------------------------
(* Constants.                                                              *)

(* The immediate operands are in the range of the types they are pushed    *)
(* as.                                                                     *)
LEMMA NumbersFit ==
  /\ 0 .. 1 \subseteq SignedRange(LONG) /\ SignedRange(BYTE) \subseteq SignedRange(INT)
  /\ SignedRange(SHORT) \subseteq SignedRange(INT)
  /\ \A m \in Widths : \A v \in SignedRange(m) : v \in Int /\ (v >= 0 => Unsigned(m, v) = v)
<1>1. /\ \A m \in Widths : m \in Nat \ {0} /\ Even(m)
      /\ 2 <= BYTE /\ 2 * BYTE <= SHORT /\ 2 * SHORT <= INT /\ 2 * INT <= LONG
  BY WidthFacts
<1>2. PICK b, s, i, l \in Nat \ {0} : BYTE = 2 * b /\ SHORT = 2 * s /\ INT = 2 * i /\ LONG = 2 * l
  BY <1>1 DEF Even, Widths
<1>3. /\ SignedRange(BYTE) = -b .. b - 1 /\ SignedRange(SHORT) = -s .. s - 1
      /\ SignedRange(INT) = -i .. i - 1 /\ SignedRange(LONG) = -l .. l - 1
  BY <1>2, SignedRangeIs
<1>4. b <= i /\ s <= i /\ 2 <= l
  BY <1>1, <1>2
<1>5. ASSUME NEW m \in Widths, NEW v \in SignedRange(m)
      PROVE  v \in Int /\ (v >= 0 => Unsigned(m, v) = v)
  <2>1. PICK half \in Nat \ {0} : m = 2 * half
    BY <1>1 DEF Even
  <2>2. v \in -half .. half - 1
    BY <2>1, SignedRangeIs
  <2>3. v >= 0 => v \in 0 .. m - 1
    BY <2>1, <2>2
  <2> QED BY <1>1, <2>2, <2>3, UnsignedSmall
<1> QED BY <1>3, <1>4, <1>5

(* Constants pushed as the type they have or as a long.                    *)
LEMMA WideConstant ==
  ASSUME TypeOK, NEW t \in {"int", "long"}, NEW u \in {t, "long"}, NEW v \in SignedRange(Width[t]),
         Constant(t, u, v, v), Faithful(TRUE)
  PROVE  TypeOK' /\ Jvm!Next
<1>1. t \in Types /\ u \in Macros /\ Width[t] \in Widths
  BY MacroWidth DEF Types, Macros
<1>2. v \in Int
  BY <1>1, NumbersFit
<1>3. PICK old : old = Frame.operand_stacks[Frame.operand_offset]
  OBVIOUS
<1>4. old \in Words => Value(Write(old, u, v), t) = v
  BY <1>2, WriteValue
<1> QED BY <1>1, <1>2, <1>3, <1>4, StepPushes

(* iconst_<i> does what Java says.                                         *)
LEMMA IconstStep ==
  ASSUME TypeOK, Iconst PROVE TypeOK' /\ Jvm!Next
<1>1. PICK v \in SignedRange(INT) : Constant("int", "int", v, v) /\ Faithful(TRUE)
  BY DEF Iconst
<1>2. v \in SignedRange(Width["int"])
  BY <1>1, MacroWidth
<1> QED BY <1>1, <1>2, WideConstant

(* lconst_<l> does what Java says.                                         *)
LEMMA LconstStep ==
  ASSUME TypeOK, Lconst PROVE TypeOK' /\ Jvm!Next
<1>1. PICK v \in 0 .. 1 : Constant("long", "long", v, v) /\ Faithful(TRUE)
  BY DEF Lconst
<1>2. v \in SignedRange(Width["long"])
  BY <1>1, NumbersFit, MacroWidth
<1> QED BY <1>1, <1>2, WideConstant

(* ldc does what Java says.                                                *)
LEMMA LdcStep ==
  ASSUME TypeOK, Ldc PROVE TypeOK' /\ Jvm!Next
<1>1. PICK v \in SignedRange(INT) : Constant("int", "long", v, v) /\ Faithful(TRUE)
  BY DEF Ldc
<1>2. v \in SignedRange(Width["int"])
  BY <1>1, MacroWidth
<1> QED BY <1>1, <1>2, WideConstant

(* ldc2_w does what Java says.                                             *)
LEMMA Ldc2Step ==
  ASSUME TypeOK, Ldc2 PROVE TypeOK' /\ Jvm!Next
<1>1. PICK v \in SignedRange(LONG) : Constant("long", "long", v, v) /\ Faithful(TRUE)
  BY DEF Ldc2
<1>2. v \in SignedRange(Width["long"])
  BY <1>1, MacroWidth
<1> QED BY <1>1, <1>2, WideConstant

(* bipush does what Java says.                                             *)
LEMMA BipushStep ==
  ASSUME TypeOK, Bipush PROVE TypeOK' /\ Jvm!Next
<1>1. PICK v \in SignedRange(BYTE) :
        Constant("int", "long", v, Unsigned(BYTE, v)) /\ Faithful(v >= 0)
  BY DEF Bipush
<1>2. v \in Int /\ v \in SignedRange(Width["int"]) /\ (v >= 0 => Unsigned(BYTE, v) = v)
  BY NumbersFit, MacroWidth DEF Widths
<1>3. PICK x \in Int : x = Unsigned(BYTE, v)
  BY <1>2, UnsignedFacts, WidthFacts DEF Widths
<1>4. PICK old : old = Frame.operand_stacks[Frame.operand_offset]
  OBVIOUS
<1>5. old \in Words /\ v >= 0 => Value(Write(old, "long", x), "int") = v
  BY <1>2, <1>3, WriteValue
<1>6. "int" \in Types /\ "long" \in Macros
  BY DEF Types, Macros
<1>7. PICK c : c = (v >= 0)
  OBVIOUS
<1>8. Faithful(c)
  BY <1>1, <1>7, Zenon
<1>9. old \in Words /\ c => Value(Write(old, "long", x), "int") = v
  BY <1>5, <1>7
<1> QED BY <1>1, <1>2, <1>3, <1>4, <1>6, <1>8, <1>9, StepPushes

(* sipush does what Java says.                                             *)
LEMMA SipushStep ==
  ASSUME TypeOK, Sipush PROVE TypeOK' /\ Jvm!Next
<1>1. PICK old : old = Frame.operand_stacks[Frame.operand_offset]
  OBVIOUS
<1>2. PICK v \in SignedRange(SHORT) : /\ Constant("int", "short", v, v)
                                     /\ Faithful(v >= 0 /\ ResidueAboveShort(old) = 0)
  BY <1>1 DEF Sipush
<1>3. v \in Int /\ (v >= 0 => Unsigned(SHORT, v) = v)
  BY NumbersFit DEF Widths
<1>4. ASSUME old \in Words, v >= 0, ResidueAboveShort(old) = 0
      PROVE  Value(Write(old, "short", v), "int") = v
  <2>1. SHORT \in Nat \ {0} /\ INT \in Nat \ {0} /\ old \in Int
    <3>1. SHORT \in Nat \ {0} /\ INT \in Nat \ {0} /\ LONG \in Nat
      BY WidthFacts DEF Widths
    <3> QED BY <1>4, <3>1 DEF Words
  <2>2. PICK a \in Nat : a = Unsigned(INT, old)
    BY <2>1, UnsignedFacts
  <2>3. a \div SHORT = 0
    BY <1>4, <2>2 DEF ResidueAboveShort
  <2>4. a < SHORT
    BY <2>1, <2>3
  <2> QED BY <1>3, <1>4, <2>2, <2>4, WriteNarrow, MacroWidth
<1>5. PICK c : c = (v >= 0 /\ ResidueAboveShort(old) = 0)
  OBVIOUS
<1>6. "int" \in Types /\ "short" \in Macros
  BY DEF Types, Macros
<1>7. old \in Words /\ c => Value(Write(old, "short", v), "int") = v
  BY <1>4, <1>5
<1>8. Faithful(c)
  BY <1>2, <1>5, Zenon
<1> QED BY <1>1, <1>2, <1>3, <1>6, <1>7, <1>8, StepPushes

(* new leaves a reference where Java does.                                 *)
LEMMA NewStep ==
  ASSUME TypeOK, New PROVE TypeOK' /\ Jvm!Next
<1>1. PICK r \in Refs : Constant("ref", "long", r, r) /\ Faithful(TRUE)
  BY DEF New
<1>2. r \in Words /\ r \in Int
  BY WordAssumption DEF Words
<1>3. PICK old : old = Frame.operand_stacks[Frame.operand_offset]
  OBVIOUS
<1>4. old \in Words => Value(Write(old, "long", r), "ref") = r
  BY <1>2, WriteLong DEF Value
<1>5. "ref" \in Types /\ "long" \in Macros
  BY DEF Types, Macros
<1> QED BY <1>1, <1>2, <1>3, <1>4, <1>5, StepPushes

-----------------------------------------------------------------------------
(* Operands on top of the stack.                                           *)

(* The two top operands of a frame, the upper one first.                   *)
Upper(f) == Word(f, f.operand_offset)
Under(f) == Word(f, f.operand_offset - 1)

(* An instruction that finds an operand of type t on top.                  *)
LEMMA OneOperand ==
  ASSUME TypeOK, NEW t \in Types, Has(<< t >>)
  PROVE  /\ status = "run" /\ << t >> \in Seq(Types) /\ IsSuffix(<< t >>, types) /\ Len(<< t >>) = 1
         /\ Frame \in FrameTypes /\ 1 <= Frame.operand_offset /\ 1 \in 0 .. Frame.operand_offset
         /\ Upper(Frame) \in Words /\ TopWord(Frame) = Upper(Frame)
         /\ Jvm!Top = Value(Upper(Frame), t)
         /\ Jvm!Last(stack) = Typed(t, Value(Upper(Frame), t))
<1>1. status = "run" /\ IsSuffix(<< t >>, types) /\ << t >> \in Seq(Types) /\ Len(<< t >>) = 1
  BY DEF Has
<1>2. /\ Frame \in FrameTypes /\ types \in Seq(Types) /\ Len(types) = Frame.operand_offset
  BY <1>1, State
<1>3. PICK n \in Nat : n = Len(types) /\ n = Frame.operand_offset
  BY <1>2
<1>4. 1 <= n /\ << t >>[1] = types[n - 1 + 1]
  <2>1. PICK x : x = << t >>
    OBVIOUS
  <2>2. x \in Seq(Types) /\ Len(x) = 1 /\ IsSuffix(x, types)
    BY <1>1, <2>1
  <2>3. Len(x) <= Len(types) /\ \A i \in 1 .. Len(x) : x[i] = types[Len(types) - Len(x) + i]
    BY <1>2, <2>2, SuffixIs
  <2>4. 1 <= n /\ x[1] = types[n - 1 + 1]
    BY <1>3, <2>2, <2>3
  <2> QED BY <2>1, <2>4
<1>5. n \in 1 .. n /\ types[n] = t
  BY <1>3, <1>4
<1>6. /\ Word(Frame, n) \in Words /\ stack[n] = Typed(t, Value(Word(Frame, n), t))
      /\ Len(stack) = n
  BY <1>1, <1>3, <1>5, Running
<1>7. Upper(Frame) = Word(Frame, n) /\ TopWord(Frame) = Word(Frame, n)
  BY <1>3 DEF Upper, TopWord, Word
<1>8. Jvm!Last(stack) = stack[n]
  BY <1>6, JvmNames DEF Last
<1>9. Jvm!Top = Value(Word(Frame, n), t)
  BY <1>6, <1>8 DEF Jvm!Top, Typed
<1> QED BY <1>1, <1>2, <1>3, <1>5, <1>6, <1>7, <1>8, <1>9

(* An instruction that finds operands of types s and t on top.             *)
LEMMA TwoOperands ==
  ASSUME TypeOK, NEW s \in Types, NEW t \in Types, Has(<< s, t >>)
  PROVE  /\ status = "run" /\ << s, t >> \in Seq(Types) /\ IsSuffix(<< s, t >>, types)
         /\ Len(<< s, t >>) = 2
         /\ Frame \in FrameTypes /\ 2 <= Frame.operand_offset /\ 2 \in 0 .. Frame.operand_offset
         /\ Upper(Frame) \in Words /\ TopWord(Frame) = Upper(Frame)
         /\ Under(Frame) \in Words
         /\ Jvm!Top = Value(Upper(Frame), t) /\ Jvm!Second = Value(Under(Frame), s)
<1>1. /\ status = "run" /\ IsSuffix(<< s, t >>, types) /\ << s, t >> \in Seq(Types)
      /\ Len(<< s, t >>) = 2
  BY DEF Has
<1>2. /\ Frame \in FrameTypes /\ types \in Seq(Types) /\ Len(types) = Frame.operand_offset
  BY <1>1, State
<1>3. PICK n \in Nat : n = Len(types) /\ n = Frame.operand_offset
  BY <1>2
<1>4. 2 <= n /\ \A i \in 1 .. 2 : << s, t >>[i] = types[n - 2 + i]
  <2>1. PICK x : x = << s, t >>
    OBVIOUS
  <2>2. x \in Seq(Types) /\ Len(x) = 2 /\ IsSuffix(x, types)
    BY <1>1, <2>1
  <2>3. Len(x) <= Len(types) /\ \A i \in 1 .. Len(x) : x[i] = types[Len(types) - Len(x) + i]
    BY <1>2, <2>2, SuffixIs
  <2>4. 2 <= n /\ \A i \in 1 .. 2 : x[i] = types[n - 2 + i]
    BY <1>3, <2>2, <2>3
  <2> QED BY <2>1, <2>4
<1>5. n \in 1 .. n /\ types[n] = t /\ n - 1 \in 1 .. n /\ types[n - 1] = s
  <2>1. << s, t >>[1] = types[n - 2 + 1] /\ << s, t >>[2] = types[n - 2 + 2]
    BY <1>4
  <2>2. n - 2 + 1 = n - 1 /\ n - 2 + 2 = n
    OBVIOUS
  <2> QED BY <1>4, <2>1, <2>2
<1>6. /\ Word(Frame, n) \in Words /\ stack[n] = Typed(t, Value(Word(Frame, n), t))
      /\ Word(Frame, n - 1) \in Words /\ stack[n - 1] = Typed(s, Value(Word(Frame, n - 1), s))
      /\ Len(stack) = n /\ stack \in Seq(Entries)
  BY <1>1, <1>3, <1>5, Running
<1>7. /\ Upper(Frame) = Word(Frame, n) /\ TopWord(Frame) = Word(Frame, n)
      /\ Under(Frame) = Word(Frame, n - 1)
  BY <1>3 DEF Upper, Under, TopWord, Word
<1>8. Jvm!Last(stack) = stack[n]
  BY <1>6, JvmNames DEF Last
<1>9. Jvm!Last(Jvm!Front(stack)) = stack[n - 1]
  <2>1. PICK p : p = SubSeq(stack, 1, n - 1)
    OBVIOUS
  <2>2. n - 1 \in 0 .. Len(stack)
    BY <1>4, <1>6
  <2>3. Len(p) = n - 1 /\ \A i \in 1 .. n - 1 : p[i] = stack[i]
    BY <1>6, <2>1, <2>2, Lower
  <2>4. Jvm!Front(stack) = p
    BY <1>6, <2>1, JvmNames DEF Front
  <2>5. Jvm!Last(p) = p[n - 1]
    BY <2>3, JvmNames DEF Last
  <2> QED BY <1>4, <2>3, <2>4, <2>5
<1>10. Jvm!Top = Value(Word(Frame, n), t) /\ Jvm!Second = Value(Word(Frame, n - 1), s)
  BY <1>6, <1>8, <1>9 DEF Jvm!Top, Jvm!Second, Typed
<1> QED BY <1>1, <1>2, <1>3, <1>4, <1>6, <1>7, <1>10

(* One pop takes the top operand.                                          *)
LEMMA PopsOne ==
  ASSUME NEW f \in FrameTypes, 1 <= f.operand_offset, NEW t \in Macros
  PROVE  Moved(f, 1, Popped(f, t), << >>)
<1>1. Moved(f, 0, f, << >>)
  BY MovedNot
<1>2. 0 < f.operand_offset /\ 0 \in Nat
  BY FrameFacts
<1>3. Moved(f, 0 + 1, Popped(f, t), << >>)
  BY <1>1, <1>2, PopMoves
<1> QED BY <1>3

(* Two pops take two operands, and between them the lower one is on top.   *)
LEMMA PopsTwo ==
  ASSUME NEW f \in FrameTypes, 2 <= f.operand_offset, NEW t \in Macros, NEW u \in Macros
  PROVE  /\ Moved(f, 2, Popped(Popped(f, t), u), << >>)
         /\ TopWord(Popped(f, t)) = Under(f)
<1>1. Moved(f, 1, Popped(f, t), << >>)
  BY FrameFacts, PopsOne
<1>2. 1 < f.operand_offset /\ 1 \in Nat
  BY FrameFacts
<1>3. Moved(f, 1 + 1, Popped(Popped(f, t), u), << >>)
  BY <1>1, <1>2, PopMoves
<1>4. PICK o \in 2 .. MAX_STACK : o = f.operand_offset
  BY FrameFacts
<1>5. PICK g : g = Popped(f, t)
  OBVIOUS
<1>6. g.operand_offset = o - 1 /\ Word(g, o - 1) = Word(f, o - 1)
  BY <1>1, <1>4, <1>5 DEF Moved, Restacked
<1>7. TopWord(g) = Word(g, o - 1)
  BY <1>6 DEF TopWord, Word
<1> QED BY <1>3, <1>4, <1>5, <1>6, <1>7 DEF Under

(* A value pushed where n operands were popped.                            *)
LEMMA PushesInstead ==
  ASSUME NEW f \in FrameTypes, NEW n \in Nat \ {0}, n <= f.operand_offset,
         NEW g, Moved(f, n, g, << >>), NEW t \in Macros, NEW v \in Int
  PROVE  \E old \in Words : /\ old = g.operand_stacks[g.operand_offset]
                            /\ Write(old, t, v) \in Words
                            /\ Moved(f, n, Pushed(g, t, v), << Write(old, t, v) >>)
<1>1. PICK o \in 0 .. MAX_STACK : o = f.operand_offset
  BY FrameFacts
<1>2. n \in 0 .. f.operand_offset
  BY <1>1
<1>3. g.operand_offset < MAX_STACK
  BY <1>1, FrameFacts DEF Moved, Restacked
<1>4. PICK old : old = g.operand_stacks[g.operand_offset]
  OBVIOUS
<1>5. old \in Words /\ Moved(f, n, Pushed(g, t, v), Append(<< >>, Write(old, t, v)))
  BY <1>2, <1>3, <1>4, PushMoves
<1>6. Append(<< >>, Write(old, t, v)) = << Write(old, t, v) >>
  OBVIOUS
<1> QED BY <1>4, <1>5, <1>6, WriteFacts

-----------------------------------------------------------------------------
(* Instructions that exchange operands and do nothing else.                *)

(* An instruction that replaces operands by what Java replaces them with   *)
(* does what Java says.                                                    *)
LEMMA StepReplaces ==
  ASSUME TypeOK, status = "run", NEW ts \in Seq(Types), IsSuffix(ts, types),
         NEW us \in Seq(Types), Retyped(ts, us), UNCHANGED localTypes,
         NEW nw, Moved(Frame, Len(ts), Frame', nw), Len(nw) = Len(us), NEW c, Faithful(c),
         c => jump' = 0, NEW vs, c => Means(vs, us, nw),
         c /\ Jvm!Replace(ts, vs) /\ Jvm!Straight => Jvm!Execute(instr'.op, instr'.arg)
  PROVE  TypeOK' /\ Jvm!Next
<1>1. /\ Frame' \in FrameTypes /\ types' \in BoundedSeq(Types, MAX_STACK)
      /\ Frame'.operand_offset = Len(types')
      /\ \A x : Means(x, us, nw) => Jvm!Replace(ts, x)
  BY StepExchanges DEF Moved
<1>2. localTypes' \in LocalTypes
  BY State
<1>3. ASSUME c, status' = status
      PROVE  Jvm!Execute(instr'.op, instr'.arg)
  <2>1. Jvm!Replace(ts, vs)
    BY <1>1, <1>3
  <2>2. Jvm!Straight
    BY <1>3, StepStraight
  <2> QED BY <1>3, <2>1, <2>2
<1> QED BY <1>1, <1>2, <1>3, Outcome

(* Exchange, by the words that it leaves and what they mean.               *)
LEMMA ExchangeStep ==
  ASSUME TypeOK, NEW takes \in Seq(Types), NEW gives, NEW us \in Seq(Types), NEW nw,
         NEW f, NEW c, Exchange(takes, gives, f, c),
         Moved(Frame, Len(takes), f, nw), Means(gives, us, nw)
  PROVE  TypeOK' /\ Jvm!Next
<1>1. PICK n \in Nat : n = Len(us)
  OBVIOUS
<1>2. /\ gives \in Seq(Entries) /\ Len(gives) = n /\ Len(nw) = n
      /\ \A i \in 1 .. n : gives[i] = Typed(us[i], Value(nw[i], us[i]))
  BY <1>1 DEF Means
<1>3. [i \in DOMAIN gives |-> gives[i].type] = us
  <2>1. \A i \in 1 .. n : gives[i].type = us[i]
    <3> TAKE i \in 1 .. n
    <3>1. PICK t : t = us[i]
      OBVIOUS
    <3>2. gives[i] = Typed(t, Value(nw[i], us[i]))
      BY <1>2, <3>1
    <3> QED BY <3>1, <3>2 DEF Typed
  <2>2. us = [i \in 1 .. n |-> us[i]] /\ DOMAIN gives = 1 .. n
    BY <1>1, <1>2
  <2> QED BY <2>1, <2>2
<1>4. /\ status = "run" /\ IsSuffix(takes, types)
      /\ instr' = [op |-> "exchange", arg |-> [takes |-> takes, gives |-> gives]]
      /\ Retyped(takes, us) /\ Frame' = f /\ jump' = 0 /\ UNCHANGED localTypes /\ Faithful(c)
  BY <1>3 DEF Exchange, Has, Executes, Completes, Frame
<1>5. Jvm!Replace(takes, gives) /\ Jvm!Straight => Jvm!Execute(instr'.op, instr'.arg)
  <2>1. instr'.op = "exchange" /\ instr'.arg.takes = takes /\ instr'.arg.gives = gives
    BY <1>4
  <2>2. Jvm!Replace(takes, gives) => Jvm!Replace(instr'.arg.takes, instr'.arg.gives)
    BY <2>1
  <2> QED BY <2>1, <2>2 DEF Jvm!Execute
<1>6. Moved(Frame, Len(takes), Frame', nw) /\ Len(nw) = Len(us)
  BY <1>1, <1>2, <1>4
<1> QED BY <1>4, <1>5, <1>6, StepReplaces

(* Values are moved as types that macros are used with.                    *)
LEMMA TypeNames ==
  /\ {"int", "long"} \subseteq Types /\ "ref" \in Types
  /\ Macros = {"char", "short", "int", "long"}
  /\ \A t \in Types : AsMoved(t) \in Macros
  BY DEF Types, Macros, AsMoved

(* An invocation of println takes what Java takes.                         *)
LEMMA PrintlnStep ==
  ASSUME TypeOK, NEW p \in Printed, Println(p[1], p[2])
  PROVE  TypeOK' /\ Jvm!Next
<1>1. PICK u \in Types, t \in Macros : u = p[1] /\ t = p[2]
  BY DEF Printed, Types, Macros
<1>2. Exchange(<< u >>, << >>, Popped(Frame, t), TRUE)
  BY <1>1 DEF Println
<1>3. Has(<< u >>)
  BY <1>2 DEF Exchange
<1>4. Moved(Frame, 1, Popped(Frame, t), << >>) /\ << u >> \in Seq(Types) /\ Len(<< u >>) = 1
  BY <1>3, OneOperand, PopsOne
<1>5. << >> \in Seq(Types)
  OBVIOUS
<1> QED BY <1>2, <1>4, <1>5, MeansNothing, ExchangeStep

(* putstatic takes what Java takes.                                        *)
LEMMA PutStaticStep ==
  ASSUME TypeOK, NEW t \in Types, PutStatic(t)
  PROVE  TypeOK' /\ Jvm!Next
<1>1. Exchange(<< t >>, << >>, Popped(Frame, "long"), TRUE)
  BY DEF PutStatic
<1>2. Has(<< t >>)
  BY <1>1 DEF Exchange
<1>3. /\ Moved(Frame, 1, Popped(Frame, "long"), << >>) /\ << t >> \in Seq(Types)
      /\ Len(<< t >>) = 1
  BY <1>2, OneOperand, PopsOne, TypeNames
<1>4. << >> \in Seq(Types)
  OBVIOUS
<1> QED BY <1>1, <1>3, <1>4, MeansNothing, ExchangeStep

(* putfield takes what Java takes.                                         *)
LEMMA PutFieldStep ==
  ASSUME TypeOK, NEW t \in Types, PutField(t)
  PROVE  TypeOK' /\ Jvm!Next
<1>1. PICK g : g = Popped(Popped(Frame, "long"), "long")
  OBVIOUS
<1>2. Exchange(<< "ref", t >>, << >>, g, TRUE)
  BY <1>1 DEF PutField
<1>3. Has(<< "ref", t >>)
  BY <1>2 DEF Exchange
<1>4. /\ Moved(Frame, 2, g, << >>) /\ << "ref", t >> \in Seq(Types)
      /\ Len(<< "ref", t >>) = 2
  BY <1>1, <1>3, TwoOperands, PopsTwo, TypeNames
<1>5. << >> \in Seq(Types)
  OBVIOUS
<1> QED BY <1>2, <1>4, <1>5, MeansNothing, ExchangeStep

(* getstatic leaves what the field means.                                  *)
LEMMA GetStaticStep ==
  ASSUME TypeOK, NEW t \in Types, NEW w \in Contents, GetStatic(t, w)
  PROVE  TypeOK' /\ Jvm!Next
<1>1. w \in Words /\ w \in Int
  BY WordAssumption DEF Words
<1>2. PICK gives : gives = << Typed(t, Value(w, t)) >>
  OBVIOUS
<1>3. Exchange(<< >>, gives, Pushed(Frame, "long", w), TRUE)
  BY <1>2 DEF GetStatic
<1>4. /\ status = "run" /\ Retyped(<< >>, [i \in DOMAIN gives |-> gives[i].type])
      /\ IsSuffix(<< >>, types)
  BY <1>3 DEF Exchange, Has
<1>5. [i \in DOMAIN gives |-> gives[i].type] = << t >>
  BY <1>2 DEF Typed
<1>6. << t >> \in Seq(Types) /\ Len(<< t >>) = 1 /\ << >> \in Seq(Types) /\ Len(<< >>) = 0
  OBVIOUS
<1>7. Len(types) - 0 + 1 <= MAX_STACK
  BY <1>4, <1>5, <1>6, StepFits
<1>8. /\ Frame \in FrameTypes /\ types \in Seq(Types) /\ Frame.operand_offset = Len(types)
  BY <1>4, State
<1>9. PICK n \in Nat : n = Frame.operand_offset /\ n < MAX_STACK
  BY <1>7, <1>8, FrameFacts
<1>10. PICK old : old = Frame.operand_stacks[Frame.operand_offset]
  OBVIOUS
<1>11. Moved(Frame, 0, Frame, << >>) /\ 0 \in 0 .. Frame.operand_offset
  BY <1>8, <1>9, MovedNot
<1>12. old \in Words /\ Moved(Frame, 0, Pushed(Frame, "long", w), Append(<< >>, Write(old, "long", w)))
  BY <1>1, <1>8, <1>9, <1>10, <1>11, PushMoves, TypeNames
<1>13. Append(<< >>, Write(old, "long", w)) = << w >>
  BY <1>1, <1>12, WriteLong
<1>14. Means(gives, << t >>, << w >>)
  BY <1>1, <1>2, MeansOne
<1> QED BY <1>3, <1>6, <1>12, <1>13, <1>14, ExchangeStep

(* What is pushed is what is meant, whatever was in the slot.              *)
Leaves(m, x, t, v) == \A old \in Words : Value(Write(old, m, x), t) = v

(* A reference written as a long is meant.                                 *)
LEMMA LeavesRef ==
  ASSUME NEW t \in Types, NEW w \in Words
  PROVE  w \in Int /\ Leaves("long", w, t, Value(w, t))
<1>1. w \in Int
  BY DEF Words
<1>2. \A old \in Words : Write(old, "long", w) = w
  BY <1>1, WriteLong
<1> QED BY <1>1, <1>2 DEF Leaves

(* A number written as its own type or as a long is meant.                 *)
LEMMA LeavesNumber ==
  ASSUME NEW t \in {"int", "long"}, NEW u \in {t, "long"}, NEW v \in Int
  PROVE  /\ Leaves(u, v, t, Signed(Width[t], v))
         /\ v \in SignedRange(Width[t]) => Leaves(u, v, t, v)
  BY WriteValue DEF Leaves

(* An instruction that replaces the top operand by one value.              *)
LEMMA OneForOne ==
  ASSUME TypeOK, NEW s \in Types, NEW t \in Types, NEW v, NEW u \in Macros, NEW m \in Macros,
         NEW x \in Int, Exchange(<< s >>, << Typed(t, v) >>, Pushed(Popped(Frame, u), m, x), TRUE),
         Leaves(m, x, t, v)
  PROVE  TypeOK' /\ Jvm!Next
<1>1. Has(<< s >>)
  BY DEF Exchange
<1>2. PICK g : g = Popped(Frame, u)
  OBVIOUS
<1>3. /\ Frame \in FrameTypes /\ 1 <= Frame.operand_offset /\ Moved(Frame, 1, g, << >>)
      /\ << s >> \in Seq(Types) /\ Len(<< s >>) = 1
  BY <1>1, <1>2, OneOperand, PopsOne
<1>4. PICK old \in Words : /\ Write(old, m, x) \in Words
                           /\ Moved(Frame, 1, Pushed(g, m, x), << Write(old, m, x) >>)
  <2>1. 1 \in Nat \ {0}
    OBVIOUS
  <2> QED BY <1>3, <2>1, PushesInstead, Zenon
<1>5. PICK w \in Words : w = Write(old, m, x)
  BY <1>4
<1>6. v = Value(w, t)
  BY <1>5 DEF Leaves
<1>7. Means(<< Typed(t, v) >>, << t >>, << w >>) /\ << t >> \in Seq(Types)
  BY <1>6, MeansOne
<1> QED BY <1>2, <1>3, <1>4, <1>5, <1>7, ExchangeStep

(* getfield leaves what the field means.                                   *)
LEMMA GetFieldStep ==
  ASSUME TypeOK, NEW t \in Types, NEW w \in Contents, GetField(t, w)
  PROVE  TypeOK' /\ Jvm!Next
<1>1. w \in Words
  BY WordAssumption DEF Words
<1>2. PICK v : v = Value(w, t)
  OBVIOUS
<1>3. Exchange(<< "ref" >>, << Typed(t, v) >>, Pushed(Popped(Frame, "long"), "long", w), TRUE)
  BY <1>2 DEF GetField
<1>4. w \in Int /\ Leaves("long", w, t, v)
  BY <1>1, <1>2, LeavesRef
<1> QED BY <1>3, <1>4, OneForOne, TypeNames

(* newarray takes a length and leaves a reference.                         *)
LEMMA NewArrayStep ==
  ASSUME TypeOK, NEW r \in Refs, NewArray(r)
  PROVE  TypeOK' /\ Jvm!Next
<1>1. r \in Words
  BY WordAssumption DEF Words
<1>2. Exchange(<< "int" >>, << Typed("ref", r) >>, Pushed(Popped(Frame, "int"), "long", r), TRUE)
  BY DEF NewArray
<1>3. Value(r, "ref") = r
  BY DEF Value
<1>4. r \in Int /\ Leaves("long", r, "ref", r)
  BY <1>1, <1>3, LeavesRef, TypeNames
<1> QED BY <1>2, <1>4, OneForOne, TypeNames

(* The numbers that are in the range of every type.                        *)
LEMMA SmallNumbers ==
  \A t \in {"int", "long"} : {0, -1, 1} \subseteq SignedRange(Width[t])
<1>1. /\ INT \in Nat \ {0} /\ LONG \in Nat \ {0} /\ Even(INT) /\ Even(LONG)
      /\ 4 <= INT /\ 4 <= LONG
  BY WidthFacts DEF Widths
<1>2. PICK i, l \in Nat \ {0} : INT = 2 * i /\ LONG = 2 * l
  BY <1>1 DEF Even
<1>3. SignedRange(INT) = -i .. i - 1 /\ SignedRange(LONG) = -l .. l - 1
  BY <1>2, SignedRangeIs
<1>4. 2 <= i /\ 2 <= l
  BY <1>1, <1>2
<1>5. {0, -1, 1} \subseteq SignedRange(INT) /\ {0, -1, 1} \subseteq SignedRange(LONG)
  BY <1>3, <1>4
<1> QED BY <1>5, MacroWidth

(* instanceof takes a reference and leaves 0 or 1.                         *)
LEMMA InstanceofStep ==
  ASSUME TypeOK, NEW v \in 0 .. 1, Instanceof(v)
  PROVE  TypeOK' /\ Jvm!Next
<1>1. Exchange(<< "ref" >>, << Typed("int", v) >>, Pushed(Popped(Frame, "long"), "int", v), TRUE)
  BY DEF Instanceof
<1>2. v \in Int /\ v \in SignedRange(Width["int"])
  BY SmallNumbers
<1>3. Leaves("int", v, "int", v)
  BY <1>2, LeavesNumber
<1> QED BY <1>1, <1>2, <1>3, OneForOne, TypeNames

(* A sample pushed as its type is moved is meant.                          *)
LEMMA SampleFacts ==
  ASSUME NEW t \in Types, NEW v \in Samples(t)
  PROVE  v \in Int /\ Leaves(AsMoved(t), v, t, v)
<1>1. CASE t = "ref"
  <2>1. v \in Words /\ AsMoved(t) = "long" /\ Value(v, t) = v
    BY <1>1, WordAssumption DEF Samples, Words, AsMoved, Value
  <2> QED BY <2>1, LeavesRef
<1>2. CASE t # "ref"
  <2>1. t \in {"int", "long"} /\ AsMoved(t) = t
    BY <1>2 DEF Types, AsMoved
  <2>2. v \in {0, -1}
    BY <1>2 DEF Samples
  <2>3. v \in Int /\ v \in SignedRange(Width[t])
    BY <2>1, <2>2, SmallNumbers
  <2> QED BY <2>1, <2>3, LeavesNumber
<1> QED BY <1>1, <1>2

(* A conversion from or to a type modelled by its samples does what Java   *)
(* says.                                                                   *)
LEMMA FloatConvertsStep ==
  ASSUME TypeOK, NEW t \in {"int", "long"}, NEW u \in {"int", "long"}, NEW v \in Samples(u),
         FloatConverts(t, u, v)
  PROVE  TypeOK' /\ Jvm!Next
<1>1. Exchange(<< t >>, << Typed(u, v) >>, Pushed(Popped(Frame, t), u, v), TRUE)
  BY DEF FloatConverts
<1>2. AsMoved(u) = u /\ u \in Types /\ t \in Types /\ t \in Macros /\ u \in Macros
  BY TypeNames DEF AsMoved
<1>3. v \in Int /\ Leaves(u, v, u, v)
  BY <1>2, SampleFacts
<1> QED BY <1>1, <1>2, <1>3, OneForOne

(* A load from an array takes reference and index and leaves the element.  *)
LEMMA ElementStep ==
  ASSUME TypeOK, NEW p \in ArrayLoads, NEW v \in Samples(p[2]), Element(p[1], p[2], v)
  PROVE  TypeOK' /\ Jvm!Next
<1>1. PICK u \in Macros, t \in Types : u = p[1] /\ t = p[2] /\ AsMoved(t) \in Macros
  BY TypeNames DEF ArrayLoads
<1>2. PICK g : g = Popped(Popped(Frame, "int"), u)
  OBVIOUS
<1>3. PICK m \in Macros : m = AsMoved(t)
  BY <1>1
<1>4. PICK c : Exchange(<< "ref", "int" >>, << Typed(t, v) >>, Pushed(g, m, v), c)
  BY <1>1, <1>2, <1>3 DEF Element
<1>5. Has(<< "ref", "int" >>)
  BY <1>4 DEF Exchange
<1>6. /\ Frame \in FrameTypes /\ 2 <= Frame.operand_offset /\ Moved(Frame, 2, g, << >>)
      /\ << "ref", "int" >> \in Seq(Types) /\ Len(<< "ref", "int" >>) = 2
  BY <1>2, <1>5, TwoOperands, PopsTwo, TypeNames
<1>7. v \in Int /\ Leaves(m, v, t, v)
  BY <1>1, <1>3, SampleFacts
<1>8. PICK old \in Words : /\ Write(old, m, v) \in Words
                           /\ Moved(Frame, 2, Pushed(g, m, v), << Write(old, m, v) >>)
  BY <1>6, <1>7, PushesInstead
<1>9. PICK w \in Words : w = Write(old, m, v)
  BY <1>8
<1>10. v = Value(w, t)
  BY <1>7, <1>9 DEF Leaves
<1>11. Means(<< Typed(t, v) >>, << t >>, << w >>) /\ << t >> \in Seq(Types)
  BY <1>10, MeansOne
<1> QED BY <1>4, <1>6, <1>8, <1>9, <1>11, ExchangeStep

-----------------------------------------------------------------------------
(* Arithmetic and conversions.                                             *)

(* A quotient is an integer.                                               *)
LEMMA QuotientFacts ==
  ASSUME NEW a \in Int, NEW b \in Int, b # 0
  PROVE  Quotient(a, b) \in Int
<1>1. PICK x \in Nat : x = IF a < 0 THEN -a ELSE a
  OBVIOUS
<1>2. PICK y \in Nat \ {0} : y = IF b < 0 THEN -b ELSE b
  OBVIOUS
<1>3. PICK q \in Int : q = x \div y
  OBVIOUS
<1> QED BY <1>1, <1>2, <1>3 DEF Quotient

(* The result of an operator is an integer.                                *)
LEMMA ResultFacts ==
  ASSUME NEW op \in Operators, NEW a \in Int, NEW b \in Int, op = "div" => b # 0
  PROVE  Result(op, a, b) \in Int
<1>1. CASE op \in {"add", "sub"}
  BY <1>1 DEF Result
<1>2. CASE op = "mul"
  <2>1. a * b \in Int
    OBVIOUS
  <2> QED BY <1>2, <2>1 DEF Result
<1>3. CASE op = "div"
  BY <1>3, QuotientFacts DEF Result
<1> QED BY <1>1, <1>2, <1>3 DEF Operators

(* Integer arithmetic does what Java says, on the operands the handlers    *)
(* are faithful on.                                                        *)
LEMMA ArithmeticStep ==
  ASSUME TypeOK, NEW t \in {"int", "long"}, NEW op \in Operators, Arithmetic(op, t)
  PROVE  TypeOK' /\ Jvm!Next
<1>1. t \in Types /\ t \in Macros
  BY TypeNames
<1>2. PICK a, b, r : /\ a = Read(TopWord(Popped(Frame, t)), t) /\ b = Read(TopWord(Frame), t)
                     /\ r = Result(op, a, b)
  OBVIOUS
<1>3. PICK g : g = Popped(Popped(Frame, t), t)
  OBVIOUS
<1>4. /\ Has(<< t, t >>) /\ ~Traps(op, t, a, b) /\ Executes(op, t) /\ Retyped(<< t, t >>, << t >>)
      /\ Frame' = Pushed(g, t, r) /\ jump' = 0 /\ UNCHANGED localTypes /\ Faithful(TRUE)
  BY <1>2, <1>3 DEF Arithmetic, Completes, Frame
<1>5. /\ status = "run" /\ << t, t >> \in Seq(Types) /\ IsSuffix(<< t, t >>, types)
      /\ Len(<< t, t >>) = 2 /\ Frame \in FrameTypes /\ 2 <= Frame.operand_offset
      /\ Upper(Frame) \in Words /\ TopWord(Frame) = Upper(Frame) /\ Under(Frame) \in Words
      /\ Jvm!Top = Value(Upper(Frame), t) /\ Jvm!Second = Value(Under(Frame), t)
  BY <1>1, <1>4, TwoOperands
<1>6. Moved(Frame, 2, g, << >>) /\ TopWord(Popped(Frame, t)) = Under(Frame)
  BY <1>1, <1>3, <1>5, PopsTwo
<1>7. a \in Int /\ b \in Int /\ Jvm!Top = b /\ Jvm!Second = a
  <2>1. t # "ref"
    OBVIOUS
  <2> QED BY <1>1, <1>2, <1>5, <1>6, <2>1, ValueFacts
<1>8. op = "div" => b # 0
  BY <1>4 DEF Traps
<1>9. r \in Int
  BY <1>2, <1>7, <1>8, ResultFacts
<1>10. PICK old \in Words : /\ Write(old, t, r) \in Words
                            /\ Moved(Frame, 2, Pushed(g, t, r), << Write(old, t, r) >>)
  <2>1. 2 \in Nat \ {0}
    OBVIOUS
  <2> QED BY <1>1, <1>5, <1>6, <1>9, <2>1, PushesInstead, Zenon
<1>11. PICK w, v : w \in Words /\ w = Write(old, t, r) /\ v = Signed(Width[t], r)
  BY <1>10
<1>12. v = Value(w, t)
  BY <1>9, <1>11, WriteValue
<1>13. Means(<< Typed(t, v) >>, << t >>, << w >>) /\ << t >> \in Seq(Types)
       /\ Len(<< w >>) = Len(<< t >>)
  BY <1>1, <1>11, <1>12, MeansOne
<1>14. Moved(Frame, 2, Frame', << w >>)
  BY <1>4, <1>10, <1>11
<1>15. Jvm!Replace(<< t, t >>, << Typed(t, v) >>) /\ Jvm!Straight
         => Jvm!Execute(instr'.op, instr'.arg)
  <2>1. instr'.op = op /\ instr'.arg = t
    BY <1>4 DEF Executes
  <2>2. Jvm!Bits[t] = Width[t]
    BY MacroWidth DEF Jvm!Bits
  <2>3. Jvm!Typed(t, Jvm!Signed(Jvm!Bits[t], r)) = Typed(t, v)
    BY <1>11, <2>2, JvmNames
  <2>4. r = CASE op = "add" -> Jvm!Second + Jvm!Top
              [] op = "sub" -> Jvm!Second - Jvm!Top
              [] op = "mul" -> Jvm!Second * Jvm!Top
              [] op = "div" -> Jvm!Quotient(Jvm!Second, Jvm!Top)
    BY <1>2, <1>7, JvmNames, Zenon DEF Result
  <2>5. Jvm!Replace(<< t, t >>, << Typed(t, v) >>) /\ Jvm!Straight => Jvm!Binary(op, t)
    BY <1>7, <1>8, <2>3, <2>4, Zenon DEF Jvm!Binary
  <2>6. op \in {"add", "sub", "mul", "div"}
    BY DEF Operators
  <2> QED BY <2>1, <2>5, <2>6 DEF Jvm!Execute
<1> QED BY <1>4, <1>5, <1>13, <1>14, <1>15, StepReplaces

(* A trap does not change what Java sees.                                  *)
LEMMA SigfpeStep ==
  ASSUME TypeOK, NEW t \in {"int", "long"}, Sigfpe(t)
  PROVE  TypeOK' /\ UNCHANGED Jvm!vars
<1>1. status = "run" /\ status' = "sigfpe" /\ UNCHANGED <<cur_stack_frame, types, localTypes, instr, jump>>
  BY DEF Sigfpe, Has
<1>2. TypeOK'
  BY <1>1 DEF TypeOK, Frame
<1>3. stack' = stack /\ locals' = locals
  BY <1>1 DEF stack, locals, Frame
<1>4. (status # "lost")' = (status # "lost")
  BY <1>1
<1> QED BY <1>1, <1>2, <1>3, <1>4 DEF Jvm!vars

(* A conversion, by the value v that it leaves in the word w.              *)
LEMMA ConvertsStep ==
  ASSUME TypeOK, NEW op \in {"i2l", "l2i", "i2b", "i2s", "i2c"}, NEW t \in Types, NEW u \in Types,
         NEW f, NEW c, Converts(op, t, u, f, c),
         NEW w \in Words, Moved(Frame, 1, f, << w >>),
         NEW v, c => v = Value(w, u),
         Jvm!Replace(<< t >>, << Typed(u, v) >>) /\ Jvm!Straight => Jvm!Convert(op)
  PROVE  TypeOK' /\ Jvm!Next
<1>1. /\ Has(<< t >>) /\ Executes(op, 0) /\ Retyped(<< t >>, << u >>)
      /\ Frame' = f /\ jump' = 0 /\ UNCHANGED localTypes /\ Faithful(c)
  BY DEF Converts, Completes, Frame
<1>2. /\ status = "run" /\ << t >> \in Seq(Types) /\ IsSuffix(<< t >>, types)
      /\ Len(<< t >>) = 1
  BY <1>1, OneOperand
<1>3. c => Means(<< Typed(u, v) >>, << u >>, << w >>)
  BY MeansOne
<1>4. << u >> \in Seq(Types) /\ Len(<< w >>) = Len(<< u >>)
  OBVIOUS
<1>5. Moved(Frame, 1, Frame', << w >>)
  BY <1>1
<1>6. Jvm!Convert(op) => Jvm!Execute(instr'.op, instr'.arg)
  <2>1. instr'.op = op
    BY <1>1 DEF Executes
  <2> QED BY <2>1 DEF Jvm!Execute
<1> QED BY <1>1, <1>2, <1>3, <1>4, <1>5, <1>6, StepReplaces

(* The word on top may stay where it is.                                   *)
LEMMA MovedTop ==
  ASSUME NEW f \in FrameTypes, 1 <= f.operand_offset
  PROVE  Moved(f, 1, f, << Upper(f) >>)
<1>1. PICK o \in 1 .. MAX_STACK : o = f.operand_offset
  BY FrameFacts
<1>2. PICK w \in Words : w = Word(f, o) /\ w = Upper(f)
  BY <1>1, FrameFacts DEF Upper
<1>3. << w >> \in Seq(Words) /\ Len(<< w >>) = 1 /\ << w >>[1] = w
  OBVIOUS
<1>4. \A i \in 1 .. 1 : Word(f, o - 1 + i) = << w >>[i]
  <2> TAKE i \in 1 .. 1
  <2>1. i = 1 /\ o - 1 + i = o
    BY <1>1
  <2> QED BY <1>2, <1>3, <2>1
<1> QED BY <1>1, <1>2, <1>3, <1>4 DEF Moved, Restacked

(* An int on top is read as the signed number Java sees.                   *)
LEMMA IntRead ==
  ASSUME TypeOK, Has(<< "int" >>)
  PROVE  IntOnTop \in SignedRange(INT) /\ IntOnTop \in Int /\ Jvm!Top = IntOnTop
<1>1. /\ Upper(Frame) \in Words /\ TopWord(Frame) = Upper(Frame)
      /\ Jvm!Top = Value(Upper(Frame), "int")
  BY OneOperand, TypeNames
<1>2. PICK w : w \in Words /\ w = Upper(Frame) /\ w \in Int
  BY <1>1 DEF Words
<1>3. INT \in Nat \ {0} /\ Even(INT) /\ Width["int"] = INT
  BY WidthFacts, MacroWidth DEF Widths
<1>4. IntOnTop = Signed(INT, w) /\ Value(w, "int") = IntOnTop
  BY <1>1, <1>2, <1>3 DEF IntOnTop, Read, Value
<1> QED BY <1>1, <1>2, <1>3, <1>4, SignedFacts

(* i2l does what Java says.                                                *)
LEMMA I2lStep ==
  ASSUME TypeOK, I2l PROVE TypeOK' /\ Jvm!Next
<1>1. PICK c : /\ Converts("i2l", "int", "long", Frame, c)
               /\ c = (Read(TopWord(Frame), "long") = IntOnTop)
  BY DEF I2l
<1>2. Has(<< "int" >>)
  BY <1>1 DEF Converts
<1>3. /\ Frame \in FrameTypes /\ 1 <= Frame.operand_offset
      /\ Upper(Frame) \in Words /\ TopWord(Frame) = Upper(Frame)
  BY <1>2, OneOperand, TypeNames
<1>4. PICK w : w = Upper(Frame)
  OBVIOUS
<1>5. Moved(Frame, 1, Frame, << w >>) /\ w \in Words
  BY <1>3, <1>4, MovedTop
<1>6. PICK v : v = IntOnTop
  OBVIOUS
<1>7. c => v = Value(w, "long")
  BY <1>1, <1>3, <1>4, <1>6 DEF Value
<1>8. Jvm!Replace(<< "int" >>, << Typed("long", v) >>) /\ Jvm!Straight => Jvm!Convert("i2l")
  <2>1. Jvm!Typed("long", Jvm!Top) = Typed("long", v)
    BY <1>2, <1>6, IntRead, JvmNames
  <2> QED BY <2>1 DEF Jvm!Convert
<1> QED BY <1>1, <1>5, <1>7, <1>8, ConvertsStep, TypeNames

(* i2b does what Java says.                                                *)
LEMMA I2bStep ==
  ASSUME TypeOK, I2b PROVE TypeOK' /\ Jvm!Next
<1>1. PICK c : Converts("i2b", "int", "int", Frame, c) /\ c = (IntOnTop \in SignedRange(BYTE))
  BY DEF I2b
<1>2. Has(<< "int" >>)
  BY <1>1 DEF Converts
<1>3. /\ Frame \in FrameTypes /\ 1 <= Frame.operand_offset
      /\ Upper(Frame) \in Words /\ TopWord(Frame) = Upper(Frame)
  BY <1>2, OneOperand, TypeNames
<1>4. PICK w : w = Upper(Frame)
  OBVIOUS
<1>5. Moved(Frame, 1, Frame, << w >>) /\ w \in Words
  BY <1>3, <1>4, MovedTop
<1>6. PICK v : v = Signed(BYTE, IntOnTop)
  OBVIOUS
<1>7. c => v = Value(w, "int")
  <2>1. BYTE \in Nat \ {0} /\ Even(BYTE)
    BY WidthFacts DEF Widths
  <2>2. IntOnTop = Value(w, "int")
    BY <1>3, <1>4 DEF IntOnTop, Value
  <2>3. IntOnTop \in SignedRange(BYTE) => Signed(BYTE, IntOnTop) = IntOnTop
    BY <2>1, SignedIs
  <2> QED BY <1>1, <1>6, <2>2, <2>3
<1>8. Jvm!Replace(<< "int" >>, << Typed("int", v) >>) /\ Jvm!Straight => Jvm!Convert("i2b")
  <2>1. Jvm!Typed("int", Jvm!Signed(BYTE, Jvm!Top)) = Typed("int", v)
    BY <1>2, <1>6, IntRead, JvmNames
  <2> QED BY <2>1 DEF Jvm!Convert
<1> QED BY <1>1, <1>5, <1>7, <1>8, ConvertsStep, TypeNames

(* The conversions that push a number in the place of the one on top.      *)
LEMMA Repushed ==
  ASSUME TypeOK, NEW t \in {"int", "long"}, Has(<< t >>), NEW m \in Macros, NEW x \in Int
  PROVE  \E old \in Words : /\ old = Popped(Frame, t).operand_stacks[Popped(Frame, t).operand_offset]
                            /\ old = Write(Upper(Frame), t, 0)
                            /\ Write(old, m, x) \in Words
                            /\ Moved(Frame, 1, Pushed(Popped(Frame, t), m, x), << Write(old, m, x) >>)
<1>1. t \in Types /\ t \in Macros
  BY TypeNames
<1>2. /\ Frame \in FrameTypes /\ 1 <= Frame.operand_offset /\ Upper(Frame) \in Words
  BY <1>1, OneOperand
<1>3. PICK g : g = Popped(Frame, t)
  OBVIOUS
<1>4. Moved(Frame, 1, g, << >>)
  BY <1>1, <1>2, <1>3, PopsOne
<1>5. 1 \in Nat \ {0}
  OBVIOUS
<1>6. PICK old \in Words : /\ old = g.operand_stacks[g.operand_offset]
                           /\ Write(old, m, x) \in Words
                           /\ Moved(Frame, 1, Pushed(g, m, x), << Write(old, m, x) >>)
  BY <1>2, <1>4, <1>5, PushesInstead, Zenon
<1>7. old = Write(Upper(Frame), t, 0)
  <2>1. PICK o \in 1 .. MAX_STACK : o = Frame.operand_offset
    BY <1>2, FrameFacts
  <2>2. PICK st \in [0 .. MAX_STACK - 1 -> Words] : st = Frame.operand_stacks
    BY <1>2, FrameFacts
  <2>3. PICK n : n = Write(st[o - 1], t, 0)
    OBVIOUS
  <2>4. g.operand_stacks = [st EXCEPT ![o - 1] = n] /\ g.operand_offset = o - 1
    BY <1>2, <1>3, <2>1, <2>2, <2>3 DEF Popped, FrameTypes
  <2>5. o - 1 \in 0 .. MAX_STACK - 1
    BY <2>1, FrameAssumption
  <2>6. old = n
    BY <1>6, <2>4, <2>5
  <2> QED BY <2>1, <2>2, <2>3, <2>6 DEF Upper, Word
<1> QED BY <1>3, <1>6, <1>7

(* l2i does what Java says.                                                *)
LEMMA L2iStep ==
  ASSUME TypeOK, L2i PROVE TypeOK' /\ Jvm!Next
<1>1. PICK x : x = Read(TopWord(Frame), "long")
  OBVIOUS
<1>2. Converts("l2i", "long", "int", Pushed(Popped(Frame, "long"), "int", x), TRUE)
  BY <1>1 DEF L2i
<1>3. Has(<< "long" >>)
  BY <1>2 DEF Converts
<1>4. /\ Upper(Frame) \in Words /\ TopWord(Frame) = Upper(Frame)
      /\ Jvm!Top = Value(Upper(Frame), "long")
  BY <1>3, OneOperand, TypeNames
<1>5. x \in Int /\ Jvm!Top = x
  BY <1>1, <1>4, ReadLong DEF Value
<1>6. PICK old \in Words :
        /\ Write(old, "int", x) \in Words
        /\ Moved(Frame, 1, Pushed(Popped(Frame, "long"), "int", x), << Write(old, "int", x) >>)
  BY <1>3, <1>5, Repushed, TypeNames
<1>7. PICK w, v : w \in Words /\ w = Write(old, "int", x) /\ v = Signed(INT, x)
  BY <1>6
<1>8. v = Value(w, "int")
  BY <1>5, <1>7, WriteValue, MacroWidth
<1>9. Jvm!Replace(<< "long" >>, << Typed("int", v) >>) /\ Jvm!Straight => Jvm!Convert("l2i")
  <2>1. Jvm!Typed("int", Jvm!Signed(INT, Jvm!Top)) = Typed("int", v)
    BY <1>5, <1>7, JvmNames
  <2> QED BY <2>1 DEF Jvm!Convert
<1> QED BY <1>2, <1>6, <1>7, <1>8, <1>9, ConvertsStep, TypeNames

(* What is left of an int that was popped, and of a narrow type pushed on  *)
(* top of it.                                                              *)
LEMMA NarrowOverZero ==
  ASSUME NEW word \in Words, NEW x \in Int, NEW t \in {"char", "short"}
  PROVE  Value(Write(Write(word, "int", 0), t, x), "int") = Unsigned(Width[t], x)
<1>1. PICK old \in Words : old = Write(word, "int", 0)
  BY WriteFacts, TypeNames
<1>2. INT \in Nat \ {0} /\ INT \in Widths /\ MultipleOf(INT, INT) /\ Width["int"] = INT
  BY WidthFacts, MacroWidth DEF Widths
<1>3. Unsigned(INT, old) = Unsigned(INT, 0)
  <2>1. 0 \in Int /\ "int" \in Macros
    BY TypeNames
  <2>2. \A m \in Widths : MultipleOf(Width["int"], m) =>
          Unsigned(m, Write(word, "int", 0)) = Unsigned(m, 0)
    BY <2>1, WriteFacts, Zenon
  <2> QED BY <1>1, <1>2, <2>2
<1>4. Unsigned(INT, 0) = 0
  BY <1>2, UnsignedSmall
<1>5. Width[t] \in Nat \ {0}
  BY WidthFacts, MacroWidth DEF Widths
<1> QED BY <1>1, <1>3, <1>4, <1>5, WriteNarrow

(* i2c does what Java says, as far as its handler is faithful.             *)
LEMMA I2cStep ==
  ASSUME TypeOK, I2c PROVE TypeOK' /\ Jvm!Next
<1>1. PICK c, x : /\ c = (Unsigned(SHORT, x) < BYTE) /\ x = IntOnTop
                  /\ Converts("i2c", "int", "int", Pushed(Popped(Frame, "int"), "char", x), c)
  BY DEF I2c
<1>2. Has(<< "int" >>)
  BY <1>1 DEF Converts
<1>3. x \in Int /\ Jvm!Top = x /\ Upper(Frame) \in Words
  BY <1>1, <1>2, IntRead, OneOperand, TypeNames
<1>4. PICK old \in Words :
        /\ old = Write(Upper(Frame), "int", 0) /\ Write(old, "char", x) \in Words
        /\ Moved(Frame, 1, Pushed(Popped(Frame, "int"), "char", x), << Write(old, "char", x) >>)
  BY <1>2, <1>3, Repushed, TypeNames
<1>5. PICK w, v : w \in Words /\ w = Write(old, "char", x) /\ v = Unsigned(SHORT, x)
  BY <1>4
<1>6. c => v = Value(w, "int")
  <2>1. Value(w, "int") = Unsigned(BYTE, x)
    BY <1>3, <1>4, <1>5, NarrowOverZero, MacroWidth
  <2>2. BYTE \in Nat \ {0} /\ SHORT \in Nat \ {0} /\ MultipleOf(SHORT, BYTE)
    BY WidthFacts DEF Widths
  <2>3. PICK n \in Nat : n = Unsigned(SHORT, x)
    BY <1>3, <2>2, UnsignedFacts
  <2>4. Unsigned(BYTE, n) = Unsigned(BYTE, x)
    BY <1>3, <2>2, <2>3, UnsignedTwice
  <2>5. n < BYTE => Unsigned(BYTE, n) = n
    BY <2>2, UnsignedSmall
  <2> QED BY <1>1, <1>5, <2>1, <2>3, <2>4, <2>5
<1>7. Jvm!Replace(<< "int" >>, << Typed("int", v) >>) /\ Jvm!Straight => Jvm!Convert("i2c")
  <2>1. Jvm!Typed("int", Jvm!Unsigned(SHORT, Jvm!Top)) = Typed("int", v)
    BY <1>3, <1>5, JvmNames
  <2> QED BY <2>1 DEF Jvm!Convert
<1> QED BY <1>1, <1>4, <1>5, <1>6, <1>7, ConvertsStep, TypeNames

(* i2s does what Java says, as far as its handler is faithful.             *)
LEMMA I2sStep ==
  ASSUME TypeOK, I2s PROVE TypeOK' /\ Jvm!Next
<1>1. PICK c, x : /\ c = (Signed(SHORT, x) >= 0) /\ x = IntOnTop
                  /\ Converts("i2s", "int", "int", Pushed(Popped(Frame, "int"), "short", x), c)
  BY DEF I2s
<1>2. Has(<< "int" >>)
  BY <1>1 DEF Converts
<1>3. x \in Int /\ Jvm!Top = x /\ Upper(Frame) \in Words
  BY <1>1, <1>2, IntRead, OneOperand, TypeNames
<1>4. PICK old \in Words :
        /\ old = Write(Upper(Frame), "int", 0) /\ Write(old, "short", x) \in Words
        /\ Moved(Frame, 1, Pushed(Popped(Frame, "int"), "short", x), << Write(old, "short", x) >>)
  BY <1>2, <1>3, Repushed, TypeNames
<1>5. PICK w, v : w \in Words /\ w = Write(old, "short", x) /\ v = Signed(SHORT, x)
  BY <1>4
<1>6. c => v = Value(w, "int")
  <2>1. Value(w, "int") = Unsigned(SHORT, x)
    BY <1>3, <1>4, <1>5, NarrowOverZero, MacroWidth
  <2>2. SHORT \in Nat \ {0} /\ Even(SHORT)
    BY WidthFacts DEF Widths
  <2>3. Signed(SHORT, x) >= 0 <=> Signed(SHORT, x) = Unsigned(SHORT, x)
    BY <1>3, <2>2, SignedFacts
  <2> QED BY <1>1, <1>5, <2>1, <2>3
<1>7. Jvm!Replace(<< "int" >>, << Typed("int", v) >>) /\ Jvm!Straight => Jvm!Convert("i2s")
  <2>1. Jvm!Typed("int", Jvm!Signed(SHORT, Jvm!Top)) = Typed("int", v)
    BY <1>3, <1>5, JvmNames
  <2> QED BY <2>1 DEF Jvm!Convert
<1> QED BY <1>1, <1>4, <1>5, <1>6, <1>7, ConvertsStep, TypeNames

-----------------------------------------------------------------------------
(* Local variables, and what moves operands around.                        *)

(* A local variable holds a word that means what Java has in it.           *)
LEMMA LocalFacts ==
  ASSUME TypeOK, NEW n \in Locals
  PROVE  /\ Frame.local_variables[n] \in Words /\ localTypes[n] \in Types \cup {"none"}
         /\ localTypes[n] = "none" => locals[n] = Typed("none", 0)
         /\ localTypes[n] # "none" => /\ localTypes[n] \in Types
              /\ locals[n] = Typed(localTypes[n], Value(Frame.local_variables[n], localTypes[n]))
<1>1. Frame.local_variables \in [Locals -> Words] /\ localTypes \in LocalTypes
  BY State, FrameFacts
<1> QED BY <1>1 DEF LocalTypes, locals

(* A load pushes what Java has in the local variable.                      *)
LEMMA LoadStep ==
  ASSUME TypeOK, NEW n \in Locals, LoadAny(n), NEW c, Faithful(c), c => jump' = 0
  PROVE  TypeOK' /\ Jvm!Next
<1>1. PICK t, w : t = localTypes[n] /\ w = Frame.local_variables[n]
  OBVIOUS
<1>2. PICK x : x = Read(w, "long")
  OBVIOUS
<1>3. /\ status = "run" /\ t # "none" /\ Executes("load", n) /\ Retyped(<< >>, << t >>)
      /\ Frame' = Pushed(Frame, "long", x) /\ UNCHANGED localTypes
  BY <1>1, <1>2 DEF LoadAny, Loaded, Frame
<1>4. w \in Words /\ t \in Types /\ locals[n] = Typed(t, Value(w, t))
  BY <1>1, <1>3, LocalFacts
<1>5. x \in Int /\ \A old \in Words : Write(old, "long", x) = w
  BY <1>2, <1>4, ReadLong, MoveLong
<1>6. Frame \in FrameTypes /\ types \in Seq(Types) /\ Len(types) = Frame.operand_offset
  BY <1>3, State
<1>7. IsSuffix(<< >>, types) /\ << >> \in Seq(Types) /\ << t >> \in Seq(Types)
      /\ Len(<< t >>) = 1 /\ Len(<< >>) = 0 /\ Len(<< w >>) = 1
  BY <1>4, <1>6, SuffixNone
<1>8. Len(types) - 0 + 1 <= MAX_STACK
  BY <1>3, <1>7, StepFits
<1>9. 0 \in 0 .. Frame.operand_offset /\ Frame.operand_offset < MAX_STACK
  BY <1>6, <1>8, FrameFacts
<1>10. PICK old : old = Frame.operand_stacks[Frame.operand_offset]
  OBVIOUS
<1>11. Moved(Frame, 0, Frame, << >>)
  BY <1>6, MovedNot
<1>12. old \in Words /\ Moved(Frame, 0, Frame', Append(<< >>, Write(old, "long", x)))
  BY <1>3, <1>5, <1>6, <1>9, <1>10, <1>11, PushMoves, TypeNames
<1>13. Append(<< >>, Write(old, "long", x)) = << w >>
  BY <1>5, <1>12
<1>14. Moved(Frame, 0, Frame', << w >>)
  BY <1>12, <1>13
<1>15. PICK e : e = locals[n]
  OBVIOUS
<1>16. Means(<< e >>, << t >>, << w >>)
  BY <1>4, <1>15, MeansOne
<1>17. Jvm!Replace(<< >>, << e >>) /\ Jvm!Straight => Jvm!Execute(instr'.op, instr'.arg)
  <2>1. instr'.op = "load" /\ instr'.arg = n
    BY <1>3 DEF Executes
  <2>2. e # Jvm!UNUSABLE
    <3>1. e.type = t /\ Jvm!UNUSABLE.type = "none"
      BY <1>4, <1>15 DEF Typed, Jvm!UNUSABLE, Jvm!Typed
    <3> QED BY <1>3, <3>1
  <2>3. Jvm!Replace(<< >>, << e >>) /\ Jvm!Straight => Jvm!Load(n)
    BY <1>15, <2>2 DEF Jvm!Load
  <2> QED BY <2>1, <2>3 DEF Jvm!Execute
<1> QED BY <1>3, <1>7, <1>14, <1>16, <1>17, StepReplaces

(* All load instructions do what Java says.                                *)
LEMMA LoadSteps ==
  ASSUME TypeOK
  PROVE  /\ \A n \in Variables : Load(n) => TypeOK' /\ Jvm!Next
         /\ LoadIndexed => TypeOK' /\ Jvm!Next
         /\ Iload0 => TypeOK' /\ Jvm!Next
<1>1. Variables \subseteq Locals /\ 0 \in Locals
  BY FrameAssumption DEF Locals
<1>2. ASSUME NEW n \in Variables, Load(n)
      PROVE  TypeOK' /\ Jvm!Next
  <2>1. LoadAny(n) /\ jump' = 0 /\ Faithful(TRUE)
    BY <1>2 DEF Load
  <2> QED BY <1>1, <2>1, LoadStep
<1>3. ASSUME LoadIndexed
      PROVE  TypeOK' /\ Jvm!Next
  <2>1. LoadAny(0) /\ jump' = 0 /\ Faithful(TRUE)
    BY <1>3 DEF LoadIndexed
  <2> QED BY <1>1, <2>1, LoadStep
<1>4. ASSUME Iload0
      PROVE  TypeOK' /\ Jvm!Next
  <2>1. LoadAny(0) /\ Faithful(FALSE)
    BY <1>4 DEF Iload0
  <2> QED BY <1>1, <2>1, LoadStep
<1> QED BY <1>2, <1>3, <1>4

(* What a store macro does to a frame.                                     *)
LEMMA StoredFrame ==
  ASSUME NEW f \in FrameTypes, 1 <= f.operand_offset, NEW t \in Macros, NEW n \in Locals,
         NEW w, w = Write(f.local_variables[n], t, Read(TopWord(f), t)), w \in Words
  PROVE  /\ Restacked(f, 1, Stored(f, t, n), << >>)
         /\ Stored(f, t, n).local_variables = [f.local_variables EXCEPT ![n] = w]
<1>1. PICK g : g = Popped(f, t)
  OBVIOUS
<1>2. Moved(f, 1, g, << >>)
  BY <1>1, PopsOne
<1>3. PICK s \in [0 .. MAX_STACK - 1 -> Words], o \in 0 .. MAX_STACK, l \in [Locals -> Words] :
        s = g.operand_stacks /\ o = g.operand_offset /\ l = g.local_variables /\ l = f.local_variables
  BY <1>2, FrameFacts DEF Moved, Restacked
<1>4. PICK x : x = [l EXCEPT ![n] = w]
  OBVIOUS
<1>5. g \in FrameTypes
  BY <1>2 DEF Moved, Restacked
<1>6. PICK h : h = Stored(f, t, n)
  OBVIOUS
<1>7. h = [g EXCEPT !.local_variables[n] = w]
  BY <1>1, <1>3, <1>6 DEF Stored, FrameTypes
<1>8. h = [operand_stacks |-> s, operand_offset |-> o, local_variables |-> x]
  BY <1>3, <1>4, <1>5, <1>7 DEF FrameTypes
<1>9. x \in [Locals -> Words] /\ h \in FrameTypes
  BY <1>4, <1>8, FrameIs
<1>10. h.operand_offset = g.operand_offset /\ \A i : Word(h, i) = Word(g, i)
  BY <1>3, <1>8 DEF Word
<1>11. Restacked(f, 1, h, << >>)
  BY <1>2, <1>9, <1>10 DEF Moved, Restacked
<1>12. h.local_variables = [f.local_variables EXCEPT ![n] = w]
  BY <1>3, <1>4, <1>8
<1> QED BY <1>6, <1>11, <1>12

(* What the word w in a local variable means, stored as t.                 *)
LEMMA StoredValue ==
  ASSUME NEW v \in Types, NEW t \in {"long", AsMoved(v)}, NEW old \in Words, NEW word \in Words
  PROVE  /\ Write(old, t, Read(word, t)) \in Words /\ t \in Macros
         /\ Value(Write(old, t, Read(word, t)), v) = Value(word, v)
<1>1. t = "long" \/ (v # "ref" /\ t = v)
  BY DEF AsMoved
<1>2. CASE t = "long"
  <2>1. Write(old, t, Read(word, t)) = word
    BY <1>2, MoveLong
  <2> QED BY <1>2, <2>1, TypeNames
<1>3. CASE v # "ref" /\ t = v
  <2>1. v \in {"int", "long"} /\ v \in Macros /\ Width[v] \in Nat \ {0} /\ Even(Width[v])
    BY <1>3, TypeNames, MacroWidth, WidthFacts DEF Types, Widths
  <2>2. word \in Int
    BY DEF Words
  <2>3. PICK x : x = Read(word, v)
    OBVIOUS
  <2>4. x \in Int /\ x \in SignedRange(Width[v]) /\ Value(word, v) = x
    BY <1>3, <2>1, <2>2, <2>3, SignedFacts DEF Read, Value
  <2>5. Write(old, v, x) \in Words /\ Value(Write(old, v, x), v) = x
    BY <2>1, <2>4, WriteFacts, WriteValue
  <2> QED BY <1>3, <2>1, <2>3, <2>4, <2>5
<1> QED BY <1>1, <1>2, <1>3

(* The local variables after variable n was given a value of type v.       *)
LEMMA StoredLocals ==
  ASSUME TypeOK, NEW n \in Locals, NEW v \in Types, NEW w \in Words, NEW e, e = Typed(v, Value(w, v)),
         Frame'.local_variables = [Frame.local_variables EXCEPT ![n] = w],
         localTypes' = [m \in DOMAIN localTypes |->
           IF m = n THEN v
           ELSE IF (m = n + 1 /\ v = "long") \/ (m = n - 1 /\ localTypes[m] = "long")
           THEN "none" ELSE localTypes[m]]
  PROVE  /\ localTypes' \in LocalTypes
         /\ locals' = [m \in DOMAIN locals |->
              IF m = n THEN e
              ELSE IF (m = n + 1 /\ v = "long") \/ (m = n - 1 /\ locals[m].type = "long")
              THEN Typed("none", 0) ELSE locals[m]]
<1>1. Frame.local_variables \in [Locals -> Words] /\ localTypes \in LocalTypes
  BY State, FrameFacts
<1>2. PICK lt, lv : lt = localTypes' /\ lv = Frame'.local_variables
  OBVIOUS
<1>3. DOMAIN localTypes = Locals /\ DOMAIN locals = Locals
  BY <1>1 DEF LocalTypes, locals
<1>4. \A m \in Locals : localTypes[m] \in Types \cup {"none"}
  BY LocalFacts
<1>5. lt = [m \in Locals |-> IF m = n THEN v
              ELSE IF (m = n + 1 /\ v = "long") \/ (m = n - 1 /\ localTypes[m] = "long")
              THEN "none" ELSE localTypes[m]]
  BY <1>2, <1>3
<1>6. lt \in LocalTypes
  <2> DEFINE new(m) == IF m = n THEN v
              ELSE IF (m = n + 1 /\ v = "long") \/ (m = n - 1 /\ localTypes[m] = "long")
              THEN "none" ELSE localTypes[m]
  <2>1. \A m \in Locals : new(m) \in Types \cup {"none"}
    BY <1>4
  <2>2. lt = [m \in Locals |-> new(m)]
    BY <1>5
  <2> HIDE DEF new
  <2> QED BY <2>1, <2>2 DEF LocalTypes
<1>7. /\ lv[n] = w /\ \A m \in Locals : m # n => lv[m] = Frame.local_variables[m]
  BY <1>1, <1>2
<1>8. PICK ls : ls = [m \in Locals |-> IF lt[m] = "none" THEN Typed("none", 0)
                                       ELSE Typed(lt[m], Value(lv[m], lt[m]))]
  OBVIOUS
<1>9. locals' = ls
  BY <1>2, <1>8 DEF locals
<1>10. ASSUME NEW m \in Locals
       PROVE  ls[m] = IF m = n THEN e
              ELSE IF (m = n + 1 /\ v = "long") \/ (m = n - 1 /\ locals[m].type = "long")
              THEN Typed("none", 0) ELSE locals[m]
  <2>1. locals[m].type = localTypes[m]
    <3>1. PICK x : locals[m] = Typed(localTypes[m], x)
      BY LocalFacts
    <3> QED BY <3>1 DEF Typed
  <2>2. ls[m] = IF lt[m] = "none" THEN Typed("none", 0) ELSE Typed(lt[m], Value(lv[m], lt[m]))
    BY <1>8
  <2>3. CASE m = n
    <3>1. lt[m] = v /\ v # "none"
      BY <1>5, <2>3 DEF Types
    <3> QED BY <1>7, <2>2, <2>3, <3>1
  <2>4. CASE m # n /\ ((m = n + 1 /\ v = "long") \/ (m = n - 1 /\ localTypes[m] = "long"))
    <3>1. lt[m] = "none"
      BY <1>5, <2>4
    <3> QED BY <2>1, <2>2, <2>4, <3>1
  <2>5. CASE m # n /\ ~((m = n + 1 /\ v = "long") \/ (m = n - 1 /\ localTypes[m] = "long"))
    <3>1. lt[m] = localTypes[m] /\ lv[m] = Frame.local_variables[m]
      BY <1>5, <1>7, <2>5
    <3>2. ls[m] = locals[m]
      BY <2>2, <3>1 DEF locals
    <3> QED BY <2>1, <2>5, <3>2
  <2> QED BY <2>3, <2>4, <2>5
<1>11. ls = [m \in Locals |-> IF m = n THEN e
              ELSE IF (m = n + 1 /\ v = "long") \/ (m = n - 1 /\ locals[m].type = "long")
              THEN Typed("none", 0) ELSE locals[m]]
  <2> DEFINE new(m) == IF m = n THEN e
              ELSE IF (m = n + 1 /\ v = "long") \/ (m = n - 1 /\ locals[m].type = "long")
              THEN Typed("none", 0) ELSE locals[m]
  <2>1. \A m \in Locals : ls[m] = new(m)
    BY <1>10
  <2>2. ls = [m \in Locals |-> ls[m]]
    BY <1>8
  <2> HIDE DEF new
  <2>3. ls = [m \in Locals |-> new(m)]
    BY <2>1, <2>2
  <2> QED BY <2>3 DEF new
<1> QED BY <1>2, <1>3, <1>6, <1>9, <1>11

(* A store leaves in the local variables what Java has in them.            *)
LEMMA StoreStep ==
  ASSUME TypeOK, NEW n \in Locals, NEW t \in {"long", AsMoved(Last(types))}, StoreAs(t, n)
  PROVE  TypeOK' /\ Jvm!Next
<1>1. PICK v : v = Last(types)
  OBVIOUS
<1>2. /\ status = "run" /\ types # << >> /\ (v = "long" => n + 1 < MAX_LOCALS)
      /\ Executes("store", n) /\ Retyped(<< v >>, << >>)
      /\ Frame' = Stored(Frame, t, n) /\ jump' = 0
      /\ localTypes' = [m \in DOMAIN localTypes |->
           IF m = n THEN v
           ELSE IF (m = n + 1 /\ v = "long") \/ (m = n - 1 /\ localTypes[m] = "long")
           THEN "none" ELSE localTypes[m]]
      /\ Faithful(TRUE)
  BY <1>1 DEF StoreAs, Completes, Frame
<1>3. types \in Seq(Types)
  BY State
<1>4. v \in Types /\ Has(<< v >>)
  BY <1>1, <1>2, <1>3, SuffixTop DEF Has
<1>5. /\ << v >> \in Seq(Types) /\ IsSuffix(<< v >>, types) /\ Len(<< v >>) = 1
      /\ Frame \in FrameTypes /\ 1 <= Frame.operand_offset
      /\ Upper(Frame) \in Words /\ TopWord(Frame) = Upper(Frame)
      /\ Jvm!Last(stack) = Typed(v, Value(Upper(Frame), v))
  BY <1>4, OneOperand
<1>6. PICK w, old : old = Frame.local_variables[n] /\ w = Write(old, t, Read(Upper(Frame), t))
  OBVIOUS
<1>7. w \in Words /\ t \in Macros /\ Value(w, v) = Value(Upper(Frame), v)
  <2>1. old \in Words
    BY <1>6, LocalFacts
  <2>2. t \in {"long", AsMoved(v)}
    BY <1>1
  <2> QED BY <1>4, <1>5, <1>6, <2>1, <2>2, StoredValue
<1>8. /\ Restacked(Frame, 1, Frame', << >>)
      /\ Frame'.local_variables = [Frame.local_variables EXCEPT ![n] = w]
  BY <1>2, <1>5, <1>6, <1>7, StoredFrame
<1>9. << >> \in Seq(Types) /\ Len(<< >>) = Len(<< >>)
  OBVIOUS
<1>10. /\ Frame' \in FrameTypes /\ types' \in BoundedSeq(Types, MAX_STACK)
       /\ Frame'.operand_offset = Len(types') /\ Jvm!Replace(<< v >>, << >>)
  BY <1>2, <1>5, <1>8, <1>9, MeansNothing, StepExchanges
<1>11. PICK e : e = Jvm!Last(stack)
  OBVIOUS
<1>12. e = Typed(v, Value(w, v)) /\ e.type = v
  BY <1>5, <1>7, <1>11 DEF Typed
<1>13. /\ localTypes' \in LocalTypes
       /\ locals' = [m \in DOMAIN locals |->
            IF m = n THEN e
            ELSE IF (m = n + 1 /\ v = "long") \/ (m = n - 1 /\ locals[m].type = "long")
            THEN Typed("none", 0) ELSE locals[m]]
  BY <1>2, <1>4, <1>7, <1>8, <1>12, StoredLocals
<1>14. ASSUME status' = status
       PROVE  Jvm!Execute(instr'.op, instr'.arg)
  <2>1. instr'.op = "store" /\ instr'.arg = n
    BY <1>2 DEF Executes
  <2>2. stack # << >>
    <3>1. Len(stack) = Len(types) /\ stack \in Seq(Entries) /\ Len(types) # 0
      BY <1>2, <1>3, Running
    <3> QED BY <3>1
  <2>3. Jvm!UNUSABLE = Typed("none", 0)
    BY JvmNames DEF Jvm!UNUSABLE
  <2>4. (status # "lost")' = (status # "lost")
    BY <1>14
  <2>5. Jvm!Store(n)
    BY <1>2, <1>10, <1>11, <1>12, <1>13, <2>2, <2>3, <2>4 DEF Jvm!Store
  <2> QED BY <2>1, <2>5 DEF Jvm!Execute
<1> QED BY <1>2, <1>10, <1>13, <1>14, Outcome

(* All store instructions do what Java says.                               *)
LEMMA StoreSteps ==
  ASSUME TypeOK
  PROVE  \A n \in Variables : StoreIndexed(n) \/ StoreFixed(n) => TypeOK' /\ Jvm!Next
  BY FrameAssumption, StoreStep DEF Locals, StoreIndexed, StoreFixed

(* The elements of a sequence of two.                                      *)
LEMMA Twice ==
  ASSUME NEW S, NEW w \in S, NEW q, q = Append(<< w >>, w)
  PROVE  Len(q) = 2 /\ q[1] = w /\ q[2] = w
  OBVIOUS

(* dup does what Java says.                                                *)
LEMMA DupStep ==
  ASSUME TypeOK, Dup PROVE TypeOK' /\ Jvm!Next
<1>1. PICK t, v : t = Last(types) /\ v = Read(TopWord(Frame), "long")
  OBVIOUS
<1>2. PICK g : g = Popped(Frame, "long")
  OBVIOUS
<1>3. /\ status = "run" /\ types # << >> /\ t # "long" /\ Executes("dup", 0)
      /\ Retyped(<< >>, << t >>)
      /\ Frame' = Pushed(Pushed(g, "long", v), "long", v) /\ jump' = 0
      /\ UNCHANGED localTypes /\ Faithful(TRUE)
  BY <1>1, <1>2 DEF Dup, Completes, Frame
<1>4. types \in Seq(Types) /\ Len(types) = Frame.operand_offset
  BY <1>3, State
<1>5. t \in Types /\ Has(<< t >>)
  BY <1>1, <1>3, <1>4, SuffixTop DEF Has
<1>6. /\ Frame \in FrameTypes /\ 1 <= Frame.operand_offset /\ 1 \in 0 .. Frame.operand_offset
      /\ Upper(Frame) \in Words /\ TopWord(Frame) = Upper(Frame)
      /\ Jvm!Last(stack) = Typed(t, Value(Upper(Frame), t))
  BY <1>5, OneOperand
<1>7. PICK w : w = Upper(Frame)
  OBVIOUS
<1>8. v \in Int /\ w \in Words /\ \A old \in Words : Write(old, "long", v) = w
  BY <1>1, <1>6, <1>7, ReadLong, MoveLong
<1>9. << t >> \in Seq(Types) /\ << >> \in Seq(Types) /\ Len(<< t >>) = 1 /\ Len(<< >>) = 0
      /\ Len(<< w >>) = 1
  BY <1>5
<1>10. IsSuffix(<< >>, types)
  BY <1>4, SuffixNone
<1>11. Len(types) - 0 + 1 <= MAX_STACK
  BY <1>3, <1>9, <1>10, StepFits
<1>12. Moved(Frame, 1, g, << >>)
  BY <1>2, <1>6, PopsOne, TypeNames
<1>13. PICK o \in 1 .. MAX_STACK : o = Frame.operand_offset /\ o < MAX_STACK
  BY <1>4, <1>6, <1>11, FrameFacts
<1>14. Moved(Frame, 1, Pushed(g, "long", v), << w >>)
  <2>1. 1 \in Nat \ {0}
    OBVIOUS
  <2>2. PICK old \in Words : Moved(Frame, 1, Pushed(g, "long", v), << Write(old, "long", v) >>)
    BY <1>6, <1>8, <1>12, <2>1, PushesInstead, TypeNames
  <2> QED BY <1>8, <2>2
<1>15. PICK h : h = Pushed(g, "long", v)
  OBVIOUS
<1>16. Moved(Frame, 1, Frame', Append(<< w >>, w))
  <2>1. h.operand_offset = o - 1 + 1
    BY <1>13, <1>14, <1>15 DEF Moved, Restacked
  <2>2. h.operand_offset < MAX_STACK
    BY <1>13, <2>1, FrameAssumption
  <2>3. PICK old : old = h.operand_stacks[h.operand_offset]
    OBVIOUS
  <2>4. old \in Words /\ Moved(Frame, 1, Pushed(h, "long", v), Append(<< w >>, Write(old, "long", v)))
    BY <1>6, <1>8, <1>14, <1>15, <2>2, <2>3, PushMoves, TypeNames
  <2> QED BY <1>3, <1>8, <1>15, <2>4
<1>17. Moved(Frame, 0, Frame', << w >>)
  <2>1. PICK f : f = Frame'
    OBVIOUS
  <2>2. PICK q : q = Append(<< w >>, w)
    OBVIOUS
  <2>3. Len(q) = 2 /\ q[1] = w /\ q[2] = w
    BY <1>8, <2>2, Twice
  <2>4. /\ f \in FrameTypes /\ f.operand_offset = o + 1
        /\ \A i \in 1 .. o - 1 : Word(f, i) = Word(Frame, i)
        /\ \A i \in 1 .. 2 : Word(f, o - 1 + i) = q[i]
        /\ f.local_variables = Frame.local_variables
    BY <1>13, <1>16, <2>1, <2>2, <2>3 DEF Moved, Restacked
  <2>5. Word(f, o) = w /\ Word(f, o + 1) = w
    <3>1. Word(f, o - 1 + 1) = q[1] /\ Word(f, o - 1 + 2) = q[2]
      BY <2>4
    <3>2. o - 1 + 1 = o /\ o - 1 + 2 = o + 1
      OBVIOUS
    <3> QED BY <2>3, <3>1, <3>2
  <2>6. \A i \in 1 .. o - 0 : Word(f, i) = Word(Frame, i)
    <3> TAKE i \in 1 .. o - 0
    <3>1. CASE i = o
      BY <1>7, <1>13, <2>5, <3>1 DEF Upper
    <3>2. CASE i # o
      BY <2>4, <3>2
    <3> QED BY <3>1, <3>2
  <2>7. \A i \in 1 .. 1 : Word(f, o - 0 + i) = << w >>[i]
    BY <2>5
  <2>8. << w >> \in Seq(Words) /\ f.operand_offset = o - 0 + Len(<< w >>)
    BY <1>8, <2>4
  <2> QED BY <1>9, <1>13, <2>1, <2>4, <2>6, <2>7, <2>8 DEF Moved, Restacked
<1>18. PICK e : e = Jvm!Last(stack)
  OBVIOUS
<1>19. Means(<< e >>, << t >>, << w >>)
  BY <1>5, <1>6, <1>7, <1>8, <1>18, MeansOne
<1>20. Jvm!Replace(<< >>, << e >>) /\ Jvm!Straight => Jvm!Execute(instr'.op, instr'.arg)
  <2>1. instr'.op = "dup"
    BY <1>3 DEF Executes
  <2>2. Jvm!Types # << >> /\ Jvm!Last(Jvm!Types) # "long"
    BY <1>1, <1>3, Running, JvmNames
  <2> QED BY <1>18, <2>1, <2>2 DEF Jvm!Execute
<1> QED BY <1>3, <1>9, <1>10, <1>17, <1>19, <1>20, StepReplaces

-----------------------------------------------------------------------------
(* Branches, and instructions that do nothing.                             *)

(* An offset forwards is its own unsigned value.                           *)
LEMMA OffsetFacts ==
  ASSUME NEW o \in Offsets, o > 0
  PROVE  Unsigned(SHORT, o) = o
  BY NumbersFit DEF Offsets, Widths

(* goto does what Java says, as far as its handler is faithful.            *)
LEMMA GotoStep ==
  ASSUME TypeOK, NEW o \in Offsets, Goto(o)
  PROVE  TypeOK' /\ Jvm!Next
<1>1. PICK c : c = (o > 0)
  OBVIOUS
<1>2. /\ status = "run" /\ Executes("goto", o) /\ jump' = Unsigned(SHORT, o)
      /\ UNCHANGED <<cur_stack_frame, types, localTypes>> /\ Faithful(c)
  BY <1>1, Zenon DEF Goto
<1>3. /\ Frame' \in FrameTypes /\ types' \in BoundedSeq(Types, MAX_STACK)
      /\ Frame'.operand_offset = Len(types') /\ localTypes' \in LocalTypes
  BY <1>2, State, Bounded, FrameAssumption DEF Frame
<1>4. ASSUME c, status' = status
      PROVE  Jvm!Execute(instr'.op, instr'.arg)
  <2>1. instr'.op = "goto" /\ instr'.arg = o
    BY <1>2 DEF Executes
  <2>2. jump' = o
    BY <1>1, <1>2, <1>4, OffsetFacts
  <2>3. stack' = stack /\ locals' = locals
    BY <1>2 DEF stack, locals, Frame
  <2>4. (status # "lost")' = (status # "lost")
    BY <1>4
  <2>5. Jvm!Branch("goto", o)
    BY <2>2, <2>3, <2>4 DEF Jvm!Branch
  <2> QED BY <2>1, <2>5 DEF Jvm!Execute
<1> QED BY <1>2, <1>3, <1>4, Outcome

(* ifeq does what Java says, as far as its handler is faithful.            *)
LEMMA IfEqStep ==
  ASSUME TypeOK, NEW o \in Offsets, IfEq(o)
  PROVE  TypeOK' /\ Jvm!Next
<1>1. PICK c : c = (IntOnTop = 0 => o > 0)
  OBVIOUS
<1>2. /\ Has(<< "int" >>) /\ Executes("ifeq", o) /\ Retyped(<< "int" >>, << >>)
      /\ Frame' = Popped(Frame, "int")
      /\ jump' = (IF IntOnTop = 0 THEN Unsigned(SHORT, o) ELSE 0)
      /\ UNCHANGED localTypes /\ Faithful(c)
  BY <1>1, Zenon DEF IfEq, Frame
<1>3. /\ status = "run" /\ << "int" >> \in Seq(Types) /\ IsSuffix(<< "int" >>, types)
      /\ Len(<< "int" >>) = 1 /\ Frame \in FrameTypes /\ 1 <= Frame.operand_offset
  BY <1>2, OneOperand, TypeNames
<1>4. Moved(Frame, 1, Frame', << >>)
  BY <1>2, <1>3, PopsOne, TypeNames
<1>5. << >> \in Seq(Types)
  OBVIOUS
<1>6. /\ Frame' \in FrameTypes /\ types' \in BoundedSeq(Types, MAX_STACK)
      /\ Frame'.operand_offset = Len(types') /\ Jvm!Replace(<< "int" >>, << >>)
  BY <1>2, <1>3, <1>4, <1>5, MeansNothing, StepExchanges DEF Moved
<1>7. localTypes' \in LocalTypes
  BY <1>2, State
<1>8. ASSUME c, status' = status
      PROVE  Jvm!Execute(instr'.op, instr'.arg)
  <2>1. instr'.op = "ifeq" /\ instr'.arg = o
    BY <1>2 DEF Executes
  <2>2. jump' = IF Jvm!Top = 0 THEN o ELSE 0
    BY <1>1, <1>2, <1>8, IntRead, OffsetFacts
  <2>3. locals' = locals
    BY <1>2, <1>4 DEF locals, Moved
  <2>4. (status # "lost")' = (status # "lost")
    BY <1>8
  <2>5. Jvm!Branch("ifeq", o)
    BY <1>6, <2>2, <2>3, <2>4 DEF Jvm!Branch
  <2> QED BY <2>1, <2>5 DEF Jvm!Execute
<1> QED BY <1>2, <1>3, <1>6, <1>7, <1>8, Outcome

(* nop does nothing, and what has no handler is listed as unfaithful.      *)
LEMMA IdleStep ==
  ASSUME TypeOK, Nop \/ Unimplemented
  PROVE  TypeOK' /\ Jvm!Next
<1>1. PICK c : /\ status = "run" /\ Frame' = Frame /\ jump' = 0
               /\ UNCHANGED <<types, localTypes>> /\ Faithful(c)
               /\ c => instr' = [op |-> "nop", arg |-> 0]
  BY DEF Nop, Unimplemented, Completes, Executes, Frame
<1>2. /\ Frame \in FrameTypes /\ types \in Seq(Types) /\ Len(types) <= MAX_STACK
  BY State
<1>3. IsSuffix(<< >>, types) /\ << >> \in Seq(Types) /\ Len(<< >>) = 0
  BY <1>2, SuffixNone
<1>4. Retyped(<< >>, << >>)
  <2>1. PICK n \in Nat : n = Len(types)
    BY <1>2
  <2>2. SubSeq(types, 1, n) = types
    BY <1>2, <2>1
  <2>3. types \o << >> = types
    BY <1>2
  <2> QED BY <1>1, <1>2, <1>3, <2>1, <2>2, <2>3 DEF Retyped
<1>5. Moved(Frame, 0, Frame', << >>)
  BY <1>1, <1>2, MovedNot
<1>6. c /\ Jvm!Replace(<< >>, << >>) /\ Jvm!Straight => Jvm!Execute(instr'.op, instr'.arg)
  BY <1>1 DEF Jvm!Execute
<1> QED BY <1>1, <1>3, <1>4, <1>5, <1>6, MeansNothing, StepReplaces

-----------------------------------------------------------------------------
(* Invocation.                                                             *)

(* The argument that local variable m is given.                            *)
Position(ts, m) == CHOOSE i \in DOMAIN ts : Index(ts, i) = m

(* The index of an argument counts a long twice, in both modules.          *)
LEMMA JvmIndex ==
  ASSUME NEW ts, NEW i
  PROVE  i - 1 + Jvm!Cardinality({j \in 1 .. i - 1 : ts[j] = "long"}) = Index(ts, i)
  BY DEF Jvm!Cardinality, Jvm!IsFiniteSet, Cardinality, IsFiniteSet, Index

(* What an invocation has to establish in the terms of Java.               *)
LEMMA JvmEnter ==
  ASSUME NEW ts, Jvm!IsSuffix(ts, Jvm!Types), stack' = << >>, jump' = 0,
         (status # "lost")' = (status # "lost"),
         locals' = [n \in DOMAIN locals |->
           IF \E i \in DOMAIN ts : Index(ts, i) = n
           THEN stack[Len(stack) - Len(ts) + Position(ts, n)] ELSE Jvm!UNUSABLE]
  PROVE  Jvm!Enter(ts)
  BY JvmIndex DEF Jvm!Enter, Index, Position

(* How many arguments the handler counts.                                  *)
LEMMA ArgSizeFacts ==
  ASSUME NEW desc \in Seq(Parameters)
  PROVE  /\ get_arg_size(desc) \in 0 .. Len(desc)
         /\ (\A i \in DOMAIN desc : desc[i] # "short") => get_arg_size(desc) = Len(desc)
<1>1. PICK l \in Nat : l = Len(desc) /\ DOMAIN desc = 1 .. l
  OBVIOUS
<1>2. IsFiniteSet(1 .. l) /\ Cardinality(1 .. l) = l
  BY FS_Interval
<1>3. PICK S : S = {i \in 1 .. l : desc[i] # "short"}
  OBVIOUS
<1>4. get_arg_size(desc) = Cardinality(S)
  BY <1>1, <1>3 DEF get_arg_size
<1>5. IsFiniteSet(S) /\ Cardinality(S) <= l
  BY <1>2, <1>3, FS_Subset
<1>6. Cardinality(S) \in Nat
  BY <1>5, FS_CardinalityType
<1>7. (\A i \in 1 .. l : desc[i] # "short") => S = 1 .. l
  BY <1>3
<1> QED BY <1>1, <1>2, <1>4, <1>5, <1>6, <1>7

(* The operands an invocation takes.                                       *)
LEMMA ArgumentTypes ==
  ASSUME NEW receiver \in {<< >>, << "ref" >>}, NEW desc \in Seq(Parameters),
         NEW ds, ds = [i \in DOMAIN desc |-> Operand(desc[i])], NEW ts, ts = receiver \o ds
  PROVE  /\ ts \in Seq(Types) /\ Len(receiver) \in Nat
         /\ Len(ts) = Len(receiver) + Len(desc)
<1>1. PICK l \in Nat : l = Len(desc) /\ DOMAIN desc = 1 .. l
  OBVIOUS
<1>2. \A i \in 1 .. l : desc[i] \in Parameters
  BY <1>1
<1>3. \A p \in Parameters : Operand(p) \in Types
  BY DEF Parameters, Operand, Types
<1>4. ds = [i \in 1 .. l |-> Operand(desc[i])]
  BY <1>1
<1>5. \A i \in 1 .. l : Operand(desc[i]) \in Types
  BY <1>2, <1>3
<1>6. ds \in Seq(Types) /\ Len(ds) = l
  BY <1>4, <1>5
<1>7. receiver \in Seq(Types) /\ Len(receiver) \in Nat
  <2>1. << >> \in Seq(Types) /\ Len(<< >>) \in Nat
    OBVIOUS
  <2>2. << "ref" >> \in Seq(Types) /\ Len(<< "ref" >>) \in Nat
    BY TypeNames
  <2> QED BY <2>1, <2>2
<1>8. Joins(Types, receiver, Len(receiver), ds, Len(ds), receiver \o ds)
  BY <1>6, <1>7, Above
<1> QED BY <1>1, <1>6, <1>7, <1>8 DEF Joins

(* Argument m of n, counted from 0, is the word it was below the top.      *)
LEMMA ArgumentWord ==
  ASSUME NEW f \in FrameTypes, NEW n \in Nat, n <= f.operand_offset, NEW args,
         args = [i \in 1 .. n |-> f.operand_stacks[f.operand_offset - n + i - 1]],
         NEW m \in Nat, m < n
  PROVE  /\ args[m + 1] = Word(f, f.operand_offset - n + (m + 1))
         /\ args[m + 1] \in Words
<1>1. PICK o \in 0 .. MAX_STACK : o = f.operand_offset
  BY FrameFacts
<1>2. args[m + 1] = f.operand_stacks[o - n + ((m + 1) - 1)]
  BY <1>1
<1>3. PICK k \in 1 .. MAX_STACK : k = o - n + (m + 1)
  BY <1>1, FrameAssumption
<1>4. o - n + ((m + 1) - 1) = k - 1
  BY <1>3
<1>5. args[m + 1] = Word(f, k)
  BY <1>2, <1>4 DEF Word
<1>6. Word(f, k) \in Words
  BY FrameFacts
<1> QED BY <1>1, <1>3, <1>5, <1>6

(* The frame of the method that is called.                                 *)
LEMMA NewFrame ==
  ASSUME NEW r \in Residue, NEW n, NEW args, \A m \in Locals : m < n => args[m + 1] \in Words,
         NEW f, f = [operand_stacks |-> [k \in 0 .. MAX_STACK - 1 |-> r], operand_offset |-> 0,
                     local_variables |-> [m \in Locals |-> IF m < n THEN args[m + 1] ELSE r]]
  PROVE  /\ f \in FrameTypes /\ f.operand_offset = 0
         /\ \A m \in Locals : m < n => f.local_variables[m] = args[m + 1]
<1>1. r \in Words /\ MAX_STACK \in Nat
  BY WordAssumption, FrameAssumption DEF Words
<1>2. PICK s, lv : /\ s = [k \in 0 .. MAX_STACK - 1 |-> r]
                   /\ lv = [m \in Locals |-> IF m < n THEN args[m + 1] ELSE r]
  OBVIOUS
<1>3. s \in [0 .. MAX_STACK - 1 -> Words]
  BY <1>1, <1>2
<1>4. lv \in [Locals -> Words] /\ \A m \in Locals : m < n => lv[m] = args[m + 1]
  BY <1>1, <1>2
<1>5. f = [operand_stacks |-> s, operand_offset |-> 0, local_variables |-> lv]
  BY <1>2
<1>6. 0 \in 0 .. MAX_STACK
  BY <1>1
<1>7. f \in FrameTypes
  BY <1>3, <1>4, <1>5, <1>6, FrameIs
<1> QED BY <1>4, <1>5, <1>7

(* The types of its local variables.                                       *)
Parametrised(ts) == [m \in Locals |->
  IF \E i \in DOMAIN ts : Index(ts, i) = m THEN ts[Position(ts, m)] ELSE "none"]

(* Types of parameters are types of local variables.                       *)
LEMMA ParametrisedType ==
  ASSUME NEW ts \in Seq(Types)
  PROVE  Parametrised(ts) \in LocalTypes
<1>1. \A m \in Locals : (\E i \in DOMAIN ts : Index(ts, i) = m) => Position(ts, m) \in DOMAIN ts
  BY DEF Position
<1>2. \A i \in DOMAIN ts : ts[i] \in Types
  OBVIOUS
<1> QED BY <1>1, <1>2 DEF LocalTypes, Parametrised

(* When each argument has one variable, that is the next one.              *)
LEMMA ParametrisedIs ==
  ASSUME NEW ts \in Seq(Types), \A i \in DOMAIN ts : Index(ts, i) = i - 1, NEW m \in Locals
  PROVE  /\ (\E i \in DOMAIN ts : Index(ts, i) = m) <=> m < Len(ts)
         /\ m < Len(ts) => /\ Position(ts, m) = m + 1 /\ Parametrised(ts)[m] = ts[m + 1]
                           /\ ts[m + 1] \in Types /\ m + 1 \in 1 .. Len(ts)
         /\ ~(m < Len(ts)) => Parametrised(ts)[m] = "none"
<1>1. PICK n \in Nat : n = Len(ts) /\ DOMAIN ts = 1 .. n
  OBVIOUS
<1>2. m \in Nat
  BY FrameAssumption DEF Locals
<1>3. \A i \in 1 .. n : Index(ts, i) = m <=> i = m + 1
  BY <1>1, <1>2
<1>4. (\E i \in 1 .. n : Index(ts, i) = m) <=> m < n
  BY <1>2, <1>3
<1>5. ASSUME m < n PROVE Position(ts, m) = m + 1 /\ m + 1 \in 1 .. n
  <2>1. m + 1 \in 1 .. n
    BY <1>2, <1>5
  <2>2. PICK p : p = Position(ts, m)
    OBVIOUS
  <2>3. p = CHOOSE i \in 1 .. n : Index(ts, i) = m
    BY <1>1, <2>2 DEF Position
  <2>4. p \in 1 .. n /\ Index(ts, p) = m
    BY <1>4, <1>5, <2>3
  <2> QED BY <1>3, <2>1, <2>2, <2>4
<1>6. Parametrised(ts)[m] = IF m < n THEN ts[Position(ts, m)] ELSE "none"
  BY <1>1, <1>4 DEF Parametrised
<1>7. m < n => ts[m + 1] \in Types
  BY <1>1, <1>5
<1> QED BY <1>1, <1>4, <1>5, <1>6, <1>7

(* An invocation hands the arguments over as Java says, as far as its      *)
(* handler is faithful.                                                    *)
LEMMA InvokeStep ==
  ASSUME TypeOK, NEW receiver \in {<< >>, << "ref" >>},
         NEW desc \in BoundedSeq(Parameters, MAX_STACK), Invoke(receiver, desc)
  PROVE  TypeOK' /\ Jvm!Next
<1> DEFINE ts == receiver \o [i \in DOMAIN desc |-> Operand(desc[i])]
           n == Len(receiver) + get_arg_size(desc)
           args == [i \in 1 .. n |-> Frame.operand_stacks[Frame.operand_offset - n + i - 1]]
           c == /\ \A i \in DOMAIN desc : desc[i] # "short"
                /\ \A i \in DOMAIN ts : Index(ts, i) = i - 1
<1>1. ts = receiver \o [i \in DOMAIN desc |-> Operand(desc[i])]
  OBVIOUS
<1>2. n = Len(receiver) + get_arg_size(desc)
  OBVIOUS
<1>3. args = [i \in 1 .. n |-> Frame.operand_stacks[Frame.operand_offset - n + i - 1]]
  OBVIOUS
<1>4. c = (/\ \A i \in DOMAIN desc : desc[i] # "short"
           /\ \A i \in DOMAIN ts : Index(ts, i) = i - 1)
  OBVIOUS
<1>5. /\ Has(ts) /\ Executes("invoke", ts) /\ types' = << >> /\ jump' = 0
      /\ localTypes' = [m \in DOMAIN localTypes |->
           IF \E i \in DOMAIN ts : Index(ts, i) = m
           THEN ts[CHOOSE i \in DOMAIN ts : Index(ts, i) = m] ELSE "none"]
      /\ \E r \in Residue :
           Frame' = [operand_stacks |-> [k \in 0 .. MAX_STACK - 1 |-> r], operand_offset |-> 0,
                     local_variables |-> [m \in DOMAIN localTypes |-> IF m < n THEN args[m + 1] ELSE r]]
      /\ Faithful(c)
  BY DEF Invoke, Completes, Frame
<1> HIDE DEF ts, n, args, c
<1>6. status = "run" /\ IsSuffix(ts, types)
  BY <1>5 DEF Has
<1>7. /\ Frame \in FrameTypes /\ types \in Seq(Types) /\ Len(types) = Frame.operand_offset
      /\ localTypes \in LocalTypes
  BY <1>6, State
<1>8. DOMAIN localTypes = Locals
  BY <1>7 DEF LocalTypes
<1>9. desc \in Seq(Parameters)
  BY FrameAssumption, Bounded
<1>10. ts \in Seq(Types) /\ Len(receiver) \in Nat /\ Len(ts) = Len(receiver) + Len(desc)
  BY <1>1, <1>9, ArgumentTypes
<1>11. /\ get_arg_size(desc) \in 0 .. Len(desc)
       /\ (\A i \in DOMAIN desc : desc[i] # "short") => get_arg_size(desc) = Len(desc)
  BY <1>9, ArgSizeFacts
<1>12. n \in Nat /\ n <= Len(ts) /\ (c => n = Len(ts))
  <2>1. PICK x \in Nat, l \in Nat : x = Len(receiver) /\ l = Len(desc)
    BY <1>9, <1>10
  <2>2. PICK a \in 0 .. l : a = get_arg_size(desc)
    BY <1>11, <2>1
  <2>3. c => a = l
    BY <1>4, <1>11, <2>1, <2>2
  <2>4. n = x + a /\ Len(ts) = x + l
    BY <1>2, <1>10, <2>1, <2>2, Zenon
  <2> QED BY <2>1, <2>2, <2>3, <2>4
<1>13. PICK o \in 0 .. MAX_STACK : o = Frame.operand_offset /\ Len(types) = o
  BY <1>7, FrameFacts
<1>14. /\ Len(ts) <= o
       /\ \A i \in 1 .. Len(ts) : ts[i] = types[o - Len(ts) + i]
  <2>1. Len(ts) <= Len(types) /\ \A i \in 1 .. Len(ts) : ts[i] = types[Len(types) - Len(ts) + i]
    BY <1>6, <1>7, <1>10, SuffixIs, Zenon
  <2> QED BY <1>13, <2>1
<1>15. ASSUME NEW m \in Locals, m < n
       PROVE  args[m + 1] = Word(Frame, o - n + (m + 1)) /\ args[m + 1] \in Words
  <2>1. m \in Nat /\ n <= Frame.operand_offset
    BY <1>10, <1>12, <1>13, <1>14, FrameAssumption DEF Locals
  <2>2. /\ args[m + 1] = Word(Frame, Frame.operand_offset - n + (m + 1))
        /\ args[m + 1] \in Words
    BY <1>3, <1>7, <1>12, <1>15, <2>1, ArgumentWord, Zenon
  <2> QED BY <1>13, <2>2
<1>16. PICK r \in Residue :
         Frame' = [operand_stacks |-> [k \in 0 .. MAX_STACK - 1 |-> r], operand_offset |-> 0,
                   local_variables |-> [m \in Locals |-> IF m < n THEN args[m + 1] ELSE r]]
  BY <1>5, <1>8, Zenon
<1>17. PICK f : f = Frame'
  OBVIOUS
<1>18. /\ f \in FrameTypes /\ f.operand_offset = 0
       /\ \A m \in Locals : m < n => f.local_variables[m] = args[m + 1]
  <2>1. \A m \in Locals : m < n => args[m + 1] \in Words
    BY <1>15
  <2>2. f = [operand_stacks |-> [k \in 0 .. MAX_STACK - 1 |-> r], operand_offset |-> 0,
             local_variables |-> [m \in Locals |-> IF m < n THEN args[m + 1] ELSE r]]
    BY <1>16, <1>17, Zenon
  <2> QED BY <2>1, <2>2, NewFrame
<1>19. types' \in BoundedSeq(Types, MAX_STACK) /\ Len(types') = 0
  <2>1. << >> \in Seq(Types) /\ Len(<< >>) <= MAX_STACK /\ MAX_STACK \in Nat /\ Len(<< >>) = 0
    BY FrameAssumption
  <2>2. << >> \in BoundedSeq(Types, MAX_STACK)
    BY <2>1, Bounded
  <2> QED BY <1>5, <2>1, <2>2
<1>20. PICK lt : lt = localTypes' /\ lt = Parametrised(ts) /\ lt \in LocalTypes
  BY <1>5, <1>8, <1>10, ParametrisedType, Zenon DEF Parametrised, Position
<1>21. ASSUME c, status' = status
       PROVE  Jvm!Execute(instr'.op, instr'.arg)
  <2>1. instr'.op = "invoke" /\ instr'.arg = ts
    BY <1>5 DEF Executes
  <2>2. Jvm!IsSuffix(ts, Jvm!Types)
    BY <1>6, Running, JvmSuffix
  <2>3. stack' = << >>
    BY <1>5 DEF stack
  <2>4. n = Len(ts) /\ \A i \in DOMAIN ts : Index(ts, i) = i - 1
    BY <1>4, <1>12, <1>21
  <2>5. /\ Len(stack) = o /\ \A i \in 1 .. o : stack[i] = Typed(types[i], Value(Word(Frame, i), types[i]))
    BY <1>6, <1>13, Running
  <2>6. PICK ls : ls = [m \in Locals |-> IF lt[m] = "none" THEN Typed("none", 0)
                                         ELSE Typed(lt[m], Value(f.local_variables[m], lt[m]))]
    OBVIOUS
  <2>7. locals' = ls
    BY <1>17, <1>20, <2>6 DEF locals
  <2>8. ASSUME NEW m \in Locals
        PROVE  ls[m] = IF \E i \in DOMAIN ts : Index(ts, i) = m
                       THEN stack[Len(stack) - Len(ts) + Position(ts, m)] ELSE Typed("none", 0)
    <3>1. ls[m] = IF lt[m] = "none" THEN Typed("none", 0)
                  ELSE Typed(lt[m], Value(f.local_variables[m], lt[m]))
      BY <2>6
    <3>2. m \in Nat
      BY FrameAssumption DEF Locals
    <3>3. CASE m < n
      <4>1. PICK k \in 1 .. o : k = o - n + (m + 1)
        <5>1. n \in Nat /\ n <= o
          BY <1>12, <1>14, <2>4
        <5>2. o - n + (m + 1) \in 1 .. o
          BY <3>2, <3>3, <5>1
        <5> QED BY <5>2
      <4>2. /\ \E i \in DOMAIN ts : Index(ts, i) = m
            /\ Position(ts, m) = m + 1 /\ lt[m] = ts[m + 1] /\ ts[m + 1] \in Types
            /\ m + 1 \in 1 .. Len(ts)
        BY <1>10, <1>20, <2>4, <3>3, ParametrisedIs
      <4>3. ts[m + 1] = types[k]
        BY <1>14, <2>4, <4>1, <4>2
      <4>4. f.local_variables[m] = Word(Frame, k)
        BY <1>15, <1>18, <3>3, <4>1
      <4>5. lt[m] = types[k] /\ lt[m] # "none"
        BY <4>2, <4>3 DEF Types
      <4>6. ls[m] = stack[k]
        BY <2>5, <3>1, <4>4, <4>5
      <4>7. Len(stack) - Len(ts) + Position(ts, m) = k
        BY <2>4, <2>5, <4>1, <4>2
      <4> QED BY <4>2, <4>6, <4>7
    <3>4. CASE ~(m < n)
      BY <1>10, <1>20, <2>4, <3>1, <3>4, ParametrisedIs
    <3> QED BY <3>3, <3>4
  <2>9. DOMAIN locals = Locals /\ Jvm!UNUSABLE = Typed("none", 0)
    BY JvmNames DEF locals, Jvm!UNUSABLE
  <2>10. ls = [m \in Locals |-> IF \E i \in DOMAIN ts : Index(ts, i) = m
                 THEN stack[Len(stack) - Len(ts) + Position(ts, m)] ELSE Typed("none", 0)]
    <3> DEFINE new(m) == IF \E i \in DOMAIN ts : Index(ts, i) = m
                 THEN stack[Len(stack) - Len(ts) + Position(ts, m)] ELSE Typed("none", 0)
    <3>1. \A m \in Locals : ls[m] = new(m)
      BY <2>8
    <3>2. ls = [m \in Locals |-> ls[m]]
      BY <2>6
    <3> HIDE DEF new
    <3>3. ls = [m \in Locals |-> new(m)]
      BY <3>1, <3>2
    <3> QED BY <3>3 DEF new
  <2>11. locals' = [m \in DOMAIN locals |-> IF \E i \in DOMAIN ts : Index(ts, i) = m
                     THEN stack[Len(stack) - Len(ts) + Position(ts, m)] ELSE Jvm!UNUSABLE]
    BY <2>7, <2>9, <2>10, Zenon
  <2>12. (status # "lost")' = (status # "lost")
    BY <1>21
  <2>13. Jvm!Enter(ts)
    BY <1>5, <2>2, <2>3, <2>11, <2>12, JvmEnter
  <2> QED BY <2>1, <2>13 DEF Jvm!Execute
<1>22. /\ Frame' \in FrameTypes /\ Frame'.operand_offset = Len(types') /\ localTypes' \in LocalTypes
  BY <1>17, <1>18, <1>19, <1>20
<1> QED BY <1>5, <1>6, <1>19, <1>21, <1>22, Outcome

-----------------------------------------------------------------------------
(* The theorems.                                                           *)

(* The first frame is empty, as Java's is.                                 *)
LEMMA InitFacts ==
  ASSUME Init
  PROVE  TypeOK /\ Jvm!Init
<1>1. PICK s, l : /\ s \in [0 .. MAX_STACK - 1 -> Residue] /\ l \in [Locals -> Residue]
                  /\ cur_stack_frame = [operand_stacks |-> s, operand_offset |-> 0, local_variables |-> l]
  BY DEF Init, Locals
<1>2. /\ types = << >> /\ localTypes = [n \in Locals |-> "none"]
      /\ instr = [op |-> "none", arg |-> 0] /\ jump = 0 /\ status = "run"
  BY DEF Init, Locals
<1>3. \A r \in Residue : r \in Words
  BY WordAssumption DEF Words
<1>4. s \in [0 .. MAX_STACK - 1 -> Words] /\ l \in [Locals -> Words] /\ 0 \in 0 .. MAX_STACK
  BY <1>1, <1>3, FrameAssumption
<1>5. /\ cur_stack_frame \in FrameTypes /\ Frame.operand_offset = 0
  BY <1>1, <1>4, FrameIs DEF Frame
<1>6. << >> \in Seq(Types) /\ Len(<< >>) <= MAX_STACK /\ Len(<< >>) = 0 /\ MAX_STACK \in Nat
  BY FrameAssumption
<1>7. types \in BoundedSeq(Types, MAX_STACK) /\ Len(types) = 0
  BY <1>2, <1>6, Bounded
<1>8. localTypes \in [Locals -> Types \cup {"none"}]
  BY <1>2
<1>9. TypeOK
  BY <1>2, <1>5, <1>7, <1>8 DEF TypeOK, FrameTypes
<1>10. stack = << >>
  BY <1>2 DEF stack
<1>11. locals = [n \in Locals |-> Typed("none", 0)]
  BY <1>2 DEF locals
<1>12. Jvm!Init
  BY <1>2, <1>10, <1>11, JvmNames DEF Jvm!Init, Jvm!UNUSABLE, Locals
<1> QED BY <1>9, <1>12

(* A step that changes nothing changes nothing of what Java sees.          *)
LEMMA Unchanged ==
  ASSUME TypeOK, UNCHANGED vars
  PROVE  TypeOK' /\ UNCHANGED Jvm!vars
<1>1. UNCHANGED <<cur_stack_frame, types, localTypes, instr, jump, status>>
  BY DEF vars
<1>2. TypeOK'
  BY <1>1 DEF TypeOK, Frame
<1>3. stack' = stack /\ locals' = locals
  BY <1>1 DEF stack, locals, Frame
<1>4. (status # "lost")' = (status # "lost")
  BY <1>1
<1> QED BY <1>1, <1>2, <1>3, <1>4 DEF Jvm!vars

(* Every step of the handlers is one of Java or none.                      *)
LEMMA NextFacts ==
  ASSUME TypeOK, Next
  PROVE  TypeOK' /\ [Jvm!Next]_(Jvm!vars)
<1>1. CASE Iconst \/ Lconst \/ Bipush \/ Sipush \/ Ldc \/ Ldc2 \/ New
  BY <1>1, IconstStep, LconstStep, BipushStep, SipushStep, LdcStep, Ldc2Step, NewStep
<1>2. CASE \/ \E n \in Variables : Load(n) \/ StoreIndexed(n) \/ StoreFixed(n)
           \/ LoadIndexed \/ Iload0
  BY <1>2, LoadSteps, StoreSteps
<1>3. CASE Dup \/ \E p \in Printed : Println(p[1], p[2])
  BY <1>3, DupStep, PrintlnStep
<1>4. CASE \/ \E t \in Types : PutStatic(t) \/ PutField(t)
           \/ \E t \in Types, w \in Contents : GetStatic(t, w) \/ GetField(t, w)
  BY <1>4, PutStaticStep, PutFieldStep, GetStaticStep, GetFieldStep
<1>5. CASE (\E r \in Refs : NewArray(r)) \/ \E v \in 0 .. 1 : Instanceof(v)
  BY <1>5, NewArrayStep, InstanceofStep
<1>6. CASE \/ \E p \in ArrayLoads : \E v \in Samples(p[2]) : Element(p[1], p[2], v)
           \/ \E t, u \in {"int", "long"} : \E v \in Samples(u) : FloatConverts(t, u, v)
  BY <1>6, ElementStep, FloatConvertsStep
<1>7. CASE \E t \in {"int", "long"} : Sigfpe(t) \/ \E op \in Operators : Arithmetic(op, t)
  BY <1>7, SigfpeStep, ArithmeticStep
<1>8. CASE I2l \/ I2b \/ L2i \/ I2c \/ I2s
  BY <1>8, I2lStep, I2bStep, L2iStep, I2cStep, I2sStep
<1>9. CASE \E o \in Offsets : IfEq(o) \/ Goto(o)
  BY <1>9, IfEqStep, GotoStep
<1>10. CASE \E receiver \in {<< >>, << "ref" >>}, desc \in BoundedSeq(Parameters, MAX_STACK) :
              Invoke(receiver, desc)
  BY <1>10, InvokeStep
<1>11. CASE Nop \/ Unimplemented
  BY <1>11, IdleStep
<1> QED BY <1>1, <1>2, <1>3, <1>4, <1>5, <1>6, <1>7, <1>8, <1>9, <1>10, <1>11 DEF Next

(* Whatever the widths, the depths and the residue, the slots of a frame   *)
(* hold words, none is pushed above what the method declares, and while    *)
(* the machine runs there are as many as the class file says.              *)
THEOREM TypeCorrect == Spec => []TypeOK
<1>1. TypeOK /\ [Next]_vars => TypeOK'
  BY NextFacts, Unchanged
<1> QED BY <1>1, InitFacts, PTL DEF Spec

(* Residue never shows: until an instruction meets one of the operands its *)
(* handler is listed not to be faithful on, each does to the typed         *)
(* operands and local variables exactly what Java says.                    *)
THEOREM JvmImplemented == Spec => ImplementsJvm
<1>1. TypeOK /\ [Next]_vars => [Jvm!Next]_(Jvm!vars)
  BY NextFacts, Unchanged
<1> QED BY <1>1, InitFacts, TypeCorrect, PTL DEF Spec, ImplementsJvm, Jvm!Spec
=============================================================================
