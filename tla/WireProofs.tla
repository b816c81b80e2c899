------------------------------- MODULE WireProofs -------------------------------
(***************************************************************************)
(* TLAPS proofs of what MCWire checks on three messages, for all messages  *)
(* and any number of requests:                                             *)
(*                                                                         *)
(*   MessageReadBack    from_ascii undoes to_ascii, and stoi does not throw *)
(*   WireTypeCorrect, MessagesHandedOn, ThrowsOnlyWhenCut                  *)
(*                                                                         *)
(* First the codec, by induction over the characters of a line; then the   *)
(* connection, with the inductive invariant WInv.                          *)
(***************************************************************************)
EXTENDS Wire, FiniteSetTheorems, SequenceTheorems, TLAPS

-----------------------------------------------------------------------------
(* Induction.  The loops of message_utility are recursive functions over the *)
(* characters of a line; what they compute is proved by induction, in the    *)
(* form of a lemma about a set of numbers.                                   *)

\* A set that holds 0, and with every number the next one, holds all: the
\* interval up to the first number outside would be a smallest finite set.
LEMMA SetOfNaturals ==
    ASSUME NEW S, 0 \in S, \A n \in Nat : n \in S => n + 1 \in S
    PROVE  Nat \subseteq S
  <1> DEFINE T == Nat \ S
             U == {1 .. n : n \in T}
             R == StrictSubsetOrdering(Nat)
  <1> SUFFICES ASSUME T # {} PROVE FALSE
    OBVIOUS
  <1>1. \A n \in Nat : 1 .. n \in FiniteSubsetsOf(Nat)
    BY FS_Interval DEF FiniteSubsetsOf
  <1>2. U \subseteq FiniteSubsetsOf(Nat) /\ U # {}
    BY <1>1
  <1>3. PICK x \in U : \A y \in U : ~(<<y, x>> \in R)
    <2>1. IsWellFoundedOn(R, FiniteSubsetsOf(Nat))
      BY FS_StrictSubsetOrderingWellFounded
    <2> HIDE DEF U, R
    <2> QED
      BY <1>2, <2>1, WFMin
  <1>4. PICK n \in T : x = 1 .. n
    OBVIOUS
  <1>5. n # 0 /\ n - 1 \in Nat
    OBVIOUS
  <1>6. n - 1 \in T
    BY <1>5
  <1>7. 1 .. n - 1 \in U
    BY <1>6
  <1>8. <<1 .. n - 1, 1 .. n>> \in R
    <2>1. 1 .. n - 1 \subseteq 1 .. n /\ n \in 1 .. n /\ n \notin 1 .. n - 1
      BY <1>5
    <2>2. 1 .. n - 1 \in SUBSET Nat /\ 1 .. n \in SUBSET Nat
      OBVIOUS
    <2> QED
      BY <2>1, <2>2 DEF StrictSubsetOrdering
  <1> QED
    BY <1>3, <1>4, <1>7, <1>8

\* What holds of 0 and passes on from every number up to n holds of all of them.
LEMMA Upwards ==
    ASSUME NEW n \in Nat, NEW S, 0 \in S,
           \A i \in 1 .. n : i - 1 \in S => i \in S
    PROVE  0 .. n \subseteq S
  <1> DEFINE T == {k \in Nat : k <= n => k \in S}
  <1>1. 0 \in T
    OBVIOUS
  <1>2. ASSUME NEW k \in Nat, k \in T PROVE k + 1 \in T
    <2>1. CASE k + 1 <= n
      <3>1. k + 1 \in 1 .. n /\ k + 1 - 1 = k /\ k \in S
        BY <1>2, <2>1
      <3> QED
        BY <3>1
    <2>2. CASE ~(k + 1 <= n)
      BY <2>2
    <2> QED
      BY <2>1, <2>2
  <1> HIDE DEF T
  <1>3. Nat \subseteq T
    BY <1>1, <1>2, SetOfNaturals
  <1> QED
    BY <1>3 DEF T

\* What a loop of n steps can compute, as the values after every step.
Loops(V, n, base, step) ==
    {f \in [0 .. n -> V] : /\ f[0] = base
                           /\ \A i \in 1 .. n : f[i] = step[i][f[i - 1]]}

\* A loop of n steps has a result: the function that every recursive
\* definition below chooses exists.
LEMMA Iterates ==
    ASSUME NEW V, NEW n \in Nat, NEW base \in V,
           NEW step \in [1 .. n -> [V -> V]]
    PROVE  Loops(V, n, base, step) # {}
  <1> DEFINE Loop(k, f) == /\ f[0] = base
                           /\ \A i \in 1 .. k : f[i] = step[i][f[i - 1]]
             S == {k \in 0 .. n : \E f \in [0 .. k -> V] : Loop(k, f)}
  <1>1. 0 \in S
    <2> DEFINE f == [i \in 0 .. 0 |-> base]
    <2>1. f \in [0 .. 0 -> V] /\ Loop(0, f)
      OBVIOUS
    <2> HIDE DEF f, Loop
    <2> QED
      BY <2>1
  <1>2. ASSUME NEW k \in 1 .. n, k - 1 \in S PROVE k \in S
    <2>1. PICK f \in [0 .. k - 1 -> V] : Loop(k - 1, f)
      BY <1>2
    <2> DEFINE v == step[k][f[k - 1]]
               g == [i \in 0 .. k |-> IF i < k THEN f[i] ELSE v]
    <2>2. v \in V
      <3>1. f[k - 1] \in V /\ step[k] \in [V -> V]
        OBVIOUS
      <3> QED
        BY <3>1
    <2>3. g \in [0 .. k -> V]
      <3>1. \A i \in 0 .. k : i < k => i \in 0 .. k - 1
        OBVIOUS
      <3> HIDE DEF v
      <3> QED
        BY <2>2, <3>1
    <2>4. Loop(k, g)
      <3>1. g[0] = base /\ g[k] = v /\ g[k - 1] = f[k - 1]
        BY <2>1
      <3>2. ASSUME NEW i \in 1 .. k - 1 PROVE g[i] = step[i][g[i - 1]]
        <4>1. g[i] = f[i] /\ g[i - 1] = f[i - 1]
          OBVIOUS
        <4> HIDE DEF g
        <4> QED
          BY <2>1, <4>1
      <3>3. \A i \in 1 .. k : i = k \/ i \in 1 .. k - 1
        OBVIOUS
      <3> HIDE DEF g
      <3> QED
        BY <3>1, <3>2, <3>3
    <2> HIDE DEF g, Loop
    <2> QED
      BY <2>3, <2>4
  <1> HIDE DEF S
  <1>3. 0 .. n \subseteq S
    BY <1>1, <1>2, Upwards
  <1>4. n \in S
    BY <1>3
  <1> QED
    BY <1>4 DEF S, Loops

\* Whatever function follows the steps of a loop stays in V.
LEMMA IteratesWithin ==
    ASSUME NEW V, NEW n \in Nat, NEW f, f[0] \in V,
           f = [i \in 0 .. n |-> f[i]],
           \A i \in 1 .. n : f[i - 1] \in V => f[i] \in V
    PROVE  f \in [0 .. n -> V]
  <1> DEFINE S == {k \in 0 .. n : f[k] \in V}
  <1>1. 0 \in S
    OBVIOUS
  <1>2. \A i \in 1 .. n : i - 1 \in S => i \in S
    OBVIOUS
  <1> HIDE DEF S
  <1>3. 0 .. n \subseteq S
    BY <1>1, <1>2, Upwards
  <1> QED
    BY <1>3 DEF S

-----------------------------------------------------------------------------
(* The numbers *)

Chars == 0 .. 127
Digits == 48 .. 57

\* What stands behind a minus.
LEMMA Signed ==
    ASSUME NEW x \in Int, NEW y \in Int, NEW z \in Int
    PROVE  /\ <<45>> \o <<x>> = <<45, x>> /\ <<>> \o <<x>> = <<x>>
           /\ <<45>> \o <<x, y>> = <<45, x, y>> /\ <<>> \o <<x, y>> = <<x, y>>
           /\ <<45>> \o <<x, y, z>> = <<45, x, y, z>>
           /\ <<>> \o <<x, y, z>> = <<x, y, z>>
  <1>0. /\ <<45>> \in Seq(Int) /\ <<x>> \in Seq(Int) /\ <<x, y>> \in Seq(Int)
        /\ <<x, y, z>> \in Seq(Int) /\ Len(<<45>>) = 1 /\ Len(<<x>>) = 1 /\ Len(<<x, y>>) = 2
        /\ Len(<<x, y, z>>) = 3
    OBVIOUS
  <1>1. <<45>> \o <<x>> = <<45, x>>
    <2> DEFINE r == <<45>> \o <<x>>
    <2>1. r \in Seq(Int) /\ Len(r) = 2 /\ r[1] = 45 /\ r[2] = x
      BY <1>0, ConcatProperties
    <2> HIDE DEF r
    <2>2. r = <<45, x>>
      BY <2>1
    <2> QED
      BY <2>2 DEF r
  <1>2. <<45>> \o <<x, y>> = <<45, x, y>>
    <2> DEFINE r == <<45>> \o <<x, y>>
    <2>1. r \in Seq(Int) /\ Len(r) = 3 /\ r[1] = 45 /\ r[2] = x /\ r[3] = y
      BY <1>0, ConcatProperties
    <2> HIDE DEF r
    <2>2. r = <<45, x, y>>
      BY <2>1
    <2> QED
      BY <2>2 DEF r
  <1>4. <<45>> \o <<x, y, z>> = <<45, x, y, z>>
    <2> DEFINE r == <<45>> \o <<x, y, z>>
    <2>1. r \in Seq(Int) /\ Len(r) = 4 /\ r[1] = 45 /\ r[2] = x /\ r[3] = y /\ r[4] = z
      BY <1>0, ConcatProperties
    <2> HIDE DEF r
    <2>2. r = <<45, x, y, z>>
      BY <2>1
    <2> QED
      BY <2>2 DEF r
  <1>5. <<>> \o <<x>> = <<x>>
    OBVIOUS
  <1>6. <<>> \o <<x, y>> = <<x, y>>
    OBVIOUS
  <1>7. <<>> \o <<x, y, z>> = <<x, y, z>>
    BY SMTT(30)
  <1> QED
    BY <1>1, <1>2, <1>4, <1>5, <1>6, <1>7

\* A byte is printed as one to three digits, behind a minus if it is negative.
LEMMA DecimalCases ==
    ASSUME NEW n \in Bytes
    PROVE  \E a, b, c \in 0 .. 9 :
              \/ Decimal(n) = <<48 + a>> /\ n = a
              \/ Decimal(n) = <<48 + a, 48 + b>> /\ n = 10 * a + b
              \/ /\ Decimal(n) = <<48 + a, 48 + b, 48 + c>>
                 /\ n = 100 * a + 10 * b + c
              \/ Decimal(n) = <<45, 48 + a>> /\ n = -a
              \/ Decimal(n) = <<45, 48 + a, 48 + b>> /\ n = -(10 * a + b)
              \/ /\ Decimal(n) = <<45, 48 + a, 48 + b, 48 + c>>
                 /\ n = -(100 * a + 10 * b + c)
  <1> DEFINE abs == IF n < 0 THEN -n ELSE n
             tens == abs \div 10
             digits == IF abs < 10 THEN <<48 + abs>>
                       ELSE IF abs < 100 THEN <<48 + tens, 48 + (abs % 10)>>
                       ELSE <<48 + (abs \div 100), 48 + (tens % 10), 48 + (abs % 10)>>
  <1>1. abs \in 0 .. 128 /\ (n < 0 => n = -abs) /\ (~(n < 0) => n = abs)
    BY DEF Bytes
  <1>2. Decimal(n) = (IF n < 0 THEN <<45>> ELSE <<>>) \o digits
    BY DEF Decimal, Minus, Zero
  <1> HIDE DEF abs
  <1>3. /\ abs % 10 \in 0 .. 9 /\ abs = 10 * tens + (abs % 10)
        /\ tens \in 0 .. 12 /\ (abs < 100 => tens \in 0 .. 9)
    BY <1>1
  <1> DEFINE hundreds == abs \div 100
  <1>3a. /\ hundreds \in 0 .. 9 /\ tens % 10 \in 0 .. 9
         /\ tens = 10 * hundreds + (tens % 10)
    <2>1. hundreds = tens \div 10
      BY <1>1
    <2> HIDE DEF tens, hundreds
    <2> QED
      BY <1>3, <2>1
  <1> HIDE DEF hundreds, tens
  <1>3b. abs = 100 * hundreds + 10 * (tens % 10) + (abs % 10)
    BY SMTT(30), <1>1, <1>3, <1>3a
  <1>4. CASE abs < 10
    <2>1. digits = <<48 + abs>> /\ abs \in 0 .. 9
      BY <1>3, <1>4
    <2> HIDE DEF digits
    <2>2. Decimal(n) = IF n < 0 THEN <<45, 48 + abs>> ELSE <<48 + abs>>
      BY <1>2, <2>1, Signed
    <2> QED
      BY ZenonT(40), <1>1, <2>1, <2>2
  <1>5. CASE ~(abs < 10) /\ abs < 100
    <2> DEFINE a == tens
               b == abs % 10
    <2>1. digits = <<48 + a, 48 + b>> /\ a \in 0 .. 9 /\ b \in 0 .. 9
      BY <1>3, <1>5
    <2>2. abs = 10 * a + b
      BY <1>3
    <2> HIDE DEF digits, a, b
    <2>3. Decimal(n) = IF n < 0 THEN <<45, 48 + a, 48 + b>>
                       ELSE <<48 + a, 48 + b>>
      BY SMTT(30), <1>2, <2>1, Signed
    <2>4. CASE n < 0
      <3>1. Decimal(n) = <<45, 48 + a, 48 + b>> /\ n = -(10 * a + b)
        BY <1>1, <2>2, <2>3, <2>4
      <3> QED
        BY <2>1, <3>1
    <2>5. CASE ~(n < 0)
      <3>1. Decimal(n) = <<48 + a, 48 + b>> /\ n = 10 * a + b
        BY <1>1, <2>2, <2>3, <2>5
      <3> QED
        BY <2>1, <3>1
    <2> QED
      BY <2>4, <2>5
  <1>6. CASE ~(abs < 100)
    <2> DEFINE a == hundreds
               b == tens % 10
               c == abs % 10
    <2>1. /\ digits = <<48 + a, 48 + b, 48 + c>>
          /\ a \in 0 .. 9 /\ b \in 0 .. 9 /\ c \in 0 .. 9
      BY <1>1, <1>3, <1>3a, <1>6 DEF hundreds
    <2>2. abs = 100 * a + 10 * b + c
      BY <1>3b
    <2> HIDE DEF digits, a, b, c
    <2>3. Decimal(n) = IF n < 0 THEN <<45, 48 + a, 48 + b, 48 + c>>
                       ELSE <<48 + a, 48 + b, 48 + c>>
      BY SMTT(30), <1>2, <2>1, Signed
    <2>4. CASE n < 0
      <3>1. Decimal(n) = <<45, 48 + a, 48 + b, 48 + c>>
        BY <2>3, <2>4
      <3>2. n = -(100 * a + 10 * b + c)
        BY <1>1, <2>2, <2>4
      <3> QED
        BY <2>1, <3>1, <3>2
    <2>5. CASE ~(n < 0)
      <3>1. Decimal(n) = <<48 + a, 48 + b, 48 + c>>
        BY <2>3, <2>5
      <3>2. n = 100 * a + 10 * b + c
        BY <1>1, <2>2, <2>5
      <3> QED
        BY <2>1, <3>1, <3>2
    <2> QED
      BY <2>4, <2>5
  <1> QED
    BY <1>4, <1>5, <1>6

\* Digits, and a minus in front of them at most.
LEMMA DecimalShape ==
    ASSUME NEW n \in Bytes
    PROVE  /\ Decimal(n) \in Seq(Chars) /\ Len(Decimal(n)) \in 1 .. 4
           /\ \A i \in 1 .. Len(Decimal(n)) :
                 Decimal(n)[i] \in Digits \/ (i = 1 /\ Decimal(n)[i] = Minus)
           /\ Decimal(n)[Len(Decimal(n))] \in Digits
  <1>1. PICK a \in 0 .. 9, b \in 0 .. 9, c \in 0 .. 9 :
              \/ Decimal(n) = <<48 + a>> /\ n = a
              \/ Decimal(n) = <<48 + a, 48 + b>> /\ n = 10 * a + b
              \/ /\ Decimal(n) = <<48 + a, 48 + b, 48 + c>>
                 /\ n = 100 * a + 10 * b + c
              \/ Decimal(n) = <<45, 48 + a>> /\ n = -a
              \/ Decimal(n) = <<45, 48 + a, 48 + b>> /\ n = -(10 * a + b)
              \/ /\ Decimal(n) = <<45, 48 + a, 48 + b, 48 + c>>
                 /\ n = -(100 * a + 10 * b + c)
    BY ZenonT(40), DecimalCases
  <1>2. /\ 48 + a \in Digits /\ 48 + b \in Digits /\ 48 + c \in Digits
        /\ 48 + a \in Chars /\ 48 + b \in Chars /\ 48 + c \in Chars
        /\ Minus = 45 /\ 45 \in Chars
    BY DEF Digits, Chars, Minus
  <1>3. CASE Decimal(n) = <<48 + a>>
    BY <1>2, <1>3
  <1>4. CASE Decimal(n) = <<48 + a, 48 + b>>
    BY <1>2, <1>4
  <1>5. CASE Decimal(n) = <<48 + a, 48 + b, 48 + c>>
    BY <1>2, <1>5
  <1>6. CASE Decimal(n) = <<45, 48 + a>>
    BY <1>2, <1>6
  <1>7. CASE Decimal(n) = <<45, 48 + a, 48 + b>>
    BY <1>2, <1>7
  <1>8. CASE Decimal(n) = <<45, 48 + a, 48 + b, 48 + c>>
    BY <1>2, <1>8
  <1> QED
    BY SMTT(30), <1>1, <1>3, <1>4, <1>5, <1>6, <1>7, <1>8

\* The value after each character of a token.
ValueStep(token, i, v) ==
    IF token[i] = Minus THEN v
    ELSE IF token[1] = Minus THEN 10 * v - (token[i] - Zero)
    ELSE 10 * v + (token[i] - Zero)

LEMMA StoiSteps ==
    ASSUME NEW token \in Seq(Chars)
    PROVE  \E v \in [0 .. Len(token) -> Int] :
              /\ v[0] = 0 /\ v[Len(token)] = stoi(token)
              /\ \A i \in 1 .. Len(token) : v[i] = ValueStep(token, i, v[i - 1])
  <1> DEFINE n == Len(token)
             Steps(f) == [i \in 0 .. n |->
                            IF i = 0 THEN 0
                            ELSE IF token[i] = Minus THEN f[i - 1]
                            ELSE IF token[1] = Minus
                            THEN 10 * f[i - 1] - (token[i] - Zero)
                            ELSE 10 * f[i - 1] + (token[i] - Zero)]
             value == CHOOSE f : f = Steps(f)
             step == [i \in 1 .. n |-> [v \in Int |-> ValueStep(token, i, v)]]
  <1>1. stoi(token) = value[n]
    BY DEF stoi
  <1>2. n \in Nat /\ \A i \in 1 .. n : token[i] \in Int /\ token[1] \in Int
    <2>1. n \in Nat /\ \A i \in 1 .. n : token[i] \in Chars
      OBVIOUS
    <2>2. \A i \in 1 .. n : 1 \in 1 .. n
      BY <2>1
    <2>3. Chars \subseteq Int
      BY DEF Chars
    <2> QED
      BY <2>1, <2>2, <2>3
  <1>3. \A i \in 1 .. n, v \in Int : ValueStep(token, i, v) \in Int
    BY <1>2 DEF ValueStep, Zero
  <1>4. /\ step \in [1 .. n -> [Int -> Int]]
        /\ \A i \in 1 .. n, v \in Int : step[i][v] = ValueStep(token, i, v)
    <2> HIDE DEF n
    <2> QED
      BY <1>3
  <1> HIDE DEF step
  <1>5. PICK f \in [0 .. n -> Int] :
           f[0] = 0 /\ \A i \in 1 .. n : f[i] = step[i][f[i - 1]]
    <2> DEFINE base == 0
    <2>1. n \in Nat /\ base \in Int
      BY <1>2
    <2> HIDE DEF n, base, Steps, value
    <2>2. Loops(Int, n, base, step) # {}
      BY <1>4, <2>1, Iterates
    <2> QED
      BY <2>2 DEF Loops, base
  <1>6. \A i \in 1 .. n : f[i] = ValueStep(token, i, f[i - 1])
    <2> HIDE DEF n
    <2>1. \A i \in 1 .. n : f[i - 1] \in Int
      BY <1>2
    <2> QED
      BY <1>2, <1>4, <1>5, <2>1
  <1>7. f = Steps(f)
    <2>1. \A i \in 0 .. n : i = 0 \/ i \in 1 .. n
      BY <1>2
    <2> HIDE DEF n
    <2> QED
      BY <1>5, <1>6, <2>1 DEF ValueStep
  <1>8. value = Steps(value)
    <2> HIDE DEF Steps
    <2> QED
      BY <1>7, Zenon
  <1> HIDE DEF value
  <1>9. value[0] = 0 /\ \A i \in 1 .. n : value[i] = ValueStep(token, i, value[i - 1])
    BY SMTT(30), <1>2, <1>8 DEF ValueStep
  <1>10. value = [i \in 0 .. n |-> value[i]]
    <2> DEFINE w == Steps(value)
    <2>1. w = [i \in 0 .. n |-> w[i]]
      BY Zenon
    <2> HIDE DEF w, n
    <2> QED
      BY <1>8, <2>1 DEF w
  <1>11. \A i \in 1 .. n : value[i - 1] \in Int => value[i] \in Int
    BY <1>3, <1>9
  <1>12. value \in [0 .. n -> Int]
    <2> HIDE DEF n, Steps
    <2>1. n \in Nat /\ value[0] \in Int
      BY <1>2, <1>9
    <2> QED
      BY <2>1, <1>10, <1>11, IteratesWithin
  <1> QED
    BY <1>1, <1>9, <1>12

LEMMA StoiInteger ==
    ASSUME NEW token \in Seq(Chars) PROVE stoi(token) \in Int
  <1>1. Len(token) \in 0 .. Len(token)
    OBVIOUS
  <1> QED
    BY <1>1, StoiSteps

\* The conversion keeps within char, and a char as it is.
LEMMA CharOfInt ==
    ASSUME NEW n \in Int
    PROVE  Char(n) \in Bytes /\ (n \in Bytes => Char(n) = n)
  BY DEF Char, Bytes

\* stoi reads what the stream has printed.
LEMMA StoiOfDecimal ==
    ASSUME NEW n \in Bytes
    PROVE  stoi(Decimal(n)) = n /\ IsNumber(Decimal(n))
  <1> DEFINE token == Decimal(n)
  <1>1. token \in Seq(Chars) /\ Len(token) \in 1 .. 4
        /\ token[Len(token)] \in Digits
    BY DecimalShape
  <1>2. IsNumber(token)
    <2>1. token[Len(token)] # 45
      BY SMTT(30), <1>1 DEF Digits
    <2> HIDE DEF token
    <2> QED
      BY <2>1 DEF IsNumber, Minus
  <1>3. PICK v \in [0 .. Len(token) -> Int] :
              /\ v[0] = 0 /\ v[Len(token)] = stoi(token)
              /\ \A i \in 1 .. Len(token) : v[i] = ValueStep(token, i, v[i - 1])
    <2> HIDE DEF token
    <2> QED
      BY <1>1, StoiSteps
  <1>4. PICK a \in 0 .. 9, b \in 0 .. 9, c \in 0 .. 9 :
              \/ Decimal(n) = <<48 + a>> /\ n = a
              \/ Decimal(n) = <<48 + a, 48 + b>> /\ n = 10 * a + b
              \/ /\ Decimal(n) = <<48 + a, 48 + b, 48 + c>>
                 /\ n = 100 * a + 10 * b + c
              \/ Decimal(n) = <<45, 48 + a>> /\ n = -a
              \/ Decimal(n) = <<45, 48 + a, 48 + b>> /\ n = -(10 * a + b)
              \/ /\ Decimal(n) = <<45, 48 + a, 48 + b, 48 + c>>
                 /\ n = -(100 * a + 10 * b + c)
    BY DecimalCases
  <1>5. stoi(token) = v[Len(token)]
    BY <1>3
  <1> DEFINE Step(i) == v[i] = ValueStep(token, i, v[i - 1])
  <1>6. 1 <= Len(token) => Step(1)
    BY <1>1, <1>3
  <1>7. 2 <= Len(token) => Step(2)
    BY <1>1, <1>3
  <1>8. 3 <= Len(token) => Step(3)
    BY <1>1, <1>3
  <1>9. 4 <= Len(token) => Step(4)
    BY <1>1, <1>3
  <1>10. stoi(token) = n
    <2> HIDE DEF token
    <2>1. CASE token = <<48 + a>> /\ n = a
      BY <1>3, <1>5, <1>6, <2>1 DEF ValueStep, Minus, Zero
    <2>2. CASE token = <<48 + a, 48 + b>> /\ n = 10 * a + b
      BY <1>3, <1>5, <1>6, <1>7, <2>2 DEF ValueStep, Minus, Zero
    <2>3. CASE token = <<48 + a, 48 + b, 48 + c>> /\ n = 100 * a + 10 * b + c
      BY <1>3, <1>5, <1>6, <1>7, <1>8, <2>3 DEF ValueStep, Minus, Zero
    <2>4. CASE token = <<45, 48 + a>> /\ n = -a
      BY <1>3, <1>5, <1>6, <1>7, <2>4 DEF ValueStep, Minus, Zero
    <2>5. CASE token = <<45, 48 + a, 48 + b>> /\ n = -(10 * a + b)
      BY <1>3, <1>5, <1>6, <1>7, <1>8, <2>5 DEF ValueStep, Minus, Zero
    <2>6. CASE token = <<45, 48 + a, 48 + b, 48 + c>> /\ n = -(100 * a + 10 * b + c)
      BY <1>3, <1>5, <1>6, <1>7, <1>8, <1>9, <2>6 DEF ValueStep, Minus, Zero
    <2> QED
      BY <1>4, <2>1, <2>2, <2>3, <2>4, <2>5, <2>6 DEF token
  <1> QED
    BY <1>2, <1>10

-----------------------------------------------------------------------------
(* The line *)

\* The loop of to_ascii.
LEMMA TextSteps ==
    ASSUME NEW data \in Seq(Bytes)
    PROVE  \E t \in [0 .. Len(data) -> Seq(Chars)] :
              /\ t[0] = <<>> /\ t[Len(data)] = Text(data)
              /\ \A i \in 1 .. Len(data) :
                    t[i] = t[i - 1] \o <<Space>> \o Decimal(data[i])
  <1> DEFINE n == Len(data)
             Steps(f) == [i \in 0 .. n |->
                            IF i = 0 THEN <<>>
                            ELSE f[i - 1] \o <<Space>> \o Decimal(data[i])]
             text == CHOOSE f : f = Steps(f)
             V == Seq(Chars)
             step == [i \in 1 .. n |->
                        [s \in V |-> s \o <<Space>> \o Decimal(data[i])]]
  <1>1. Text(data) = text[n]
    BY DEF Text
  <1>2. n \in Nat /\ \A i \in 1 .. n : data[i] \in Bytes
    OBVIOUS
  <1>3. \A i \in 1 .. n, s \in V : s \o <<Space>> \o Decimal(data[i]) \in V
    <2> TAKE i \in 1 .. n, s \in V
    <2> DEFINE d == Decimal(data[i])
    <2>1. d \in V
      BY <1>2, DecimalShape
    <2> HIDE DEF d
    <2>2. <<Space>> \in V
      BY DEF Space, Chars
    <2> DEFINE p == s \o <<Space>>
    <2>3. p \in V
      BY <2>2
    <2> HIDE DEF p
    <2>4. p \o d \in V
      BY <2>1, <2>3
    <2> QED
      BY <2>4 DEF p, d
  <1>4. /\ step \in [1 .. n -> [V -> V]]
        /\ \A i \in 1 .. n, s \in V :
              step[i][s] = s \o <<Space>> \o Decimal(data[i])
    <2> HIDE DEF n, V
    <2> QED
      BY <1>3
  <1> HIDE DEF step
  <1>5. PICK f \in [0 .. n -> V] :
           f[0] = <<>> /\ \A i \in 1 .. n : f[i] = step[i][f[i - 1]]
    <2> DEFINE base == <<>>
    <2>1. n \in Nat /\ base \in V
      BY <1>2
    <2> HIDE DEF n, base, V, Steps, text
    <2>2. Loops(V, n, base, step) # {}
      BY <1>4, <2>1, Iterates
    <2> QED
      BY <2>2 DEF Loops, base
  <1>6. \A i \in 1 .. n : f[i] = f[i - 1] \o <<Space>> \o Decimal(data[i])
    <2> HIDE DEF n, V
    <2>1. \A i \in 1 .. n : f[i - 1] \in V
      BY <1>2
    <2> QED
      BY <1>2, <1>4, <1>5, <2>1
  <1>7. f = Steps(f)
    <2>1. \A i \in 0 .. n : i = 0 \/ i \in 1 .. n
      BY <1>2
    <2> HIDE DEF n, V
    <2> QED
      BY <1>5, <1>6, <2>1
  <1>8. text = Steps(text)
    <2> HIDE DEF Steps
    <2> QED
      BY <1>7, Zenon
  <1> HIDE DEF text
  <1>9. /\ text[0] = <<>>
        /\ \A i \in 1 .. n : text[i] = text[i - 1] \o <<Space>> \o Decimal(data[i])
    BY SMTT(30), <1>2, <1>8
  <1>10. text = [i \in 0 .. n |-> text[i]]
    <2> DEFINE w == Steps(text)
    <2>1. w = [i \in 0 .. n |-> w[i]]
      BY Zenon
    <2> HIDE DEF w, n
    <2> QED
      BY <1>8, <2>1 DEF w
  <1>11. \A i \in 1 .. n : text[i - 1] \in V => text[i] \in V
    <2> HIDE DEF V, n
    <2> QED
      BY <1>3, <1>9
  <1>12. text \in [0 .. n -> V]
    <2>1. n \in Nat /\ text[0] \in V
      BY <1>2, <1>9
    <2> HIDE DEF n, Steps, V
    <2> QED
      BY <2>1, <1>10, <1>11, IteratesWithin
  <1> QED
    BY <1>1, <1>9, <1>12

\* The line of a message: its k-th number stands behind start[k] characters.
Laid(data, start) ==
    /\ start \in [1 .. Len(data) + 1 -> Nat]
    /\ start[1] = 0 /\ start[Len(data) + 1] = Len(Text(data))
    /\ \A k \in 1 .. Len(data) :
          /\ start[k + 1] = start[k] + 1 + Len(Decimal(data[k]))
          /\ Text(data)[start[k] + 1] = Space
          /\ \A d \in 1 .. Len(Decimal(data[k])) :
                Text(data)[start[k] + 1 + d] = Decimal(data[k])[d]
    /\ \A i \in 1 .. Len(Text(data)) :
          \E k \in 1 .. Len(data) :
             \E d \in 0 .. Len(Decimal(data[k])) : i = start[k] + 1 + d

LEMMA TextLaid ==
    ASSUME NEW data \in Seq(Bytes)
    PROVE  Text(data) \in Seq(Chars) /\ \E start : Laid(data, start)
  <1> DEFINE n == Len(data)
             D(k) == Decimal(data[k])
  <1>1. n \in Nat /\ \A k \in 1 .. n : D(k) \in Seq(Chars) /\ Len(D(k)) \in Nat
    <2>1. n \in Nat /\ \A k \in 1 .. n : data[k] \in Bytes
      OBVIOUS
    <2> HIDE DEF n
    <2> QED
      BY <2>1, DecimalShape
  <1>2. PICK t \in [0 .. n -> Seq(Chars)] :
           /\ t[0] = <<>> /\ t[n] = Text(data)
           /\ \A i \in 1 .. n : t[i] = t[i - 1] \o <<Space>> \o D(i)
    BY TextSteps
  <1> HIDE DEF n, D
  <1>3. \A k \in 1 .. n : k - 1 \in 0 .. n /\ k \in 0 .. n /\ t[k] \in Seq(Chars)
                          /\ t[k - 1] \in Seq(Chars) /\ Len(t[k - 1]) \in Nat
    BY <1>1
  \* What the loop appends in one round.
  <1>4. ASSUME NEW k \in 1 .. n
        PROVE  /\ Len(t[k]) = Len(t[k - 1]) + 1 + Len(D(k))
               /\ \A i \in 1 .. Len(t[k - 1]) : t[k][i] = t[k - 1][i]
               /\ t[k][Len(t[k - 1]) + 1] = Space
               /\ \A d \in 1 .. Len(D(k)) : t[k][Len(t[k - 1]) + 1 + d] = D(k)[d]
    <2> DEFINE s == t[k - 1]
               p == s \o <<Space>>
               e == D(k)
    <2>1. s \in Seq(Chars) /\ e \in Seq(Chars) /\ Len(s) \in Nat /\ Len(e) \in Nat
      BY <1>1, <1>3
    <2>2. t[k] = p \o e
      BY <1>2
    <2>3. <<Space>> \in Seq(Chars) /\ Len(<<Space>>) = 1 /\ <<Space>>[1] = Space
      BY DEF Space, Chars
    <2> SUFFICES /\ Len(p \o e) = Len(s) + 1 + Len(e)
                 /\ \A i \in 1 .. Len(s) : (p \o e)[i] = s[i]
                 /\ (p \o e)[Len(s) + 1] = Space
                 /\ \A d \in 1 .. Len(e) : (p \o e)[Len(s) + 1 + d] = e[d]
      BY <2>2
    <2> HIDE DEF s, e
    <2>4. /\ p \in Seq(Chars) /\ Len(p) = Len(s) + 1
          /\ \A i \in 1 .. Len(s) : p[i] = s[i]
          /\ p[Len(s) + 1] = Space
      BY <2>1, <2>3, ConcatProperties
    <2> HIDE DEF p
    <2>5. /\ Len(p \o e) = Len(p) + Len(e)
          /\ \A i \in 1 .. Len(p) + Len(e) :
                (p \o e)[i] = IF i <= Len(p) THEN p[i] ELSE e[i - Len(p)]
      BY <2>1, <2>4, ConcatProperties
    <2>6. \A i \in 1 .. Len(s) + 1 : (p \o e)[i] = p[i]
      BY <2>1, <2>4, <2>5
    <2>7. ASSUME NEW d \in 1 .. Len(e) PROVE (p \o e)[Len(s) + 1 + d] = e[d]
      <3> DEFINE i == Len(s) + 1 + d
      <3>1. i \in 1 .. Len(p) + Len(e) /\ ~(i <= Len(p)) /\ i - Len(p) = d
        BY <2>1, <2>4
      <3> HIDE DEF i
      <3>2. (p \o e)[i] = e[d]
        BY <2>5, <3>1
      <3> QED
        BY <3>2 DEF i
    <2> QED
      BY <2>1, <2>4, <2>5, <2>6, <2>7
  \* It stays as it is in what the loop computes in the end.
  <1>5. ASSUME NEW k \in 1 .. n
        PROVE  \A i \in 1 .. Len(t[k]) : t[n][i] = t[k][i]
    <2> DEFINE S == {m \in 0 .. n : k <= m => /\ Len(t[k]) <= Len(t[m])
                                              /\ \A i \in 1 .. Len(t[k]) : t[m][i] = t[k][i]}
    <2>1. 0 \in S
      BY <1>1
    <2>2. ASSUME NEW m \in 1 .. n, m - 1 \in S PROVE m \in S
      <3>1. CASE k = m
        BY <3>1, <1>3
      <3>2. CASE k <= m - 1
        <4>1. /\ Len(t[k]) <= Len(t[m - 1])
              /\ \A i \in 1 .. Len(t[k]) : t[m - 1][i] = t[k][i]
          BY <2>2, <3>2
        <4>2. Len(t[m - 1]) \in Nat /\ Len(t[k]) \in Nat /\ Len(D(m)) \in Nat
          BY <1>1, <1>3
        <4>3. \A i \in 1 .. Len(t[k]) : i \in 1 .. Len(t[m - 1])
          BY <4>1, <4>2
        <4>4. \A i \in 1 .. Len(t[k]) : t[m][i] = t[k][i]
          BY <1>4, <4>1, <4>3
        <4>5. Len(t[k]) <= Len(t[m])
          BY <1>4, <4>1, <4>2
        <4> QED
          BY <4>4, <4>5, <1>3
      <3>3. CASE k > m
        BY <3>3, <1>3
      <3> QED
        BY <1>1, <3>1, <3>2, <3>3
    <2> HIDE DEF S
    <2>3. 0 .. n \subseteq S
      BY <1>1, <2>1, <2>2, Upwards
    <2>4. n \in S /\ k <= n
      BY <1>1, <2>3
    <2> QED
      BY <2>4 DEF S
  <1> DEFINE start == [k \in 1 .. n + 1 |-> Len(t[k - 1])]
  \* Every character belongs to a number.
  <1>6. \A i \in 1 .. Len(t[n]) : \E k \in 1 .. n : \E d \in 0 .. Len(D(k)) :
           i = Len(t[k - 1]) + 1 + d
    <2> DEFINE S == {m \in 0 .. n : \A i \in 1 .. Len(t[m]) :
                        \E k \in 1 .. n : \E d \in 0 .. Len(D(k)) :
                           i = Len(t[k - 1]) + 1 + d}
    <2>1. 0 \in S
      <3>1. Len(t[0]) = 0
        BY <1>2
      <3> QED
        BY <1>1, <3>1
    <2>2. ASSUME NEW m \in 1 .. n, m - 1 \in S PROVE m \in S
      <3> SUFFICES ASSUME NEW i \in 1 .. Len(t[m])
                   PROVE  \E k \in 1 .. n : \E d \in 0 .. Len(D(k)) :
                             i = Len(t[k - 1]) + 1 + d
        BY <1>3
      <3>1. Len(t[m - 1]) \in Nat /\ Len(D(m)) \in Nat
        BY <1>1, <1>3
      <3>2. CASE i <= Len(t[m - 1])
        <4>1. i \in 1 .. Len(t[m - 1])
          BY <3>1, <3>2
        <4> QED
          BY <2>2, <4>1
      <3>3. CASE ~(i <= Len(t[m - 1]))
        <4> DEFINE l == Len(t[m - 1])
                   w == Len(D(m))
                   d == i - l - 1
        <4>1. Len(t[m]) = l + 1 + w /\ l \in Nat /\ w \in Nat
          BY <1>4, <3>1
        <4>2. i \in 1 .. l + 1 + w /\ ~(i <= l)
          BY <3>3, <4>1
        <4> HIDE DEF l, w
        <4>3. d \in 0 .. w /\ i = l + 1 + d
          BY <4>1, <4>2
        <4> HIDE DEF d
        <4> QED
          BY <4>3 DEF l, w
      <3> QED
        BY <3>2, <3>3
    <2> HIDE DEF S
    <2>3. 0 .. n \subseteq S
      BY <1>1, <2>1, <2>2, Upwards
    <2>4. n \in S
      BY <1>1, <2>3
    <2> QED
      BY <2>4 DEF S
  <1>7. /\ start \in [1 .. n + 1 -> Nat] /\ start[1] = 0 /\ start[n + 1] = Len(t[n])
        /\ \A k \in 1 .. n : /\ start[k] = Len(t[k - 1])
                             /\ start[k + 1] = Len(t[k])
    <2>1. \A k \in 1 .. n + 1 : k - 1 \in 0 .. n /\ Len(t[k - 1]) \in Nat
      BY <1>1
    <2>2. Len(t[0]) = 0 /\ 1 \in 1 .. n + 1 /\ n + 1 \in 1 .. n + 1
      BY <1>1, <1>2
    <2>3. \A k \in 1 .. n : k \in 1 .. n + 1 /\ k + 1 \in 1 .. n + 1 /\ k + 1 - 1 = k
      BY <1>1
    <2>4. n + 1 - 1 = n /\ 1 - 1 = 0
      BY <1>1
    <2>5. start \in [1 .. n + 1 -> Nat]
      BY <2>1
    <2>6. \A k \in 1 .. n + 1 : start[k] = Len(t[k - 1])
      OBVIOUS
    <2> HIDE DEF start
    <2>7. start[1] = 0
      <3>1. \A k \in 1 .. n + 1 : k = 1 => k - 1 = 0
        OBVIOUS
      <3> QED
        BY <2>2, <2>6, <3>1
    <2>8. start[n + 1] = Len(t[n])
      <3>1. \A k \in 1 .. n + 1 : k = n + 1 => k - 1 = n
        BY <1>1
      <3> QED
        BY <2>2, <2>6, <3>1
    <2>9. \A k \in 1 .. n : start[k] = Len(t[k - 1])
      BY <2>3, <2>6
    <2>10. \A k \in 1 .. n : start[k + 1] = Len(t[k])
      BY <2>3, <2>6
    <2> QED
      BY <2>5, <2>7, <2>8, <2>9, <2>10
  <1> HIDE DEF start
  <1>8. ASSUME NEW k \in 1 .. n
        PROVE  /\ start[k + 1] = start[k] + 1 + Len(D(k))
               /\ t[n][start[k] + 1] = Space
               /\ \A d \in 1 .. Len(D(k)) : t[n][start[k] + 1 + d] = D(k)[d]
    <2>1. Len(t[k - 1]) \in Nat /\ Len(D(k)) \in Nat
      BY <1>1, <1>3
    <2>2. /\ Len(t[k]) = start[k] + 1 + Len(D(k)) /\ start[k] = Len(t[k - 1])
          /\ t[k][start[k] + 1] = Space
          /\ \A d \in 1 .. Len(D(k)) : t[k][start[k] + 1 + d] = D(k)[d]
      BY <1>4, <1>7
    <2>3. start[k] + 1 \in 1 .. Len(t[k])
      BY <2>1, <2>2
    <2>4. \A d \in 1 .. Len(D(k)) : start[k] + 1 + d \in 1 .. Len(t[k])
      BY <2>1, <2>2
    <2> QED
      BY <1>5, <1>7, <2>2, <2>3, <2>4
  <1>9. \A i \in 1 .. Len(t[n]) : \E k \in 1 .. n : \E d \in 0 .. Len(D(k)) :
           i = start[k] + 1 + d
    BY ZenonT(40), <1>6, <1>7
  <1>10. Laid(data, start)
    BY <1>2, <1>7, <1>8, <1>9 DEF Laid, n, D
  <1>11. Text(data) \in Seq(Chars)
    BY <1>1, <1>2
  <1> QED
    BY <1>10, <1>11

-----------------------------------------------------------------------------
(* The line read *)

\* One round of sstream >> temp: the tokens after one more character.
Read(line, i, tokens) ==
    IF line[i] = Space THEN tokens
    ELSE IF i = 1 \/ line[i - 1] = Space THEN Append(tokens, <<line[i]>>)
    ELSE Longer(tokens, line[i])

LEMMA LongerTokens ==
    ASSUME NEW tokens \in Seq(Seq(Chars)), NEW ch \in Chars
    PROVE  Longer(tokens, ch) \in Seq(Seq(Chars))
  <1> DEFINE n == Len(tokens)
             V == Seq(Chars)
  <1>1. n \in Nat /\ tokens \in [1 .. n -> V]
    OBVIOUS
  <1>2. \A k \in 1 .. n : Append(tokens[k], ch) \in V
    BY <1>1
  <1>3. Longer(tokens, ch) = [tokens EXCEPT ![n] = Append(@, ch)]
    BY DEF Longer
  <1> HIDE DEF n, V
  <1>4. Longer(tokens, ch) \in [1 .. n -> V]
    BY <1>1, <1>2, <1>3
  <1> QED
    BY <1>1, <1>4 DEF V

LEMMA ReadSteps ==
    ASSUME NEW line \in Seq(Chars)
    PROVE  \E r \in [0 .. Len(line) -> Seq(Seq(Chars))] :
              /\ r[0] = <<>> /\ r[Len(line)] = Tokens(line)
              /\ \A i \in 1 .. Len(line) : r[i] = Read(line, i, r[i - 1])
  <1> DEFINE n == Len(line)
             Steps(f) == [i \in 0 .. n |->
                            IF i = 0 THEN <<>>
                            ELSE IF line[i] = Space THEN f[i - 1]
                            ELSE IF i = 1 \/ line[i - 1] = Space
                            THEN Append(f[i - 1], <<line[i]>>)
                            ELSE Longer(f[i - 1], line[i])]
             read == CHOOSE f : f = Steps(f)
             V == Seq(Seq(Chars))
             step == [i \in 1 .. n |-> [s \in V |-> Read(line, i, s)]]
  <1>1. Tokens(line) = read[n]
    BY DEF Tokens
  <1>2. n \in Nat /\ \A i \in 1 .. n : line[i] \in Chars
    OBVIOUS
  <1>3. \A i \in 1 .. n, s \in V : Read(line, i, s) \in V
    <2> TAKE i \in 1 .. n, s \in V
    <2>1. Longer(s, line[i]) \in V
      BY <1>2, LongerTokens
    <2>2. <<line[i]>> \in Seq(Chars)
      BY <1>2
    <2>3. Append(s, <<line[i]>>) \in V
      BY <2>2
    <2> HIDE DEF V
    <2> QED
      BY <2>1, <2>3 DEF Read
  <1>4. /\ step \in [1 .. n -> [V -> V]]
        /\ \A i \in 1 .. n, s \in V : step[i][s] = Read(line, i, s)
    <2> HIDE DEF n, V
    <2> QED
      BY <1>3
  <1> HIDE DEF step
  <1>5. PICK f \in [0 .. n -> V] :
           f[0] = <<>> /\ \A i \in 1 .. n : f[i] = step[i][f[i - 1]]
    <2> DEFINE base == <<>>
    <2>1. n \in Nat /\ base \in V
      BY <1>2
    <2> HIDE DEF n, base, V, Steps, read
    <2>2. Loops(V, n, base, step) # {}
      BY <1>4, <2>1, Iterates
    <2> QED
      BY <2>2 DEF Loops, base
  <1>6. \A i \in 1 .. n : f[i] = Read(line, i, f[i - 1])
    <2> HIDE DEF n, V
    <2>1. \A i \in 1 .. n : f[i - 1] \in V
      BY <1>2
    <2> QED
      BY <1>2, <1>4, <1>5, <2>1
  <1>7. f = Steps(f)
    <2>1. \A i \in 0 .. n : i = 0 \/ i \in 1 .. n
      BY <1>2
    <2> HIDE DEF n, V
    <2> QED
      BY <1>5, <1>6, <2>1 DEF Read
  <1>8. read = Steps(read)
    <2> HIDE DEF Steps
    <2> QED
      BY <1>7, Zenon
  <1> HIDE DEF read
  <1>9. read[0] = <<>> /\ \A i \in 1 .. n : read[i] = Read(line, i, read[i - 1])
    <2>1. n \in Nat /\ 0 \in 0 .. n
      BY <1>2
    <2>2. \A i \in 1 .. n : i \in 0 .. n /\ i # 0
      BY <1>2
    <2> HIDE DEF n
    <2>3. \A i \in 0 .. n : read[i] = Steps(read)[i]
      BY <1>8
    <2>4. read[0] = <<>>
      BY <2>1, <2>3
    <2>5. \A i \in 1 .. n : read[i] =
             IF line[i] = Space THEN read[i - 1]
             ELSE IF i = 1 \/ line[i - 1] = Space
             THEN Append(read[i - 1], <<line[i]>>)
             ELSE Longer(read[i - 1], line[i])
      BY <2>2, <2>3
    <2> HIDE DEF Steps
    <2> QED
      BY <2>4, <2>5 DEF Read
  <1>10. read = [i \in 0 .. n |-> read[i]]
    <2> DEFINE w == Steps(read)
    <2>1. w = [i \in 0 .. n |-> w[i]]
      BY Zenon
    <2> HIDE DEF w, n
    <2> QED
      BY <1>8, <2>1 DEF w
  <1>11. \A i \in 1 .. n : read[i - 1] \in V => read[i] \in V
    <2> HIDE DEF V, n
    <2> QED
      BY <1>3, <1>9
  <1>12. read \in [0 .. n -> V]
    <2>1. n \in Nat /\ read[0] \in V
      BY <1>2, <1>9
    <2> HIDE DEF n, Steps, V
    <2> QED
      BY <2>1, <1>10, <1>11, IteratesWithin
  <1> QED
    BY <1>1, <1>9, <1>12

\* What is read of a message up to digit d of its k-th number.
Expected(data, k, d) ==
    [j \in 1 .. (IF d = 0 THEN k - 1 ELSE k) |->
        IF j < k THEN Decimal(data[j]) ELSE SubSeq(Decimal(data[k]), 1, d)]

LEMMA FirstOne ==
    ASSUME NEW w \in Seq(Chars), Len(w) >= 1
    PROVE  SubSeq(w, 1, 1) = <<w[1]>>
  <1> DEFINE p == SubSeq(w, 1, 1)
  <1>1. \A i \in 1 .. 1 : w[i] \in Chars
    OBVIOUS
  <1>2. p \in Seq(Chars) /\ Len(p) = 1 /\ p[1] = w[1]
    BY <1>1, SubSeqProperties
  <1> HIDE DEF p
  <1>3. p = <<w[1]>>
    BY <1>2
  <1> QED
    BY <1>3 DEF p

LEMMA OneMore ==
    ASSUME NEW w \in Seq(Chars), NEW c \in Nat, c + 1 <= Len(w)
    PROVE  Append(SubSeq(w, 1, c), w[c + 1]) = SubSeq(w, 1, c + 1)
  <1> DEFINE p == SubSeq(w, 1, c)
             q == SubSeq(w, 1, c + 1)
             x == w[c + 1]
  <1>1. /\ p \in Seq(Chars) /\ Len(p) = c
        /\ \A i \in 1 .. c : p[i] = w[i]
    OBVIOUS
  <1>2. /\ q \in Seq(Chars) /\ Len(q) = c + 1 /\ q[c + 1] = x
        /\ \A i \in 1 .. c : q[i] = w[i]
    OBVIOUS
  <1>3. x \in Chars
    OBVIOUS
  <1> HIDE DEF p, q, x
  <1> DEFINE a == Append(p, x)
  <1>4. /\ a \in Seq(Chars) /\ Len(a) = c + 1 /\ a[c + 1] = x
        /\ \A i \in 1 .. c : a[i] = w[i]
    BY <1>1, <1>3
  <1> HIDE DEF a
  <1>5. \A i \in 1 .. c + 1 : i = c + 1 \/ i \in 1 .. c
    OBVIOUS
  <1>6. \A i \in 1 .. c + 1 : a[i] = q[i]
    BY <1>2, <1>4, <1>5
  <1>7. a = q
    BY <1>2, <1>4, <1>6
  <1> QED
    BY <1>7 DEF a, p, q, x

\* A number is one token.
LEMMA UnbrokenDecimal ==
    ASSUME NEW n \in Bytes
    PROVE  /\ Decimal(n) \in Seq(Chars)
           /\ Len(Decimal(n)) \in Nat /\ Len(Decimal(n)) >= 1
           /\ \A i \in 1 .. Len(Decimal(n)) : Decimal(n)[i] # Space
  <1> DEFINE w == Decimal(n)
  <1>1. /\ w \in Seq(Chars) /\ Len(w) \in 1 .. 4
        /\ \A i \in 1 .. Len(w) : w[i] \in Digits \/ w[i] = Minus
    BY DecimalShape
  <1> HIDE DEF w
  <1>2. (\A x \in Digits : x # Space) /\ Minus # Space
    BY DEF Digits, Space, Minus
  <1>3. \A m \in 1 .. 4 : m \in Nat /\ m >= 1
    OBVIOUS
  <1> QED
    BY <1>1, <1>2, <1>3 DEF w

\* Every character of a line that begins a message continues what was read.
LEMMA BeginningRead ==
    ASSUME NEW data \in Seq(Bytes), NEW start, Laid(data, start),
           NEW line \in Seq(Chars), Len(line) <= Len(Text(data)),
           \A i \in 1 .. Len(line) : line[i] = Text(data)[i],
           NEW k \in 1 .. Len(data), NEW d \in 0 .. Len(Decimal(data[k])),
           Len(line) = start[k] + 1 + d
    PROVE  Tokens(line) = Expected(data, k, d)
  <1> DEFINE n == Len(data)
             D(j) == Decimal(data[j])
  <1>1. n \in Nat /\ \A j \in 1 .. n : data[j] \in Bytes
    OBVIOUS
  <1>2. \A j \in 1 .. n :
           /\ D(j) \in Seq(Chars) /\ Len(D(j)) \in Nat /\ Len(D(j)) >= 1
           /\ \A e \in 1 .. Len(D(j)) : D(j)[e] # Space
    BY <1>1, UnbrokenDecimal
  <1>3. /\ \A j \in 1 .. n + 1 : start[j] \in Nat
        /\ start[1] = 0
        /\ \A j \in 1 .. n : start[j + 1] = start[j] + 1 + Len(D(j))
    BY DEF Laid
  <1>4. \A j \in 1 .. n : j \in 1 .. n + 1 /\ j + 1 \in 1 .. n + 1
    BY <1>1
  <1>5. \A j \in 1 .. n : start[j] + 1 \in 1 .. Len(line) =>
                             line[start[j] + 1] = Space
    BY DEF Laid
  <1>6. \A j \in 1 .. n : \A e \in 1 .. Len(D(j)) :
           start[j] + 1 + e \in 1 .. Len(line) => line[start[j] + 1 + e] = D(j)[e]
    BY DEF Laid
  <1> DEFINE V == Seq(Seq(Chars))
             len == Len(line)
  <1>7. PICK r \in [0 .. len -> V] :
              /\ r[0] = <<>> /\ r[len] = Tokens(line)
              /\ \A i \in 1 .. len : r[i] = Read(line, i, r[i - 1])
    BY ReadSteps
  <1>8. len \in Nat /\ len = start[k] + 1 + d /\ k \in 1 .. n /\ d \in 0 .. Len(D(k))
    OBVIOUS
  <1> DEFINE At(i) == \A j \in 1 .. n : \A e \in 0 .. Len(D(j)) :
                         i = start[j] + 1 + e => r[i] = Expected(data, j, e)
             S == {i \in 0 .. len : At(i)}
  <1> HIDE DEF len, V, n, D
  <1>9. 0 \in S
    <2>1. \A j \in 1 .. n : start[j] \in Nat
      BY <1>3, <1>4
    <2>2. \A j \in 1 .. n : \A e \in 0 .. Len(D(j)) : 0 # start[j] + 1 + e
      BY <1>2, <2>1
    <2> QED
      BY <1>8, <2>2
  <1>10. ASSUME NEW i \in 1 .. len, i - 1 \in S PROVE i \in S
    <2> SUFFICES ASSUME NEW j \in 1 .. n, NEW e \in 0 .. Len(D(j)),
                        i = start[j] + 1 + e
                 PROVE  r[i] = Expected(data, j, e)
      BY <1>8
    <2> HIDE DEF S, At
    <2>0. At(i - 1)
      BY <1>10 DEF S
    <2> DEFINE a == start[j]
               w == D(j)
               l == Len(w)
    <2>1. /\ a \in Nat /\ l \in Nat /\ l >= 1 /\ w \in Seq(Chars)
          /\ e \in 0 .. l /\ i = a + 1 + e
      BY <1>2, <1>3, <1>4
    <2>1a. i \in Nat /\ i >= 1 /\ i - 1 \in 0 .. len /\ j \in Nat /\ j >= 1
           /\ len \in Nat /\ i <= len
      <3>1. len \in Nat /\ i \in 1 .. len
        BY <1>8
      <3>2. n \in Nat /\ j \in 1 .. n
        BY <1>1
      <3>3. j \in Nat /\ j >= 1
        BY <3>2
      <3> QED
        BY SMTT(30), <3>1, <3>3
    <2>1b. a + 1 \in 1 .. len => line[a + 1] = Space
      BY <1>5 DEF len
    <2>1c. \A x \in 1 .. l : /\ a + 1 + x \in 1 .. len => line[a + 1 + x] = w[x]
                             /\ w[x] # Space
      BY <1>2, <1>6 DEF len
    <2>1d. \A x \in 0 .. l : i - 1 = a + 1 + x => r[i - 1] = Expected(data, j, x)
      BY <2>0 DEF At
    <2>1e. \A x : Expected(data, j, x) =
                     [y \in 1 .. (IF x = 0 THEN j - 1 ELSE j) |->
                         IF y < j THEN D(y) ELSE SubSeq(w, 1, x)]
      BY DEF Expected, D
    <2>1f. j = 1 => a = 0
      BY <1>3
    <2>1g. \A h \in 1 .. n : h + 1 = j => a = start[h] + 1 + Len(D(h))
      BY <1>3
    <2> HIDE DEF a, w, l
    <2>2. r[i] = Read(line, i, r[i - 1])
      BY <1>7
    <2>3. CASE e = 0
      <3>1. line[i] = Space
        <4>1. i = a + 1 /\ i \in 1 .. len
          BY <2>1, <2>3
        <4> QED
          BY <2>1b, <4>1
      <3>2. r[i] = r[i - 1]
        BY <2>2, <3>1 DEF Read
      <3>3. CASE j = 1
        <4>1. i - 1 = 0
          BY <2>1, <2>1f, <2>3, <3>3
        <4>2. r[i] = <<>>
          BY <1>7, <3>2, <4>1
        <4>3. Expected(data, j, e) = <<>>
          BY <2>3, <3>3 DEF Expected
        <4> QED
          BY <4>2, <4>3
      <3>4. CASE j # 1
        <4> DEFINE h == j - 1
                   b == start[h]
                   v == D(h)
                   m == Len(v)
        <4>1. h \in 1 .. n /\ h + 1 = j
          <5>1. j \in Nat /\ n \in Nat /\ j >= 1 /\ j <= n
            BY <1>1, <2>1a
          <5> QED
            BY SMTT(30), <5>1, <3>4
        <4> HIDE DEF h
        <4>2. m \in 0 .. m /\ b \in Nat /\ m >= 1 /\ m \in Nat /\ v \in Seq(Chars)
              /\ a = b + 1 + m
          <5>1. m \in Nat /\ m >= 1 /\ v \in Seq(Chars)
            BY <1>2, <4>1
          <5>2. b \in Nat
            BY <1>3, <1>4, <4>1
          <5>3. a = b + 1 + m
            BY <2>1g, <4>1
          <5> HIDE DEF v, m, b
          <5>4. m \in 0 .. m
            BY <5>1
          <5> QED
            BY <5>1, <5>2, <5>3, <5>4
        <4>3. i - 1 = b + 1 + m
          <5> HIDE DEF b, m
          <5> QED
            BY <2>1, <2>3, <4>2
        <4>4. r[i - 1] = Expected(data, h, m)
          BY <2>0, <4>1, <4>2, <4>3 DEF At
        <4>5. SubSeq(v, 1, m) = v
          <5> HIDE DEF v
          <5> QED
            BY <4>2
        <4>6. Expected(data, h, m) = [x \in 1 .. h |-> D(x)]
          <5>1. Expected(data, h, m) =
                   [y \in 1 .. (IF m = 0 THEN h - 1 ELSE h) |->
                         IF y < h THEN D(y) ELSE SubSeq(v, 1, m)]
            BY DEF Expected, D
          <5>2. \A x \in 1 .. h : x < h \/ x = h
            BY <4>1
          <5>3. m # 0
            <6> HIDE DEF m
            <6> QED
              BY <4>2
          <5>4. \A x \in 1 .. h : D(x) = IF x < h THEN D(x) ELSE SubSeq(v, 1, m)
            BY <4>5, <5>2
          <5> HIDE DEF v, m
          <5> QED
            BY <5>1, <5>3, <5>4
        <4>7. Expected(data, j, e) = [x \in 1 .. h |-> D(x)]
          <5>1. \A x \in 1 .. h : x < j
            BY <4>1, <2>1a
          <5>2. j - 1 = h
            BY <2>1a, <4>1
          <5> QED
            BY <2>1e, <2>3, <5>1, <5>2
        <4> QED
          BY <3>2, <4>4, <4>6, <4>7
      <3> QED
        BY <3>3, <3>4
    <2>4. CASE e # 0
      <3> DEFINE c == e - 1
      <3>1. /\ e \in 1 .. l /\ c \in 0 .. l /\ i - 1 = a + 1 + c /\ e = c + 1
            /\ a + 1 + e \in 1 .. len /\ a + 1 \in 1 .. len /\ i # 1
        BY SMTT(30), <2>1, <2>1a, <2>4
      <3> HIDE DEF c
      <3>2. line[i] = w[e] /\ w[e] # Space /\ w[e] \in Chars
        <4>1. w[e] \in Chars
          BY SMTT(30), <2>1, <3>1 DEF l
        <4> QED
          BY <2>1, <2>1c, <3>1, <4>1
      <3>3. r[i - 1] = Expected(data, j, c)
        BY <2>1d, <3>1
      <3>4. Expected(data, j, e) =
               [x \in 1 .. j |-> IF x < j THEN D(x) ELSE SubSeq(w, 1, e)]
        BY <2>1e, <2>4
      <3>5. CASE c = 0
        <4>1. line[i - 1] = Space
          BY SMTT(30), <2>1, <2>1b, <3>1, <3>5
        <4>2. r[i] = Append(r[i - 1], <<w[e]>>)
          BY <2>2, <3>2, <4>1 DEF Read
        <4>3. r[i - 1] = [x \in 1 .. j - 1 |-> D(x)]
          <5>1. \A x \in 1 .. j - 1 : x < j
            BY <2>1a
          <5> QED
            BY <2>1e, <3>3, <3>5, <5>1
        <4>4. SubSeq(w, 1, e) = <<w[e]>>
          <5>1. e = 1
            BY <3>1, <3>5
          <5> QED
            BY <2>1, <5>1, FirstOne DEF l
        <4>5. Append([x \in 1 .. j - 1 |-> D(x)], <<w[e]>>)
                = [x \in 1 .. j |-> IF x < j THEN D(x) ELSE <<w[e]>>]
          <5> DEFINE s == [x \in 1 .. j - 1 |-> D(x)]
                     u == <<w[e]>>
          <5>1. s \in Seq(Seq(Chars)) /\ Len(s) = j - 1
            <6>1. \A x \in 1 .. j - 1 : D(x) \in Seq(Chars) /\ j - 1 \in Nat
              BY <1>1, <1>2, <2>1a
            <6> QED
              BY <2>1a, <6>1
          <5>2. \A x \in 1 .. j - 1 : s[x] = D(x)
            OBVIOUS
          <5>3. u \in Seq(Chars)
            BY <3>2
          <5> HIDE DEF s, u
          <5>4. /\ Append(s, u) \in Seq(Seq(Chars)) /\ Len(Append(s, u)) = j
                /\ \A x \in 1 .. j - 1 : Append(s, u)[x] = D(x)
                /\ Append(s, u)[j] = u
            BY SMTT(30), <2>1a, <5>1, <5>2, <5>3
          <5> DEFINE q == Append(s, u)
          <5>5. q = [x \in 1 .. j |-> q[x]]
            <6>1. q \in Seq(Seq(Chars)) /\ Len(q) = j
              BY <5>4
            <6> HIDE DEF q
            <6> QED
              BY <6>1
          <5>6. \A x \in 1 .. j : x < j => x \in 1 .. j - 1
            BY <2>1a
          <5>7. \A x \in 1 .. j : ~(x < j) => x = j
            BY <2>1a
          <5>8. \A x \in 1 .. j : q[x] = IF x < j THEN D(x) ELSE u
            BY <5>4, <5>6, <5>7
          <5> HIDE DEF q
          <5>9. q = [x \in 1 .. j |-> IF x < j THEN D(x) ELSE u]
            BY <5>5, <5>8
          <5> QED
            BY <5>9 DEF q, s, u
        <4> QED
          BY <3>4, <4>2, <4>3, <4>4, <4>5
      <3>6. CASE c # 0
        <4>1. c \in 1 .. l /\ a + 1 + c \in 1 .. len
          <5>1. c \in Nat /\ c >= 1 /\ c <= l
            BY <2>1, <3>1, <3>6
          <5>2. a + 1 + c = i - 1 /\ a + 1 + c >= 1
            BY <2>1, <3>1, <5>1
          <5> QED
            BY SMTT(30), <2>1, <2>1a, <5>1, <5>2
        <4>2. line[i - 1] = w[c] /\ w[c] # Space
          BY <2>1c, <3>1, <4>1
        <4>3. r[i] = Longer(r[i - 1], w[e])
          BY <2>2, <3>1, <3>2, <4>2 DEF Read
        <4> DEFINE s == [x \in 1 .. j |-> IF x < j THEN D(x) ELSE SubSeq(w, 1, c)]
        <4>4. r[i - 1] = s
          BY <2>1e, <3>3, <3>6
        <4>5. Append(SubSeq(w, 1, c), w[e]) = SubSeq(w, 1, e)
          <5>1. c \in Nat /\ c + 1 <= Len(w) /\ e = c + 1
            BY <2>1, <3>1 DEF l
          <5> QED
            BY <2>1, <5>1, OneMore
        <4>6. Len(s) = j /\ s[j] = SubSeq(w, 1, c)
          <5>1. \A x \in 1 .. j : D(x) \in Seq(Chars)
            BY <1>1, <1>2, <2>1a
          <5> DEFINE u == SubSeq(w, 1, c)
          <5>2. u \in Seq(Chars)
            BY SMTT(30), <2>1, <3>1 DEF l
          <5> HIDE DEF u
          <5>3. j \in 1 .. j /\ ~(j < j)
            BY <2>1a
          <5>4. [x \in 1 .. j |-> IF x < j THEN D(x) ELSE u] \in [1 .. j -> Seq(Chars)]
            BY <5>1, <5>2
          <5>5. Len([x \in 1 .. j |-> IF x < j THEN D(x) ELSE u]) = j
            BY <2>1a, <5>4
          <5> QED
            BY <5>3, <5>5 DEF u
        <4>7. Longer(s, w[e]) = [s EXCEPT ![j] = SubSeq(w, 1, e)]
          <5> HIDE DEF s
          <5> QED
            BY <4>5, <4>6 DEF Longer
        <4>8. [s EXCEPT ![j] = SubSeq(w, 1, e)]
                = [x \in 1 .. j |-> IF x < j THEN D(x) ELSE SubSeq(w, 1, e)]
          <5>1. \A x \in 1 .. j : x = j \/ x < j
            BY <2>1a
          <5>2. ~(j < j)
            BY <2>1a
          <5> QED
            BY <5>1, <5>2
        <4> QED
          BY <3>4, <4>3, <4>4, <4>7, <4>8
      <3> QED
        BY <3>5, <3>6
    <2> QED
      BY <2>3, <2>4
  <1> HIDE DEF S, At
  <1>11. 0 .. len \subseteq S
    BY <1>8, <1>9, <1>10, Upwards
  <1>12. At(len)
    BY <1>8, <1>11 DEF S
  <1>13. r[len] = Expected(data, k, d)
    BY <1>8, <1>12 DEF At
  <1> QED
    BY <1>7, <1>13

LEMMA TokensType ==
    ASSUME NEW line \in Seq(Chars)
    PROVE  Tokens(line) \in Seq(Seq(Chars))
  <1>1. Len(line) \in 0 .. Len(line)
    OBVIOUS
  <1> QED
    BY <1>1, ReadSteps

\* Whatever comes in is turned into bytes, one for every token.
LEMMA from_asciiType ==
    ASSUME NEW line \in Seq(Chars)
    PROVE  /\ from_ascii(line) \in Seq(Bytes)
           /\ Len(from_ascii(line)) = Len(Tokens(line))
           /\ \A k \in 1 .. Len(Tokens(line)) :
                 from_ascii(line)[k] = Char(stoi(Tokens(line)[k]))
  <1> DEFINE tokens == Tokens(line)
             n == Len(tokens)
  <1>1. n \in Nat /\ DOMAIN tokens = 1 .. n
        /\ \A k \in 1 .. n : tokens[k] \in Seq(Chars)
    BY TokensType
  <1>2. \A k \in 1 .. n : Char(stoi(tokens[k])) \in Bytes
    BY <1>1, StoiInteger, CharOfInt
  <1>3. from_ascii(line) = [k \in DOMAIN tokens |-> Char(stoi(tokens[k]))]
    BY DEF from_ascii
  <1> HIDE DEF n, tokens
  <1>4. from_ascii(line) \in [1 .. n -> Bytes]
    BY <1>1, <1>2, <1>3
  <1>5. from_ascii(line) \in Seq(Bytes) /\ Len(from_ascii(line)) = n
    BY <1>1, <1>4
  <1>6. \A k \in 1 .. n : from_ascii(line)[k] = Char(stoi(tokens[k]))
    BY <1>1, <1>3
  <1> QED
    BY <1>5, <1>6 DEF n, tokens

\* What begins the line of a message.
Begins(line, data) ==
    /\ line \in Seq(Chars) /\ Len(line) <= Len(Text(data))
    /\ \A i \in 1 .. Len(line) : line[i] = Text(data)[i]

\* Where a line is cut, and what is read of it.
LEMMA CutRead ==
    ASSUME NEW data \in Seq(Bytes), NEW line, Begins(line, data), line # <<>>
    PROVE  \E k \in 1 .. Len(data) : \E d \in 0 .. Len(Decimal(data[k])) :
              /\ Tokens(line) = Expected(data, k, d)
              /\ line = Text(data) => k = Len(data) /\ d = Len(Decimal(data[k]))
  <1>1. PICK start : Laid(data, start)
    BY TextLaid
  <1>2. Text(data) \in Seq(Chars)
    BY TextLaid
  <1>3. Len(line) \in 1 .. Len(Text(data))
    BY <1>2 DEF Begins
  <1>4. PICK k \in 1 .. Len(data) : \E d \in 0 .. Len(Decimal(data[k])) :
                                       Len(line) = start[k] + 1 + d
    BY <1>1, <1>3 DEF Laid
  <1>5. PICK d \in 0 .. Len(Decimal(data[k])) : Len(line) = start[k] + 1 + d
    BY <1>4
  <1>6. Tokens(line) = Expected(data, k, d)
    BY <1>1, <1>5, BeginningRead DEF Begins
  <1>7. ASSUME line = Text(data)
        PROVE  k = Len(data) /\ d = Len(Decimal(data[k]))
    <2> DEFINE n == Len(data)
               w == Len(Decimal(data[k]))
               S == {m \in 0 .. n : m > k => start[m + 1] >= start[k + 1] + 1}
    <2>1. n \in Nat /\ k \in 1 .. n /\ d \in 0 .. w
      OBVIOUS
    <2>2. \A j \in 1 .. n : Len(Decimal(data[j])) \in Nat
      <3>1. \A j \in 1 .. n : data[j] \in Bytes
        OBVIOUS
      <3> QED
        BY <3>1, DecimalShape
    <2>3. /\ \A j \in 1 .. n : start[j] \in Nat /\ start[j + 1] \in Nat
          /\ start[n + 1] = start[k] + 1 + d
          /\ start[k + 1] = start[k] + 1 + w
      <3>1. \A j \in 1 .. n : j \in 1 .. n + 1 /\ j + 1 \in 1 .. n + 1
        BY <2>1
      <3> QED
        BY <1>1, <1>5, <1>7, <3>1 DEF Laid
    <2>4. \A j \in 1 .. n : start[j + 1] = start[j] + 1 + Len(Decimal(data[j]))
      BY <1>1 DEF Laid
    <2> HIDE DEF n, w
    <2>5. 0 \in S
      BY <2>1
    <2>6. ASSUME NEW m \in 1 .. n, m - 1 \in S PROVE m \in S
      <3> SUFFICES ASSUME m > k PROVE start[m + 1] >= start[k + 1] + 1
        BY <2>1
      <3> DEFINE a == start[m + 1]
                 b == start[m]
                 c == start[k + 1]
                 l == Len(Decimal(data[m]))
      <3>1. a \in Nat /\ b \in Nat /\ c \in Nat /\ l \in Nat /\ a = b + 1 + l
        <4>1. a \in Nat /\ b \in Nat
          BY <2>3
        <4>2. c \in Nat
          BY <2>1, <2>3
        <4>3. l \in Nat
          BY <2>2
        <4>4. a = b + 1 + l
          BY <2>4
        <4> QED
          BY <4>1, <4>2, <4>3, <4>4
      <3>2. CASE m - 1 = k
        <4>1. m = k + 1
          BY <2>1, <3>2
        <4>2. b = c
          BY <4>1
        <4> HIDE DEF a, b, c, l
        <4>3. a >= c + 1
          BY <3>1, <4>2
        <4> QED
          BY <4>3 DEF a, c
      <3>3. CASE m - 1 # k
        <4>1. m - 1 > k
          BY <2>1, <3>3
        <4>2. start[m - 1 + 1] >= start[k + 1] + 1
          BY <2>6, <4>1
        <4>3. m - 1 + 1 = m
          OBVIOUS
        <4>4. b >= c + 1
          BY <4>2, <4>3
        <4> HIDE DEF a, b, c, l
        <4>5. a >= c + 1
          BY <3>1, <4>4
        <4> QED
          BY <4>5 DEF a, c
      <3> QED
        BY <3>2, <3>3
    <2> HIDE DEF S
    <2>7. 0 .. n \subseteq S
      BY <2>1, <2>5, <2>6, Upwards
    <2>8. n > k => start[n + 1] >= start[k + 1] + 1
      <3>1. n \in S
        BY <2>1, <2>7
      <3> QED
        BY <3>1 DEF S
    <2>9. start[k] \in Nat /\ w \in Nat
      BY <2>1, <2>2, <2>3 DEF w
    <2> DEFINE a == start[k]
               e == start[n + 1]
               c == start[k + 1]
    <2>10. e = a + 1 + d /\ c = a + 1 + w /\ a \in Nat /\ (n > k => e >= c + 1)
      BY <2>3, <2>8, <2>9
    <2> HIDE DEF a, e, c
    <2>11. n = k
      BY <2>1, <2>9, <2>10
    <2>12. c = e
      BY <2>11 DEF c, e
    <2>13. d = w
      BY <2>1, <2>9, <2>10, <2>12
    <2> QED
      BY <2>11, <2>13 DEF n, w
  <1> QED
    BY <1>6, <1>7

LEMMA NothingRead == Tokens(<<>>) = <<>> /\ Text(<<>>) = <<>>
  <1> DEFINE e == <<>>
  <1>1. e \in Seq(Chars) /\ e \in Seq(Bytes) /\ Len(e) = 0 /\ e = <<>>
    OBVIOUS
  <1> HIDE DEF e
  <1>2. Tokens(e) = <<>>
    BY <1>1, ReadSteps
  <1>3. Text(e) = <<>>
    BY <1>1, TextSteps
  <1> QED
    BY <1>1, <1>2, <1>3

LEMMA TextLength ==
    ASSUME NEW data \in Seq(Bytes), data # <<>>
    PROVE  Text(data) # <<>>
  <1> DEFINE n == Len(data)
             k == n
             w == Decimal(data[n])
  <1>1. n \in Nat /\ n >= 1 /\ n \in 1 .. n /\ data[n] \in Bytes
    OBVIOUS
  <1>2. PICK start : Laid(data, start)
    BY TextLaid
  <1>3. Len(w) \in Nat
    BY <1>1, DecimalShape
  <1>4. start[n] \in Nat /\ start[n + 1] = start[n] + 1 + Len(w)
        /\ start[n + 1] = Len(Text(data))
    <2>1. n \in 1 .. n + 1
      BY <1>1
    <2> QED
      BY <1>1, <1>2, <2>1 DEF Laid
  <1> DEFINE a == start[n]
             l == Len(w)
  <1>5. a \in Nat /\ l \in Nat /\ Len(Text(data)) = a + 1 + l
    BY <1>3, <1>4
  <1> HIDE DEF a, l
  <1>6. Len(Text(data)) # 0
    BY <1>5
  <1> QED
    BY <1>6

\* A number is read as it was written: the number and its token.
LEMMA TokenRead ==
    ASSUME NEW data \in Seq(Bytes), NEW j \in 1 .. Len(data)
    PROVE  /\ Char(stoi(Decimal(data[j]))) = data[j]
           /\ IsNumber(Decimal(data[j]))
  <1>1. data[j] \in Bytes
    OBVIOUS
  <1>2. Bytes \subseteq Int
    BY DEF Bytes
  <1> QED
    BY <1>1, <1>2, StoiOfDecimal, CharOfInt

\* A message that is read whole is the message that was written.
THEOREM MessageReadBack ==
    ASSUME NEW data \in Seq(Bytes)
    PROVE  from_ascii(Text(data)) = data /\ ~Throws(Text(data))
  <1> DEFINE line == Text(data)
             n == Len(data)
             tokens == Tokens(line)
  <1>1. tokens = [j \in 1 .. n |-> Decimal(data[j])]
    <2>1. CASE data = <<>>
      <3>1. tokens = <<>> /\ n = 0
        BY <2>1, NothingRead
      <3>2. <<>> = [j \in 1 .. 0 |-> Decimal(data[j])]
        OBVIOUS
      <3> HIDE DEF tokens, n
      <3> QED
        BY <3>1, <3>2
    <2>2. CASE data # <<>>
      <3>1. line # <<>> /\ line \in Seq(Chars) /\ Len(line) <= Len(line)
        BY <2>2, TextLength, TextLaid
      <3>2. Begins(line, data)
        BY <3>1 DEF Begins
      <3>3. tokens = Expected(data, n, Len(Decimal(data[n])))
        BY <3>1, <3>2, CutRead
      <3>4. n \in Nat /\ n >= 1 /\ data[n] \in Bytes
        BY <2>2
      <3> DEFINE w == Decimal(data[n])
                 m == Len(w)
      <3>5. w \in Seq(Chars) /\ m # 0
        <4>1. w \in Seq(Chars) /\ m \in 1 .. 4
          BY <3>4, DecimalShape
        <4> HIDE DEF m
        <4>2. m # 0
          BY <4>1
        <4> QED
          BY <4>1, <4>2
      <3>6. SubSeq(w, 1, m) = w
        <4> HIDE DEF w
        <4> QED
          BY <3>5, SubSeqFull
      <3>7. \A j \in 1 .. n : j < n \/ j = n
        BY <3>4
      <3>8. tokens = [j \in 1 .. (IF m = 0 THEN n - 1 ELSE n) |->
                        IF j < n THEN Decimal(data[j]) ELSE SubSeq(w, 1, m)]
        BY <3>3 DEF Expected
      <3>9. \A j \in 1 .. n : Decimal(data[j]) =
                              IF j < n THEN Decimal(data[j]) ELSE SubSeq(w, 1, m)
        BY <3>6, <3>7
      <3> HIDE DEF w, m, n, tokens
      <3> QED
        BY <3>5, <3>8, <3>9
    <2> QED
      BY <2>1, <2>2
  <1>2. \A j \in 1 .. n : /\ Char(stoi(Decimal(data[j]))) = data[j]
                          /\ IsNumber(Decimal(data[j]))
    BY TokenRead
  <1>3. n \in Nat /\ data = [j \in 1 .. n |-> data[j]]
    OBVIOUS
  <1>4. ~Throws(line)
    <2> HIDE DEF n, line
    <2>1. DOMAIN tokens = 1 .. n /\ \A j \in 1 .. n : tokens[j] = Decimal(data[j])
      BY <1>1
    <2> QED
      BY <1>2, <2>1 DEF Throws
  <1>5. from_ascii(line) = data
    <2> HIDE DEF n, line
    <2>1. DOMAIN tokens = 1 .. n /\ \A j \in 1 .. n : tokens[j] = Decimal(data[j])
      BY <1>1
    <2>2. from_ascii(line) = [k \in 1 .. n |-> Char(stoi(tokens[k]))]
      BY <2>1 DEF from_ascii
    <2>3. \A k \in 1 .. n : Char(stoi(tokens[k])) = data[k]
      BY <1>2, <2>1
    <2>4. [k \in 1 .. n |-> Char(stoi(tokens[k]))] = [j \in 1 .. n |-> data[j]]
      BY <2>3
    <2> QED
      BY <1>3, <2>2, <2>4
  <1> QED
    BY <1>4, <1>5

\* What is left of a message reads as its first bytes, but for the last of them.
LEMMA CutMessageRead ==
    ASSUME NEW data \in Seq(Bytes), NEW line, Begins(line, data)
    PROVE  IsCutOf(from_ascii(line), data)
  <1>1. CASE line = <<>>
    <2>1. from_ascii(line) = <<>>
      BY <1>1, NothingRead DEF from_ascii
    <2>2. Len(<<>>) = 0 /\ Len(data) \in Nat
      OBVIOUS
    <2>3. \A i \in 1 .. Len(<<>>) - 1 : FALSE
      BY <2>2
    <2> QED
      BY <2>1, <2>2, <2>3 DEF IsCutOf
  <1>2. CASE line # <<>>
    <2>1. PICK k \in 1 .. Len(data) : \E d \in 0 .. Len(Decimal(data[k])) :
                Tokens(line) = Expected(data, k, d)
      BY <1>2, CutRead
    <2>2. PICK d \in 0 .. Len(Decimal(data[k])) :
                Tokens(line) = Expected(data, k, d)
      BY <2>1
    <2> DEFINE n == Len(data)
               m == IF d = 0 THEN k - 1 ELSE k
               tokens == Tokens(line)
    <2>3. n \in Nat /\ k \in 1 .. n /\ m \in 0 .. k
      OBVIOUS
    <2>4. tokens = [j \in 1 .. m |->
                      IF j < k THEN Decimal(data[j])
                      ELSE SubSeq(Decimal(data[k]), 1, d)]
      BY <2>2 DEF Expected
    <2>5. \A j \in 1 .. n : Char(stoi(Decimal(data[j]))) = data[j]
      BY TokenRead
    <2> HIDE DEF n, m
    <2>6. DOMAIN tokens = 1 .. m
          /\ \A j \in 1 .. m : j < k => tokens[j] = Decimal(data[j])
      BY <2>4
    <2> DEFINE rest == from_ascii(line)
    <2>7. rest = [j \in 1 .. m |-> Char(stoi(tokens[j]))]
      BY <2>6 DEF from_ascii
    <2> HIDE DEF rest, tokens
    <2>8. m \in Nat /\ Len(rest) = m
      BY <2>3, <2>7
    <2>9. ASSUME NEW i \in 1 .. m - 1 PROVE rest[i] = data[i]
      <3>1. i \in 1 .. m /\ i < k /\ i \in 1 .. n
        BY <2>3, <2>8
      <3>2. rest[i] = Char(stoi(Decimal(data[i])))
        BY <2>6, <2>7, <3>1
      <3> QED
        BY <2>5, <3>1, <3>2
    <2>10. m <= n
      BY <2>3, <2>8
    <2> QED
      BY <2>8, <2>9, <2>10 DEF IsCutOf, rest, n
  <1> QED
    BY <1>1, <1>2

\* The only line feed is the one that ends the line.
LEMMA OneLine ==
    ASSUME NEW data \in Seq(Bytes)
    PROVE  /\ to_ascii(data) \in Seq(Chars)
           /\ Len(to_ascii(data)) = Len(Text(data)) + 1
           /\ Text(data) \in Seq(Chars)
           /\ to_ascii(data)[Len(Text(data)) + 1] = Newline
           /\ \A i \in 1 .. Len(Text(data)) :
                 to_ascii(data)[i] = Text(data)[i] /\ Text(data)[i] # Newline
  <1> DEFINE t == Text(data)
             e == <<Newline>>
  <1>1. t \in Seq(Chars) /\ e \in Seq(Chars) /\ Len(e) = 1 /\ e[1] = Newline
    BY TextLaid DEF Newline, Chars
  <1>2. PICK start : Laid(data, start)
    BY TextLaid
  <1>3. ASSUME NEW i \in 1 .. Len(t) PROVE t[i] # Newline
    <2>1. PICK k \in 1 .. Len(data) : \E d \in 0 .. Len(Decimal(data[k])) :
                i = start[k] + 1 + d
      BY <1>2 DEF Laid
    <2>2. PICK d \in 0 .. Len(Decimal(data[k])) : i = start[k] + 1 + d
      BY <2>1
    <2> DEFINE w == Decimal(data[k])
    <2>3. t[start[k] + 1] = Space /\ \A x \in 1 .. Len(w) : t[start[k] + 1 + x] = w[x]
      BY <1>2 DEF Laid
    <2>4. Len(w) \in 1 .. 4
          /\ \A x \in 1 .. Len(w) : w[x] \in Digits \/ w[x] = Minus
      <3>1. data[k] \in Bytes
        OBVIOUS
      <3> QED
        BY <3>1, DecimalShape
    <2>5. start[k] \in Nat
      <3>1. k \in 1 .. Len(data) + 1
        OBVIOUS
      <3> QED
        BY <1>2, <3>1 DEF Laid
    <2>6. Space # Newline /\ Minus # Newline /\ \A x \in Digits : x # Newline
      BY DEF Space, Minus, Digits, Newline
    <2> HIDE DEF t, w
    <2>7. CASE d = 0
      BY <2>2, <2>3, <2>5, <2>6, <2>7
    <2>8. CASE d # 0
      <3>1. d \in 1 .. Len(w)
        BY <2>8, <2>4 DEF w
      <3> QED
        BY <2>2, <2>3, <2>4, <2>6, <3>1
    <2> QED
      BY <2>7, <2>8
  <1>4. to_ascii(data) = t \o e
    BY DEF to_ascii
  <1> HIDE DEF t, e
  <1>5. /\ t \o e \in Seq(Chars) /\ Len(t \o e) = Len(t) + 1
        /\ \A i \in 1 .. Len(t) + 1 :
              (t \o e)[i] = IF i <= Len(t) THEN t[i] ELSE e[i - Len(t)]
    <2>1. t \in Seq(Chars) /\ e \in Seq(Chars) /\ Len(e) = 1
      BY <1>1
    <2>2. /\ t \o e \in Seq(Chars) /\ Len(t \o e) = Len(t) + Len(e)
          /\ \A i \in 1 .. Len(t) + Len(e) :
                (t \o e)[i] = IF i <= Len(t) THEN t[i] ELSE e[i - Len(t)]
      BY <2>1, ConcatProperties
    <2> QED
      BY <2>1, <2>2
  <1>6. (t \o e)[Len(t) + 1] = Newline
    BY <1>1, <1>5
  <1>7. \A i \in 1 .. Len(t) : (t \o e)[i] = t[i]
    BY <1>1, <1>5
  <1> QED
    BY <1>1, <1>3, <1>4, <1>5, <1>6, <1>7 DEF t

-----------------------------------------------------------------------------
(* The connection                                                            *)
(*                                                                           *)
(* Each direction carries at most one message at a time: the client does not *)
(* ask before it has the answer, or the stream has failed.  So what has been *)
(* written and not been read is the beginning of one line, and getline finds *)
(* that line or, where the connection is lost, a part of it.                 *)

Typed ==
    /\ open \in BOOLEAN
    /\ flags \in [Ends -> {"good", "eof", "fail"}]
    /\ pc \in [Ends -> {"idle", "await", "threw", "left"}]
    /\ pc["client"] # "left" /\ pc["server"] # "idle"
    /\ onWay \in [Ends -> Seq(Chars)] /\ arrived \in [Ends -> Seq(Chars)]
    /\ sent \in [Ends -> Seq(Seq(Bytes))] /\ got \in [Ends -> Seq(Seq(Bytes))]

\* Requests and replies take turns.
Turns ==
    /\ Len(sent["client"]) = Len(got["server"])
    /\ Len(sent["server"]) <= Len(got["client"]) + 1
    /\ pc["client"] = "await" => Len(sent["server"]) = Len(got["client"]) + 1
    /\ pc["client"] = "idle" /\ flags["client"] = "good" =>
          Len(sent["server"]) = Len(got["client"])
    /\ \A e \in Ends : Len(got[e]) <= Len(sent[e]) /\ Len(sent[e]) <= Len(got[e]) + 1

\* Where the two ends of a stream that is at its end, or lost, have got to.
Ended ==
    /\ ~open => \A e \in Ends : onWay[e] = <<>>
    /\ \A e \in Ends : flags[e] # "good" => ~open /\ arrived[e] = <<>>

\* What is underway to e begins a line.
Underway(line, first, second) ==
    /\ Len(first) + Len(second) <= Len(line)
    /\ \A i \in 1 .. Len(first) : first[i] = line[i]
    /\ \A i \in 1 .. Len(second) : second[i] = line[Len(first) + i]

InFlight ==
    \A e \in Ends :
        IF Len(sent[e]) = Len(got[e])
        THEN onWay[e] = <<>> /\ arrived[e] = <<>>
        ELSE Underway(to_ascii(sent[e][Len(sent[e])]), arrived[e], onWay[e])

WInv == Typed /\ Turns /\ Ended /\ InFlight /\ HandedOnAsWritten /\ OnlyACutLineThrows

\* What getline finds: the line that the other end has written, or the part of
\* it that has arrived before the connection was lost.
LEMMA LineFound ==
    ASSUME Typed, Turns, Ended, InFlight, NEW e \in Ends, NEW l \in getline(e)
    PROVE  /\ Len(sent[e]) = Len(got[e]) + 1 /\ Len(sent[e]) \in 1 .. Len(sent[e])
           /\ sent[e][Len(sent[e])] \in Seq(Bytes)
           /\ flags[e] = "good" /\ onWay[e] = <<>> /\ l.rest = <<>>
           /\ l.line \in Seq(Chars)
           /\ \/ l.flag = "good" /\ l.line = Text(sent[e][Len(sent[e])])
              \/ l.flag = "eof" /\ ~open /\ Begins(l.line, sent[e][Len(sent[e])])
  <1> DEFINE text == arrived[e]
             lines == {i \in DOMAIN text : text[i] = Newline}
             end == CHOOSE i \in lines : \A j \in lines : i <= j
             m == sent[e][Len(sent[e])]
             ta == to_ascii(m)
             t == Text(m)
  <1>1. \/ /\ flags[e] = "good" /\ lines # {}
           /\ l = [line |-> SubSeq(text, 1, end - 1),
                   rest |-> SubSeq(text, end + 1, Len(text)), flag |-> "good"]
        \/ /\ flags[e] = "good" /\ lines = {} /\ text # <<>> /\ ~open
           /\ l = [line |-> text, rest |-> <<>>, flag |-> "eof"]
    BY Zenon DEF getline
  <1>2. text # <<>>
    <2>1. text = <<>> => lines = {}
      OBVIOUS
    <2> HIDE DEF lines, text, end
    <2> QED
      BY <1>1, <2>1
  <1>3. /\ Len(sent[e]) \in Nat /\ Len(got[e]) \in Nat
        /\ text \in Seq(Chars) /\ onWay[e] \in Seq(Chars)
        /\ sent[e] \in Seq(Seq(Bytes))
    BY DEF Typed
  <1>4. Len(sent[e]) # Len(got[e]) /\ Underway(ta, text, onWay[e])
    BY <1>2 DEF InFlight
  <1>5. Len(sent[e]) = Len(got[e]) + 1 /\ Len(sent[e]) \in 1 .. Len(sent[e])
    <2>1. Len(got[e]) <= Len(sent[e]) /\ Len(sent[e]) <= Len(got[e]) + 1
      BY DEF Turns
    <2> DEFINE a == Len(got[e])
               b == Len(sent[e])
    <2>2. a \in Nat /\ b \in Nat /\ a <= b /\ b <= a + 1 /\ a # b
      BY <1>3, <1>4, <2>1
    <2> HIDE DEF a, b
    <2>3. b = a + 1 /\ b \in 1 .. b
      BY <2>2
    <2> QED
      BY <2>3 DEF a, b
  <1>6. m \in Seq(Bytes)
    BY <1>3, <1>5
  <1> HIDE DEF m
  <1>7. /\ ta \in Seq(Chars) /\ Len(ta) = Len(t) + 1 /\ t \in Seq(Chars)
        /\ ta[Len(t) + 1] = Newline
        /\ \A i \in 1 .. Len(t) : ta[i] = t[i] /\ t[i] # Newline
    BY <1>6, OneLine
  <1> DEFINE u == onWay[e]
  <1> HIDE DEF ta, t, text, u
  <1>8. /\ text \in Seq(Chars) /\ Len(text) \in Nat /\ DOMAIN text = 1 .. Len(text)
        /\ u \in Seq(Chars) /\ Len(u) \in Nat /\ Len(t) \in Nat
        /\ Len(text) + Len(u) <= Len(ta)
        /\ \A i \in 1 .. Len(text) : text[i] = ta[i]
    BY <1>3, <1>4, <1>7 DEF Underway, u
  <1>9. CASE lines # {}
    <2>1. lines = {Len(t) + 1} /\ Len(text) = Len(t) + 1 /\ Len(u) = 0
      <3>1. PICK i \in 1 .. Len(text) : text[i] = Newline
        BY <1>8, <1>9
      <3>2. ta[i] = Newline
        BY <1>8, <3>1
      <3>3. ~(i \in 1 .. Len(t))
        BY <1>7, <3>2
      <3>4. i = Len(t) + 1 /\ Len(text) = Len(t) + 1 /\ Len(u) = 0
        <4> DEFINE a == Len(t)
                   b == Len(text)
                   c == Len(u)
        <4>1. /\ a \in Nat /\ b \in Nat /\ c \in Nat /\ i \in 1 .. b
              /\ b + c <= a + 1 /\ ~(i \in 1 .. a)
          BY <1>7, <1>8, <3>3
        <4> HIDE DEF a, b, c
        <4>2. i = a + 1 /\ b = a + 1 /\ c = 0
          BY <4>1
        <4> QED
          BY <4>2 DEF a, b, c
      <3>5. \A j \in 1 .. Len(text) : text[j] = Newline => j = Len(t) + 1
        BY <1>7, <1>8, <3>4
      <3>6. lines = {i}
        BY <1>8, <3>1, <3>4, <3>5
      <3> QED
        BY <3>4, <3>6
    <2>2. end = Len(t) + 1
      <3>1. \A j \in lines : Len(t) + 1 <= j
        BY <1>8, <2>1
      <3> QED
        BY <2>1, <3>1
    <2>3. u = <<>>
      BY <1>8, <2>1
    <2> HIDE DEF end, lines
    <2>4. /\ l.line = SubSeq(text, 1, end - 1) /\ l.flag = "good"
          /\ l.rest = SubSeq(text, end + 1, Len(text)) /\ flags[e] = "good"
      BY <1>1, <1>9
    <2>5. l.rest = <<>>
      BY <1>8, <2>1, <2>2, <2>4, SubSeqEmpty
    <2>6. l.line = t
      <3> DEFINE p == SubSeq(text, 1, Len(t))
      <3>1. \A i \in 1 .. Len(t) : text[i] = t[i] /\ text[i] \in Chars
        BY <1>7, <1>8, <2>1
      <3>2. p \in Seq(Chars) /\ Len(p) = Len(t) /\ \A i \in 1 .. Len(t) : p[i] = text[i]
        BY <1>8, <2>1
      <3> HIDE DEF p
      <3>3. p = t
        BY <1>7, <3>1, <3>2
      <3>4. end - 1 = Len(t)
        BY <1>8, <2>2
      <3> QED
        BY <2>4, <3>3, <3>4 DEF p
    <2> QED
      BY <1>5, <1>6, <1>7, <2>3, <2>4, <2>5, <2>6 DEF m, t, u
  <1>10. CASE lines = {}
    <2>1. /\ flags[e] = "good" /\ ~open
          /\ l = [line |-> text, rest |-> <<>>, flag |-> "eof"]
      BY <1>1, <1>10
    <2>2. \A i \in 1 .. Len(text) : text[i] # Newline
      BY <1>8, <1>10
    <2>3. Len(text) <= Len(t)
      <3>1. Len(t) + 1 \in 1 .. Len(text) => text[Len(t) + 1] = Newline
        BY <1>7, <1>8
      <3> QED
        BY <1>8, <2>2, <3>1
    <2>4. Begins(text, m)
      <3>1. \A i \in 1 .. Len(text) : i \in 1 .. Len(t)
        BY <1>8, <2>3
      <3>2. \A i \in 1 .. Len(text) : text[i] = t[i]
        BY <1>7, <1>8, <3>1
      <3> QED
        BY <1>8, <2>3, <3>2 DEF Begins, t
    <2>5. u = <<>>
      BY <2>1 DEF Ended, u
    <2> QED
      BY <1>5, <1>6, <1>8, <2>1, <2>4, <2>5 DEF m, u
  <1> QED
    BY <1>9, <1>10

\* What is made of the line.
LEMMA LineRead ==
    ASSUME Typed, Turns, Ended, InFlight, NEW e \in Ends, NEW l \in getline(e)
    PROVE  /\ from_ascii(l.line) \in Seq(Bytes)
           /\ Throws(l.line) => l.flag = "eof"
           /\ \/ from_ascii(l.line) = sent[e][Len(sent[e])]
              \/ /\ l.flag # "good"
                 /\ IsCutOf(from_ascii(l.line), sent[e][Len(sent[e])])
  <1> DEFINE m == sent[e][Len(sent[e])]
  <1>1. /\ m \in Seq(Bytes) /\ l.line \in Seq(Chars)
        /\ \/ l.flag = "good" /\ l.line = Text(m)
           \/ l.flag = "eof" /\ Begins(l.line, m)
    BY LineFound
  <1> HIDE DEF m
  <1>2. from_ascii(l.line) \in Seq(Bytes)
    BY <1>1, from_asciiType
  <1>3. CASE l.flag = "good" /\ l.line = Text(m)
    BY <1>1, <1>2, <1>3, MessageReadBack DEF m
  <1>4. CASE l.flag = "eof" /\ Begins(l.line, m)
    BY <1>1, <1>2, <1>4, CutMessageRead DEF m
  <1> QED
    BY <1>1, <1>3, <1>4

-----------------------------------------------------------------------------
(* The steps *)

LEMMA MessagesAreBytes ==
    ASSUME NEW m \in Messages \cup {HandshakeBytes, Ok}
    PROVE  m \in Seq(Bytes)
  <1>1. HandshakeBytes \in Seq(Bytes)
    BY DEF HandshakeBytes
  <1>2. Ok \in Seq(Bytes)
    BY DEF Ok, Bytes
  <1> QED
    BY <1>1, <1>2, WireAssumption

\* A history with one more message.
Grown(h, g, e, m) ==
    /\ h \in [Ends -> Seq(Seq(Bytes))]
    /\ \A d \in Ends : d # e => h[d] = g[d]
    /\ Len(h[e]) = Len(g[e]) + 1 /\ h[e][Len(g[e]) + 1] = m
    /\ \A i \in 1 .. Len(g[e]) : h[e][i] = g[e][i]

LEMMA HistoryGrows ==
    ASSUME NEW g \in [Ends -> Seq(Seq(Bytes))], NEW e \in Ends,
           NEW m \in Seq(Bytes)
    PROVE  Grown([g EXCEPT ![e] = Append(@, m)], g, e, m)
  <1> DEFINE V == Seq(Bytes)
             s == g[e]
             a == Append(s, m)
             h == [g EXCEPT ![e] = a]
  <1>1. s \in Seq(V)
    OBVIOUS
  <1> HIDE DEF V
  <1>2. m \in V
    BY DEF V
  <1>3. /\ a \in Seq(V) /\ Len(a) = Len(s) + 1 /\ a[Len(s) + 1] = m
        /\ \A i \in 1 .. Len(s) : a[i] = s[i]
    <2> HIDE DEF s
    <2> QED
      BY <1>1, <1>2
  <1>4. h[e] = a /\ \A d \in Ends : d # e => h[d] = g[d]
    OBVIOUS
  <1>5. h \in [Ends -> Seq(V)]
    <2> HIDE DEF a
    <2> QED
      BY <1>3 DEF V
  <1> QED
    BY <1>3, <1>4, <1>5 DEF Grown, V

\* What a write does: the line is underway, unless the connection is gone.
LEMMA WriteStep ==
    ASSUME Typed, Ended, NEW e \in Ends, NEW m \in Seq(Bytes),
           onWay[e] = <<>>, Written(e, m)
    PROVE  /\ Grown(sent', sent, e, m)
           /\ onWay' \in [Ends -> Seq(Chars)]
           /\ \A d \in Ends : d # e => onWay'[d] = onWay[d]
           /\ Underway(to_ascii(m), <<>>, onWay'[e])
           /\ ~open => onWay' = onWay
  <1> DEFINE ta == to_ascii(m)
  <1>1. Grown(sent', sent, e, m)
    BY HistoryGrows DEF Written, Typed
  <1>2. ta \in Seq(Chars)
    BY OneLine
  <1>3. onWay \in [Ends -> Seq(Chars)]
    BY DEF Typed
  <1> HIDE DEF ta
  <1>4. CASE open
    <2>1. onWay' = [onWay EXCEPT ![e] = @ \o ta]
      BY <1>4 DEF Written, ta
    <2>2. <<>> \o ta = ta
      BY <1>2
    <2>3. onWay' = [onWay EXCEPT ![e] = ta]
      BY <2>1, <2>2, <1>3
    <2>4. onWay'[e] = ta /\ onWay' \in [Ends -> Seq(Chars)]
          /\ \A d \in Ends : d # e => onWay'[d] = onWay[d]
      BY <2>3, <1>2, <1>3
    <2>5. Underway(ta, <<>>, ta)
      BY <1>2 DEF Underway
    <2> QED
      BY <1>1, <1>4, <2>4, <2>5 DEF ta
  <1>5. CASE ~open
    <2>1. onWay' = onWay /\ onWay'[e] = <<>>
      BY <1>5 DEF Written
    <2>2. Underway(ta, <<>>, <<>>)
      BY <1>2 DEF Underway
    <2> QED
      BY <1>1, <1>3, <2>1, <2>2 DEF ta
  <1> QED
    BY <1>4, <1>5

\* What was underway and has been lost, or read.
LEMMA UnderwayLess ==
    ASSUME NEW line \in Seq(Chars), NEW a \in Seq(Chars), NEW b \in Seq(Chars),
           Underway(line, a, b)
    PROVE  Underway(line, a, <<>>) /\ Underway(line, <<>>, <<>>)
  <1>1. Len(<<>>) = 0 /\ Len(a) \in Nat /\ Len(b) \in Nat /\ Len(line) \in Nat
    OBVIOUS
  <1>2. \A i \in 1 .. Len(<<>>) : FALSE
    BY <1>1
  <1>3. Len(a) + Len(b) <= Len(line) /\ \A i \in 1 .. Len(a) : a[i] = line[i]
    BY DEF Underway
  <1>4. Len(a) + 0 <= Len(line) /\ 0 + 0 <= Len(line)
    BY <1>1, <1>3
  <1> QED
    BY <1>1, <1>2, <1>3, <1>4 DEF Underway

\* The last message written to e, while it is not read.
LEMMA LastWritten ==
    ASSUME Typed, NEW e \in Ends, Len(sent[e]) # Len(got[e]), Turns
    PROVE  /\ sent[e][Len(sent[e])] \in Seq(Bytes)
           /\ to_ascii(sent[e][Len(sent[e])]) \in Seq(Chars)
           /\ Len(sent[e]) = Len(got[e]) + 1
  <1> DEFINE a == Len(got[e])
             b == Len(sent[e])
  <1>1. sent[e] \in Seq(Seq(Bytes)) /\ a \in Nat /\ b \in Nat
    BY DEF Typed
  <1>2. a <= b /\ b <= a + 1 /\ a # b
    BY DEF Turns
  <1> HIDE DEF a, b
  <1>3. b = a + 1 /\ b \in 1 .. b
    BY <1>1, <1>2
  <1>4. sent[e][b] \in Seq(Bytes)
    BY <1>1, <1>3 DEF b
  <1> QED
    BY <1>3, <1>4, OneLine DEF a, b

\* stoi throws: the line was cut, and everything underway is lost.
LEMMA DieStep ==
    ASSUME WInv, NEW e \in Ends, NEW l \in getline(e), Throws(l.line),
           GetLine(e, l), Die(e)
    PROVE  WInv'
  <1> USE DEF WInv
  <1>1. l.flag = "eof" /\ l.rest = <<>> /\ flags[e] = "good"
    BY LineRead, LineFound
  <1>2. /\ arrived' = [arrived EXCEPT ![e] = <<>>]
        /\ flags' = [flags EXCEPT ![e] = "eof"]
    BY <1>1 DEF GetLine
  <1>3. /\ pc' = [pc EXCEPT ![e] = "threw"] /\ open' = FALSE
        /\ onWay' = [d \in Ends |-> <<>>] /\ sent' = sent /\ got' = got
    BY DEF Die
  <1>4. Typed'
    <2> DEFINE none == [d \in Ends |-> <<>>]
    <2>1. none \in [Ends -> Seq(Chars)]
      OBVIOUS
    <2> HIDE DEF none
    <2>2. onWay' = none /\ sent' = sent /\ got' = got /\ open' = FALSE
      BY <1>3 DEF none
    <2>3. arrived' \in [Ends -> Seq(Chars)]
      BY <1>2 DEF Typed
    <2>4. flags' \in [Ends -> {"good", "eof", "fail"}]
      BY <1>2 DEF Typed
    <2>5. /\ pc' \in [Ends -> {"idle", "await", "threw", "left"}]
          /\ pc'["client"] # "left" /\ pc'["server"] # "idle"
      BY <1>3 DEF Typed
    <2> QED
      BY <2>1, <2>2, <2>3, <2>4, <2>5 DEF Typed
  <1>5. /\ \A d \in Ends : d # e => arrived'[d] = arrived[d] /\ flags'[d] = flags[d]
                                    /\ pc'[d] = pc[d]
        /\ arrived'[e] = <<>> /\ flags'[e] = "eof" /\ pc'[e] = "threw"
        /\ \A d \in Ends : onWay'[d] = <<>>
    BY <1>2, <1>3 DEF Typed
  <1>6. Turns'
    <2>1. "client" \in Ends
      BY DEF Ends
    <2>2. pc'["client"] = "await" => pc["client"] = "await"
      BY <1>5, <2>1
    <2>3. pc'["client"] = "idle" /\ flags'["client"] = "good" =>
             pc["client"] = "idle" /\ flags["client"] = "good"
      BY <1>5, <2>1
    <2> QED
      BY <1>3, <2>2, <2>3 DEF Turns
  <1>7. Ended'
    BY <1>3, <1>5 DEF Ended
  <1>8. InFlight'
    <2> SUFFICES ASSUME NEW d \in Ends
                 PROVE  IF Len(sent[d]) = Len(got[d]) THEN arrived'[d] = <<>>
                        ELSE Underway(to_ascii(sent[d][Len(sent[d])]), arrived'[d], <<>>)
      BY <1>3, <1>5 DEF InFlight
    <2>1. CASE Len(sent[d]) = Len(got[d])
      BY <2>1, <1>5 DEF InFlight
    <2>2. CASE Len(sent[d]) # Len(got[d])
      <3> DEFINE line == to_ascii(sent[d][Len(sent[d])])
      <3>1. /\ line \in Seq(Chars) /\ arrived[d] \in Seq(Chars)
            /\ onWay[d] \in Seq(Chars)
        BY <2>2, LastWritten DEF Typed
      <3>2. Underway(line, arrived[d], onWay[d])
        BY <2>2 DEF InFlight
      <3> HIDE DEF line
      <3>3. Underway(line, arrived[d], <<>>) /\ Underway(line, <<>>, <<>>)
        BY <3>1, <3>2, UnderwayLess
      <3>4. arrived'[d] = arrived[d] \/ arrived'[d] = <<>>
        BY <1>5
      <3> QED
        BY <2>2, <3>3, <3>4 DEF line
    <2> QED
      BY <2>1, <2>2
  <1>9. HandedOnAsWritten'
    <2>1. \A d \in Ends : flags[d] # "good" => flags'[d] # "good"
      BY <1>5
    <2> QED
      BY <1>3, <2>1 DEF HandedOnAsWritten
  <1>10. OnlyACutLineThrows'
    BY <1>5 DEF OnlyACutLineThrows
  <1> QED
    BY <1>4, <1>6, <1>7, <1>8, <1>9, <1>10

\* A line is read and handed on: nothing of it is left, and the history is as
\* it should be.
LEMMA HandOnStep ==
    ASSUME WInv, NEW e \in Ends, NEW l \in getline(e), GetLine(e, l),
           HandOn(e, l.line)
    PROVE  /\ Grown(got', got, e, from_ascii(l.line))
           /\ from_ascii(l.line) \in Seq(Bytes)
           /\ Len(sent[e]) = Len(got[e]) + 1 /\ onWay[e] = <<>>
           /\ arrived' \in [Ends -> Seq(Chars)] /\ arrived'[e] = <<>>
           /\ \A d \in Ends : d # e => arrived'[d] = arrived[d] /\ flags'[d] = flags[d]
           /\ flags' \in [Ends -> {"good", "eof", "fail"}] /\ flags[e] = "good"
           /\ flags'[e] \in {"good", "eof"} /\ (flags'[e] # "good" => ~open)
           /\ \A i \in 1 .. Len(got'[e]) :
                 \/ got'[e][i] = sent[e][i]
                 \/ /\ i = Len(got'[e]) /\ flags'[e] # "good"
                    /\ IsCutOf(got'[e][i], sent[e][i])
  <1> USE DEF WInv
  <1> DEFINE m == from_ascii(l.line)
  <1>1. /\ Len(sent[e]) = Len(got[e]) + 1 /\ flags[e] = "good"
        /\ onWay[e] = <<>> /\ l.rest = <<>>
        /\ \/ l.flag = "good"
           \/ l.flag = "eof" /\ ~open
    BY LineFound
  <1>2. /\ m \in Seq(Bytes)
        /\ \/ m = sent[e][Len(sent[e])]
           \/ l.flag # "good" /\ IsCutOf(m, sent[e][Len(sent[e])])
    BY LineRead
  <1> HIDE DEF m
  <1>3. Grown(got', got, e, m)
    BY <1>2, HistoryGrows DEF HandOn, Typed, m
  <1>4. /\ arrived' = [arrived EXCEPT ![e] = <<>>]
        /\ flags' = [flags EXCEPT ![e] = l.flag]
    BY <1>1 DEF GetLine
  <1>5. /\ arrived' \in [Ends -> Seq(Chars)] /\ arrived'[e] = <<>>
        /\ \A d \in Ends : d # e => arrived'[d] = arrived[d] /\ flags'[d] = flags[d]
        /\ flags' \in [Ends -> {"good", "eof", "fail"}] /\ flags'[e] = l.flag
    BY <1>1, <1>4 DEF Typed
  <1>6. \A i \in 1 .. Len(got'[e]) :
                 \/ got'[e][i] = sent[e][i]
                 \/ /\ i = Len(got'[e]) /\ flags'[e] # "good"
                    /\ IsCutOf(got'[e][i], sent[e][i])
    <2> TAKE i \in 1 .. Len(got'[e])
    <2>1. /\ Len(got'[e]) = Len(got[e]) + 1 /\ got'[e][Len(got[e]) + 1] = m
          /\ \A j \in 1 .. Len(got[e]) : got'[e][j] = got[e][j]
          /\ Len(got[e]) \in Nat
      BY <1>3 DEF Grown, Typed
    <2>2. CASE i \in 1 .. Len(got[e])
      <3>1. i \in DOMAIN got[e]
        BY <2>2 DEF Typed
      <3>2. got[e][i] = sent[e][i]
        BY <1>1, <3>1 DEF HandedOnAsWritten
      <3> QED
        BY <2>1, <2>2, <3>2
    <2>3. CASE i = Len(got[e]) + 1
      BY <1>1, <1>2, <1>5, <2>1, <2>3
    <2> QED
      BY <2>1, <2>2, <2>3
  <1> QED
    BY <1>1, <1>2, <1>3, <1>5, <1>6 DEF m

\* A message is written and nothing else is underway: it is the line.
LEMMA WrittenInFlight ==
    ASSUME WInv, NEW e \in Ends, NEW m \in Seq(Bytes), Len(sent[e]) = Len(got[e]),
           Grown(sent', sent, e, m), Underway(to_ascii(m), <<>>, onWay'[e]),
           arrived'[e] = <<>>, got'[e] = got[e]
    PROVE  /\ Len(sent'[e]) # Len(got'[e])
           /\ Underway(to_ascii(sent'[e][Len(sent'[e])]), arrived'[e], onWay'[e])
  <1>1. Len(sent[e]) \in Nat /\ Len(sent'[e]) = Len(sent[e]) + 1
        /\ sent'[e][Len(sent[e]) + 1] = m
    BY DEF WInv, Typed, Grown
  <1>2. Len(sent'[e]) # Len(got'[e])
    BY <1>1
  <1> QED
    BY <1>1, <1>2

LEMMA ServerReadsStep ==
    ASSUME WInv, ServerReads
    PROVE  WInv'
  <1> USE DEF WInv
  <1> DEFINE c == "client"
             s == "server"
  <1>1. /\ c \in Ends /\ s \in Ends /\ c # s /\ Ends = {c, s}
    BY DEF Ends
  <1>2. pc[s] = "await" /\
        \E l \in getline(s) :
          /\ GetLine(s, l)
          /\ IF Throws(l.line) THEN Die(s)
             ELSE /\ HandOn(s, l.line)
                  /\ \E m \in Replies(from_ascii(l.line)) : Written(c, m)
                  /\ UNCHANGED <<open, pc>>
    BY DEF ServerReads
  <1>3. /\ Len(sent[c]) = Len(got[s]) /\ Len(sent[s]) <= Len(got[c]) + 1
        /\ pc[c] = "await" => Len(sent[s]) = Len(got[c]) + 1
        /\ pc[c] = "idle" /\ flags[c] = "good" => Len(sent[s]) = Len(got[c])
        /\ \A e \in Ends : Len(got[e]) <= Len(sent[e]) /\ Len(sent[e]) <= Len(got[e]) + 1
    BY DEF Turns
  <1>3a. pc[c] # "left" /\ pc[s] # "idle"
    BY DEF Typed
  <1>3b. ASSUME /\ Len(sent'[c]) = Len(got'[s]) /\ Len(sent'[s]) <= Len(got'[c]) + 1
                /\ pc'[c] = "await" => Len(sent'[s]) = Len(got'[c]) + 1
                /\ pc'[c] = "idle" /\ flags'[c] = "good" => Len(sent'[s]) = Len(got'[c])
                /\ \A e \in Ends : Len(got'[e]) <= Len(sent'[e])
                                   /\ Len(sent'[e]) <= Len(got'[e]) + 1
         PROVE  Turns'
    BY <1>3b DEF Turns
  <1>3c. ASSUME pc' = pc
         PROVE  /\ pc' \in [Ends -> {"idle", "await", "threw", "left"}]
                /\ pc'["client"] # "left" /\ pc'["server"] # "idle"
    BY <1>3c DEF Typed
  <1> HIDE DEF c, s
  <1>4. PICK l \in getline(s) :
          /\ GetLine(s, l)
          /\ IF Throws(l.line) THEN Die(s)
             ELSE /\ HandOn(s, l.line)
                  /\ \E m \in Replies(from_ascii(l.line)) : Written(c, m)
                  /\ UNCHANGED <<open, pc>>
    BY <1>2
  <1>5. CASE Throws(l.line)
    BY <1>1, <1>4, <1>5, DieStep
  <1>6. CASE ~Throws(l.line)
    <2>1. GetLine(s, l) /\ HandOn(s, l.line) /\ open' = open /\ pc' = pc
      BY <1>4, <1>6
    <2>2. PICK m \in Replies(from_ascii(l.line)) : Written(c, m)
      BY <1>4, <1>6
    <2>3. m \in Seq(Bytes)
      <3>1. m \in Messages \cup {HandshakeBytes, Ok}
        BY <2>2 DEF Replies
      <3> QED
        BY <3>1, MessagesAreBytes
    <2> DEFINE x == from_ascii(l.line)
    <2>4. /\ Grown(got', got, s, x)
          /\ x \in Seq(Bytes)
          /\ Len(sent[s]) = Len(got[s]) + 1 /\ onWay[s] = <<>>
          /\ arrived' \in [Ends -> Seq(Chars)] /\ arrived'[s] = <<>>
          /\ arrived'[c] = arrived[c] /\ flags'[c] = flags[c]
          /\ flags' \in [Ends -> {"good", "eof", "fail"}] /\ flags[s] = "good"
          /\ flags'[s] \in {"good", "eof"} /\ (flags'[s] # "good" => ~open)
          /\ \A i \in 1 .. Len(got'[s]) :
                \/ got'[s][i] = sent[s][i]
                \/ /\ i = Len(got'[s]) /\ flags'[s] # "good"
                   /\ IsCutOf(got'[s][i], sent[s][i])
      BY <1>1, <2>1, HandOnStep
    <2> HIDE DEF x
    <2>5. /\ Len(sent[c]) \in Nat /\ Len(got[c]) \in Nat /\ Len(sent[s]) \in Nat
          /\ Len(got[s]) \in Nat
      BY <1>1 DEF Typed
    \* The client waits for this answer, or for none.
    <2>6. Len(sent[c]) = Len(got[c])
      <3>1. Len(got[c]) <= Len(sent[c]) /\ Len(sent[c]) = Len(got[s])
            /\ Len(sent[s]) <= Len(got[c]) + 1 /\ Len(sent[s]) = Len(got[s]) + 1
        BY <1>1, <1>3, <2>4
      <3> DEFINE a == Len(sent[c])
                 b == Len(got[c])
                 d == Len(sent[s])
                 f == Len(got[s])
      <3>2. a \in Nat /\ b \in Nat /\ d \in Nat /\ f \in Nat /\ b <= a /\ a = f
            /\ d <= b + 1 /\ d = f + 1
        BY <2>5, <3>1
      <3> HIDE DEF a, b, d, f
      <3>3. a = b
        BY <3>2
      <3> QED
        BY <3>3 DEF a, b
    <2>7. onWay[c] = <<>> /\ arrived[c] = <<>>
      BY <1>1, <2>6 DEF InFlight
    <2>8. /\ Grown(sent', sent, c, m)
          /\ onWay' \in [Ends -> Seq(Chars)]
          /\ onWay'[s] = onWay[s]
          /\ Underway(to_ascii(m), <<>>, onWay'[c])
          /\ ~open => onWay' = onWay
      BY <1>1, <2>2, <2>3, <2>7, WriteStep
    <2>9. /\ sent'[s] = sent[s] /\ got'[c] = got[c]
          /\ Len(sent'[c]) = Len(sent[c]) + 1 /\ Len(got'[s]) = Len(got[s]) + 1
          /\ sent' \in [Ends -> Seq(Seq(Bytes))] /\ got' \in [Ends -> Seq(Seq(Bytes))]
          /\ \A i \in 1 .. Len(sent[c]) : sent'[c][i] = sent[c][i]
      BY <1>1, <2>4, <2>8 DEF Grown
    <2>10. Typed'
      <3>1. open' \in BOOLEAN
        BY <2>1 DEF Typed
      <3> QED
        BY <3>1, <1>3c, <2>1, <2>4, <2>8, <2>9 DEF Typed
    <2>11. Turns'
      <3>1. /\ Len(sent'[c]) = Len(got'[s]) /\ Len(sent'[s]) <= Len(got'[c]) + 1
            /\ pc'[c] = "await" => Len(sent'[s]) = Len(got'[c]) + 1
            /\ pc'[c] = "idle" /\ flags'[c] = "good" => Len(sent'[s]) = Len(got'[c])
        BY <1>3, <2>1, <2>4, <2>9
      <3>2. /\ Len(got'[c]) <= Len(sent'[c]) /\ Len(sent'[c]) <= Len(got'[c]) + 1
            /\ Len(got'[s]) <= Len(sent'[s]) /\ Len(sent'[s]) <= Len(got'[s]) + 1
        <4>1. /\ Len(got'[c]) = Len(got[c]) /\ Len(sent'[c]) = Len(got[c]) + 1
              /\ Len(got'[s]) = Len(got[s]) + 1 /\ Len(sent'[s]) = Len(got[s]) + 1
          BY <2>4, <2>6, <2>9
        <4> QED
          BY <2>5, <4>1
      <3> QED
        BY <1>1, <1>3b, <3>1, <3>2
    <2>12. Ended'
      <3>1. ~open => \A e \in Ends : onWay'[e] = <<>>
        BY <2>8 DEF Ended
      <3>2. \A e \in Ends : flags'[e] # "good" => ~open /\ arrived'[e] = <<>>
        <4>1. flags'[c] # "good" => ~open /\ arrived'[c] = <<>>
          BY <1>1, <2>4 DEF Ended
        <4> QED
          BY <1>1, <2>4, <4>1
      <3> QED
        BY <2>1, <3>1, <3>2 DEF Ended
    <2>13. InFlight'
      <3>1. /\ Len(sent'[c]) # Len(got'[c])
            /\ Underway(to_ascii(sent'[c][Len(sent'[c])]), arrived'[c], onWay'[c])
        BY <1>1, <2>3, <2>4, <2>6, <2>7, <2>8, <2>9, WrittenInFlight
      <3>2. Len(sent'[s]) = Len(got'[s]) /\ onWay'[s] = <<>> /\ arrived'[s] = <<>>
        BY <2>4, <2>8, <2>9
      <3>3. \A e \in Ends :
              IF Len(sent'[e]) = Len(got'[e])
              THEN onWay'[e] = <<>> /\ arrived'[e] = <<>>
              ELSE Underway(to_ascii(sent'[e][Len(sent'[e])]), arrived'[e], onWay'[e])
        BY <1>1, <3>1, <3>2
      <3> QED
        BY <3>3 DEF InFlight
    <2>14. HandedOnAsWritten'
      <3>1. DOMAIN got'[c] = 1 .. Len(got[c]) /\ DOMAIN got'[s] = 1 .. Len(got'[s])
            /\ DOMAIN got[c] = 1 .. Len(got[c])
        BY <1>1, <2>9 DEF Typed
      <3>2. \A i \in DOMAIN got[c] :
              \/ got[c][i] = sent[c][i]
              \/ /\ i = Len(got[c]) /\ flags[c] # "good"
                 /\ IsCutOf(got[c][i], sent[c][i])
        BY <1>1 DEF HandedOnAsWritten
      <3>3. \A i \in DOMAIN got'[c] :
              \/ got'[c][i] = sent'[c][i]
              \/ /\ i = Len(got'[c]) /\ flags'[c] # "good"
                 /\ IsCutOf(got'[c][i], sent'[c][i])
        BY <2>4, <2>6, <2>9, <3>1, <3>2
      <3>4. \A i \in DOMAIN got'[s] :
              \/ got'[s][i] = sent'[s][i]
              \/ /\ i = Len(got'[s]) /\ flags'[s] # "good"
                 /\ IsCutOf(got'[s][i], sent'[s][i])
        BY <2>4, <2>9, <3>1
      <3>5. \A e \in Ends : Len(got'[e]) <= Len(sent'[e])
        BY SMTT(30), <1>1, <2>4, <2>5, <2>6, <2>9
      <3>6. \A e \in Ends :
              /\ Len(got'[e]) <= Len(sent'[e])
              /\ \A i \in DOMAIN got'[e] :
                    \/ got'[e][i] = sent'[e][i]
                    \/ /\ i = Len(got'[e]) /\ flags'[e] # "good"
                       /\ IsCutOf(got'[e][i], sent'[e][i])
        BY <1>1, <3>3, <3>4, <3>5
      <3> QED
        BY <3>6 DEF HandedOnAsWritten
    <2>15. OnlyACutLineThrows'
      <3>1. pc[s] # "threw"
        BY <1>2
      <3>2. \A e \in Ends : pc'[e] = "threw" => flags'[e] = "eof"
        BY <1>1, <2>1, <2>4, <3>1 DEF OnlyACutLineThrows
      <3> QED
        BY <3>2 DEF OnlyACutLineThrows
    <2> QED
      BY <2>10, <2>11, <2>12, <2>13, <2>14, <2>15
  <1> QED
    BY <1>5, <1>6

LEMMA ClientReadsStep ==
    ASSUME WInv, ClientReads
    PROVE  WInv'
  <1> USE DEF WInv
  <1> DEFINE c == "client"
             s == "server"
  <1>1. /\ c \in Ends /\ s \in Ends /\ c # s /\ Ends = {c, s}
    BY DEF Ends
  <1>2. pc[c] = "await" /\
        \E l \in getline(c) :
          /\ GetLine(c, l)
          /\ IF Throws(l.line) THEN Die(c)
             ELSE /\ HandOn(c, l.line)
                  /\ pc' = [pc EXCEPT ![c] = "idle"]
                  /\ UNCHANGED <<open, onWay, sent>>
    BY DEF ClientReads
  <1>3. /\ Len(sent[c]) = Len(got[s])
        /\ pc[c] = "await" => Len(sent[s]) = Len(got[c]) + 1
        /\ \A e \in Ends : Len(got[e]) <= Len(sent[e]) /\ Len(sent[e]) <= Len(got[e]) + 1
    BY DEF Turns
  <1>3b. ASSUME /\ Len(sent'[c]) = Len(got'[s]) /\ Len(sent'[s]) <= Len(got'[c]) + 1
                /\ pc'[c] = "await" => Len(sent'[s]) = Len(got'[c]) + 1
                /\ pc'[c] = "idle" /\ flags'[c] = "good" => Len(sent'[s]) = Len(got'[c])
                /\ \A e \in Ends : Len(got'[e]) <= Len(sent'[e])
                                   /\ Len(sent'[e]) <= Len(got'[e]) + 1
         PROVE  Turns'
    BY <1>3b DEF Turns
  <1>3c. ASSUME pc' = [pc EXCEPT ![c] = "idle"]
         PROVE  /\ pc' \in [Ends -> {"idle", "await", "threw", "left"}]
                /\ pc'["client"] # "left" /\ pc'["server"] # "idle"
    BY <1>3c DEF Typed, Ends
  <1> HIDE DEF c, s
  <1>4. PICK l \in getline(c) :
          /\ GetLine(c, l)
          /\ IF Throws(l.line) THEN Die(c)
             ELSE /\ HandOn(c, l.line)
                  /\ pc' = [pc EXCEPT ![c] = "idle"]
                  /\ UNCHANGED <<open, onWay, sent>>
    BY <1>2
  <1>5. CASE Throws(l.line)
    BY <1>1, <1>4, <1>5, DieStep
  <1>6. CASE ~Throws(l.line)
    <2>1. /\ GetLine(c, l) /\ HandOn(c, l.line) /\ open' = open /\ onWay' = onWay
          /\ sent' = sent /\ pc' = [pc EXCEPT ![c] = "idle"]
      BY <1>4, <1>6
    <2>2. pc'[c] = "idle" /\ pc'[s] = pc[s]
      BY <1>1, <2>1 DEF Typed
    <2> DEFINE x == from_ascii(l.line)
    <2>4. /\ Grown(got', got, c, x)
          /\ Len(sent[c]) = Len(got[c]) + 1 /\ onWay[c] = <<>>
          /\ arrived' \in [Ends -> Seq(Chars)] /\ arrived'[c] = <<>>
          /\ arrived'[s] = arrived[s] /\ flags'[s] = flags[s]
          /\ flags' \in [Ends -> {"good", "eof", "fail"}]
          /\ flags'[c] \in {"good", "eof"} /\ (flags'[c] # "good" => ~open)
          /\ \A i \in 1 .. Len(got'[c]) :
                \/ got'[c][i] = sent[c][i]
                \/ /\ i = Len(got'[c]) /\ flags'[c] # "good"
                   /\ IsCutOf(got'[c][i], sent[c][i])
      BY <1>1, <2>1, HandOnStep
    <2> HIDE DEF x
    <2>5. /\ Len(sent[c]) \in Nat /\ Len(got[c]) \in Nat /\ Len(sent[s]) \in Nat
          /\ Len(got[s]) \in Nat
      BY <1>1 DEF Typed
    <2>9. /\ got'[s] = got[s] /\ Len(got'[c]) = Len(got[c]) + 1
          /\ got' \in [Ends -> Seq(Seq(Bytes))]
      BY <1>1, <2>4 DEF Grown
    <2>10. Typed'
      BY <1>3c, <2>1, <2>4, <2>9 DEF Typed
    <2>11. Turns'
      <3>1. /\ Len(sent'[c]) = Len(got'[s]) /\ Len(sent'[s]) <= Len(got'[c]) + 1
            /\ Len(sent'[s]) = Len(got'[c])
        <4>1. Len(sent[s]) = Len(got'[c])
          BY <1>2, <1>3, <2>9
        <4>2. Len(got'[c]) \in Nat
          BY <2>5, <2>9
        <4> QED
          BY <1>3, <2>1, <2>9, <4>1, <4>2
      <3>2. /\ Len(got'[c]) <= Len(sent'[c]) /\ Len(sent'[c]) <= Len(got'[c]) + 1
            /\ Len(got'[s]) <= Len(sent'[s]) /\ Len(sent'[s]) <= Len(got'[s]) + 1
        BY <1>1, <1>3, <2>1, <2>4, <2>5, <2>9
      <3>3. pc'[c] # "await"
        BY <2>2
      <3> QED
        BY <1>1, <1>3b, <3>1, <3>2, <3>3
    <2>12. Ended'
      <3>1. \A e \in Ends : flags'[e] # "good" => ~open /\ arrived'[e] = <<>>
        <4>1. flags'[s] # "good" => ~open /\ arrived'[s] = <<>>
          BY <1>1, <2>4 DEF Ended
        <4> QED
          BY <1>1, <2>4, <4>1
      <3> QED
        BY <2>1, <3>1 DEF Ended
    <2>13. InFlight'
      <3>1. Len(sent'[c]) = Len(got'[c]) /\ onWay'[c] = <<>> /\ arrived'[c] = <<>>
        BY <2>1, <2>4, <2>9
      <3>2. IF Len(sent'[s]) = Len(got'[s])
            THEN onWay'[s] = <<>> /\ arrived'[s] = <<>>
            ELSE Underway(to_ascii(sent'[s][Len(sent'[s])]), arrived'[s], onWay'[s])
        BY <1>1, <2>1, <2>4, <2>9 DEF InFlight
      <3>3. \A e \in Ends :
              IF Len(sent'[e]) = Len(got'[e])
              THEN onWay'[e] = <<>> /\ arrived'[e] = <<>>
              ELSE Underway(to_ascii(sent'[e][Len(sent'[e])]), arrived'[e], onWay'[e])
        BY <1>1, <3>1, <3>2
      <3> QED
        BY <3>3 DEF InFlight
    <2>14. HandedOnAsWritten'
      <3>1. DOMAIN got'[c] = 1 .. Len(got'[c])
        BY <1>1, <2>9
      <3>2. \A i \in DOMAIN got[s] :
              \/ got[s][i] = sent[s][i]
              \/ /\ i = Len(got[s]) /\ flags[s] # "good"
                 /\ IsCutOf(got[s][i], sent[s][i])
        BY <1>1 DEF HandedOnAsWritten
      <3>3. \A i \in DOMAIN got'[s] :
              \/ got'[s][i] = sent'[s][i]
              \/ /\ i = Len(got'[s]) /\ flags'[s] # "good"
                 /\ IsCutOf(got'[s][i], sent'[s][i])
        BY <2>1, <2>4, <2>9, <3>2
      <3>4. \A i \in DOMAIN got'[c] :
              \/ got'[c][i] = sent'[c][i]
              \/ /\ i = Len(got'[c]) /\ flags'[c] # "good"
                 /\ IsCutOf(got'[c][i], sent'[c][i])
        BY <2>1, <2>4, <3>1
      <3>5. \A e \in Ends : Len(got'[e]) <= Len(sent'[e])
        BY <2>11 DEF Turns
      <3>6. \A e \in Ends :
              /\ Len(got'[e]) <= Len(sent'[e])
              /\ \A i \in DOMAIN got'[e] :
                    \/ got'[e][i] = sent'[e][i]
                    \/ /\ i = Len(got'[e]) /\ flags'[e] # "good"
                       /\ IsCutOf(got'[e][i], sent'[e][i])
        BY <1>1, <3>3, <3>4, <3>5
      <3> QED
        BY <3>6 DEF HandedOnAsWritten
    <2>15. OnlyACutLineThrows'
      <3>1. \A e \in Ends : pc'[e] = "threw" => flags'[e] = "eof"
        BY <1>1, <2>2, <2>4 DEF OnlyACutLineThrows
      <3> QED
        BY <3>1 DEF OnlyACutLineThrows
    <2> QED
      BY <2>10, <2>11, <2>12, <2>13, <2>14, <2>15
  <1> QED
    BY <1>5, <1>6

LEMMA ClientWritesStep ==
    ASSUME WInv, ClientWrites
    PROVE  WInv'
  <1> USE DEF WInv
  <1> DEFINE c == "client"
             s == "server"
  <1>1. /\ c \in Ends /\ s \in Ends /\ c # s /\ Ends = {c, s}
    BY DEF Ends
  <1>2. /\ pc[c] = "idle" /\ flags[c] = "good"
        /\ \E m \in Messages \cup {HandshakeBytes} : Written(s, m)
        /\ pc' = [pc EXCEPT ![c] = "await"]
        /\ open' = open /\ arrived' = arrived /\ flags' = flags /\ got' = got
    BY DEF ClientWrites
  <1>3. /\ Len(sent[c]) = Len(got[s]) /\ Len(sent[s]) = Len(got[c])
        /\ \A e \in Ends : Len(got[e]) <= Len(sent[e]) /\ Len(sent[e]) <= Len(got[e]) + 1
    BY <1>2 DEF Turns
  <1>3b. ASSUME /\ Len(sent'[c]) = Len(got'[s]) /\ Len(sent'[s]) <= Len(got'[c]) + 1
                /\ pc'[c] = "await" => Len(sent'[s]) = Len(got'[c]) + 1
                /\ pc'[c] = "idle" /\ flags'[c] = "good" => Len(sent'[s]) = Len(got'[c])
                /\ \A e \in Ends : Len(got'[e]) <= Len(sent'[e])
                                   /\ Len(sent'[e]) <= Len(got'[e]) + 1
         PROVE  Turns'
    BY <1>3b DEF Turns
  <1>3c. /\ pc' \in [Ends -> {"idle", "await", "threw", "left"}]
         /\ pc'["client"] # "left" /\ pc'["server"] # "idle"
    BY <1>2 DEF Typed, Ends
  <1> HIDE DEF c, s
  <1>4. PICK m \in Messages \cup {HandshakeBytes} : Written(s, m)
    BY <1>2
  <1>5. m \in Seq(Bytes)
    BY MessagesAreBytes
  <1>6. /\ Len(sent[c]) \in Nat /\ Len(got[c]) \in Nat /\ Len(sent[s]) \in Nat
        /\ Len(got[s]) \in Nat
    BY <1>1 DEF Typed
  \* All that was asked has been answered.
  <1>7. Len(sent[s]) = Len(got[s])
    BY <1>1, <1>3, <1>6
  <1>8. onWay[s] = <<>> /\ arrived[s] = <<>>
    BY <1>1, <1>7 DEF InFlight
  <1>9. /\ Grown(sent', sent, s, m)
        /\ onWay' \in [Ends -> Seq(Chars)]
        /\ onWay'[c] = onWay[c]
        /\ Underway(to_ascii(m), <<>>, onWay'[s])
        /\ ~open => onWay' = onWay
    BY <1>1, <1>4, <1>5, <1>8, WriteStep
  <1>10. /\ sent'[c] = sent[c] /\ Len(sent'[s]) = Len(sent[s]) + 1
         /\ sent' \in [Ends -> Seq(Seq(Bytes))]
         /\ \A i \in 1 .. Len(sent[s]) : sent'[s][i] = sent[s][i]
    BY <1>1, <1>9 DEF Grown
  <1>11. pc'[c] = "await" /\ pc'[s] = pc[s]
    BY <1>1, <1>2 DEF Typed
  <1>12. Typed'
    BY <1>2, <1>3c, <1>9, <1>10 DEF Typed
  <1>13. Turns'
    <2>1. /\ Len(sent'[c]) = Len(got'[s]) /\ Len(sent'[s]) <= Len(got'[c]) + 1
          /\ Len(sent'[s]) = Len(got'[c]) + 1
      BY <1>2, <1>3, <1>6, <1>10
    <2>2. /\ Len(got'[c]) <= Len(sent'[c]) /\ Len(sent'[c]) <= Len(got'[c]) + 1
          /\ Len(got'[s]) <= Len(sent'[s]) /\ Len(sent'[s]) <= Len(got'[s]) + 1
      BY <1>1, <1>2, <1>3, <1>6, <1>7, <1>10
    <2>3. pc'[c] # "idle"
      BY <1>11
    <2> QED
      BY <1>1, <1>3b, <2>1, <2>2, <2>3
  <1>14. Ended'
    <2>1. ~open => \A e \in Ends : onWay'[e] = <<>>
      BY <1>9 DEF Ended
    <2> QED
      BY <1>2, <2>1 DEF Ended
  <1>15. InFlight'
    <2>1. /\ Len(sent'[s]) # Len(got'[s])
          /\ Underway(to_ascii(sent'[s][Len(sent'[s])]), arrived'[s], onWay'[s])
      BY <1>1, <1>2, <1>5, <1>7, <1>8, <1>9, WrittenInFlight
    <2>2. IF Len(sent'[c]) = Len(got'[c])
          THEN onWay'[c] = <<>> /\ arrived'[c] = <<>>
          ELSE Underway(to_ascii(sent'[c][Len(sent'[c])]), arrived'[c], onWay'[c])
      BY <1>1, <1>2, <1>9, <1>10 DEF InFlight
    <2>3. \A e \in Ends :
            IF Len(sent'[e]) = Len(got'[e])
            THEN onWay'[e] = <<>> /\ arrived'[e] = <<>>
            ELSE Underway(to_ascii(sent'[e][Len(sent'[e])]), arrived'[e], onWay'[e])
      BY <1>1, <2>1, <2>2
    <2> QED
      BY <2>3 DEF InFlight
  <1>16. HandedOnAsWritten'
    <2>1. DOMAIN got[s] = 1 .. Len(got[s])
      BY <1>1 DEF Typed
    <2>2. \A e \in Ends : \A i \in DOMAIN got[e] :
            \/ got[e][i] = sent[e][i]
            \/ /\ i = Len(got[e]) /\ flags[e] # "good"
               /\ IsCutOf(got[e][i], sent[e][i])
      BY DEF HandedOnAsWritten
    <2>3. \A e \in Ends : \A i \in DOMAIN got[e] : sent'[e][i] = sent[e][i]
      BY <1>1, <1>7, <1>10, <2>1
    <2>4. \A e \in Ends : Len(got[e]) <= Len(sent'[e])
      BY <1>2, <1>13 DEF Turns
    <2> QED
      BY <1>2, <2>2, <2>3, <2>4 DEF HandedOnAsWritten
  <1>17. OnlyACutLineThrows'
    <2>1. \A e \in Ends : pc'[e] = "threw" => flags'[e] = "eof"
      BY <1>1, <1>2, <1>11 DEF OnlyACutLineThrows
    <2> QED
      BY <2>1 DEF OnlyACutLineThrows
  <1> QED
    BY <1>12, <1>13, <1>14, <1>15, <1>16, <1>17

\* Part of the line arrives.
LEMMA ArriveStep ==
    ASSUME WInv, NEW e \in Ends, Arrive(e)
    PROVE  WInv'
  <1> USE DEF WInv
  <1> DEFINE u == onWay[e]
             a == arrived[e]
  <1>1. PICK n \in DOMAIN u :
        /\ arrived' = [arrived EXCEPT ![e] = @ \o SubSeq(u, 1, n)]
        /\ onWay' = [onWay EXCEPT ![e] = SubSeq(@, n + 1, Len(@))]
        /\ open' = open /\ flags' = flags /\ pc' = pc /\ sent' = sent /\ got' = got
    BY DEF Arrive
  <1>2. /\ u \in Seq(Chars) /\ a \in Seq(Chars) /\ n \in 1 .. Len(u)
        /\ Len(u) \in Nat /\ Len(a) \in Nat
    BY DEF Typed
  <1>3. open /\ flags[e] = "good"
    <2>1. u # <<>>
      BY <1>2
    <2> QED
      BY <2>1 DEF Ended, Typed
  <1> DEFINE p == SubSeq(u, 1, n)
             q == SubSeq(u, n + 1, Len(u))
             b == a \o p
  <1>4. /\ p \in Seq(Chars) /\ Len(p) = n /\ \A i \in 1 .. n : p[i] = u[i]
        /\ q \in Seq(Chars) /\ Len(q) = Len(u) - n
        /\ \A i \in 1 .. Len(u) - n : q[i] = u[n + i]
    <2> HIDE DEF u, a
    <2>1. p \in Seq(Chars) /\ Len(p) = n /\ \A i \in 1 .. n : p[i] = u[i]
      BY <1>2
    <2>2. \A i \in n + 1 .. Len(u) : u[i] \in Chars
      BY <1>2
    <2>3. /\ q \in Seq(Chars)
          /\ Len(q) = IF n + 1 <= Len(u) THEN Len(u) - (n + 1) + 1 ELSE 0
          /\ \A i \in 1 .. Len(u) - (n + 1) + 1 : q[i] = u[n + 1 + i - 1]
      BY <1>2, <2>2, SubSeqProperties
    <2> HIDE DEF q
    <2>4. Len(u) - (n + 1) + 1 = Len(u) - n /\ Len(q) = Len(u) - n
      BY <1>2, <2>3
    <2>5. \A i \in 1 .. Len(u) - n : n + 1 + i - 1 = n + i
      BY <1>2
    <2>6. \A i \in 1 .. Len(u) - n : q[i] = u[n + i]
      BY <2>3, <2>4, <2>5
    <2> QED
      BY <2>1, <2>3, <2>4, <2>6
  <1>5. /\ arrived' = [arrived EXCEPT ![e] = b]
        /\ onWay' = [onWay EXCEPT ![e] = q]
    BY <1>1 DEF Typed
  <1> HIDE DEF u, a, p, q
  <1>6. /\ b \in Seq(Chars) /\ Len(b) = Len(a) + n
        /\ \A i \in 1 .. Len(a) : b[i] = a[i]
        /\ \A i \in 1 .. n : b[Len(a) + i] = p[i]
    <2>1. /\ b \in Seq(Chars) /\ Len(b) = Len(a) + Len(p)
          /\ \A i \in 1 .. Len(a) + Len(p) :
                b[i] = IF i <= Len(a) THEN a[i] ELSE p[i - Len(a)]
      BY <1>2, <1>4, ConcatProperties
    <2> HIDE DEF b
    <2>2. \A i \in 1 .. Len(a) : b[i] = a[i]
      BY <1>2, <1>4, <2>1
    <2>3. \A i \in 1 .. n : b[Len(a) + i] = p[i]
      <3> TAKE i \in 1 .. n
      <3> DEFINE j == Len(a) + i
      <3>1. j \in 1 .. Len(a) + Len(p) /\ ~(j <= Len(a)) /\ j - Len(a) = i
        BY <1>2, <1>4
      <3> HIDE DEF j
      <3>2. b[j] = p[i]
        BY <2>1, <3>1
      <3> QED
        BY <3>2 DEF j
    <2> QED
      BY <1>4, <2>1, <2>2, <2>3
  <1> HIDE DEF b
  <1>7. ASSUME NEW line \in Seq(Chars), Underway(line, a, u)
        PROVE  Underway(line, b, q)
    <2>1. /\ Len(a) + Len(u) <= Len(line) /\ Len(line) \in Nat
          /\ \A i \in 1 .. Len(a) : a[i] = line[i]
          /\ \A i \in 1 .. Len(u) : u[i] = line[Len(a) + i]
      BY <1>7 DEF Underway
    <2>2. Len(b) + Len(q) <= Len(line)
      BY <1>2, <1>4, <1>6, <2>1
    <2>3. ASSUME NEW i \in 1 .. Len(b) PROVE b[i] = line[i]
      <3>1. CASE i <= Len(a)
        <4>1. i \in 1 .. Len(a)
          BY <1>2, <3>1
        <4> QED
          BY <1>6, <2>1, <4>1
      <3>2. CASE ~(i <= Len(a))
        <4> DEFINE j == i - Len(a)
        <4>1. j \in 1 .. n /\ i = Len(a) + j /\ j \in 1 .. Len(u)
          BY <1>2, <1>6, <3>2
        <4> HIDE DEF j
        <4>2. b[i] = p[j] /\ p[j] = u[j] /\ u[j] = line[i]
          BY <1>4, <1>6, <2>1, <4>1
        <4> QED
          BY <4>2
      <3> QED
        BY <3>1, <3>2
    <2>4. ASSUME NEW i \in 1 .. Len(q) PROVE q[i] = line[Len(b) + i]
      <3> DEFINE j == n + i
      <3>1. j \in 1 .. Len(u) /\ Len(a) + j = Len(b) + i /\ i \in 1 .. Len(u) - n
        <4> DEFINE k == Len(u)
                   x == Len(a)
        <4>1. /\ k \in Nat /\ x \in Nat /\ n \in 1 .. k
              /\ i \in 1 .. k - n /\ Len(b) = x + n
          BY <1>2, <1>4, <1>6
        <4> HIDE DEF k, x
        <4>2. j \in 1 .. k /\ x + j = (x + n) + i /\ i \in 1 .. k - n
          BY <4>1
        <4> QED
          BY <4>1, <4>2 DEF k, x
      <3>2. q[i] = u[j]
        BY <1>4, <3>1
      <3> HIDE DEF j
      <3>3. u[j] = line[Len(a) + j]
        BY <2>1, <3>1
      <3> QED
        BY <3>1, <3>2, <3>3
    <2> QED
      BY <2>2, <2>3, <2>4 DEF Underway
  <1>8. /\ arrived' \in [Ends -> Seq(Chars)] /\ onWay' \in [Ends -> Seq(Chars)]
        /\ arrived'[e] = b /\ onWay'[e] = q
        /\ \A d \in Ends : d # e => arrived'[d] = arrived[d] /\ onWay'[d] = onWay[d]
    BY <1>4, <1>5, <1>6 DEF Typed
  <1>9. Typed'
    BY <1>1, <1>8 DEF Typed
  <1>10. Turns'
    BY <1>1 DEF Turns
  <1>11. Ended'
    <2>1. \A d \in Ends : flags'[d] # "good" => ~open' /\ arrived'[d] = <<>>
      BY <1>1, <1>3, <1>8 DEF Ended
    <2> QED
      BY <1>1, <1>3, <2>1 DEF Ended
  <1>12. InFlight'
    <2> SUFFICES ASSUME NEW d \in Ends
                 PROVE  IF Len(sent[d]) = Len(got[d])
                        THEN onWay'[d] = <<>> /\ arrived'[d] = <<>>
                        ELSE Underway(to_ascii(sent[d][Len(sent[d])]), arrived'[d], onWay'[d])
      BY <1>1 DEF InFlight
    <2>1. CASE d # e
      BY <2>1, <1>8 DEF InFlight
    <2>2. CASE d = e
      <3>1. u # <<>>
        BY <1>2
      <3>2. Len(sent[e]) # Len(got[e])
        BY <3>1 DEF InFlight, u
      <3> DEFINE line == to_ascii(sent[e][Len(sent[e])])
      <3>3. line \in Seq(Chars)
        BY <3>2, LastWritten
      <3>4. Underway(line, a, u)
        BY <3>2 DEF InFlight, a, u
      <3> HIDE DEF line
      <3>5. Underway(line, b, q)
        BY <1>7, <3>3, <3>4
      <3> QED
        BY <1>8, <2>2, <3>2, <3>5 DEF line
    <2> QED
      BY <2>1, <2>2
  <1>13. HandedOnAsWritten' /\ OnlyACutLineThrows'
    BY <1>1 DEF HandedOnAsWritten, OnlyACutLineThrows
  <1> QED
    BY <1>9, <1>10, <1>11, <1>12, <1>13

\* The connection is lost.
LEMMA CutStep ==
    ASSUME WInv, Cut
    PROVE  WInv'
  <1> USE DEF WInv
  <1>1. /\ open' = FALSE /\ onWay' = [e \in Ends |-> <<>>]
        /\ arrived' = arrived /\ flags' = flags /\ pc' = pc /\ sent' = sent /\ got' = got
    BY DEF Cut
  <1>2. \A e \in Ends : onWay'[e] = <<>>
    BY <1>1
  <1>3. Typed'
    <2> DEFINE none == [d \in Ends |-> <<>>]
    <2>1. none \in [Ends -> Seq(Chars)]
      OBVIOUS
    <2> HIDE DEF none
    <2>2. onWay' = none /\ open' \in BOOLEAN
      BY <1>1 DEF none
    <2> QED
      BY <1>1, <2>1, <2>2 DEF Typed
  <1>4. Turns' /\ HandedOnAsWritten' /\ OnlyACutLineThrows'
    BY <1>1 DEF Turns, HandedOnAsWritten, OnlyACutLineThrows
  <1>5. Ended'
    BY <1>1, <1>2 DEF Ended
  <1>6. InFlight'
    <2> SUFFICES ASSUME NEW d \in Ends
                 PROVE  IF Len(sent[d]) = Len(got[d]) THEN arrived[d] = <<>>
                        ELSE Underway(to_ascii(sent[d][Len(sent[d])]), arrived[d], <<>>)
      BY <1>1, <1>2 DEF InFlight
    <2>1. CASE Len(sent[d]) = Len(got[d])
      BY <2>1 DEF InFlight
    <2>2. CASE Len(sent[d]) # Len(got[d])
      <3> DEFINE line == to_ascii(sent[d][Len(sent[d])])
      <3>1. /\ line \in Seq(Chars) /\ arrived[d] \in Seq(Chars)
            /\ onWay[d] \in Seq(Chars)
        BY <2>2, LastWritten DEF Typed
      <3>2. Underway(line, arrived[d], onWay[d])
        BY <2>2 DEF InFlight
      <3> HIDE DEF line
      <3>3. Underway(line, arrived[d], <<>>)
        BY <3>1, <3>2, UnderwayLess
      <3> QED
        BY <2>2, <3>3 DEF line
    <2> QED
      BY <2>1, <2>2
  <1> QED
    BY <1>3, <1>4, <1>5, <1>6

\* getline finds nothing: a thread leaves or gives up, the stream has failed.
LEMMA NothingFoundStep ==
    ASSUME WInv, NEW e \in Ends, NEW to \in {"idle", "left"}, GetNothing(e),
           pc[e] # "threw", pc' = [pc EXCEPT ![e] = to], open' = open,
           to = IF e = "client" THEN "idle" ELSE "left"
    PROVE  WInv'
  <1> USE DEF WInv
  <1>1. /\ flags' = [flags EXCEPT ![e] = "fail"]
        /\ onWay' = onWay /\ arrived' = arrived /\ sent' = sent /\ got' = got
        /\ flags[e] # "good" \/ (arrived[e] = <<>> /\ ~open)
    BY DEF GetNothing
  <1>2. /\ flags' \in [Ends -> {"good", "eof", "fail"}] /\ flags'[e] = "fail"
        /\ \A d \in Ends : d # e => flags'[d] = flags[d] /\ pc'[d] = pc[d]
        /\ pc'[e] = to
    BY <1>1 DEF Typed
  <1>3. ~open /\ arrived[e] = <<>>
    BY <1>1 DEF Ended
  <1>4. "client" \in Ends /\ "server" \in Ends
    BY DEF Ends
  <1>5. Typed'
    <2>1. pc' \in [Ends -> {"idle", "await", "threw", "left"}]
      BY DEF Typed
    <2>2. pc'["client"] # "left"
      BY <1>2, <1>4 DEF Typed
    <2>3. pc'["server"] # "idle"
      BY <1>2, <1>4 DEF Typed
    <2> QED
      BY <1>1, <1>2, <2>1, <2>2, <2>3 DEF Typed
  <1>6. Turns'
    <2>1. pc'["client"] = "await" => pc["client"] = "await"
      BY <1>2, <1>4
    <2>2. pc'["client"] = "idle" /\ flags'["client"] = "good" =>
             pc["client"] = "idle" /\ flags["client"] = "good"
      BY <1>2, <1>4
    <2> QED
      BY <1>1, <2>1, <2>2 DEF Turns
  <1>7. Ended'
    <2>1. \A d \in Ends : flags'[d] # "good" => ~open /\ arrived[d] = <<>>
      BY <1>2, <1>3 DEF Ended
    <2> QED
      BY <1>1, <2>1 DEF Ended
  <1>8. InFlight'
    BY <1>1 DEF InFlight
  <1>9. HandedOnAsWritten'
    <2>1. \A d \in Ends : flags[d] # "good" => flags'[d] # "good"
      BY <1>2
    <2> QED
      BY <1>1, <2>1 DEF HandedOnAsWritten
  <1>10. OnlyACutLineThrows'
    <2>1. \A d \in Ends : pc'[d] = "threw" => flags'[d] = "eof"
      BY <1>2 DEF OnlyACutLineThrows
    <2> QED
      BY <2>1 DEF OnlyACutLineThrows
  <1> QED
    BY <1>5, <1>6, <1>7, <1>8, <1>9, <1>10

LEMMA UnchangedStep ==
    ASSUME WInv, UNCHANGED vars
    PROVE  WInv'
  BY DEF WInv, Typed, Turns, Ended, InFlight, HandedOnAsWritten, OnlyACutLineThrows, vars

LEMMA InitWInv == Init => WInv
  <1> SUFFICES ASSUME Init PROVE WInv
    OBVIOUS
  <1> DEFINE none == [e \in Ends |-> <<>>]
  <1>1. /\ open = TRUE /\ onWay = none /\ arrived = none
        /\ flags = [e \in Ends |-> "good"]
        /\ pc = [client |-> "idle", server |-> "await"]
        /\ sent = none /\ got = none
    BY DEF Init
  <1>2. /\ none \in [Ends -> Seq(Chars)] /\ none \in [Ends -> Seq(Seq(Bytes))]
        /\ \A e \in Ends : none[e] = <<>>
    OBVIOUS
  <1>3. Len(<<>>) = 0 /\ DOMAIN <<>> = {}
    OBVIOUS
  <1>4. "client" \in Ends /\ "server" \in Ends
    BY DEF Ends
  <1> HIDE DEF none
  <1>5. \A e \in Ends : /\ onWay[e] = <<>> /\ arrived[e] = <<>>
                        /\ sent[e] = <<>> /\ got[e] = <<>> /\ flags[e] = "good"
    BY <1>1, <1>2
  <1>6. /\ pc \in [Ends -> {"idle", "await", "threw", "left"}]
        /\ pc["client"] = "idle" /\ pc["server"] = "await"
    BY <1>1 DEF Ends
  <1>7. Typed
    BY <1>1, <1>2, <1>6 DEF Typed
  <1>8. Turns
    BY <1>3, <1>4, <1>5, <1>6 DEF Turns
  <1>9. Ended
    BY <1>1, <1>5 DEF Ended
  <1>10. InFlight
    BY <1>3, <1>5 DEF InFlight
  <1>11. HandedOnAsWritten
    BY <1>3, <1>5 DEF HandedOnAsWritten
  <1>12. OnlyACutLineThrows
    <2>1. \A e \in Ends : pc[e] # "threw"
      BY <1>6 DEF Ends
    <2> QED
      BY <2>1 DEF OnlyACutLineThrows
  <1> QED
    BY <1>7, <1>8, <1>9, <1>10, <1>11, <1>12 DEF WInv

LEMMA NextKeepsWInv == WInv /\ [Next]_vars => WInv'
  <1> SUFFICES ASSUME WInv, [Next]_vars PROVE WInv'
    OBVIOUS
  <1>1. CASE ClientWrites
    BY <1>1, ClientWritesStep
  <1>2. CASE ClientWritesNothing
    <2>1. pc' = [pc EXCEPT !["client"] = "idle"]
      <3>1. pc["client"] = "idle" /\ pc' = pc
        BY <1>2 DEF ClientWritesNothing
      <3> QED
        BY <3>1 DEF WInv, Typed
    <2>2. "client" \in Ends /\ GetNothing("client") /\ open' = open /\ pc["client"] # "threw"
      BY <1>2 DEF ClientWritesNothing, Ends
    <2> QED
      BY <2>1, <2>2, NothingFoundStep
  <1>3. CASE ServerReads
    BY <1>3, ServerReadsStep
  <1>4. CASE ServerLeaves
    <2>1. /\ "server" \in Ends /\ GetNothing("server") /\ open' = open
          /\ pc["server"] # "threw" /\ pc' = [pc EXCEPT !["server"] = "left"]
      BY <1>4 DEF ServerLeaves, Ends
    <2> QED
      BY <2>1, NothingFoundStep
  <1>5. CASE ClientReads
    BY <1>5, ClientReadsStep
  <1>6. CASE ClientReadsNothing
    <2>1. /\ "client" \in Ends /\ GetNothing("client") /\ open' = open
          /\ pc["client"] # "threw" /\ pc' = [pc EXCEPT !["client"] = "idle"]
      BY <1>6 DEF ClientReadsNothing, Ends
    <2> QED
      BY <2>1, NothingFoundStep
  <1>7. ASSUME NEW e \in Ends, Arrive(e) PROVE WInv'
    BY <1>7, ArriveStep
  <1>8. CASE Cut
    BY <1>8, CutStep
  <1>9. CASE UNCHANGED vars
    BY <1>9, UnchangedStep
  <1> QED
    BY <1>1, <1>2, <1>3, <1>4, <1>5, <1>6, <1>7, <1>8, <1>9
       DEF Next, Reads, Terminated

LEMMA ConnectionInvariant == Spec => []WInv
  <1>1. Init => WInv
    BY InitWInv
  <1>2. WInv /\ [Next]_vars => WInv'
    BY NextKeepsWInv
  <1> QED
    BY <1>1, <1>2, PTL DEF Spec

\* The lines, the histories and the flags stay what they are.
THEOREM WireTypeCorrect == Spec => []TypeOK
  <1>1. WInv => TypeOK
    <2> SUFFICES ASSUME Typed PROVE TypeOK
      BY DEF WInv
    <2>1. "client" \in Ends /\ "server" \in Ends
      BY DEF Ends
    <2>2. pc["client"] \in {"idle", "await", "threw"} /\ pc["server"] \in {"await", "left", "threw"}
      BY <2>1 DEF Typed
    <2>3. \A e \in Ends :
          /\ onWay[e] \in Seq(0 .. 127) /\ arrived[e] \in Seq(0 .. 127)
          /\ \A i \in DOMAIN sent[e] : sent[e][i] \in Seq(Bytes)
          /\ \A i \in DOMAIN got[e] : got[e][i] \in Seq(Bytes)
      BY DEF Typed, Chars
    <2> QED
      BY <2>2, <2>3 DEF Typed, TypeOK
  <1> QED
    BY <1>1, ConnectionInvariant, PTL

\* Each end hands on the messages that the other has written, in order and byte
\* by byte; only the last one on a lost connection may be cut.
THEOREM MessagesHandedOn == Spec => []HandedOnAsWritten
  <1>1. WInv => HandedOnAsWritten
    BY DEF WInv
  <1> QED
    BY <1>1, ConnectionInvariant, PTL

\* stoi throws only for a line that was cut.
THEOREM ThrowsOnlyWhenCut == Spec => []OnlyACutLineThrows
  <1>1. WInv => OnlyACutLineThrows
    BY DEF WInv
  <1> QED
    BY <1>1, ConnectionInvariant, PTL
=============================================================================
