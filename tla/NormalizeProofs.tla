--------------------------- MODULE NormalizeProofs ---------------------------
(***************************************************************************)
(* What the check digits of a CPF and of a CNPJ detect, for every          *)
(* identifier, and what is stored of a date, for every text.               *)
(***************************************************************************)
EXTENDS Normalize, FiniteSetTheorems, SequenceTheorems, TLAPS

\* ValidCPF and ValidCNPJ compute their check digits in different ways, which
\* give the same digit for every sum.
THEOREM CheckDigitsAgree ==
    ASSUME NEW sum \in Nat PROVE TimesTen(sum) = Complement(sum)
BY DEF TimesTen, Complement

\* Two sums have the same check digit only if they are congruent modulo 11,
\* or have the remainders 0 and 1.
LEMMA SameDigit ==
    ASSUME NEW a \in Nat, NEW b \in Nat, Complement(a) = Complement(b)
    PROVE  a % 11 = b % 11 \/ (a % 11 \in {0, 1} /\ b % 11 \in {0, 1})
BY DEF Complement

\* A sum that changes by w times a difference of digits changes modulo 11.
LEMMA Shifted ==
    ASSUME NEW a \in Nat, NEW b \in Nat, NEW x \in Digit, NEW y \in Digit, x # y,
           NEW w \in 1..10, b = a + w*x - w*y
    PROVE  a % 11 # b % 11
<1>1. CASE w = 1 BY <1>1, SMT DEF Digit
<1>2. CASE w = 2 BY <1>2, SMT DEF Digit
<1>3. CASE w = 3 BY <1>3, SMT DEF Digit
<1>4. CASE w = 4 BY <1>4, SMT DEF Digit
<1>5. CASE w = 5 BY <1>5, SMT DEF Digit
<1>6. CASE w = 6 BY <1>6, SMT DEF Digit
<1>7. CASE w = 7 BY <1>7, SMT DEF Digit
<1>8. CASE w = 8 BY <1>8, SMT DEF Digit
<1>9. CASE w = 9 BY <1>9, SMT DEF Digit
<1>10. CASE w = 10 BY <1>10, SMT DEF Digit
<1> QED BY <1>1, <1>2, <1>3, <1>4, <1>5, <1>6, <1>7, <1>8, <1>9, <1>10

\* A digit x read as y has the weights v and w in the two sums.  The first
\* check digit stays only if the first sum has the remainder 0 or 1 ...
LEMMA FirstStays ==
    ASSUME NEW a \in Nat, NEW b \in Nat, NEW x \in Digit, NEW y \in Digit, x # y,
           NEW v \in 2..10, b = a + v*x - v*y, Complement(a) = Complement(b)
    PROVE  a % 11 \in {0, 1} /\ b % 11 \in {0, 1} /\ a % 11 # b % 11
BY Shifted, SameDigit

\* ... and never do both stay if the weights are v and v + 1, unless v is 5
\* or 10.
Unnoticed(a1, b1, a2, b2, x, y, v) ==
    /\ a1 \in Nat /\ b1 \in Nat /\ a2 \in Nat /\ b2 \in Nat
    /\ x \in Digit /\ y \in Digit /\ x # y
    /\ v \in {2, 3, 4, 6, 7, 8, 9}
    /\ b1 = a1 + v*x - v*y /\ b2 = a2 + (v+1)*x - (v+1)*y
    /\ Complement(a1) = Complement(b1) /\ Complement(a2) = Complement(b2)

LEMMA NotBothStay ==
    ASSUME NEW a1, NEW b1, NEW a2, NEW b2, NEW x, NEW y, NEW v,
           Unnoticed(a1, b1, a2, b2, x, y, v)
    PROVE  FALSE
<1> USE DEF Unnoticed
<1>1. a1 % 11 \in {0, 1} /\ b1 % 11 \in {0, 1} /\ a1 % 11 # b1 % 11
  BY FirstStays
<1>2. a2 % 11 \in {0, 1} /\ b2 % 11 \in {0, 1} /\ a2 % 11 # b2 % 11
  BY FirstStays
<1> QED
  <2>1. CASE v = 2 BY <1>1, <1>2, <2>1, SMT DEF Digit
  <2>2. CASE v = 3 BY <1>1, <1>2, <2>2, SMT DEF Digit
  <2>3. CASE v = 4 BY <1>1, <1>2, <2>3, SMT DEF Digit
  <2>4. CASE v = 6 BY <1>1, <1>2, <2>4, SMT DEF Digit
  <2>5. CASE v = 7 BY <1>1, <1>2, <2>5, SMT DEF Digit
  <2>6. CASE v = 8 BY <1>1, <1>2, <2>6, SMT DEF Digit
  <2>7. CASE v = 9 BY <1>1, <1>2, <2>7, SMT DEF Digit
  <2> QED BY <2>1, <2>2, <2>3, <2>4, <2>5, <2>6, <2>7

\* The sums are natural numbers.
LEMMA CPFSums ==
    ASSUME NEW d \in [1..11 -> Nat]
    PROVE  CPFSum1(d) \in Nat /\ CPFSum2(d) \in Nat
<1>1. PICK a1 \in Nat, a2 \in Nat, a3 \in Nat, a4 \in Nat, a5 \in Nat, 
               a6 \in Nat, a7 \in Nat, a8 \in Nat, a9 \in Nat, a10 \in Nat :
           /\ d[1] = a1 /\ d[2] = a2 /\ d[3] = a3 /\ d[4] = a4 /\ d[5] = a5
           /\ d[6] = a6 /\ d[7] = a7 /\ d[8] = a8 /\ d[9] = a9 /\ d[10] = a10
  <2>1. /\ d[1] \in Nat /\ d[2] \in Nat /\ d[3] \in Nat /\ d[4] \in Nat /\ d[5] \in Nat
        /\ d[6] \in Nat /\ d[7] \in Nat /\ d[8] \in Nat /\ d[9] \in Nat /\ d[10] \in Nat
    OBVIOUS
  <2> QED BY <2>1
<1> QED BY <1>1, SMT DEF CPFSum1, CPFSum2

\* A CPF of which one digit is replaced: both are valid only if it is one of
\* the digits 1, 6 and the first sum has the remainder 0 or 1.  So every
\* other misread digit of a CPF is refused by ValidCPF.
THEOREM CPFMisread ==
    ASSUME NEW d \in [1..11 -> Digit], NEW i \in 1..11, NEW x \in Digit, x # d[i],
           ValidCPF(d), ValidCPF([d EXCEPT ![i] = x])
    PROVE  i \in {1, 6} /\ CPFSum1(d) % 11 \in {0, 1}
<1> DEFINE e == [d EXCEPT ![i] = x]
           Stay == /\ Complement(CPFSum1(d)) = Complement(CPFSum1(e))
                   /\ Complement(CPFSum2(d)) = Complement(CPFSum2(e))
           Shift(v, w) == /\ CPFSum1(e) = CPFSum1(d) + v*x - v*d[i]
                          /\ CPFSum2(e) = CPFSum2(d) + w*x - w*d[i]
<1>1. d \in [1..11 -> Nat] /\ e \in [1..11 -> Nat] /\ x \in Nat /\ d[i] \in Digit
  BY DEF Digit
<1>2. CPFSum1(d) \in Nat /\ CPFSum2(d) \in Nat /\ CPFSum1(e) \in Nat /\ CPFSum2(e) \in Nat
  BY <1>1, CPFSums
<1>3. /\ d[10] = Complement(CPFSum1(d)) /\ d[11] = Complement(CPFSum2(d))
      /\ e[10] = Complement(CPFSum1(e)) /\ e[11] = Complement(CPFSum2(e))
  BY <1>2, CheckDigitsAgree DEF ValidCPF
<1>4. i \in 1..9 => Stay
  BY <1>3
<1>5. /\ i = 1 => Shift(10, 11)
      /\ i = 2 => Shift(9, 10)
      /\ i = 3 => Shift(8, 9)
      /\ i = 4 => Shift(7, 8)
      /\ i = 5 => Shift(6, 7)
      /\ i = 6 => Shift(5, 6)
      /\ i = 7 => Shift(4, 5)
      /\ i = 8 => Shift(3, 4)
      /\ i = 9 => Shift(2, 3)
  <2>1. PICK a1 \in Nat, a2 \in Nat, a3 \in Nat, a4 \in Nat, a5 \in Nat, 
               a6 \in Nat, a7 \in Nat, a8 \in Nat, a9 \in Nat, a10 \in Nat :
           /\ d[1] = a1 /\ d[2] = a2 /\ d[3] = a3 /\ d[4] = a4 /\ d[5] = a5
           /\ d[6] = a6 /\ d[7] = a7 /\ d[8] = a8 /\ d[9] = a9 /\ d[10] = a10
    <3>1. /\ d[1] \in Nat /\ d[2] \in Nat /\ d[3] \in Nat /\ d[4] \in Nat /\ d[5] \in Nat
          /\ d[6] \in Nat /\ d[7] \in Nat /\ d[8] \in Nat /\ d[9] \in Nat /\ d[10] \in Nat
      BY <1>1
    <3> QED BY <3>1
  <2>2. CASE i = 1
    <3>1. /\ e[1] = x /\ e[2] = a2 /\ e[3] = a3 /\ e[4] = a4 /\ e[5] = a5
          /\ e[6] = a6 /\ e[7] = a7 /\ e[8] = a8 /\ e[9] = a9 /\ e[10] = a10
      BY <1>1, <2>1, <2>2
    <3> HIDE DEF e
    <3> QED BY <1>1, <2>1, <2>2, <3>1, SMT DEF CPFSum1, CPFSum2
  <2>3. CASE i = 2
    <3>1. /\ e[1] = a1 /\ e[2] = x /\ e[3] = a3 /\ e[4] = a4 /\ e[5] = a5
          /\ e[6] = a6 /\ e[7] = a7 /\ e[8] = a8 /\ e[9] = a9 /\ e[10] = a10
      BY <1>1, <2>1, <2>3
    <3> HIDE DEF e
    <3> QED BY <1>1, <2>1, <2>3, <3>1, SMT DEF CPFSum1, CPFSum2
  <2>4. CASE i = 3
    <3>1. /\ e[1] = a1 /\ e[2] = a2 /\ e[3] = x /\ e[4] = a4 /\ e[5] = a5
          /\ e[6] = a6 /\ e[7] = a7 /\ e[8] = a8 /\ e[9] = a9 /\ e[10] = a10
      BY <1>1, <2>1, <2>4
    <3> HIDE DEF e
    <3> QED BY <1>1, <2>1, <2>4, <3>1, SMT DEF CPFSum1, CPFSum2
  <2>5. CASE i = 4
    <3>1. /\ e[1] = a1 /\ e[2] = a2 /\ e[3] = a3 /\ e[4] = x /\ e[5] = a5
          /\ e[6] = a6 /\ e[7] = a7 /\ e[8] = a8 /\ e[9] = a9 /\ e[10] = a10
      BY <1>1, <2>1, <2>5
    <3> HIDE DEF e
    <3> QED BY <1>1, <2>1, <2>5, <3>1, SMT DEF CPFSum1, CPFSum2
  <2>6. CASE i = 5
    <3>1. /\ e[1] = a1 /\ e[2] = a2 /\ e[3] = a3 /\ e[4] = a4 /\ e[5] = x
          /\ e[6] = a6 /\ e[7] = a7 /\ e[8] = a8 /\ e[9] = a9 /\ e[10] = a10
      BY <1>1, <2>1, <2>6
    <3> HIDE DEF e
    <3> QED BY <1>1, <2>1, <2>6, <3>1, SMT DEF CPFSum1, CPFSum2
  <2>7. CASE i = 6
    <3>1. /\ e[1] = a1 /\ e[2] = a2 /\ e[3] = a3 /\ e[4] = a4 /\ e[5] = a5
          /\ e[6] = x /\ e[7] = a7 /\ e[8] = a8 /\ e[9] = a9 /\ e[10] = a10
      BY <1>1, <2>1, <2>7
    <3> HIDE DEF e
    <3> QED BY <1>1, <2>1, <2>7, <3>1, SMT DEF CPFSum1, CPFSum2
  <2>8. CASE i = 7
    <3>1. /\ e[1] = a1 /\ e[2] = a2 /\ e[3] = a3 /\ e[4] = a4 /\ e[5] = a5
          /\ e[6] = a6 /\ e[7] = x /\ e[8] = a8 /\ e[9] = a9 /\ e[10] = a10
      BY <1>1, <2>1, <2>8
    <3> HIDE DEF e
    <3> QED BY <1>1, <2>1, <2>8, <3>1, SMT DEF CPFSum1, CPFSum2
  <2>9. CASE i = 8
    <3>1. /\ e[1] = a1 /\ e[2] = a2 /\ e[3] = a3 /\ e[4] = a4 /\ e[5] = a5
          /\ e[6] = a6 /\ e[7] = a7 /\ e[8] = x /\ e[9] = a9 /\ e[10] = a10
      BY <1>1, <2>1, <2>9
    <3> HIDE DEF e
    <3> QED BY <1>1, <2>1, <2>9, <3>1, SMT DEF CPFSum1, CPFSum2
  <2>10. CASE i = 9
    <3>1. /\ e[1] = a1 /\ e[2] = a2 /\ e[3] = a3 /\ e[4] = a4 /\ e[5] = a5
          /\ e[6] = a6 /\ e[7] = a7 /\ e[8] = a8 /\ e[9] = x /\ e[10] = a10
      BY <1>1, <2>1, <2>10
    <3> HIDE DEF e
    <3> QED BY <1>1, <2>1, <2>10, <3>1, SMT DEF CPFSum1, CPFSum2
  <2> QED BY <2>2, <2>3, <2>4, <2>5, <2>6, <2>7, <2>8, <2>9, <2>10
<1> HIDE DEF e, Stay, Shift
<1>6. CASE i \in {1, 6}
  <2>1. \E v \in 2..10 : CPFSum1(e) = CPFSum1(d) + v*x - v*d[i]
    BY <1>5, <1>6 DEF Shift
  <2>2. Stay
    BY <1>4, <1>6
  <2> QED BY <1>1, <1>2, <1>6, <2>1, <2>2, FirstStays DEF Stay
<1>7. CASE i \in 1..9 \ {1, 6}
  <2>1. \E v \in {2, 3, 4, 6, 7, 8, 9} : Shift(v, v+1)
    BY <1>5, <1>7
  <2>2. Stay
    BY <1>4, <1>7
  <2>3. PICK v \in {2, 3, 4, 6, 7, 8, 9} : Shift(v, v+1)
    BY <2>1
  <2>4. Unnoticed(CPFSum1(d), CPFSum1(e), CPFSum2(d), CPFSum2(e), x, d[i], v)
    BY <1>1, <1>2, <2>2, <2>3 DEF Stay, Shift, Unnoticed
  <2>5. FALSE
    BY <2>4, NotBothStay
  <2> QED BY <2>5
<1>8. CASE i = 10
  <2>1. /\ e[1] = d[1] /\ e[2] = d[2] /\ e[3] = d[3] /\ e[4] = d[4] /\ e[5] = d[5]
        /\ e[6] = d[6] /\ e[7] = d[7] /\ e[8] = d[8] /\ e[9] = d[9]
    BY <1>1, <1>8 DEF e
  <2>2. CPFSum1(e) = CPFSum1(d)
    BY <2>1, Zenon DEF CPFSum1
  <2> QED BY <1>3, <1>8, <2>2 DEF e
<1>9. CASE i = 11
  <2>1. /\ e[1] = d[1] /\ e[2] = d[2] /\ e[3] = d[3] /\ e[4] = d[4] /\ e[5] = d[5]
        /\ e[6] = d[6] /\ e[7] = d[7] /\ e[8] = d[8] /\ e[9] = d[9] /\ e[10] = d[10]
    BY <1>1, <1>9 DEF e
  <2>2. CPFSum2(e) = CPFSum2(d)
    BY <2>1, Zenon DEF CPFSum2
  <2> QED BY <1>3, <1>9, <2>2 DEF e
<1> QED BY <1>6, <1>7, <1>8, <1>9

\* The sums are natural numbers.
LEMMA CNPJSums ==
    ASSUME NEW d \in [1..14 -> Nat]
    PROVE  CNPJSum1(d) \in Nat /\ CNPJSum2(d) \in Nat
<1>1. PICK a1 \in Nat, a2 \in Nat, a3 \in Nat, a4 \in Nat, a5 \in Nat, 
               a6 \in Nat, a7 \in Nat, a8 \in Nat, a9 \in Nat, a10 \in Nat, 
               a11 \in Nat, a12 \in Nat, a13 \in Nat :
           /\ d[1] = a1 /\ d[2] = a2 /\ d[3] = a3 /\ d[4] = a4 /\ d[5] = a5
           /\ d[6] = a6 /\ d[7] = a7 /\ d[8] = a8 /\ d[9] = a9 /\ d[10] = a10
           /\ d[11] = a11 /\ d[12] = a12 /\ d[13] = a13
  <2>1. /\ d[1] \in Nat /\ d[2] \in Nat /\ d[3] \in Nat /\ d[4] \in Nat /\ d[5] \in Nat
        /\ d[6] \in Nat /\ d[7] \in Nat /\ d[8] \in Nat /\ d[9] \in Nat /\ d[10] \in Nat
        /\ d[11] \in Nat /\ d[12] \in Nat /\ d[13] \in Nat
    OBVIOUS
  <2> QED BY <2>1
<1> QED BY <1>1, SMT DEF CNPJSum1, CNPJSum2

\* A CNPJ of which one digit is replaced: both are valid only if it is one of
\* the digits 1, 5, 9 and the first sum has the remainder 0 or 1.  So every
\* other misread digit of a CNPJ is refused by ValidCNPJ.
THEOREM CNPJMisread ==
    ASSUME NEW d \in [1..14 -> Digit], NEW i \in 1..14, NEW x \in Digit, x # d[i],
           ValidCNPJ(d), ValidCNPJ([d EXCEPT ![i] = x])
    PROVE  i \in {1, 5, 9} /\ CNPJSum1(d) % 11 \in {0, 1}
<1> DEFINE e == [d EXCEPT ![i] = x]
           Stay == /\ Complement(CNPJSum1(d)) = Complement(CNPJSum1(e))
                   /\ Complement(CNPJSum2(d)) = Complement(CNPJSum2(e))
           Shift(v, w) == /\ CNPJSum1(e) = CNPJSum1(d) + v*x - v*d[i]
                          /\ CNPJSum2(e) = CNPJSum2(d) + w*x - w*d[i]
<1>1. d \in [1..14 -> Nat] /\ e \in [1..14 -> Nat] /\ x \in Nat /\ d[i] \in Digit
  BY DEF Digit
<1>2. CNPJSum1(d) \in Nat /\ CNPJSum2(d) \in Nat /\ CNPJSum1(e) \in Nat /\ CNPJSum2(e) \in Nat
  BY <1>1, CNPJSums
<1>3. /\ d[13] = Complement(CNPJSum1(d)) /\ d[14] = Complement(CNPJSum2(d))
      /\ e[13] = Complement(CNPJSum1(e)) /\ e[14] = Complement(CNPJSum2(e))
  BY <1>2, CheckDigitsAgree DEF ValidCNPJ
<1>4. i \in 1..12 => Stay
  BY <1>3
<1>5. /\ i = 1 => Shift(5, 6)
      /\ i = 2 => Shift(4, 5)
      /\ i = 3 => Shift(3, 4)
      /\ i = 4 => Shift(2, 3)
      /\ i = 5 => Shift(9, 2)
      /\ i = 6 => Shift(8, 9)
      /\ i = 7 => Shift(7, 8)
      /\ i = 8 => Shift(6, 7)
      /\ i = 9 => Shift(5, 6)
      /\ i = 10 => Shift(4, 5)
      /\ i = 11 => Shift(3, 4)
      /\ i = 12 => Shift(2, 3)
  <2>1. PICK a1 \in Nat, a2 \in Nat, a3 \in Nat, a4 \in Nat, a5 \in Nat, 
               a6 \in Nat, a7 \in Nat, a8 \in Nat, a9 \in Nat, a10 \in Nat, 
               a11 \in Nat, a12 \in Nat, a13 \in Nat :
           /\ d[1] = a1 /\ d[2] = a2 /\ d[3] = a3 /\ d[4] = a4 /\ d[5] = a5
           /\ d[6] = a6 /\ d[7] = a7 /\ d[8] = a8 /\ d[9] = a9 /\ d[10] = a10
           /\ d[11] = a11 /\ d[12] = a12 /\ d[13] = a13
    <3>1. /\ d[1] \in Nat /\ d[2] \in Nat /\ d[3] \in Nat /\ d[4] \in Nat /\ d[5] \in Nat
          /\ d[6] \in Nat /\ d[7] \in Nat /\ d[8] \in Nat /\ d[9] \in Nat /\ d[10] \in Nat
          /\ d[11] \in Nat /\ d[12] \in Nat /\ d[13] \in Nat
      BY <1>1
    <3> QED BY <3>1
  <2>2. CASE i = 1
    <3>1. /\ e[1] = x /\ e[2] = a2 /\ e[3] = a3 /\ e[4] = a4 /\ e[5] = a5
          /\ e[6] = a6 /\ e[7] = a7 /\ e[8] = a8 /\ e[9] = a9 /\ e[10] = a10
          /\ e[11] = a11 /\ e[12] = a12 /\ e[13] = a13
      BY <1>1, <2>1, <2>2
    <3> HIDE DEF e
    <3> QED BY <1>1, <2>1, <2>2, <3>1, SMT DEF CNPJSum1, CNPJSum2
  <2>3. CASE i = 2
    <3>1. /\ e[1] = a1 /\ e[2] = x /\ e[3] = a3 /\ e[4] = a4 /\ e[5] = a5
          /\ e[6] = a6 /\ e[7] = a7 /\ e[8] = a8 /\ e[9] = a9 /\ e[10] = a10
          /\ e[11] = a11 /\ e[12] = a12 /\ e[13] = a13
      BY <1>1, <2>1, <2>3
    <3> HIDE DEF e
    <3> QED BY <1>1, <2>1, <2>3, <3>1, SMT DEF CNPJSum1, CNPJSum2
  <2>4. CASE i = 3
    <3>1. /\ e[1] = a1 /\ e[2] = a2 /\ e[3] = x /\ e[4] = a4 /\ e[5] = a5
          /\ e[6] = a6 /\ e[7] = a7 /\ e[8] = a8 /\ e[9] = a9 /\ e[10] = a10
          /\ e[11] = a11 /\ e[12] = a12 /\ e[13] = a13
      BY <1>1, <2>1, <2>4
    <3> HIDE DEF e
    <3> QED BY <1>1, <2>1, <2>4, <3>1, SMT DEF CNPJSum1, CNPJSum2
  <2>5. CASE i = 4
    <3>1. /\ e[1] = a1 /\ e[2] = a2 /\ e[3] = a3 /\ e[4] = x /\ e[5] = a5
          /\ e[6] = a6 /\ e[7] = a7 /\ e[8] = a8 /\ e[9] = a9 /\ e[10] = a10
          /\ e[11] = a11 /\ e[12] = a12 /\ e[13] = a13
      BY <1>1, <2>1, <2>5
    <3> HIDE DEF e
    <3> QED BY <1>1, <2>1, <2>5, <3>1, SMT DEF CNPJSum1, CNPJSum2
  <2>6. CASE i = 5
    <3>1. /\ e[1] = a1 /\ e[2] = a2 /\ e[3] = a3 /\ e[4] = a4 /\ e[5] = x
          /\ e[6] = a6 /\ e[7] = a7 /\ e[8] = a8 /\ e[9] = a9 /\ e[10] = a10
          /\ e[11] = a11 /\ e[12] = a12 /\ e[13] = a13
      BY <1>1, <2>1, <2>6
    <3> HIDE DEF e
    <3> QED BY <1>1, <2>1, <2>6, <3>1, SMT DEF CNPJSum1, CNPJSum2
  <2>7. CASE i = 6
    <3>1. /\ e[1] = a1 /\ e[2] = a2 /\ e[3] = a3 /\ e[4] = a4 /\ e[5] = a5
          /\ e[6] = x /\ e[7] = a7 /\ e[8] = a8 /\ e[9] = a9 /\ e[10] = a10
          /\ e[11] = a11 /\ e[12] = a12 /\ e[13] = a13
      BY <1>1, <2>1, <2>7
    <3> HIDE DEF e
    <3> QED BY <1>1, <2>1, <2>7, <3>1, SMT DEF CNPJSum1, CNPJSum2
  <2>8. CASE i = 7
    <3>1. /\ e[1] = a1 /\ e[2] = a2 /\ e[3] = a3 /\ e[4] = a4 /\ e[5] = a5
          /\ e[6] = a6 /\ e[7] = x /\ e[8] = a8 /\ e[9] = a9 /\ e[10] = a10
          /\ e[11] = a11 /\ e[12] = a12 /\ e[13] = a13
      BY <1>1, <2>1, <2>8
    <3> HIDE DEF e
    <3> QED BY <1>1, <2>1, <2>8, <3>1, SMT DEF CNPJSum1, CNPJSum2
  <2>9. CASE i = 8
    <3>1. /\ e[1] = a1 /\ e[2] = a2 /\ e[3] = a3 /\ e[4] = a4 /\ e[5] = a5
          /\ e[6] = a6 /\ e[7] = a7 /\ e[8] = x /\ e[9] = a9 /\ e[10] = a10
          /\ e[11] = a11 /\ e[12] = a12 /\ e[13] = a13
      BY <1>1, <2>1, <2>9
    <3> HIDE DEF e
    <3> QED BY <1>1, <2>1, <2>9, <3>1, SMT DEF CNPJSum1, CNPJSum2
  <2>10. CASE i = 9
    <3>1. /\ e[1] = a1 /\ e[2] = a2 /\ e[3] = a3 /\ e[4] = a4 /\ e[5] = a5
          /\ e[6] = a6 /\ e[7] = a7 /\ e[8] = a8 /\ e[9] = x /\ e[10] = a10
          /\ e[11] = a11 /\ e[12] = a12 /\ e[13] = a13
      BY <1>1, <2>1, <2>10
    <3> HIDE DEF e
    <3> QED BY <1>1, <2>1, <2>10, <3>1, SMT DEF CNPJSum1, CNPJSum2
  <2>11. CASE i = 10
    <3>1. /\ e[1] = a1 /\ e[2] = a2 /\ e[3] = a3 /\ e[4] = a4 /\ e[5] = a5
          /\ e[6] = a6 /\ e[7] = a7 /\ e[8] = a8 /\ e[9] = a9 /\ e[10] = x
          /\ e[11] = a11 /\ e[12] = a12 /\ e[13] = a13
      BY <1>1, <2>1, <2>11
    <3> HIDE DEF e
    <3> QED BY <1>1, <2>1, <2>11, <3>1, SMT DEF CNPJSum1, CNPJSum2
  <2>12. CASE i = 11
    <3>1. /\ e[1] = a1 /\ e[2] = a2 /\ e[3] = a3 /\ e[4] = a4 /\ e[5] = a5
          /\ e[6] = a6 /\ e[7] = a7 /\ e[8] = a8 /\ e[9] = a9 /\ e[10] = a10
          /\ e[11] = x /\ e[12] = a12 /\ e[13] = a13
      BY <1>1, <2>1, <2>12
    <3> HIDE DEF e
    <3> QED BY <1>1, <2>1, <2>12, <3>1, SMT DEF CNPJSum1, CNPJSum2
  <2>13. CASE i = 12
    <3>1. /\ e[1] = a1 /\ e[2] = a2 /\ e[3] = a3 /\ e[4] = a4 /\ e[5] = a5
          /\ e[6] = a6 /\ e[7] = a7 /\ e[8] = a8 /\ e[9] = a9 /\ e[10] = a10
          /\ e[11] = a11 /\ e[12] = x /\ e[13] = a13
      BY <1>1, <2>1, <2>13
    <3> HIDE DEF e
    <3> QED BY <1>1, <2>1, <2>13, <3>1, SMT DEF CNPJSum1, CNPJSum2
  <2> QED BY <2>2, <2>3, <2>4, <2>5, <2>6, <2>7, <2>8, <2>9, <2>10, <2>11, <2>12, <2>13
<1> HIDE DEF e, Stay, Shift
<1>6. CASE i \in {1, 5, 9}
  <2>1. \E v \in 2..10 : CNPJSum1(e) = CNPJSum1(d) + v*x - v*d[i]
    BY <1>5, <1>6 DEF Shift
  <2>2. Stay
    BY <1>4, <1>6
  <2> QED BY <1>1, <1>2, <1>6, <2>1, <2>2, FirstStays DEF Stay
<1>7. CASE i \in 1..12 \ {1, 5, 9}
  <2>1. \E v \in {2, 3, 4, 6, 7, 8, 9} : Shift(v, v+1)
    BY <1>5, <1>7
  <2>2. Stay
    BY <1>4, <1>7
  <2>3. PICK v \in {2, 3, 4, 6, 7, 8, 9} : Shift(v, v+1)
    BY <2>1
  <2>4. Unnoticed(CNPJSum1(d), CNPJSum1(e), CNPJSum2(d), CNPJSum2(e), x, d[i], v)
    BY <1>1, <1>2, <2>2, <2>3 DEF Stay, Shift, Unnoticed
  <2>5. FALSE
    BY <2>4, NotBothStay
  <2> QED BY <2>5
<1>8. CASE i = 13
  <2>1. /\ e[1] = d[1] /\ e[2] = d[2] /\ e[3] = d[3] /\ e[4] = d[4] /\ e[5] = d[5]
        /\ e[6] = d[6] /\ e[7] = d[7] /\ e[8] = d[8] /\ e[9] = d[9] /\ e[10] = d[10]
        /\ e[11] = d[11] /\ e[12] = d[12]
    BY <1>1, <1>8 DEF e
  <2>2. CNPJSum1(e) = CNPJSum1(d)
    BY <2>1, Zenon DEF CNPJSum1
  <2> QED BY <1>3, <1>8, <2>2 DEF e
<1>9. CASE i = 14
  <2>1. /\ e[1] = d[1] /\ e[2] = d[2] /\ e[3] = d[3] /\ e[4] = d[4] /\ e[5] = d[5]
        /\ e[6] = d[6] /\ e[7] = d[7] /\ e[8] = d[8] /\ e[9] = d[9] /\ e[10] = d[10]
        /\ e[11] = d[11] /\ e[12] = d[12] /\ e[13] = d[13]
    BY <1>1, <1>9 DEF e
  <2>2. CNPJSum2(e) = CNPJSum2(d)
    BY <2>1, Zenon DEF CNPJSum2
  <2> QED BY <1>3, <1>9, <2>2 DEF e
<1> QED BY <1>6, <1>7, <1>8, <1>9

-----------------------------------------------------------------------------
(***************************************************************************)
(* Dates                                                                   *)
(***************************************************************************)

Day(y, m, d) == [y |-> y, m |-> m, d |-> d]

LEMMA DayIsDate ==
  ASSUME NEW y, NEW m \in 1..12, NEW d
  PROVE  Day(y, m, d) # NoDate
<1>1. Day(y, m, d).m = m /\ NoDate.m = 0
  BY DEF Day, NoDate
<1> QED
  BY <1>1

\* time.Parse gives no date or a day of the calendar.
LEMMA ParseIsDay ==
  ASSUME NEW layout, NEW s
  PROVE  \/ Parse(layout, s) = NoDate
         \/ \E y, m, d : Parse(layout, s) = Day(y, m, d) /\ m \in 1..12 /\ d \in 1..DaysIn(m, y)
<1> DEFINE at(kind) == {i \in DOMAIN layout : Elements(layout[i]) = kind}
           val(kind) == s[CHOOSE i \in at(kind) : TRUE]
           y == Year(val("year"))
           m == val("month").v
           d == IF at("day") = {} THEN 1 ELSE val("day").v
           fails == Len(s) # Len(layout) \/ \E i \in DOMAIN layout : ~Fits(layout[i], s[i])
<1>1. Parse(layout, s) = IF fails THEN NoDate
                         ELSE IF m \in 1..12 /\ d \in 1..DaysIn(m, y)
                         THEN [y |-> y, m |-> m, d |-> d] ELSE NoDate
  BY Zenon DEF Parse
<1> HIDE DEF fails, y, m, d
<1> QED
  BY <1>1, Zenon DEF Day

\* A set of numbers up to six that is not empty has a least one.
LEMMA LeastOfSix ==
  ASSUME NEW S \in SUBSET (1..6), S # {}
  PROVE  \E i \in S : \A j \in S : i <= j
<1>1. CASE 1 \in S
  BY <1>1
<1>2. CASE 1 \notin S /\ 2 \in S
  BY <1>2
<1>3. CASE S \cap {1, 2} = {} /\ 3 \in S
  BY <1>3
<1>4. CASE S \cap {1, 2, 3} = {} /\ 4 \in S
  BY <1>4
<1>5. CASE S \cap {1, 2, 3, 4} = {} /\ 5 \in S
  BY <1>5
<1>6. CASE S \cap {1, 2, 3, 4, 5} = {}
  <2>1. ASSUME NEW j \in S PROVE j = 6
    <3>1. j \in 1..6 /\ j \notin {1, 2, 3, 4, 5}
      BY <1>6
    <3> QED
      BY <3>1
  <2>2. PICK i : i \in S
    OBVIOUS
  <2>3. i = 6 /\ \A j \in S : j = 6
    BY <2>1, <2>2
  <2>4. \A j \in S : i <= j
    BY <2>3
  <2> QED
    BY <2>2, <2>4
<1> QED
  BY <1>1, <1>2, <1>3, <1>4, <1>5, <1>6

\* The loop over the layouts returns one of the readings.
LEMMA FirstOfReadings ==
  ASSUME NEW s
  PROVE  LET R == FirstReading(DayLayouts, s)
         IN  \/ R = NoDate /\ \A i \in 1..6 : Parse(DayLayouts[i], s) = NoDate
             \/ R # NoDate /\ \E i \in 1..6 : Parse(DayLayouts[i], s) = R
<1> DEFINE ok == Readings(DayLayouts, s)
           least == CHOOSE i \in ok : \A j \in ok : i <= j
<1>1. DOMAIN DayLayouts = 1..6
  BY DEF DayLayouts
<1>2. ok = {i \in 1..6 : Parse(DayLayouts[i], s) # NoDate}
  BY <1>1, Zenon DEF Readings
<1>3. FirstReading(DayLayouts, s) = IF ok = {} THEN NoDate ELSE Parse(DayLayouts[least], s)
  BY Zenon DEF FirstReading
<1>4. CASE ok = {}
  BY <1>2, <1>3, <1>4, Zenon
<1>5. CASE ok # {}
  <2>1. \E i \in ok : \A j \in ok : i <= j
    <3>1. ok \in SUBSET (1..6)
      BY <1>2, Zenon
    <3> HIDE DEF ok
    <3> QED
      BY <3>1, <1>5, LeastOfSix
  <2>2. least \in ok
    BY <2>1, Zenon
  <2> HIDE DEF ok, least
  <2>3. least \in 1..6 /\ Parse(DayLayouts[least], s) # NoDate
    BY <2>2, <1>2, Zenon
  <2> QED
    BY <2>3, <1>3, <1>5, Zenon
<1> QED
  BY <1>4, <1>5

LEMMA DateOfIsDay ==
  ASSUME NEW s
  PROVE  \/ DateOf(s) = NoDate
         \/ \E y, m, d : DateOf(s) = Day(y, m, d) /\ m \in 1..12 /\ d \in 1..DaysIn(m, y)
<1>1. ASSUME NEW t, FirstReading(DayLayouts, t) # NoDate
      PROVE  \E y, m, d : /\ FirstReading(DayLayouts, t) = Day(y, m, d)
                          /\ m \in 1..12 /\ d \in 1..DaysIn(m, y)
  <2>1. PICK i \in 1..6 : Parse(DayLayouts[i], t) = FirstReading(DayLayouts, t)
    BY <1>1, FirstOfReadings
  <2> QED
    BY <2>1, <1>1, ParseIsDay
<1>2. \/ DateOf(s) = FirstReading(DayLayouts, Slashed(s))
      \/ DateOf(s) = FirstReading(DayLayouts, BeforeSpace(Slashed(s)))
  BY Zenon DEF DateOf
<1> QED
  BY <1>1, <1>2

\* A text of three numbers, as Slashed leaves it.
Numbers(a, b, c) == <<a, Mark("/"), b, Mark("/"), c>>

\* What a layout with the day first reads in it ...
LEMMA ParseDayFirst ==
  ASSUME NEW e1 \in {"02", "2"}, NEW e2 \in {"01", "1"}, NEW e3 \in {"2006", "06"},
         NEW a, NEW b, NEW c, a.t = "num", b.t = "num", c.t = "num"
  PROVE  Parse(<<e1, "/", e2, "/", e3>>, Numbers(a, b, c)) =
           IF /\ a.w \in Widths(e1) /\ b.w \in Widths(e2) /\ c.w \in Widths(e3)
              /\ b.v \in 1..12 /\ a.v \in 1..DaysIn(b.v, Year(c))
           THEN Day(Year(c), b.v, a.v) ELSE NoDate
<1> DEFINE layout == <<e1, "/", e2, "/", e3>>
           s == Numbers(a, b, c)
           at(kind) == {i \in DOMAIN layout : Elements(layout[i]) = kind}
           val(kind) == s[CHOOSE i \in at(kind) : TRUE]
           y == Year(val("year"))
           m == val("month").v
           d == IF at("day") = {} THEN 1 ELSE val("day").v
           fails == Len(s) # Len(layout) \/ \E i \in DOMAIN layout : ~Fits(layout[i], s[i])
<1>1. Parse(layout, s) = IF fails THEN NoDate
                         ELSE IF m \in 1..12 /\ d \in 1..DaysIn(m, y)
                         THEN Day(y, m, d) ELSE NoDate
  BY Zenon DEF Parse, Day
<1>2. DOMAIN layout = 1..5 /\ Len(layout) = 5 /\ Len(s) = 5
  BY DEF Numbers
<1>3. /\ layout[1] = e1 /\ layout[2] = "/" /\ layout[3] = e2 /\ layout[4] = "/" /\ layout[5] = e3
      /\ s[1] = a /\ s[2] = Mark("/") /\ s[3] = b /\ s[4] = Mark("/") /\ s[5] = c
  BY DEF Numbers
<1>4. /\ Elements(e1) = "day" /\ Elements(e2) = "month" /\ Elements(e3) = "year"
      /\ Elements("/") = "mark"
  BY DEF Elements
<1>5. at("day") = {1} /\ at("month") = {3} /\ at("year") = {5}
  <2>1. 1..5 = {1, 2, 3, 4, 5}
    OBVIOUS
  <2> HIDE DEF layout, s
  <2> QED
    BY <2>1, <1>2, <1>3, <1>4
<1>6. val("day") = a /\ val("month") = b /\ val("year") = c
  <2> HIDE DEF at, s
  <2>1. /\ (CHOOSE i \in at("day") : TRUE) = 1 /\ (CHOOSE i \in at("month") : TRUE) = 3
        /\ (CHOOSE i \in at("year") : TRUE) = 5
    BY <1>5
  <2> QED
    BY <2>1, <1>3
<1>7. y = Year(c) /\ m = b.v /\ d = a.v
  <2> HIDE DEF val, at
  <2> QED
    BY <1>5, <1>6
<1>8. fails <=> ~(a.w \in Widths(e1) /\ b.w \in Widths(e2) /\ c.w \in Widths(e3))
  <2>1. /\ Fits(e1, a) <=> a.w \in Widths(e1)
        /\ Fits(e2, b) <=> b.w \in Widths(e2)
        /\ Fits(e3, c) <=> c.w \in Widths(e3)
    BY DEF Fits
  <2>2. Fits("/", Mark("/"))
    BY DEF Fits, Mark
  <2>3. 1..5 = {1, 2, 3, 4, 5}
    OBVIOUS
  <2> HIDE DEF layout, s
  <2> QED
    BY <2>1, <2>2, <2>3, <1>2, <1>3
<1> HIDE DEF layout, s, y, m, d, fails
<1>9. Parse(layout, s) = IF fails THEN NoDate
                         ELSE IF b.v \in 1..12 /\ a.v \in 1..DaysIn(b.v, Year(c))
                         THEN Day(Year(c), b.v, a.v) ELSE NoDate
  BY <1>1, <1>7
<1>10. Parse(layout, s) =
         IF /\ a.w \in Widths(e1) /\ b.w \in Widths(e2) /\ c.w \in Widths(e3)
            /\ b.v \in 1..12 /\ a.v \in 1..DaysIn(b.v, Year(c))
         THEN Day(Year(c), b.v, a.v) ELSE NoDate
  BY <1>8, <1>9
<1> QED
  BY <1>10 DEF layout, s

\* ... and one with the year first.
LEMMA ParseYearFirst ==
  ASSUME NEW e2 \in {"01", "1"}, NEW e3 \in {"02", "2"},
         NEW a, NEW b, NEW c, a.t = "num", b.t = "num", c.t = "num"
  PROVE  Parse(<<"2006", "/", e2, "/", e3>>, Numbers(a, b, c)) =
           IF /\ a.w = 4 /\ b.w \in Widths(e2) /\ c.w \in Widths(e3)
              /\ b.v \in 1..12 /\ c.v \in 1..DaysIn(b.v, Year(a))
           THEN Day(Year(a), b.v, c.v) ELSE NoDate
<1> DEFINE layout == <<"2006", "/", e2, "/", e3>>
           s == Numbers(a, b, c)
           at(kind) == {i \in DOMAIN layout : Elements(layout[i]) = kind}
           val(kind) == s[CHOOSE i \in at(kind) : TRUE]
           y == Year(val("year"))
           m == val("month").v
           d == IF at("day") = {} THEN 1 ELSE val("day").v
           fails == Len(s) # Len(layout) \/ \E i \in DOMAIN layout : ~Fits(layout[i], s[i])
<1>1. Parse(layout, s) = IF fails THEN NoDate
                         ELSE IF m \in 1..12 /\ d \in 1..DaysIn(m, y)
                         THEN Day(y, m, d) ELSE NoDate
  BY Zenon DEF Parse, Day
<1>2. DOMAIN layout = 1..5 /\ Len(layout) = 5 /\ Len(s) = 5
  BY DEF Numbers
<1>3. /\ layout[1] = "2006" /\ layout[2] = "/" /\ layout[3] = e2 /\ layout[4] = "/" /\ layout[5] = e3
      /\ s[1] = a /\ s[2] = Mark("/") /\ s[3] = b /\ s[4] = Mark("/") /\ s[5] = c
  BY DEF Numbers
<1>4. /\ Elements("2006") = "year" /\ Elements(e2) = "month" /\ Elements(e3) = "day"
      /\ Elements("/") = "mark"
  BY DEF Elements
<1>5. at("day") = {5} /\ at("month") = {3} /\ at("year") = {1}
  <2>1. 1..5 = {1, 2, 3, 4, 5}
    OBVIOUS
  <2> HIDE DEF layout, s
  <2> QED
    BY <2>1, <1>2, <1>3, <1>4
<1>6. val("day") = c /\ val("month") = b /\ val("year") = a
  <2> HIDE DEF at, s
  <2>1. /\ (CHOOSE i \in at("day") : TRUE) = 5 /\ (CHOOSE i \in at("month") : TRUE) = 3
        /\ (CHOOSE i \in at("year") : TRUE) = 1
    BY <1>5
  <2> QED
    BY <2>1, <1>3
<1>7. y = Year(a) /\ m = b.v /\ d = c.v
  <2> HIDE DEF val, at
  <2> QED
    BY <1>5, <1>6
<1>8. fails <=> ~(a.w = 4 /\ b.w \in Widths(e2) /\ c.w \in Widths(e3))
  <2>1. /\ Fits("2006", a) <=> a.w = 4
        /\ Fits(e2, b) <=> b.w \in Widths(e2)
        /\ Fits(e3, c) <=> c.w \in Widths(e3)
    BY DEF Fits, Widths
  <2>2. Fits("/", Mark("/"))
    BY DEF Fits, Mark
  <2>3. 1..5 = {1, 2, 3, 4, 5}
    OBVIOUS
  <2> HIDE DEF layout, s
  <2> QED
    BY <2>1, <2>2, <2>3, <1>2, <1>3
<1> HIDE DEF layout, s, y, m, d, fails
<1>9. Parse(layout, s) = IF fails THEN NoDate
                         ELSE IF b.v \in 1..12 /\ c.v \in 1..DaysIn(b.v, Year(a))
                         THEN Day(Year(a), b.v, c.v) ELSE NoDate
  BY <1>1, <1>7
<1>10. Parse(layout, s) =
         IF /\ a.w = 4 /\ b.w \in Widths(e2) /\ c.w \in Widths(e3)
            /\ b.v \in 1..12 /\ c.v \in 1..DaysIn(b.v, Year(a))
         THEN Day(Year(a), b.v, c.v) ELSE NoDate
  BY <1>8, <1>9
<1> QED
  BY <1>10 DEF layout, s

\* The six layouts on a text of three numbers.
LEMMA SixLayouts ==
  /\ DayLayouts[1] = <<"02", "/", "01", "/", "2006">>
  /\ DayLayouts[2] = <<"2", "/", "1", "/", "2006">>
  /\ DayLayouts[3] = <<"02", "/", "01", "/", "06">>
  /\ DayLayouts[4] = <<"2", "/", "1", "/", "06">>
  /\ DayLayouts[5] = <<"2006", "/", "01", "/", "02">>
  /\ DayLayouts[6] = <<"2006", "/", "1", "/", "2">>
BY DEF DayLayouts

LEMMA LayoutsOfFive == \A i \in 1 .. 6 : Len(DayLayouts[i]) = 5
BY SixLayouts

LEMMA SlashedNumbers ==
  ASSUME NEW a, NEW b, NEW c, a.t = "num", b.t = "num", c.t = "num",
         NEW p \in {"/", "-", "."}, NEW q \in {"/", "-", "."}
  PROVE  Slashed(<<a, Mark(p), b, Mark(q), c>>) = Numbers(a, b, c)
<1> DEFINE s == <<a, Mark(p), b, Mark(q), c>>
<1>1. /\ s[1] = a /\ s[2] = Mark(p) /\ s[3] = b /\ s[4] = Mark(q) /\ s[5] = c
      /\ DOMAIN s = 1..5
  OBVIOUS
<1>2. /\ Mark(p).t = p /\ Mark(q).t = q
      /\ p \notin {".", "-"} => Mark(p) = Mark("/")
      /\ q \notin {".", "-"} => Mark(q) = Mark("/")
  BY DEF Mark
<1> DEFINE f == Slashed(s)
<1>3. f = [i \in 1..5 |-> IF s[i].t \in {".", "-"} THEN Mark("/") ELSE s[i]]
  BY <1>1 DEF Slashed
<1> HIDE DEF s, f
<1>4. f[1] = a /\ f[2] = Mark("/") /\ f[3] = b /\ f[4] = Mark("/") /\ f[5] = c
  BY <1>1, <1>2, <1>3
<1>5. f = <<f[1], f[2], f[3], f[4], f[5]>>
  BY <1>3
<1> QED
  BY <1>4, <1>5 DEF f, s, Numbers

\* Without a space there is nothing before it, and nothing is no date.
LEMMA NothingBefore ==
  ASSUME NEW a, NEW b, NEW c, a.t = "num", b.t = "num", c.t = "num"
  PROVE  BeforeSpace(Numbers(a, b, c)) = Absent
<1> DEFINE s == Numbers(a, b, c)
           sp == {i \in DOMAIN s : s[i].t = " "}
<1>1. s[1] = a /\ s[2] = Mark("/") /\ s[3] = b /\ s[4] = Mark("/") /\ s[5] = c
      /\ DOMAIN s = {1, 2, 3, 4, 5}
  BY DEF Numbers
<1>2. Mark("/").t = "/"
  BY DEF Mark
<1>3. sp = {}
  <2> HIDE DEF s
  <2> QED
    BY <1>1, <1>2
<1>4. BeforeSpace(s) = IF sp = {} THEN Absent
                       ELSE SubSeq(s, 1, (CHOOSE i \in sp : \A j \in sp : i <= j) - 1)
  BY Zenon DEF BeforeSpace
<1> HIDE DEF sp, s
<1>5. BeforeSpace(s) = Absent
  BY <1>3, <1>4
<1> QED
  BY <1>5 DEF s

LEMMA NoDateInAbsent == FirstReading(DayLayouts, Absent) = NoDate
<1>1. ASSUME NEW i \in 1..6 PROVE Parse(DayLayouts[i], Absent) = NoDate
  <2>1. Len(DayLayouts[i]) = 5 /\ Len(Absent) = 0
    BY SixLayouts DEF Absent
  <2>2. Len(Absent) # Len(DayLayouts[i])
    BY <2>1
  <2> QED
    BY <2>2, Zenon DEF Parse
<1> QED
  BY <1>1, FirstOfReadings

\* A text of three numbers in which every layout reads the same day, or none.
LEMMA OneReading ==
  ASSUME NEW s, NEW a, NEW b, NEW c, a.t = "num", b.t = "num", c.t = "num",
         Slashed(s) = Numbers(a, b, c), NEW date,
         \A i \in 1..6 : Parse(DayLayouts[i], Numbers(a, b, c)) \in {date, NoDate}
  PROVE  DateOf(s) = IF \E i \in 1..6 : Parse(DayLayouts[i], Numbers(a, b, c)) = date
                     THEN date ELSE NoDate
<1> DEFINE R == FirstReading(DayLayouts, Numbers(a, b, c))
<1>1. DateOf(s) = IF R # NoDate THEN R ELSE NoDate
  BY NothingBefore, NoDateInAbsent, Zenon DEF DateOf
<1>2. \/ R = NoDate /\ \A i \in 1..6 : Parse(DayLayouts[i], Numbers(a, b, c)) = NoDate
      \/ R # NoDate /\ \E i \in 1..6 : Parse(DayLayouts[i], Numbers(a, b, c)) = R
  BY FirstOfReadings
<1> HIDE DEF R
<1>3. CASE R = NoDate
  BY <1>1, <1>2, <1>3, Zenon
<1>4. CASE R # NoDate
  <2>1. R = date
    BY <1>2, <1>4
  <2> QED
    BY <1>1, <1>2, <1>4, <2>1, Zenon
<1> QED
  BY <1>3, <1>4

\* A date in the usual form, its day and month of one or two digits and its
\* year of two or four, is stored as the day that was printed, whichever of the
\* layouts reads it; if the calendar does not have the day, nothing is stored.
THEOREM UsualDateStored ==
  ASSUME NEW d, NEW m, NEW y, NEW wd \in {1, 2}, NEW wm \in {1, 2}, NEW wy \in {2, 4},
         NEW p \in {"/", "-", "."}, NEW q \in {"/", "-", "."}
  PROVE  DateToISO(<<Num(d, wd), Mark(p), Num(m, wm), Mark(q), Num(y, wy)>>) =
           IF m \in 1..12 /\ d \in 1..DaysIn(m, Year(Num(y, wy)))
           THEN ISO(Day(Year(Num(y, wy)), m, d)) ELSE Absent
<1> DEFINE a == Num(d, wd)
           b == Num(m, wm)
           c == Num(y, wy)
           s == <<a, Mark(p), b, Mark(q), c>>
           date == Day(Year(c), m, d)
           valid == m \in 1..12 /\ d \in 1..DaysIn(m, Year(c))
           Reads(i) == Parse(DayLayouts[i], Numbers(a, b, c))
<1>1. /\ a.t = "num" /\ b.t = "num" /\ c.t = "num"
      /\ a.v = d /\ a.w = wd /\ b.v = m /\ b.w = wm /\ c.v = y /\ c.w = wy
  BY DEF Num
<1>2. Slashed(s) = Numbers(a, b, c)
  BY <1>1, SlashedNumbers
<1>3. /\ \A i \in 1..6 : Reads(i) \in {date, NoDate}
      /\ valid => \E i \in 1..6 : Reads(i) = date
      /\ ~valid => \A i \in 1..6 : Reads(i) = NoDate
  <2> HIDE DEF a, b, c
  <2>0. 1 \in 1..6 /\ 2 \in 1..6 /\ 3 \in 1..6 /\ 4 \in 1..6 /\ 1..6 = {1, 2, 3, 4, 5, 6}
    OBVIOUS
  <2>w. /\ Widths("02") = {2} /\ Widths("2") = {1, 2} /\ Widths("01") = {2}
        /\ Widths("1") = {1, 2} /\ Widths("2006") = {4} /\ Widths("06") = {2}
    BY DEF Widths
  <2>1. Reads(1) = IF wd = 2 /\ wm = 2 /\ wy = 4 /\ valid THEN date ELSE NoDate
    BY ParseDayFirst, SixLayouts, <1>1, <2>w
  <2>2. Reads(2) = IF wy = 4 /\ valid THEN date ELSE NoDate
    BY ParseDayFirst, SixLayouts, <1>1, <2>w
  <2>3. Reads(3) = IF wd = 2 /\ wm = 2 /\ wy = 2 /\ valid THEN date ELSE NoDate
    BY ParseDayFirst, SixLayouts, <1>1, <2>w
  <2>4. Reads(4) = IF wy = 2 /\ valid THEN date ELSE NoDate
    BY ParseDayFirst, SixLayouts, <1>1, <2>w
  <2>5. Reads(5) = NoDate
    BY ParseYearFirst, SixLayouts, <1>1
  <2>6. Reads(6) = NoDate
    BY ParseYearFirst, SixLayouts, <1>1
  <2> HIDE DEF Reads, valid, date
  <2> QED
    BY <2>0, <2>1, <2>2, <2>3, <2>4, <2>5, <2>6
<1>4. DateOf(s) = IF \E i \in 1..6 : Reads(i) = date THEN date ELSE NoDate
  BY <1>1, <1>2, <1>3, OneReading
<1>5. valid => date # NoDate
  BY DayIsDate
<1> HIDE DEF Reads, valid, date, s
<1>6. DateToISO(s) = IF valid THEN ISO(date) ELSE Absent
  BY <1>3, <1>4, <1>5, Zenon DEF DateToISO
<1> QED
  BY <1>6 DEF s, valid, date

\* What DateToISO stores is read back as the day that it is: normalizing a
\* stored date again changes nothing, whatever text it came from.
THEOREM DateIdempotent ==
  ASSUME NEW text
  PROVE  DateToISO(DateToISO(text)) = DateToISO(text)
<1>1. CASE DateOf(text) = NoDate
  <2>1. DateToISO(text) = Absent
    BY <1>1, Zenon DEF DateToISO
  <2>2. Slashed(Absent) = Absent /\ BeforeSpace(Absent) = Absent
    BY DEF Slashed, BeforeSpace, Absent
  <2>3. DateOf(Absent) = NoDate
    BY <2>2, NoDateInAbsent, Zenon DEF DateOf
  <2> QED
    BY <2>1, <2>3, Zenon DEF DateToISO
<1>2. CASE DateOf(text) # NoDate
  <2>1. PICK y, m, d : DateOf(text) = Day(y, m, d) /\ m \in 1..12 /\ d \in 1..DaysIn(m, y)
    BY <1>2, DateOfIsDay
  <2> DEFINE a == Num(y, 4)
             b == Num(m, 2)
             c == Num(d, 2)
             date == Day(y, m, d)
             s == <<a, Mark("-"), b, Mark("-"), c>>
             Reads(i) == Parse(DayLayouts[i], Numbers(a, b, c))
  <2>2. DateToISO(text) = s /\ ISO(date) = s
    <3>1. date.y = y /\ date.m = m /\ date.d = d
      BY DEF Day
    <3>2. ISO(date) = s
      BY <3>1, Zenon DEF ISO
    <3>3. DateToISO(text) = ISO(date)
      BY <1>2, <2>1, Zenon DEF DateToISO
    <3> QED
      BY <3>2, <3>3, Zenon
  <2>3. /\ a.t = "num" /\ b.t = "num" /\ c.t = "num"
        /\ a.v = y /\ a.w = 4 /\ b.v = m /\ b.w = 2 /\ c.v = d /\ c.w = 2
    BY DEF Num
  <2>4. Slashed(s) = Numbers(a, b, c)
    BY <2>3, SlashedNumbers
  <2>5. Year(a) = y
    BY <2>3 DEF Year
  <2>6. (\A i \in 1..6 : Reads(i) \in {date, NoDate}) /\ (\E i \in 1..6 : Reads(i) = date)
    <3> HIDE DEF a, b, c
    <3>0. 5 \in 1..6 /\ 1..6 = {1, 2, 3, 4, 5, 6}
      OBVIOUS
    <3>w. /\ 4 \notin Widths("02") /\ 4 \notin Widths("2")
          /\ 2 \in Widths("01") /\ 2 \in Widths("1")
          /\ 2 \in Widths("02") /\ 2 \in Widths("2")
      BY DEF Widths
    <3>1. Reads(1) = NoDate /\ Reads(2) = NoDate
      BY ParseDayFirst, SixLayouts, <2>3, <3>w
    <3>2. Reads(3) = NoDate /\ Reads(4) = NoDate
      BY ParseDayFirst, SixLayouts, <2>3, <3>w
    <3>3. Reads(5) = date
      BY ParseYearFirst, SixLayouts, <2>1, <2>3, <2>5, <3>w
    <3>4. Reads(6) = date
      BY ParseYearFirst, SixLayouts, <2>1, <2>3, <2>5, <3>w
    <3> HIDE DEF Reads, date
    <3> QED
      BY <3>0, <3>1, <3>2, <3>3, <3>4
  <2>7. DateOf(s) = date
    <3>1. DateOf(s) = IF \E i \in 1..6 : Reads(i) = date THEN date ELSE NoDate
      BY <2>3, <2>4, <2>6, OneReading
    <3> QED
      BY <3>1, <2>6, Zenon
  <2>8. date # NoDate
    BY <2>1, DayIsDate
  <2> HIDE DEF s, date
  <2> QED
    BY <2>2, <2>7, <2>8, Zenon DEF DateToISO
<1> QED
  BY <1>1, <1>2

-----------------------------------------------------------------------------
(***************************************************************************)
(* Filtered lists                                                          *)
(***************************************************************************)

\* A total order of a set P of places, given by the places up[p] up to each p.
Ordered(P, up) ==
  /\ up \in [P -> SUBSET P]
  /\ \A p \in P : p \in up[p]
  /\ \A p, q \in P : up[p] \subseteq up[q] \/ up[q] \subseteq up[p]
  /\ \A p, q \in P : p \in up[q] /\ q \in up[p] => p = q

\* For every k there is one place with k places up to it.
Counted(P, up) ==
  /\ Cardinality(P) \in Nat
  /\ \A p \in P : IsFiniteSet(up[p]) /\ Cardinality(up[p]) \in 1 .. Cardinality(P)
  /\ \A p, q \in P : Cardinality(up[p]) = Cardinality(up[q]) => p = q
  /\ \A k \in 1 .. Cardinality(P) : \E p \in P : Cardinality(up[p]) = k

LEMMA Ranks ==
  ASSUME NEW P, IsFiniteSet(P), NEW up, Ordered(P, up)
  PROVE  Counted(P, up)
<1> USE DEF Ordered
<1> DEFINE n == Cardinality(P)
           rank == [p \in P |-> Cardinality(up[p])]
<1>1. n \in Nat
  BY FS_CardinalityType
<1>2. ASSUME NEW p \in P
      PROVE  IsFiniteSet(up[p]) /\ Cardinality(up[p]) \in 1 .. n
  <2>1. up[p] \in SUBSET P /\ up[p] # {}
    OBVIOUS
  <2>2. IsFiniteSet(up[p]) /\ Cardinality(up[p]) <= n
    BY <2>1, FS_Subset
  <2>3. Cardinality(up[p]) \in Nat /\ Cardinality(up[p]) # 0
    BY <2>1, <2>2, FS_CardinalityType, FS_EmptySet
  <2> QED
    BY <1>1, <2>2, <2>3
<1>3. ASSUME NEW p \in P, NEW q \in P, Cardinality(up[p]) = Cardinality(up[q])
      PROVE  p = q
  <2>1. up[p] = up[q]
    BY <1>2, <1>3, FS_Subset
  <2> QED
    BY <2>1
<1>4. rank \in Injection(P, 1 .. n)
  BY <1>2, <1>3 DEF Injection, IsInjective
<1>5. IsFiniteSet(1 .. n) /\ Cardinality(1 .. n) = n
  BY <1>1, FS_Interval
<1>6. rank \in Surjection(P, 1 .. n)
  BY <1>4, <1>5, FS_Injection
<1>7. \A k \in 1 .. n : \E p \in P : Cardinality(up[p]) = k
  BY <1>6 DEF Surjection
<1> QED
  BY <1>1, <1>2, <1>3, <1>7 DEF Counted

\* InOrder counts the places of a list off, from the least to the greatest.
CountedOff(I) ==
  /\ Cardinality(I) \in Nat
  /\ InOrder(I) \in [1 .. Cardinality(I) -> I]
  /\ \A i \in I : \E k \in 1 .. Cardinality(I) : InOrder(I)[k] = i
  /\ \A k, l \in 1 .. Cardinality(I) : k < l => InOrder(I)[k] < InOrder(I)[l]
  /\ \A k \in 1 .. Cardinality(I) : Cardinality({j \in I : j <= InOrder(I)[k]}) = k

LEMMA OrderedPlaces ==
  ASSUME NEW n \in Nat, NEW I \in SUBSET (1 .. n) PROVE CountedOff(I)
<1> DEFINE up == [i \in I |-> {j \in I : j <= i}]
           c == Cardinality(I)
<1>1. IsFiniteSet(I)
  <2>1. IsFiniteSet(1 .. n)
    BY FS_Interval
  <2> QED
    BY <2>1, FS_Subset
<1>i. \A i \in I : i \in Int
  OBVIOUS
<1>2. up \in [I -> SUBSET I]
  OBVIOUS
<1>u. \A i \in I : up[i] = {j \in I : j <= i}
  OBVIOUS
<1> HIDE DEF up, c
<1>m. ASSUME NEW p \in I, NEW q \in I, p <= q PROVE up[p] \subseteq up[q]
  <2>1. ASSUME NEW j \in up[p] PROVE j \in up[q]
    <3>1. j \in I /\ j <= p
      BY <1>u
    <3>2. j <= q
      BY <3>1, <1>m, <1>i
    <3> QED
      BY <3>1, <3>2, <1>u
  <2> QED
    BY <2>1
<1>3. Ordered(I, up)
  <2>2. \A p, q \in I : p <= q \/ q <= p
    BY <1>i
  <2>3. \A p, q \in I : up[p] \subseteq up[q] \/ up[q] \subseteq up[p]
    BY <1>m, <2>2
  <2> QED
    BY <2>3, <1>2, <1>u, <1>i DEF Ordered
<1>4. /\ c \in Nat
      /\ \A p \in I : IsFiniteSet(up[p]) /\ Cardinality(up[p]) \in 1 .. c
      /\ \A p, q \in I : Cardinality(up[p]) = Cardinality(up[q]) => p = q
      /\ \A k \in 1 .. c : \E p \in I : Cardinality(up[p]) = k
  <2>1. Counted(I, up)
    BY <1>1, <1>3, Ranks
  <2> QED
    BY <2>1 DEF c, Counted
<1>5. ASSUME NEW k \in 1 .. c
      PROVE  InOrder(I)[k] \in I /\ Cardinality(up[InOrder(I)[k]]) = k
  <2>1. InOrder(I)[k] = CHOOSE i \in I : Cardinality({j \in I : j <= i}) = k
    BY DEF InOrder, c
  <2>2. \E i \in I : Cardinality({j \in I : j <= i}) = k
    BY <1>4, <1>u
  <2>3. InOrder(I)[k] \in I /\ Cardinality({j \in I : j <= InOrder(I)[k]}) = k
    BY <2>1, <2>2, Zenon
  <2> QED
    BY <2>3, <1>u
<1>6. InOrder(I) \in [1 .. c -> I]
  <2>1. InOrder(I) = [k \in 1 .. c |-> InOrder(I)[k]]
    BY DEF InOrder, c
  <2> QED
    BY <2>1, <1>5
<1>7. ASSUME NEW i \in I PROVE \E k \in 1 .. c : InOrder(I)[k] = i
  BY <1>4, <1>5
<1>8. ASSUME NEW k \in 1 .. c, NEW l \in 1 .. c, k < l
      PROVE  InOrder(I)[k] < InOrder(I)[l]
  <2> DEFINE a == InOrder(I)[k]
             b == InOrder(I)[l]
  <2>1. a \in I /\ b \in I /\ Cardinality(up[a]) = k /\ Cardinality(up[b]) = l
    BY <1>5
  <2> HIDE DEF a, b
  <2>2. ASSUME b <= a PROVE FALSE
    <3>1. up[b] \in SUBSET up[a]
      <4>1. up[b] \subseteq up[a]
        BY <2>1, <2>2, <1>m
      <4> QED
        BY <4>1
    <3>2. Cardinality(up[b]) <= Cardinality(up[a])
      BY <3>1, <2>1, <1>4, FS_Subset
    <3> QED
      BY <3>2, <2>1, <1>8
  <2>3. a < b
    BY <2>1, <2>2, <1>i
  <2> QED
    BY <2>3 DEF a, b
<1> QED
  BY <1>4, <1>5, <1>6, <1>7, <1>8, <1>u DEF c, CountedOff

\* What a filter returns: the entries at its places, each once, in order.
LEMMA Filtered ==
  ASSUME NEW n \in Nat, NEW I \in SUBSET (1 .. n), NEW s
  PROVE  /\ DOMAIN EntriesAt(s, I) = 1 .. Cardinality(I)
         /\ \A k \in 1 .. Cardinality(I) :
                InOrder(I)[k] \in I /\ EntriesAt(s, I)[k] = s[InOrder(I)[k]]
         /\ \A i \in I : \E k \in 1 .. Cardinality(I) : EntriesAt(s, I)[k] = s[i]
         /\ Len(EntriesAt(s, I)) = Cardinality(I) /\ Cardinality(I) \in Nat
<1>1. /\ Cardinality(I) \in Nat
      /\ InOrder(I) \in [1 .. Cardinality(I) -> I]
      /\ \A i \in I : \E k \in 1 .. Cardinality(I) : InOrder(I)[k] = i
  BY OrderedPlaces DEF CountedOff
<1>2. EntriesAt(s, I) = [k \in 1 .. Cardinality(I) |-> s[InOrder(I)[k]]]
  BY DEF EntriesAt
<1> QED
  BY <1>1, <1>2

\* A filter that keeps every entry returns the list.
LEMMA FilterAll ==
  ASSUME NEW n \in Nat, NEW s, s = [i \in 1 .. n |-> s[i]]
  PROVE  /\ EntriesAt(s, 1 .. n) = s
         /\ Cardinality(1 .. n) = n
         /\ \A k \in 1 .. n : InOrder(1 .. n)[k] = k
<1> DEFINE I == 1 .. n
<1>1. Cardinality(I) = n
  BY FS_Interval
<1>2. /\ InOrder(I) \in [1 .. n -> I]
      /\ \A k \in 1 .. n : Cardinality({j \in I : j <= InOrder(I)[k]}) = k
  BY <1>1, OrderedPlaces DEF CountedOff
<1>3. ASSUME NEW k \in 1 .. n PROVE InOrder(I)[k] = k
  <2>1. PICK i \in I : i = InOrder(I)[k]
    BY <1>2
  <2>2. {j \in I : j <= i} = 1 .. i
    OBVIOUS
  <2>3. Cardinality(1 .. i) = i
    BY FS_Interval
  <2> QED
    BY <1>2, <2>1, <2>2, <2>3
<1>4. EntriesAt(s, I) = [k \in 1 .. n |-> s[InOrder(I)[k]]]
  BY <1>1 DEF EntriesAt
<1>5. EntriesAt(s, I) = [k \in 1 .. n |-> s[k]]
  <2> HIDE DEF I
  <2> QED
    BY <1>3, <1>4
<1> QED
  BY <1>1, <1>3, <1>5

\* The places of a list of lists: PairsInOrder counts them off.
LEMMA OrderedPairs ==
  ASSUME NEW P \in SUBSET (Nat \X Nat), IsFiniteSet(P)
  PROVE  /\ Cardinality(P) \in Nat
         /\ PairsInOrder(P) \in [1 .. Cardinality(P) -> P]
         /\ \A p \in P : \E k \in 1 .. Cardinality(P) : PairsInOrder(P)[k] = p
         /\ \A k \in 1 .. Cardinality(P) :
                Cardinality({q \in P : UpTo(q, PairsInOrder(P)[k])}) = k
<1> DEFINE up == [p \in P |-> {q \in P : UpTo(q, p)}]
           c == Cardinality(P)
<1>2. up \in [P -> SUBSET P]
  OBVIOUS
<1>u. \A p \in P : up[p] = {q \in P : UpTo(q, p)}
  OBVIOUS
<1>i. \A p \in P : p = <<p[1], p[2]>> /\ p[1] \in Nat /\ p[2] \in Nat
  OBVIOUS
<1>t. /\ \A p \in P : UpTo(p, p)
      /\ \A p, q \in P : UpTo(p, q) \/ UpTo(q, p)
      /\ \A p, q, r \in P : UpTo(p, q) /\ UpTo(q, r) => UpTo(p, r)
  BY <1>i DEF UpTo
<1>a. ASSUME NEW p \in P, NEW q \in P, UpTo(p, q), UpTo(q, p) PROVE p = q
  <2>1. p[1] = q[1] /\ p[2] = q[2]
    BY <1>a, <1>i DEF UpTo
  <2> QED
    BY <2>1, <1>i
<1> HIDE DEF up, c
<1>m. ASSUME NEW p \in P, NEW q \in P, UpTo(p, q) PROVE up[p] \subseteq up[q]
  <2>1. ASSUME NEW r \in up[p] PROVE r \in up[q]
    <3>1. r \in P /\ UpTo(r, p)
      BY <1>u
    <3>2. UpTo(r, q)
      BY <3>1, <1>m, <1>t
    <3> QED
      BY <3>1, <3>2, <1>u
  <2> QED
    BY <2>1
<1>3. Ordered(P, up)
  <2>1. \A p, q \in P : up[p] \subseteq up[q] \/ up[q] \subseteq up[p]
    BY <1>m, <1>t
  <2>2. \A p \in P : p \in up[p]
    BY <1>t, <1>u
  <2>3. \A p, q \in P : p \in up[q] /\ q \in up[p] => p = q
    BY <1>a, <1>u
  <2> QED
    BY <2>1, <2>2, <2>3, <1>2 DEF Ordered
<1>4. Counted(P, up)
  BY <1>3, Ranks
<1>5. ASSUME NEW k \in 1 .. c
      PROVE  PairsInOrder(P)[k] \in P /\ Cardinality(up[PairsInOrder(P)[k]]) = k
  <2>1. PairsInOrder(P)[k] = CHOOSE p \in P : Cardinality({q \in P : UpTo(q, p)}) = k
    BY DEF PairsInOrder, c
  <2>2. \E p \in P : Cardinality({q \in P : UpTo(q, p)}) = k
    BY <1>4, <1>u DEF Counted, c
  <2>3. /\ PairsInOrder(P)[k] \in P
        /\ Cardinality({q \in P : UpTo(q, PairsInOrder(P)[k])}) = k
    BY <2>1, <2>2, Zenon
  <2> QED
    BY <2>3, <1>u
<1>6. PairsInOrder(P) \in [1 .. c -> P]
  <2>1. PairsInOrder(P) = [k \in 1 .. c |-> PairsInOrder(P)[k]]
    BY DEF PairsInOrder, c
  <2> QED
    BY <2>1, <1>5
<1>7. ASSUME NEW p \in P PROVE \E k \in 1 .. c : PairsInOrder(P)[k] = p
  BY <1>4, <1>5 DEF Counted, c
<1> QED
  BY <1>4, <1>5, <1>6, <1>7, <1>u DEF Counted, c

\* What is gathered from a list of lists: the entries at the places, in order.
LEMMA Gathered ==
  ASSUME NEW P \in SUBSET (Nat \X Nat), IsFiniteSet(P), NEW lists
  PROVE  /\ DOMAIN ItemsAt(lists, P) = 1 .. Cardinality(P)
         /\ \A k \in 1 .. Cardinality(P) :
                \E p \in P : /\ PairsInOrder(P)[k] = p
                             /\ ItemsAt(lists, P)[k] = lists[p[1]][p[2]]
         /\ \A p \in P : \E k \in 1 .. Cardinality(P) :
                /\ PairsInOrder(P)[k] = p
                /\ ItemsAt(lists, P)[k] = lists[p[1]][p[2]]
         /\ Len(ItemsAt(lists, P)) = Cardinality(P) /\ Cardinality(P) \in Nat
<1> DEFINE c == Cardinality(P)
<1>1. /\ c \in Nat
      /\ PairsInOrder(P) \in [1 .. c -> P]
      /\ \A p \in P : \E k \in 1 .. c : PairsInOrder(P)[k] = p
  BY OrderedPairs
<1>2. ItemsAt(lists, P) =
        [k \in 1 .. c |-> lists[PairsInOrder(P)[k][1]][PairsInOrder(P)[k][2]]]
  BY DEF ItemsAt
<1>3. DOMAIN ItemsAt(lists, P) = 1 .. c /\ Len(ItemsAt(lists, P)) = c
  BY <1>1, <1>2
<1>4. ASSUME NEW k \in 1 .. c, NEW p \in P, PairsInOrder(P)[k] = p
      PROVE  ItemsAt(lists, P)[k] = lists[p[1]][p[2]]
  BY <1>2, <1>4
<1> HIDE DEF c
<1>5. \A k \in 1 .. c : PairsInOrder(P)[k] \in P
  BY <1>1
<1>6. \A k \in 1 .. c : \E p \in P : /\ PairsInOrder(P)[k] = p
                                     /\ ItemsAt(lists, P)[k] = lists[p[1]][p[2]]
  BY <1>4, <1>5, Zenon
<1>7. \A p \in P : \E k \in 1 .. c : /\ PairsInOrder(P)[k] = p
                                     /\ ItemsAt(lists, P)[k] = lists[p[1]][p[2]]
  BY <1>1, <1>4, Zenon
<1> QED
  BY <1>1, <1>3, <1>6, <1>7, Zenon DEF c

\* The places of one of the lists give that list.
LEMMA GatherOne ==
  ASSUME NEW lists, NEW g \in Nat, NEW n \in Nat
  PROVE  ItemsAt(lists, {g} \X (1 .. n)) = [k \in 1 .. n |-> lists[g][k]]
<1> DEFINE P == {g} \X (1 .. n)
<1>1. ASSUME NEW i \in Nat
      PROVE  IsFiniteSet({g} \X (1 .. i)) /\ Cardinality({g} \X (1 .. i)) = i
  <2>1. IsFiniteSet({g}) /\ Cardinality({g}) = 1
    BY FS_Singleton
  <2>2. IsFiniteSet(1 .. i) /\ Cardinality(1 .. i) = i
    BY FS_Interval
  <2>3. /\ IsFiniteSet({g} \X (1 .. i))
        /\ Cardinality({g} \X (1 .. i)) = Cardinality({g}) * Cardinality(1 .. i)
    BY <2>1, <2>2, FS_Product, Zenon
  <2> QED
    BY <2>1, <2>2, <2>3
<1>2. P \in SUBSET (Nat \X Nat) /\ IsFiniteSet(P) /\ Cardinality(P) = n
  BY <1>1
<1>3. ASSUME NEW k \in 1 .. n PROVE PairsInOrder(P)[k] = <<g, k>>
  <2>1. /\ PairsInOrder(P)[k] \in P
        /\ Cardinality({q \in P : UpTo(q, PairsInOrder(P)[k])}) = k
    <3> HIDE DEF P
    <3>1. /\ PairsInOrder(P) \in [1 .. Cardinality(P) -> P]
          /\ \A l \in 1 .. Cardinality(P) :
                 Cardinality({q \in P : UpTo(q, PairsInOrder(P)[l])}) = l
      BY <1>2, OrderedPairs, Zenon
    <3> QED
      BY <3>1, <1>2
  <2>2. PICK i \in 1 .. n : PairsInOrder(P)[k] = <<g, i>>
    BY <2>1
  <2>3. {q \in P : UpTo(q, <<g, i>>)} = {g} \X (1 .. i)
    BY DEF UpTo
  <2>4. Cardinality({g} \X (1 .. i)) = i
    BY <1>1
  <2> QED
    BY <2>1, <2>2, <2>3, <2>4
<1>4. ItemsAt(lists, P) =
        [k \in 1 .. n |-> lists[PairsInOrder(P)[k][1]][PairsInOrder(P)[k][2]]]
  BY <1>2 DEF ItemsAt
<1> HIDE DEF P
<1>5. \A k \in 1 .. n : PairsInOrder(P)[k][1] = g /\ PairsInOrder(P)[k][2] = k
  BY <1>3
<1>6. ItemsAt(lists, P) = [k \in 1 .. n |-> lists[g][k]]
  BY <1>4, <1>5
<1> QED
  BY <1>6 DEF P

\* A list of finitely many finite lists has finitely many places.
LEMMA FinitelyManyPlaces ==
  ASSUME NEW n \in Nat, NEW D \in [1 .. n -> SUBSET Nat],
         \A g \in 1 .. n : IsFiniteSet(D[g])
  PROVE  /\ UNION {{g} \X D[g] : g \in 1 .. n} \in SUBSET (Nat \X Nat)
         /\ IsFiniteSet(UNION {{g} \X D[g] : g \in 1 .. n})
<1> DEFINE f == [g \in 1 .. n |-> {g} \X D[g]]
           T == {{g} \X D[g] : g \in 1 .. n}
<1>1. f \in Surjection(1 .. n, T)
  BY DEF Surjection
<1>2. IsFiniteSet(1 .. n)
  BY FS_Interval
<1>3. IsFiniteSet(T)
  BY <1>1, <1>2, FS_Surjection
<1>4. ASSUME NEW t \in T PROVE IsFiniteSet(t)
  <2>1. PICK g \in 1 .. n : t = {g} \X D[g]
    OBVIOUS
  <2> QED
    BY <2>1, FS_Singleton, FS_Product
<1>5. IsFiniteSet(UNION T)
  <2> HIDE DEF T
  <2> QED
    BY <1>3, <1>4, FS_UNION
<1> QED
  BY <1>5

-----------------------------------------------------------------------------
(***************************************************************************)
(* Identifiers                                                             *)
(***************************************************************************)

\* The digits of a list of digits are the list.
LEMMA DigitsOfDigits ==
  ASSUME NEW d \in Seq(Digit) PROVE DigitsOnly(d) = d
<1> DEFINE n == Len(d)
<1>1. n \in Nat /\ DOMAIN d = 1 .. n /\ d = [i \in 1 .. n |-> d[i]]
  OBVIOUS
<1>2. {i \in DOMAIN d : d[i] \in Digit} = 1 .. n
  <2>1. \A i \in 1 .. n : d[i] \in Digit
    BY ElementOfSeq
  <2> HIDE DEF n
  <2> QED
    BY <1>1, <2>1
<1> HIDE DEF n
<1>3. EntriesAt(d, 1 .. n) = d
  BY <1>1, FilterAll
<1> QED
  BY <1>2, <1>3 DEF DigitsOnly

\* DigitsOnly returns digits, whatever the text; applied again, the same.
LEMMA DigitsTwice ==
  ASSUME NEW n \in Nat, NEW s, DOMAIN s = 1 .. n
  PROVE  DigitsOnly(s) \in Seq(Digit) /\ DigitsOnly(DigitsOnly(s)) = DigitsOnly(s)
<1> DEFINE I == {i \in DOMAIN s : s[i] \in Digit}
           c == Cardinality(I)
<1>1. I \in SUBSET (1 .. n) /\ \A i \in I : s[i] \in Digit
  OBVIOUS
<1> HIDE DEF I
<1>2. c \in Nat /\ InOrder(I) \in [1 .. c -> I]
  BY <1>1, OrderedPlaces DEF CountedOff
<1>4. EntriesAt(s, I) = [k \in 1 .. c |-> s[InOrder(I)[k]]]
  BY DEF EntriesAt
<1> HIDE DEF c
<1>3. \A k \in 1 .. c : s[InOrder(I)[k]] \in Digit
  BY <1>1, <1>2
<1>5. EntriesAt(s, I) \in Seq(Digit)
  BY <1>2, <1>3, <1>4, IsASeq
<1>6. DigitsOnly(s) = EntriesAt(s, I)
  BY DEF DigitsOnly, I
<1> QED
  BY <1>5, <1>6, DigitsOfDigits

\* Normalizing an identifier again changes nothing.
THEOREM IdentifierIdempotent ==
  ASSUME NEW n \in Nat, NEW s, DOMAIN s = 1 .. n
  PROVE  /\ CPF(CPF(s)) = CPF(s)
         /\ CNPJ(CNPJ(s)) = CNPJ(s)
         /\ CEP(CEP(s)) = CEP(s)
<1> DEFINE d == DigitsOnly(s)
<1>1. DigitsOnly(d) = d
  BY DigitsTwice
<1>2. DigitsOnly(Absent) = Absent
  <2>1. Absent \in Seq(Digit)
    BY DEF Absent
  <2> QED
    BY <2>1, DigitsOfDigits
<1>3. Len(Absent) = 0
  BY DEF Absent
<1>4. ~ValidCPF(Absent) /\ ~ValidCNPJ(Absent)
  BY <1>3 DEF ValidCPF, ValidCNPJ
<1> HIDE DEF d
<1>5. CPF(s) \in {d, Absent} /\ (CPF(s) = d => ValidCPF(d) \/ d = Absent)
  BY DEF CPF, d
<1>6. CPF(CPF(s)) = CPF(s)
  BY <1>1, <1>2, <1>4, <1>5, Zenon DEF CPF
<1>7. CNPJ(s) \in {d, Absent} /\ (CNPJ(s) = d => ValidCNPJ(d) \/ d = Absent)
  BY DEF CNPJ, d
<1>8. CNPJ(CNPJ(s)) = CNPJ(s)
  BY <1>1, <1>2, <1>4, <1>7, Zenon DEF CNPJ
<1>9. CEP(s) \in {d, Absent} /\ (CEP(s) = d => Len(d) = 8 \/ d = Absent)
  BY DEF CEP, d
<1>10. CEP(CEP(s)) = CEP(s)
  BY <1>1, <1>2, <1>3, <1>9 DEF CEP
<1> QED
  BY <1>6, <1>8, <1>10

\* A text in which one digit is replaced by another has the same digits but for
\* that one.
DiffersAt(s, r, n, i) ==
  /\ DOMAIN s = 1 .. n /\ DOMAIN r = 1 .. n /\ i \in 1 .. n
  /\ s[i] \in Digit /\ r[i] \in Digit
  /\ \A j \in 1 .. n : j # i => r[j] = s[j]

DigitChanged(d, e, old, new) ==
  \E k \in DOMAIN d : d[k] = old /\ e = [d EXCEPT ![k] = new]

LEMMA OneDigitReplaced ==
  ASSUME NEW n \in Nat, NEW s, NEW r, NEW i, DiffersAt(s, r, n, i)
  PROVE  DigitChanged(DigitsOnly(s), DigitsOnly(r), s[i], r[i])
<1>0. /\ DOMAIN s = 1 .. n /\ DOMAIN r = 1 .. n /\ i \in 1 .. n
      /\ s[i] \in Digit /\ r[i] \in Digit
      /\ \A j \in 1 .. n : j # i => r[j] = s[j]
  BY DEF DiffersAt
<1> DEFINE I == {j \in DOMAIN s : s[j] \in Digit}
           c == Cardinality(I)
           x == r[i]
<1>1. I \in SUBSET (1 .. n) /\ i \in I
  BY <1>0
<1>2. I = {j \in DOMAIN r : r[j] \in Digit}
  <2>1. \A j \in 1 .. n : s[j] \in Digit => r[j] \in Digit
    BY <1>0, Zenon
  <2>2. \A j \in 1 .. n : r[j] \in Digit => s[j] \in Digit
    BY <1>0, Zenon
  <2> QED
    BY <1>0, <2>1, <2>2, Zenon
<1> HIDE DEF I
<1>3. /\ c \in Nat
      /\ InOrder(I) \in [1 .. c -> I]
      /\ \A j \in I : \E k \in 1 .. c : InOrder(I)[k] = j
      /\ \A k, l \in 1 .. c : k < l => InOrder(I)[k] < InOrder(I)[l]
  <2>1. CountedOff(I)
    BY <1>1, OrderedPlaces
  <2> QED
    BY <2>1 DEF CountedOff
<1> HIDE DEF c
<1>4. PICK k \in 1 .. c : InOrder(I)[k] = i
  BY <1>1, <1>3
<1>5. \A l \in 1 .. c : l # k => InOrder(I)[l] # i
  <2>1. ASSUME NEW l \in 1 .. c, l # k, InOrder(I)[l] = i PROVE FALSE
    <3>1. l < k \/ k < l
      BY <2>1, <1>3
    <3>2. i < i
      BY <3>1, <2>1, <1>3, <1>4
    <3> QED
      BY <3>2, <1>1
  <2> QED
    BY <2>1
<1>6. /\ DigitsOnly(s) = [l \in 1 .. c |-> s[InOrder(I)[l]]]
      /\ DigitsOnly(r) = [l \in 1 .. c |-> r[InOrder(I)[l]]]
  BY <1>2 DEF DigitsOnly, EntriesAt, c, I
<1>7. \A l \in 1 .. c : InOrder(I)[l] \in 1 .. n
  BY <1>1, <1>3
<1>8. \A l \in 1 .. c : r[InOrder(I)[l]] = IF l = k THEN x ELSE s[InOrder(I)[l]]
  BY <1>0, <1>4, <1>5, <1>7
<1>9. DigitsOnly(r) = [DigitsOnly(s) EXCEPT ![k] = x]
  <2> DEFINE f == [l \in 1 .. c |-> IF l = k THEN x ELSE s[InOrder(I)[l]]]
  <2>1. DigitsOnly(r) = f
    BY <1>6, <1>8
  <2>2. [DigitsOnly(s) EXCEPT ![k] = x] = f
    BY <1>6
  <2> QED
    BY <2>1, <2>2
<1>10. k \in DOMAIN DigitsOnly(s) /\ DigitsOnly(s)[k] = s[i]
  BY <1>4, <1>6
<1> QED
  BY <1>9, <1>10 DEF DigitChanged

-----------------------------------------------------------------------------
(***************************************************************************)
(* Loops over layouts                                                      *)
(***************************************************************************)

\* A set of places that is not empty has a first one.
LEMMA FirstPlace ==
  ASSUME NEW n \in Nat, NEW I \in SUBSET (1 .. n), I # {}
  PROVE  \E i \in I : \A j \in I : i <= j
<1> DEFINE c == Cardinality(I)
<1>1. /\ c \in Nat
      /\ InOrder(I) \in [1 .. c -> I]
      /\ \A i \in I : \E k \in 1 .. c : InOrder(I)[k] = i
      /\ \A k, l \in 1 .. c : k < l => InOrder(I)[k] < InOrder(I)[l]
  <2>1. CountedOff(I)
    BY OrderedPlaces
  <2> QED
    BY <2>1 DEF CountedOff
<1> HIDE DEF c
<1>2. 1 \in 1 .. c
  <2>1. PICK i : i \in I
    OBVIOUS
  <2>2. PICK k \in 1 .. c : InOrder(I)[k] = i
    BY <1>1, <2>1
  <2> QED
    BY <1>1, <2>2
<1>3. ASSUME NEW j \in I PROVE InOrder(I)[1] <= j
  <2>1. PICK k \in 1 .. c : InOrder(I)[k] = j
    BY <1>1
  <2>2. k = 1 \/ 1 < k
    BY <1>1
  <2>3. InOrder(I)[1] \in 1 .. n /\ j \in 1 .. n
    BY <1>1, <1>2
  <2> QED
    BY <1>1, <1>2, <2>1, <2>2, <2>3
<1>4. InOrder(I)[1] \in I
  BY <1>1, <1>2
<1> QED
  BY <1>3, <1>4

\* The loop over any layouts returns the reading of the first that parses.
LEMMA FirstThatParses ==
  ASSUME NEW n \in Nat, NEW layouts, DOMAIN layouts = 1 .. n, NEW s
  PROVE  LET R == FirstReading(layouts, s)
         IN  \/ R = NoDate /\ \A i \in 1 .. n : Parse(layouts[i], s) = NoDate
             \/ /\ R # NoDate
                /\ \E i \in 1 .. n : /\ Parse(layouts[i], s) = R
                                     /\ \A j \in 1 .. n : j < i => Parse(layouts[j], s) = NoDate
<1> DEFINE ok == Readings(layouts, s)
           least == CHOOSE i \in ok : \A j \in ok : i <= j
<1>2. ok = {i \in 1 .. n : Parse(layouts[i], s) # NoDate}
  BY Zenon DEF Readings
<1>3. FirstReading(layouts, s) = IF ok = {} THEN NoDate ELSE Parse(layouts[least], s)
  BY Zenon DEF FirstReading
<1>4. CASE ok = {}
  BY <1>2, <1>3, <1>4, Zenon
<1>5. CASE ok # {}
  <2>0. ok \in SUBSET (1 .. n)
    BY <1>2, Zenon
  <2>1. \E i \in ok : \A j \in ok : i <= j
    <3> HIDE DEF ok
    <3> QED
      BY <2>0, <1>5, FirstPlace
  <2>2. least \in ok /\ \A j \in ok : least <= j
    BY <2>1, Zenon
  <2> HIDE DEF ok, least
  <2>3. least \in 1 .. n /\ Parse(layouts[least], s) # NoDate
    BY <2>2, <1>2, Zenon
  <2>4. ASSUME NEW j \in 1 .. n, j < least PROVE Parse(layouts[j], s) = NoDate
    <3>1. j \notin ok
      BY <2>2, <2>3, <2>4
    <3> QED
      BY <3>1, <1>2, Zenon
  <2> QED
    BY <2>3, <2>4, <1>3, <1>5, Zenon
<1> QED
  BY <1>4, <1>5

LEMMA LengthOf ==
  ASSUME NEW n \in Nat, NEW f, f = [i \in 1 .. n |-> f[i]]
  PROVE  Len(f) = n /\ DOMAIN f = 1 .. n
<1> DEFINE g == [i \in 1 .. n |-> f[i]]
<1>1. Len(g) = n /\ DOMAIN g = 1 .. n
  OBVIOUS
<1> HIDE DEF g
<1>2. f = g
  BY DEF g
<1> QED
  BY <1>1, <1>2, Zenon

\* A text that is shorter or longer than a layout does not fit it.
LEMMA WrongLength ==
  ASSUME NEW layout, NEW s, Len(s) # Len(layout) PROVE Parse(layout, s) = NoDate
BY Zenon DEF Parse

=============================================================================
