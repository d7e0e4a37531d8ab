-------------------------- MODULE Division_proofs --------------------------
(***************************************************************************)
(* Facts about integers for which the provers have none: induction, as the *)
(* least element of a set; and \div and % with a divisor that is not a     *)
(* numeral, for counters that wrap and sizes that are cut into pieces.     *)
(***************************************************************************)
EXTENDS Integers, WellFoundedInduction, TLAPS

\* A non-empty set of naturals has a least element.
LEMMA LeastElement ==
    ASSUME NEW S, S \subseteq Nat, S # {}
    PROVE  \E m \in S : \A k \in S : m <= k
<1> DEFINE R == OpToRel(<, Nat)
<1>1. IsWellFoundedOn(R, Nat)
  BY NatLessThanWellFounded
<1>2. \A x, y \in Nat : y < x => <<y, x>> \in R
  BY DEF OpToRel
<1> HIDE DEF R
<1>3. PICK x \in S : \A y \in S : ~ (<<y, x>> \in R)
  BY <1>1, WFMin
<1>4. \A k \in S : ~ (k < x)
  BY <1>2, <1>3
<1> QED
  BY <1>4

LEMMA MulMono ==
    ASSUME NEW D \in Int, NEW a \in Int, NEW b \in Int, D > 0, a > b
    PROVE  D * a >= D * b + D
<1>1. PICK d \in Int : a = b + 1 + d /\ d >= 0
    <2>1. a - b - 1 \in Int /\ a = b + 1 + (a - b - 1) /\ a - b - 1 >= 0
        OBVIOUS
    <2> QED
        BY <2>1
<1>2. D * d >= 0
    BY <1>1
<1>3. D * a = D * b + D + D * d
    BY <1>1
<1> QED
    BY <1>2, <1>3

LEMMA Division ==
    \A D, n \in Int : D > 0 => /\ n = D * (n \div D) + (n % D)
                               /\ n % D \in 0..D - 1
                               /\ n \div D \in Int
OBVIOUS

\* A number has one quotient and one remainder.
LEMMA OneDivision ==
    \A D, c, d, r, s \in Int :
        /\ D > 0 /\ r \in 0..D - 1 /\ s \in 0..D - 1
        /\ D * c + r = D * d + s
        => c = d /\ r = s
<1> SUFFICES ASSUME NEW D \in Int, NEW c \in Int, NEW d \in Int,
                    NEW r \in Int, NEW s \in Int,
                    D > 0, r \in 0..D - 1, s \in 0..D - 1,
                    D * c + r = D * d + s
             PROVE  c = d /\ r = s
    OBVIOUS
<1>1. D * c \in Int /\ D * d \in Int
    OBVIOUS
<1>2. CASE c > d
    BY <1>1, <1>2, MulMono
<1>3. CASE d > c
    BY <1>1, <1>3, MulMono
<1>4. CASE c = d
    BY <1>4
<1> QED
    BY <1>2, <1>3, <1>4

\* What a remainder is, and that it leaves alone a number below the divisor.
LEMMA Remainder ==
    \A D, x \in Int : D > 0 => /\ x % D \in 0..D - 1
                               /\ x \in 0..D - 1 => x % D = x
<1> SUFFICES ASSUME NEW D \in Int, NEW x \in Int, D > 0
             PROVE  /\ x % D \in 0..D - 1
                    /\ x \in 0..D - 1 => x % D = x
    OBVIOUS
<1>1. x = D * (x \div D) + (x % D) /\ x % D \in 0..D - 1 /\ x \div D \in Int
    BY Division
<1>2. ASSUME x \in 0..D - 1 PROVE x % D = x
    <2> DEFINE q == x \div D
               r == x % D
    <2>1. q \in Int /\ r \in Int /\ r \in 0..D - 1 /\ x = D * q + r
        BY <1>1
    <2> HIDE DEF q, r
    <2>2. D * 0 + x = D * q + r
        BY <2>1
    <2>3. x = r
        BY <1>2, <2>1, <2>2, OneDivision
    <2> QED
        BY <2>3 DEF r
<1> QED
    BY <1>1, <1>2

\* How a number is divided that is given as a multiple and a rest.
LEMMA Divided ==
    ASSUME NEW D \in Int, NEW c \in Int, NEW r \in Int, NEW n \in Int,
           D > 0, r \in 0..D - 1, n = D * c + r
    PROVE  n \div D = c /\ n % D = r
<1> DEFINE q == n \div D
           s == n % D
<1>1. n = D * q + s /\ s \in 0..D - 1 /\ q \in Int
    BY Division
<1> HIDE DEF q, s
<1>2. s \in Int /\ D * c + r = D * q + s
    BY <1>1
<1>3. c = q /\ r = s
    BY <1>1, <1>2, OneDivision
<1> QED
    BY <1>3 DEF q, s

LEMMA SmallRemainder ==
    ASSUME NEW D \in Int, NEW n \in 0..D - 1
    PROVE  n % D = n
<1>1. D * 0 + n = n /\ D > 0
    OBVIOUS
<1> QED
    BY <1>1, Divided

\* The piece of size D that begins at n or before it lies within m such pieces
\* if D units behind n do.
LEMMA Fits ==
    ASSUME NEW D \in Int, NEW n \in Int, NEW m \in Int,
           D > 0, n >= 0, n + D <= D * m
    PROVE  n \div D \in Int /\ n \div D >= 0 /\ n \div D + 1 <= m
<1> DEFINE q == n \div D
           r == n % D
<1>1. n = D * q + r /\ r \in 0..D - 1 /\ q \in Int
    BY Division
<1> HIDE DEF q, r
<1>2. D * q \in Int /\ D * m \in Int /\ r \in Int /\ 0 <= r /\ r < D
    BY <1>1
<1>3. ~(0 > q)
    <2> SUFFICES ASSUME 0 > q PROVE FALSE
        OBVIOUS
    <2>1. D * 0 >= D * q + D
        BY <1>1, MulMono
    <2>2. D * 0 = 0
        OBVIOUS
    <2> QED
        BY <1>1, <1>2, <2>1, <2>2
<1>4. ~(q >= m)
    <2> SUFFICES ASSUME q >= m PROVE FALSE
        OBVIOUS
    <2>1. D * q >= D * m
        <3>1. CASE q = m
            BY <1>2, <3>1
        <3>2. CASE q > m
            BY <1>1, <1>2, <3>2, MulMono
        <3> QED
            BY <1>1, <3>1, <3>2
    <2> QED
        BY <1>1, <1>2, <2>1
<1>5. q >= 0 /\ q + 1 <= m
    BY <1>1, <1>3, <1>4
<1> QED
    BY <1>1, <1>5 DEF q
=============================================================================
