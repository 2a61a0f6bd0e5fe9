---------------------------- MODULE DecimalProofs ----------------------------
(***************************************************************************)
(* The rounding of averages, for integers of any size: with its truncated  *)
(* division and its sign the code computes the quotient it means to.       *)
(***************************************************************************)
EXTENDS Decimal, TLAPS

(* Quotient and remainder of a division.                                   *)
LEMMA DivMod ==
  ASSUME NEW a \in Nat, NEW n \in Nat \ {0}
  PROVE  \E q \in Nat, r \in Nat : a \div n = q /\ a = n * q + r /\ r < n
<1> DEFINE q == a \div n
           r == a % n
<1>1. q \in Nat /\ r \in Nat /\ r < n /\ a = n * q + r
  OBVIOUS
<1> QED
  BY <1>1

(* The quotient an average is made of lies within half a unit of the exact *)
(* one, and is the one further from zero if two are equally near, for      *)
(* dividends of either sign and as many values as there may be (avg_field: *)
(* truncated i128 division, corrected by the remainder and the sign).      *)
THEOREM RoundedIsNearest ==
  ASSUME NEW a \in Int, NEW n \in Nat \ {0},
         NEW q, q = Rounded(a, n, TruncatedDiv(a, n))
  PROVE  /\ q \in Int /\ 2 * Magnitude(a - n * q) <= n
         /\ 2 * Magnitude(a - n * q) = n => Magnitude(n * q) > Magnitude(a)
<1>1. CASE a >= 0
  <2>1. PICK d \in Nat, r \in Nat : a \div n = d /\ a = n * d + r /\ r < n
    BY <1>1, DivMod
  <2>2. TruncatedDiv(a, n) = d /\ a - n * d = r /\ Magnitude(r) = r
    BY <1>1, <2>1 DEF TruncatedDiv, Magnitude
  <2>3. CASE 2 * r < n
    <3>1. q = d
      BY <2>2, <2>3 DEF Rounded
    <3> QED
      BY <2>2, <2>3, <3>1
  <2>4. CASE 2 * r >= n
    <3>1. q = d + 1
      BY <1>1, <2>1, <2>2, <2>4 DEF Rounded
    <3>2. n * q = n * d + n /\ n * d \in Int
      BY <2>1, <3>1
    <3> QED
      BY <1>1, <2>1, <2>4, <3>1, <3>2 DEF Magnitude
  <2> QED
    BY <2>1, <2>3, <2>4
<1>2. CASE a < 0
  <2>1. PICK d \in Nat, r \in Nat : (-a) \div n = d /\ -a = n * d + r /\ r < n
    <3>1. -a \in Nat
      BY <1>2
    <3> QED
      BY <3>1, DivMod
  <2>2. TruncatedDiv(a, n) = -d /\ a - n * (-d) = -r /\ Magnitude(-r) = r
    BY <1>2, <2>1 DEF TruncatedDiv, Magnitude
  <2>3. CASE 2 * r < n
    <3>1. q = -d
      BY <2>2, <2>3 DEF Rounded
    <3> QED
      BY <2>2, <2>3, <3>1
  <2>4. CASE 2 * r >= n
    <3>1. q = -d - 1
      BY <1>2, <2>1, <2>2, <2>4 DEF Rounded
    <3>2. n * q = -(n * d) - n /\ n * d \in Int
      BY <2>1, <3>1
    <3> QED
      BY <1>2, <2>1, <2>4, <3>1, <3>2 DEF Magnitude
  <2> QED
    BY <2>1, <2>3, <2>4
<1> QED
  BY <1>1, <1>2

=============================================================================
