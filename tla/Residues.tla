------------------------------ MODULE Residues ------------------------------
(* Facts about quotients and residues that several proofs need. *)
EXTENDS Integers, TLAPS

\* A multiple of a unit of which a page is a whole number lies at least one unit
\* before the end of its page.
LEMMA PageRoom ==
    ASSUME NEW u \in Nat \ {0}, NEW p \in Nat \ {0}, NEW x \in Nat,
           p % u = 0, x % u = 0
    PROVE  x % p \in 0..(p - 1) /\ (x % p) + u <= p
<1> DEFINE q == p \div u
           y == x \div u
           k == x \div p
<1>1. q \in Nat /\ y \in Nat /\ k \in Nat
  OBVIOUS
<1>2. p = u * q /\ x = u * y /\ x = p * k + (x % p) /\ x % p \in 0..(p - 1)
  OBVIOUS
<1> HIDE DEF q, y, k
<1> DEFINE z == y - q * k
<1>3. z \in Int
  BY <1>1
<1>4. x % p = u * z
  <2>1. u * z = u * y - (u * q) * k
    BY <1>1
  <2> QED BY <2>1, <1>1, <1>2
<1> HIDE DEF z
<1>5. z < q
  <2> SUFFICES ASSUME z >= q PROVE FALSE
    BY <1>1, <1>3
  <2>1. u * z >= u * q
    BY <1>1, <1>3
  <2> QED BY <2>1, <1>2, <1>4
<1>6. u * (z + 1) <= u * q
  BY <1>1, <1>3, <1>5
<1>7. u * (z + 1) = u * z + u
  BY <1>3
<1> QED BY <1>2, <1>4, <1>6, <1>7, <1>3, <1>1

=============================================================================
