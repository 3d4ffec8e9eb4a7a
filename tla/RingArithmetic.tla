---------------------------- MODULE RingArithmetic ----------------------------
(***************************************************************************)
(* Facts about remainders, differences and sequences that the proofs about *)
(* ring buffers and counters rest on.  They mention no component.          *)
(***************************************************************************)
EXTENDS Integers, Sequences, TLAPS

-----------------------------------------------------------------------------
(* Remainders. *)

\* A slot index is inside the buffer.
LEMMA ModRange ==
  ASSUME NEW E \in Nat \ {0}, NEW a \in Int
  PROVE  a % E \in 0 .. E - 1
OBVIOUS

\* The quotient is an integer.
LEMMA DivInt ==
  ASSUME NEW E \in Nat \ {0}, NEW a \in Int
  PROVE  a \div E \in Int
OBVIOUS

\* Division with remainder.
LEMMA ModDef ==
  ASSUME NEW E \in Nat \ {0}, NEW a \in Int
  PROVE  a = E * (a \div E) + (a % E)
OBVIOUS

\* A positive multiple of E is at least E.
LEMMA MulPos ==
  ASSUME NEW E \in Nat \ {0}, NEW d \in Int, d >= 1
  PROVE  E * d >= E
OBVIOUS

\* A multiple of E by a number that is not positive is not positive.
LEMMA MulNeg ==
  ASSUME NEW E \in Nat \ {0}, NEW d \in Int, d <= 0
  PROVE  E * d <= 0
OBVIOUS

\* Multiplication distributes over sums and differences.
LEMMA Distr ==
  ASSUME NEW E \in Int, NEW c \in Int, NEW d \in Int
  PROVE  E * (c - d) = E * c - E * d /\ E * (c + d) = E * c + E * d
OBVIOUS

\* A remainder is unique.
LEMMA ModUnique ==
  ASSUME NEW E \in Nat \ {0}, NEW q1 \in Int, NEW q2 \in Int,
         NEW r1 \in 0 .. E-1, NEW r2 \in 0 .. E-1, E * q1 + r1 = E * q2 + r2
  PROVE  r1 = r2
<1>1. E * (q1 - q2) = r2 - r1 BY Distr
<1>2. q1 - q2 \in Int OBVIOUS
<1>3. CASE q1 - q2 >= 1 BY <1>1, <1>2, <1>3, MulPos
<1>4. CASE q1 - q2 <= 0 
  <2>1. CASE q1 - q2 = 0 BY <1>1, <2>1
  <2>2. CASE q2 - q1 >= 1
    <3>1. E * (q2 - q1) = r1 - r2 BY Distr
    <3>2. E * (q2 - q1) >= E BY <2>2, MulPos
    <3> QED BY <3>1, <3>2
  <2> QED BY <1>4, <2>1, <2>2
<1> QED BY <1>2, <1>3, <1>4

\* Two different places less than a buffer's length apart have different slots.
LEMMA ModInj ==
  ASSUME NEW E \in Nat \ {0}, NEW a \in Nat, NEW b \in Nat, a < b, b < a + E
  PROVE  a % E # b % E
<1> DEFINE q == a \div E
           r == b \div E
<1>0. q \in Int /\ r \in Int BY DivInt
<1>1. a = E * q + (a % E) BY ModDef
<1>2. b = E * r + (b % E) BY ModDef
<1>3. a % E \in 0 .. E - 1 /\ b % E \in 0 .. E - 1 BY ModRange
<1>4. E * (r - q) = E * r - E * q /\ E * r \in Int /\ E * q \in Int BY <1>0, Distr
<1>q. r - q \in Int BY <1>0
<1> HIDE DEF q, r
<1> SUFFICES ASSUME a % E = b % E PROVE FALSE OBVIOUS
<1>5. b - a = E * (r - q) BY <1>1, <1>2, <1>3, <1>4
<1>6. CASE r - q <= 0 BY <1>5, <1>6, <1>q, MulNeg
<1>7. CASE r - q >= 1 BY <1>5, <1>7, <1>q, MulPos
<1> QED BY <1>q, <1>6, <1>7

\* Reducing a summand does not change the slot.
LEMMA ModAdd ==
  ASSUME NEW E \in Nat \ {0}, NEW a \in Int, NEW b \in Int
  PROVE  ((a % E) + b) % E = (a + b) % E
<1> DEFINE c == (a % E) + b
           q == a \div E
           r == c \div E
           s == (a + b) \div E
<1>1. a % E \in 0 .. E - 1 BY ModRange
<1>2. c \in Int BY <1>1
<1>3. q \in Int /\ r \in Int /\ s \in Int BY <1>2, DivInt
<1>4. a = E * q + (a % E) BY ModDef
<1>5. c = E * r + (c % E) BY <1>2, ModDef
<1>6. a + b = E * s + ((a + b) % E) BY ModDef
<1>7. c % E \in 0 .. E - 1 /\ (a + b) % E \in 0 .. E - 1 BY <1>2, ModRange
<1>8. E * (q + r) = E * q + E * r /\ E * q \in Int /\ E * r \in Int BY <1>3, Distr
<1>9. a + b = E * q + c BY <1>1, <1>4, <1>8
<1> HIDE DEF c, q, r, s
<1>10. E * (q + r) + (c % E) = E * s + ((a + b) % E) BY <1>2, <1>5, <1>6, <1>7, <1>8, <1>9
<1>11. q + r \in Int BY <1>3
<1>12. c % E = (a + b) % E BY Zenon, <1>3, <1>7, <1>10, <1>11, ModUnique
<1> QED BY <1>12 DEF c

-----------------------------------------------------------------------------
(* Differences and sequences. *)

\* A larger integer exceeds a smaller one by a natural number.
LEMMA Excess ==
  ASSUME NEW c, NEW a \in Nat, NEW b \in Nat, c \in a .. b
  PROVE  \E k \in Nat : c = a + k
<1>1. c - a \in Nat /\ c = a + (c - a) OBVIOUS
<1> QED BY <1>1

\* The length of a concatenation.
LEMMA ConcatLen ==
  ASSUME NEW S, NEW s \in Seq(S), NEW t \in Seq(S)
  PROVE  Len(s \o t) = Len(s) + Len(t)
OBVIOUS

\* Dropping the last element of a sequence.
LEMMA FrontOf ==
  ASSUME NEW S, NEW s \in Seq(S), s # <<>>
  PROVE  LET f == SubSeq(s, 1, Len(s) - 1)
         IN  /\ f \in Seq(S) /\ Len(f) = Len(s) - 1
             /\ \A k \in 1 .. Len(s) - 1 : f[k] = s[k]
<1> DEFINE n == Len(s) - 1
<1>1. n \in Nat /\ \A k \in 1 .. n : s[k] \in S OBVIOUS
<1>2. SubSeq(s, 1, n) = [k \in 1 .. n |-> s[k]]
  <2>1. SubSeq(s, 1, n) = [k \in 1 .. (n - 1 + 1) |-> s[1 + k - 1]] OBVIOUS
  <2> QED BY <1>1, <2>1
<1> HIDE DEF n
<1>3. [k \in 1 .. n |-> s[k]] \in Seq(S) /\ Len([k \in 1 .. n |-> s[k]]) = n BY <1>1
<1> QED BY <1>1, <1>2, <1>3 DEF n
===============================================================================
