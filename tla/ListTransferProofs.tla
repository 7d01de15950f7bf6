------------------------- MODULE ListTransferProofs -------------------------
(***************************************************************************)
(* Labs 2.1 and 2.2 for every base and every number of nodes.  First the   *)
(* lists as such: what pack writes for a node and for a whole list is what *)
(* unpack reads back, and a reader of the first bytes of it has the list   *)
(* or nothing; what the loops of node.c do with a list on the heap.  Then  *)
(* the invariants of ListTransfer.                                         *)
(*                                                                         *)
(* The loops are recursive functions, and what they compute is proved by   *)
(* induction on their turns.  The rule for it, Induction, is about a set   *)
(* and comes from the natural numbers being well founded.                  *)
(***************************************************************************)
EXTENDS ListTransfer, SequenceTheorems, FiniteSetTheorems, WellFoundedInduction,
        TLAPS

-----------------------------------------------------------------------------
(* Induction and iteration.                                                *)
Less == {p \in Nat \X Nat : p[1] < p[2]}

LEMMA LeastNat ==
    ASSUME NEW T \in SUBSET Nat, T # {}
    PROVE  \E n \in T : \A m \in T : n <= m
<1>1. IsWellFoundedOn(OpToRel(<, Nat), Nat)
    BY NatLessThanWellFounded, Zenon
<1>2. OpToRel(<, Nat) = Less
    BY Zenon DEF OpToRel, Less
<1>3. IsWellFoundedOn(Less, Nat)
    BY <1>1, <1>2, Zenon
<1>4. PICK n \in T : \A m \in T : ~(<<m, n>> \in Less)
    BY <1>3, WFMin
<1>5. ASSUME NEW m \in T PROVE n <= m
  <2>1. m \in Nat /\ n \in Nat
    OBVIOUS
  <2>2. m < n => <<m, n>> \in Less
    BY <2>1 DEF Less
  <2> QED
    BY <1>4, <2>1, <2>2
<1> QED
    BY <1>5

LEMMA Induction ==
    ASSUME NEW n \in Nat, NEW S, 0 \in S,
           \A i \in 0..(n - 1) : i \in S => i + 1 \in S
    PROVE  \A i \in 0..n : i \in S
<1> DEFINE T == {i \in 0..n : i \notin S}
<1> SUFFICES ASSUME T # {} PROVE FALSE
    OBVIOUS
<1>0. T \in SUBSET Nat
    OBVIOUS
<1> HIDE DEF T
<1>1. PICK m \in T : \A k \in T : m <= k
    BY <1>0, LeastNat
<1>2. m \in 0..n /\ m \notin S /\ m # 0
    BY DEF T
<1>3. m - 1 \in 0..(n - 1) /\ m - 1 \in 0..n /\ m - 1 < m
    BY <1>2
<1>4. m - 1 \in S
    BY <1>1, <1>2, <1>3 DEF T
<1>5. (m - 1) + 1 \in S
    BY <1>3, <1>4
<1> QED
    BY <1>2, <1>5

(* A loop that starts with e and takes the step of its turn each time.     *)
IsLoop(f, n, e, step) ==
    f = [i \in 0..n |-> IF i = 0 THEN e ELSE step[<<i, f[i - 1]>>]]

Steps(n, X) == [(1..n) \X X -> X]

LEMMA LoopExists ==
    ASSUME NEW n \in Nat, NEW X, NEW e \in X, NEW step \in Steps(n, X)
    PROVE  \E f \in [0..n -> X] : IsLoop(f, n, e, step)
<1> USE DEF IsLoop, Steps
<1> DEFINE Eq(f, k) == f = [i \in 0..k |-> IF i = 0 THEN e ELSE step[<<i, f[i - 1]>>]]
           S == {k \in 0..n : \E f \in [0..k -> X] : Eq(f, k)}
<1>1. 0 \in S
  <2> DEFINE f == [i \in 0..0 |-> e]
  <2>1. f \in [0..0 -> X] /\ Eq(f, 0)
    OBVIOUS
  <2>2. 0 \in 0..n
    OBVIOUS
  <2> HIDE DEF f
  <2> QED
    BY <2>1, <2>2
<1>2. ASSUME NEW k \in 0..(n - 1), k \in S PROVE k + 1 \in S
  <2>1. PICK f \in [0..k -> X] : Eq(f, k)
    BY <1>2
  <2> DEFINE g == [i \in 0..(k + 1) |-> IF i = k + 1 THEN step[<<k + 1, f[k]>>] ELSE f[i]]
  <2>2. k + 1 \in 1..n /\ f[k] \in X /\ step[<<k + 1, f[k]>>] \in X /\ k + 1 \in 0..n
    OBVIOUS
  <2>3. g \in [0..(k + 1) -> X]
    BY <2>2
  <2>4. ASSUME NEW i \in 0..(k + 1)
        PROVE  g[i] = IF i = 0 THEN e ELSE step[<<i, g[i - 1]>>]
    <3>1. CASE i = k + 1
      <4>1. i # 0 /\ i - 1 = k /\ k # k + 1 /\ k \in 0..(k + 1)
        BY <3>1
      <4>2. g[k] = f[k] /\ g[i] = step[<<i, f[k]>>]
        BY <3>1, <4>1
      <4> QED
        BY <4>1, <4>2
    <3>2. CASE i # k + 1
      <4>1. i \in 0..k /\ g[i] = f[i] /\ (i # 0 => g[i - 1] = f[i - 1])
        BY <3>2
      <4>2. f[i] = IF i = 0 THEN e ELSE step[<<i, f[i - 1]>>]
        BY <2>1, <4>1
      <4> QED
        BY <4>1, <4>2
    <3> QED
        BY <3>1, <3>2
  <2>5. Eq(g, k + 1)
    BY <2>4
  <2> QED
    BY <2>2, <2>3, <2>5
<1> HIDE DEF S
<1>3. \A k \in 0..n : k \in S
    BY <1>1, <1>2, Induction
<1>4. n \in S
    BY <1>3
<1> QED
    BY <1>4 DEF S

-----------------------------------------------------------------------------
(* A node in the buffer.                                                   *)
U32 == U16 * U16

LEMMA DivisionFacts ==
    ASSUME NEW i \in Nat, NEW b \in Nat, b > 0
    PROVE  /\ i \div b \in Nat /\ i % b \in Nat /\ i % b < b
           /\ i = b * (i \div b) + (i % b)
    OBVIOUS

LEMMA QuotientBound ==
    ASSUME NEW i \in Nat, NEW b \in Nat, b > 0, NEW c \in Nat, i < b * c
    PROVE  i \div b < c
<1> DEFINE q == i \div b
<1>1. q \in Nat /\ i % b \in Nat /\ i = b * q + (i % b)
    BY DivisionFacts
<1> HIDE DEF q
<1>2. ASSUME q >= c PROVE FALSE
  <2>1. b * q >= b * c
    BY <1>1, <1>2
  <2> QED
    BY <1>1, <2>1
<1> QED
    BY <1>1, <1>2 DEF q

LEMMA SmallMod ==
    ASSUME NEW i \in Nat, NEW b \in Nat, i < b
    PROVE  i % b = i
    OBVIOUS

(* Two bytes hold what is below U16.                                       *)
LEMMA Pack16 ==
    ASSUME NEW i \in Nat, i < U16
    PROVE  /\ Len(Packu16(i)) = 2 /\ Packu16(i) \in Seq(Nat)
           /\ Packu16(i)[1] * Base + Packu16(i)[2] = i
<1>1. Base \in Nat /\ Base > 1
    BY NodeListAssumption DEF NodeListAssumption
<1> DEFINE q == i \div Base
           r == i % Base
<1>2. q \in Nat /\ r \in Nat /\ i = Base * q + r
    BY <1>1, DivisionFacts
<1>3. q < Base
    BY <1>1, QuotientBound DEF U16
<1>4. q % Base = q
    BY <1>1, <1>2, <1>3, SmallMod
<1>5. Packu16(i) = <<q % Base, r>>
    BY DEF Packu16
<1> HIDE DEF q, r
<1>6. Packu16(i) = <<q, r>>
    BY <1>4, <1>5
<1>7. q * Base + r = i
    BY <1>1, <1>2
<1>8. Len(<<q, r>>) = 2 /\ <<q, r>> \in Seq(Nat) /\ <<q, r>>[1] = q /\ <<q, r>>[2] = r
    BY <1>2
<1> QED
    BY <1>6, <1>7, <1>8

LEMMA Slice ==
    ASSUME NEW s \in Seq(Nat), NEW at \in Nat, NEW n \in Nat, at + (8 + n) <= Len(s)
    PROVE  LET S == SubSeq(s, at + 9, at + 8 + n)
           IN /\ S \in Seq(Nat) /\ Len(S) = n
              /\ \A i \in 1..n : S[i] = s[(at + 9) + i - 1]
    OBVIOUS

(* c is s, of m elements, and behind it t, of n.                           *)
Joins(c, s, m, t, n) ==
    /\ c \in Seq(Nat) /\ Len(c) = m + n
    /\ \A k \in Int : 1 <= k /\ k <= m => c[k] = s[k]
    /\ \A k \in Int : 1 <= k /\ k <= n => c[m + k] = t[k]

LEMMA Concat ==
    ASSUME NEW s \in Seq(Nat), NEW t \in Seq(Nat), NEW m \in Nat, NEW n \in Nat,
           Len(s) = m, Len(t) = n
    PROVE  Joins(s \o t, s, m, t, n)
<1>1. s \o t \in Seq(Nat) /\ Len(s \o t) = m + n
    BY SMTT(20)
<1>2. ASSUME NEW k \in Int, 1 <= k, k <= m PROVE (s \o t)[k] = s[k]
    BY <1>2
<1>3. ASSUME NEW k \in Int, 1 <= k, k <= n PROVE (s \o t)[m + k] = t[k]
    BY <1>3
<1> QED
    BY <1>1, <1>2, <1>3 DEF Joins

LEMMA ConcatLen ==
    ASSUME NEW X, NEW s \in Seq(X), NEW t \in Seq(X)
    PROVE  s \o t \in Seq(X) /\ Len(s \o t) = Len(s) + Len(t)
    OBVIOUS

LEMMA ConsFacts ==
    ASSUME NEW X, NEW v \in X, NEW t \in Seq(X)
    PROVE  LET s == <<v>> \o t
           IN /\ s \in Seq(X) /\ Len(s) = Len(t) + 1 /\ s[1] = v
              /\ \A i \in 1..Len(t) : s[i + 1] = t[i]
    OBVIOUS

(* Four bytes hold what is below U32.                                      *)
LEMMA Pack32 ==
    ASSUME NEW i \in Nat, i < U32
    PROVE  /\ Len(Packu32(i)) = 4 /\ Packu32(i) \in Seq(Nat)
           /\ (Packu32(i)[1] * Base + Packu32(i)[2]) * U16
                + (Packu32(i)[3] * Base + Packu32(i)[4]) = i
<1>1. Base \in Nat /\ Base > 1
    BY NodeListAssumption DEF NodeListAssumption
<1>2. U16 \in Nat /\ U16 > 0
    BY <1>1 DEF U16
<1> DEFINE q == i \div U16
           r == i % U16
<1>3. q \in Nat /\ r \in Nat /\ r < U16 /\ i = U16 * q + r
    BY <1>2, DivisionFacts
<1>4. q < U16
    BY <1>2, QuotientBound DEF U32
<1>5. q % U16 = q
    BY <1>2, <1>3, <1>4, SmallMod
<1>6. Packu32(i) = Packu16(q % U16) \o Packu16(r)
    BY DEF Packu32
<1> HIDE DEF q, r
<1> DEFINE hi == Packu16(q)
           lo == Packu16(r)
           all == hi \o lo
<1>7. Packu32(i) = all
    BY <1>5, <1>6
<1>8. /\ Len(hi) = 2 /\ hi \in Seq(Nat) /\ hi[1] * Base + hi[2] = q
      /\ Len(lo) = 2 /\ lo \in Seq(Nat) /\ lo[1] * Base + lo[2] = r
    BY <1>3, <1>4, Pack16
<1> HIDE DEF hi, lo
<1>9. Joins(all, hi, 2, lo, 2)
    BY <1>8, Concat
<1> HIDE DEF all
<1>10. /\ all \in Seq(Nat) /\ Len(all) = 4
       /\ all[1] = hi[1] /\ all[2] = hi[2] /\ all[3] = lo[1] /\ all[4] = lo[2]
    BY <1>9 DEF Joins
<1>11. q * U16 + r = i
    BY <1>2, <1>3
<1> QED
    BY <1>7, <1>8, <1>10, <1>11

Value == {v \in [a : 0..(U16 - 1), b : 0..(U32 - 1), text : Seq(Nat)] :
             \A j \in 1..Len(v.text) : v.text[j] # 0}

(* What a node is in the buffer, byte by byte.                             *)
NodeIs(p, v) ==
    /\ p \in Seq(Nat) /\ Len(p) = 8 + Len(v.text)
    /\ p[1] * Base + p[2] = v.a
    /\ (p[3] * Base + p[4]) * U16 + (p[5] * Base + p[6]) = v.b
    /\ p[7] * Base + p[8] = Len(v.text)
    /\ \A k \in Int : 1 <= k /\ k <= Len(v.text) => p[8 + k] = v.text[k]

LEMMA NodeBytes ==
    ASSUME NEW v \in Value, Len(v.text) < U16
    PROVE  NodeIs(PackedNode(v), v)
<1> DEFINE A == Packu16(v.a)
           B == Packu32(v.b)
           L == Packu16(Len(v.text) % U16)
           T == v.text
           n == Len(T)
<1>0. U16 \in Nat /\ U16 > 0 /\ U32 \in Nat
    BY NodeListAssumption DEF NodeListAssumption, U16, U32
<1>1. v.a \in Nat /\ v.a < U16 /\ v.b \in Nat /\ v.b < U32 /\ T \in Seq(Nat) /\ n \in Nat
    BY <1>0 DEF Value
<1>2. n % U16 = n
    BY <1>0, <1>1, SmallMod
<1>3. A \in Seq(Nat) /\ Len(A) = 2 /\ A[1] * Base + A[2] = v.a
    BY <1>1, Pack16
<1>4. B \in Seq(Nat) /\ Len(B) = 4 /\ (B[1] * Base + B[2]) * U16 + (B[3] * Base + B[4]) = v.b
    BY <1>1, Pack32
<1>5. L \in Seq(Nat) /\ Len(L) = 2 /\ L[1] * Base + L[2] = n
    BY <1>1, <1>2, Pack16
<1>6. PackedNode(v) = ((A \o B) \o L) \o T
    BY DEF PackedNode
<1>7. Len(T) = n
    OBVIOUS
<1> HIDE DEF A, B, L, T, n
<1> DEFINE AB == A \o B
<1>8. Joins(AB, A, 2, B, 4)
    BY <1>3, <1>4, Concat
<1> HIDE DEF AB
<1>9. AB \in Seq(Nat) /\ Len(AB) = 6
    BY <1>8 DEF Joins
<1> DEFINE ABL == AB \o L
<1>10. Joins(ABL, AB, 6, L, 2)
    BY <1>5, <1>9, Concat
<1> HIDE DEF ABL
<1>11. ABL \in Seq(Nat) /\ Len(ABL) = 8
    BY <1>10 DEF Joins
<1> DEFINE P == ABL \o T
<1>12. Joins(P, ABL, 8, T, n)
    BY <1>1, <1>7, <1>11, Concat
<1>13. PackedNode(v) = P
    BY <1>6 DEF AB, ABL
<1> HIDE DEF P
<1>14. /\ AB[1] = A[1] /\ AB[2] = A[2]
       /\ AB[3] = B[1] /\ AB[4] = B[2] /\ AB[5] = B[3] /\ AB[6] = B[4]
    BY <1>8 DEF Joins
<1>15. /\ ABL[1] = A[1] /\ ABL[2] = A[2] /\ ABL[3] = B[1] /\ ABL[4] = B[2]
       /\ ABL[5] = B[3] /\ ABL[6] = B[4] /\ ABL[7] = L[1] /\ ABL[8] = L[2]
    BY <1>10, <1>14 DEF Joins
<1>16. /\ P[1] = A[1] /\ P[2] = A[2] /\ P[3] = B[1] /\ P[4] = B[2]
       /\ P[5] = B[3] /\ P[6] = B[4] /\ P[7] = L[1] /\ P[8] = L[2]
    BY <1>12, <1>15 DEF Joins
<1>17. /\ P \in Seq(Nat) /\ Len(P) = 8 + n
       /\ \A k \in Int : 1 <= k /\ k <= n => P[8 + k] = T[k]
    BY <1>12 DEF Joins
<1>18. /\ P[1] * Base + P[2] = v.a
       /\ (P[3] * Base + P[4]) * U16 + (P[5] * Base + P[6]) = v.b
       /\ P[7] * Base + P[8] = n
    BY <1>3, <1>4, <1>5, <1>16
<1> QED
    BY <1>13, <1>17, <1>18 DEF NodeIs, T, n

(* The first eight bytes say where the next node starts.                   *)
LEMMA HeaderIsRead ==
    ASSUME NEW v \in Value, Len(v.text) < U16, NEW buf, NEW at \in Nat,
           \A k \in 1..8 : buf[at + k] = PackedNode(v)[k]
    PROVE  /\ Unpacku16(buf, at) = v.a /\ Unpacku32(buf, at + 2) = v.b
           /\ Unpacku16(buf, at + 6) = Len(v.text)
           /\ TextEnd(buf, at) = at + 8 + Len(v.text)
           /\ TextEnd(buf, at) = at + Len(PackedNode(v))
<1> DEFINE p == PackedNode(v)
           n == Len(v.text)
<1>1. NodeIs(p, v)
    BY NodeBytes
<1>2. n \in Nat
    BY DEF Value
<1>3. /\ p \in Seq(Nat) /\ Len(p) = 8 + n
      /\ p[1] * Base + p[2] = v.a
      /\ (p[3] * Base + p[4]) * U16 + (p[5] * Base + p[6]) = v.b
      /\ p[7] * Base + p[8] = n
    BY <1>1 DEF NodeIs
<1> HIDE DEF p, n
<1>4. /\ buf[at + 1] = p[1] /\ buf[at + 2] = p[2] /\ buf[at + 3] = p[3] /\ buf[at + 4] = p[4]
      /\ buf[at + 5] = p[5] /\ buf[at + 6] = p[6] /\ buf[at + 7] = p[7] /\ buf[at + 8] = p[8]
    BY DEF p
<1>5. /\ (at + 2) + 1 = at + 3 /\ (at + 2) + 2 = at + 4
      /\ ((at + 2) + 2) + 1 = at + 5 /\ ((at + 2) + 2) + 2 = at + 6
      /\ (at + 6) + 1 = at + 7 /\ (at + 6) + 2 = at + 8
    OBVIOUS
<1>6. /\ Unpacku16(buf, at) = v.a /\ Unpacku32(buf, at + 2) = v.b
      /\ Unpacku16(buf, at + 6) = n
    BY <1>3, <1>4, <1>5 DEF Unpacku16, Unpacku32
<1>7. TextEnd(buf, at) = at + 8 + n
    BY <1>6 DEF TextEnd
<1>8. TextEnd(buf, at) = at + Len(p)
    BY <1>2, <1>3, <1>7
<1> QED
    BY <1>6, <1>7, <1>8 DEF n, p

(* Where the buffer has the bytes of a node, the node is read.             *)
LEMMA NodeIsRead ==
    ASSUME NEW v \in Value, Len(v.text) < U16, NEW buf \in Seq(Nat), NEW at \in Nat,
           at + Len(PackedNode(v)) <= Len(buf),
           \A k \in 1..Len(PackedNode(v)) : buf[at + k] = PackedNode(v)[k]
    PROVE  FieldsAt(buf, at) = v
<1> DEFINE p == PackedNode(v)
           T == v.text
           n == Len(T)
<1>1. NodeIs(p, v)
    BY NodeBytes
<1>2. T \in Seq(Nat) /\ n \in Nat /\ v = [a |-> v.a, b |-> v.b, text |-> T]
    BY DEF Value
<1>3. /\ p \in Seq(Nat) /\ Len(p) = 8 + n
      /\ \A k \in Int : 1 <= k /\ k <= n => p[8 + k] = T[k]
    BY <1>1 DEF NodeIs
<1>4. \A k \in 1..(8 + n) : buf[at + k] = p[k]
    BY <1>3
<1>5. at + (8 + n) <= Len(buf) /\ Len(buf) \in Nat
    BY <1>3
<1>6. /\ Unpacku16(buf, at) = v.a /\ Unpacku32(buf, at + 2) = v.b
      /\ TextEnd(buf, at) = at + 8 + n
  <2> HIDE DEF p, n
  <2>1. n \in Nat
    BY <1>2
  <2>2. ASSUME NEW k \in 1..8 PROVE buf[at + k] = p[k]
    BY <1>4, <2>1
  <2> QED
    BY <2>2, HeaderIsRead DEF p, n
<1>7. Len(T) = n
    OBVIOUS
<1> HIDE DEF p, T, n
<1> DEFINE S == SubSeq(buf, at + 9, at + 8 + n)
<1>8. /\ S \in Seq(Nat) /\ Len(S) = n
      /\ \A i \in 1..n : S[i] = buf[(at + 9) + i - 1]
    BY <1>2, <1>5, Slice
<1> HIDE DEF S
<1>9. ASSUME NEW i \in 1..n PROVE S[i] = T[i]
  <2>1. /\ (at + 9) + i - 1 = at + (8 + i) /\ 8 + i \in 1..(8 + n)
        /\ i \in Int /\ 1 <= i /\ i <= n
    <3>1. n \in Nat
        BY <1>2
    <3> QED
        BY <3>1
  <2>2. S[i] = buf[(at + 9) + i - 1]
    BY <1>8
  <2>3. buf[at + (8 + i)] = p[8 + i] /\ p[8 + i] = T[i]
    BY <1>3, <1>4, <2>1
  <2> QED
    BY <2>1, <2>2, <2>3
<1>10. S = T
    BY <1>2, <1>7, <1>8, <1>9, SeqEqual
<1> QED
    BY <1>2, <1>6, <1>10 DEF FieldsAt, S

LEMMA WholeIsPrefix ==
    ASSUME NEW X, NEW s \in Seq(X)
    PROVE  SubSeq(s, 1, Len(s)) = s
<1>1. /\ Len(s) \in Nat
      /\ SubSeq(s, 1, Len(s)) \in Seq(X) /\ Len(SubSeq(s, 1, Len(s))) = Len(s)
      /\ \A k \in 1..Len(s) : SubSeq(s, 1, Len(s))[k] = s[k]
    OBVIOUS
<1> QED
    BY <1>1, SeqEqual

(* A text that leaves room for its terminator in two bytes of length is    *)
(* kept by assign_text, and with it the node.                              *)
LEMMA TextIsKept ==
    ASSUME NEW t \in Seq(Nat), Len(t) + 1 < U16, \A j \in 1..Len(t) : t[j] # 0
    PROVE  AssignText(t, (Len(t) + 1) % U16) = t
<1> DEFINE n == Len(t)
           s == Append(t, 0)
           ends == {j \in DOMAIN s : s[j] = 0}
<1>1. n \in Nat /\ n + 1 \in Nat /\ n + 1 < U16 /\ U16 \in Nat
    BY NodeListAssumption DEF NodeListAssumption, U16
<1>2. (n + 1) % U16 = n + 1
    BY <1>1, SmallMod
<1>3. s \in Seq(Nat) /\ Len(s) = n + 1 /\ DOMAIN s = 1..(n + 1) /\ s[n + 1] = 0
      /\ \A j \in 1..n : s[j] = t[j]
    BY <1>1
<1> HIDE DEF s
<1>4. SubSeq(s, 1, n + 1) = s
    BY <1>3, WholeIsPrefix
<1>5. ends = {n + 1}
  <2>1. ASSUME NEW j \in 1..n PROVE s[j] # 0
    BY <1>3
  <2> HIDE DEF n
  <2> QED
    BY <1>1, <1>3, <2>1
<1>6. Min(ends) = n + 1
  <2>1. Min({n + 1}) = n + 1
    BY <1>1 DEF Min
  <2> QED
    BY <1>5, <2>1
<1>7. CString(s) = SubSeq(s, 1, (n + 1) - 1)
    BY <1>5, <1>6 DEF CString
<1>8. SubSeq(s, 1, n) = t
  <2> DEFINE u == SubSeq(s, 1, n)
  <2>1. u \in Seq(Nat) /\ Len(u) = n /\ \A j \in 1..n : u[j] = s[j]
    BY <1>1, <1>3
  <2>2. \A j \in 1..n : u[j] = t[j]
    BY <1>3, <2>1
  <2> HIDE DEF u
  <2>3. u = t
    BY <2>1, <2>2, SeqEqual
  <2> QED
    BY <2>3 DEF u
<1>9. (n + 1) - 1 = n
    BY <1>1
<1> QED
    BY <1>2, <1>4, <1>7, <1>8, <1>9 DEF AssignText, s

LEMMA NodeIsKept ==
    ASSUME NEW v \in Value, Len(v.text) + 1 < U16, NEW buf, NEW at, FieldsAt(buf, at) = v
    PROVE  NodeAt(buf, at) = v
<1>1. v.text \in Seq(Nat) /\ v = [a |-> v.a, b |-> v.b, text |-> v.text]
      /\ \A j \in 1..Len(v.text) : v.text[j] # 0
    BY DEF Value
<1>2. AssignText(v.text, (Len(v.text) + 1) % U16) = v.text
    BY <1>1, TextIsKept
<1>3. NodeAt(buf, at) = [v EXCEPT !.text = AssignText(v.text, (Len(v.text) + 1) % U16)]
    BY DEF NodeAt
<1> QED
    BY <1>1, <1>2, <1>3

(* serialize.c: a node that pack has written after any bytes, and that any *)
(* bytes follow, is read back by unpack with all its fields, and the next  *)
(* one is looked for where it starts.  For every base, every value of a    *)
(* and b that fits into its type and every text that is, with its          *)
(* terminator, shorter than U16: the longest text of a node is lost.       *)
THEOREM NodeSurvives ==
    ASSUME NEW v \in Value, Len(v.text) + 1 < U16,
           NEW before \in Seq(Nat), NEW after \in Seq(Nat)
    PROVE  LET buf == before \o PackedNode(v) \o after
           IN /\ NodeAt(buf, Len(before)) = v
              /\ TextEnd(buf, Len(before)) = Len(before) + Len(PackedNode(v))
<1> DEFINE p == PackedNode(v)
           at == Len(before)
           m == Len(p)
           front == before \o p
           buf == front \o after
<1>0. Len(v.text) < U16
  <2>1. Len(v.text) \in Nat /\ U16 \in Nat
    BY NodeListAssumption DEF NodeListAssumption, U16, Value
  <2> QED
    BY <2>1
<1>1. p \in Seq(Nat) /\ m \in Nat /\ 8 <= m
  <2>1. NodeIs(p, v)
    BY <1>0, NodeBytes
  <2>2. Len(v.text) \in Nat
    BY DEF Value
  <2> QED
    BY <2>1, <2>2 DEF NodeIs
<1>2. at \in Nat /\ Len(before) = at /\ Len(after) \in Nat /\ Len(p) = m
    OBVIOUS
<1> HIDE DEF p, at, m
<1>3. Joins(front, before, at, p, m)
    BY <1>1, <1>2, Concat
<1> HIDE DEF front
<1>4. front \in Seq(Nat) /\ Len(front) = at + m
    BY <1>1, <1>2, <1>3 DEF Joins
<1>5. Joins(buf, front, at + m, after, Len(after))
    BY <1>1, <1>2, <1>4, Concat
<1> HIDE DEF buf
<1>6. buf \in Seq(Nat) /\ at + m <= Len(buf)
    BY <1>1, <1>2, <1>5 DEF Joins
<1>7. ASSUME NEW k \in 1..m PROVE buf[at + k] = p[k]
  <2>1. /\ k \in Int /\ 1 <= k /\ k <= m
        /\ at + k \in Int /\ 1 <= at + k /\ at + k <= at + m
    BY <1>1, <1>2
  <2>2. buf[at + k] = front[at + k]
    BY <1>5, <2>1 DEF Joins
  <2>3. front[at + k] = p[k]
    BY <1>3, <2>1 DEF Joins
  <2> QED
    BY <2>2, <2>3
<1>8. NodeAt(buf, at) = v
  <2>1. FieldsAt(buf, at) = v
    BY <1>0, <1>1, <1>2, <1>6, <1>7, NodeIsRead DEF p, m
  <2> QED
    BY <2>1, NodeIsKept
<1>9. \A k \in 1..8 : buf[at + k] = p[k]
    BY <1>1, <1>7
<1>10. TextEnd(buf, at) = at + m
    BY <1>0, <1>2, <1>9, HeaderIsRead DEF p, m
<1> QED
    BY <1>8, <1>10 DEF buf, front, at, m, p

-----------------------------------------------------------------------------
(* A list in the buffer.                                                   *)

(* Two loops that do the same in every turn end with the same.             *)
LEMMA SameLoop ==
    ASSUME NEW n \in Nat, NEW f, NEW g, f[0] = g[0],
           \A i \in 1..n : f[i - 1] = g[i - 1] => f[i] = g[i]
    PROVE  f[n] = g[n]
<1> DEFINE S == {i \in 0..n : f[i] = g[i]}
<1>1. 0 \in S
    OBVIOUS
<1>2. ASSUME NEW i \in 0..(n - 1), i \in S PROVE i + 1 \in S
  <2>1. i + 1 \in 1..n /\ i + 1 \in 0..n /\ (i + 1) - 1 = i /\ f[i] = g[i]
    BY <1>2
  <2> QED
    BY <2>1
<1> HIDE DEF S
<1>3. n \in S
    BY <1>1, <1>2, Induction
<1> QED
    BY <1>3 DEF S

(* The lists whose counts fit into two bytes, terminators included.        *)
Lists == {l \in Seq(Value) : /\ Len(l) < U16
                             /\ \A i \in 1..Len(l) : Len(l[i].text) + 1 < U16}

LEMMA NodeSize ==
    ASSUME NEW v \in Value
    PROVE  /\ PackedNode(v) \in Seq(Nat) /\ Len(v.text) \in Nat
           /\ Len(PackedNode(v)) = 8 + Len(v.text) /\ Len(PackedNode(v)) \in Nat
<1> DEFINE A == Packu16(v.a)
           B == Packu32(v.b)
           L == Packu16(Len(v.text) % U16)
           T == v.text
<1>1. U16 \in Nat /\ U16 > 0 /\ U32 \in Nat
    BY NodeListAssumption DEF NodeListAssumption, U16, U32
<1>2. v.a \in Nat /\ v.a < U16 /\ v.b \in Nat /\ v.b < U32 /\ T \in Seq(Nat) /\ Len(T) \in Nat
    BY <1>1 DEF Value
<1>3. Len(T) % U16 \in Nat /\ Len(T) % U16 < U16
    BY <1>1, <1>2, DivisionFacts
<1>4. A \in Seq(Nat) /\ Len(A) = 2
    BY <1>2, Pack16
<1>5. B \in Seq(Nat) /\ Len(B) = 4
    BY <1>2, Pack32
<1>6. L \in Seq(Nat) /\ Len(L) = 2
    BY <1>3, Pack16
<1>7. PackedNode(v) = ((A \o B) \o L) \o T
    BY DEF PackedNode
<1> HIDE DEF A, B, L, T
<1> DEFINE AB == A \o B
           ABL == AB \o L
<1>8. AB \in Seq(Nat) /\ Len(AB) = 6
  <2>1. Joins(AB, A, 2, B, 4)
    BY <1>4, <1>5, Concat
  <2> HIDE DEF AB
  <2> QED
    BY <2>1 DEF Joins
<1> HIDE DEF AB
<1>9. ABL \in Seq(Nat) /\ Len(ABL) = 8
  <2>1. Joins(ABL, AB, 6, L, 2)
    BY <1>6, <1>8, Concat
  <2> HIDE DEF ABL
  <2> QED
    BY <2>1 DEF Joins
<1> HIDE DEF ABL
<1>10. ABL \o T \in Seq(Nat) /\ Len(ABL \o T) = 8 + Len(T)
    BY <1>2, <1>9, ConcatLen
<1> QED
    BY <1>2, <1>7, <1>10 DEF T, ABL, AB

LEMMA NodesOf ==
    ASSUME NEW list \in Lists, NEW i \in 1..Len(list)
    PROVE  list[i] \in Value /\ Len(list[i].text) + 1 < U16 /\ Len(list[i].text) < U16
<1>1. list[i] \in Value /\ Len(list[i].text) + 1 < U16
    BY DEF Lists
<1>2. Len(list[i].text) \in Nat /\ U16 \in Nat
    BY <1>1, NodeListAssumption DEF NodeListAssumption, U16, Value
<1> QED
    BY <1>1, <1>2

(* The turns of pack's loop.                                               *)
Turns(list, upTo) ==
    /\ upTo \in [0..Len(list) -> Seq(Nat)]
    /\ upTo[0] = <<>>
    /\ \A i \in 1..Len(list) : upTo[i] = upTo[i - 1] \o PackedNode(list[i])

LEMMA PackedInTurns ==
    ASSUME NEW list \in Seq(Value)
    PROVE  \E upTo : Turns(list, upTo) /\ PackedNodes(list) = upTo[Len(list)]
<1> DEFINE n == Len(list)
           step == [q \in (1..n) \X Seq(Nat) |-> q[2] \o PackedNode(list[q[1]])]
           Eq(f) == f = [i \in 0..n |-> IF i = 0 THEN <<>> ELSE f[i - 1] \o PackedNode(list[i])]
           upTo == CHOOSE f : Eq(f)
<1>1. n \in Nat
    OBVIOUS
<1>2. ASSUME NEW i \in 1..n PROVE PackedNode(list[i]) \in Seq(Nat)
  <2>1. list[i] \in Value
    OBVIOUS
  <2> QED
    BY <2>1, NodeSize
<1>3. step \in [(1..n) \X Seq(Nat) -> Seq(Nat)]
  <2>1. ASSUME NEW i \in 1..n, NEW s \in Seq(Nat) PROVE s \o PackedNode(list[i]) \in Seq(Nat)
    BY <1>2
  <2> QED
    BY <2>1
<1>4. <<>> \in Seq(Nat)
    OBVIOUS
<1>5. PackedNodes(list) = upTo[n]
    BY DEF PackedNodes
<1> HIDE DEF n, upTo
<1>6. PICK f \in [0..n -> Seq(Nat)] : IsLoop(f, n, <<>>, step)
  <2> HIDE DEF step
  <2>1. step \in Steps(n, Seq(Nat))
    BY <1>3 DEF Steps
  <2> QED
    BY <1>1, <1>4, <2>1, LoopExists
<1>7. Eq(f)
  <2>1. ASSUME NEW i \in 0..n, i # 0
        PROVE  step[<<i, f[i - 1]>>] = f[i - 1] \o PackedNode(list[i])
    <3>1. i \in 1..n /\ f[i - 1] \in Seq(Nat)
        BY <1>1, <2>1
    <3> QED
        BY <3>1
  <2> HIDE DEF step
  <2> QED
    BY <1>6, <2>1 DEF IsLoop
<1>8. Eq(upTo)
    BY <1>7 DEF upTo
<1>9. upTo = f
  <2> SUFFICES ASSUME NEW m \in 0..n PROVE upTo[m] = f[m]
    BY <1>7, <1>8
  <2>1. upTo[0] = f[0]
    BY <1>1, <1>7, <1>8
  <2>2. ASSUME NEW i \in 1..m, upTo[i - 1] = f[i - 1] PROVE upTo[i] = f[i]
    <3>1. i \in 0..n /\ i # 0
        BY <1>1
    <3> QED
        BY <1>7, <1>8, <2>2, <3>1
  <2>3. m \in Nat
    BY <1>1
  <2> HIDE DEF Eq
  <2> QED
    BY <2>1, <2>2, <2>3, SameLoop
<1>10. Turns(list, upTo)
  <2>1. upTo \in [0..n -> Seq(Nat)]
    BY <1>9
  <2>2. upTo[0] = <<>>
    BY <1>1, <1>8
  <2>3. ASSUME NEW i \in 1..n PROVE upTo[i] = upTo[i - 1] \o PackedNode(list[i])
    <3>1. i \in 0..n /\ i # 0
        BY <1>1
    <3> QED
        BY <1>8, <3>1
  <2> QED
    BY <2>1, <2>2, <2>3 DEF Turns, n
<1> QED
    BY <1>5, <1>10 DEF n

(* What a turn has written stays where it is.                              *)
LEMMA TurnsKeep ==
    ASSUME NEW list \in Seq(Value), NEW upTo, Turns(list, upTo), NEW j \in 0..Len(list)
    PROVE  \A i \in 0..j : /\ Len(upTo[i]) <= Len(upTo[j])
                           /\ \A k \in 1..Len(upTo[i]) : upTo[j][k] = upTo[i][k]
<1> DEFINE n == Len(list)
           Kept(l) == \A i \in 0..l : /\ Len(upTo[i]) <= Len(upTo[l])
                                      /\ \A k \in 1..Len(upTo[i]) : upTo[l][k] = upTo[i][k]
           S == {l \in 0..n : Kept(l)}
<1>1. n \in Nat /\ upTo \in [0..n -> Seq(Nat)]
    BY DEF Turns
<1>2. 0 \in S
    BY <1>1
<1>3. ASSUME NEW l \in 0..(n - 1), l \in S PROVE l + 1 \in S
  <2> DEFINE p == PackedNode(list[l + 1])
  <2>1. l + 1 \in 1..n /\ l + 1 \in 0..n /\ l \in 0..n /\ (l + 1) - 1 = l
    BY <1>1
  <2>2. p \in Seq(Nat)
    <3>1. list[l + 1] \in Value
        BY <2>1
    <3> QED
        BY <3>1, NodeSize
  <2>3. upTo[l + 1] = upTo[l] \o p /\ upTo[l] \in Seq(Nat)
    <3>1. \A i \in 1..n : upTo[i] = upTo[i - 1] \o PackedNode(list[i])
        BY DEF Turns
    <3>2. upTo[l + 1] = upTo[(l + 1) - 1] \o p
        BY <2>1, <3>1
    <3> QED
        BY <1>1, <2>1, <3>2
  <2>4. Kept(l)
    BY <1>3
  <2> HIDE DEF p, n
  <2>5. ASSUME NEW i \in 0..(l + 1)
        PROVE  /\ Len(upTo[i]) <= Len(upTo[l + 1])
               /\ \A k \in 1..Len(upTo[i]) : upTo[l + 1][k] = upTo[i][k]
    <3>1. CASE i = l + 1
      <4>1. upTo[l + 1] \in Seq(Nat)
        BY <1>1, <2>1
      <4>2. Len(upTo[l + 1]) \in Nat
        BY <4>1
      <4> QED
        BY <3>1, <4>2
    <3>2. CASE i # l + 1
      <4>1. i \in 0..l
        BY <2>1, <3>2
      <4>2. /\ Len(upTo[i]) <= Len(upTo[l])
            /\ \A k \in 1..Len(upTo[i]) : upTo[l][k] = upTo[i][k]
        BY <2>4, <4>1
      <4>3. upTo[i] \in Seq(Nat)
        BY <1>1, <2>1, <4>1
      <4>4. Len(upTo[l + 1]) = Len(upTo[l]) + Len(p) /\ Len(p) \in Nat
            /\ Len(upTo[i]) \in Nat /\ Len(upTo[l]) \in Nat
        BY <2>2, <2>3, <4>3
      <4>5. ASSUME NEW k \in 1..Len(upTo[l]) PROVE upTo[l + 1][k] = upTo[l][k]
        BY <2>2, <2>3
      <4>6. 1..Len(upTo[i]) \subseteq 1..Len(upTo[l])
        BY <4>2, <4>4
      <4>7. ASSUME NEW k \in 1..Len(upTo[i]) PROVE upTo[l + 1][k] = upTo[i][k]
        BY <4>2, <4>5, <4>6
      <4> QED
        BY <4>2, <4>4, <4>7
    <3> QED
        BY <3>1, <3>2
  <2> QED
    BY <2>1, <2>5
<1>4. j \in S
  <2> HIDE DEF S
  <2>1. j \in 0..n
    OBVIOUS
  <2> HIDE DEF n
  <2> QED
    BY <1>1, <1>2, <1>3, <2>1, Induction
<1> QED
    BY <1>4

(* The list lies in the buffer, its node i from place[i - 1] on.           *)
Layout(list, buf, place) ==
    /\ buf \in Seq(Nat) /\ 2 <= Len(buf)
    /\ Unpacku16(buf, 0) = Len(list)
    /\ place \in [0..Len(list) -> Nat]
    /\ place[0] = 2 /\ place[Len(list)] = Len(buf)
    /\ \A i \in 1..Len(list) :
          /\ place[i] = place[i - 1] + Len(PackedNode(list[i]))
          /\ place[i] <= Len(buf)
          /\ \A k \in 1..Len(PackedNode(list[i])) :
                buf[place[i - 1] + k] = PackedNode(list[i])[k]

LEMMA PackLaysOut ==
    ASSUME NEW list \in Lists
    PROVE  \E place : Layout(list, Pack(list).buf, place)
<1> DEFINE n == Len(list)
           count == Packu16(n % U16)
           nodes == PackedNodes(list)
           buf == count \o nodes
<1>1. n \in Nat /\ n < U16 /\ U16 \in Nat
    BY NodeListAssumption DEF NodeListAssumption, U16, Lists
<1>2. n % U16 = n
    BY <1>1, SmallMod
<1>3. count \in Seq(Nat) /\ Len(count) = 2 /\ count[1] * Base + count[2] = n
    BY <1>1, <1>2, Pack16
<1>0. list \in Seq(Value)
    BY DEF Lists
<1>4. PICK upTo : Turns(list, upTo) /\ nodes = upTo[n]
    BY <1>0, PackedInTurns
<1>5. upTo \in [0..n -> Seq(Nat)] /\ upTo[0] = <<>>
    BY <1>4 DEF Turns
<1>6. Pack(list).buf = buf
    BY DEF Pack
<1>20. \A i \in 1..n : upTo[i] = upTo[i - 1] \o PackedNode(list[i])
    BY <1>4 DEF Turns
<1>21. n \in 0..n
    BY <1>1
<1>22. \A i \in 0..n : /\ Len(upTo[i]) <= Len(upTo[n])
                       /\ \A k \in 1..Len(upTo[i]) : upTo[n][k] = upTo[i][k]
    BY <1>0, <1>4, <1>21, TurnsKeep
<1>23. \A i \in 1..n : /\ PackedNode(list[i]) \in Seq(Nat)
                       /\ Len(PackedNode(list[i])) \in Nat
    BY NodesOf, NodeSize
<1> HIDE DEF n, count, nodes
<1>7. nodes \in Seq(Nat) /\ Len(nodes) \in Nat
    BY <1>4, <1>5, <1>21
<1>8. /\ buf \in Seq(Nat) /\ Len(buf) = 2 + Len(nodes)
      /\ buf[1] = count[1] /\ buf[2] = count[2]
      /\ \A k \in 1..Len(nodes) : buf[2 + k] = nodes[k]
  <2>1. Joins(buf, count, 2, nodes, Len(nodes))
    BY <1>3, <1>7, Concat
  <2> HIDE DEF buf
  <2> QED
    BY <1>7, <2>1 DEF Joins
<1> HIDE DEF buf
<1>9. Unpacku16(buf, 0) = n
    BY <1>3, <1>8 DEF Unpacku16
<1> DEFINE place == [i \in 0..n |-> 2 + Len(upTo[i])]
<1>10. ASSUME NEW i \in 0..n PROVE upTo[i] \in Seq(Nat) /\ Len(upTo[i]) \in Nat
    BY <1>5
<1>11. place \in [0..n -> Nat] /\ place[0] = 2 /\ place[n] = Len(buf)
  <2>1. Len(upTo[0]) = 0 /\ 0 \in 0..n
    BY <1>1, <1>5
  <2>2. place[0] = 2 /\ place[n] = Len(buf)
    BY <1>4, <1>8, <1>21, <2>1
  <2>3. place \in [0..n -> Nat]
    BY <1>10
  <2> QED
    BY <2>2, <2>3
<1>12. ASSUME NEW i \in 1..n
       PROVE  /\ place[i] = place[i - 1] + Len(PackedNode(list[i]))
              /\ place[i] <= Len(buf)
              /\ \A k \in 1..Len(PackedNode(list[i])) :
                    buf[place[i - 1] + k] = PackedNode(list[i])[k]
  <2> DEFINE p == PackedNode(list[i])
             before == upTo[i - 1]
  <2>1. i \in 0..n /\ i - 1 \in 0..n
    BY <1>1
  <2>2. p \in Seq(Nat) /\ Len(p) \in Nat /\ before \in Seq(Nat) /\ Len(before) \in Nat
    BY <1>10, <1>23, <2>1
  <2>3. upTo[i] = before \o p
    BY <1>20
  <2> HIDE DEF p, before
  <2>4. Len(upTo[i]) = Len(before) + Len(p)
    BY <2>2, <2>3
  <2>5. Len(upTo[i]) <= Len(nodes)
    BY <1>4, <1>22, <2>1
  <2>6. place[i] = 2 + Len(upTo[i]) /\ place[i - 1] = 2 + Len(before)
    BY <2>1 DEF before
  <2> HIDE DEF place
  <2>7. ASSUME NEW k \in 1..Len(p) PROVE buf[place[i - 1] + k] = p[k]
    <3>1. Len(before) + k \in 1..Len(upTo[i])
        BY <2>2, <2>4
    <3>2. upTo[i][Len(before) + k] = p[k]
        BY <2>2, <2>3
    <3>3. nodes[Len(before) + k] = upTo[i][Len(before) + k]
        BY <1>4, <1>22, <2>1, <3>1
    <3>4. Len(before) + k \in 1..Len(nodes)
        BY <1>7, <2>4, <2>5, <3>1
    <3>5. buf[2 + (Len(before) + k)] = nodes[Len(before) + k]
        BY <1>8, <3>4
    <3>6. place[i - 1] + k = 2 + (Len(before) + k)
        BY <2>2, <2>6
    <3> QED
        BY <3>2, <3>3, <3>5, <3>6
  <2>8. place[i] = place[i - 1] + Len(p) /\ place[i] <= Len(buf)
    BY <1>7, <1>8, <2>2, <2>4, <2>5, <2>6
  <2> QED
    BY <2>7, <2>8 DEF p
<1>13. 2 <= Len(buf)
    BY <1>7, <1>8
<1> HIDE DEF place
<1>14. Layout(list, buf, place)
    BY <1>8, <1>9, <1>11, <1>12, <1>13 DEF Layout, n
<1> QED
    BY <1>6, <1>14

(* The first bytes of the buffer.                                          *)
Beginning(data, buf) ==
    /\ data \in Seq(Nat) /\ Len(data) <= Len(buf)
    /\ \A k \in 1..Len(data) : data[k] = buf[k]

(* They say where a node ends once its header is there, and have the node  *)
(* once all of it is.                                                      *)
LEMMA BeginningRead ==
    ASSUME NEW list \in Lists, NEW buf, NEW place, Layout(list, buf, place),
           NEW data, Beginning(data, buf), NEW i \in 1..Len(list)
    PROVE  /\ place[i - 1] \in Nat /\ place[i] \in Nat
           /\ place[i - 1] + 8 <= place[i]
           /\ place[i - 1] + 8 <= Len(data) => TextEnd(data, place[i - 1]) = place[i]
           /\ place[i] <= Len(data) => FieldsAt(data, place[i - 1]) = list[i]
<1> DEFINE v == list[i]
           p == PackedNode(v)
           at == place[i - 1]
           m == Len(p)
<1>1. v \in Value /\ Len(v.text) < U16
    BY NodesOf
<1>2. p \in Seq(Nat) /\ Len(v.text) \in Nat /\ m = 8 + Len(v.text) /\ m \in Nat
    BY <1>1, NodeSize
<1>3. Len(list) \in Nat
    BY DEF Lists
<1>4. at \in Nat /\ place[i] \in Nat /\ place[i] = at + m
      /\ \A k \in 1..m : buf[at + k] = p[k]
  <2>1. i \in 0..Len(list) /\ i - 1 \in 0..Len(list)
    BY <1>3
  <2>2. place \in [0..Len(list) -> Nat]
    BY DEF Layout
  <2>3. place[i] = at + m /\ \A k \in 1..m : buf[at + k] = p[k]
    BY DEF Layout
  <2> QED
    BY <2>1, <2>2, <2>3
<1>5. data \in Seq(Nat) /\ Len(data) \in Nat /\ \A k \in 1..Len(data) : data[k] = buf[k]
    BY DEF Beginning
<1> HIDE DEF v, p, at, m
<1>6. at + 8 <= place[i]
    BY <1>2, <1>4
<1>7. ASSUME at + 8 <= Len(data) PROVE TextEnd(data, at) = place[i]
  <2>1. ASSUME NEW k \in 1..8 PROVE data[at + k] = p[k]
    <3>0. at \in Nat /\ m = 8 + Len(v.text) /\ Len(v.text) \in Nat /\ Len(data) \in Nat
        BY <1>2, <1>4, <1>5
    <3>1. at + k \in 1..Len(data) /\ k \in 1..m
        BY <1>7, <3>0
    <3> QED
        BY <1>4, <1>5, <3>1
  <2>2. TextEnd(data, at) = at + Len(PackedNode(v))
    BY <1>1, <1>4, <2>1, HeaderIsRead DEF p
  <2> QED
    BY <1>4, <2>2 DEF m, p
<1>8. ASSUME place[i] <= Len(data) PROVE FieldsAt(data, at) = v
  <2>1. ASSUME NEW k \in 1..m PROVE data[at + k] = p[k]
    <3>1. at + k \in 1..Len(data)
        BY <1>2, <1>4, <1>5, <1>8
    <3> QED
        BY <1>4, <1>5, <3>1
  <2>2. at + m <= Len(data)
    BY <1>4, <1>8
  <2> QED
    BY <1>1, <1>4, <1>5, <2>1, <2>2, NodeIsRead DEF p, m
<1> QED
    BY <1>4, <1>6, <1>7, <1>8 DEF at, v

LEMMA AppendNext ==
    ASSUME NEW X, NEW s \in Seq(X), NEW i \in 1..Len(s)
    PROVE  SubSeq(s, 1, i) = Append(SubSeq(s, 1, i - 1), s[i])
<1> DEFINE a == SubSeq(s, 1, i)
           b == SubSeq(s, 1, i - 1)
           c == Append(b, s[i])
<1>1. i \in Nat /\ i - 1 \in Nat /\ Len(s) \in Nat /\ i <= Len(s) /\ s[i] \in X
    OBVIOUS
<1>2. a \in Seq(X) /\ Len(a) = i /\ \A k \in 1..i : a[k] = s[k]
    BY <1>1
<1>3. b \in Seq(X) /\ Len(b) = i - 1 /\ \A k \in 1..(i - 1) : b[k] = s[k]
    BY <1>1
<1> HIDE DEF b
<1>4. c \in Seq(X) /\ Len(c) = i
    BY <1>1, <1>3
<1>5. ASSUME NEW k \in 1..i PROVE c[k] = s[k]
    BY <1>1, <1>3
<1> HIDE DEF a, c
<1>6. a = c
    BY <1>2, <1>4, <1>5, SeqEqual
<1> QED
    BY <1>6 DEF a, b, c

LEMMA UnpackOfLayout ==
    ASSUME NEW list \in Lists, NEW buf, NEW place, Layout(list, buf, place)
    PROVE  Unpack(buf) = list
<1> DEFINE n == Len(list)
           e == [list |-> <<>>, at |-> 2]
           Eq(f) == f = [i \in 0..n |-> IF i = 0 THEN e ELSE NodeRead(buf, f[i - 1])]
           upTo == CHOOSE f : Eq(f)
           g == [i \in 0..n |-> [list |-> SubSeq(list, 1, i), at |-> place[i]]]
<1>1. n \in Nat /\ list \in Seq(Value)
    BY DEF Lists
<1>2. Unpacku16(buf, 0) = n /\ place[0] = 2
    BY DEF Layout
<1>3. Unpack(buf) = upTo[n].list
    BY <1>2 DEF Unpack
<1> HIDE DEF n, upTo
<1>4. Beginning(buf, buf) /\ Len(buf) \in Nat
      /\ \A i \in 1..n : place[i] <= Len(buf)
    BY DEF Layout, Beginning, n
<1>5. ASSUME NEW i \in 1..n PROVE NodeRead(buf, g[i - 1]) = g[i]
  <2>1. i - 1 \in 0..n /\ i \in 0..n
    BY <1>1
  <2>2. NodeAt(buf, place[i - 1]) = list[i] /\ TextEnd(buf, place[i - 1]) = place[i]
    <3>1. /\ place[i - 1] \in Nat /\ place[i] \in Nat
          /\ place[i - 1] + 8 <= place[i]
          /\ place[i - 1] + 8 <= Len(buf) => TextEnd(buf, place[i - 1]) = place[i]
          /\ place[i] <= Len(buf) => FieldsAt(buf, place[i - 1]) = list[i]
        BY <1>4, BeginningRead DEF n
    <3>2. FieldsAt(buf, place[i - 1]) = list[i]
        BY <1>4, <3>1
    <3>3. NodeAt(buf, place[i - 1]) = list[i]
        BY <3>2, NodesOf, NodeIsKept DEF n
    <3> QED
        BY <1>4, <3>1, <3>3
  <2>3. SubSeq(list, 1, i) = Append(SubSeq(list, 1, i - 1), list[i])
    BY <1>1, AppendNext DEF n
  <2>4. /\ g[i] = [list |-> SubSeq(list, 1, i), at |-> place[i]]
        /\ g[i - 1] = [list |-> SubSeq(list, 1, i - 1), at |-> place[i - 1]]
    BY <2>1
  <2> HIDE DEF g
  <2>5. g[i - 1].list = SubSeq(list, 1, i - 1) /\ g[i - 1].at = place[i - 1]
    BY <2>4
  <2>6. NodeRead(buf, g[i - 1]) = [list |-> Append(SubSeq(list, 1, i - 1), list[i]),
                                   at |-> place[i]]
    BY <2>2, <2>5 DEF NodeRead
  <2> QED
    BY <2>3, <2>4, <2>6
<1>6. Eq(g)
  <2>1. g[0] = e
    BY <1>1, <1>2
  <2>2. ASSUME NEW i \in 0..n, i # 0 PROVE g[i] = NodeRead(buf, g[i - 1])
    <3>1. i \in 1..n
        BY <1>1, <2>2
    <3> QED
        BY <1>5, <3>1
  <2>3. g = [i \in 0..n |-> g[i]]
    OBVIOUS
  <2> HIDE DEF g, e
  <2> QED
    BY <2>1, <2>2, <2>3
<1>7. Eq(upTo)
    BY <1>6 DEF upTo
<1> HIDE DEF g
<1>8. upTo[n] = g[n]
  <2>1. upTo[0] = g[0]
    BY <1>1, <1>6, <1>7
  <2>2. ASSUME NEW i \in 1..n, upTo[i - 1] = g[i - 1] PROVE upTo[i] = g[i]
    <3>1. i \in 0..n /\ i # 0
        BY <1>1
    <3> QED
        BY <1>6, <1>7, <2>2, <3>1
  <2> HIDE DEF Eq
  <2> QED
    BY <1>1, <2>1, <2>2, SameLoop
<1>9. g[n].list = SubSeq(list, 1, n)
    BY <1>1 DEF g
<1>10. SubSeq(list, 1, n) = list
    BY <1>1, WholeIsPrefix DEF n
<1> QED
    BY <1>3, <1>8, <1>9, <1>10

(* serialize.c: unpack gives back the list that pack was given, for every  *)
(* base, every list whose length and texts, with their terminators, fit    *)
(* into two bytes, and all fields within their widths.                     *)
THEOREM ListSurvives ==
    ASSUME NEW list \in Lists
    PROVE  Unpack(Pack(list).buf) = list
<1>1. PICK place : Layout(list, Pack(list).buf, place)
    BY PackLaysOut
<1> QED
    BY <1>1, UnpackOfLayout

(* Every text of the list is UTF-8.                                        *)
Decodes(list) == \A i \in 1..Len(list) : list[i].text \notin Garbled

LEMMA UnpackBeginning ==
    ASSUME NEW list \in Lists, NEW buf, NEW place, Layout(list, buf, place),
           NEW data, Beginning(data, buf)
    PROVE  UnpackData(data) = IF Len(data) = Len(buf) /\ Decodes(list)
                              THEN [ok |-> TRUE, list |-> list, at |-> Len(buf)]
                              ELSE Error
<1> DEFINE n == Len(list)
           d == Len(data)
           e == [ok |-> TRUE, list |-> <<>>, at |-> 2]
           Eq(f) == f = [i \in 0..n |-> IF i = 0 THEN e ELSE NextNode(data, f[i - 1])]
           upTo == CHOOSE f : Eq(f)
           Read(i) == [ok |-> TRUE, list |-> SubSeq(list, 1, i), at |-> place[i]]
           Good(i) == place[i] <= d /\ \A j \in 1..i : list[j].text \notin Garbled
           g == [i \in 0..n |-> IF Good(i) THEN Read(i) ELSE Error]
<1>1. n \in Nat /\ list \in Seq(Value)
    BY DEF Lists
<1>2. /\ Unpacku16(buf, 0) = n /\ place[0] = 2 /\ 2 <= Len(buf) /\ Len(buf) \in Nat
      /\ place[n] = Len(buf)
    BY DEF Layout
<1>3. d \in Nat /\ d <= Len(buf) /\ \A k \in 1..d : data[k] = buf[k]
    BY DEF Beginning
<1>4. ASSUME d < 2 PROVE UnpackData(data) = Error /\ d # Len(buf)
    BY <1>2, <1>3, <1>4 DEF UnpackData
<1>5. ASSUME 2 <= d
      PROVE  UnpackData(data) = IF d = Len(buf) /\ Decodes(list)
                                THEN [ok |-> TRUE, list |-> list, at |-> Len(buf)]
                                ELSE Error
  <2>1. Unpacku16(data, 0) = n
    <3>1. 1 \in 1..d /\ 2 \in 1..d
        BY <1>3, <1>5
    <3>2. data[1] = buf[1] /\ data[2] = buf[2]
        BY <1>3, <3>1
    <3> QED
        BY <1>2, <3>2 DEF Unpacku16
  <2>2. ~(Len(data) < 2)
    BY <1>3, <1>5
  <2>3. UnpackData(data) = upTo[n]
    BY <2>1, <2>2 DEF UnpackData
  <2>4. ASSUME NEW i \in 1..n
        PROVE  /\ place[i - 1] \in Nat /\ place[i] \in Nat
               /\ place[i - 1] + 8 <= place[i]
               /\ place[i - 1] + 8 <= d => TextEnd(data, place[i - 1]) = place[i]
               /\ place[i] <= d => FieldsAt(data, place[i - 1]) = list[i]
    BY BeginningRead
  <2> HIDE DEF n, upTo, d
  <2>5. ASSUME NEW i \in 1..n PROVE NextNode(data, g[i - 1]) = g[i]
    <3>1. i - 1 \in 0..n /\ i \in 0..n
        BY <1>1
    <3>2. g[i] = (IF Good(i) THEN Read(i) ELSE Error)
          /\ g[i - 1] = (IF Good(i - 1) THEN Read(i - 1) ELSE Error)
        BY <3>1
    <3>3. SubSeq(list, 1, i) = Append(SubSeq(list, 1, i - 1), list[i])
        BY <1>1, AppendNext DEF n
    <3>4. place[i - 1] \in Nat /\ place[i] \in Nat /\ place[i - 1] + 8 <= place[i]
        BY <2>4
    <3> HIDE DEF g
    <3>5. CASE ~Good(i - 1)
      <4>1. ~Good(i)
        <5>1. 1..(i - 1) \subseteq 1..i
            BY <1>1
        <5>2. place[i] <= d => place[i - 1] <= d
            BY <1>3, <3>4
        <5> QED
            BY <3>5, <5>1, <5>2
      <4>2. g[i - 1] = Error /\ g[i] = Error
        BY <3>2, <3>5, <4>1
      <4> QED
        BY <4>2 DEF NextNode, Error
    <3>6. CASE Good(i - 1)
      <4> DEFINE acc == g[i - 1]
      <4>1. acc.ok = TRUE /\ acc.at = place[i - 1] /\ acc.list = SubSeq(list, 1, i - 1)
        BY <3>2, <3>6
      <4> HIDE DEF acc
      <4>2. CASE place[i - 1] + 8 > d
        <5>1. g[i] = Error
            BY <1>3, <3>2, <3>4, <4>2
        <5>2. acc.at + 8 > Len(data)
            BY <4>1, <4>2 DEF d
        <5>3. NextNode(data, acc) = Error
            BY <5>2 DEF NextNode
        <5> QED
            BY <5>1, <5>3 DEF acc
      <4>3. CASE ~(place[i - 1] + 8 > d)
        <5>1. place[i - 1] + 8 <= d
            BY <1>3, <3>4, <4>3
        <5>2. TextEnd(data, acc.at) = place[i]
            BY <2>4, <4>1, <5>1
        <5>3. acc.ok /\ ~(acc.at + 8 > Len(data))
            BY <4>1, <4>3 DEF d
        <5>4. CASE place[i] <= d
          <6>1. FieldsAt(data, acc.at) = list[i]
            BY <2>4, <4>1, <5>4
          <6>2. ~(TextEnd(data, acc.at) > Len(data))
            BY <1>3, <3>4, <5>2, <5>4 DEF d
          <6>3. CASE list[i].text \in Garbled
            <7>1. NextNode(data, acc) = Error
                BY <5>3, <6>1, <6>2, <6>3 DEF NextNode
            <7>2. ~Good(i)
                BY <6>3
            <7> QED
                BY <3>2, <7>1, <7>2 DEF acc
          <6>4. CASE list[i].text \notin Garbled
            <7>1. NextNode(data, acc) = [ok |-> TRUE, at |-> place[i],
                                         list |-> Append(SubSeq(list, 1, i - 1), list[i])]
                BY <4>1, <5>2, <5>3, <6>1, <6>2, <6>4 DEF NextNode
            <7>2. Good(i)
              <8>1. \A j \in 1..i : j = i \/ j \in 1..(i - 1)
                BY <1>1
              <8> QED
                BY <3>6, <5>4, <6>4, <8>1
            <7>3. g[i] = Read(i)
                BY <3>2, <7>2
            <7> QED
                BY <3>3, <7>1, <7>3 DEF acc
          <6> QED
            BY <6>3, <6>4
        <5>5. CASE ~(place[i] <= d)
          <6>1. TextEnd(data, acc.at) > Len(data)
            BY <1>3, <3>4, <5>2, <5>5 DEF d
          <6>2. NextNode(data, acc) = Error
            BY <5>3, <6>1 DEF NextNode
          <6>3. g[i] = Error
            BY <3>2, <5>5
          <6> QED
            BY <6>2, <6>3 DEF acc
        <5> QED
            BY <5>4, <5>5
      <4> QED
        BY <4>2, <4>3
    <3> QED
        BY <3>5, <3>6
  <2>6. g[0] = e
    <3>1. 0 \in 0..n /\ place[0] <= d
        BY <1>1, <1>2, <1>5
    <3>2. SubSeq(list, 1, 0) = <<>>
        BY <1>1
    <3>3. Good(0)
        BY <3>1
    <3>4. Read(0) = e
        BY <1>2, <3>2
    <3> HIDE DEF Good, Read, e
    <3> QED
        BY <3>1, <3>3, <3>4
  <2>7. Eq(g)
    <3>1. ASSUME NEW i \in 0..n, i # 0 PROVE g[i] = NextNode(data, g[i - 1])
      <4>1. i \in 1..n
        BY <1>1, <3>1
      <4> HIDE DEF g
      <4> QED
        BY <2>5, <4>1
    <3>2. g = [i \in 0..n |-> g[i]]
        OBVIOUS
    <3> HIDE DEF g, e
    <3> QED
        BY <2>6, <3>1, <3>2
  <2>8. Eq(upTo)
    BY <2>7 DEF upTo
  <2>9. g[n] = IF Good(n) THEN Read(n) ELSE Error
    <3>1. n \in 0..n
        BY <1>1
    <3> HIDE DEF Good, Read
    <3> QED
        BY <3>1
  <2> HIDE DEF g
  <2>10. upTo[n] = g[n]
    <3>1. upTo[0] = g[0]
        BY <1>1, <2>7, <2>8
    <3>2. ASSUME NEW i \in 1..n, upTo[i - 1] = g[i - 1] PROVE upTo[i] = g[i]
      <4>1. i \in 0..n /\ i # 0
        BY <1>1
      <4> QED
        BY <2>7, <2>8, <3>2, <4>1
    <3> HIDE DEF Eq
    <3> QED
        BY <1>1, <3>1, <3>2, SameLoop
  <2>11. SubSeq(list, 1, n) = list
    BY <1>1, WholeIsPrefix DEF n
  <2>12. Good(n) <=> d = Len(buf) /\ Decodes(list)
    BY <1>2, <1>3 DEF Decodes, n
  <2> QED
    BY <1>2, <2>3, <2>9, <2>10, <2>11, <2>12
<1>6. d < 2 \/ 2 <= d
    BY <1>3
<1> HIDE DEF d
<1> QED
    BY <1>4, <1>5, <1>6 DEF d

(* server.py: whatever number of bytes of a packed list there are, the     *)
(* reader raises, unless they are all there and all texts are UTF-8, and   *)
(* then it has the list.                                                   *)
THEOREM AllOrNothing ==
    ASSUME NEW list \in Lists, NEW m \in 0..Len(Pack(list).buf)
    PROVE  LET buf == Pack(list).buf
               read == UnpackData(SubSeq(buf, 1, m))
           IN /\ read.ok <=> m = Len(buf) /\ Decodes(list)
              /\ read.ok => read.list = list
<1> DEFINE buf == Pack(list).buf
           data == SubSeq(buf, 1, m)
<1>1. PICK place : Layout(list, buf, place)
    BY PackLaysOut
<1>2. buf \in Seq(Nat) /\ Len(buf) \in Nat
    BY <1>1 DEF Layout
<1>3. m \in 0..Len(buf)
    OBVIOUS
<1> HIDE DEF buf
<1>4. data \in Seq(Nat) /\ Len(data) = m /\ \A k \in 1..m : data[k] = buf[k]
    BY <1>2, <1>3
<1> HIDE DEF data
<1>5. Beginning(data, buf)
    BY <1>2, <1>3, <1>4 DEF Beginning
<1>6. UnpackData(data) = IF m = Len(buf) /\ Decodes(list)
                         THEN [ok |-> TRUE, list |-> list, at |-> Len(buf)]
                         ELSE Error
    BY <1>1, <1>4, <1>5, UnpackBeginning
<1> QED
    BY <1>6 DEF Error, data, buf

-----------------------------------------------------------------------------
(* A list on the heap.                                                     *)

(* Node i leads to i + 1; k and n, the last one, lead nowhere.             *)
Links(n, k) == [i \in 1..n |-> IF i = k \/ i = n THEN NULL ELSE i + 1]

LEMMA ChainOf ==
    ASSUME NEW n \in Nat, NEW k \in 1..n, NEW p \in 1..k,
           NEW h, h.next = Links(n, k)
    PROVE  Chain(h, p) = [i \in 1..(k - p + 1) |-> p + i - 1]
<1> DEFINE End(q) == IF q <= k THEN k ELSE n
           Run(q) == [i \in 1..(End(q) - q + 1) |-> q + i - 1]
           Eq(f) == f = [q \in 0..n |-> IF q = NULL THEN <<>> ELSE <<q>> \o f[h.next[q]]]
           from == CHOOSE f : Eq(f)
           g == [q \in 0..n |-> IF q = NULL THEN <<>> ELSE Run(q)]
<1>1. Len(h.next) = n
    BY DEF Links
<1>2. Chain(h, p) = from[p]
    BY <1>1 DEF Chain
<1> HIDE DEF from
<1>3. ASSUME NEW q \in 1..n
      PROVE  \/ h.next[q] = 0 /\ End(q) = q
             \/ h.next[q] = q + 1 /\ q + 1 \in 1..n /\ End(q + 1) = End(q) /\ q < End(q)
    BY DEF Links, NULL
<1>4. ASSUME NEW q \in 1..n PROVE g[q] = <<q>> \o g[h.next[q]]
  <2>1. g[q] = Run(q) /\ g[0] = <<>>
    BY DEF NULL
  <2>2. CASE h.next[q] = 0 /\ End(q) = q
    <3>1. Run(q) = <<q>>
      <4>1. q - q + 1 = 1 /\ q + 1 - 1 = q
        OBVIOUS
      <4>2. Run(q) = [i \in 1..1 |-> q + i - 1]
        BY <2>2, <4>1
      <4> QED
        BY <4>1, <4>2
    <3>2. <<q>> \o <<>> = <<q>>
        OBVIOUS
    <3> HIDE DEF g
    <3> QED
        BY <2>1, <2>2, <3>1, <3>2
  <2>3. CASE h.next[q] = q + 1 /\ q + 1 \in 1..n /\ End(q + 1) = End(q) /\ q < End(q)
    <3> DEFINE m == End(q)
               t == [i \in 1..(m - q) |-> q + i]
               r == [i \in 1..(m - q + 1) |-> q + i - 1]
    <3>1. m \in Nat /\ q \in Nat /\ q < m
        BY <2>3
    <3>2. g[q + 1] = Run(q + 1)
        BY <2>3 DEF NULL
    <3>3. Run(q + 1) = [i \in 1..(m - (q + 1) + 1) |-> (q + 1) + i - 1]
        BY <2>3
    <3>4. Run(q) = r
        OBVIOUS
    <3> HIDE DEF m, g
    <3>5. [i \in 1..(m - (q + 1) + 1) |-> (q + 1) + i - 1] = t
      <4>1. m - (q + 1) + 1 = m - q
        BY <3>1
      <4>2. \A i \in 1..(m - q) : (q + 1) + i - 1 = q + i
        BY <3>1
      <4> QED
        BY <4>1, <4>2
    <3>6. t \in Seq(Nat) /\ Len(t) = m - q /\ \A i \in 1..(m - q) : t[i] = q + i
        BY <3>1
    <3>7. r \in Seq(Nat) /\ Len(r) = m - q + 1
          /\ \A i \in 1..(m - q + 1) : r[i] = q + i - 1
        BY <3>1
    <3> DEFINE c == <<q>> \o t
    <3> HIDE DEF t, r
    <3>8. Joins(c, <<q>>, 1, t, m - q)
      <4>1. <<q>> \in Seq(Nat) /\ Len(<<q>>) = 1 /\ m - q \in Nat
        BY <3>1
      <4> QED
        BY <3>6, <4>1, Concat
    <3> HIDE DEF c
    <3>9. c = r
      <4>1. c \in Seq(Nat) /\ Len(c) = m - q + 1
        BY <3>1, <3>8 DEF Joins
      <4>2. ASSUME NEW i \in 1..(m - q + 1) PROVE c[i] = r[i]
        <5>1. CASE i = 1
          <6>1. c[1] = q
            BY <3>8 DEF Joins
          <6>2. 1 \in 1..(m - q + 1) /\ q + 1 - 1 = q
            BY <3>1
          <6> QED
            BY <3>7, <5>1, <6>1, <6>2
        <5>2. CASE i # 1
          <6>1. /\ i - 1 \in 1..(m - q) /\ i - 1 \in Int /\ 1 <= i - 1 /\ i - 1 <= m - q
                /\ 1 + (i - 1) = i /\ q + (i - 1) = q + i - 1
            BY <3>1, <5>2
          <6>2. c[1 + (i - 1)] = t[i - 1]
            BY <3>8, <6>1 DEF Joins
          <6> QED
            BY <3>6, <3>7, <6>1, <6>2
        <5> QED
            BY <5>1, <5>2
      <4> QED
        BY <3>7, <4>1, <4>2, SeqEqual
    <3> QED
        BY <2>1, <2>3, <3>2, <3>3, <3>4, <3>5, <3>9 DEF c
  <2> QED
    BY <1>3, <2>2, <2>3
<1>5. Eq(g)
  <2>1. ASSUME NEW q \in 0..n PROVE g[q] = IF q = NULL THEN <<>> ELSE <<q>> \o g[h.next[q]]
    <3>1. g[0] = <<>>
        BY DEF NULL
    <3>2. q = 0 \/ q \in 1..n
        OBVIOUS
    <3> HIDE DEF g
    <3> QED
        BY <1>4, <3>1, <3>2 DEF NULL
  <2>2. g = [q \in 0..n |-> g[q]]
    OBVIOUS
  <2> HIDE DEF g
  <2> QED
    BY <2>1, <2>2
<1>6. Eq(from)
    BY <1>1, <1>5 DEF from
<1>7. from[p] = g[p]
  <2> HIDE DEF g
  <2>1. from[0] = g[0]
    BY <1>5, <1>6 DEF NULL
  <2>2. ASSUME NEW q \in 1..n
        PROVE  from[q] = <<q>> \o from[h.next[q]] /\ g[q] = <<q>> \o g[h.next[q]]
    <3>1. q \in 0..n /\ q # NULL
        BY DEF NULL
    <3>2. from[q] = <<q>> \o from[h.next[q]]
        BY <1>6, <3>1
    <3> QED
        BY <1>4, <3>2
  <2> DEFINE S == {j \in 0..(n - 1) : from[n - j] = g[n - j]}
  <2>3. 0 \in S
    <3>1. h.next[n] = 0 /\ n \in 1..n
        BY DEF Links, NULL
    <3>2. from[n] = g[n]
        BY <2>1, <2>2, <3>1
    <3>3. n - 0 = n /\ 0 \in 0..(n - 1)
        BY <3>1
    <3> QED
        BY <3>2, <3>3
  <2>4. ASSUME NEW j \in 0..(n - 1 - 1), j \in S PROVE j + 1 \in S
    <3> DEFINE q == n - (j + 1)
    <3>1. q \in 1..n /\ j + 1 \in 0..(n - 1) /\ q + 1 = n - j
        OBVIOUS
    <3>2. from[q + 1] = g[q + 1]
        BY <2>4, <3>1
    <3> HIDE DEF q
    <3>3. from[h.next[q]] = g[h.next[q]]
        BY <1>3, <2>1, <3>1, <3>2
    <3>4. from[q] = g[q]
        BY <2>2, <3>1, <3>3
    <3> QED
        BY <3>1, <3>4 DEF q
  <2> HIDE DEF S
  <2>5. \A j \in 0..(n - 1) : j \in S
    <3>1. n - 1 \in Nat
        OBVIOUS
    <3> QED
        BY <2>3, <2>4, <3>1, Induction
  <2>6. n - p \in S
    BY <2>5
  <2>7. n - (n - p) = p
    OBVIOUS
  <2> QED
    BY <2>6, <2>7 DEF S
<1>8. g[p] = [i \in 1..(k - p + 1) |-> p + i - 1]
    BY DEF NULL
<1> QED
    BY <1>2, <1>7, <1>8

Heap(next, val, live) == [next |-> next, val |-> val, live |-> live, bad |-> FALSE]

LEMMA LiveUpdate ==
    ASSUME NEW next, NEW val, NEW live, NEW now
    PROVE  [Heap(next, val, live) EXCEPT !.live = now] = Heap(next, val, now)
<1>1. ASSUME NEW bad
      PROVE  [[next |-> next, val |-> val, live |-> live, bad |-> bad] EXCEPT !.live = now]
                 = [next |-> next, val |-> val, live |-> now, bad |-> bad]
    OBVIOUS
<1> QED
    BY <1>1, Zenon DEF Heap

LEMMA ValUpdate ==
    ASSUME NEW next, NEW val, NEW live, NEW new
    PROVE  [Heap(next, val, live) EXCEPT !.val = new] = Heap(next, new, live)
<1>1. ASSUME NEW bad
      PROVE  [[next |-> next, val |-> val, live |-> live, bad |-> bad] EXCEPT !.val = new]
                 = [next |-> next, val |-> new, live |-> live, bad |-> bad]
    OBVIOUS
<1> QED
    BY <1>1, Zenon DEF Heap

(* Nodes that are live can be used.                                        *)
LEMMA LiveIsUsable ==
    ASSUME NEW next, NEW val, NEW live, NEW nodes, nodes \subseteq live
    PROVE  Used(Heap(next, val, live), nodes) = Heap(next, val, live)
<1> DEFINE h == Heap(next, val, live)
           b == h.bad \/ ~(nodes \subseteq h.live)
<1>1. b = FALSE
    BY DEF Heap
<1>2. Used(h, nodes) = [h EXCEPT !.bad = b]
    BY DEF Used
<1> HIDE DEF b
<1>3. [h EXCEPT !.bad = FALSE] = h
  <2>1. h = [next |-> next, val |-> val, live |-> live, bad |-> FALSE]
    BY DEF Heap
  <2>2. DOMAIN h = {"next", "val", "live", "bad"} /\ h.bad = FALSE
    BY <2>1
  <2>3. h = [f \in DOMAIN h |-> h[f]]
    BY <2>1
  <2> HIDE DEF h
  <2> QED
    BY <2>2, <2>3
<1> QED
    BY <1>1, <1>2, <1>3

(* A live node that is freed is not live; nothing else changes.            *)
LEMMA LiveIsFreed ==
    ASSUME NEW next, NEW val, NEW live, NEW p, p \in live
    PROVE  DeleteNode(Heap(next, val, live), p) = Heap(next, val, live \ {p})
<1> DEFINE h == Heap(next, val, live)
           rest == live \ {p}
<1>1. Used(h, {p}) = h
    BY LiveIsUsable
<1>2. h.live = live
    BY DEF Heap
<1>3. DeleteNode(h, p) = [h EXCEPT !.live = rest]
    BY <1>1, <1>2 DEF DeleteNode
<1> HIDE DEF rest
<1>4. [h EXCEPT !.live = rest] = Heap(next, val, rest)
    BY LiveUpdate
<1> QED
    BY <1>3, <1>4 DEF rest

(* A list as the loop of main builds it.                                   *)
ListHeap(list) ==
    Heap(Links(Len(list), Len(list)), list, 1..Len(list))

(* create_node and set_values for the next node.                           *)
WithNode(h, v) == SetValues(CreateNode(h), NewNode(h), v)

LEMMA NewNodeFacts ==
    ASSUME NEW X, Blank \in X, NEW list \in Seq(X), NEW v \in X
    PROVE  LET n == Len(list)
           IN WithNode(ListHeap(list), v) =
                  Heap(Links(n + 1, n), Append(list, v), 1..(n + 1))
<1> DEFINE n == Len(list)
           h == ListHeap(list)
           c == CreateNode(h)
           new == NewNode(h)
           blanks == Append(list, Blank)
<1>1. n \in Nat
    OBVIOUS
<1>2. /\ h.next = Links(n, n) /\ h.val = list /\ h.live = 1..n /\ h.bad = FALSE
      /\ DOMAIN h = {"next", "val", "live", "bad"}
    BY DEF ListHeap, Heap
<1>3. new = n + 1
    BY <1>1, <1>2 DEF NewNode, Links
<1>4. Append(Links(n, n), NULL) = Links(n + 1, n)
  <2> DEFINE a == Append(Links(n, n), NULL)
             b == Links(n + 1, n)
  <2>1. Links(n, n) \in Seq(Nat) /\ Len(Links(n, n)) = n
    BY <1>1 DEF Links, NULL
  <2>2. a \in Seq(Nat) /\ Len(a) = n + 1
    BY <1>1, <2>1 DEF NULL
  <2>3. b \in Seq(Nat) /\ Len(b) = n + 1
    BY <1>1 DEF Links, NULL
  <2>4. ASSUME NEW i \in 1..(n + 1) PROVE a[i] = b[i]
    <3>1. CASE i = n + 1
      <4>1. a[i] = NULL
        BY <1>1, <2>1, <3>1
      <4>2. b[i] = NULL
        BY <1>1, <3>1 DEF Links
      <4> QED
        BY <4>1, <4>2
    <3>2. CASE i # n + 1
      <4>1. i \in 1..n
        BY <1>1, <3>2
      <4>2. a[i] = Links(n, n)[i]
        BY <1>1, <2>1, <4>1
      <4>3. Links(n, n)[i] = b[i]
        BY <1>1, <4>1 DEF Links
      <4> QED
        BY <4>2, <4>3
    <3> QED
        BY <3>1, <3>2
  <2> QED
    BY <2>2, <2>3, <2>4, SeqEqual
<1>5. c = Heap(Links(n + 1, n), blanks, 1..(n + 1))
  <2>1. c = [h EXCEPT !.next = Append(@, NULL), !.val = Append(@, Blank),
                      !.live = @ \cup {new}]
    BY DEF CreateNode
  <2>2. (1..n) \cup {n + 1} = 1..(n + 1)
    BY <1>1
  <2>3. h = [next |-> Links(n, n), val |-> list, live |-> 1..n, bad |-> FALSE]
    BY DEF ListHeap, Heap
  <2> HIDE DEF c, h, new, n
  <2> QED
    BY <1>3, <1>4, <2>1, <2>2, <2>3 DEF Heap
<1>6. [blanks EXCEPT ![n + 1] = v] = Append(list, v)
  <2> DEFINE a == [blanks EXCEPT ![n + 1] = v]
             b == Append(list, v)
  <2>1. blanks \in Seq(X) /\ Len(blanks) = n + 1 /\ b \in Seq(X) /\ Len(b) = n + 1
        /\ b[n + 1] = v /\ \A i \in 1..n : blanks[i] = list[i] /\ b[i] = list[i]
    BY <1>1
  <2> HIDE DEF blanks, b, n
  <2>2. a \in Seq(X) /\ Len(a) = n + 1 /\ a[n + 1] = v
        /\ \A i \in 1..(n + 1) : i # n + 1 => a[i] = blanks[i]
    BY <1>1, <2>1
  <2> HIDE DEF a
  <2>3. ASSUME NEW i \in 1..(n + 1) PROVE a[i] = b[i]
    <3>1. i = n + 1 \/ i \in 1..n
        BY <1>1
    <3> QED
        BY <2>1, <2>2, <3>1
  <2>4. a = b
    BY <2>1, <2>2, <2>3, SeqEqual
  <2> QED
    BY <2>4 DEF a, b
<1> HIDE DEF c, blanks, new, n, h
<1>7. SetValues(c, new, v) = Heap(Links(n + 1, n), Append(list, v), 1..(n + 1))
  <2>1. {new} \subseteq 1..(n + 1)
    BY <1>1, <1>3
  <2>2. Used(c, {new}) = c
    BY <1>5, <2>1, LiveIsUsable
  <2>3. SetValues(c, new, v) = [c EXCEPT !.val[new] = v]
    BY <2>2 DEF SetValues
  <2> QED
    BY <1>3, <1>5, <1>6, <2>3 DEF Heap
<1> QED
    BY <1>7 DEF WithNode, c, new, h, n

(* A turn of the loop of main puts the node behind the list.               *)
LEMMA AppendedFacts ==
    ASSUME NEW X, Blank \in X, NEW list \in Seq(X), Len(list) > 0, NEW v \in X
    PROVE  AddNode(WithNode(ListHeap(list), v), Len(list), Len(list) + 1)
               = ListHeap(Append(list, v))
<1> DEFINE n == Len(list)
           h == WithNode(ListHeap(list), v)
           longer == Append(list, v)
<1>1. n \in Nat /\ n \in 1..(n + 1) /\ n \in 1..n /\ n > 0
    OBVIOUS
<1>2. h = Heap(Links(n + 1, n), longer, 1..(n + 1))
    BY NewNodeFacts
<1>3. Len(longer) = n + 1
    OBVIOUS
<1> HIDE DEF n, h, longer
<1>4. Chain(h, n) = [i \in 1..1 |-> n + i - 1]
  <2>1. h.next = Links(n + 1, n)
    BY <1>2 DEF Heap
  <2>2. n + 1 \in Nat /\ n - n + 1 = 1
    BY <1>1
  <2>3. Chain(h, n) = [i \in 1..(n - n + 1) |-> n + i - 1]
    BY <1>1, <2>1, <2>2, ChainOf
  <2> QED
    BY <2>2, <2>3
<1>5. ToSet(Chain(h, n)) = {n} /\ Last(Chain(h, n)) = n
    BY <1>1, <1>4 DEF ToSet, Last
<1>6. Used(h, {n}) = h
    BY <1>1, <1>2, LiveIsUsable
<1>7. AddNode(h, n, n + 1) = [h EXCEPT !.next[n] = n + 1]
    BY <1>5, <1>6 DEF AddNode
<1>8. [Links(n + 1, n) EXCEPT ![n] = n + 1] = Links(n + 1, n + 1)
  <2> DEFINE a == [Links(n + 1, n) EXCEPT ![n] = n + 1]
             b == Links(n + 1, n + 1)
  <2>1. a = [i \in 1..(n + 1) |-> IF i = n THEN n + 1 ELSE Links(n + 1, n)[i]]
    BY <1>1 DEF Links
  <2>2. b = [i \in 1..(n + 1) |-> b[i]]
    BY DEF Links
  <2>3. ASSUME NEW i \in 1..(n + 1)
        PROVE  b[i] = IF i = n THEN n + 1 ELSE Links(n + 1, n)[i]
    BY <1>1 DEF Links
  <2> HIDE DEF b
  <2> QED
    BY <2>1, <2>2, <2>3 DEF b
<1>9. AddNode(h, n, n + 1) = Heap(Links(n + 1, n + 1), longer, 1..(n + 1))
    BY <1>2, <1>7, <1>8 DEF Heap
<1> QED
    BY <1>3, <1>9 DEF ListHeap, n, h, longer

LEMMA ListChain ==
    ASSUME NEW list \in Seq(Value), Len(list) > 0
    PROVE  Chain(ListHeap(list), 1) = [i \in 1..Len(list) |-> i]
<1> DEFINE n == Len(list)
           h == ListHeap(list)
<1>1. n \in Nat /\ n \in 1..n /\ 1 \in 1..n
    OBVIOUS
<1>2. h.next = Links(n, n)
    BY DEF ListHeap, Heap
<1> HIDE DEF n, h
<1>3. Chain(h, 1) = [i \in 1..(n - 1 + 1) |-> 1 + i - 1]
    BY <1>1, <1>2, ChainOf
<1>4. n - 1 + 1 = n /\ \A i \in 1..n : 1 + i - 1 = i
    BY <1>1
<1>5. [i \in 1..(n - 1 + 1) |-> 1 + i - 1] = [i \in 1..n |-> i]
    BY <1>4
<1> QED
    BY <1>3, <1>5 DEF n, h

(* print_nodes and pack read each node, and no other.                      *)
LEMMA ListIsRead ==
    ASSUME NEW list \in Seq(Value), Len(list) > 0
    PROVE  /\ Used(ListHeap(list), ToSet(Chain(ListHeap(list), 1))) = ListHeap(list)
           /\ ListOf(ListHeap(list), 1) = list
<1> DEFINE n == Len(list)
           h == ListHeap(list)
           chain == Chain(h, 1)
<1>1. n \in Nat /\ list = [i \in 1..n |-> list[i]]
    OBVIOUS
<1>2. chain = [i \in 1..n |-> i]
    BY ListChain
<1>3. h = Heap(Links(n, n), list, 1..n)
    BY DEF ListHeap
<1> HIDE DEF n, h, chain
<1>4. ToSet(chain) = 1..n
    BY <1>2 DEF ToSet
<1>5. Used(h, 1..n) = h
    BY <1>3, LiveIsUsable
<1>6. ListOf(h, 1) = [i \in 1..n |-> list[i]]
    BY <1>2, <1>3 DEF ListOf, Heap, chain
<1> QED
    BY <1>1, <1>4, <1>5, <1>6 DEF h, chain

(* delete_list frees each node but the last, and uses no freed one.        *)
LEMMA ListIsDeleted ==
    ASSUME NEW list \in Seq(Value), Len(list) > 0
    PROVE  DeleteList(ListHeap(list), 1)
               = Heap(Links(Len(list), Len(list)), list, {Len(list)})
<1> DEFINE n == Len(list)
           h == ListHeap(list)
           chain == Chain(h, 1)
           Eq(f) == f = [i \in 0..(n - 1) |->
                            IF i = 0 THEN h ELSE DeleteNode(f[i - 1], chain[i])]
           after == CHOOSE f : Eq(f)
           Left(i) == Heap(Links(n, n), list, (i + 1)..n)
           g == [i \in 0..(n - 1) |-> Left(i)]
<1>1. n \in Nat /\ n > 0 /\ n - 1 \in Nat
    OBVIOUS
<1>2. chain = [i \in 1..n |-> i] /\ Len(chain) = n
    BY ListChain
<1>3. DeleteList(h, 1) = Used(after[n - 1], {n})
  <2>1. Last(chain) = n
    BY <1>1, <1>2 DEF Last
  <2>2. DeleteList(h, 1) = Used(after[n - 1], {Last(chain)})
    BY <1>2 DEF DeleteList
  <2> QED
    BY <2>1, <2>2
<1>4. h = Left(0)
    BY DEF ListHeap
<1> HIDE DEF n, h, chain, after
<1>5. ASSUME NEW i \in 1..(n - 1) PROVE g[i] = DeleteNode(g[i - 1], chain[i])
  <2>1. i \in 0..(n - 1) /\ i - 1 \in 0..(n - 1) /\ (i - 1) + 1 = i /\ i \in i..n /\ i \in 1..n
    BY <1>1
  <2>2. g[i] = Left(i) /\ g[i - 1] = Heap(Links(n, n), list, i..n) /\ chain[i] = i
    BY <1>2, <2>1
  <2> HIDE DEF g
  <2>3. (i..n) \ {i} = (i + 1)..n
    BY <1>1
  <2>4. DeleteNode(g[i - 1], i) = Heap(Links(n, n), list, (i..n) \ {i})
    <3>1. g[i - 1] = Heap(Links(n, n), list, i..n) /\ i \in i..n
        BY <2>1, <2>2
    <3>2. DeleteNode(Heap(Links(n, n), list, i..n), i) = Heap(Links(n, n), list, (i..n) \ {i})
      <4> DEFINE links == Links(n, n)
                 live == i..n
      <4>1. i \in live
        BY <3>1
      <4> HIDE DEF links, live
      <4>2. DeleteNode(Heap(links, list, live), i) = Heap(links, list, live \ {i})
        BY <4>1, LiveIsFreed
      <4> QED
        BY <4>2 DEF links, live
    <3> QED
        BY <3>1, <3>2
  <2> QED
    BY <2>2, <2>3, <2>4
<1>6. g[0] = h
    BY <1>1, <1>4
<1>7. Eq(g)
  <2>1. ASSUME NEW i \in 0..(n - 1), i # 0 PROVE g[i] = DeleteNode(g[i - 1], chain[i])
    <3>1. i \in 1..(n - 1)
        BY <1>1, <2>1
    <3> HIDE DEF g
    <3> QED
        BY <1>5, <3>1
  <2>2. g = [i \in 0..(n - 1) |-> g[i]]
    OBVIOUS
  <2> HIDE DEF g
  <2> QED
    BY <1>6, <2>1, <2>2
<1>8. Eq(after)
    BY <1>7 DEF after
<1>9. g[n - 1] = Heap(Links(n, n), list, {n})
  <2>1. n - 1 \in 0..(n - 1) /\ ((n - 1) + 1)..n = {n}
    BY <1>1
  <2> QED
    BY <2>1
<1> HIDE DEF g
<1>10. after[n - 1] = g[n - 1]
  <2>1. after[0] = g[0]
    BY <1>1, <1>7, <1>8
  <2>2. ASSUME NEW i \in 1..(n - 1), after[i - 1] = g[i - 1] PROVE after[i] = g[i]
    <3>1. i \in 0..(n - 1) /\ i # 0
        BY <1>1
    <3> QED
        BY <1>7, <1>8, <2>2, <3>1
  <2> HIDE DEF Eq
  <2> QED
    BY <1>1, <2>1, <2>2, SameLoop
<1>11. Used(g[n - 1], {n}) = g[n - 1]
    BY <1>9, LiveIsUsable
<1> QED
    BY <1>3, <1>9, <1>10, <1>11 DEF n, h

-----------------------------------------------------------------------------
(* The list of the clients.                                                *)

(* A list whose packed form is shorter than U16 has counts that fit.       *)
LEMMA SizesFit ==
    ASSUME NEW list \in Seq(Value), Len(PackedNodes(list)) < U16
    PROVE  list \in Lists
<1> DEFINE n == Len(list)
<1>1. n \in Nat /\ U16 \in Nat
    BY NodeListAssumption DEF NodeListAssumption, U16
<1>2. PICK upTo : Turns(list, upTo) /\ PackedNodes(list) = upTo[n]
    BY PackedInTurns
<1>3. /\ upTo \in [0..n -> Seq(Nat)]
      /\ \A i \in 1..n : upTo[i] = upTo[i - 1] \o PackedNode(list[i])
    BY <1>2 DEF Turns
<1>4. ASSUME NEW i \in 1..n PROVE list[i] \in Value
    OBVIOUS
<1>5. \A i \in 0..n : Len(upTo[i]) <= Len(upTo[n])
  <2>1. n \in 0..n
    BY <1>1
  <2> QED
    BY <1>2, <2>1, TurnsKeep
<1> HIDE DEF n
<1>6. ASSUME NEW i \in 0..n PROVE upTo[i] \in Seq(Nat) /\ Len(upTo[i]) \in Nat
    BY <1>3
<1>7. ASSUME NEW i \in 1..n
      PROVE  /\ Len(list[i].text) \in Nat /\ Len(upTo[i - 1]) \in Nat
             /\ Len(upTo[i]) = Len(upTo[i - 1]) + (8 + Len(list[i].text))
  <2> DEFINE p == PackedNode(list[i])
             before == upTo[i - 1]
  <2>1. i - 1 \in 0..n
    BY <1>1
  <2>2. p \in Seq(Nat) /\ Len(list[i].text) \in Nat /\ Len(p) = 8 + Len(list[i].text)
    BY <1>4, NodeSize
  <2>3. before \in Seq(Nat) /\ Len(before) \in Nat
    BY <1>6, <2>1
  <2>4. upTo[i] = before \o p
    BY <1>3
  <2> HIDE DEF p, before
  <2>5. Len(upTo[i]) = Len(before) + Len(p)
    BY <2>2, <2>3, <2>4, ConcatLen
  <2> QED
    BY <2>2, <2>3, <2>5 DEF before
<1>8. Len(upTo[n]) < U16
    BY <1>2
<1>9. ASSUME NEW i \in 1..n PROVE Len(list[i].text) + 1 < U16
  <2>1. i \in 0..n /\ n \in 0..n
    BY <1>1
  <2>2. Len(upTo[i]) <= Len(upTo[n]) /\ Len(upTo[i]) \in Nat /\ Len(upTo[n]) \in Nat
    BY <1>5, <1>6, <2>1
  <2>3. /\ Len(list[i].text) \in Nat /\ Len(upTo[i - 1]) \in Nat
        /\ Len(upTo[i]) = Len(upTo[i - 1]) + (8 + Len(list[i].text))
    BY <1>7
  <2> DEFINE t == Len(list[i].text)
             x == Len(upTo[i - 1])
             y == Len(upTo[i])
             z == Len(upTo[n])
  <2>4. /\ t \in Nat /\ x \in Nat /\ y \in Nat /\ z \in Nat
        /\ y = x + (8 + t) /\ y <= z /\ z < U16
    BY <1>8, <2>2, <2>3
  <2> HIDE DEF t, x, y, z
  <2>5. t + 1 < U16
    BY <1>1, <2>4
  <2> QED
    BY <2>5 DEF t
<1>10. n < U16
  <2> DEFINE S == {i \in 0..n : i <= Len(upTo[i])}
  <2>1. 0 \in S
    <3>1. 0 \in 0..n
        BY <1>1
    <3>2. Len(upTo[0]) \in Nat
        BY <1>6, <3>1
    <3> QED
        BY <3>1, <3>2
  <2>2. ASSUME NEW i \in 0..(n - 1), i \in S PROVE i + 1 \in S
    <3>1. i + 1 \in 1..n /\ i + 1 \in 0..n /\ (i + 1) - 1 = i /\ i \in Nat
        BY <1>1
    <3>2. /\ Len(list[i + 1].text) \in Nat /\ Len(upTo[i]) \in Nat
          /\ Len(upTo[i + 1]) = Len(upTo[i]) + (8 + Len(list[i + 1].text))
        BY <1>7, <3>1
    <3>3. i <= Len(upTo[i])
        BY <2>2
    <3>4. i + 1 <= Len(upTo[i + 1])
      <4>1. i \in Nat
        BY <3>1
      <4> DEFINE t == Len(list[i + 1].text)
                 x == Len(upTo[i])
                 y == Len(upTo[i + 1])
      <4>2. t \in Nat /\ x \in Nat /\ y = x + (8 + t) /\ i <= x
        BY <3>2, <3>3
      <4> HIDE DEF t, x, y
      <4>3. i + 1 <= y
        BY <4>1, <4>2
      <4> QED
        BY <4>3 DEF y
    <3> QED
        BY <3>1, <3>4
  <2> HIDE DEF S
  <2>0. \A i \in 0..n : i \in S
    BY <1>1, <2>1, <2>2, Induction
  <2>3. n \in S /\ n \in 0..n
    BY <1>1, <2>0
  <2>4. n <= Len(upTo[n]) /\ Len(upTo[n]) \in Nat
    BY <1>6, <2>3 DEF S
  <2> QED
    BY <1>1, <1>8, <2>4
<1> QED
    BY <1>9, <1>10 DEF Lists, n

Byte == 0..(Base - 1)

LEMMA NumbersAreBytes ==
    ASSUME NEW i \in Nat
    PROVE  Packu16(i) \in Seq(Byte)
<1>1. Base \in Nat /\ Base > 0
    BY NodeListAssumption DEF NodeListAssumption
<1>2. i \div Base \in Nat
    BY <1>1, DivisionFacts
<1>3. (i \div Base) % Base \in Byte /\ i % Base \in Byte
    BY <1>1, <1>2, DivisionFacts DEF Byte
<1> QED
    BY <1>3 DEF Packu16

LEMMA NodeIsBytes ==
    ASSUME NEW v \in Value, v.text \in Seq(Byte)
    PROVE  PackedNode(v) \in Seq(Byte)
<1>1. U16 \in Nat /\ U16 > 0 /\ U32 \in Nat
    BY NodeListAssumption DEF NodeListAssumption, U16, U32
<1>2. v.a \in Nat /\ v.b \in Nat /\ Len(v.text) \in Nat
    BY <1>1 DEF Value
<1>3. Packu16(v.a) \in Seq(Byte)
    BY <1>2, NumbersAreBytes
<1>4. Packu32(v.b) \in Seq(Byte)
  <2> DEFINE hi == (v.b \div U16) % U16
             lo == v.b % U16
  <2>1. v.b \div U16 \in Nat
    BY <1>1, <1>2, DivisionFacts
  <2>2. hi \in Nat /\ lo \in Nat
    BY <1>1, <1>2, <2>1, DivisionFacts
  <2> HIDE DEF hi, lo
  <2>3. Packu16(hi) \in Seq(Byte) /\ Packu16(lo) \in Seq(Byte)
    BY <2>2, NumbersAreBytes
  <2> QED
    BY <2>3 DEF Packu32, hi, lo
<1>5. Packu16(Len(v.text) % U16) \in Seq(Byte)
  <2>1. Len(v.text) % U16 \in Nat
    BY <1>1, <1>2, DivisionFacts
  <2> QED
    BY <2>1, NumbersAreBytes
<1> QED
    BY <1>3, <1>4, <1>5 DEF PackedNode

LEMMA PackIsBytes ==
    ASSUME NEW list \in Seq(Value), \A i \in 1..Len(list) : list[i].text \in Seq(Byte)
    PROVE  Pack(list).buf \in Seq(Byte) /\ Len(Pack(list).buf) = 2 + Len(PackedNodes(list))
           /\ PackedNodes(list) \in Seq(Byte)
<1> DEFINE n == Len(list)
<1>1. n \in Nat /\ U16 \in Nat /\ U16 > 0
    BY NodeListAssumption DEF NodeListAssumption, U16
<1>2. PICK upTo : Turns(list, upTo) /\ PackedNodes(list) = upTo[n]
    BY PackedInTurns
<1>3. /\ upTo[0] = <<>>
      /\ \A i \in 1..n : upTo[i] = upTo[i - 1] \o PackedNode(list[i])
    BY <1>2 DEF Turns
<1>4. ASSUME NEW i \in 1..n PROVE PackedNode(list[i]) \in Seq(Byte)
  <2>1. list[i] \in Value
    OBVIOUS
  <2> QED
    BY <2>1, NodeIsBytes
<1> HIDE DEF n
<1>5. upTo[n] \in Seq(Byte)
  <2> DEFINE T == {i \in 0..n : upTo[i] \in Seq(Byte)}
  <2>1. 0 \in T
    <3>1. <<>> \in Seq(Byte) /\ 0 \in 0..n
        BY <1>1
    <3> QED
        BY <1>3, <3>1
  <2>2. ASSUME NEW i \in 0..(n - 1), i \in T PROVE i + 1 \in T
    <3>1. i + 1 \in 1..n /\ i + 1 \in 0..n /\ (i + 1) - 1 = i
        BY <1>1
    <3>2. upTo[i + 1] = upTo[i] \o PackedNode(list[i + 1])
        BY <1>3, <3>1
    <3>3. PackedNode(list[i + 1]) \in Seq(Byte) /\ upTo[i] \in Seq(Byte)
        BY <1>4, <2>2, <3>1
    <3>4. upTo[i + 1] \in Seq(Byte)
        BY <3>2, <3>3, ConcatLen
    <3> QED
        BY <3>1, <3>4
  <2> HIDE DEF T
  <2>0. \A i \in 0..n : i \in T
    BY <1>1, <2>1, <2>2, Induction
  <2>3. n \in T
    BY <1>1, <2>0
  <2> QED
    BY <2>3 DEF T
<1>6. n % U16 \in Nat
    BY <1>1, DivisionFacts
<1> DEFINE count == Packu16(n % U16)
<1>7. count \in Seq(Byte) /\ Len(count) = 2
    BY <1>6, NumbersAreBytes DEF Packu16
<1>8. Pack(list).buf = count \o PackedNodes(list)
    BY DEF Pack, n
<1> HIDE DEF count
<1>9. PackedNodes(list) \in Seq(Byte)
    BY <1>2, <1>5
<1>10. /\ count \o PackedNodes(list) \in Seq(Byte)
       /\ Len(count \o PackedNodes(list)) = Len(count) + Len(PackedNodes(list))
    BY <1>7, <1>9, ConcatLen
<1> QED
    BY <1>7, <1>8, <1>9, <1>10

LEMMA TheListFacts ==
    /\ TheList \in Seq(Value) /\ Len(TheList) = NodeCount + 1
    /\ TheList[1] = HeadValue /\ HeadValue \in Value
    /\ \A i \in 1..NodeCount : TheList[i + 1] = NodeValue(i) /\ NodeValue(i) \in Value
    /\ \A i \in 1..Len(TheList) : TheList[i].text \in Seq(Byte)
<1>1. NodeCount \in Nat /\ Base \in Nat /\ Base > 5
    BY TransferAssumption, ListFits, NodeListAssumption
       DEF TransferAssumption, ListFits, NodeListAssumption
<1>2. U16 \in Nat /\ U32 \in Nat /\ U16 > 6 /\ U32 > 6
  <2>1. Base * Base >= 6 * 6
    BY <1>1
  <2>2. U16 \in Nat /\ U16 > 6
    BY <1>1, <2>1 DEF U16
  <2> HIDE DEF U16
  <2>3. U16 * U16 >= 7 * 7
    BY <2>2
  <2> QED
    BY <2>2, <2>3 DEF U32
<1>3. HeadValue \in Value /\ HeadValue.text \in Seq(Byte)
  <2>1. /\ <<3, 4, 5>> \in Seq(Nat) /\ <<3, 4, 5>> \in Seq(Byte)
        /\ \A j \in 1..Len(<<3, 4, 5>>) : <<3, 4, 5>>[j] # 0
    BY <1>1 DEF Byte
  <2>2. 3 \in 0..(U16 - 1) /\ 4 \in 0..(U32 - 1)
    BY <1>2
  <2> QED
    BY <2>1, <2>2 DEF HeadValue, Value
<1>4. ASSUME NEW i \in 1..NodeCount
      PROVE  NodeValue(i) \in Value /\ NodeValue(i).text \in Seq(Byte)
  <2> DEFINE text == [k \in 1..i |-> 2]
  <2>1. /\ text \in Seq(Nat) /\ text \in Seq(Byte)
        /\ \A j \in 1..Len(text) : text[j] # 0
    BY <1>1 DEF Byte
  <2>2. 5 \in 0..(U16 - 1) /\ 6 \in 0..(U32 - 1)
    BY <1>2
  <2>3. NodeValue(i) = [a |-> 5, b |-> 6, text |-> text]
    BY DEF NodeValue
  <2> HIDE DEF text
  <2> QED
    BY <2>1, <2>2, <2>3 DEF Value
<1> DEFINE rest == [i \in 1..NodeCount |-> NodeValue(i)]
           head == <<HeadValue>>
<1>5. rest \in Seq(Value) /\ Len(rest) = NodeCount
      /\ \A i \in 1..NodeCount : rest[i] = NodeValue(i)
    BY <1>1, <1>4
<1>6. TheList = head \o rest
    BY DEF TheList
<1> HIDE DEF rest
<1>7. /\ TheList \in Seq(Value) /\ Len(TheList) = Len(rest) + 1 /\ TheList[1] = HeadValue
      /\ \A i \in 1..Len(rest) : TheList[i + 1] = rest[i]
    BY <1>3, <1>5, <1>6, ConsFacts
<1>8. Len(TheList) = NodeCount + 1
    BY <1>5, <1>7
<1>10. ASSUME NEW i \in 1..NodeCount PROVE TheList[i + 1] = NodeValue(i)
    BY <1>5, <1>7
<1>11. ASSUME NEW i \in 1..Len(TheList) PROVE TheList[i].text \in Seq(Byte)
  <2>1. CASE i = 1
    BY <1>3, <1>7, <2>1
  <2>2. CASE i # 1
    <3>1. i - 1 \in 1..NodeCount /\ (i - 1) + 1 = i
        BY <1>1, <1>8, <2>2
    <3> QED
        BY <1>4, <1>10, <3>1
  <2> QED
    BY <2>1, <2>2
<1> QED
    BY <1>3, <1>4, <1>7, <1>8, <1>10, <1>11

(* What is on the wire: bytes, as many as pack says, and by AllOrNothing   *)
(* the whole list or an error to whoever reads its first bytes.            *)
LEMMA WireFacts ==
    /\ TheList \in Lists /\ Decodes(TheList)
    /\ Pack(TheList).buf \in Seq(Byte) /\ Pack(TheList).buf \in Seq(Nat)
    /\ Pack(TheList).size = Len(Pack(TheList).buf)
    /\ SubSeq(Pack(TheList).buf, 1, Pack(TheList).size) = Pack(TheList).buf
    /\ Len(Pack(TheList).buf) \in Nat
<1> DEFINE buf == Pack(TheList).buf
           m == Len(PackedNodes(TheList))
<1>1. buf \in Seq(Byte) /\ Len(buf) = 2 + m /\ PackedNodes(TheList) \in Seq(Byte)
    BY TheListFacts, PackIsBytes
<1>2. m \in Nat /\ 2 + m < U16 /\ U16 \in Nat
    BY <1>1, ListFits, NodeListAssumption DEF ListFits, NodeListAssumption, U16
<1>3. TheList \in Lists
  <2>1. m < U16
    BY <1>2
  <2> QED
    BY <2>1, TheListFacts, SizesFit
<1>4. Pack(TheList).size = 2 + m
  <2>1. Pack(TheList).size = (2 + m) % U16
    BY DEF Pack
  <2>2. 2 + m \in Nat
    BY <1>2
  <2> QED
    BY <1>2, <2>1, <2>2, SmallMod
<1>5. buf \in Seq(Nat)
  <2>1. Byte \subseteq Nat
    BY DEF Byte
  <2> HIDE DEF buf
  <2> QED
    BY <1>1, <2>1, SeqMonotonic
<1> HIDE DEF buf, m
<1>6. SubSeq(buf, 1, Len(buf)) = buf
    BY <1>1, WholeIsPrefix
<1>7. Decodes(TheList)
  <2>1. DOMAIN TheList = 1..Len(TheList)
    BY TheListFacts
  <2> QED
    BY <2>1, ListFits DEF ListFits, Decodes
<1> QED
    BY <1>1, <1>2, <1>3, <1>4, <1>5, <1>6, <1>7 DEF buf

-----------------------------------------------------------------------------
(* The invariant: what is on the heap, in the buffer and on the connection *)
(* of a client that is where it is.                                        *)
Packed(c) == pc[c] \notin {"start", "building", "invalid_ip"}

HeapIsList(c) ==
    /\ pc[c] \in {"start", "invalid_ip"} => heap[c] = EmptyHeap
    /\ pc[c] = "building" =>
          \E k \in 1..(NodeCount + 1) : heap[c] = ListHeap(SubSeq(TheList, 1, k))
    /\ Packed(c) => heap[c] = Heap(Links(NodeCount + 1, NodeCount + 1), TheList,
                                   {NodeCount + 1})

WireIsPacked(c) ==
    wire[c] = IF Packed(c) THEN Pack(TheList) ELSE [buf |-> <<>>, size |-> 0]

StreamsAreWhole == \A c \in Clients : stream[c] \in {<<>>, Pack(TheList).buf}

Places == {"start", "building", "packed", "connected", "unconnected", "written",
           "done", "killed", "invalid_ip"}

Shapes ==
    /\ ip \in [Clients -> {"IPV4", "IPV6", "INVALID_IP"}]
    /\ pc \in [Clients -> Places]
    /\ DOMAIN heap = Clients /\ DOMAIN wire = Clients /\ DOMAIN stream = Clients
    /\ line \in [Clients -> {"none", "open", "fin", "shut", "reset"}]
    /\ server \in {"down", "up", "dead"}
    /\ queue \in Seq(Clients)
    /\ serving = {} \/ \E c \in Clients : serving = {c}
    /\ cut \subseteq Clients

ClientsInv == \A c \in Clients : HeapIsList(c) /\ WireIsPacked(c)
ServerInv == StreamsAreWhole /\ PrintedWhole /\ DiesOnlyOfACut
IInv == Shapes /\ ClientsInv /\ ServerInv

LEMMA Initially == Init => IInv
<1> SUFFICES ASSUME Init PROVE IInv
    OBVIOUS
<1> USE DEF Init
<1>1. Shapes
    BY DEF Shapes, Places
<1>2. ClientsInv
    BY DEF ClientsInv, HeapIsList, WireIsPacked, Packed
<1>3. StreamsAreWhole /\ PrintedWhole /\ DiesOnlyOfACut
    BY DEF StreamsAreWhole, PrintedWhole, DiesOnlyOfACut
<1> QED
    BY <1>1, <1>2, <1>3 DEF IInv, ServerInv

(* A step of one client.                                                   *)
LEMMA OneClient ==
    ASSUME ClientsInv, NEW c \in Clients,
           \A d \in Clients : d # c =>
               pc'[d] = pc[d] /\ heap'[d] = heap[d] /\ wire'[d] = wire[d],
           HeapIsList(c)', WireIsPacked(c)'
    PROVE  ClientsInv'
<1> SUFFICES ASSUME NEW d \in Clients PROVE (HeapIsList(d) /\ WireIsPacked(d))'
    BY DEF ClientsInv
<1>1. CASE d = c
    BY <1>1
<1>2. CASE d # c
  <2>1. HeapIsList(d) /\ WireIsPacked(d)
    BY DEF ClientsInv
  <2>2. pc'[d] = pc[d] /\ heap'[d] = heap[d] /\ wire'[d] = wire[d]
    BY <1>2
  <2> QED
    BY <2>1, <2>2 DEF HeapIsList, WireIsPacked, Packed
<1> QED
    BY <1>1, <1>2

(* A client that has packed its list moves on.                             *)
LEMMA MovesOn ==
    ASSUME IInv, UNCHANGED clientVars, NEW c \in Clients, Packed(c),
           NEW to \in {"done", "killed", "connected", "unconnected", "written"},
           pc' = [pc EXCEPT ![c] = to]
    PROVE  ClientsInv' /\ pc' \in [Clients -> Places]
<1>1. pc \in [Clients -> Places] /\ ClientsInv
    BY DEF IInv, Shapes
<1>2. pc' \in [Clients -> Places] /\ pc'[c] = to /\ heap' = heap /\ wire' = wire
      /\ \A d \in Clients : d # c => pc'[d] = pc[d]
    BY <1>1 DEF Places, clientVars
<1>3. HeapIsList(c) /\ WireIsPacked(c)
    BY <1>1 DEF ClientsInv
<1>4. Packed(c)' /\ pc'[c] \notin {"start", "invalid_ip", "building"}
    BY <1>2 DEF Packed
<1>5. HeapIsList(c)' /\ WireIsPacked(c)'
    BY <1>2, <1>3, <1>4 DEF HeapIsList, WireIsPacked
<1> QED
    BY <1>1, <1>2, <1>5, OneClient

LEMMA ClientsStay ==
    ASSUME IInv, UNCHANGED <<clientVars, pc>>
    PROVE  ClientsInv'
    BY DEF IInv, ClientsInv, HeapIsList, WireIsPacked, Packed, clientVars

LEMMA ServerStays ==
    ASSUME IInv, UNCHANGED <<stream, server, printed, cut>>
    PROVE  ServerInv'
    BY DEF IInv, ServerInv, StreamsAreWhole, PrintedWhole, DiesOnlyOfACut

LEMMA PcIs ==
    ASSUME IInv, NEW c \in Clients, NEW at, NEW to \in Places, Goes(c, at, to)
    PROVE  /\ pc[c] = at /\ pc' = [pc EXCEPT ![c] = to]
           /\ pc' \in [Clients -> Places] /\ pc'[c] = to
           /\ \A d \in Clients : d # c => pc'[d] = pc[d]
    BY DEF IInv, Shapes, Goes

LEMMA InvalidIpStep ==
    ASSUME IInv, NEW c \in Clients, InvalidIp(c)
    PROVE  IInv'
<1> USE DEF InvalidIp
<1>1. /\ pc[c] = "start" /\ pc' \in [Clients -> Places] /\ pc'[c] = "invalid_ip"
      /\ \A d \in Clients : d # c => pc'[d] = pc[d]
    BY PcIs DEF Places
<1>2. ClientsInv /\ HeapIsList(c) /\ WireIsPacked(c)
    BY DEF IInv, ClientsInv
<1>3. HeapIsList(c)' /\ WireIsPacked(c)'
    BY <1>1, <1>2 DEF HeapIsList, WireIsPacked, Packed, clientVars
<1>4. ClientsInv'
    BY <1>1, <1>2, <1>3, OneClient DEF clientVars
<1>5. Shapes'
    BY <1>1 DEF IInv, Shapes, clientVars, serverVars
<1> QED
    BY <1>4, <1>5, ServerStays DEF IInv, serverVars

LEMMA CreateHeadStep ==
    ASSUME IInv, NEW c \in Clients, CreateHead(c)
    PROVE  IInv'
<1> USE DEF CreateHead
<1>1. /\ pc[c] = "start" /\ pc' \in [Clients -> Places] /\ pc'[c] = "building"
      /\ \A d \in Clients : d # c => pc'[d] = pc[d]
    BY PcIs DEF Places
<1>2. ClientsInv /\ HeapIsList(c) /\ WireIsPacked(c) /\ DOMAIN heap = Clients
    BY DEF IInv, ClientsInv, Shapes
<1>3. heap[c] = EmptyHeap
    BY <1>1, <1>2 DEF HeapIsList
<1>4. heap'[c] = WithNode(EmptyHeap, HeadValue)
    BY <1>2, <1>3 DEF WithNode
<1>5. WithNode(EmptyHeap, HeadValue) = ListHeap(SubSeq(TheList, 1, 1))
  <2>1. TheList \in Seq(Value) /\ 1 \in 1..Len(TheList) /\ TheList[1] = HeadValue
    BY TheListFacts, TransferAssumption DEF TransferAssumption
  <2>2. SubSeq(TheList, 1, 1) = <<HeadValue>>
    <3>1. SubSeq(TheList, 1, 1) = Append(SubSeq(TheList, 1, 1 - 1), TheList[1])
        BY <2>1, AppendNext
    <3>2. SubSeq(TheList, 1, 1 - 1) = <<>>
        BY <2>1
    <3> QED
      <4>1. ASSUME NEW v PROVE Append(<<>>, v) = <<v>>
        OBVIOUS
      <4> QED
        BY <2>1, <3>1, <3>2, <4>1
  <2>3. ListHeap(<<HeadValue>>) = Heap(<<0>>, <<HeadValue>>, {1})
    <3>1. Len(<<HeadValue>>) = 1 /\ 1..1 = {1}
        OBVIOUS
    <3>2. Links(1, 1) = <<0>>
        BY DEF Links, NULL
    <3> QED
        BY <3>1, <3>2 DEF ListHeap
  <2>4. EmptyHeap = ListHeap(<<>>)
    <3>1. Links(0, 0) = <<>> /\ 1..0 = {} /\ Len(<<>>) = 0
        BY DEF Links
    <3> QED
        BY <3>1 DEF EmptyHeap, ListHeap, Heap
  <2>5. HeadValue \in Value \cup {Blank} /\ <<>> \in Seq(Value \cup {Blank})
    BY TheListFacts
  <2>6. WithNode(ListHeap(<<>>), HeadValue)
            = Heap(Links(0 + 1, 0), Append(<<>>, HeadValue), 1..(0 + 1))
    <3>1. Len(<<>>) = 0
        OBVIOUS
    <3> DEFINE X == Value \cup {Blank}
    <3>2. Blank \in X /\ HeadValue \in X /\ <<>> \in Seq(X)
        BY <2>5
    <3> HIDE DEF X
    <3>3. WithNode(ListHeap(<<>>), HeadValue)
              = Heap(Links(Len(<<>>) + 1, Len(<<>>)), Append(<<>>, HeadValue), 1..(Len(<<>>) + 1))
        BY <3>2, NewNodeFacts
    <3> QED
        BY <3>1, <3>3
  <2>7. Links(0 + 1, 0) = <<0>> /\ 1..(0 + 1) = {1}
    BY DEF Links, NULL
  <2>8. Append(<<>>, HeadValue) = <<HeadValue>>
    <3>1. ASSUME NEW v PROVE Append(<<>>, v) = <<v>>
        OBVIOUS
    <3> QED
        BY <3>1
  <2> QED
    BY <2>2, <2>3, <2>4, <2>6, <2>7, <2>8
<1>6. 1 \in 1..(NodeCount + 1)
    BY TransferAssumption DEF TransferAssumption
<1>7. HeapIsList(c)' /\ WireIsPacked(c)'
    BY <1>1, <1>2, <1>4, <1>5, <1>6 DEF HeapIsList, WireIsPacked, Packed
<1>8. \A d \in Clients : d # c =>
          pc'[d] = pc[d] /\ heap'[d] = heap[d] /\ wire'[d] = wire[d]
    BY <1>1, <1>2
<1>9. ClientsInv'
    BY <1>2, <1>7, <1>8, OneClient
<1>10. Shapes'
    BY <1>1 DEF IInv, Shapes, serverVars
<1> QED
    BY <1>9, <1>10, ServerStays DEF IInv, serverVars

LEMMA AppendNodeStep ==
    ASSUME IInv, NEW c \in Clients, AppendNode(c)
    PROVE  IInv'
<1> DEFINE h == heap[c]
           tail == Len(h.next)
           new == NewNode(h)
<1>1. /\ pc[c] = "building" /\ tail <= NodeCount
      /\ heap' = [heap EXCEPT ![c] =
                     AddNode(SetValues(CreateNode(h), new, NodeValue(tail)), tail, new)]
      /\ UNCHANGED <<ip, pc, wire, line, stream, serverVars>>
    BY DEF AppendNode
<1>2. ClientsInv /\ HeapIsList(c) /\ WireIsPacked(c) /\ DOMAIN heap = Clients
    BY DEF IInv, ClientsInv, Shapes
<1>3. PICK k \in 1..(NodeCount + 1) : h = ListHeap(SubSeq(TheList, 1, k))
    BY <1>1, <1>2 DEF HeapIsList
<1> DEFINE list == SubSeq(TheList, 1, k)
<1>4. NodeCount \in Nat /\ k \in Nat
    BY <1>3, TransferAssumption DEF TransferAssumption
<1>5. TheList \in Seq(Value) /\ Len(TheList) = NodeCount + 1
    BY TheListFacts
<1>6. list \in Seq(Value) /\ Len(list) = k
    BY <1>4, <1>5
<1>7. tail = k /\ new = k + 1
  <2>1. h.next = Links(k, k)
    BY <1>3, <1>6 DEF ListHeap, Heap
  <2>2. Len(Links(k, k)) = k
    BY <1>4 DEF Links
  <2> QED
    BY <2>1, <2>2 DEF NewNode
<1>8. k \in 1..NodeCount /\ k + 1 \in 1..(NodeCount + 1) /\ (k + 1) - 1 = k
    BY <1>1, <1>3, <1>4, <1>7
<1>9. NodeValue(k) \in Value /\ TheList[k + 1] = NodeValue(k)
    BY <1>8, TheListFacts
<1>10. SubSeq(TheList, 1, k + 1) = Append(list, NodeValue(k))
  <2>1. k + 1 \in 1..Len(TheList)
    BY <1>5, <1>8
  <2>2. SubSeq(TheList, 1, k + 1) = Append(SubSeq(TheList, 1, (k + 1) - 1), TheList[k + 1])
    BY <1>5, <2>1, AppendNext
  <2> QED
    BY <1>8, <1>9, <2>2
<1> HIDE DEF list, h, tail, new
<1>11. AddNode(WithNode(ListHeap(list), NodeValue(k)), k, k + 1)
           = ListHeap(Append(list, NodeValue(k)))
  <2> DEFINE X == Value \cup {Blank}
             v == NodeValue(k)
  <2>1. Blank \in X /\ v \in X
    BY <1>9
  <2>2. list \in Seq(X)
    BY <1>6, SeqMonotonic
  <2>3. Len(list) > 0
    BY <1>6, <1>8
  <2> HIDE DEF X, v
  <2>4. AddNode(WithNode(ListHeap(list), v), Len(list), Len(list) + 1)
            = ListHeap(Append(list, v))
    BY <2>1, <2>2, <2>3, AppendedFacts
  <2> QED
    BY <1>6, <2>4 DEF v
<1>12. heap'[c] = ListHeap(SubSeq(TheList, 1, k + 1))
  <2>1. heap'[c] = AddNode(SetValues(CreateNode(h), new, NodeValue(tail)), tail, new)
    BY <1>1, <1>2
  <2>2. SetValues(CreateNode(h), new, NodeValue(tail)) = WithNode(h, NodeValue(k))
    BY <1>7 DEF WithNode, new
  <2>3. h = ListHeap(list)
    BY <1>3 DEF list
  <2> QED
    BY <1>7, <1>10, <1>11, <2>1, <2>2, <2>3
<1>13. HeapIsList(c)' /\ WireIsPacked(c)'
  <2>1. pc'[c] = "building" /\ wire' = wire /\ pc' = pc
    BY <1>1
  <2> QED
    BY <1>2, <1>8, <1>12, <2>1 DEF HeapIsList, WireIsPacked, Packed
<1>14. \A d \in Clients : d # c =>
           pc'[d] = pc[d] /\ heap'[d] = heap[d] /\ wire'[d] = wire[d]
    BY <1>1, <1>2
<1>15. ClientsInv'
    BY <1>2, <1>13, <1>14, OneClient
<1>16. Shapes'
    BY <1>1 DEF IInv, Shapes, serverVars
<1> QED
    BY <1>1, <1>15, <1>16, ServerStays DEF IInv, serverVars

LEMMA PackListStep ==
    ASSUME IInv, NEW c \in Clients, PackList(c)
    PROVE  IInv'
<1> DEFINE h == heap[c]
           read == Used(h, ToSet(Chain(h, 1)))
           n == NodeCount + 1
<1>1. /\ Len(h.next) = n /\ Goes(c, "building", "packed")
      /\ wire' = [wire EXCEPT ![c] = Pack(ListOf(h, 1))]
      /\ heap' = [heap EXCEPT ![c] = DeleteList(read, 1)]
      /\ UNCHANGED <<ip, line, stream, serverVars>>
    BY DEF PackList
<1>2. ClientsInv /\ HeapIsList(c) /\ DOMAIN heap = Clients /\ DOMAIN wire = Clients
    BY DEF IInv, ClientsInv, Shapes
<1>3. /\ pc[c] = "building" /\ pc' \in [Clients -> Places] /\ pc'[c] = "packed"
      /\ \A d \in Clients : d # c => pc'[d] = pc[d]
    BY <1>1, PcIs DEF Places
<1>4. PICK k \in 1..n : h = ListHeap(SubSeq(TheList, 1, k))
    BY <1>2, <1>3 DEF HeapIsList
<1>5. NodeCount \in Nat /\ k \in Nat /\ n > 0
    BY <1>4, TransferAssumption DEF TransferAssumption
<1>6. TheList \in Seq(Value) /\ Len(TheList) = n
    BY TheListFacts
<1>7. h = ListHeap(TheList)
  <2>1. Len(SubSeq(TheList, 1, k)) = k
    BY <1>5, <1>6
  <2>2. h.next = Links(k, k)
    BY <1>4, <2>1 DEF ListHeap, Heap
  <2>3. Len(Links(k, k)) = k
    BY <1>5 DEF Links
  <2>4. k = Len(TheList)
    BY <1>1, <1>6, <2>2, <2>3
  <2> QED
    BY <1>4, <1>6, <2>4, WholeIsPrefix
<1> HIDE DEF h, n
<1>8. read = h /\ ListOf(h, 1) = TheList
    BY <1>5, <1>6, <1>7, ListIsRead
<1>9. DeleteList(h, 1) = Heap(Links(n, n), TheList, {n})
    BY <1>5, <1>6, <1>7, ListIsDeleted
<1>10. heap'[c] = Heap(Links(n, n), TheList, {n}) /\ wire'[c] = Pack(TheList)
  <2> HIDE DEF read
  <2>1. heap'[c] = DeleteList(read, 1) /\ wire'[c] = Pack(ListOf(h, 1))
    BY <1>1, <1>2
  <2> QED
    BY <1>8, <1>9, <2>1
<1>11. HeapIsList(c)' /\ WireIsPacked(c)'
    BY <1>3, <1>10 DEF HeapIsList, WireIsPacked, Packed, n
<1> HIDE DEF read
<1>12. \A d \in Clients : d # c =>
           pc'[d] = pc[d] /\ heap'[d] = heap[d] /\ wire'[d] = wire[d]
    BY <1>1, <1>2, <1>3
<1>13. ClientsInv'
    BY <1>2, <1>11, <1>12, OneClient
<1>14. Shapes'
    BY <1>1, <1>3 DEF IInv, Shapes, serverVars
<1> QED
    BY <1>1, <1>13, <1>14, ServerStays DEF IInv, serverVars

(* The steps of a client with its connection.                              *)
LEMMA ConnectStep ==
    ASSUME IInv, NEW c \in Clients, Connect(c)
    PROVE  IInv'
<1>1. /\ Goes(c, "packed", "connected") /\ line' = [line EXCEPT ![c] = "open"]
      /\ queue' = Append(queue, c)
      /\ UNCHANGED <<clientVars, stream, server, serving, printed, cut>>
    BY DEF Connect
<1>2. Packed(c) /\ pc' = [pc EXCEPT ![c] = "connected"]
    BY <1>1 DEF Goes, Packed
<1>3. ClientsInv' /\ pc' \in [Clients -> Places]
    BY <1>1, <1>2, MovesOn
<1>4. queue' \in Seq(Clients) /\ line' \in [Clients -> {"none", "open", "fin", "shut", "reset"}]
    BY <1>1 DEF IInv, Shapes
<1>5. Shapes'
    BY <1>1, <1>3, <1>4 DEF IInv, Shapes, clientVars
<1> QED
    BY <1>1, <1>3, <1>5, ServerStays DEF IInv

LEMMA LineCloses ==
    ASSUME IInv, NEW c \in Clients
    PROVE  /\ Closed(c) \in [Clients -> {"none", "open", "fin", "shut", "reset"}]
           /\ LineShut(c) \in [Clients -> {"none", "open", "fin", "shut", "reset"}]
    BY DEF IInv, Shapes, Closed, LineShut

LEMMA OtherClientSteps ==
    ASSUME IInv, NEW c \in Clients,
           ConnectFails(c) \/ WriteKills(c) \/ Finish(c) \/ Interrupt(c)
    PROVE  IInv'
<1>1. PICK from \in {"packed", "unconnected", "connected", "written"},
           to \in {"done", "killed", "unconnected"} : Goes(c, from, to)
    BY DEF ConnectFails, WriteKills, Finish, Interrupt
<1>2. /\ line' = line \/ line' = Closed(c)
      /\ UNCHANGED <<clientVars, stream, serverVars>>
    BY DEF ConnectFails, WriteKills, Finish, Interrupt
<1>3. Packed(c) /\ pc' = [pc EXCEPT ![c] = to]
    BY <1>1 DEF Goes, Packed
<1>4. ClientsInv' /\ pc' \in [Clients -> Places]
    BY <1>2, <1>3, MovesOn
<1>5. line' \in [Clients -> {"none", "open", "fin", "shut", "reset"}]
    BY <1>2, LineCloses DEF IInv, Shapes
<1>6. Shapes'
    BY <1>2, <1>4, <1>5 DEF IInv, Shapes, clientVars, serverVars
<1> QED
    BY <1>2, <1>4, <1>6, ServerStays DEF IInv, serverVars

LEMMA WriteStep ==
    ASSUME IInv, NEW c \in Clients, Write(c)
    PROVE  IInv'
<1>1. /\ Goes(c, "connected", "written")
      /\ stream' = [stream EXCEPT ![c] =
                       IF line[c] = "open" THEN SubSeq(wire[c].buf, 1, wire[c].size)
                       ELSE <<>>]
      /\ UNCHANGED <<clientVars, line, serverVars>>
    BY DEF Write
<1>2. Packed(c) /\ pc' = [pc EXCEPT ![c] = "written"]
    BY <1>1 DEF Goes, Packed
<1>3. ClientsInv' /\ pc' \in [Clients -> Places]
    BY <1>1, <1>2, MovesOn
<1>4. wire[c] = Pack(TheList) /\ StreamsAreWhole /\ DOMAIN stream = Clients
    BY <1>2 DEF IInv, ClientsInv, ServerInv, WireIsPacked, Shapes
<1>5. SubSeq(wire[c].buf, 1, wire[c].size) = Pack(TheList).buf
    BY <1>4, WireFacts
<1>6. StreamsAreWhole'
    BY <1>1, <1>4, <1>5 DEF StreamsAreWhole
<1>7. PrintedWhole' /\ DiesOnlyOfACut'
    BY <1>1 DEF IInv, ServerInv, PrintedWhole, DiesOnlyOfACut, serverVars
<1>8. Shapes'
    BY <1>1, <1>3 DEF IInv, Shapes, clientVars, serverVars
<1> QED
    BY <1>3, <1>6, <1>7, <1>8 DEF IInv, ServerInv

(* The steps of the server.                                                *)
LEMMA StartServerStep ==
    ASSUME IInv, StartServer
    PROVE  IInv'
<1>1. /\ server' = "up"
      /\ UNCHANGED <<clientVars, pc, line, stream, queue, serving, printed, cut>>
    BY DEF StartServer
<1>2. ClientsInv'
    BY <1>1, ClientsStay
<1>3. ServerInv'
    BY <1>1 DEF IInv, ServerInv, StreamsAreWhole, PrintedWhole, DiesOnlyOfACut
<1>4. Shapes'
    BY <1>1 DEF IInv, Shapes, clientVars
<1> QED
    BY <1>2, <1>3, <1>4 DEF IInv

LEMMA AcceptStep ==
    ASSUME IInv, Accept
    PROVE  IInv'
<1>1. /\ queue # <<>> /\ serving' = {Head(queue)} /\ queue' = Tail(queue)
      /\ UNCHANGED <<clientVars, pc, line, stream, server, printed, cut>>
    BY DEF Accept
<1>2. ClientsInv' /\ ServerInv'
    BY <1>1, ClientsStay, ServerStays
<1>3. queue' \in Seq(Clients) /\ Head(queue) \in Clients
    BY <1>1 DEF IInv, Shapes
<1>4. Shapes'
    BY <1>1, <1>3 DEF IInv, Shapes, clientVars
<1> QED
    BY <1>2, <1>4 DEF IInv

LEMMA RecvNothingStep ==
    ASSUME IInv, NEW c \in Clients, RecvNothing(c)
    PROVE  IInv'
<1>1. /\ serving' = {} /\ line' = LineShut(c)
      /\ UNCHANGED <<clientVars, pc, stream, server, queue, printed, cut>>
    BY DEF RecvNothing
<1>2. ClientsInv' /\ ServerInv'
    BY <1>1, ClientsStay, ServerStays
<1>3. Shapes'
    BY <1>1, LineCloses DEF IInv, Shapes, clientVars
<1> QED
    BY <1>2, <1>3 DEF IInv

(* What one recv takes from a connection: the list or an error, and an     *)
(* error only when there was more to come.                                 *)
LEMMA OneRecv ==
    ASSUME IInv, NEW c \in Clients, NEW n \in 1..Len(stream[c])
    PROVE  LET read == UnpackData(SubSeq(stream[c], 1, n))
           IN /\ read.ok => read.list = TheList
              /\ ~read.ok => n < Len(stream[c])
<1> DEFINE buf == Pack(TheList).buf
           read == UnpackData(SubSeq(buf, 1, n))
<1>1. stream[c] \in {<<>>, buf}
    BY DEF IInv, ServerInv, StreamsAreWhole
<1>2. stream[c] = buf
  <2>1. stream[c] # <<>>
    OBVIOUS
  <2> QED
    BY <1>1, <2>1
<1>3. TheList \in Lists /\ Decodes(TheList) /\ Len(buf) \in Nat
    BY WireFacts
<1>4. n \in 0..Len(buf) /\ n \in Nat /\ n <= Len(buf)
    BY <1>2, <1>3
<1>5. (read.ok <=> n = Len(buf)) /\ (read.ok => read.list = TheList)
    BY <1>3, <1>4, AllOrNothing
<1> HIDE DEF buf, read
<1>6. ~read.ok => n < Len(buf)
    BY <1>3, <1>4, <1>5
<1> QED
    BY <1>2, <1>5, <1>6 DEF read

LEMMA RecvListStep ==
    ASSUME IInv, NEW c \in Clients, NEW n \in 1..Len(stream[c]), RecvList(c, n)
    PROVE  IInv'
<1> DEFINE read == UnpackData(SubSeq(stream[c], 1, n))
<1>1. /\ read.ok /\ printed' = printed \cup {<<c, read.list>>}
      /\ cut' = IF n < Len(stream[c]) THEN cut \cup {c} ELSE cut
      /\ stream' = [stream EXCEPT ![c] = <<>>]
      /\ serving' = {} /\ line' = LineShut(c)
      /\ UNCHANGED <<clientVars, pc, server, queue>>
    BY DEF RecvList, Served
<1>2. read.list = TheList
    BY <1>1, OneRecv
<1> HIDE DEF read
<1>3. ClientsInv'
    BY <1>1, ClientsStay
<1>4. PrintedWhole'
    BY <1>1, <1>2 DEF IInv, ServerInv, PrintedWhole
<1>5. DiesOnlyOfACut' /\ cut' \subseteq Clients
    BY <1>1 DEF IInv, ServerInv, DiesOnlyOfACut, Shapes
<1>6. StreamsAreWhole' /\ DOMAIN stream' = Clients
    BY <1>1 DEF IInv, ServerInv, StreamsAreWhole, Shapes
<1>7. Shapes'
    BY <1>1, <1>5, <1>6, LineCloses DEF IInv, Shapes, clientVars
<1> QED
    BY <1>3, <1>4, <1>5, <1>6, <1>7 DEF IInv, ServerInv

LEMMA RecvRaisesStep ==
    ASSUME IInv, NEW c \in Clients, NEW n \in 1..Len(stream[c]), RecvRaises(c, n)
    PROVE  IInv'
<1>1. /\ ~UnpackData(SubSeq(stream[c], 1, n)).ok
      /\ cut' = IF n < Len(stream[c]) THEN cut \cup {c} ELSE cut
      /\ server' = "dead" /\ queue' = <<>> /\ serving' = {}
      /\ stream' = [d \in Clients |-> <<>>]
      /\ line' = [d \in Clients |->
                    IF d \in serving \cup ToSet(queue) /\ line[d] = "open"
                    THEN "reset" ELSE line[d]]
      /\ UNCHANGED <<clientVars, pc, printed>>
    BY DEF RecvRaises
<1>2. n < Len(stream[c])
    BY <1>1, OneRecv
<1>3. ClientsInv'
    BY <1>1, ClientsStay
<1>4. cut' = cut \cup {c} /\ cut' \subseteq Clients
    BY <1>1, <1>2 DEF IInv, Shapes
<1>5. ServerInv'
  <2>1. StreamsAreWhole'
    BY <1>1 DEF StreamsAreWhole
  <2>2. PrintedWhole' /\ DiesOnlyOfACut'
    BY <1>1, <1>4 DEF IInv, ServerInv, PrintedWhole, DiesOnlyOfACut
  <2> QED
    BY <2>1, <2>2 DEF ServerInv
<1>6. line' \in [Clients -> {"none", "open", "fin", "shut", "reset"}]
    BY <1>1 DEF IInv, Shapes
<1>7. queue' \in Seq(Clients) /\ DOMAIN stream' = Clients /\ serving' = {}
    BY <1>1
<1>8. Shapes'
    BY <1>1, <1>4, <1>6, <1>7 DEF IInv, Shapes, clientVars
<1> QED
    BY <1>3, <1>5, <1>8 DEF IInv

LEMMA Inductive == IInv /\ [Next]_vars => IInv'
<1> SUFFICES ASSUME IInv, [Next]_vars PROVE IInv'
    OBVIOUS
<1>1. ASSUME NEW c \in Clients, Runs(c) \/ Interrupt(c) PROVE IInv'
  <2>1. CASE InvalidIp(c)
    BY <2>1, InvalidIpStep
  <2>2. CASE CreateHead(c)
    BY <2>2, CreateHeadStep
  <2>3. CASE AppendNode(c)
    BY <2>3, AppendNodeStep
  <2>4. CASE PackList(c)
    BY <2>4, PackListStep
  <2>5. CASE Connect(c)
    BY <2>5, ConnectStep
  <2>6. CASE Write(c)
    BY <2>6, WriteStep
  <2>7. CASE ConnectFails(c) \/ WriteKills(c) \/ Finish(c) \/ Interrupt(c)
    BY <2>7, OtherClientSteps
  <2> QED
    BY <1>1, <2>1, <2>2, <2>3, <2>4, <2>5, <2>6, <2>7 DEF Runs
<1>2. CASE StartServer
    BY <1>2, StartServerStep
<1>3. CASE Accept
    BY <1>3, AcceptStep
<1>4. CASE Recv
  <2>1. PICK c \in serving :
            \/ RecvNothing(c)
            \/ \E n \in 1..Len(stream[c]) : RecvList(c, n) \/ RecvRaises(c, n)
    BY <1>4 DEF Recv
  <2>2. c \in Clients
    BY DEF IInv, Shapes
  <2>3. CASE RecvNothing(c)
    BY <2>2, <2>3, RecvNothingStep
  <2>4. ASSUME NEW n \in 1..Len(stream[c]), RecvList(c, n) PROVE IInv'
    BY <2>2, <2>4, RecvListStep
  <2>5. ASSUME NEW n \in 1..Len(stream[c]), RecvRaises(c, n) PROVE IInv'
    BY <2>2, <2>5, RecvRaisesStep
  <2> QED
    BY <2>1, <2>3, <2>4, <2>5
<1>5. CASE UNCHANGED vars
  <2>1. UNCHANGED <<clientVars, pc, line, stream, serverVars>>
    BY <1>5 DEF vars, clientVars, serverVars
  <2>2. ClientsInv' /\ ServerInv'
    BY <2>1, ClientsStay, ServerStays DEF serverVars
  <2>3. Shapes'
    BY <2>1 DEF IInv, Shapes, clientVars, serverVars
  <2> QED
    BY <2>2, <2>3 DEF IInv
<1> QED
    BY <1>1, <1>2, <1>3, <1>4, <1>5 DEF Next

LEMMA Invariant == Spec => []IInv
<1> QED
    BY Initially, Inductive, PTL DEF Spec

-----------------------------------------------------------------------------
(* What the invariant says of a client's heap.                             *)
LEMMA LinksAreNodes ==
    ASSUME NEW k \in Nat
    PROVE  DOMAIN Links(k, k) = 1..k /\ ToSet(Links(k, k)) \subseteq {NULL} \cup 1..k
    BY DEF Links, ToSet

HeapTyped(h) ==
    /\ h.live \subseteq DOMAIN h.next
    /\ ToSet(h.next) \subseteq {NULL} \cup DOMAIN h.next

LEMMA HeapFacts ==
    ASSUME IInv, NEW c \in Clients
    PROVE  HeapTyped(heap[c]) /\ heap[c].bad = FALSE
<1>1. HeapIsList(c) /\ pc[c] \in Places
    BY DEF IInv, ClientsInv, Shapes
<1>2. NodeCount \in Nat
    BY TransferAssumption DEF TransferAssumption
<1>3. CASE heap[c] = EmptyHeap
    BY <1>3 DEF EmptyHeap, ToSet, HeapTyped
<1>4. ASSUME NEW k \in Nat, NEW val, NEW live, live \subseteq 1..k,
             heap[c] = Heap(Links(k, k), val, live)
      PROVE  HeapTyped(heap[c]) /\ heap[c].bad = FALSE
  <2>1. heap[c].next = Links(k, k) /\ heap[c].live = live /\ heap[c].bad = FALSE
    BY <1>4 DEF Heap
  <2> QED
    BY <1>4, <2>1, LinksAreNodes DEF HeapTyped
<1>5. ASSUME NEW k \in 1..(NodeCount + 1), heap[c] = ListHeap(SubSeq(TheList, 1, k))
      PROVE  HeapTyped(heap[c]) /\ heap[c].bad = FALSE
  <2> DEFINE list == SubSeq(TheList, 1, k)
  <2>1. k \in Nat /\ Len(list) = k
    BY <1>2, TheListFacts
  <2> HIDE DEF list
  <2>2. heap[c] = Heap(Links(k, k), list, 1..k)
    BY <1>5, <2>1 DEF ListHeap, list
  <2> QED
    BY <1>4, <2>1, <2>2
<1>6. CASE Packed(c)
  <2> DEFINE n == NodeCount + 1
  <2>1. heap[c] = Heap(Links(n, n), TheList, {n})
    BY <1>1, <1>6 DEF HeapIsList
  <2>2. n \in Nat /\ {n} \subseteq 1..n
    BY <1>2
  <2> HIDE DEF n
  <2> QED
    BY <1>4, <2>1, <2>2
<1> QED
    BY <1>1, <1>3, <1>5, <1>6 DEF HeapIsList, Packed

(* Types: bytes are bytes, the size that pack returns is not more than it  *)
(* wrote, links lead to nodes, and the server serves one client at a time. *)
THEOREM TypeCorrect == Spec => []TypeOK
<1>1. IInv => TypeOK
  <2> SUFFICES ASSUME IInv PROVE TypeOK
    OBVIOUS
  <2>1. Shapes /\ ClientsInv /\ StreamsAreWhole
    BY DEF IInv, ServerInv
  <2>2. ASSUME NEW c \in Clients
        PROVE  /\ heap[c].live \subseteq DOMAIN heap[c].next
               /\ ToSet(heap[c].next) \subseteq {NULL} \cup DOMAIN heap[c].next
    BY HeapFacts DEF HeapTyped
  <2>3. ASSUME NEW c \in Clients
        PROVE  /\ ToSet(wire[c].buf) \cup ToSet(stream[c]) \subseteq 0..(Base - 1)
               /\ wire[c].size <= Len(wire[c].buf)
    <3> DEFINE buf == Pack(TheList).buf
    <3>1. buf \in Seq(Byte) /\ Len(buf) \in Nat /\ Pack(TheList).size = Len(buf)
        BY WireFacts
    <3>2. stream[c] \in {<<>>, buf} /\ WireIsPacked(c)
        BY <2>1 DEF ClientsInv, StreamsAreWhole
    <3>3. \/ wire[c].buf = buf /\ wire[c].size = Pack(TheList).size
          \/ wire[c].buf = <<>> /\ wire[c].size = 0
        BY <3>2 DEF WireIsPacked
    <3> HIDE DEF buf
    <3>4. wire[c].buf \in Seq(Byte) /\ stream[c] \in Seq(Byte)
      <4>1. buf \in Seq(Byte) /\ <<>> \in Seq(Byte)
        BY <3>1
      <4>2. wire[c].buf \in {<<>>, buf} /\ stream[c] \in {<<>>, buf}
        BY <3>2, <3>3, Zenon
      <4> QED
        BY <4>1, <4>2, Zenon
    <3>5. ASSUME NEW s \in Seq(Byte) PROVE ToSet(s) \subseteq Byte
        BY DEF ToSet
    <3>6. wire[c].size <= Len(wire[c].buf)
        BY <3>1, <3>3
    <3> QED
        BY <3>4, <3>5, <3>6 DEF Byte
  <2>4. ToSet(queue) \subseteq Clients
    BY <2>1 DEF Shapes, ToSet
  <2>5. serving \subseteq Clients /\ Cardinality(serving) <= 1
    <3>1. CASE serving = {}
        BY <3>1, FS_EmptySet
    <3>2. ASSUME NEW c \in Clients, serving = {c}
          PROVE  serving \subseteq Clients /\ Cardinality(serving) <= 1
        BY <3>2, FS_Singleton
    <3> QED
        BY <2>1, <3>1, <3>2 DEF Shapes
  <2>6. pc \in [Clients -> {"start", "building", "packed", "connected", "unconnected",
                            "written"} \cup Ended]
    BY <2>1 DEF Shapes, Places, Ended
  <2> QED
    BY <2>1, <2>2, <2>3, <2>4, <2>5, <2>6 DEF Shapes, TypeOK
<1> QED
    BY <1>1, Invariant, PTL

(* serialize.c: whatever a client has packed, unpack gives it back, for    *)
(* every base and every number of nodes that two bytes can say.            *)
THEOREM UnpackInverts == Spec => []UnpackInvertsPack
<1>1. IInv => UnpackInvertsPack
  <2> SUFFICES ASSUME IInv, NEW c \in Clients, Packed(c)
               PROVE  Unpack(wire[c].buf) = TheList
    BY DEF UnpackInvertsPack, Packed
  <2>1. wire[c] = Pack(TheList)
    BY DEF IInv, ClientsInv, WireIsPacked
  <2> QED
    BY <2>1, WireFacts, ListSurvives
<1> QED
    BY <1>1, Invariant, PTL

(* node.c: however long the list is, no step uses a node that was freed,   *)
(* and delete_list leaves the last node behind and no other.               *)
THEOREM LeakIsTheLast == Spec => []OnlyTheLastNodeLeaks
<1>1. IInv => OnlyTheLastNodeLeaks
  <2> SUFFICES ASSUME IInv, NEW c \in Clients
               PROVE  ~heap[c].bad /\ (Packed(c) => heap[c].live = {NodeCount + 1})
    BY DEF OnlyTheLastNodeLeaks, Packed
  <2>1. heap[c].bad = FALSE
    BY HeapFacts
  <2>2. ASSUME Packed(c) PROVE heap[c].live = {NodeCount + 1}
    <3>1. heap[c] = Heap(Links(NodeCount + 1, NodeCount + 1), TheList, {NodeCount + 1})
        BY <2>2 DEF IInv, ClientsInv, HeapIsList
    <3> QED
        BY <3>1 DEF Heap
  <2> QED
    BY <2>1, <2>2
<1> QED
    BY <1>1, Invariant, PTL

(* server.py: wherever TCP cuts a list, for every list a client builds and *)
(* any number of clients, the server prints it whole or not at all.        *)
THEOREM PrintsWhole == Spec => []PrintedWhole
<1>1. IInv => PrintedWhole
    BY DEF IInv, ServerInv
<1> QED
    BY <1>1, Invariant, PTL

(* server.py: nothing but a list that arrived in pieces ends the server.   *)
THEOREM DiesOfACut == Spec => []DiesOnlyOfACut
<1>1. IInv => DiesOnlyOfACut
    BY DEF IInv, ServerInv
<1> QED
    BY <1>1, Invariant, PTL
=============================================================================
