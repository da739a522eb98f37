--------------------------- MODULE VrrpPeers_proofs ---------------------------
(***************************************************************************)
(* Proofs about VrrpPeers: the checksums of the frames, in the first part, *)
(* and what one router makes of what the other builds, in the second.      *)
(***************************************************************************)
EXTENDS VrrpPeers, VrrpState_proofs

-----------------------------------------------------------------------------
\* The checksum of VrrpFrames.

\* What a uint32_t can hold.
Sums == 0..(Word16 * Word16 - 1)

\* Quotient and remainder.
LEMMA DivMod ==
  ASSUME NEW a \in Nat, NEW b \in Nat, b > 0
  PROVE  /\ a \div b \in Nat /\ a % b \in Nat /\ a % b < b
         /\ a = b * (a \div b) + (a % b)
BY SMT

\* They are determined by the value.
LEMMA DivModUnique ==
  ASSUME NEW b \in Nat, b > 0, NEW x \in Nat, NEW r \in Nat, r < b
  PROVE  (b * x + r) % b = r
BY SMT

\* The carry of the first addition, and the result of the second one.
Carry(w, s) == s \div w
Folded(w, s) == (s + Carry(w, s)) % w

\* The fold of a sum with halves h and l, for words of w values: the second
\* addition has no carry.
LEMMA Carries ==
  ASSUME NEW w \in Nat, w > 1, NEW h \in Nat, NEW l \in Nat, h < w, l < w
  PROVE  /\ Carry(w, h + l) \in Nat
         /\ Folded(w, h + l) \in Nat /\ Folded(w, h + l) < w
         /\ h + l = Folded(w, h + l) + Carry(w, h + l) * (w - 1)
<1> DEFINE s == h + l
           d == Carry(w, s)
           f == Folded(w, s)
<1>0. d = s \div w /\ f = (s + d) % w
  BY DEF Carry, Folded
<1> SUFFICES d \in Nat /\ f \in Nat /\ f < w /\ s = f + d * (w - 1)
  OBVIOUS
<1> HIDE DEF d, f
<1>1. s \in Nat /\ d \in Nat /\ s % w \in Nat /\ s % w < w /\ s = w * d + (s % w)
  BY <1>0, DivMod, SMT
<1>2. CASE s < w
  <2>1. d = 0 BY <1>1, <1>2, SMT
  <2>2. f = s BY <1>0, <1>1, <1>2, <2>1, SMTT(40)
  <2> QED BY <1>1, <1>2, <2>1, <2>2, SMTT(40)
<1>3. CASE s >= w
  <2>1. d = 1 BY <1>1, <1>3, SMT
  <2>2. s + d = w * 1 + (s + 1 - w) /\ s + 1 - w \in Nat /\ s + 1 - w < w
    BY <1>1, <1>3, <2>1, SMT
  <2>3. f = s + 1 - w BY <1>0, <2>2, DivModUnique, SMT
  <2> QED BY <1>1, <2>1, <2>2, <2>3, SMTT(40)
<1> QED BY <1>1, <1>2, <1>3, SMT

\* A sum is its fold and a multiple of 2^16 - 1: the fold is the one's complement
\* sum that the Internet checksum asks for.
LEMMA FoldIs ==
  ASSUME NEW sum \in Sums
  PROVE  \E k \in Nat : /\ fold(sum) \in Nat /\ fold(sum) < Word16
                       /\ sum = fold(sum) + k * (Word16 - 1)
<1> DEFINE h == sum \div Word16
           l == sum % Word16
           d == Carry(Word16, h + l)
           f == Folded(Word16, h + l)
<1>1. Word16 \in Nat /\ Word16 > 1
  BY SMT DEF Word16
<1>2. sum \in Nat /\ sum < Word16 * Word16
  BY <1>1, SMT DEF Sums
<1>3. h \in Nat /\ l \in Nat /\ l < Word16 /\ sum = Word16 * h + l
  BY <1>1, <1>2, DivMod, SMT
<1>4. fold(sum) = f
  BY DEF fold, Folded, Carry
<1>5. h < Word16
  <2> HIDE DEF h, l
  <2>1. Word16 * h < Word16 * Word16
    BY <1>1, <1>2, <1>3, SMT
  <2> QED BY <1>1, <1>3, <2>1, SMT
<1> HIDE DEF h, l
<1>6. d \in Nat /\ f \in Nat /\ f < Word16 /\ h + l = f + d * (Word16 - 1)
  BY <1>1, <1>3, <1>5, Carries, ZenonT(60)
<1> HIDE DEF d, f
<1>7. h + d \in Nat /\ sum = f + (h + d) * (Word16 - 1)
  BY <1>1, <1>3, <1>6, SMTT(40)
<1> QED BY <1>4, <1>6, <1>7, Zenon

\* Two advertisements that differ in the priority alone never have the same
\* checksum (cksum in common.h): a priority rewritten without its checksum
\* (vrrp_adv_send_zero, vrrp_adv_set_priority) is always noticed, which is what
\* the abstract checksum of VrrpNet says.  rest is the sum of the other words and
\* of the low byte of the word the priority is in.
THEOREM PrioritiesTold ==
  ASSUME NEW rest \in Nat, NEW p \in 0..255, NEW q \in 0..255,
         rest + 256 * p \in Sums, rest + 256 * q \in Sums,
         fold(rest + 256 * p) = fold(rest + 256 * q)
  PROVE  p = q
<1> DEFINE x == rest + 256 * p
           y == rest + 256 * q
<1>0. x \in Sums /\ y \in Sums /\ fold(x) = fold(y)
  OBVIOUS
<1> HIDE DEF x, y
<1>1. PICK j \in Nat : fold(x) \in Nat /\ x = fold(x) + j * (Word16 - 1)
  BY <1>0, FoldIs, ZenonT(60)
<1>2. PICK k \in Nat : y = fold(y) + k * (Word16 - 1)
  BY <1>0, FoldIs, ZenonT(60)
<1>3. 256 * (p - q) = (j - k) * (Word16 - 1)
  BY <1>0, <1>1, <1>2, SMTT(40) DEF Word16, x, y
<1>4. j = k
  BY <1>3, SMTT(40) DEF Word16
<1> QED BY <1>3, <1>4, SMTT(40) DEF Word16

--------------------------------------------------------------------------------
(* The sum of a buffer. *)

\* s holds the sums of the first words of b, up to n of them.
Sum(b, s, n) == s = [k \in 0..n |-> IF k = 0 THEN 0 ELSE s[k - 1] + b[k]]

\* The local function of cksum, and its last value.
Partial(buf) == CHOOSE s : Sum(buf, s, Len(buf))
Total(buf) == Partial(buf)[Len(buf)]

LEMMA CksumIs == \A buf : cksum(buf) = (Word16 - 1) - fold(Total(buf))
BY Zenon DEF cksum, Total, Partial, Sum

LEMMA SumExists ==
  ASSUME NEW b
  PROVE  \A n \in Nat : \E s : Sum(b, s, n)
<1> DEFINE T == {n \in Nat : \E s : Sum(b, s, n)}
<1>1. 0 \in T
  <2> DEFINE s == [k \in 0..0 |-> 0]
  <2>1. Sum(b, s, 0)
    BY SMT DEF Sum
  <2> QED BY <2>1
<1>2. ASSUME NEW n \in Nat, n \in T PROVE n + 1 \in T
  <2>1. PICK s : Sum(b, s, n)
    BY <1>2
  <2> DEFINE t == [k \in 0..(n + 1) |-> IF k = n + 1 THEN s[n] + b[n + 1] ELSE s[k]]
  <2>2. \A k \in 0..n : s[k] = IF k = 0 THEN 0 ELSE s[k - 1] + b[k]
    BY <2>1, Zenon DEF Sum
  <2>3. \A k \in 0..(n + 1) : t[k] = IF k = 0 THEN 0 ELSE t[k - 1] + b[k]
    BY <2>2, SMT
  <2>4. Sum(b, t, n + 1)
    <3>1. t = [k \in 0..(n + 1) |-> t[k]]
      OBVIOUS
    <3> HIDE DEF t
    <3> QED BY <2>3, <3>1, Zenon DEF Sum
  <2> QED BY <2>4, SMT
<1> HIDE DEF T
<1>3. Nat \subseteq T
  BY <1>1, <1>2, Induct, ZenonT(60)
<1> QED BY <1>3 DEF T

LEMMA PartialSums ==
  ASSUME NEW b \in Seq(Nat)
  PROVE  /\ Len(b) \in Nat /\ Partial(b)[0] = 0
         /\ \A n \in 1..Len(b) : Partial(b)[n] = Partial(b)[n - 1] + b[n]
         /\ \A n \in 0..Len(b) : Partial(b)[n] \in Nat
         /\ Total(b) \in Nat
<1> DEFINE p == Partial(b)
<1>1. Len(b) \in Nat
  OBVIOUS
<1>2. Sum(b, p, Len(b))
  BY <1>1, SumExists, Zenon DEF Partial
<1> HIDE DEF p
<1>3. \A k \in 0..Len(b) : p[k] = IF k = 0 THEN 0 ELSE p[k - 1] + b[k]
  BY <1>2, Zenon DEF Sum
<1>4. p[0] = 0 /\ \A n \in 1..Len(b) : p[n] = p[n - 1] + b[n]
  BY <1>1, <1>3, SMT
<1> DEFINE T == {n \in Nat : n <= Len(b) => p[n] \in Nat}
<1>5. 0 \in T
  BY <1>4, SMT
<1>6. ASSUME NEW n \in Nat, n \in T PROVE n + 1 \in T
  <2>1. CASE n + 1 <= Len(b)
    <3>1. n + 1 \in 1..Len(b) /\ n + 1 - 1 = n /\ n <= Len(b)
      BY <1>1, <2>1, SMTT(40)
    <3>2. p[n + 1] = p[n] + b[n + 1] /\ p[n] \in Nat
      BY <1>4, <1>6, <3>1, SMTT(40)
    <3>3. b[n + 1] \in Nat
      BY <3>1
    <3> QED BY <3>2, <3>3, SMT
  <2>2. CASE ~(n + 1 <= Len(b))
    BY <2>2, SMT
  <2> QED BY <2>1, <2>2
<1> HIDE DEF T
<1>7. Nat \subseteq T
  BY <1>5, <1>6, Induct, ZenonT(60)
<1>8. \A n \in 0..Len(b) : p[n] \in Nat
  BY <1>1, <1>7, SMT DEF T
<1>9. Total(b) \in Nat
  <2>1. Len(b) \in 0..Len(b)
    BY <1>1, SMT
  <2> QED BY <1>8, <2>1, Zenon DEF Total, p
<1> QED BY <1>1, <1>4, <1>8, <1>9, ZenonT(60) DEF p

LEMMA TotalConcat ==
  ASSUME NEW s \in Seq(Nat), NEW t \in Seq(Nat)
  PROVE  s \o t \in Seq(Nat) /\ Total(s \o t) = Total(s) + Total(t)
<1> DEFINE u == s \o t
           l == Len(s)
           m == Len(t)
           S == Partial(s)
           P == Partial(t)
           U == Partial(u)
<1>1. /\ u \in Seq(Nat) /\ Len(u) = l + m /\ l \in Nat /\ m \in Nat
      /\ \A n \in 1..l : u[n] = s[n]
      /\ \A n \in 1..m : u[l + n] = t[n]
  OBVIOUS
<1> HIDE DEF u
<1>2. /\ S[0] = 0 /\ \A n \in 1..l : S[n] = S[n - 1] + s[n]
      /\ P[0] = 0 /\ \A n \in 1..m : P[n] = P[n - 1] + t[n]
      /\ U[0] = 0 /\ \A n \in 1..(l + m) : U[n] = U[n - 1] + u[n]
      /\ S[l] \in Nat /\ \A n \in 0..m : P[n] \in Nat
      /\ \A n \in 1..m : t[n] \in Nat
  <2>1. S[l] \in Nat
    BY PartialSums, Zenon DEF Total
  <2>2. S[0] = 0 /\ \A n \in 1..l : S[n] = S[n - 1] + s[n]
    BY PartialSums, Zenon
  <2>3. P[0] = 0 /\ \A n \in 1..m : P[n] = P[n - 1] + t[n]
    BY PartialSums, ZenonT(60)
  <2>4. U[0] = 0 /\ \A n \in 1..(l + m) : U[n] = U[n - 1] + u[n]
    BY <1>1, PartialSums, ZenonT(60)
  <2>5. \A n \in 0..m : P[n] \in Nat
    BY PartialSums, ZenonT(60)
  <2>6. \A n \in 1..m : t[n] \in Nat
    OBVIOUS
  <2> QED BY <2>1, <2>2, <2>3, <2>4, <2>5, <2>6, ZenonT(60)
<1> HIDE DEF S, P, U, l, m
<1> DEFINE V == {n \in Nat : n <= l => U[n] = S[n]}
<1>3. 0 \in V
  BY <1>2, SMT
<1>4. ASSUME NEW n \in Nat, n \in V PROVE n + 1 \in V
  <2>1. CASE n + 1 <= l
    <3>1. n + 1 \in 1..l /\ n + 1 \in 1..(l + m) /\ n + 1 - 1 = n /\ n <= l
      BY <1>1, <2>1, SMTT(40)
    <3>2. U[n + 1] = U[n] + u[n + 1] /\ S[n + 1] = S[n] + s[n + 1] /\ U[n] = S[n]
      BY <1>2, <1>4, <3>1, SMT
    <3>3. u[n + 1] = s[n + 1]
      BY <1>1, <3>1, SMTT(40)
    <3> QED BY <3>2, <3>3, SMTT(40)
  <2>2. CASE ~(n + 1 <= l)
    BY <2>2, SMT
  <2> QED BY <2>1, <2>2
<1> HIDE DEF V
<1>5. Nat \subseteq V
  BY <1>3, <1>4, Induct, ZenonT(60)
<1>6. U[l] = S[l]
  BY <1>1, <1>5, SMTT(40) DEF V
<1> DEFINE W == {n \in Nat : n <= m => U[l + n] = S[l] + P[n]}
<1>7. 0 \in W
  BY <1>1, <1>2, <1>6, SMTT(40)
<1>8. ASSUME NEW n \in Nat, n \in W PROVE n + 1 \in W
  <2>0. l \in Nat /\ m \in Nat /\ (n <= m => U[l + n] = S[l] + P[n])
    BY <1>1, <1>8
  <2> HIDE DEF W
  <2>1. CASE n + 1 <= m
    <3>1. /\ n + 1 \in 1..m /\ l + (n + 1) \in 1..(l + m) /\ l + (n + 1) - 1 = l + n
          /\ n + 1 - 1 = n /\ n <= m /\ n \in 0..m
      BY <2>0, <2>1, SMTT(40)
    <3>2. /\ U[l + (n + 1)] = U[l + n] + u[l + (n + 1)]
          /\ P[n + 1] = P[n] + t[n + 1]
          /\ U[l + n] = S[l] + P[n]
      BY <1>2, <2>0, <3>1, SMTT(40)
    <3>3. u[l + (n + 1)] = t[n + 1] /\ t[n + 1] \in Nat /\ P[n] \in Nat
      BY <1>1, <1>2, <3>1, SMTT(40)
    <3>4. U[l + (n + 1)] = S[l] + P[n + 1]
      <4>1. \A x, y, z \in Nat : (x + y) + z = x + (y + z)
        BY SMT
      <4>2. U[l + (n + 1)] = (S[l] + P[n]) + t[n + 1]
        BY <3>2, <3>3, ZenonT(60)
      <4>3. (S[l] + P[n]) + t[n + 1] = S[l] + (P[n] + t[n + 1])
        BY <1>2, <3>3, <4>1, ZenonT(60)
      <4> QED BY <3>2, <4>2, <4>3, Zenon
    <3> QED BY <3>4, SMT DEF W
  <2>2. CASE ~(n + 1 <= m)
    BY <2>2, SMT DEF W
  <2> QED BY <2>1, <2>2
<1> HIDE DEF W
<1>9. Nat \subseteq W
  BY <1>7, <1>8, Induct, Zenon
<1>10. U[l + m] = S[l] + P[m]
  BY <1>1, <1>9, SMTT(40) DEF W
<1> QED BY <1>1, <1>10, ZenonT(60) DEF Total, S, P, U, l, m, u

Words == 0..(Word16 - 1)

LEMMA WordNat ==
  /\ Word16 \in Nat /\ Word16 - 1 \in Nat /\ Words \subseteq Nat
  /\ \A x \in Words : x \in Nat /\ x <= Word16 - 1
BY SMT DEF Words, Word16

LEMMA WordSeq == \A b \in Seq(Words) : b \in Seq(Nat)
<1> TAKE b \in Seq(Words)
<1>1. /\ Len(b) \in Nat /\ b = [n \in 1..Len(b) |-> b[n]]
      /\ \A n \in 1..Len(b) : b[n] \in Words
  OBVIOUS
<1>2. \A n \in 1..Len(b) : b[n] \in Nat
  BY <1>1, WordNat, Zenon
<1> QED BY <1>1, <1>2

LEMMA TotalBound ==
  ASSUME NEW b \in Seq(Words)
  PROVE  Total(b) <= (Word16 - 1) * Len(b)
<1> DEFINE p == Partial(b)
           l == Len(b)
           w == Word16 - 1
<1>0. \A n \in 1..Len(b) : b[n] \in Words
  OBVIOUS
<1>1. b \in Seq(Nat) /\ \A n \in 1..Len(b) : b[n] \in Words
  BY <1>0, WordSeq
<1>2. /\ l \in Nat /\ p[0] = 0 /\ \A n \in 1..l : p[n] = p[n - 1] + b[n]
      /\ \A n \in 0..l : p[n] \in Nat
  BY <1>1, PartialSums
<1>3. w \in Nat /\ \A n \in 1..l : b[n] \in Nat /\ b[n] <= w
  <2>1. w \in Nat /\ \A x \in Words : x \in Nat /\ x <= w
    BY WordNat, Zenon
  <2> HIDE DEF w
  <2> QED BY <1>1, <2>1, Zenon
<1> HIDE DEF p, l, w
<1> DEFINE T == {n \in Nat : n <= l => p[n] <= w * n}
<1>4. 0 \in T
  BY <1>2, <1>3, SMTT(40)
<1>5. ASSUME NEW n \in Nat, n \in T PROVE n + 1 \in T
  <2>1. CASE n + 1 <= l
    <3>1. n + 1 \in 1..l /\ n + 1 - 1 = n /\ n <= l /\ n \in 0..l
      BY <1>2, <2>1, SMTT(40)
    <3>2. /\ p[n + 1] = p[n] + b[n + 1] /\ p[n] <= w * n
          /\ p[n] \in Nat /\ b[n + 1] \in Nat /\ b[n + 1] <= w
      BY <1>2, <1>3, <1>5, <3>1, SMTT(40)
    <3>3. w * (n + 1) = w * n + w /\ w * n \in Nat
      BY <1>3, SMT
    <3> QED BY <1>3, <3>2, <3>3, SMTT(40)
  <2>2. CASE ~(n + 1 <= l)
    BY <2>2, SMT
  <2> QED BY <2>1, <2>2, SMTT(40)
<1> HIDE DEF T
<1>6. Nat \subseteq T
  BY <1>4, <1>5, Induct, ZenonT(60)
<1>7. p[l] <= w * l
  BY <1>2, <1>6, SMTT(40) DEF T
<1> QED BY <1>7, Zenon DEF Total, p, l, w

LEMMA TotalTwo == \A a, b \in Nat : <<a, b>> \in Seq(Nat) /\ Total(<<a, b>>) = a + b
<1> TAKE a \in Nat, b \in Nat
<1> DEFINE s == <<a, b>>
<1>1. s \in Seq(Nat) /\ Len(s) = 2 /\ s[1] = a /\ s[2] = b
  OBVIOUS
<1> HIDE DEF s
<1>2. /\ Partial(s)[0] = 0 /\ Partial(s)[1] = Partial(s)[0] + s[1]
      /\ Partial(s)[2] = Partial(s)[1] + s[2]
  <2>1. Partial(s)[0] = 0 /\ \A n \in 1..Len(s) : Partial(s)[n] = Partial(s)[n - 1] + s[n]
    BY <1>1, PartialSums, ZenonT(60)
  <2> QED BY <1>1, <2>1, SMTT(40)
<1>3. Partial(s)[2] = a + b
  BY <1>1, <1>2, SMTT(40)
<1> QED BY <1>1, <1>3, ZenonT(60) DEF Total, s

LEMMA TotalFour ==
  \A a, b, d, e \in Nat :
    <<a, b, d, e>> \in Seq(Nat) /\ Total(<<a, b, d, e>>) = a + b + d + e
<1> TAKE a \in Nat, b \in Nat, d \in Nat, e \in Nat
<1> DEFINE s == <<a, b, d, e>>
<1>1. <<a, b>> \in Seq(Nat) /\ <<d, e>> \in Seq(Nat) /\ s = <<a, b>> \o <<d, e>>
  OBVIOUS
<1>2. s \in Seq(Nat)
  OBVIOUS
<1> HIDE DEF s
<1>3. Total(s) = (a + b) + (d + e)
  <2>1. Total(<<a, b>>) = a + b /\ Total(<<d, e>>) = d + e
    BY TotalTwo, Zenon
  <2>2. Total(<<a, b>> \o <<d, e>>) = Total(<<a, b>>) + Total(<<d, e>>)
    BY <1>1, TotalConcat, ZenonT(60)
  <2> QED BY <1>1, <2>1, <2>2, ZenonT(60)
<1> QED BY <1>2, <1>3, SMTT(40) DEF s

--------------------------------------------------------------------------------
(* Neighbour advertisements. *)

\* Addresses of which the model keeps 32 bits.
Addrs == 0..(Word16 * Word16 - 1)

LEMMA Halves ==
  \A a \in Addrs : a \div Word16 \in Words /\ a % Word16 \in Words
<1> TAKE a \in Addrs
<1> DEFINE h == a \div Word16
           l == a % Word16
<1>1. Word16 \in Nat /\ Word16 > 1
  BY SMT DEF Word16
<1>2. a \in Nat /\ a < Word16 * Word16
  BY <1>1, SMT DEF Addrs
<1>3. h \in Nat /\ l \in Nat /\ l < Word16 /\ a = Word16 * h + l
  BY <1>1, <1>2, DivMod, SMTT(40)
<1> HIDE DEF h, l
<1>4. Word16 * h < Word16 * Word16
  BY <1>1, <1>2, <1>3, SMT
<1>5. h < Word16
  BY <1>1, <1>3, <1>4, SMT
<1> QED BY <1>1, <1>3, <1>5, SMTT(40) DEF Words, h, l

LEMMA TotalEight ==
  \A g, h, l \in Nat : /\ <<g, 0, 0, 0, 0, 0, h, l>> \in Seq(Nat)
                       /\ Total(<<g, 0, 0, 0, 0, 0, h, l>>) = g + h + l
<1> TAKE g \in Nat, h \in Nat, l \in Nat
<1> DEFINE x == <<g, 0, 0, 0>>
           y == <<0, 0, h, l>>
           z == <<g, 0, 0, 0, 0, 0, h, l>>
<1>1. z = x \o y /\ z \in Seq(Nat) /\ 0 \in Nat
  OBVIOUS
<1>2. /\ x \in Seq(Nat) /\ Total(x) = g + 0 + 0 + 0
      /\ y \in Seq(Nat) /\ Total(y) = 0 + 0 + h + l
  <2> DEFINE o == 0
  <2>1. o \in Nat
    OBVIOUS
  <2> HIDE DEF o
  <2>2. <<g, o, o, o>> \in Seq(Nat) /\ Total(<<g, o, o, o>>) = g + o + o + o
    BY <2>1, TotalFour, SMTT(40)
  <2>3. <<o, o, h, l>> \in Seq(Nat) /\ Total(<<o, o, h, l>>) = o + o + h + l
    BY <2>1, TotalFour, SMT
  <2> QED BY <2>2, <2>3, ZenonT(60) DEF o
<1> HIDE DEF x, y, z
<1>3. Total(z) = Total(x) + Total(y)
  BY <1>1, <1>2, TotalConcat, ZenonT(60)
<1>4. Total(z) = g + h + l
  BY <1>2, <1>3, SMTT(40)
<1> QED BY <1>1, <1>4 DEF z

LEMMA TotalIp6 ==
  ASSUME NEW a \in Addrs
  PROVE  /\ Ip6(a) \in Seq(Nat)
         /\ Total(Ip6(a)) = 65152 + (a \div Word16) + (a % Word16)
<1> DEFINE g == 65152
           h == a \div Word16
           l == a % Word16
<1>1. h \in Nat /\ l \in Nat /\ g \in Nat
  <2>1. h \in Words /\ l \in Words
    BY Halves, Zenon
  <2>2. g \in Nat
    OBVIOUS
  <2> HIDE DEF g, h, l
  <2> QED BY <2>1, <2>2, WordNat, ZenonT(60)
<1>2. Ip6(a) = <<g, 0, 0, 0, 0, 0, h, l>>
  BY DEF Ip6
<1> HIDE DEF g, h, l
<1>3. /\ <<g, 0, 0, 0, 0, 0, h, l>> \in Seq(Nat)
      /\ Total(<<g, 0, 0, 0, 0, 0, h, l>>) = g + h + l
  BY <1>1, TotalEight
<1>4. Ip6(a) \in Seq(Nat) /\ Total(Ip6(a)) = g + h + l
  BY <1>2, <1>3, ZenonT(60)
<1> QED BY <1>4 DEF g, h, l

\* The fold of a sum of which something is not 0 is not 0.
LEMMA FoldZero ==
  ASSUME NEW sum \in Sums, fold(sum) = 0
  PROVE  sum = 0
<1> DEFINE h == sum \div Word16
           l == sum % Word16
           s == h + l
           d == s \div Word16
<1>1. Word16 \in Nat /\ Word16 > 1
  BY SMT DEF Word16
<1>2. sum \in Nat /\ sum < Word16 * Word16
  BY <1>1, SMT DEF Sums
<1>3. h \in Nat /\ l \in Nat /\ l < Word16 /\ sum = Word16 * h + l
  BY <1>1, <1>2, DivMod, SMTT(40)
<1>4. (s + d) % Word16 = 0
  BY DEF fold
<1>5. h < Word16
  <2> HIDE DEF h, l
  <2>1. Word16 * h < Word16 * Word16
    BY <1>1, <1>2, <1>3, SMTT(40)
  <2> QED BY <1>1, <1>3, <2>1, SMTT(40)
<1> HIDE DEF h, l
<1>6. s = 0
  BY <1>3, <1>4, <1>5, SMTT(40) DEF Word16
<1> QED BY <1>1, <1>3, <1>6, SMTT(40)

\* A sum and the complement of its fold verify: the receiver finds 0.
LEMMA Verifies ==
  ASSUME NEW t \in Nat, t > 0, t + (Word16 - 1) \in Sums
  PROVE  /\ (Word16 - 1) - fold(t) \in Nat
         /\ fold(t + ((Word16 - 1) - fold(t))) = Word16 - 1
<1> DEFINE m == Word16 - 1
           f == fold(t)
           x == t + (m - f)
<1>1. m \in Nat /\ Word16 = m + 1 /\ m = 65535
  BY SMT DEF Word16
<1> HIDE DEF m
<1> DEFINE q == Word16 * Word16 - 1
<1>2. q \in Nat /\ Sums = 0..q
  <2>1. Word16 \in Nat /\ Word16 > 0
    BY SMT DEF Word16
  <2>2. q \in Nat
    BY <2>1, SMT
  <2> QED BY <2>2, Zenon DEF Sums
<1> HIDE DEF q
<1>3. t + m \in 0..q /\ t \in Sums
  <2>1. t + m \in 0..q
    BY <1>2, Zenon DEF m
  <2> QED BY <1>1, <1>2, <2>1, SMTT(40)
<1>4. PICK k \in Nat : f \in Nat /\ f < Word16 /\ t = f + k * m
  BY <1>3, FoldIs, ZenonT(60) DEF m
<1> HIDE DEF f
<1>5. m - f \in Nat /\ m - f <= m
  BY <1>1, <1>4, SMTT(40)
<1>6. x \in Sums /\ x > 0
  <2>1. x \in 0..q /\ x > 0
    BY <1>1, <1>2, <1>3, <1>5, SMTT(40)
  <2> QED BY <1>2, <2>1, ZenonT(60)
<1>7. x = (k + 1) * m
  <2>1. (k + 1) * m = k * m + m /\ k * m \in Nat
    BY <1>1, SMT
  <2> QED BY <1>1, <1>4, <2>1, SMTT(40)
<1> HIDE DEF x
<1> DEFINE g == fold(x)
<1>8. PICK j \in Nat : g \in Nat /\ g < Word16 /\ x = g + j * m
  BY <1>6, FoldIs, ZenonT(60) DEF m
<1>9. g # 0
  BY <1>6, FoldZero, SMTT(40)
<1> HIDE DEF g
<1>10. g = m
  BY <1>1, <1>7, <1>8, <1>9, SMTT(40)
<1> QED BY <1>5, <1>10, ZenonT(60) DEF g, f, x, m

LEMMA TotalFive ==
  ASSUME NEW a \in Seq(Nat), NEW b \in Seq(Nat), NEW k \in Seq(Nat),
         NEW n \in Seq(Nat), NEW v \in Seq(Nat)
  PROVE  Total(a \o b \o k \o (n \o v))
           = Total(a) + Total(b) + Total(k) + (Total(n) + Total(v))
<1>1. a \o b \in Seq(Nat) /\ Total(a \o b) = Total(a) + Total(b)
  BY TotalConcat, Zenon
<1>2. a \o b \o k \in Seq(Nat) /\ Total(a \o b \o k) = Total(a) + Total(b) + Total(k)
  BY <1>1, TotalConcat, ZenonT(60)
<1>3. n \o v \in Seq(Nat) /\ Total(n \o v) = Total(n) + Total(v)
  BY TotalConcat, Zenon
<1> DEFINE p == a \o b \o k
           q == n \o v
<1>4. p \in Seq(Nat) /\ q \in Seq(Nat)
  BY <1>2, <1>3
<1> HIDE DEF p, q
<1>5. Total(p \o q) = Total(p) + Total(q)
  BY <1>4, TotalConcat, ZenonT(60)
<1> QED BY <1>2, <1>3, <1>5, ZenonT(60) DEF p, q

LEMMA SmallSum == \A t \in Nat : t < 1000000 => t + (Word16 - 1) \in Sums
<1> DEFINE q == Word16 * Word16 - 1
<1>1. q \in Nat /\ q > 1100000
  BY SMT DEF Word16
<1>2. Word16 - 1 = 65535
  BY SMT DEF Word16
<1> HIDE DEF q
<1>3. \A t \in Nat : t < 1000000 => t + 65535 \in 0..q
  BY <1>1, SMT
<1> QED BY <1>2, <1>3, SMTT(40) DEF Sums, q

\* The neighbour advertisement that vrrp_na_build makes has a checksum that
\* verifies, whatever the address: the length in the wrong half of its 32 bits adds
\* the same to the sum.
LEMMA NaVerifies ==
  ASSUME NEW d, NEW vip \in Addrs
  PROVE  NaAccepted(vrrp_na_build(d, vip))
<1> DEFINE a == Ip6(vip)
           m == IN6ADDR_MCAST
           k == <<NA_SIZE, 0, 0, IPPROTO_ICMPV6>>
           r == <<0, NA_SIZE, 0, IPPROTO_ICMPV6>>
           N(z) == <<34816, z, 40960, 0>>
           x == vrrp_na_chksum(vrrp_na_ip6_build(vip), vip)
           t == Total(a) + Total(m) + Total(k) + (Total(N(0)) + Total(a))
<1>1. a \in Seq(Nat) /\ Total(a) \in Nat /\ Total(a) <= 65152 + 65535 + 65535
  <2>1. vip \div Word16 \in Words /\ vip % Word16 \in Words
    BY Halves, ZenonT(60)
  <2>2. /\ a \in Seq(Nat) /\ Total(a) = 65152 + (vip \div Word16) + (vip % Word16)
    BY TotalIp6
  <2> DEFINE h == vip \div Word16
             l == vip % Word16
  <2>3. h \in Nat /\ l \in Nat /\ h <= Word16 - 1 /\ l <= Word16 - 1
    BY <2>1, WordNat, ZenonT(60)
  <2>4. Word16 - 1 = 65535
    BY SMT DEF Word16
  <2> HIDE DEF a, h, l
  <2>5. Total(a) = 65152 + h + l
    BY <2>2 DEF h, l
  <2> QED BY <2>2, <2>3, <2>4, <2>5, SMTT(40)
<1>2. m \in Seq(Nat) /\ Total(m) = 65283
  <2>1. m = <<65282, 0, 0, 0, 0, 0, 0, 1>>
    BY DEF IN6ADDR_MCAST
  <2>2. 65282 \in Nat /\ 0 \in Nat /\ 1 \in Nat /\ 65282 + 0 + 1 = 65283
    BY SMT
  <2> HIDE DEF m
  <2> QED BY <2>1, <2>2, TotalEight, SMTT(40)
<1>3. /\ k \in Seq(Nat) /\ Total(k) = 82 /\ r \in Seq(Nat) /\ Total(r) = 82
  <2>1. NA_SIZE \in Nat /\ IPPROTO_ICMPV6 \in Nat /\ 0 \in Nat
        /\ NA_SIZE + 0 + 0 + IPPROTO_ICMPV6 = 82 /\ 0 + NA_SIZE + 0 + IPPROTO_ICMPV6 = 82
    BY SMT DEF NA_SIZE, IPPROTO_ICMPV6
  <2> QED BY <2>1, TotalFour, SMTT(40)
<1>4. ASSUME NEW z \in Nat PROVE N(z) \in Seq(Nat) /\ Total(N(z)) = 34816 + z + 40960
  <2> DEFINE y == N(z)
  <2>1. 34816 \in Nat /\ 40960 \in Nat /\ 0 \in Nat
    BY SMT
  <2>2. N(z) \in Seq(Nat) /\ Total(N(z)) = 34816 + z + 40960 + 0
    BY <2>1, TotalFour, SMTT(40)
  <2>3. y \in Seq(Nat) /\ Total(y) = 34816 + z + 40960 + 0
    BY <2>2
  <2> HIDE DEF y
  <2>4. Total(y) = 34816 + z + 40960
    BY <2>3, SMTT(40)
  <2> QED BY <2>3, <2>4, SMTT(40) DEF y
<1>5. x = (Word16 - 1) - fold(Total(a \o m \o k \o (N(0) \o a)))
  <2>1. x = cksum(a \o m \o k \o (N(0) \o a))
    BY DEF vrrp_na_chksum, vrrp_na_ip6_build, NaWords
  <2> HIDE DEF x, a, m, k, N
  <2> QED BY <2>1, CksumIs, ZenonT(60)
<1>6. NaAccepted(vrrp_na_build(d, vip))
      <=> cksum(a \o m \o r \o (N(x) \o a)) = 0
  <2> DEFINE f == vrrp_na_build(d, vip)
  <2>1. f.iph.src = a /\ f.iph.dst = m /\ f.iph.hlim = 255 /\ f.words = NaWords(vip, x)
    BY DEF vrrp_na_build, vrrp_na_ip6_build
  <2>2. NaWords(vip, x) = N(x) \o a
    BY DEF NaWords
  <2> HIDE DEF f, a, m, x, N
  <2> QED BY <2>1, <2>2, ZenonT(60) DEF NaAccepted, f
<1>7. cksum(a \o m \o r \o (N(x) \o a))
      = (Word16 - 1) - fold(Total(a \o m \o r \o (N(x) \o a)))
  <2> HIDE DEF x, a, m, r, N
  <2> QED BY CksumIs, ZenonT(60)
<1> HIDE DEF a, m, k, r, N, x
<1>8. Total(N(0)) = 75776 /\ N(0) \in Seq(Nat)
  <2>1. 0 \in Nat
    OBVIOUS
  <2> QED BY <1>4, <2>1, SMTT(40)
<1>9. Total(a \o m \o k \o (N(0) \o a)) = t
  <2> DEFINE n == N(0)
  <2>1. a \in Seq(Nat) /\ m \in Seq(Nat) /\ k \in Seq(Nat) /\ n \in Seq(Nat)
    BY <1>1, <1>2, <1>3, <1>8, SMTT(40)
  <2> HIDE DEF n
  <2>2. Total(a \o m \o k \o (n \o a))
        = Total(a) + Total(m) + Total(k) + (Total(n) + Total(a))
    BY <2>1, TotalFive, SMTT(40)
  <2> QED BY <2>2 DEF n
<1>10. t \in Nat /\ t > 0 /\ t + (Word16 - 1) \in Sums
  <2>1. t \in Nat /\ t > 0 /\ t < 1000000
    BY <1>1, <1>2, <1>3, <1>8, SMTT(40)
  <2> HIDE DEF t
  <2> QED BY <2>1, SmallSum, SMTT(40)
<1>11. x \in Nat /\ fold(t + x) = Word16 - 1
  <2> HIDE DEF t
  <2> QED BY <1>5, <1>9, <1>10, Verifies, Zenon
<1>12. N(x) \in Seq(Nat) /\ Total(N(x)) = 34816 + x + 40960
  BY <1>4, <1>11, SMTT(40)
<1>13. Total(a \o m \o r \o (N(x) \o a)) = t + x
  <2> DEFINE n == N(x)
  <2>1. a \in Seq(Nat) /\ m \in Seq(Nat) /\ r \in Seq(Nat) /\ n \in Seq(Nat)
    BY <1>1, <1>2, <1>3, <1>12, SMTT(40)
  <2> HIDE DEF n
  <2>2. Total(a \o m \o r \o (n \o a))
        = Total(a) + Total(m) + Total(r) + (Total(n) + Total(a))
    BY <2>1, TotalFive, SMT
  <2>3. Total(n) = 34816 + x + 40960
    BY <1>12, SMTT(40) DEF n
  <2>4. Total(a) + Total(m) + Total(r) + (Total(n) + Total(a)) = t + x
    BY <1>1, <1>2, <1>3, <1>8, <1>11, <2>3, SMTT(40)
  <2> QED BY <2>2, <2>4, ZenonT(60) DEF n
<1>14. (Word16 - 1) - (Word16 - 1) = 0
  BY SMT DEF Word16
<1> QED BY <1>6, <1>7, <1>11, <1>13, <1>14, ZenonT(60)

--------------------------------------------------------------------------------
(* The frames of a new master. *)

\* Every frame is one the hosts do not discard, and the frames cover the addresses.
LEMMA AllAnnounced ==
  ASSUME NEW d, d.vips \in Seq(Addrs)
  PROVE  Announced(d) = {d.vips[n] : n \in 1..Len(d.vips)}
<1> DEFINE l == Len(d.vips)
           last(k) == d.vips[l + 1 - k]
<1>1. l \in Nat /\ \A n \in 1..l : d.vips[n] \in Addrs
  OBVIOUS
<1>2. \A k \in 1..l : l + 1 - k \in 1..l /\ l + 1 - (l + 1 - k) = k
  BY <1>1, SMT
<1>3. {last(k) : k \in 1..l} = {d.vips[n] : n \in 1..l}
  <2> HIDE DEF l
  <2>1. ASSUME NEW n \in 1..l PROVE d.vips[n] \in {last(k) : k \in 1..l}
    <3>1. d.vips[n] = last(l + 1 - n)
      BY <1>2, ZenonT(60)
    <3> QED BY <1>2, <3>1, ZenonT(60)
  <2>2. ASSUME NEW k \in 1..l PROVE last(k) \in {d.vips[n] : n \in 1..l}
    BY <1>2, Zenon
  <2> QED BY <2>1, <2>2, ZenonT(60)
<1>4. CASE d.family = 4
  <2> DEFINE frames == vrrp_arp_send(d)
  <2>1. DOMAIN frames = 1..l
        /\ \A k \in 1..l : frames[k] = vrrp_arp_init(d, last(k))
    BY Zenon DEF vrrp_arp_send
  <2>2. \A k \in 1..l : frames[k].arp.sip = last(k) /\ ArpUpdates(d, frames[k])
    <3>1. \A a : /\ vrrp_arp_init(d, a).arp.sip = a
                 /\ ArpUpdates(d, vrrp_arp_init(d, a))
      BY DEF vrrp_arp_init, vrrp_arp_build, vrrp_arp_vrrp_build, ArpUpdates, VirtualMac, vrrp_arp_eth_build
    <3> QED BY <2>1, <3>1, ZenonT(60)
  <2>3. Announced(d) = {frames[k].arp.sip : k \in {k \in DOMAIN frames : ArpUpdates(d, frames[k])}}
    BY <1>4, Zenon DEF Announced
  <2> HIDE DEF frames, l, last
  <2>4. {k \in DOMAIN frames : ArpUpdates(d, frames[k])} = 1..l
    BY <2>1, <2>2, ZenonT(60)
  <2>5. {frames[k].arp.sip : k \in 1..l} = {last(k) : k \in 1..l}
    BY <2>2, ZenonT(60)
  <2> QED BY <1>3, <2>3, <2>4, <2>5, ZenonT(60) DEF l
<1>5. CASE d.family # 4
  <2> DEFINE frames == vrrp_na_send(d)
  <2>1. DOMAIN frames = 1..l
        /\ \A k \in 1..l : frames[k] = vrrp_na_build(d, last(k))
    BY Zenon DEF vrrp_na_send
  <2>2. \A k \in 1..l : frames[k].target = last(k) /\ NaAccepted(frames[k])
    <3>1. \A a : vrrp_na_build(d, a).target = a
      BY DEF vrrp_na_build
    <3>2. \A k \in 1..l : last(k) \in Addrs
      BY <1>1, <1>2, ZenonT(60)
    <3> HIDE DEF frames, l, last
    <3> QED BY <2>1, <3>1, <3>2, NaVerifies, ZenonT(60)
  <2>3. Announced(d) = {frames[k].target : k \in {k \in DOMAIN frames : NaAccepted(frames[k])}}
    BY <1>5, Zenon DEF Announced
  <2> HIDE DEF frames, l, last
  <2>4. {k \in DOMAIN frames : NaAccepted(frames[k])} = 1..l
    BY <2>1, <2>2, ZenonT(60)
  <2>5. {frames[k].target : k \in 1..l} = {last(k) : k \in 1..l}
    BY <2>2, Zenon
  <2> QED BY <1>3, <2>3, <2>4, <2>5, ZenonT(60) DEF l
<1> QED BY <1>4, <1>5

--------------------------------------------------------------------------------
(* The checksum of an advertisement. *)

VipSize(d) == IF d.family = 4 THEN 2 ELSE 8
VipWord(d, a) == IF d.family = 4 THEN Ip4(a) ELSE Ip6(a)

\* The words of the addresses of a packet.
VipWords(d, p) ==
  [k \in 1..(VipSize(d) * Len(p.vips)) |->
     VipWord(d, p.vips[((k - 1) \div VipSize(d)) + 1])[((k - 1) % VipSize(d)) + 1]]

\* A packet whose bytes are bytes, and what its spare bytes hold.
Framed(d, p, spare) ==
  /\ d.family \in {4, 6} /\ p.version \in {RFC3768, RFC5798}
  /\ p.vrid \in Bytes /\ p.naddr \in Bytes /\ p.hi \in Bytes /\ p.lo \in Bytes
  /\ p.priority \in Bytes
  /\ p.vips \in Seq(Addrs) /\ Len(p.vips) <= 255
  /\ spare \in Seq(Words) /\ Len(spare) = 4

\* What the words of an advertisement add up to, its priority left out.
Rest(d, p, spare) ==
  (p.version * 4096 + 256 + p.vrid) + p.naddr + (p.hi * 256 + p.lo)
    + Total(VipWords(d, p)) + (IF d.family = 4 THEN Total(spare) ELSE 0)

\* Bounds on these sums.
MaxVips == 65535 * 2040
MaxSpare == 65535 * 4
MaxRest == 65535 * 2100

LEMMA VipWordsType ==
  ASSUME NEW d, NEW p, p.vips \in Seq(Addrs), Len(p.vips) <= 255
  PROVE  /\ VipWords(d, p) \in Seq(Nat)
         /\ Total(VipWords(d, p)) \in Nat /\ Total(VipWords(d, p)) <= MaxVips
<1> DEFINE z == VipSize(d)
           l == Len(p.vips)
           W(k) == VipWord(d, p.vips[((k - 1) \div z) + 1])[((k - 1) % z) + 1]
           v == [k \in 1..(z * l) |-> W(k)]
<1>1. l \in Nat /\ l <= 255 /\ \A n \in 1..l : p.vips[n] \in Addrs
  OBVIOUS
<1>2. z \in {2, 8} /\ z \in Nat
  BY DEF VipSize
<1>3. \A a \in Addrs, k \in 1..z : VipWord(d, a)[k] \in Words
  <2> TAKE a \in Addrs
  <2>1. a \div Word16 \in Words /\ a % Word16 \in Words
    BY Halves, ZenonT(60)
  <2>2. 65152 \in Words /\ 0 \in Words
    BY SMT DEF Words, Word16
  <2> DEFINE h == a \div Word16
             m == a % Word16
  <2>3. Ip4(a) = <<h, m>> /\ Ip6(a) = <<65152, 0, 0, 0, 0, 0, h, m>>
    BY DEF Ip4, Ip6
  <2> HIDE DEF h, m
  <2>4. \A k \in 1..2 : Ip4(a)[k] \in Words
    BY <2>1, <2>3, SMTT(40) DEF h, m
  <2>5. \A k \in 1..8 : Ip6(a)[k] \in Words
    BY <2>1, <2>2, <2>3, SMTT(40) DEF h, m
  <2> QED BY <2>4, <2>5, ZenonT(60) DEF VipWord, VipSize
<1> HIDE DEF z, l
<1>4. ASSUME NEW k \in 1..(z * l)
      PROVE  ((k - 1) \div z) + 1 \in 1..l /\ ((k - 1) % z) + 1 \in 1..z
  <2>1. CASE z = 2
    BY <1>1, <1>4, <2>1, SMTT(40)
  <2>2. CASE z = 8
    BY <1>1, <1>4, <2>2, SMTT(40)
  <2> QED BY <1>2, <2>1, <2>2, SMTT(40)
<1>5. \A k \in 1..(z * l) : W(k) \in Words
  BY <1>1, <1>3, <1>4, ZenonT(60)
<1> HIDE DEF W
<1>6. z * l \in Nat /\ z * l <= 2040
  BY <1>1, <1>2, SMTT(40)
<1>7. v \in Seq(Words) /\ Len(v) = z * l
  BY <1>5, <1>6, SMTT(40)
<1>8. VipWords(d, p) = v
  BY Zenon DEF VipWords, z, l, W
<1> HIDE DEF v
<1>9. v \in Seq(Nat) /\ Total(v) \in Nat /\ Total(v) <= (Word16 - 1) * (z * l)
  BY <1>7, WordSeq, TotalBound, PartialSums, ZenonT(60)
<1>10. Total(v) <= MaxVips
  BY <1>6, <1>9, SMTT(40) DEF Word16, MaxVips
<1> QED BY <1>8, <1>9, <1>10, ZenonT(60)

LEMMA AdvTotal ==
  ASSUME NEW d, NEW p, NEW spare, Framed(d, p, spare)
  PROVE  /\ AdvWords(d, p, spare) \in Seq(Nat)
         /\ Total(AdvWords(d, p, spare)) = Rest(d, p, spare) + 256 * p.priority
         /\ Rest(d, p, spare) \in Nat /\ Rest(d, p, spare) <= MaxRest
<1> DEFINE a == p.version * 4096 + 256 + p.vrid
           b == p.priority * 256 + p.naddr
           e == p.hi * 256 + p.lo
           h == <<a, b, e, 0>>
           v == VipWords(d, p)
           u == IF d.family = 4 THEN spare ELSE <<>>
<1>1. AdvWords(d, p, spare) = h \o v \o u
  BY DEF AdvWords, VipWords, VipSize, VipWord
<1>2. /\ a \in Nat /\ b \in Nat /\ e \in Nat /\ 0 \in Nat
      /\ a <= 65535 /\ e <= 65535
      /\ p.naddr \in Nat /\ p.naddr <= 255 /\ p.priority \in Nat
  <2> DEFINE ve == p.version
             vr == p.vrid
             na == p.naddr
             pr == p.priority
             hi == p.hi
             lo == p.lo
  <2>1. /\ ve \in {RFC3768, RFC5798} /\ vr \in Bytes /\ na \in Bytes /\ pr \in Bytes
        /\ hi \in Bytes /\ lo \in Bytes
    BY ZenonT(60) DEF Framed
  <2> HIDE DEF ve, vr, na, pr, hi, lo
  <2>2. /\ ve * 4096 + 256 + vr \in Nat /\ ve * 4096 + 256 + vr <= 65535
        /\ pr * 256 + na \in Nat /\ 0 \in Nat
        /\ hi * 256 + lo \in Nat /\ hi * 256 + lo <= 65535
        /\ na \in Nat /\ na <= 255 /\ pr \in Nat
    BY <2>1, SMTT(40) DEF Bytes, RFC3768, RFC5798
  <2> QED BY <2>2 DEF ve, vr, na, pr, hi, lo
<1>3. v \in Seq(Nat) /\ Total(v) \in Nat /\ Total(v) <= MaxVips
  BY VipWordsType, ZenonT(60) DEF Framed
<1>4. h \in Seq(Nat) /\ Total(h) = a + b + e + 0
  <2> HIDE DEF a, b, e
  <2> QED BY <1>2, TotalFour, SMTT(40)
<1>5. u \in Seq(Nat) /\ Total(u) = (IF d.family = 4 THEN Total(spare) ELSE 0)
      /\ Total(u) \in Nat /\ Total(u) <= MaxSpare
  <2>1. CASE d.family = 4
    <3>1. spare \in Seq(Words) /\ Len(spare) = 4
      BY DEF Framed
    <3>2. spare \in Seq(Nat) /\ Total(spare) <= (Word16 - 1) * 4 /\ Total(spare) \in Nat
      BY <3>1, WordSeq, TotalBound, PartialSums, ZenonT(60)
    <3>3. (Word16 - 1) * 4 = MaxSpare
      BY SMT DEF Word16, MaxSpare
    <3> QED BY <2>1, <3>2, <3>3, SMTT(40)
  <2>2. CASE d.family # 4
    <3>1. <<>> \in Seq(Nat) /\ Len(<<>>) = 0
      OBVIOUS
    <3>2. Total(<<>>) = 0
      BY <3>1, PartialSums, ZenonT(60) DEF Total
    <3>3. 0 \in Nat /\ 0 <= MaxSpare
      BY SMT DEF MaxSpare
    <3> QED BY <2>2, <3>1, <3>2, <3>3, SMTT(40)
  <2> QED BY <2>1, <2>2, SMTT(40)
<1>6. h \o v \o u \in Seq(Nat) /\ Total(h \o v \o u) = Total(h) + Total(v) + Total(u)
  <2>0. h \in Seq(Nat) /\ v \in Seq(Nat) /\ u \in Seq(Nat)
    BY <1>3, <1>4, <1>5, SMTT(40)
  <2> HIDE DEF h, v, u
  <2>1. h \o v \in Seq(Nat) /\ Total(h \o v) = Total(h) + Total(v)
    BY <2>0, TotalConcat, ZenonT(60)
  <2> QED BY <2>0, <2>1, TotalConcat, ZenonT(60)
<1> DEFINE tv == Total(v)
           tu == Total(u)
<1>7. Rest(d, p, spare) = a + p.naddr + e + tv + tu
  BY <1>5, SMTT(40) DEF Rest
<1>8. Total(h) = a + (p.priority * 256 + p.naddr) + e
  BY <1>2, <1>4, SMTT(40)
<1> HIDE DEF a, b, e, h, u, v, tv, tu
<1>9. /\ Rest(d, p, spare) \in Nat /\ Rest(d, p, spare) <= MaxRest
      /\ Total(h) + tv + tu = Rest(d, p, spare) + 256 * p.priority
  <2>1. tv \in Nat /\ tv <= MaxVips /\ tu \in Nat /\ tu <= MaxSpare
    BY <1>3, <1>5, SMTT(40) DEF tv, tu
  <2> QED BY <1>2, <1>7, <1>8, <2>1, SMTT(40) DEF MaxVips, MaxSpare, MaxRest
<1> QED BY <1>1, <1>6, <1>9, ZenonT(60) DEF tv, tu

\* What the pseudo header adds, with source s.
PseudoWords(d, s) ==
  IF d.family = 4
  THEN Ip4(s) \o INADDR_VRRP_GROUP \o <<IPPROTO_VRRP, vrrp_ip4_getsize(d)>>
  ELSE Ip6(s) \o IN6ADDR_VRRP_GROUP \o <<vrrp_ip6_getsize(d), 0, 0, IPPROTO_VRRP>>

Pseudo(d, version, s) ==
  IF d.family = 4 /\ version = RFC3768 THEN 0 ELSE Total(PseudoWords(d, s))

MaxPseudo == 65535 * 20

LEMMA TotalThree ==
  ASSUME NEW a \in Seq(Nat), NEW b \in Seq(Nat), NEW k \in Seq(Nat)
  PROVE  a \o b \o k \in Seq(Nat) /\ Total(a \o b \o k) = Total(a) + Total(b) + Total(k)
<1>1. a \o b \in Seq(Nat) /\ Total(a \o b) = Total(a) + Total(b)
  BY TotalConcat, ZenonT(60)
<1> QED BY <1>1, TotalConcat, ZenonT(60)

LEMMA PseudoType ==
  ASSUME NEW d, naddr(d) \in Bytes, NEW s \in Addrs
  PROVE  /\ PseudoWords(d, s) \in Seq(Nat)
         /\ Total(PseudoWords(d, s)) \in Nat /\ Total(PseudoWords(d, s)) <= MaxPseudo
<1> DEFINE h == s \div Word16
           l == s % Word16
           n == naddr(d)
           z4 == vrrp_ip4_getsize(d)
           z6 == vrrp_ip6_getsize(d)
<1>1. h \in Nat /\ l \in Nat /\ h <= Word16 - 1 /\ l <= Word16 - 1
  BY Halves, WordNat, ZenonT(60)
<1>2. Word16 - 1 = 65535
  BY SMTT(40) DEF Word16
<1>3. z4 \in Nat /\ z4 <= 65535 /\ z6 \in Nat /\ z6 <= 65535
  <2>1. n \in Bytes /\ z4 = 8 + 4 * n + 8 /\ z6 = 8 + 16 * n
    BY DEF vrrp_ip4_getsize, vrrp_ip6_getsize, VRRP_PKTHDR_SIZE, VRRP_AUTH_SIZE
  <2> HIDE DEF n, z4, z6
  <2> QED BY <2>1, SMTT(40) DEF Bytes
<1>4. CASE d.family = 4
  <2> DEFINE a == Ip4(s)
             g == INADDR_VRRP_GROUP
             k == <<IPPROTO_VRRP, z4>>
  <2>1. a = <<h, l>> /\ g = <<57344, 18>> /\ k = <<112, z4>>
    BY DEF Ip4, INADDR_VRRP_GROUP, IPPROTO_VRRP
  <2>2. PseudoWords(d, s) = a \o g \o k
    BY <1>4, ZenonT(60) DEF PseudoWords
  <2> HIDE DEF a, g, k, h, l, z4
  <2>3. /\ a \in Seq(Nat) /\ Total(a) = h + l
        /\ g \in Seq(Nat) /\ Total(g) = 57344 + 18
        /\ k \in Seq(Nat) /\ Total(k) = 112 + z4
    <3>1. 57344 \in Nat /\ 18 \in Nat /\ 112 \in Nat
      BY SMT
    <3> QED BY <1>1, <1>3, <2>1, <3>1, TotalTwo, SMTT(40)
  <2>4. PseudoWords(d, s) \in Seq(Nat)
        /\ Total(PseudoWords(d, s)) = Total(a) + Total(g) + Total(k)
    <3>1. a \in Seq(Nat) /\ g \in Seq(Nat) /\ k \in Seq(Nat)
      BY <2>3
    <3>2. a \o g \o k \in Seq(Nat) /\ Total(a \o g \o k) = Total(a) + Total(g) + Total(k)
      BY <3>1, TotalThree, SMTT(40)
    <3> QED BY <2>2, <3>2, ZenonT(60)
  <2> QED BY <1>1, <1>2, <1>3, <2>3, <2>4, SMTT(40) DEF MaxPseudo
<1>5. CASE d.family # 4
  <2> DEFINE a == Ip6(s)
             g == IN6ADDR_VRRP_GROUP
             k == <<z6, 0, 0, IPPROTO_VRRP>>
  <2>1. g = <<65282, 0, 0, 0, 0, 0, 0, 18>> /\ k = <<z6, 0, 0, 112>>
    BY DEF IN6ADDR_VRRP_GROUP, IPPROTO_VRRP
  <2>2. PseudoWords(d, s) = a \o g \o k
    BY <1>5, ZenonT(60) DEF PseudoWords
  <2>3. a \in Seq(Nat) /\ Total(a) = 65152 + h + l
    BY TotalIp6
  <2> HIDE DEF a, g, k, h, l, z6
  <2>4. /\ g \in Seq(Nat) /\ Total(g) = 65282 + 0 + 18
        /\ k \in Seq(Nat) /\ Total(k) = z6 + 0 + 0 + 112
    <3>1. 65282 \in Nat /\ 18 \in Nat /\ 112 \in Nat /\ 0 \in Nat
      BY SMT
    <3>2. g \in Seq(Nat) /\ Total(g) = 65282 + 0 + 18
      BY <2>1, <3>1, TotalEight, SMTT(40)
    <3>3. k \in Seq(Nat) /\ Total(k) = z6 + 0 + 0 + 112
      BY <1>3, <2>1, <3>1, TotalFour, SMTT(40)
    <3> QED BY <3>2, <3>3, SMTT(40)
  <2>5. PseudoWords(d, s) \in Seq(Nat)
        /\ Total(PseudoWords(d, s)) = Total(a) + Total(g) + Total(k)
    <3>1. a \in Seq(Nat) /\ g \in Seq(Nat) /\ k \in Seq(Nat)
      BY <2>3, <2>4
    <3>2. a \o g \o k \in Seq(Nat) /\ Total(a \o g \o k) = Total(a) + Total(g) + Total(k)
      BY <3>1, TotalThree, SMT
    <3> QED BY <2>2, <3>2, Zenon
  <2> QED BY <1>1, <1>2, <1>3, <2>3, <2>4, <2>5, SMTT(40) DEF MaxPseudo
<1> QED BY <1>4, <1>5

\* The source the pseudo header takes.
Source(d, saddr) == IF saddr # 0 THEN saddr ELSE d.addr

LEMMA ChksumIs ==
  ASSUME NEW d, NEW p, NEW spare, Framed(d, p, spare), naddr(d) \in Bytes,
         NEW saddr, Source(d, saddr) \in Addrs
  PROVE  /\ chksum(d, p, saddr, spare)
              = (Word16 - 1)
                  - fold(Pseudo(d, p.version, Source(d, saddr))
                           + (Rest(d, p, spare) + 256 * p.priority))
         /\ Pseudo(d, p.version, Source(d, saddr)) \in Nat
         /\ Pseudo(d, p.version, Source(d, saddr)) <= MaxPseudo
<1> DEFINE s == Source(d, saddr)
           w == AdvWords(d, p, spare)
           x == PseudoWords(d, s)
           t == Rest(d, p, spare) + 256 * p.priority
<1>1. w \in Seq(Nat) /\ Total(w) = t
  BY AdvTotal, SMTT(40)
<1>2. x \in Seq(Nat) /\ Total(x) \in Nat /\ Total(x) <= MaxPseudo
  BY PseudoType, ZenonT(60)
<1>3. p.version = RFC3768 \/ p.version = RFC5798
  BY Zenon DEF Framed
<1>4. RFC3768 # RFC5798
  BY DEF RFC3768, RFC5798
<1>5. CASE d.family = 4 /\ p.version = RFC3768
  <2>1. chksum(d, p, saddr, spare) = cksum(w)
    <3>1. p.version # RFC5798
      BY <1>4, <1>5, ZenonT(60)
    <3> QED BY <1>5, <3>1, ZenonT(60) DEF chksum, vrrp_ip4_chksum
  <2>2. Pseudo(d, p.version, s) = 0 /\ 0 <= MaxPseudo /\ 0 \in Nat
    BY <1>5, SMTT(40) DEF Pseudo, MaxPseudo
  <2>3. t \in Nat
    BY <1>1, PartialSums, ZenonT(60)
  <2> HIDE DEF w, x, t
  <2>4. 0 + t = t
    BY <2>3, SMT
  <2>5. chksum(d, p, saddr, spare) = (Word16 - 1) - fold(0 + t)
    BY <1>1, <2>1, <2>4, CksumIs, Zenon
  <2> QED BY <2>2, <2>5, ZenonT(60) DEF t, s
<1>6. CASE ~(d.family = 4 /\ p.version = RFC3768)
  <2>1. chksum(d, p, saddr, spare) = cksum(x \o w)
    <3>1. CASE d.family = 4
      BY <1>3, <1>4, <1>6, <3>1, SMTT(40) DEF chksum, vrrp_ip4_chksum, PseudoWords, Source
    <3>2. CASE d.family # 4
      BY <3>2 DEF chksum, vrrp_ip6_chksum, PseudoWords, Source
    <3> QED BY <3>1, <3>2, SMTT(40)
  <2>2. Pseudo(d, p.version, s) = Total(x)
    BY <1>6, ZenonT(60) DEF Pseudo
  <2> HIDE DEF w, x, t
  <2>3. Total(x \o w) = Total(x) + t
    BY <1>1, <1>2, TotalConcat, ZenonT(60)
  <2>4. chksum(d, p, saddr, spare) = (Word16 - 1) - fold(Total(x) + t)
    BY <2>1, <2>3, CksumIs, ZenonT(60)
  <2> QED BY <1>2, <2>2, <2>4, ZenonT(60) DEF t, s
<1> QED BY <1>5, <1>6, SMTT(40)

\* Two packets that differ in the priority at most.
SameButPriority(p, q) ==
  /\ q.version = p.version /\ q.vrid = p.vrid /\ q.naddr = p.naddr
  /\ q.hi = p.hi /\ q.lo = p.lo /\ q.vips = p.vips

\* The sums that d and g compute over p and q tell their priorities apart.
Told(d, p, sa, g, q, sb, spare) ==
  chksum(d, p, sa, spare) = chksum(g, q, sb, spare) <=> p.priority = q.priority

\* Two routers of one configuration but for the address agree on the checksum of a
\* packet exactly when they see the same priority in it, if both take the same source.
LEMMA ChksumTold ==
  ASSUME NEW d, NEW g, NEW p, NEW q, NEW spare,
         Framed(d, p, spare), Framed(g, q, spare), naddr(d) \in Bytes,
         g.family = d.family, naddr(g) = naddr(d),
         SameButPriority(p, q),
         NEW sa, NEW sb, Source(d, sa) \in Addrs, Source(g, sb) = Source(d, sa)
  PROVE  Told(d, p, sa, g, q, sb, spare)
<1>0. /\ q.version = p.version /\ q.vrid = p.vrid /\ q.naddr = p.naddr
      /\ q.hi = p.hi /\ q.lo = p.lo /\ q.vips = p.vips
  BY ZenonT(60) DEF SameButPriority
<1> DEFINE r == Rest(d, p, spare)
           s == Pseudo(d, p.version, Source(d, sa))
           x == p.priority
           y == q.priority
           m == Word16 - 1
<1>1. Rest(g, q, spare) = r
  <2>1. VipWords(g, q) = VipWords(d, p)
    BY <1>0, ZenonT(60) DEF VipWords, VipSize, VipWord
  <2> QED BY <1>0, <2>1, SMTT(40) DEF Rest
<1>2. Pseudo(g, q.version, Source(g, sb)) = s
  <2>1. PseudoWords(g, Source(g, sb)) = PseudoWords(d, Source(d, sa))
    BY SMTT(40) DEF PseudoWords, vrrp_ip4_getsize, vrrp_ip6_getsize
  <2> QED BY <1>0, <2>1, ZenonT(60) DEF Pseudo
<1>3. chksum(d, p, sa, spare) = m - fold(s + (r + 256 * x)) /\ s \in Nat /\ s <= MaxPseudo
  BY ChksumIs, SMTT(40)
<1>4. chksum(g, q, sb, spare) = m - fold(s + (r + 256 * y))
  <2>1. chksum(g, q, sb, spare)
        = m - fold(Pseudo(g, q.version, Source(g, sb)) + (Rest(g, q, spare) + 256 * y))
    BY ChksumIs, SMTT(40)
  <2> QED BY <1>1, <1>2, <2>1, ZenonT(60)
<1>5. r \in Nat /\ r <= MaxRest
  BY AdvTotal, SMTT(40)
<1>6. x \in 0..255 /\ y \in 0..255
  BY ZenonT(60) DEF Framed, Bytes
<1> HIDE DEF r, s, x, y, m
<1> DEFINE rest == s + r
           X == rest + 256 * x
           Y == rest + 256 * y
<1>7. /\ rest \in Nat /\ s + (r + 256 * x) = X /\ s + (r + 256 * y) = Y
      /\ rest <= MaxPseudo + MaxRest
  BY <1>3, <1>5, <1>6, SMT DEF MaxPseudo, MaxRest
<1>8. X \in Sums /\ Y \in Sums
  <2> DEFINE z == Word16 * Word16 - 1
  <2>1. z \in Nat /\ z >= 65535 * 3000
    BY SMTT(40) DEF Word16
  <2> HIDE DEF z, rest
  <2>2. X \in 0..z /\ Y \in 0..z
    BY <1>6, <1>7, <2>1, SMTT(40) DEF MaxPseudo, MaxRest
  <2> QED BY <2>2, ZenonT(60) DEF Sums, z
<1> HIDE DEF rest
<1>9. fold(X) = fold(Y) => x = y
  <2> SUFFICES ASSUME fold(X) = fold(Y) PROVE x = y
    OBVIOUS
  <2>1. /\ rest \in Nat /\ x \in 0..255 /\ y \in 0..255
        /\ rest + 256 * x \in Sums /\ rest + 256 * y \in Sums
        /\ fold(rest + 256 * x) = fold(rest + 256 * y)
    BY <1>6, <1>7, <1>8
  <2> QED BY <2>1, PrioritiesTold, ZenonT(60)
<1>10. x = y => fold(X) = fold(Y)
  BY ZenonT(60)
<1>11. fold(X) \in Nat /\ fold(Y) \in Nat /\ m \in Nat
  <2>1. m \in Nat
    BY SMTT(40) DEF m, Word16
  <2> HIDE DEF X, Y
  <2> QED BY <1>8, <2>1, FoldIs, ZenonT(60)
<1>12. m - fold(X) = m - fold(Y) <=> fold(X) = fold(Y)
  BY <1>11, SMTT(40)
<1>13. chksum(d, p, sa, spare) = m - fold(X) /\ chksum(g, q, sb, spare) = m - fold(Y)
  BY <1>3, <1>4, <1>7, ZenonT(60)
<1> HIDE DEF X, Y
<1> QED BY <1>9, <1>10, <1>12, <1>13, ZenonT(60) DEF x, y, Told

-----------------------------------------------------------------------------
\* The routers of VrrpPeers.

At(d, a) == [d EXCEPT !.addr = a]

LEMMA PeerPriority == \A n \in 1..254 : n \in Priorities
BY SMTT(40) DEF Priorities

\* A configuration but for its address gives the fields, the sizes and the
\* checksums of the other.
LEMMA AtFields ==
  ASSUME NEW d \in Configs, NEW a \in Nat
  PROVE  /\ At(d, a) \in Configs /\ At(d, a).addr = a
         /\ At(d, a).version = d.version /\ At(d, a).vrid = d.vrid
         /\ At(d, a).adv_int = d.adv_int /\ At(d, a).auth_type = d.auth_type
         /\ At(d, a).auth_data = d.auth_data /\ At(d, a).family = d.family
         /\ At(d, a).vips = d.vips /\ At(d, a).mtu = d.mtu
         /\ naddr(At(d, a)) = naddr(d) /\ adv_getsize(At(d, a)) = adv_getsize(d)
<1>1. /\ At(d, a) \in Configs /\ At(d, a).addr = a
      /\ At(d, a).version = d.version /\ At(d, a).vrid = d.vrid
      /\ At(d, a).adv_int = d.adv_int /\ At(d, a).auth_type = d.auth_type
      /\ At(d, a).auth_data = d.auth_data /\ At(d, a).family = d.family
      /\ At(d, a).vips = d.vips /\ At(d, a).mtu = d.mtu
  BY ZenonT(60) DEF At, Configs
<1>2. naddr(At(d, a)) = naddr(d)
  BY <1>1, SMTT(40) DEF naddr
<1> QED BY <1>1, <1>2, SMTT(40) DEF adv_getsize, vrrp_ip4_getsize, vrrp_ip6_getsize

LEMMA PlainAt ==
  ASSUME NEW d, Plain(d), NEW a \in Nat
  PROVE  Plain(At(d, a)) /\ Alike(At(d, a), d) /\ adv_getsize(At(d, a)) = adv_getsize(d)
<1> DEFINE e == At(d, a)
<1>0. d \in Configs
  BY ZenonT(60) DEF Plain
<1>1. e \in Configs /\ Alike(e, d) /\ adv_getsize(e) = adv_getsize(d)
  BY <1>0, AtFields, SMTT(40) DEF Alike
<1> HIDE DEF e
<1>2. Plain(e)
  BY <1>1, ZenonT(60) DEF Plain, Alike
<1> QED BY <1>1, <1>2, SMTT(40) DEF e

\* Two routers that differ in their address accept each other's advertisements.
LEMMA AcceptAt ==
  ASSUME NEW d, Plain(d), NEW a \in Nat, NEW b \in Nat,
         NEW prio \in 1..254, NEW mine \in 1..254
  PROVE  vrrp_net_recv(At(d, a), mine, vrrp_adv_build(At(d, b), Buffer(d, prio))) = "PKT"
<1> DEFINE e == At(d, a)
           g == At(d, b)
<1>1. Plain(e) /\ Alike(e, d)
  BY PlainAt, ZenonT(60)
<1>2. Alike(g, d) /\ adv_getsize(g) = adv_getsize(d)
  BY PlainAt, ZenonT(60)
<1> HIDE DEF e, g
<1>3. Alike(g, e)
  BY <1>1, <1>2, ZenonT(60) DEF Alike
<1>4. Buffer(g, prio) = Buffer(d, prio)
  BY <1>2, ZenonT(60) DEF Buffer, adv_checksum
<1>5. mine # PRIO_OWNER
  BY DEF PRIO_OWNER
<1>6. vrrp_net_recv(e, mine, vrrp_adv_build(g, Buffer(g, prio))) = "PKT"
  BY <1>1, <1>3, <1>5, AlikeAccept, ZenonT(60)
<1> QED BY <1>4, <1>6, ZenonT(60) DEF e, g

\* One to 255 addresses, in a packet that the interface lets through.
Fits(d) ==
  /\ d \in Configs /\ Len(d.vips) \in 1..255
  /\ IPHDR_SIZE + adv_getsize(d) <= d.mtu

\* The byte of an address which vrrp_net_recv takes for the first character of the
\* password, when there is a password and the addresses are IPv6, is another one.
Telling(d) ==
  (d.version = RFC3768 /\ d.auth_type = SIMPLE /\ d.family = 6 /\ d.auth_data # <<>>) =>
    PayloadByte(d, [vips |-> [i \in 1..Len(d.vips) |-> d.vips[Len(d.vips) + 1 - i]],
                    auth |-> <<>>], 4 * naddr(d)) # d.auth_data[1]

LEMMA PlainIs ==
  ASSUME NEW d, Fits(d), Understood(d)
  PROVE  Plain(d)
BY ZenonT(60) DEF Fits, Understood, Plain

\* An interval that needs more than a byte comes back as another one.
LEMMA CutInterval == \A n \in 1..ADVINT_MAX : ~(n <= 255) => n % 256 # n
BY SMT DEF ADVINT_MAX

\* Two routers that differ in their address refuse each other's advertisements when
\* the configuration is not one that vrrp_net_recv understands.
LEMMA RefuseAt ==
  ASSUME NEW d, Fits(d), Telling(d), ~Understood(d), NEW a \in Nat, NEW b \in Nat,
         NEW prio \in 1..254, NEW mine \in 1..254
  PROVE  vrrp_net_recv(At(d, a), mine, vrrp_adv_build(At(d, b), Buffer(d, prio))) # "PKT"
<1> DEFINE e == At(d, a)
           g == At(d, b)
           p == vrrp_adv_build(g, Buffer(d, prio))
           rev == [i \in 1..Len(d.vips) |-> d.vips[Len(d.vips) + 1 - i]]
<1>0. d \in Configs
  BY ZenonT(60) DEF Fits
<1>1. /\ e.version = d.version /\ e.adv_int = d.adv_int /\ e.auth_type = d.auth_type
      /\ e.auth_data = d.auth_data /\ e.family = d.family
      /\ naddr(e) = naddr(d) /\ adv_getsize(e) = adv_getsize(d)
  BY <1>0, AtFields, ZenonT(60)
<1>2. /\ g.version = d.version /\ g.adv_int = d.adv_int /\ g.auth_type = d.auth_type
      /\ g.family = d.family /\ g.vips = d.vips /\ adv_getsize(g) = adv_getsize(d)
  BY <1>0, AtFields, ZenonT(60)
<1> HIDE DEF e, g
<1>3. /\ p.size = adv_getsize(d) /\ p.lo = d.adv_int % 256 /\ p.vips = rev
      /\ d.version = RFC3768 => p.hi = d.auth_type
      /\ d.family = 6 => p.auth = <<>>
  <2>1. 6 # 4
    BY SMT
  <2> HIDE DEF rev
  <2>2. p.vips = rev
    BY <1>2, ZenonT(60) DEF vrrp_adv_build, rev
  <2>3. /\ p.size = adv_getsize(d) /\ p.lo = d.adv_int % 256
        /\ d.version = RFC3768 => p.hi = d.auth_type
    BY <1>2, ZenonT(60) DEF vrrp_adv_build
  <2>4. d.family = 6 => p.auth = <<>>
    BY <1>2, <2>1, ZenonT(60) DEF vrrp_adv_build
  <2> QED BY <2>2, <2>3, <2>4, SMTT(40)
<1> HIDE DEF p
<1>4. CASE ~(d.adv_int <= 255)
  <2>1. d.adv_int \in 1..ADVINT_MAX
    BY <1>0, ZenonT(60) DEF Configs
  <2>2. ~AdvIntOK(e, p)
    BY <1>1, <1>3, <1>4, <2>1, CutInterval, ZenonT(60) DEF AdvIntOK
  <2> QED BY <2>2, ZenonT(60) DEF vrrp_net_recv, p, e, g
<1>5. CASE ~(adv_getsize(d) <= VRRP_PKT_MAXSIZE)
  <2>1. ~HeaderOK(e, p)
    BY <1>3, <1>5, ZenonT(60) DEF HeaderOK, LengthOK
  <2> QED BY <2>1, ZenonT(60) DEF vrrp_net_recv, p, e, g
<1>6. CASE /\ d.version = RFC3768 /\ d.auth_type = SIMPLE /\ d.family = 6
           /\ d.auth_data # <<>>
  <2>1. RFC3768 # RFC5798
    BY SMTT(40) DEF RFC3768, RFC5798
  <2>2. 1 \in 1..Len(d.auth_data)
    <3>1. d.auth_data \in Seq(Chars)
      BY <1>0, ZenonT(60) DEF Configs
    <3>2. Len(d.auth_data) \in Nat /\ Len(d.auth_data) # 0
      BY <1>6, <3>1
    <3> QED BY <3>2, SMTT(40)
  <2>3. naddr(d) \in Nat
    <3>1. Len(d.vips) \in Nat
      BY <1>0, SMTT(40) DEF Configs
    <3>2. \A n \in Nat : n % 256 \in Nat
      BY SMTT(40)
    <3> QED BY <3>1, <3>2, ZenonT(60) DEF naddr
  <2>4. 4 * naddr(e) + 1 - 1 = 4 * naddr(d)
    BY <1>1, <2>3, SMTT(40)
  <2>5. PayloadByte(e, p, 4 * naddr(d)) # d.auth_data[1]
    <3> DEFINE q == [vips |-> rev, auth |-> <<>>]
               k == 4 * naddr(d)
    <3>1. p.vips = q.vips /\ p.auth = q.auth
      BY <1>3, <1>6, ZenonT(60)
    <3>2. PayloadByte(d, q, k) # d.auth_data[1]
      BY <1>6, ZenonT(60) DEF Telling
    <3> HIDE DEF q, k, rev
    <3>3. PayloadByte(e, p, k) = PayloadByte(d, q, k)
      BY <1>1, <3>1, ZenonT(60) DEF PayloadByte
    <3> QED BY <3>2, <3>3, SMTT(40) DEF k
  <2>6. ~AuthOK(e, p)
    BY <1>1, <1>3, <1>6, <2>1, <2>2, <2>4, <2>5, ZenonT(60) DEF AuthOK
  <2> QED BY <2>6, ZenonT(60) DEF vrrp_net_recv, p, e, g
<1> QED BY <1>4, <1>5, <1>6, ZenonT(60) DEF Understood

\* They accept them exactly when it is.
LEMMA JudgedAt ==
  ASSUME NEW d, Fits(d), Telling(d), NEW a \in Nat, NEW b \in Nat,
         NEW prio \in 1..254, NEW mine \in 1..254
  PROVE  vrrp_net_recv(At(d, a), mine, vrrp_adv_build(At(d, b), Buffer(d, prio))) = "PKT"
         <=> Understood(d)
<1>1. CASE Understood(d)
  BY <1>1, PlainIs, AcceptAt, ZenonT(60)
<1>2. CASE ~Understood(d)
  BY <1>2, RefuseAt, ZenonT(60)
<1> QED BY <1>1, <1>2, SMTT(40)

--------------------------------------------------------------------------------
(* The behaviours of VrrpPeers. *)

\* The instance of Init, and the buffer its advertisement was made from.
Taken(d, a, prio) ==
  [BackupTimer(At(d, a), vrrp_state_init(At(d, a), NewInstance(d, prio)))
     EXCEPT !.out = <<>>]

LEMMA TakenPost ==
  ASSUME NEW d \in Configs, NEW a \in Nat, NEW prio \in 1..254
  PROVE  /\ Taken(d, a, prio) \in Instances
         /\ Taken(d, a, prio).state = "MASTER" /\ Taken(d, a, prio).priority = prio
         /\ Taken(d, a, prio).adv = Buffer(d, prio)
<1> DEFINE n == NewInstance(d, prio)
           b == vrrp_state_init(At(d, a), n)
           m == vrrp_state_goto_master(At(d, a), b)
<1>1. At(d, a) \in Configs /\ prio \in Priorities
  <2>1. At(d, a) \in Configs
    BY AtFields, Zenon
  <2>2. prio \in Priorities
    BY PeerPriority, ZenonT(60)
  <2> QED BY <2>1, <2>2, Zenon
<1>2. /\ n \in Instances /\ n.state = "INIT" /\ n.priority = prio
      /\ n.adv = Buffer(d, prio)
  <2>1. n \in Instances
    BY <1>1, NewInstanceType, ZenonT(60)
  <2>2. n.state = "INIT" /\ n.priority = prio /\ n.adv = Buffer(d, prio)
    BY ZenonT(60) DEF NewInstance, Buffer
  <2> QED BY <2>1, <2>2, ZenonT(60)
<1>3. n.adv_timer = Cleared /\ n.masterdown_timer = Cleared
  BY SMTT(40) DEF NewInstance
<1> HIDE DEF n
<1>4. b \in Instances /\ b.priority = prio /\ b.adv = Buffer(d, prio)
  BY <1>1, <1>2, <1>3, StateInitPost, SMTT(40)
<1> HIDE DEF b
<1>5. m \in Instances /\ m.state = "MASTER" /\ m.priority = prio /\ m.adv = Buffer(d, prio)
  BY <1>1, <1>4, GotoMaster, SMTT(40)
<1>6. Taken(d, a, prio) = [m EXCEPT !.out = <<>>]
  BY SMTT(40) DEF Taken, BackupTimer, m, b, n
<1> HIDE DEF m
<1>7. <<>> \in Seq(Effects)
  OBVIOUS
<1> QED BY <1>5, <1>6, <1>7, ZenonT(60) DEF Instances

\* What Init leaves: the priority of each is the one in the packet to the other.
LEMMA InitPost ==
  ASSUME SharedConfigs \subseteq Configs, Init
  PROVE  /\ c \in SharedConfigs /\ addr \in [Two -> Addresses] /\ addr[1] # addr[2]
         /\ inst \in [Two -> Instances] /\ verdict = [i \in Two |-> "none"]
         /\ \A i \in Two :
              /\ inst[i].state = "MASTER" /\ inst[i].priority \in 1..254
              /\ sent[i] = vrrp_adv_build(At(c, addr[3 - i]),
                                          Buffer(c, inst[3 - i].priority))
<1>1. PICK prio \in [Two -> PeerPriorities] :
        inst = [i \in Two |->
                  LET b == vrrp_state_init(ConfigOf(i), NewInstance(c, prio[i]))
                  IN  [BackupTimer(ConfigOf(i), b) EXCEPT !.out = <<>>]]
  BY Zenon DEF Init
<1>2. inst = [i \in Two |-> Taken(c, addr[i], prio[i])]
  BY <1>1 DEF Taken, ConfigOf, At
<1>3. /\ c \in SharedConfigs /\ c \in Configs
      /\ addr \in [Two -> Addresses] /\ addr[1] # addr[2]
      /\ verdict = [i \in Two |-> "none"]
  BY Zenon DEF Init
<1>4. \A i \in Two : addr[i] \in Nat
  <2>1. Addresses \subseteq Nat
    BY PeersAssumption, SMTT(40)
  <2> QED BY <1>3, <2>1, ZenonT(60)
<1>5. \A i \in Two : prio[i] \in 1..254
  BY PeersAssumption, ZenonT(60)
<1>6. \A i \in Two : /\ inst[i] \in Instances /\ inst[i].state = "MASTER"
                     /\ inst[i].priority = prio[i]
                     /\ inst[i].adv = Buffer(c, prio[i])
  BY <1>2, <1>3, <1>4, <1>5, TakenPost, ZenonT(60)
<1>7. \A i \in Two : 3 - i \in Two
  BY DEF Two
<1>8. \A i \in Two :
        sent[i] = vrrp_adv_build(At(c, addr[3 - i]), Buffer(c, inst[3 - i].priority))
  <2>1. \A i \in Two : sent[i] = vrrp_adv_build(At(c, addr[3 - i]), inst[3 - i].adv)
    BY Zenon DEF Init, ConfigOf, At
  <2>2. \A i \in Two : inst[3 - i].adv = Buffer(c, inst[3 - i].priority)
    BY <1>6, <1>7, ZenonT(60)
  <2> QED BY <2>1, <2>2, Zenon
<1>9. inst \in [Two -> Instances]
  BY <1>2, <1>6, ZenonT(60)
<1>10. \A i \in Two : inst[i].state = "MASTER" /\ inst[i].priority \in 1..254
  BY <1>5, <1>6, ZenonT(60)
<1> QED BY <1>3, <1>8, <1>9, <1>10, ZenonT(60)

\* The router with address a and priority mine gives way to the one with address
\* b and priority other.
Yields(d, a, b, mine, other) == other > mine \/ (other = mine /\ ipx_cmp(d, b, a) > 0)

\* x is what a master becomes that hears the other.
Heard(d, a, b, mine, other, x) ==
  /\ x \in Instances /\ x.priority = mine
  /\ x.state = "MASTER" <=> ~Yields(d, a, b, mine, other)

LEMMA HearsPost ==
  ASSUME NEW d \in Configs, NEW a \in Nat, NEW b \in Nat,
         NEW mine \in 1..254, NEW other \in 1..254,
         NEW v \in Instances, v.state = "MASTER", v.priority = mine,
         vrrp_net_recv(At(d, a), mine, vrrp_adv_build(At(d, b), Buffer(d, other))) = "PKT"
  PROVE  Heard(d, a, b, mine, other,
               OnPkt(At(d, a), v, vrrp_adv_build(At(d, b), Buffer(d, other))))
<1> DEFINE p == vrrp_adv_build(At(d, b), Buffer(d, other))
           e == At(d, a)
           g == At(d, b)
           x == OnPkt(e, v, p)
           m == vrrp_adv_get_advint(p)
<1>1. e \in Configs /\ g \in Configs /\ e.family = d.family /\ e.addr = a /\ g.addr = b
  BY AtFields, ZenonT(60)
<1>2. vrrp_net_recv(e, mine, p) = "PKT"
  OBVIOUS
<1>3. p.priority = other /\ p.saddr = b
  BY <1>1, ZenonT(60) DEF vrrp_adv_build, Buffer
<1>4. other # 0
  BY SMT
<1>5. m \in Nat
  <2>1. /\ g.auth_type \in {NOAUTH, SIMPLE} /\ g.adv_int \in 1..ADVINT_MAX
        /\ p.lo = g.adv_int % 256
        /\ p.hi = IF g.version = RFC3768 THEN g.auth_type ELSE g.adv_int \div 256
    BY <1>1, ZenonT(60) DEF Configs, vrrp_adv_build
  <2> HIDE DEF p, g
  <2>2. p.lo \in Bytes /\ p.hi \in Bytes
    BY <2>1, ByteFields, ZenonT(60)
  <2>3. p.priority \in Priorities
    BY <1>3, PeerPriority, ZenonT(60)
  <2>4. PacketOK(p)
    BY <2>2, <2>3, ZenonT(60) DEF PacketOK, Bytes
  <2> QED BY <2>4, AdvIntType, ZenonT(60)
<1>6. vrrp_adv_addr_cmp(e, p) = ipx_cmp(d, b, a)
  BY <1>1, <1>3, ZenonT(60) DEF vrrp_adv_addr_cmp, ipx_cmp
<1> HIDE DEF p, e
<1>7. x = IF Yields(d, a, b, mine, other) THEN vrrp_state_goto_backup(e, v, m) ELSE v
  BY <1>2, <1>3, <1>4, <1>6, Zenon DEF OnPkt, MasterPkt, Yields
<1> HIDE DEF m, x
<1>8. /\ x \in Instances /\ x.priority = mine
      /\ x.state = "MASTER" <=> ~Yields(d, a, b, mine, other)
  <2>1. CASE Yields(d, a, b, mine, other)
    <3>1. x = vrrp_state_goto_backup(e, v, m)
      BY <1>7, <2>1, ZenonT(60)
    <3> DEFINE u == vrrp_state_goto_backup(e, v, m)
    <3>2. u \in Instances /\ u.state = "BACKUP" /\ u.priority = v.priority
      BY <1>1, <1>5, GotoBackup, ZenonT(60)
    <3> HIDE DEF u
    <3>3. x \in Instances /\ x.state = "BACKUP" /\ x.priority = mine
      BY <3>1, <3>2 DEF u
    <3> QED BY <2>1, <3>3
  <2>2. CASE ~Yields(d, a, b, mine, other)
    BY <1>7, <2>2, ZenonT(60)
  <2> QED BY <2>1, <2>2
<1> QED BY <1>8, ZenonT(60) DEF x, e, p, Heard

\* Who has not heard the other yet is master; who has heard it judged its packet as
\* vrrp_net_recv does, and after one that it accepted is master unless it had to give
\* way.
PeersInv ==
  /\ c \in SharedConfigs /\ addr \in [Two -> Addresses] /\ addr[1] # addr[2]
  /\ inst \in [Two -> Instances] /\ DOMAIN verdict = Two
  /\ \A i \in Two :
       /\ inst[i].priority \in 1..254
       /\ sent[i] = vrrp_adv_build(At(c, addr[3 - i]), Buffer(c, inst[3 - i].priority))
       /\ verdict[i] = "none" => inst[i].state = "MASTER"
       /\ verdict[i] # "none" =>
            verdict[i] = vrrp_net_recv(At(c, addr[i]), inst[i].priority, sent[i])
       /\ verdict[i] = "PKT" =>
            (inst[i].state = "MASTER" <=>
               ~Yields(c, addr[i], addr[3 - i], inst[i].priority, inst[3 - i].priority))

LEMMA Others == \A i \in Two : 3 - i \in Two /\ 3 - i # i
BY DEF Two

LEMMA InitPeers ==
  ASSUME SharedConfigs \subseteq Configs, Init
  PROVE  PeersInv
<1>1. /\ c \in SharedConfigs /\ addr \in [Two -> Addresses] /\ addr[1] # addr[2]
      /\ inst \in [Two -> Instances] /\ verdict = [i \in Two |-> "none"]
  BY InitPost, Zenon
<1>2. \A i \in Two :
        /\ inst[i].state = "MASTER" /\ inst[i].priority \in 1..254
        /\ sent[i] = vrrp_adv_build(At(c, addr[3 - i]), Buffer(c, inst[3 - i].priority))
  BY InitPost, ZenonT(60)
<1>3. DOMAIN verdict = Two /\ \A i \in Two : verdict[i] = "none"
  BY <1>1, ZenonT(60)
<1>4. "none" # "PKT"
  OBVIOUS
<1> QED BY <1>1, <1>2, <1>3, <1>4, ZenonT(60) DEF PeersInv

LEMMA NextPeers ==
  ASSUME SharedConfigs \subseteq Configs, PeersInv, [Next]_vars
  PROVE  PeersInv'
<1>0. /\ c \in SharedConfigs /\ c \in Configs /\ addr \in [Two -> Addresses]
      /\ addr[1] # addr[2] /\ inst \in [Two -> Instances] /\ DOMAIN verdict = Two
  BY Zenon DEF PeersInv
<1>1. ASSUME NEW i \in Two, Deliver(i) PROVE PeersInv'
  <2> DEFINE a == addr[i]
             b == addr[3 - i]
             v == inst[i]
             mine == inst[i].priority
             other == inst[3 - i].priority
             p == vrrp_adv_build(At(c, b), Buffer(c, other))
             r == vrrp_net_recv(At(c, a), mine, p)
             x == OnPkt(At(c, a), v, p)
  <2>1. /\ c' = c /\ addr' = addr /\ sent' = sent /\ verdict[i] = "none"
    BY <1>1, Zenon DEF Deliver
  <2>2. /\ sent[i] = p /\ v.state = "MASTER" /\ mine \in 1..254 /\ other \in 1..254
    BY <2>1, Others, ZenonT(60) DEF PeersInv
  <2>3. a \in Nat /\ b \in Nat /\ v \in Instances
    <3>1. Addresses \subseteq Nat
      BY PeersAssumption, SMTT(40)
    <3> QED BY <1>0, <3>1, Others, ZenonT(60)
  <2>4. ConfigOf(i) = At(c, a)
    BY DEF ConfigOf, At
  <2>5. verdict' = [verdict EXCEPT ![i] = r]
    BY <1>1, <2>2, <2>4, ZenonT(60) DEF Deliver
  <2>6. inst' = [inst EXCEPT ![i] = [x EXCEPT !.out = <<>>]]
    BY <1>1, <2>2, <2>4, ZenonT(60) DEF Deliver
  <2>7. /\ x \in Instances /\ x.priority = mine
        /\ r = "PKT" => (x.state = "MASTER" <=> ~Yields(c, a, b, mine, other))
    <3>1. v.priority = mine
      OBVIOUS
    <3> HIDE DEF a, b, mine, other, v
    <3>2. CASE r = "PKT"
      <4>1. Heard(c, a, b, mine, other, x)
        BY <1>0, <2>2, <2>3, <3>1, <3>2, HearsPost, ZenonT(60)
      <4> HIDE DEF x
      <4> QED BY <4>1, Zenon DEF Heard
    <3>3. CASE r # "PKT"
      <4>1. x = v
        BY <3>1, <3>3, ZenonT(60) DEF OnPkt
      <4> QED BY <2>3, <3>1, <3>3, <4>1, SMTT(40)
    <3> QED BY <3>2, <3>3
  <2>8. r # "none"
    BY DEF vrrp_net_recv
  <2> DEFINE w == [x EXCEPT !.out = <<>>]
  <2> HIDE DEF x
  <2>9. w \in Instances /\ w.priority = mine /\ w.state = x.state
    <3>1. <<>> \in Seq(Effects)
      OBVIOUS
    <3> QED BY <2>7, <3>1, ZenonT(60) DEF Instances
  <2> HIDE DEF w, r, p
  <2>10. /\ inst' \in [Two -> Instances] /\ inst'[i] = w
         /\ \A j \in Two : j # i => inst'[j] = inst[j]
    BY <1>0, <2>6, <2>9, ZenonT(60) DEF w
  <2>11. /\ DOMAIN verdict' = Two /\ verdict'[i] = r
         /\ \A j \in Two : j # i => verdict'[j] = verdict[j]
    BY <1>0, <2>5, ZenonT(60)
  <2>12. \A j \in Two : inst'[j].priority = inst[j].priority
    BY <2>9, <2>10, ZenonT(60)
  <2>13. ASSUME NEW j \in Two
         PROVE  /\ inst'[j].priority \in 1..254
                /\ sent[j] = vrrp_adv_build(At(c, addr[3 - j]),
                                            Buffer(c, inst'[3 - j].priority))
                /\ verdict'[j] = "none" => inst'[j].state = "MASTER"
                /\ verdict'[j] # "none" =>
                     verdict'[j] = vrrp_net_recv(At(c, addr[j]), inst'[j].priority, sent[j])
                /\ verdict'[j] = "PKT" =>
                     (inst'[j].state = "MASTER" <=>
                        ~Yields(c, addr[j], addr[3 - j], inst'[j].priority,
                                inst'[3 - j].priority))
    <3>1. inst'[j].priority = inst[j].priority /\ inst'[3 - j].priority = inst[3 - j].priority
      BY <2>12, Others, ZenonT(60)
    <3>2. CASE j = i
      <4>1. /\ verdict'[j] = r /\ verdict'[j] # "none" /\ inst'[j].state = x.state
        BY <2>8, <2>9, <2>10, <2>11, <3>2, ZenonT(60)
      <4>2. r = vrrp_net_recv(At(c, addr[j]), inst[j].priority, sent[j])
        BY <2>2, <3>2, ZenonT(60) DEF r
      <4>3. r = "PKT" => (x.state = "MASTER" <=>
              ~Yields(c, addr[j], addr[3 - j], inst[j].priority, inst[3 - j].priority))
        BY <2>7, <3>2, ZenonT(60)
      <4>4. /\ inst[j].priority \in 1..254
            /\ sent[j] = vrrp_adv_build(At(c, addr[3 - j]), Buffer(c, inst[3 - j].priority))
        BY ZenonT(60) DEF PeersInv
      <4> QED BY <3>1, <4>1, <4>2, <4>3, <4>4, ZenonT(60)
    <3>3. CASE j # i
      BY <2>10, <2>11, <3>1, <3>3, ZenonT(60) DEF PeersInv
    <3> QED BY <3>2, <3>3, ZenonT(60)
  <2> QED BY <1>0, <2>1, <2>10, <2>11, <2>13, ZenonT(60) DEF PeersInv
<1>2. ASSUME UNCHANGED vars PROVE PeersInv'
  BY <1>2, ZenonT(60) DEF PeersInv, vars
<1> QED BY <1>1, <1>2, SMTT(40) DEF Next, Done

\* Two routers with the same configuration, for any addresses and priorities, accept
\* each other's advertisement, every check of vrrp_net_recv agreeing with what
\* vrrp_adv_build writes, unless the interval needs more than a byte, the packet is
\* longer than vrrp_net_recv allows, or there is a password in VRRPv2 over IPv6: then
\* they refuse it.  The packet fits the interface, and the password does not begin
\* with the byte of an address that vrrp_net_recv compares it with.
THEOREM AlikeRoutersAgree ==
  ASSUME \A d \in SharedConfigs : Fits(d) /\ Telling(d)
  PROVE  Spec => []PeersAgree
<1>0. SharedConfigs \subseteq Configs
  BY ZenonT(60) DEF Fits
<1>1. Init => PeersInv
  BY <1>0, InitPeers, ZenonT(60)
<1>2. PeersInv /\ [Next]_vars => PeersInv'
  BY <1>0, NextPeers, ZenonT(60)
<1>3. PeersInv => PeersAgree
  <2> SUFFICES ASSUME PeersInv, NEW i \in Two, verdict[i] # "none"
               PROVE  verdict[i] = "PKT" <=> Understood(c)
    BY ZenonT(60) DEF PeersAgree
  <2> DEFINE a == addr[i]
             b == addr[3 - i]
             mine == inst[i].priority
             other == inst[3 - i].priority
  <2>1. /\ Fits(c) /\ Telling(c) /\ a \in Addresses /\ b \in Addresses
        /\ mine \in 1..254 /\ other \in 1..254
        /\ verdict[i] = vrrp_net_recv(At(c, a), mine, vrrp_adv_build(At(c, b), Buffer(c, other)))
    BY Others, ZenonT(60) DEF PeersInv
  <2>2. a \in Nat /\ b \in Nat
    <3>1. Addresses \subseteq Nat
      BY PeersAssumption, SMTT(40)
    <3> QED BY <2>1, <3>1, ZenonT(60)
  <2> DEFINE r == vrrp_net_recv(At(c, a), mine, vrrp_adv_build(At(c, b), Buffer(c, other)))
  <2> HIDE DEF a, b, mine, other
  <2>3. r = "PKT" <=> Understood(c)
    <3>1. Fits(c) /\ Telling(c) /\ mine \in 1..254 /\ other \in 1..254
      BY <2>1
    <3> QED BY <2>2, <3>1, JudgedAt, ZenonT(60)
  <2>4. verdict[i] = r
    BY <2>1
  <2> QED BY <2>3, <2>4
<1> QED BY <1>1, <1>2, <1>3, PTL DEF Spec

--------------------------------------------------------------------------------
(* Who stays master. *)

LEMMA ModUnique ==
  ASSUME NEW n \in Nat, n > 0, NEW x \in Int, x < n, x >= -n
  PROVE  x % n = IF x >= 0 THEN x ELSE x + n
BY SMTT(40)

\* The signed difference of two addresses has the sign of the difference as long as
\* they are less than half the space apart.
LEMMA Ip4Cmp ==
  ASSUME NEW x \in 0..(2 * HalfSpace - 1), NEW y \in 0..(2 * HalfSpace - 1), x # y,
         x - y \in -(HalfSpace - 1)..(HalfSpace - 1)
  PROVE  vrrp_ip4_cmp(x, y) > 0 <=> x > y
<1> DEFINE h == HalfSpace
           n == 2 * h
           e == x - y
           m == e % n
<1>1. h \in Nat /\ h > 0
  BY HalfSpaceAssumption, SMTT(40)
<1>2. vrrp_ip4_cmp(x, y) = IF m < h THEN m ELSE m - n
  BY DEF vrrp_ip4_cmp
<1>3. x \in 0..(n - 1) /\ y \in 0..(n - 1) /\ x - y \in -(h - 1)..(h - 1)
  OBVIOUS
<1> HIDE DEF h
<1>4. n \in Nat /\ n > 0 /\ e \in Int /\ e < n /\ e >= -n /\ e # 0 /\ x \in Int /\ y \in Int
  BY <1>1, <1>3, SMTT(40)
<1>5. m = IF e >= 0 THEN e ELSE e + n
  <2> HIDE DEF n, e
  <2> QED BY <1>4, ModUnique, SMTT(40)
<1> HIDE DEF m
<1> DEFINE z == vrrp_ip4_cmp(x, y)
<1> HIDE DEF z
<1>6. z = IF m < h THEN m ELSE m - 2 * h
  BY <1>2, SMTT(40) DEF z
<1>7. CASE e >= 0
  <2>1. x > y /\ m = x - y
    BY <1>4, <1>5, <1>7, SMTT(40)
  <2>2. z > 0 <=> x > y
    BY <1>1, <1>3, <1>4, <1>6, <2>1, SMTT(40)
  <2> QED BY <2>2, SMTT(40) DEF h, z
<1>8. CASE e < 0
  <2>1. ~(x > y) /\ m = x - y + 2 * h
    BY <1>1, <1>4, <1>5, <1>8, SMTT(40)
  <2>2. z > 0 <=> x > y
    BY <1>1, <1>3, <1>4, <1>6, <2>1, SMTT(40)
  <2> QED BY <2>2 DEF h, z
<1> QED BY <1>4, <1>7, <1>8, SMTT(40)

\* Two addresses that vrrp_ip4_cmp orders: less than half the space apart.
Close(a, b) == a - b \in -(HalfSpace - 1)..(HalfSpace - 1)

\* The one with priority p and address a does not give way to the other, with q and b,
\* exactly when it is the greater.
LEMMA WhoYields ==
  ASSUME NEW d, NEW p \in 1..254, NEW q \in 1..254,
         NEW a \in 0..(2 * HalfSpace - 1), NEW b \in 0..(2 * HalfSpace - 1), a # b,
         d.family = 4 => Close(b, a)
  PROVE  ~Yields(d, a, b, p, q) <=> (p > q \/ (p = q /\ a > b))
<1>1. HalfSpace \in Nat
  BY HalfSpaceAssumption, SMTT(40)
<1>2. ipx_cmp(d, b, a) > 0 <=> b > a
  <2>1. CASE d.family = 4
    <3>1. ipx_cmp(d, b, a) = vrrp_ip4_cmp(b, a)
      BY <2>1, ZenonT(60) DEF ipx_cmp
    <3>2. b - a \in -(HalfSpace - 1)..(HalfSpace - 1)
      BY <2>1, ZenonT(60) DEF Close
    <3> QED BY <3>1, <3>2, Ip4Cmp, SMTT(40)
  <2>2. CASE d.family # 4
    <3>1. ipx_cmp(d, b, a) = b - a
      BY <2>2, ZenonT(60) DEF ipx_cmp, vrrp_ip6_cmp
    <3>2. b - a > 0 <=> b > a
      BY <1>1, SMTT(40)
    <3> QED BY <3>1, <3>2, ZenonT(60)
  <2> QED BY <2>1, <2>2, SMTT(40)
<1>3. /\ b > a <=> ~(a > b)
      /\ p > q <=> ~(q > p \/ q = p)
      /\ p = q => ~(q > p)
  BY <1>1, SMTT(40)
<1> QED BY <1>2, <1>3, ZenonT(60) DEF Yields

\* Once two routers configured alike have accepted the advertisement of the other,
\* the one with the greater priority is the only master, or with equal priorities the
\* one with the greater address (MASTER handler of vrrp_state.c, vrrp_adv_addr_cmp),
\* for any configuration: with IPv6, and with IPv4 when the addresses of the routers
\* are less than half the address space apart, which vrrp_ip4_cmp needs to order them.
THEOREM GreaterWins ==
  ASSUME SharedConfigs \subseteq Configs,
         (\E d \in SharedConfigs : d.family = 4) => \A a, b \in Addresses : Close(a, b)
  PROVE  Spec => []GreaterStaysMaster
<1>1. Init => PeersInv
  BY InitPeers, ZenonT(60)
<1>2. PeersInv /\ [Next]_vars => PeersInv'
  BY NextPeers, ZenonT(60)
<1>3. PeersInv => GreaterStaysMaster
  <2> SUFFICES ASSUME PeersInv, \A i \in Two : verdict[i] = "PKT", NEW i \in Two
               PROVE  inst[i].state = "MASTER" <=> Greater(i, 3 - i)
    BY ZenonT(60) DEF GreaterStaysMaster
  <2> DEFINE p == inst[i].priority
             q == inst[3 - i].priority
             a == addr[i]
             b == addr[3 - i]
  <2>1. /\ p \in 1..254 /\ q \in 1..254 /\ a \in Addresses /\ b \in Addresses
        /\ c \in SharedConfigs
        /\ inst[i].state = "MASTER" <=> ~Yields(c, a, b, p, q)
    BY Others, ZenonT(60) DEF PeersInv
  <2>2. a # b
    <3>1. (i = 1 /\ 3 - i = 2) \/ (i = 2 /\ 3 - i = 1)
      BY DEF Two
    <3> QED BY <3>1, ZenonT(60) DEF PeersInv
  <2>3. Greater(i, 3 - i) <=> (p > q \/ (p = q /\ a > b))
    BY ZenonT(60) DEF Greater
  <2>4. c.family = 4 => Close(b, a)
    BY <2>1, ZenonT(60)
  <2>5. a \in 0..(2 * HalfSpace - 1) /\ b \in 0..(2 * HalfSpace - 1)
    BY <2>1, PeersAssumption, ZenonT(60)
  <2> HIDE DEF a, b, p, q
  <2>6. ~Yields(c, a, b, p, q) <=> (p > q \/ (p = q /\ a > b))
    BY <2>1, <2>2, <2>4, <2>5, WhoYields, ZenonT(60)
  <2> QED BY <2>1, <2>3, <2>6, ZenonT(60)
<1> QED BY <1>1, <1>2, <1>3, PTL DEF Spec

--------------------------------------------------------------------------------
(* The bytes of the advertisements, and of the frames of a new master. *)

\* The configurations of which this holds: the addresses are what the model keeps
\* of them, and there are no more than naddr counts.
Written(d) == d \in Configs /\ d.vips \in Seq(Addrs) /\ Len(d.vips) <= 255

\* What each is going to hear was built from a buffer that was never rewritten.
SentInv ==
  /\ c \in SharedConfigs /\ addr \in [Two -> Addresses]
  /\ \A i \in Two : \E prio \in 1..254 :
       sent[i] = vrrp_adv_build(At(c, addr[3 - i]), Buffer(c, prio))

LEMMA SentIsKept ==
  ASSUME SharedConfigs \subseteq Configs
  PROVE  Spec => []SentInv
<1>1. Init => SentInv
  <2> SUFFICES ASSUME Init PROVE SentInv
    OBVIOUS
  <2>1. c \in SharedConfigs /\ addr \in [Two -> Addresses]
    BY InitPost, ZenonT(60)
  <2>2. ASSUME NEW i \in Two
        PROVE  \E prio \in 1..254 :
                 sent[i] = vrrp_adv_build(At(c, addr[3 - i]), Buffer(c, prio))
    <3>1. /\ sent[i] = vrrp_adv_build(At(c, addr[3 - i]), Buffer(c, inst[3 - i].priority))
          /\ inst[3 - i].priority \in 1..254
      BY InitPost, Others, ZenonT(60)
    <3> QED BY <3>1, ZenonT(60)
  <2> QED BY <2>1, <2>2, ZenonT(60) DEF SentInv
<1>2. SentInv /\ [Next]_vars => SentInv'
  <2> SUFFICES ASSUME SentInv, [Next]_vars PROVE SentInv'
    OBVIOUS
  <2>1. c' = c /\ addr' = addr /\ sent' = sent
    BY ZenonT(60) DEF Next, Deliver, Done, vars
  <2> QED BY <2>1, ZenonT(60) DEF SentInv
<1> QED BY <1>1, <1>2, PTL DEF Spec

\* p has the bytes of the packet that a router with configuration d and address b
\* built with priority prio, except for the priority, which is x.
Altered(d, b, prio, x, p) ==
  /\ p.version = d.version /\ p.vrid = d.vrid /\ p.naddr = naddr(d)
  /\ p.hi = IF d.version = RFC3768 THEN d.auth_type ELSE d.adv_int \div 256
  /\ p.lo = d.adv_int % 256
  /\ p.vips = [i \in 1..Len(d.vips) |-> d.vips[Len(d.vips) + 1 - i]]
  /\ p.saddr = b /\ p.priority = x /\ p.chksum = adv_checksum(d, prio)

LEMMA AlteredFramed ==
  ASSUME NEW d, Written(d), NEW a \in Nat, NEW b, NEW prio, NEW x \in Bytes,
         NEW p, Altered(d, b, prio, x, p), NEW spare \in Seq(Words), Len(spare) = 4
  PROVE  Framed(At(d, a), p, spare) /\ naddr(d) \in Bytes
<1>1. d \in Configs /\ d.vips \in Seq(Addrs) /\ Len(d.vips) <= 255
  BY ZenonT(60) DEF Written
<1>2. /\ d.family \in {4, 6} /\ d.version \in {RFC3768, RFC5798} /\ d.vrid \in 0..255
      /\ d.adv_int \in 1..ADVINT_MAX
      /\ d.auth_type = NOAUTH \/ d.auth_type = SIMPLE
  BY <1>1, ZenonT(60) DEF Configs
<1>3. At(d, a).family = d.family
  BY <1>1, AtFields, ZenonT(60)
<1>4. /\ \A n \in 1..ADVINT_MAX : n \div 256 \in Bytes /\ n % 256 \in Bytes
      /\ NOAUTH \in Bytes /\ SIMPLE \in Bytes
  BY SMTT(40) DEF ADVINT_MAX, NOAUTH, SIMPLE, Bytes
<1>5. p.hi \in Bytes /\ p.lo \in Bytes
  <2>1. /\ p.hi = (IF d.version = RFC3768 THEN d.auth_type ELSE d.adv_int \div 256)
        /\ p.lo = d.adv_int % 256
    BY ZenonT(60) DEF Altered
  <2> DEFINE h == d.adv_int \div 256
             l == d.adv_int % 256
  <2>2. h \in Bytes /\ l \in Bytes
    <3> DEFINE t == d.adv_int
    <3>1. t \in 1..ADVINT_MAX
      BY <1>2, ZenonT(60)
    <3> HIDE DEF t
    <3>2. t \div 256 \in Bytes /\ t % 256 \in Bytes
      BY <1>4, <3>1, SMTT(40)
    <3> QED BY <3>2 DEF t
  <2>3. p.hi = (IF d.version = RFC3768 THEN d.auth_type ELSE h) /\ p.lo = l
    BY <2>1, SMTT(40)
  <2> HIDE DEF h, l
  <2>4. d.auth_type \in Bytes
    BY <1>2, <1>4, ZenonT(60)
  <2> QED BY <2>2, <2>3, <2>4, ZenonT(60)
<1>6. naddr(d) \in Bytes
  <2>1. Len(d.vips) \in Nat
    BY <1>1, SMTT(40)
  <2>2. \A n \in Nat : n % 256 \in Bytes
    BY SMTT(40) DEF Bytes
  <2> DEFINE n == Len(d.vips)
  <2>3. naddr(d) = n % 256 /\ n \in Nat
    BY <2>1 DEF naddr
  <2> HIDE DEF n
  <2> QED BY <2>2, <2>3, SMTT(40)
<1>7. p.vips \in Seq(Addrs) /\ Len(p.vips) <= 255
  <2> DEFINE v == d.vips
             l == Len(v)
             u == [i \in 1..l |-> v[l + 1 - i]]
  <2>1. v \in Seq(Addrs) /\ l \in Nat /\ l <= 255 /\ \A i \in 1..l : v[i] \in Addrs
    BY <1>1, SMTT(40)
  <2>2. p.vips = u
    BY ZenonT(60) DEF Altered
  <2> HIDE DEF l, v
  <2>3. \A i \in 1..l : l + 1 - i \in 1..l
    BY <2>1, SMTT(40)
  <2>4. \A i \in 1..l : v[l + 1 - i] \in Addrs
    BY <2>1, <2>3, ZenonT(60)
  <2>5. u \in Seq(Addrs) /\ Len(u) = l
    BY <2>1, <2>4, SMTT(40)
  <2> QED BY <2>1, <2>2, <2>5, ZenonT(60)
<1>8. /\ p.version \in {RFC3768, RFC5798} /\ p.vrid \in Bytes /\ p.naddr \in Bytes
      /\ p.priority \in Bytes
  BY <1>2, <1>6, ZenonT(60) DEF Altered, Bytes
<1> QED BY <1>2, <1>3, <1>5, <1>6, <1>7, <1>8, ZenonT(60) DEF Framed

\* The sum of e over the packet p it received is the one of g over q, exactly when
\* the abstract checksum is correct.
Agree(e, p, g, q, spare) ==
  chksum(e, p, p.saddr, spare) = chksum(g, q, 0, spare) <=> ChecksumOK(e, p)

\* The sums of a packet that one built and another received with priority x: they
\* agree exactly when x is the priority that was summed.
LEMMA Exact ==
  ASSUME NEW d, Written(d), NEW a \in Nat, NEW b \in Addrs, b # 0,
         NEW prio \in Bytes, NEW x \in Bytes, NEW spare \in Seq(Words), Len(spare) = 4,
         NEW q, Altered(d, b, prio, prio, q), NEW p, Altered(d, b, prio, x, p)
  PROVE  Agree(At(d, a), p, At(d, b), q, spare)
<1> DEFINE e == At(d, a)
           g == At(d, b)
<1>1. d \in Configs /\ b \in Nat
  <2>1. \A y \in Addrs : y \in Nat
    <3>1. Word16 * Word16 \in Nat
      BY SMTT(40) DEF Word16
    <3> QED BY <3>1, SMT DEF Addrs
  <2> QED BY <2>1, Zenon DEF Written
<1>2. /\ e.family = d.family /\ naddr(e) = naddr(d) /\ adv_getsize(e) = adv_getsize(d)
      /\ g.family = d.family /\ naddr(g) = naddr(d) /\ g.addr = b
  BY <1>1, AtFields, ZenonT(60)
<1>3. Framed(e, p, spare) /\ Framed(g, q, spare) /\ naddr(d) \in Bytes
  BY <1>1, AlteredFramed, ZenonT(60)
<1>4. Source(e, p.saddr) = b /\ Source(g, 0) = b
  BY <1>2, ZenonT(60) DEF Source, Altered
<1>5. /\ q.version = p.version /\ q.vrid = p.vrid /\ q.naddr = p.naddr
      /\ q.hi = p.hi /\ q.lo = p.lo /\ q.vips = p.vips
      /\ q.priority = prio /\ p.priority = x /\ p.chksum = adv_checksum(d, prio)
  BY ZenonT(60) DEF Altered
<1> HIDE DEF e, g
<1>6. chksum(e, p, p.saddr, spare) = chksum(g, q, 0, spare) <=> p.priority = q.priority
  <2>1. SameButPriority(p, q)
    BY <1>5, Zenon DEF SameButPriority
  <2>2. /\ naddr(e) \in Bytes /\ g.family = e.family /\ naddr(g) = naddr(e)
        /\ Source(e, p.saddr) \in Addrs /\ Source(g, 0) = Source(e, p.saddr)
    BY <1>2, <1>3, <1>4, Zenon
  <2>3. Told(e, p, p.saddr, g, q, 0, spare)
    BY <1>3, <2>1, <2>2, ChksumTold, ZenonT(60)
  <2> QED BY <2>3, Zenon DEF Told
<1>7. ChecksumOK(e, p) <=> x = prio
  <2> DEFINE k == adv_checksum(d, prio)
  <2>1. k.priority = prio /\ k.sizes = {adv_getsize(d)}
    BY DEF adv_checksum
  <2> HIDE DEF k
  <2> QED BY <1>2, <1>5, <2>1, ZenonT(60) DEF ChecksumOK, k
<1> QED BY <1>5, <1>6, <1>7, Zenon DEF e, g, Agree

LEMMA SentAgree ==
  ASSUME \A d \in SharedConfigs : Written(d), Addresses \subseteq Addrs \ {0}, SentInv,
         NEW i \in Two, NEW x \in Bytes, NEW spare \in Seq(Words), Len(spare) = 4
  PROVE  Agree(ConfigOf(i), [sent[i] EXCEPT !.priority = x], ConfigOf(3 - i), sent[i], spare)
<1> DEFINE a == addr[i]
           b == addr[3 - i]
           q == sent[i]
           p == [q EXCEPT !.priority = x]
<1>1. PICK prio \in 1..254 : q = vrrp_adv_build(At(c, b), Buffer(c, prio))
  BY ZenonT(60) DEF SentInv
<1>2. Written(c) /\ c \in Configs /\ a \in Nat /\ b \in Addrs /\ b # 0 /\ b \in Nat
  <2>1. Addresses \subseteq Nat
    BY PeersAssumption
  <2>2. Written(c) /\ a \in Addresses /\ b \in Addresses
    BY Others, ZenonT(60) DEF SentInv
  <2> QED BY <2>1, <2>2, ZenonT(60) DEF Written
<1>3. prio \in Bytes
  BY SMT DEF Bytes
<1>4. ConfigOf(i) = At(c, a) /\ ConfigOf(3 - i) = At(c, b)
  BY Zenon DEF ConfigOf, At
<1>5. Altered(c, b, prio, prio, q) /\ Altered(c, b, prio, x, p)
  <2> DEFINE g == At(c, b)
             f == Buffer(c, prio)
  <2>1. /\ g.version = c.version /\ g.vrid = c.vrid /\ g.adv_int = c.adv_int
        /\ g.auth_type = c.auth_type /\ g.vips = c.vips /\ naddr(g) = naddr(c)
        /\ g.addr = b
    BY <1>2, AtFields, ZenonT(60)
  <2>2. f.priority = prio /\ f.chksum = adv_checksum(c, prio)
    BY Zenon DEF Buffer
  <2>3. q = vrrp_adv_build(g, f)
    BY <1>1, Zenon
  <2> HIDE DEF q, g, f, b
  <2>4. Altered(c, b, prio, prio, q)
    BY <2>1, <2>2, <2>3, ZenonT(60) DEF vrrp_adv_build, Altered
  <2>5. Altered(c, b, prio, x, p)
    BY <2>1, <2>2, <2>3, ZenonT(60) DEF vrrp_adv_build, Altered
  <2> QED BY <2>4, <2>5, ZenonT(60) DEF b, q
<1> HIDE DEF a, b, p, q
<1>6. Agree(At(c, a), p, At(c, b), q, spare)
  BY <1>2, <1>3, <1>5, Exact, ZenonT(60)
<1> QED BY <1>4, <1>6, ZenonT(60) DEF p, q

\* The abstract checksum of VrrpNet is exact for every configuration: the Internet
\* checksum that the receiver computes (vrrp_ip4_chksum, vrrp_ip6_chksum) is the one
\* that the sender put in exactly when the priority is the one that was summed,
\* whatever the addresses, the number of virtual addresses and the spare bytes.  The
\* source address is not 0, which the code takes for no address.
THEOREM ChecksumExact ==
  ASSUME \A d \in SharedConfigs : Written(d), Addresses \subseteq Addrs \ {0}
  PROVE  Spec => []ChecksumIsExact
<1>1. SharedConfigs \subseteq Configs
  BY ZenonT(60) DEF Written
<1>2. SentInv => ChecksumIsExact
  <2> DEFINE Two16 == {0, 65535}
  <2>1. \A w \in Two16 : <<w, w, w, w>> \in Seq(Words) /\ Len(<<w, w, w, w>>) = 4
    <3>0. 0 \in Words /\ 65535 \in Words
      BY SMTT(40) DEF Words, Word16
    <3>1. \A w \in Two16 : w \in Words
      BY <3>0, SMTT(40)
    <3>2. \A w \in Words : <<w, w, w, w>> \in Seq(Words) /\ Len(<<w, w, w, w>>) = 4
      OBVIOUS
    <3> HIDE DEF Two16
    <3> QED BY <3>1, <3>2, ZenonT(60)
  <2>2. \A x \in PeerPriorities \cup {0} : x \in Bytes
    <3>1. \A n \in 1..254 : n \in Bytes
      BY SMTT(40) DEF Bytes
    <3>2. 0 \in Bytes
      BY SMTT(40) DEF Bytes
    <3> QED BY <3>1, <3>2, PeersAssumption, ZenonT(60)
  <2>3. SentInv => \A i \in Two : \A x \in PeerPriorities \cup {0}, w \in Two16 :
                     Agree(ConfigOf(i), [sent[i] EXCEPT !.priority = x],
                           ConfigOf(3 - i), sent[i], <<w, w, w, w>>)
    <3> HIDE DEF Two16
    <3> QED BY <2>1, <2>2, SentAgree, ZenonT(60)
  <2>4. (\A i \in Two : \A x \in PeerPriorities \cup {0}, w \in Two16 :
           Agree(ConfigOf(i), [sent[i] EXCEPT !.priority = x],
                 ConfigOf(3 - i), sent[i], <<w, w, w, w>>)) => ChecksumIsExact
    BY DEF Agree, ChecksumIsExact
  <2> QED BY <2>3, <2>4, SMTT(40)
<1>3. Spec => []SentInv
  BY <1>1, SentIsKept, SMTT(40)
<1> QED BY <1>2, <1>3, PTL

\* A new master sends for each of its addresses a frame that no host discards,
\* whatever the addresses: vrrp_arp_send and vrrp_na_send make one for every address,
\* and the checksum that vrrp_na_chksum puts in a neighbour advertisement verifies.
THEOREM FramesAccepted ==
  ASSUME \A d \in SharedConfigs : Written(d)
  PROVE  Spec => []FramesAreAccepted
<1>1. SharedConfigs \subseteq Configs
  BY ZenonT(60) DEF Written
<1>2. SentInv => FramesAreAccepted
  BY AllAnnounced, ZenonT(60) DEF SentInv, Written, FramesAreAccepted
<1>3. Spec => []SentInv
  BY <1>1, SentIsKept, SMTT(40)
<1> QED BY <1>2, <1>3, PTL

\* An IPv4 master updates the topology for each of its addresses: every gratuitous ARP
\* packet of vrrp_arp_send carries the hardware address that the script gave to its
\* interface, and comes from it.  (With IPv6 this is false, see run peers_takeover.)
THEOREM TakeoverAnnounced ==
  ASSUME \A d \in SharedConfigs : Written(d) /\ d.family = 4
  PROVE  Spec => []TakeoverIsAnnounced
<1>1. SharedConfigs \subseteq Configs
  BY ZenonT(60) DEF Written
<1>2. SentInv => TakeoverIsAnnounced
  <2> SUFFICES ASSUME SentInv PROVE TakeoverIsAnnounced
    OBVIOUS
  <2>1. c.family = 4 /\ c.vips \in Seq(Addrs)
    BY ZenonT(60) DEF SentInv, Written
  <2>2. Updated(c) = Announced(c)
    BY <2>1, ZenonT(60) DEF Updated
  <2> QED BY <2>1, <2>2, AllAnnounced, ZenonT(60) DEF TakeoverIsAnnounced
<1>3. Spec => []SentInv
  BY <1>1, SentIsKept, SMTT(40)
<1> QED BY <1>2, <1>3, PTL

================================================================================
