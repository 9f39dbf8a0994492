--------------------------- MODULE VerifierLemmas ---------------------------
(***************************************************************************)
(* Facts about winning_ticket, draw and verify, for any digest function,   *)
(* any number of tickets and ledgers of any length.                        *)
(***************************************************************************)
EXTENDS Verifier, ProtocolLemmas, FiniteSetTheorems, FunctionTheorems

\* The digest of a seed is a string of bytes.  TLC cannot evaluate this for all
\* seeds, so it is a hypothesis of the theorems instead of an ASSUME.
DigestHypothesis == \A seed : Digest(seed) \in Digests

-----------------------------------------------------------------------------
(* winning_ticket *)

IsRemainder(digest, total, g, n) ==
  /\ g \in [0 .. n -> Nat]
  /\ \A k \in 0 .. n : g[k] < total
  /\ g[0] = 0
  /\ \A k \in 1 .. n : g[k] = (g[k - 1] * Radix + digest[k]) % total

\* One turn of the loop stays below the number of tickets.
LEMMA RemainderStep ==
  ASSUME NEW x \in Nat, NEW d \in Nat, NEW t \in Nat \ {0}, NEW radix \in Nat
  PROVE  (x * radix + d) % t \in Nat /\ (x * radix + d) % t < t
<1>1. x * radix \in Nat
  OBVIOUS
<1>2. ASSUME NEW y \in Nat PROVE (y + d) % t \in Nat /\ (y + d) % t < t
  OBVIOUS
<1> QED
  BY <1>1, <1>2

\* The loop can be carried out for any number of bytes.
LEMMA RemainderExists ==
  ASSUME NEW digest \in Digests, NEW total \in Nat \ {0}
  PROVE  \E g : IsRemainder(digest, total, g, DigestLen)
<1> DEFINE Bad == {n \in 0 .. DigestLen : ~\E g : IsRemainder(digest, total, g, n)}
<1>0. DigestLen \in Nat /\ Radix \in Nat /\ \A k \in 1 .. DigestLen : digest[k] \in Nat
  BY DigestAssumption DEF Digests
<1>1. Bad = {}
  <2> SUFFICES ASSUME Bad # {} PROVE FALSE
    OBVIOUS
  <2>1. Bad \subseteq Nat
    BY <1>0
  <2> HIDE DEF Bad
  <2>2. PICK m \in Bad : \A n \in Bad : m <= n
    BY <2>1, Least
  <2>3. m \in 0 .. DigestLen /\ ~\E g : IsRemainder(digest, total, g, m)
    BY <2>2 DEF Bad
  <2>4. m # 0
    <3>1. IsRemainder(digest, total, [k \in 0 .. 0 |-> 0], 0)
      BY DEF IsRemainder
    <3> QED
      BY <2>3, <3>1
  <2>5. m - 1 \in 0 .. DigestLen /\ ~(m <= m - 1) /\ m \in 1 .. DigestLen
    BY <1>0, <2>3, <2>4
  <2>6. PICK g : IsRemainder(digest, total, g, m - 1)
    BY <2>2, <2>5 DEF Bad
  <2> DEFINE last == (g[m - 1] * Radix + digest[m]) % total
             h == [k \in 0 .. m |-> IF k = m THEN last ELSE g[k]]
  <2>7. g[m - 1] \in Nat /\ digest[m] \in Nat
    BY <1>0, <2>5, <2>6 DEF IsRemainder
  <2>8. last \in Nat /\ last < total
    BY <1>0, <2>7, RemainderStep
  <2>9. IsRemainder(digest, total, h, m)
    <3>1. g \in [0 .. m - 1 -> Nat]
      BY <2>6 DEF IsRemainder
    <3>2. /\ DOMAIN h = 0 .. m
          /\ h[m] = last
          /\ \A k \in 0 .. m - 1 : h[k] = g[k]
      BY <2>5
    <3>3. h = [k \in 0 .. m |-> h[k]]
      OBVIOUS
    <3> HIDE DEF h
    <3>4. ASSUME NEW k \in 0 .. m PROVE h[k] \in Nat /\ h[k] < total
      <4>1. k = m \/ k \in 0 .. m - 1
        BY <2>5
      <4> HIDE DEF last
      <4> QED
        BY <2>6, <2>8, <3>1, <3>2, <4>1 DEF IsRemainder
    <3>5. h \in [0 .. m -> Nat]
      BY <3>3, <3>4
    <3>6. h[0] = 0
      BY <2>5, <2>6, <3>2 DEF IsRemainder
    <3>7. ASSUME NEW k \in 1 .. m PROVE h[k] = (h[k - 1] * Radix + digest[k]) % total
      <4>1. k - 1 \in 0 .. m - 1 /\ h[k - 1] = g[k - 1]
        BY <2>5, <3>2
      <4>2. CASE k = m
        BY <3>2, <4>1, <4>2
      <4>3. CASE k # m
        <5>1. k \in 1 .. m - 1 /\ k \in 0 .. m - 1
          BY <2>5, <4>3
        <5>2. g[k] = (g[k - 1] * Radix + digest[k]) % total
          BY <2>6, <5>1 DEF IsRemainder
        <5> QED
          BY <3>2, <4>1, <5>1, <5>2
      <4> QED
        BY <4>2, <4>3
    <3> QED
      BY <3>4, <3>5, <3>6, <3>7 DEF IsRemainder
  <2> QED
    BY <2>3, <2>9
<1>2. DigestLen \in 0 .. DigestLen
  BY <1>0
<1> QED
  BY <1>1, <1>2

\* The function that winning_ticket's loop computes satisfies its own equations.
LEMMA RemainderEquations ==
  ASSUME NEW digest \in Digests, NEW total \in Nat \ {0}
  PROVE  /\ Remainder(digest, total)[0] = 0
         /\ \A k \in 1 .. DigestLen :
              Remainder(digest, total)[k]
                = (Remainder(digest, total)[k - 1] * Radix + digest[k]) % total
         /\ \A k \in 0 .. DigestLen :
              Remainder(digest, total)[k] \in Nat /\ Remainder(digest, total)[k] < total
<1> DEFINE Body(g) == [k \in 0 .. DigestLen |->
                         IF k = 0 THEN 0 ELSE (g[k - 1] * Radix + digest[k]) % total]
           R == Remainder(digest, total)
<1>0. DigestLen \in Nat /\ Radix \in Nat /\ \A k \in 1 .. DigestLen : digest[k] \in Nat
  BY DigestAssumption DEF Digests
<1>1. PICK g : IsRemainder(digest, total, g, DigestLen)
  BY RemainderExists
<1>2. g = Body(g)
  <2>1. /\ g = [k \in 0 .. DigestLen |-> g[k]]
        /\ \A k \in 0 .. DigestLen : g[k] = IF k = 0 THEN 0 ELSE (g[k - 1] * Radix + digest[k]) % total
    BY <1>0, <1>1 DEF IsRemainder
  <2> QED
    BY <2>1, Zenon
<1>3. R = CHOOSE h : h = Body(h)
  BY Zenon DEF Remainder
<1>4. R = Body(R)
  <2> HIDE DEF Body
  <2> QED
    BY <1>2, <1>3, Zenon
<1> HIDE DEF R
<1>5. /\ R[0] = 0
      /\ \A k \in 1 .. DigestLen : R[k] = (R[k - 1] * Radix + digest[k]) % total
  <2>1. \A k \in 0 .. DigestLen : R[k] = IF k = 0 THEN 0 ELSE (R[k - 1] * Radix + digest[k]) % total
    BY <1>4, Zenon
  <2>2. 0 \in 0 .. DigestLen /\ \A k \in 1 .. DigestLen : k \in 0 .. DigestLen /\ k # 0
    BY <1>0
  <2> QED
    BY <2>1, <2>2, Zenon
<1> DEFINE Bad == {n \in 0 .. DigestLen : ~(R[n] \in Nat /\ R[n] < total)}
<1>6. Bad = {}
  <2> SUFFICES ASSUME Bad # {} PROVE FALSE
    OBVIOUS
  <2>1. Bad \subseteq Nat
    BY <1>0
  <2> HIDE DEF Bad
  <2>2. PICK m \in Bad : \A n \in Bad : m <= n
    BY <2>1, Least
  <2>3. m \in 0 .. DigestLen /\ ~(R[m] \in Nat /\ R[m] < total)
    BY <2>2 DEF Bad
  <2>4. m # 0
    BY <1>5, <2>3
  <2>5. m - 1 \in 0 .. DigestLen /\ ~(m <= m - 1) /\ m \in 1 .. DigestLen
    BY <1>0, <2>3, <2>4
  <2>6. R[m - 1] \in Nat
    BY <2>2, <2>5 DEF Bad
  <2>7. R[m] = (R[m - 1] * Radix + digest[m]) % total /\ digest[m] \in Nat
    BY <1>0, <1>5, <2>5
  <2> QED
    BY <1>0, <2>3, <2>6, <2>7, RemainderStep
<1>7. \A k \in 0 .. DigestLen : R[k] \in Nat /\ R[k] < total
  BY <1>6
<1> QED
  BY <1>5, <1>7 DEF R

\* The winning ticket is one of the tickets.
LEMMA RemainderBelowTotal ==
  ASSUME NEW digest \in Digests, NEW total \in Nat \ {0}
  PROVE  Remainder(digest, total)[DigestLen] \in 0 .. total - 1
<1>1. DigestLen \in 0 .. DigestLen
  BY DigestAssumption
<1> QED
  BY <1>1, RemainderEquations

-----------------------------------------------------------------------------
(* How often a ticket wins. *)

\* Division with remainder.
LEMMA DivMod ==
  ASSUME NEW x \in Nat, NEW t \in Nat \ {0}
  PROVE  /\ x \div t \in Nat
         /\ x % t \in Nat /\ x % t < t
         /\ x = (x \div t) * t + (x % t)
<1>1. x \div t \in Nat
  OBVIOUS
<1>2. x % t \in Nat /\ x % t < t
  OBVIOUS
<1>3. x = t * (x \div t) + (x % t)
  OBVIOUS
<1>4. ASSUME NEW q \in Nat PROVE t * q = q * t
  OBVIOUS
<1> QED
  BY <1>1, <1>2, <1>3, <1>4

\* Between two multiples lies at least one divisor.
LEMMA Multiples ==
  ASSUME NEW q \in Nat, NEW p \in Nat, NEW t \in Nat, q < p
  PROVE  q * t + t <= p * t
OBVIOUS

\* Quotient and remainder are unique.
LEMMA DivModUnique ==
  ASSUME NEW q \in Nat, NEW p \in Nat, NEW r \in Nat, NEW s \in Nat, NEW t \in Nat \ {0},
         r < t, s < t, q * t + r = p * t + s
  PROVE  q = p /\ r = s
<1>1. q * t \in Nat /\ p * t \in Nat
  OBVIOUS
<1>2. CASE q < p
  BY <1>1, <1>2, Multiples
<1>3. CASE p < q
  BY <1>1, <1>3, Multiples
<1>4. CASE p = q
  BY <1>1, <1>4
<1> QED
  BY <1>2, <1>3, <1>4

\* The same by name: what divides as q and r has quotient q and remainder r.
LEMMA DivModOf ==
  ASSUME NEW q \in Nat, NEW r \in Nat, NEW t \in Nat \ {0}, r < t
  PROVE  q * t + r \in Nat /\ (q * t + r) \div t = q /\ (q * t + r) % t = r
<1> DEFINE x == q * t + r
<1>1. x \in Nat
  OBVIOUS
<1> HIDE DEF x
<1>2. x \div t \in Nat /\ x % t \in Nat /\ x % t < t /\ x = (x \div t) * t + (x % t)
  BY <1>1, DivMod
<1>3. x = q * t + r
  BY DEF x
<1>4. q = x \div t /\ r = x % t
  BY <1>2, <1>3, DivModUnique
<1> QED
  BY <1>1, <1>4 DEF x

\* A turn of the loop may as well start from the number itself as from its remainder.
LEMMA RemainderOfNumber ==
  ASSUME NEW x \in Nat, NEW d \in Nat, NEW b \in Nat, NEW t \in Nat \ {0}
  PROVE  ((x % t) * b + d) % t = (x * b + d) % t
<1> DEFINE q == x \div t
           r == x % t
           y == r * b + d
           p == y \div t
           s == y % t
<1>1. q \in Nat /\ r \in Nat /\ x = q * t + r
  BY DivMod
<1>2. y \in Nat
  BY <1>1
<1> HIDE DEF q, r, y
<1>3. p \in Nat /\ s \in Nat /\ s < t /\ y = p * t + s
  BY <1>2, DivMod
<1> HIDE DEF p, s
<1>4. x * b + d = (q * b + p) * t + s
  <2>1. x * b = (q * t) * b + r * b
    BY <1>1
  <2>2. (q * t) * b = (q * b) * t
    BY <1>1
  <2>3. (q * b + p) * t = (q * b) * t + p * t
    BY <1>1, <1>3
  <2> QED
    BY <1>1, <1>3, <2>1, <2>2, <2>3 DEF y
<1>5. q * b + p \in Nat
  BY <1>1, <1>3
<1>6. ((q * b + p) * t + s) % t = s
  BY <1>3, <1>5, DivModOf
<1> QED
  BY <1>4, <1>6 DEF s, y, r

\* What FunctionTheorems calls a bijection, in full.
OneToOne(F, S, T) ==
  /\ F \in [S -> T]
  /\ \A x, y \in S : F[x] = F[y] => x = y
  /\ \A z \in T : \E x \in S : F[x] = z

LEMMA CountedBy ==
  ASSUME NEW S, NEW n \in Nat, NEW F, OneToOne(F, 1 .. n, S)
  PROVE  Cardinality(S) = n
<1>1. F \in Bijection(1 .. n, S)
  BY Fun_IsBij, Zenon DEF OneToOne
<1>2. ExistsBijection(1 .. n, S)
  BY <1>1, Zenon DEF ExistsBijection
<1> QED
  BY <1>2, FS_CountingElements

\* Of the numbers below m, n divides some m \div n or one more with remainder t.
LEMMA ResidueCount ==
  ASSUME NEW m \in Nat, NEW n \in Nat \ {0}, NEW t \in Nat, t < n
  PROVE  \E c \in {m \div n, (m \div n) + 1} :
           \E G : c \in Nat /\ OneToOne(G, 1 .. c, {v \in 0 .. m - 1 : v % n = t})
<1> DEFINE q == m \div n
           r == m % n
           c == IF t < r THEN q + 1 ELSE q
           S == {v \in 0 .. m - 1 : v % n = t}
           G == [i \in 1 .. c |-> (i - 1) * n + t]
<1>1. q \in Nat /\ r \in Nat /\ r < n /\ m = q * n + r
  BY DivMod
<1>2. q * n \in Nat
  BY <1>1
<1> HIDE DEF q, r
<1>3. c \in Nat /\ c \in {q, q + 1}
  BY <1>1
<1>4. ASSUME NEW i \in 1 .. c PROVE (i - 1) * n + t \in S
  <2>1. i - 1 \in Nat /\ (i - 1) * n \in Nat
    BY <1>3
  <2>2. ((i - 1) * n + t) % n = t
    BY <2>1, DivModOf
  <2>3. (i - 1) * n + t < m
    <3>1. CASE i - 1 < q
      <4>1. (i - 1) * n + n <= q * n
        BY <1>1, <2>1, <3>1, Multiples
      <4> HIDE DEF c
      <4> QED
        BY <1>1, <1>2, <2>1, <4>1
    <3>2. CASE ~(i - 1 < q)
      <4>1. i - 1 = q /\ t < r
        BY <1>1, <1>3, <3>2
      <4> QED
        BY <1>1, <1>2, <4>1
    <3> QED
      BY <3>1, <3>2
  <2> HIDE DEF c
  <2> QED
    BY <2>1, <2>2, <2>3
<1>5. G \in [1 .. c -> S]
  BY <1>4
<1>6. ASSUME NEW i \in 1 .. c, NEW j \in 1 .. c, G[i] = G[j] PROVE i = j
  <2>1. (i - 1) * n + t = (j - 1) * n + t /\ i - 1 \in Nat /\ j - 1 \in Nat
    BY <1>3, <1>6
  <2>2. i - 1 = j - 1
    BY <2>1, DivModUnique
  <2> HIDE DEF c
  <2> QED
    BY <1>3, <2>2
<1>7. ASSUME NEW v \in S PROVE \E i \in 1 .. c : G[i] = v
  <2> DEFINE p == v \div n
  <2>1. v \in Nat /\ v < m /\ v % n = t
    OBVIOUS
  <2>2. p \in Nat /\ v = p * n + t
    BY <2>1, DivMod
  <2>3. p * n \in Nat
    BY <2>2
  <2> HIDE DEF p, S
  <2>4. p + 1 <= c
    <3>1. CASE q < p
      <4>1. q * n + n <= p * n
        BY <1>1, <2>2, <3>1, Multiples
      <4> QED
        BY <1>1, <1>2, <2>1, <2>2, <2>3, <4>1
    <3>2. CASE p = q
      <4>1. t < r
        BY <1>1, <1>2, <2>1, <2>2, <3>2
      <4> QED
        BY <1>1, <3>2, <4>1
    <3>3. CASE p < q
      BY <1>1, <2>2, <3>3
    <3> QED
      BY <1>1, <2>2, <3>1, <3>2, <3>3
  <2> HIDE DEF c
  <2>5. p + 1 \in 1 .. c /\ (p + 1) - 1 = p
    BY <1>3, <2>2, <2>4
  <2>6. G[p + 1] = v
    BY <2>2, <2>5
  <2> QED
    BY <2>5, <2>6
<1>8. OneToOne(G, 1 .. c, S)
  <2> HIDE DEF G, c, S
  <2> QED
    BY <1>5, <1>6, <1>7 DEF OneToOne
<1> HIDE DEF G, c
<1> QED
  BY <1>3, <1>8 DEF q

-----------------------------------------------------------------------------
\* Strings of k bytes, and the first k bytes of a longer one.
Bytes(k) == [1 .. k -> 0 .. Radix - 1]

Leading(d, k) == [i \in 1 .. k |-> d[i]]

\* If F numbers the strings of m - 1 bytes, this numbers those of m bytes.
NextNumber(F, m) == [e \in Bytes(m) |-> F[Leading(e, m - 1)] * Radix + e[m]]

LEMMA NumberStep ==
  ASSUME NEW m \in Nat \ {0}, NEW M \in Nat \ {0}, NEW F, OneToOne(F, Bytes(m - 1), 0 .. M - 1)
  PROVE  M * Radix \in Nat \ {0} /\ OneToOne(NextNumber(F, m), Bytes(m), 0 .. M * Radix - 1)
<1> DEFINE b == Radix
           G == NextNumber(F, m)
<1>0. b \in Nat \ {0} /\ m \in 1 .. m /\ m - 1 \in Nat
  BY DigestAssumption
<1> HIDE DEF b
<1>1. M * b \in Nat \ {0}
  BY <1>0
<1>2. ASSUME NEW e \in Bytes(m)
      PROVE  /\ Leading(e, m - 1) \in Bytes(m - 1)
             /\ F[Leading(e, m - 1)] \in 0 .. M - 1
             /\ e[m] \in 0 .. b - 1
  <2>1. \A i \in 1 .. m : e[i] \in 0 .. b - 1
    BY DEF Bytes, b
  <2>2. Leading(e, m - 1) \in Bytes(m - 1)
    BY <1>0, <2>1 DEF Bytes, Leading, b
  <2> QED
    BY <1>0, <2>1, <2>2 DEF OneToOne
<1>3. ASSUME NEW q \in 0 .. M - 1, NEW d \in 0 .. b - 1 PROVE q * b + d \in 0 .. M * b - 1
  <2>1. q \in Nat /\ q < M /\ d \in Nat /\ d < b /\ q * b \in Nat
    BY <1>0
  <2>2. q * b + b <= M * b
    BY <1>0, <2>1, Multiples
  <2> QED
    BY <1>0, <1>1, <2>1, <2>2
<1>4. G \in [Bytes(m) -> 0 .. M * b - 1]
  BY <1>2, <1>3 DEF NextNumber, b
<1>5. ASSUME NEW e \in Bytes(m), NEW f \in Bytes(m), G[e] = G[f] PROVE e = f
  <2> DEFINE q == F[Leading(e, m - 1)]
             p == F[Leading(f, m - 1)]
  <2>1. q * b + e[m] = p * b + f[m]
    BY <1>5 DEF NextNumber, b
  <2>2. q \in 0 .. M - 1 /\ p \in 0 .. M - 1 /\ e[m] \in 0 .. b - 1 /\ f[m] \in 0 .. b - 1
    BY <1>2
  <2> HIDE DEF q, p
  <2>3. q \in Nat /\ p \in Nat /\ e[m] \in Nat /\ f[m] \in Nat /\ e[m] < b /\ f[m] < b
    BY <1>0, <2>2
  <2>4. q = p /\ e[m] = f[m]
    <3>1. b \in Nat \ {0}
      BY <1>0
    <3> QED
      BY <2>1, <2>3, <3>1, DivModUnique, Zenon
  <2>5. Leading(e, m - 1) = Leading(f, m - 1)
    BY <1>2, <2>4 DEF OneToOne, q, p
  <2>6. ASSUME NEW i \in 1 .. m PROVE e[i] = f[i]
    <3>1. CASE i = m
      BY <2>4, <3>1
    <3>2. CASE i # m
      <4>1. i \in 1 .. m - 1
        BY <1>0, <3>2
      <4>2. Leading(e, m - 1)[i] = e[i] /\ Leading(f, m - 1)[i] = f[i]
        BY <4>1 DEF Leading
      <4> QED
        BY <2>5, <4>2
    <3> QED
      BY <3>1, <3>2
  <2> QED
    BY <2>6 DEF Bytes
<1>6. ASSUME NEW v \in 0 .. M * b - 1 PROVE \E e \in Bytes(m) : G[e] = v
  <2> DEFINE q == v \div b
             d == v % b
  <2>1. v \in Nat /\ v < M * b
    BY <1>1
  <2>2. q \in Nat /\ d \in Nat /\ d < b /\ v = q * b + d
    BY <1>0, <2>1, DivMod
  <2> HIDE DEF q, d
  <2>3. q \in 0 .. M - 1
    <3>1. q * b \in Nat
      BY <1>0, <2>2
    <3>2. CASE q = M
      BY <1>0, <1>1, <2>1, <2>2, <3>1, <3>2
    <3>3. CASE M < q
      <4>1. M * b + b <= q * b
        BY <1>0, <2>2, <3>3, Multiples
      <4> QED
        BY <1>0, <1>1, <2>1, <2>2, <3>1, <4>1
    <3> QED
      BY <2>2, <3>2, <3>3
  <2>4. PICK p \in Bytes(m - 1) : F[p] = q
    BY <2>3 DEF OneToOne
  <2> DEFINE e == [i \in 1 .. m |-> IF i = m THEN d ELSE p[i]]
  <2>5. d \in 0 .. b - 1 /\ \A i \in 1 .. m - 1 : p[i] \in 0 .. b - 1
    BY <1>0, <2>2 DEF Bytes, b
  <2>6. e \in Bytes(m)
    <3>1. ASSUME NEW i \in 1 .. m PROVE (IF i = m THEN d ELSE p[i]) \in 0 .. b - 1
      <4>1. i # m => i \in 1 .. m - 1
        BY <1>0
      <4> QED
        BY <2>5, <4>1
    <3> QED
      BY <3>1 DEF Bytes, b
  <2>7. e[m] = d /\ Leading(e, m - 1) = p
    <3>1. \A i \in 1 .. m - 1 : i \in 1 .. m /\ i # m
      BY <1>0
    <3>2. p = [i \in 1 .. m - 1 |-> p[i]]
      BY DEF Bytes
    <3> QED
      BY <1>0, <3>1, <3>2 DEF Leading
  <2>8. G[e] = v
    BY <2>2, <2>4, <2>6, <2>7 DEF NextNumber, b
  <2> QED
    BY <2>6, <2>8
<1>7. OneToOne(G, Bytes(m), 0 .. M * b - 1)
  <2> HIDE DEF G
  <2> QED
    BY <1>4, <1>5, <1>6 DEF OneToOne
<1> QED
  BY <1>1, <1>7 DEF b

\* After k bytes the loop holds the remainder of the number that those k bytes
\* are, in a numbering of all strings of k bytes without gaps.
IsNumbering(F, M, k, total) ==
  /\ M \in Nat \ {0}
  /\ OneToOne(F, Bytes(k), 0 .. M - 1)
  /\ \A d \in Digests : Remainder(d, total)[k] = F[Leading(d, k)] % total

LEMMA NumberingStarts ==
  ASSUME NEW total \in Nat \ {0}
  PROVE  \E M, F : IsNumbering(F, M, 0, total)
<1> DEFINE F == [e \in Bytes(0) |-> 0]
<1>1. ASSUME NEW e \in Bytes(0), NEW f \in Bytes(0) PROVE e = f
  BY DEF Bytes
<1>2. \A d : Leading(d, 0) \in Bytes(0)
  BY DEF Leading, Bytes
<1>3. F \in [Bytes(0) -> 0 .. 1 - 1]
  OBVIOUS
<1>4. ASSUME NEW z \in 0 .. 1 - 1 PROVE \E e \in Bytes(0) : F[e] = z
  BY <1>2
<1>5. OneToOne(F, Bytes(0), 0 .. 1 - 1)
  BY <1>1, <1>3, <1>4 DEF OneToOne
<1>6. ASSUME NEW d \in Digests PROVE Remainder(d, total)[0] = F[Leading(d, 0)] % total
  <2>1. Remainder(d, total)[0] = 0
    BY RemainderEquations
  <2>2. F[Leading(d, 0)] = 0
    BY <1>2
  <2>3. 0 % total = 0
    OBVIOUS
  <2> QED
    BY <2>1, <2>2, <2>3
<1>7. IsNumbering(F, 1, 0, total)
  BY <1>5, <1>6 DEF IsNumbering
<1> QED
  BY <1>7

LEMMA NumberingContinues ==
  ASSUME NEW total \in Nat \ {0}, NEW m \in 1 .. DigestLen,
         NEW M, NEW F, IsNumbering(F, M, m - 1, total)
  PROVE  IsNumbering(NextNumber(F, m), M * Radix, m, total)
<1>0. DigestLen \in Nat /\ Radix \in Nat \ {0} /\ m \in Nat \ {0} /\ m - 1 \in Nat
  BY DigestAssumption
<1>1. M \in Nat \ {0} /\ OneToOne(F, Bytes(m - 1), 0 .. M - 1)
  BY DEF IsNumbering
<1>2. M * Radix \in Nat \ {0} /\ OneToOne(NextNumber(F, m), Bytes(m), 0 .. M * Radix - 1)
  BY <1>0, <1>1, NumberStep
<1>3. ASSUME NEW d \in Digests
      PROVE  Remainder(d, total)[m] = NextNumber(F, m)[Leading(d, m)] % total
  <2> DEFINE e == Leading(d, m)
             x == F[Leading(d, m - 1)]
  <2>1. \A i \in 1 .. m : d[i] \in 0 .. Radix - 1
    BY <1>0 DEF Digests
  <2>2. e \in Bytes(m) /\ e[m] = d[m] /\ d[m] \in Nat
    BY <1>0, <2>1 DEF Leading, Bytes
  <2>3. Leading(e, m - 1) = Leading(d, m - 1)
    <3>1. \A i \in 1 .. m - 1 : i \in 1 .. m
      BY <1>0
    <3>2. \A i \in 1 .. m - 1 : e[i] = d[i]
      BY <3>1 DEF Leading
    <3> QED
      BY <3>2 DEF Leading
  <2>4. Leading(d, m - 1) \in Bytes(m - 1)
    BY <1>0, <2>1 DEF Leading, Bytes
  <2>5. x \in Nat
    BY <1>1, <2>4 DEF OneToOne
  <2>6. NextNumber(F, m)[e] = x * Radix + d[m]
    BY <2>2, <2>3 DEF NextNumber
  <2>7. Remainder(d, total)[m] = (Remainder(d, total)[m - 1] * Radix + d[m]) % total
    BY RemainderEquations
  <2>8. Remainder(d, total)[m - 1] = x % total
    BY DEF IsNumbering
  <2> HIDE DEF x, e
  <2>9. ((x % total) * Radix + d[m]) % total = (x * Radix + d[m]) % total
    <3>1. ASSUME NEW y \in Nat, NEW b \in Nat
          PROVE  ((x % total) * b + y) % total = (x * b + y) % total
      BY <2>5, RemainderOfNumber, ZenonT(60)
    <3>2. Radix \in Nat /\ d[m] \in Nat
      BY <1>0, <2>2
    <3> QED
      BY <3>1, <3>2, Zenon
  <2> QED
    BY <2>6, <2>7, <2>8, <2>9 DEF e
<1> QED
  BY <1>2, <1>3 DEF IsNumbering

LEMMA NumberingExists ==
  ASSUME NEW total \in Nat \ {0}
  PROVE  \E M, F : IsNumbering(F, M, DigestLen, total)
<1> DEFINE Bad == {k \in 0 .. DigestLen : ~\E M, F : IsNumbering(F, M, k, total)}
<1>0. DigestLen \in Nat
  BY DigestAssumption
<1>1. Bad = {}
  <2> SUFFICES ASSUME Bad # {} PROVE FALSE
    OBVIOUS
  <2>1. Bad \subseteq Nat
    BY <1>0
  <2> HIDE DEF Bad
  <2>2. PICK m \in Bad : \A n \in Bad : m <= n
    BY <2>1, Least
  <2>3. m \in 0 .. DigestLen /\ ~\E M, F : IsNumbering(F, M, m, total)
    BY <2>2 DEF Bad
  <2>4. m # 0
    BY <2>3, NumberingStarts
  <2>5. m - 1 \in 0 .. DigestLen /\ ~(m <= m - 1) /\ m \in 1 .. DigestLen
    BY <1>0, <2>3, <2>4
  <2>6. PICK M, F : IsNumbering(F, M, m - 1, total)
    BY <2>2, <2>5 DEF Bad
  <2> QED
    BY <2>3, <2>5, <2>6, NumberingContinues
<1>2. DigestLen \in 0 .. DigestLen
  BY <1>0
<1> QED
  BY <1>1, <1>2

\* Every ticket wins for the same number of digests, give or take one, whatever
\* the length of a digest, its radix and the number of tickets (winning_ticket).
THEOREM EveryTicketEquallyLikely ==
  ASSUME NEW total \in Nat \ {0}, NEW t \in 0 .. total - 1
  PROVE  Cardinality({d \in Digests : Remainder(d, total)[DigestLen] = t})
           \in {Cardinality(Digests) \div total, (Cardinality(Digests) \div total) + 1}
<1> DEFINE Hits == {d \in Digests : Remainder(d, total)[DigestLen] = t}
<1>1. PICK M, F : IsNumbering(F, M, DigestLen, total)
  BY NumberingExists
<1>2. Bytes(DigestLen) = Digests /\ \A d \in Digests : Leading(d, DigestLen) = d
  BY DEF Bytes, Digests, Leading
<1>3. M \in Nat \ {0} /\ OneToOne(F, Digests, 0 .. M - 1)
  BY <1>1, <1>2 DEF IsNumbering
<1>4. \A d \in Digests : Remainder(d, total)[DigestLen] = F[d] % total
  BY <1>1, <1>2 DEF IsNumbering
<1> DEFINE Numbered(v) == CHOOSE d \in Digests : F[d] = v
<1>5. ASSUME NEW v \in 0 .. M - 1 PROVE Numbered(v) \in Digests /\ F[Numbered(v)] = v
  BY <1>3 DEF OneToOne
<1>6. ASSUME NEW d \in Digests PROVE F[d] \in 0 .. M - 1 /\ Numbered(F[d]) = d
  <2>1. F[d] \in 0 .. M - 1
    BY <1>3 DEF OneToOne
  <2>2. Numbered(F[d]) \in Digests /\ F[Numbered(F[d])] = F[d]
    BY <1>5, <2>1
  <2> HIDE DEF Numbered
  <2> QED
    BY <1>3, <2>1, <2>2 DEF OneToOne
<1> HIDE DEF Numbered
<1>7. Cardinality(Digests) = M
  <2> DEFINE A == [i \in 1 .. M |-> Numbered(i - 1)]
  <2>1. \A i \in 1 .. M : i - 1 \in 0 .. M - 1
    BY <1>3
  <2>2. A \in [1 .. M -> Digests]
    BY <1>5, <2>1
  <2>3. ASSUME NEW i \in 1 .. M, NEW j \in 1 .. M, A[i] = A[j] PROVE i = j
    <3>1. i - 1 = j - 1
      BY <1>5, <2>1, <2>3
    <3> QED
      BY <1>3, <3>1
  <2>4. ASSUME NEW d \in Digests PROVE \E i \in 1 .. M : A[i] = d
    <3>1. F[d] + 1 \in 1 .. M /\ (F[d] + 1) - 1 = F[d]
      BY <1>3, <1>6
    <3>2. A[F[d] + 1] = d
      BY <1>6, <3>1
    <3> QED
      BY <3>1, <3>2
  <2>5. OneToOne(A, 1 .. M, Digests)
    <3> HIDE DEF A
    <3> QED
      BY <2>2, <2>3, <2>4 DEF OneToOne
  <2> QED
    BY <1>3, <2>5, CountedBy
<1>8. t \in Nat /\ t < total
  OBVIOUS
<1>9. PICK c \in {M \div total, (M \div total) + 1} :
        \E G : c \in Nat /\ OneToOne(G, 1 .. c, {v \in 0 .. M - 1 : v % total = t})
  BY <1>3, <1>8, ResidueCount
<1>10. PICK G : c \in Nat /\ OneToOne(G, 1 .. c, {v \in 0 .. M - 1 : v % total = t})
  BY <1>9
<1>11. Cardinality(Hits) = c
  <2> DEFINE A == [i \in 1 .. c |-> Numbered(G[i])]
  <2>1. \A i \in 1 .. c : G[i] \in 0 .. M - 1 /\ G[i] % total = t
    BY <1>10 DEF OneToOne
  <2>2. A \in [1 .. c -> Hits]
    BY <1>4, <1>5, <2>1
  <2>3. ASSUME NEW i \in 1 .. c, NEW j \in 1 .. c, A[i] = A[j] PROVE i = j
    <3>1. G[i] = G[j]
      BY <1>5, <2>1, <2>3
    <3> QED
      BY <1>10, <3>1 DEF OneToOne
  <2>4. ASSUME NEW d \in Hits PROVE \E i \in 1 .. c : A[i] = d
    <3>1. F[d] \in 0 .. M - 1 /\ F[d] % total = t /\ Numbered(F[d]) = d
      BY <1>4, <1>6
    <3>2. PICK i \in 1 .. c : G[i] = F[d]
      BY <1>10, <3>1 DEF OneToOne
    <3> QED
      BY <3>1, <3>2
  <2>5. OneToOne(A, 1 .. c, Hits)
    <3> HIDE DEF A, Hits
    <3> QED
      BY <2>2, <2>3, <2>4 DEF OneToOne
  <2> HIDE DEF Hits
  <2> QED
    BY <1>10, <2>5, CountedBy
<1> QED
  BY <1>7, <1>9, <1>11

-----------------------------------------------------------------------------
(* draw *)

\* An accepted ledger has sold a ticket.
LEMMA TicketsSold ==
  ASSUME NEW es, IsLedger(es), LedgerAccepted(es)
  PROVE  summarize_ledger(es).total_tickets \in Nat \ {0}
<1> DEFINE n == Len(es)
<1>1. n \in Nat /\ DOMAIN es = 1 .. n /\ n # 0
  BY DEF IsLedger, LedgerAccepted
<1>2. n + 1 # 1 /\ (n + 1) - 1 = n /\ n \in 1 .. n
  BY <1>1
<1>3. summarize_ledger(es).total_tickets = es[n].data.end
  BY <1>2 DEF summarize_ledger, ExpectedStart
<1>4. es[n].data.start < es[n].data.end
  BY <1>1, <1>2 DEF LedgerAccepted, EntryAccepted
<1>5. es[n].data.start \in Nat /\ es[n].data.end \in Nat
  BY <1>2 DEF IsLedger
<1> QED
  BY <1>3, <1>4, <1>5

\* draw accepts an accepted ledger with its own totals, and exactly one entry
\* owns the winning ticket.
LEMMA DrawSound ==
  ASSUME DigestHypothesis, NEW es, IsLedger(es), LedgerAccepted(es), NEW input,
         input.total_tickets = summarize_ledger(es).total_tickets,
         input.entries_root = summarize_ledger(es).entries_root,
         NEW ticket, ticket = winning_ticket(draw_seed(input), input.total_tickets)
  PROVE  /\ DrawAccepts(es, input)
         /\ ticket \in Nat
         /\ Winner(es, ticket) \in 1 .. Len(es)
         /\ Owners(es, ticket) = {Winner(es, ticket)}
<1>1. input.total_tickets \in Nat \ {0}
  BY TicketsSold
<1>2. ticket \in 0 .. input.total_tickets - 1
  BY <1>1, RemainderBelowTotal DEF winning_ticket, DigestHypothesis
<1>3. ticket \in Nat /\ ticket < input.total_tickets
  BY <1>1, <1>2
<1>4. PICK k \in 1 .. Len(es) : es[k].data.start <= ticket /\ ticket < es[k].data.end
  BY <1>3, OwnerExists
<1>5. DOMAIN es = 1 .. Len(es)
  BY DEF IsLedger
<1>6. Owners(es, ticket) = {k}
  <2>1. k \in Owners(es, ticket)
    BY <1>4, <1>5 DEF Owners, contains
  <2>2. ASSUME NEW l \in Owners(es, ticket) PROVE l = k
    <3>1. l \in 1 .. Len(es) /\ es[l].data.start <= ticket /\ ticket < es[l].data.end
      BY <1>5 DEF Owners, contains
    <3> QED
      BY <1>3, <1>4, <3>1, OwnerUnique
  <2> QED
    BY <2>1, <2>2
<1>7. Winner(es, ticket) = k
  <2>1. k \in Int
    BY <1>4 DEF IsLedger
  <2>2. k \in Owners(es, ticket) /\ \A l \in Owners(es, ticket) : k <= l
    BY <1>6, <2>1
  <2> QED
    BY <1>6, <2>2 DEF Winner
<1>8. DrawAccepts(es, input)
  BY <1>1, <1>6 DEF DrawAccepts
<1> QED
  BY <1>3, <1>4, <1>6, <1>7, <1>8

-----------------------------------------------------------------------------
(* verify *)

\* The summary of a ledger holds its pool, a natural number.
LEMMA PoolSummed ==
  ASSUME NEW es, IsLedger(es)
  PROVE  summarize_ledger(es).total_pool_sats = PoolSats(es) /\ PoolSats(es) \in Nat
<1>1. IsRunningPool(es, RunningPool(es), Len(es))
  BY RunningPoolEquations
<1>2. Len(es) \in 0 .. Len(es)
  <2>1. Len(es) \in Nat
    BY DEF IsLedger
  <2> QED
    BY <2>1
<1>3. RunningPool(es)[Len(es)] \in Nat
  BY <1>1, <1>2 DEF IsRunningPool
<1>4. PoolSats(es) = RunningPool(es)[Len(es)]
  BY DEF PoolSats
<1>5. summarize_ledger(es).total_pool_sats = PoolSats(es)
  BY DEF summarize_ledger
<1> QED
  BY <1>3, <1>4, <1>5

\* What a document without issues has passed.
LEMMA VerifiedFacts ==
  ASSUME NEW document, is_verified(document), NEW p, p = document.payload,
         NEW sum, sum = summarize_ledger(p.entries)
  PROVE  /\ p.protocol_version = PROTOCOL_VERSION
         /\ LedgerAccepted(p.entries)
         /\ p.entries[1].data.raffle_id = p.raffle_id
         /\ sum = p.freeze
         /\ ~(p.bitcoin.randomness_block_height <= p.bitcoin.close_block_height)
         /\ draw(p.entries, DrawOf(p, sum)) = p.draw
         /\ PayoutsReconcile(p, sum)
         /\ proof_hash(p) = document.proof_hash
<1>1. verify(document) = {}
  BY DEF is_verified
<1>2. LedgerAccepted(p.entries)
  BY <1>1 DEF verify
<1>3. LedgerIssues(p, sum) = {}
  BY <1>1, <1>2 DEF verify
<1> QED
  BY <1>1, <1>2, <1>3 DEF verify, LedgerIssues, Issue

\* The verifier is sound: in a document that it accepts, exactly one entry owns
\* the winning ticket and it is the one that the draw names; every entry belongs
\* to the raffle; the payouts share out exactly what the entries paid; and the
\* randomness was mined after the close block.
THEOREM VerifiedIsSound ==
  ASSUME DigestHypothesis, NEW document, is_verified(document), NEW p, p = document.payload,
         IsLedger(p.entries),
         p.payout_split \in [winner : Nat, organizer : Nat, platform : Nat],
         p.bitcoin.close_block_height \in Nat, p.bitcoin.randomness_block_height \in Nat
  PROVE  /\ \E k \in 1 .. Len(p.entries) :
              /\ Owners(p.entries, p.draw.winning_ticket) = {k}
              /\ p.draw.winner_entry_id = p.entries[k].entry_id
              /\ p.draw.winner_ticket_range = <<p.entries[k].data.start, p.entries[k].data.end>>
         /\ \A k \in 1 .. Len(p.entries) : p.entries[k].data.raffle_id = p.raffle_id
         /\ \A r \in {"winner", "organizer", "platform"} : p.payouts[r] \in Nat
         /\ p.payouts.winner + p.payouts.organizer + p.payouts.platform = PoolSats(p.entries)
         /\ p.bitcoin.close_block_height < p.bitcoin.randomness_block_height
<1> DEFINE es == p.entries
           sum == summarize_ledger(es)
           input == DrawOf(p, sum)
           ticket == winning_ticket(draw_seed(input), input.total_tickets)
<1>1. /\ LedgerAccepted(es)
      /\ es[1].data.raffle_id = p.raffle_id
      /\ ~(p.bitcoin.randomness_block_height <= p.bitcoin.close_block_height)
      /\ draw(es, input) = p.draw
      /\ PayoutsReconcile(p, sum)
  BY VerifiedFacts
<1>2. input.total_tickets = sum.total_tickets /\ input.entries_root = sum.entries_root
  BY DEF DrawOf, DrawInput
<1>3. /\ Winner(es, ticket) \in 1 .. Len(es)
      /\ Owners(es, ticket) = {Winner(es, ticket)}
  <2> HIDE DEF input
  <2> QED
    BY <1>1, <1>2, DrawSound
<1>4. /\ p.draw.winning_ticket = ticket
      /\ p.draw.winner_entry_id = es[Winner(es, ticket)].entry_id
      /\ p.draw.winner_ticket_range
           = <<es[Winner(es, ticket)].data.start, es[Winner(es, ticket)].data.end>>
  <2> HIDE DEF input, es
  <2> QED
    BY <1>1 DEF draw
<1> HIDE DEF ticket
<1>5. \E k \in 1 .. Len(es) :
        /\ Owners(es, p.draw.winning_ticket) = {k}
        /\ p.draw.winner_entry_id = es[k].entry_id
        /\ p.draw.winner_ticket_range = <<es[k].data.start, es[k].data.end>>
  BY <1>3, <1>4
<1>6. \A k \in 1 .. Len(es) : es[k].data.raffle_id = p.raffle_id
  BY <1>1 DEF LedgerAccepted, EntryAccepted, IsLedger
<1>7. sum.total_pool_sats = PoolSats(es) /\ PoolSats(es) \in Nat
  BY PoolSummed
<1>8. p.payout_split \in PayoutSplits
  <2>1. is_valid(p.payout_split)
    BY <1>1 DEF PayoutsReconcile
  <2> QED
    BY <2>1, SplitMember
<1>9. p.payouts = allocate(p.payout_split, PoolSats(es))
  BY <1>1, <1>7 DEF PayoutsReconcile
<1>10. /\ \A r \in {"winner", "organizer", "platform"} : p.payouts[r] \in Nat
       /\ p.payouts.winner + p.payouts.organizer + p.payouts.platform = PoolSats(es)
  BY <1>7, <1>8, <1>9, AllocateTotal
<1>11. p.bitcoin.close_block_height < p.bitcoin.randomness_block_height
  BY <1>1
<1> QED
  BY <1>5, <1>6, <1>10, <1>11

\* The payload that follows from a ledger, a split and two blocks.
PayloadOf(r, es, split, bitcoin) ==
  LET sum == summarize_ledger(es)
  IN  [protocol_version |-> PROTOCOL_VERSION, raffle_id |-> r, payout_split |-> split,
       entries |-> es, freeze |-> sum, bitcoin |-> bitcoin,
       draw |-> draw(es, DrawInput(r, sum.entries_root, bitcoin, sum.total_tickets)),
       payouts |-> allocate(split, sum.total_pool_sats)]

\* The verifier is complete: it accepts the document that follows from any
\* accepted ledger, any valid split and any two blocks in their order.
THEOREM HonestIsVerified ==
  ASSUME DigestHypothesis, NEW es, IsLedger(es), LedgerAccepted(es),
         NEW r, r = es[1].data.raffle_id, NEW split \in PayoutSplits, NEW bitcoin,
         bitcoin.close_block_height \in Nat, bitcoin.randomness_block_height \in Nat,
         bitcoin.close_block_height < bitcoin.randomness_block_height
  PROVE  is_verified(ProofDocument(PayloadOf(r, es, split, bitcoin)))
<1> DEFINE p == PayloadOf(r, es, split, bitcoin)
           sum == summarize_ledger(es)
           input == DrawInput(r, sum.entries_root, bitcoin, sum.total_tickets)
<1>1. /\ p.entries = es /\ p.freeze = sum /\ p.bitcoin = bitcoin
      /\ p.raffle_id = r /\ p.draw = draw(es, input)
      /\ p.payout_split = split /\ p.protocol_version = PROTOCOL_VERSION
      /\ p.payouts = allocate(split, sum.total_pool_sats)
  BY DEF PayloadOf
<1> HIDE DEF p
<1>2. DrawOf(p, sum) = input
  BY <1>1 DEF DrawOf
<1>3. input.total_tickets = sum.total_tickets /\ input.entries_root = sum.entries_root
  BY DEF DrawInput
<1>4. DrawAccepts(es, input)
  <2> HIDE DEF input
  <2> QED
    BY <1>3, DrawSound
<1>5. ~(p.bitcoin.randomness_block_height <= p.bitcoin.close_block_height)
  BY <1>1
<1>6. PayoutsReconcile(p, sum)
  <2>1. sum.total_pool_sats \in Nat
    BY PoolSummed
  <2> HIDE DEF sum
  <2>2. checked_total(p.payouts) = sum.total_pool_sats
    BY <1>1, <2>1, AllocateTotal DEF checked_total
  <2>3. is_valid(p.payout_split)
    BY <1>1 DEF PayoutSplits
  <2> QED
    BY <1>1, <2>2, <2>3 DEF PayoutsReconcile
<1> HIDE DEF sum, input
<1>7. LedgerIssues(p, sum) = {}
  BY <1>1, <1>2, <1>4, <1>5, <1>6 DEF LedgerIssues, Issue
<1>8. ProofDocument(p).payload = p /\ ProofDocument(p).proof_hash = proof_hash(p)
  BY DEF ProofDocument
<1>9. verify(ProofDocument(p)) = {}
  BY <1>1, <1>7, <1>8 DEF verify, Issue, sum
<1> QED
  BY <1>9 DEF is_verified, p
=============================================================================
