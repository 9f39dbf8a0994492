--------------------------- MODULE ProtocolLemmas ---------------------------
(***************************************************************************)
(* Facts about the ledger algorithms of Protocol, for ledgers of any       *)
(* length.  Each is shown by looking at the least entry for which it would *)
(* fail.                                                                   *)
(***************************************************************************)
EXTENDS Protocol, TLAPS, NaturalsInduction, WellFoundedInduction

\* Every set of natural numbers that is not empty has a least element.
LEMMA Least ==
  ASSUME NEW S, S \subseteq Nat, S # {}
  PROVE  \E m \in S : \A n \in S : m <= n
<1>1. IsWellFoundedOn(OpToRel(<, Nat), Nat)
  BY NatLessThanWellFounded
<1>2. PICK m \in S : \A n \in S : ~(<<n, m>> \in OpToRel(<, Nat))
  BY <1>1, WFMin
<1>3. ASSUME NEW n \in S
      PROVE  m <= n
  <2>1. ~(<<n, m>> \in {ss \in Nat \X Nat : ss[1] < ss[2]})
    BY <1>2, Zenon DEF OpToRel
  <2>2. n \in Nat /\ m \in Nat
    OBVIOUS
  <2>3. <<n, m>> \in Nat \X Nat /\ <<n, m>>[1] = n /\ <<n, m>>[2] = m
    BY <2>2
  <2>4. ~(n < m)
    BY <2>1, <2>3, Zenon
  <2> QED
    BY <2>2, <2>4
<1> QED
  BY <1>3

\* What the lemmas need to know of the types of a ledger's entries.
IsLedger(es) ==
  /\ Len(es) \in Nat
  /\ DOMAIN es = 1 .. Len(es)
  /\ \A k \in 1 .. Len(es) : /\ es[k].data.amount_sats \in Nat
                             /\ es[k].data.start \in Nat
                             /\ es[k].data.end \in Nat

-----------------------------------------------------------------------------
(* The running pool of summarize_ledger. *)

IsRunningPool(es, g, n) ==
  /\ g \in [0 .. n -> Nat]
  /\ g[0] = 0
  /\ \A k \in 1 .. n : g[k] = g[k - 1] + es[k].data.amount_sats

\* A function with the recursion's equations exists up to every entry.
LEMMA RunningPoolExists ==
  ASSUME NEW es, IsLedger(es)
  PROVE  \E g : IsRunningPool(es, g, Len(es))
<1> DEFINE Bad == {n \in 0 .. Len(es) : ~\E g : IsRunningPool(es, g, n)}
<1>1. Bad = {}
  <2> SUFFICES ASSUME Bad # {} PROVE FALSE
    OBVIOUS
  <2>1. Len(es) \in Nat /\ Bad \subseteq Nat
    BY DEF IsLedger
  <2> HIDE DEF Bad
  <2>2. PICK m \in Bad : \A n \in Bad : m <= n
    BY <2>1, Least
  <2> USE DEF Bad
  <2>3. m # 0
    <3>1. IsRunningPool(es, [k \in 0 .. 0 |-> 0], 0)
      BY DEF IsRunningPool
    <3> QED
      BY <2>2, <3>1
  <2>4. m \in 1 .. Len(es)
    BY <2>1, <2>2, <2>3
  <2>5. m - 1 \in 0 .. Len(es) /\ m - 1 \notin Bad
    <3>1. m - 1 \in 0 .. Len(es) /\ ~(m <= m - 1)
      BY <2>1, <2>4
    <3> HIDE DEF Bad
    <3> QED
      BY <2>2, <3>1
  <2>6. PICK g : IsRunningPool(es, g, m - 1)
    BY <2>5
  <2> DEFINE h == [k \in 0 .. m |-> IF k = m THEN g[m - 1] + es[m].data.amount_sats ELSE g[k]]
  <2>7. IsRunningPool(es, h, m)
    <3>1. g \in [0 .. m - 1 -> Nat]
      BY <2>6 DEF IsRunningPool
    <3>2. g[m - 1] \in Nat /\ es[m].data.amount_sats \in Nat
      BY <2>1, <2>4, <3>1 DEF IsLedger
    <3>3. h \in [0 .. m -> Nat]
      BY <2>1, <2>4, <3>1, <3>2
    <3>4. h[0] = 0
      BY <2>1, <2>4, <2>6 DEF IsRunningPool
    <3>5. ASSUME NEW k \in 1 .. m
          PROVE  h[k] = h[k - 1] + es[k].data.amount_sats
      BY <2>1, <2>4, <2>6 DEF IsRunningPool
    <3> HIDE DEF h
    <3> QED
      BY <3>3, <3>4, <3>5 DEF IsRunningPool
  <2> QED
    BY <2>2, <2>7
<1>2. Len(es) \in 0 .. Len(es)
  BY DEF IsLedger
<1> QED
  BY <1>1, <1>2

\* RunningPool satisfies its own equations.
LEMMA RunningPoolEquations ==
  ASSUME NEW es, IsLedger(es)
  PROVE  IsRunningPool(es, RunningPool(es), Len(es))
<1> DEFINE Body(g) == [k \in 0 .. Len(es) |->
                         IF k = 0 THEN 0 ELSE g[k - 1] + es[k].data.amount_sats]
<1>1. Len(es) \in Nat
  BY DEF IsLedger
<1>2. PICK g : IsRunningPool(es, g, Len(es))
  BY RunningPoolExists
<1>3. g = Body(g)
  BY <1>1, <1>2 DEF IsRunningPool
<1>4. RunningPool(es) = CHOOSE h : h = Body(h)
  BY Zenon DEF RunningPool
<1>5. RunningPool(es) = Body(RunningPool(es))
  <2> HIDE DEF Body
  <2> QED
    BY <1>3, <1>4, Zenon
<1> DEFINE s == RunningPool(es)
<1> HIDE DEF s
<1>6. s = Body(s)
  BY <1>5 DEF s
<1>7. /\ DOMAIN s = 0 .. Len(es)
      /\ s = [k \in 0 .. Len(es) |-> s[k]]
      /\ s[0] = 0
      /\ \A k \in 1 .. Len(es) : s[k] = s[k - 1] + es[k].data.amount_sats
  BY <1>1, <1>6
<1> DEFINE Bad == {n \in 0 .. Len(es) : s[n] \notin Nat}
<1>8. Bad = {}
  <2> SUFFICES ASSUME Bad # {} PROVE FALSE
    OBVIOUS
  <2>1. Bad \subseteq Nat
    BY <1>1
  <2> HIDE DEF Bad
  <2>2. PICK m \in Bad : \A n \in Bad : m <= n
    BY <2>1, Least
  <2>3. m \in 1 .. Len(es) /\ s[m] \notin Nat
    BY <1>1, <1>7, <2>2 DEF Bad
  <2>4. m - 1 \in 0 .. Len(es) /\ ~(m <= m - 1)
    BY <1>1, <2>3
  <2>5. s[m - 1] \in Nat
    BY <2>2, <2>4 DEF Bad
  <2>6. es[m].data.amount_sats \in Nat
    BY <2>3 DEF IsLedger
  <2>7. s[m] = s[m - 1] + es[m].data.amount_sats
    BY <1>7, <2>3
  <2> QED
    BY <2>3, <2>5, <2>6, <2>7
<1>9. s \in [0 .. Len(es) -> Nat]
  BY <1>7, <1>8
<1> QED
  BY <1>7, <1>9 DEF IsRunningPool, s

\* Ledgers with the same amounts up to entry n have the same pool there.
LEMMA RunningPoolAgrees ==
  ASSUME NEW es, NEW fs, IsLedger(es), IsLedger(fs),
         NEW n \in Nat, n <= Len(es), n <= Len(fs),
         \A k \in 1 .. n : es[k].data.amount_sats = fs[k].data.amount_sats
  PROVE  RunningPool(es)[n] = RunningPool(fs)[n]
<1> DEFINE s == RunningPool(es)
           t == RunningPool(fs)
           Bad == {k \in 0 .. n : s[k] # t[k]}
<1>1. Len(es) \in Nat /\ Len(fs) \in Nat
  BY DEF IsLedger
<1>2. IsRunningPool(es, s, Len(es)) /\ IsRunningPool(fs, t, Len(fs))
  BY RunningPoolEquations
<1> HIDE DEF s, t
<1>3. Bad = {}
  <2> SUFFICES ASSUME Bad # {} PROVE FALSE
    OBVIOUS
  <2>1. Bad \subseteq Nat
    OBVIOUS
  <2> HIDE DEF Bad
  <2>2. PICK m \in Bad : \A k \in Bad : m <= k
    BY <2>1, Least
  <2>3. m \in 0 .. n /\ s[m] # t[m]
    BY <2>2 DEF Bad
  <2>4. m # 0
    BY <1>2, <2>3 DEF IsRunningPool
  <2>5. m - 1 \in 0 .. n /\ ~(m <= m - 1)
    BY <2>3, <2>4
  <2>6. s[m - 1] = t[m - 1]
    BY <2>2, <2>5 DEF Bad
  <2>7. m \in 1 .. n /\ m \in 1 .. Len(es) /\ m \in 1 .. Len(fs)
    BY <1>1, <2>3, <2>4
  <2> QED
    BY <1>2, <2>3, <2>6, <2>7 DEF IsRunningPool
<1>4. n \in 0 .. n
  OBVIOUS
<1> QED
  BY <1>3, <1>4 DEF s, t

\* Appending an entry adds its amount to the pool.
LEMMA PoolSatsAppend ==
  ASSUME NEW T, NEW es \in Seq(T), NEW e \in T, IsLedger(es), e.data.amount_sats \in Nat,
         e.data.start \in Nat, e.data.end \in Nat
  PROVE  /\ IsLedger(Append(es, e))
         /\ PoolSats(Append(es, e)) = PoolSats(es) + e.data.amount_sats
<1> DEFINE fs == Append(es, e)
           n == Len(es)
<1>1. n \in Nat /\ Len(fs) = n + 1 /\ DOMAIN fs = 1 .. n + 1 /\ fs[n + 1] = e
      /\ \A k \in 1 .. n : fs[k] = es[k]
  OBVIOUS
<1> HIDE DEF fs, n
<1>2. IsLedger(fs)
  <2>1. ASSUME NEW k \in 1 .. n + 1
        PROVE  /\ fs[k].data.amount_sats \in Nat
               /\ fs[k].data.start \in Nat /\ fs[k].data.end \in Nat
    <3>1. CASE k = n + 1
      BY <1>1, <3>1
    <3>2. CASE k \in 1 .. n
      BY <1>1, <3>2 DEF IsLedger, n
    <3> QED
      BY <1>1, <3>1, <3>2
  <2> QED
    BY <1>1, <2>1 DEF IsLedger
<1>3. IsRunningPool(fs, RunningPool(fs), n + 1)
  BY <1>1, <1>2, RunningPoolEquations
<1>4. RunningPool(fs)[n] = RunningPool(es)[n]
  <2>1. n <= Len(fs) /\ n <= Len(es) /\ \A k \in 1 .. n : fs[k].data.amount_sats = es[k].data.amount_sats
    BY <1>1 DEF n
  <2> QED
    BY <1>1, <1>2, <2>1, RunningPoolAgrees
<1>5. RunningPool(fs)[n + 1] = RunningPool(fs)[n] + e.data.amount_sats
  <2>1. n + 1 \in 1 .. n + 1 /\ (n + 1) - 1 = n
    BY <1>1
  <2> QED
    BY <1>1, <1>3, <2>1 DEF IsRunningPool
<1>6. PoolSats(fs) = RunningPool(fs)[n + 1] /\ PoolSats(es) = RunningPool(es)[n]
  BY <1>1 DEF PoolSats, n
<1> QED
  BY <1>2, <1>4, <1>5, <1>6 DEF fs

\* An empty ledger has an empty pool.
LEMMA PoolSatsEmpty ==
  IsLedger(<< >>) /\ PoolSats(<< >>) = 0
<1>1. IsLedger(<< >>)
  BY DEF IsLedger
<1>2. IsRunningPool(<< >>, RunningPool(<< >>), Len(<< >>))
  BY <1>1, RunningPoolEquations
<1> QED
  BY <1>1, <1>2 DEF IsRunningPool, PoolSats

-----------------------------------------------------------------------------
(* The ticket ranges of an accepted ledger. *)

\* The tickets of an entry come before those of every later entry.
LEMMA RangesOrdered ==
  ASSUME NEW es, IsLedger(es), LedgerAccepted(es),
         NEW i \in 1 .. Len(es), NEW j \in 1 .. Len(es), i < j
  PROVE  es[i].data.end <= es[j].data.start
<1> DEFINE n == Len(es)
           Start(k) == es[k].data.start
           End(k) == es[k].data.end
           Bad == {l \in 1 .. n : i < l /\ ~(End(i) <= Start(l))}
<1>1. n \in Nat /\ \A k \in 1 .. n : Start(k) \in Nat /\ End(k) \in Nat
  BY DEF IsLedger
<1>2. \A k \in 1 .. n : Start(k) < End(k) /\ (k # 1 => Start(k) = End(k - 1))
  BY DEF IsLedger, LedgerAccepted, EntryAccepted, ExpectedStart
<1>3. i \in 1 .. n /\ j \in 1 .. n /\ i < j
  OBVIOUS
<1> HIDE DEF n, Start, End
<1>4. Bad = {}
  <2> SUFFICES ASSUME Bad # {} PROVE FALSE
    OBVIOUS
  <2>1. Bad \subseteq Nat
    BY <1>1
  <2> HIDE DEF Bad
  <2>2. PICK m \in Bad : \A l \in Bad : m <= l
    BY <2>1, Least
  <2>3. m \in 1 .. n /\ i < m /\ ~(End(i) <= Start(m))
    BY <2>2 DEF Bad
  <2>4. m - 1 \in 1 .. n /\ ~(m <= m - 1) /\ m # 1
    BY <1>1, <1>3, <2>3
  <2>5. Start(m) = End(m - 1)
    BY <1>2, <2>3, <2>4
  <2>6. m - 1 # i
    BY <1>1, <1>3, <2>3, <2>5
  <2>7. i < m - 1
    BY <1>1, <1>3, <2>3, <2>6
  <2>8. End(i) <= Start(m - 1)
    BY <2>2, <2>4, <2>7 DEF Bad
  <2>9. Start(m - 1) < End(m - 1)
    BY <1>2, <2>4
  <2> QED
    BY <1>1, <1>3, <2>3, <2>4, <2>5, <2>8, <2>9
<1>5. End(i) <= Start(j)
  BY <1>3, <1>4
<1> QED
  BY <1>5 DEF Start, End

\* No ticket belongs to two entries.
LEMMA OwnerUnique ==
  ASSUME NEW es, IsLedger(es), LedgerAccepted(es), NEW t \in Nat,
         NEW i \in 1 .. Len(es), NEW j \in 1 .. Len(es),
         es[i].data.start <= t, t < es[i].data.end,
         es[j].data.start <= t, t < es[j].data.end
  PROVE  i = j
<1>1. /\ es[i].data.start \in Nat /\ es[i].data.end \in Nat
      /\ es[j].data.start \in Nat /\ es[j].data.end \in Nat
  BY DEF IsLedger
<1>2. i \in Int /\ j \in Int
  BY DEF IsLedger
<1>3. ~(i < j)
  <2> SUFFICES ASSUME i < j PROVE FALSE
    OBVIOUS
  <2>1. es[i].data.end <= es[j].data.start
    BY RangesOrdered
  <2> QED
    BY <1>1, <2>1
<1>4. ~(j < i)
  <2> SUFFICES ASSUME j < i PROVE FALSE
    OBVIOUS
  <2>1. es[j].data.end <= es[i].data.start
    BY RangesOrdered
  <2> QED
    BY <1>1, <2>1
<1> QED
  BY <1>2, <1>3, <1>4

\* Every ticket that was sold belongs to an entry.
LEMMA OwnerExists ==
  ASSUME NEW es, IsLedger(es), LedgerAccepted(es),
         NEW t \in Nat, t < summarize_ledger(es).total_tickets
  PROVE  \E k \in 1 .. Len(es) : es[k].data.start <= t /\ t < es[k].data.end
<1> DEFINE n == Len(es)
           Start(k) == es[k].data.start
           End(k) == es[k].data.end
           After == {k \in 1 .. n : t < End(k)}
<1>1. n \in Nat /\ \A k \in 1 .. n : Start(k) \in Nat /\ End(k) \in Nat
  BY DEF IsLedger
<1>2. \A k \in 1 .. n : Start(k) = IF k = 1 THEN 0 ELSE End(k - 1)
  BY DEF IsLedger, LedgerAccepted, EntryAccepted, ExpectedStart
<1>3. t < IF n + 1 = 1 THEN 0 ELSE es[(n + 1) - 1].data.end
  BY DEF summarize_ledger, ExpectedStart
<1>4. n # 0 /\ (n + 1) - 1 = n /\ n \in 1 .. n
  BY <1>1, <1>3
<1>5. t < End(n)
  BY <1>1, <1>3, <1>4
<1> HIDE DEF n, Start, End
<1>6. After # {} /\ After \subseteq Nat
  BY <1>1, <1>4, <1>5
<1> HIDE DEF After
<1>7. PICK m \in After : \A k \in After : m <= k
  BY <1>6, Least
<1>8. m \in 1 .. n /\ t < End(m)
  BY <1>7 DEF After
<1>9. Start(m) <= t
  <2>1. CASE m = 1
    BY <1>1, <1>2, <1>8, <2>1
  <2>2. CASE m # 1
    <3>1. m - 1 \in 1 .. n /\ ~(m <= m - 1)
      BY <1>1, <1>8, <2>2
    <3>2. ~(t < End(m - 1))
      BY <1>7, <3>1 DEF After
    <3>3. Start(m) = End(m - 1) /\ End(m - 1) \in Nat
      BY <1>1, <1>2, <1>8, <2>2, <3>1
    <3> QED
      BY <3>2, <3>3
  <2> QED
    BY <2>1, <2>2
<1> QED
  BY <1>8, <1>9 DEF Start, End, n

-----------------------------------------------------------------------------
(* What the chain head commits to. *)

\* The hash of an entry determines the data of all entries up to it, in order.
LEMMA ChainCommits ==
  ASSUME NEW es, IsLedger(es), LedgerAccepted(es), NEW k \in 1 .. Len(es)
  PROVE  /\ Len(es[k].entry_hash) = k
         /\ \A j \in 1 .. k : es[k].entry_hash[j] = es[j].data
<1> DEFINE n == Len(es)
           T == {es[j].data : j \in 1 .. n}
           H(m) == es[m].entry_hash
           Good(m) == /\ H(m) \in Seq(T)
                      /\ Len(H(m)) = m
                      /\ \A j \in 1 .. m : H(m)[j] = es[j].data
           Bad == {m \in 1 .. n : ~Good(m)}
<1>1. n \in Nat /\ k \in 1 .. n
  BY DEF IsLedger
<1>2. \A m \in 1 .. n : H(m) = IF m = 1 THEN Append(<< >>, es[m].data) ELSE Append(H(m - 1), es[m].data)
  BY DEF IsLedger, LedgerAccepted, EntryAccepted, PreviousHash, entry_hash, ZERO_HASH
<1>3. \A m \in 1 .. n : es[m].data \in T
  OBVIOUS
<1> HIDE DEF n, T, H
<1>4. Bad = {}
  <2> SUFFICES ASSUME Bad # {} PROVE FALSE
    OBVIOUS
  <2>1. Bad \subseteq Nat
    BY <1>1
  <2> HIDE DEF Bad
  <2>2. PICK m \in Bad : \A l \in Bad : m <= l
    BY <2>1, Least
  <2>3. m \in 1 .. n /\ ~Good(m)
    BY <2>2 DEF Bad
  <2>4. CASE m = 1
    <3>1. H(1) = Append(<< >>, es[1].data)
      BY <1>2, <2>3, <2>4
    <3>2. es[1].data \in T
      BY <1>3, <2>3, <2>4
    <3>3. << >> \in Seq(T) /\ Len(<< >>) = 0
      OBVIOUS
    <3>4. H(1) \in Seq(T) /\ Len(H(1)) = 1 /\ H(1)[1] = es[1].data
      <4>1. ASSUME NEW z \in Seq(T), Len(z) = 0, NEW d \in T
            PROVE  Append(z, d) \in Seq(T) /\ Len(Append(z, d)) = 1 /\ Append(z, d)[1] = d
        BY <4>1
      <4> DEFINE e == << >>
      <4>2. e \in Seq(T) /\ Len(e) = 0 /\ H(1) = Append(e, es[1].data)
        BY <3>1, <3>3
      <4> HIDE DEF e, H
      <4>3. /\ Append(e, es[1].data) \in Seq(T) /\ Len(Append(e, es[1].data)) = 1
            /\ Append(e, es[1].data)[1] = es[1].data
        BY <3>2, <4>1, <4>2
      <4> QED
        BY <4>2, <4>3
    <3>5. \A j \in 1 .. 1 : j = 1
      OBVIOUS
    <3> QED
      BY <2>3, <2>4, <3>4, <3>5
  <2>5. CASE m # 1
    <3>1. m - 1 \in 1 .. n /\ ~(m <= m - 1) /\ m \in Nat
      BY <1>1, <2>3, <2>5
    <3>2. Good(m - 1)
      BY <2>2, <3>1 DEF Bad
    <3>3. H(m) = Append(H(m - 1), es[m].data) /\ es[m].data \in T
      BY <1>2, <1>3, <2>3, <2>5
    <3>4. H(m) \in Seq(T) /\ Len(H(m)) = m /\ H(m)[m] = es[m].data
          /\ \A j \in 1 .. m - 1 : H(m)[j] = H(m - 1)[j]
      BY <3>1, <3>2, <3>3
    <3>5. ASSUME NEW j \in 1 .. m PROVE H(m)[j] = es[j].data
      <4>1. j = m \/ j \in 1 .. m - 1
        BY <3>1
      <4> QED
        BY <3>2, <3>4, <4>1
    <3> QED
      BY <2>3, <3>4, <3>5
  <2> QED
    BY <2>4, <2>5
<1>5. Good(k)
  BY <1>1, <1>4
<1> QED
  BY <1>5 DEF H

\* Two accepted ledgers with the same root have the same data.
LEMMA RootCommits ==
  ASSUME NEW es, NEW fs, IsLedger(es), IsLedger(fs), LedgerAccepted(es), LedgerAccepted(fs),
         summarize_ledger(es).entries_root = summarize_ledger(fs).entries_root
  PROVE  /\ Len(es) = Len(fs)
         /\ \A k \in 1 .. Len(es) : es[k].data = fs[k].data
<1>1. Len(es) \in Nat \ {0} /\ Len(fs) \in Nat \ {0}
  BY DEF IsLedger, LedgerAccepted
<1> DEFINE n == Len(es)
<1>2. /\ Len(es) = Len(fs)
      /\ PreviousHash(es, Len(es) + 1) = PreviousHash(fs, Len(fs) + 1)
  BY DEF summarize_ledger, entries_root
<1>3. n + 1 # 1 /\ (n + 1) - 1 = n /\ n \in 1 .. n
  BY <1>1
<1>4. es[n].entry_hash = fs[n].entry_hash
  BY <1>2, <1>3 DEF PreviousHash
<1>5. /\ \A j \in 1 .. n : es[n].entry_hash[j] = es[j].data
      /\ \A j \in 1 .. n : fs[n].entry_hash[j] = fs[j].data
  BY <1>2, <1>3, ChainCommits
<1> QED
  BY <1>2, <1>4, <1>5

\* Ledgers with the same data have the same pool.
LEMMA SameDataSamePool ==
  ASSUME NEW es, NEW fs, IsLedger(es), IsLedger(fs), Len(es) = Len(fs),
         \A k \in 1 .. Len(es) : es[k].data = fs[k].data
  PROVE  PoolSats(es) = PoolSats(fs)
<1>1. Len(es) \in Nat /\ Len(es) <= Len(es) /\ Len(es) <= Len(fs)
  BY DEF IsLedger
<1>2. RunningPool(es)[Len(es)] = RunningPool(fs)[Len(es)]
  BY <1>1, RunningPoolAgrees
<1> QED
  BY <1>2 DEF PoolSats

-----------------------------------------------------------------------------
(* Appending to an accepted ledger. *)

\* An entry that continues an accepted ledger makes another accepted ledger.
LEMMA AcceptedAppend ==
  ASSUME NEW T, NEW es \in Seq(T), NEW e \in T, NEW r,
         es # << >> => LedgerAccepted(es) /\ es[1].data.raffle_id = r,
         e.data.raffle_id = r, e.data.entry_index = Len(es), e.data.start < e.data.end,
         e.data.start = ExpectedStart(es, Len(es) + 1),
         e.previous_entry_hash = PreviousHash(es, Len(es) + 1),
         e.entry_hash = entry_hash(e.data, e.previous_entry_hash)
  PROVE  /\ LedgerAccepted(Append(es, e))
         /\ Append(es, e)[1].data.raffle_id = r
         /\ ExpectedStart(Append(es, e), Len(es) + 2) = e.data.end
         /\ PreviousHash(Append(es, e), Len(es) + 2) = e.entry_hash
<1> DEFINE fs == Append(es, e)
           n == Len(es)
<1>1. n \in Nat /\ Len(fs) = n + 1 /\ DOMAIN fs = 1 .. n + 1 /\ fs[n + 1] = e
      /\ (\A k \in 1 .. n : fs[k] = es[k]) /\ DOMAIN es = 1 .. n
  OBVIOUS
<1>2. es # << >> <=> n # 0
  OBVIOUS
<1>3. \A k \in 1 .. n + 1 : /\ ExpectedStart(fs, k) = ExpectedStart(es, k)
                             /\ PreviousHash(fs, k) = PreviousHash(es, k)
  BY <1>1 DEF ExpectedStart, PreviousHash
<1>4. fs[1].data.raffle_id = r
  BY <1>1, <1>2
<1> HIDE DEF fs
<1>5. ASSUME NEW k \in 1 .. n + 1 PROVE EntryAccepted(fs, k)
  <2>1. CASE k = n + 1
    BY <1>1, <1>3, <1>4, <2>1 DEF EntryAccepted
  <2>2. CASE k \in 1 .. n
    <3>1. es # << >>
      BY <1>1, <1>2, <2>2
    <3>2. EntryAccepted(es, k) /\ es[1].data.raffle_id = r
      BY <1>1, <2>2, <3>1 DEF LedgerAccepted
    <3> QED
      BY <1>1, <1>3, <1>4, <2>2, <3>2 DEF EntryAccepted
  <2> QED
    BY <1>1, <2>1, <2>2
<1>6. fs # << >>
  BY <1>1
<1>7. LedgerAccepted(fs)
  BY <1>1, <1>5, <1>6 DEF LedgerAccepted
<1>8. n + 2 # 1 /\ (n + 2) - 1 = n + 1
  BY <1>1
<1> QED
  BY <1>1, <1>4, <1>7, <1>8 DEF fs, ExpectedStart, PreviousHash

-----------------------------------------------------------------------------
(* The split of the pool. *)

\* PayoutSplit::allocate never underflows and gives the whole pool away.
LEMMA AllocateTotal ==
  ASSUME NEW split \in PayoutSplits, NEW pool \in Nat
  PROVE  /\ \A p \in {"winner", "organizer", "platform"} : allocate(split, pool)[p] \in Nat
         /\ allocate(split, pool).winner + allocate(split, pool).organizer
              + allocate(split, pool).platform = pool
<1> DEFINE a == split.winner
           b == split.organizer
           x == Share(pool, a)
           y == Share(pool, b)
<1>1. a \in Nat /\ b \in Nat /\ a + b <= 10000
  <2>1. BASIS_POINTS_TOTAL \in Nat
    BY DEF BASIS_POINTS_TOTAL
  <2>2. /\ a \in 0 .. BASIS_POINTS_TOTAL /\ b \in 0 .. BASIS_POINTS_TOTAL
        /\ split.platform \in 0 .. BASIS_POINTS_TOTAL
        /\ a + b + split.platform = BASIS_POINTS_TOTAL
    BY DEF PayoutSplits, is_valid
  <2>3. a \in Nat /\ b \in Nat /\ a + b <= BASIS_POINTS_TOTAL
    BY <2>1, <2>2
  <2> QED
    BY <2>3 DEF BASIS_POINTS_TOTAL
<1>2. ASSUME NEW c \in Nat
      PROVE  Share(pool, c) \in Nat /\ 10000 * Share(pool, c) <= pool * c
  <2>1. pool * c \in Nat
    OBVIOUS
  <2> QED
    BY <2>1 DEF Share, BASIS_POINTS_TOTAL
<1>3. pool * a + pool * b <= pool * 10000
  <2>1. pool * a + pool * b = pool * (a + b)
    BY <1>1
  <2>2. pool * (a + b) <= pool * 10000
    BY <1>1
  <2> QED
    BY <2>1, <2>2, <1>1
<1>4. x \in Nat /\ y \in Nat /\ x + y <= pool
  <2>1. x \in Nat /\ y \in Nat /\ 10000 * x <= pool * a /\ 10000 * y <= pool * b
    BY <1>1, <1>2
  <2>2. pool * a \in Nat /\ pool * b \in Nat
    BY <1>1
  <2> HIDE DEF x, y, a, b
  <2> QED
    BY <2>1, <2>2, <1>3
<1>5. allocate(split, pool) = [winner |-> x, organizer |-> y, platform |-> pool - x - y]
  BY DEF allocate
<1> HIDE DEF x, y
<1> QED
  BY <1>4, <1>5

\* A split of naturals that sums to the total is a valid split.
LEMMA SplitMember ==
  ASSUME NEW s \in [winner : Nat, organizer : Nat, platform : Nat], is_valid(s)
  PROVE  s \in PayoutSplits
<1> DEFINE N == BASIS_POINTS_TOTAL
<1>1. N \in Nat
  BY DEF BASIS_POINTS_TOTAL
<1>2. s.winner + s.organizer + s.platform = N
  BY DEF is_valid
<1>3. s.winner \in Nat /\ s.organizer \in Nat /\ s.platform \in Nat
  OBVIOUS
<1> HIDE DEF N
<1>4. \A x, y, z \in Nat : x + y + z = N => x \in 0 .. N /\ y \in 0 .. N /\ z \in 0 .. N
  BY <1>1
<1>5. s.winner \in 0 .. N /\ s.organizer \in 0 .. N /\ s.platform \in 0 .. N
  BY <1>2, <1>3, <1>4
<1>6. s \in [winner : 0 .. N, organizer : 0 .. N, platform : 0 .. N]
  BY <1>5
<1> QED
  BY <1>6 DEF PayoutSplits, N

\* Rounding: winner and organizer lose less than a satoshi each, and what they
\* lose is the platform's (PayoutSplit::allocate,
\* payout_remainder_is_assigned_to_platform).
THEOREM AllocateExact ==
  ASSUME NEW split \in PayoutSplits, NEW pool \in Nat, NEW a, a = allocate(split, pool)
  PROVE  /\ \A p \in {"winner", "organizer"} :
              10000 * a[p] <= pool * split[p] /\ pool * split[p] < 10000 * (a[p] + 1)
         /\ pool * split.platform <= 10000 * a.platform
         /\ 10000 * a.platform < pool * split.platform + 2 * 10000
<1> DEFINE b == split.winner
           c == split.organizer
           d == split.platform
           x == Share(pool, b)
           y == Share(pool, c)
           Rounded(e) == /\ Share(pool, e) \in Nat /\ 10000 * Share(pool, e) <= pool * e
                         /\ pool * e < 10000 * (Share(pool, e) + 1)
<1>1. b \in Nat /\ c \in Nat /\ d \in Nat /\ b + c + d = 10000
  <2>1. BASIS_POINTS_TOTAL = 10000
    BY DEF BASIS_POINTS_TOTAL
  <2>2. /\ b \in 0 .. BASIS_POINTS_TOTAL /\ c \in 0 .. BASIS_POINTS_TOTAL
        /\ d \in 0 .. BASIS_POINTS_TOTAL
    BY DEF PayoutSplits
  <2>3. b + c + d = BASIS_POINTS_TOTAL
    BY DEF PayoutSplits, is_valid
  <2> HIDE DEF b, c, d
  <2> QED
    BY <2>1, <2>2, <2>3
<1>2. ASSUME NEW e \in Nat PROVE Rounded(e)
  <2>1. \A z \in Nat : /\ z \div 10000 \in Nat /\ 10000 * (z \div 10000) <= z
                       /\ z < 10000 * ((z \div 10000) + 1)
    OBVIOUS
  <2>2. pool * e \in Nat
    OBVIOUS
  <2>3. Share(pool, e) = (pool * e) \div 10000
    BY DEF Share, BASIS_POINTS_TOTAL
  <2> QED
    BY <2>1, <2>2, <2>3
<1>3. a = [winner |-> x, organizer |-> y, platform |-> pool - x - y]
  BY DEF allocate
<1>4. /\ x \in Nat /\ 10000 * x <= pool * b /\ pool * b < 10000 * (x + 1)
      /\ y \in Nat /\ 10000 * y <= pool * c /\ pool * c < 10000 * (y + 1)
  <2>1. b \in Nat /\ c \in Nat
    BY <1>1
  <2>2. Rounded(b) /\ Rounded(c)
    <3> HIDE DEF Rounded
    <3> QED
      BY <2>1, <1>2
  <2> QED
    BY <2>2
<1>5. pool * b \in Nat /\ pool * c \in Nat /\ pool * d \in Nat
  BY <1>1
<1>6. pool * b + pool * c + pool * d = 10000 * pool
  <2>1. pool * b + pool * c + pool * d = pool * (b + c + d)
    BY <1>1
  <2> QED
    BY <1>1, <2>1
<1> HIDE DEF b, c, d, x, y
<1>7. /\ pool * d <= 10000 * (pool - x - y)
      /\ 10000 * (pool - x - y) < pool * d + 2 * 10000
  BY <1>4, <1>5, <1>6
<1> QED
  BY <1>3, <1>4, <1>7 DEF b, c, d
=============================================================================
