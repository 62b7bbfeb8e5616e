----------------------- MODULE PerfDataFileWriterProofs -----------------------
(***************************************************************************)
(* Proofs about module PerfDataFileWriter: for every content, description, *)
(* format and session, any number of calls, and failures of any write.     *)
(***************************************************************************)
EXTENDS PerfDataFileWriter, SequenceTheorems, FiniteSetTheorems, WellFoundedInduction, TLAPS

(* Induction over the naturals, for a set.                                 *)
LEMMA NatSet ==
  ASSUME NEW T, 0 \in T, \A n \in Nat : n \in T => n + 1 \in T
  PROVE  Nat \subseteq T
<1> DEFINE B == Nat \ T
<1> DEFINE R == OpToRel(<, Nat)
<1> SUFFICES ASSUME B # {} PROVE FALSE
  OBVIOUS
<1>1. IsWellFoundedOn(R, Nat)
  BY NatLessThanWellFounded
<1>2. B \subseteq Nat
  OBVIOUS
<1>3. \A a, b \in Nat : a < b => <<a, b>> \in R
  BY DEF OpToRel
<1> HIDE DEF R
<1>4. PICK x \in B : \A y \in B : ~ (<<y, x>> \in R)
  BY <1>1, <1>2, WFMin
<1>5. x # 0 /\ x \in Nat
  OBVIOUS
<1>6. x - 1 \in Nat /\ x - 1 < x /\ (x - 1) + 1 = x
  BY <1>5
<1>7. x - 1 \in T
  BY <1>6, <1>3, <1>4
<1> QED
  BY <1>6, <1>7

-----------------------------------------------------------------------------
(* SizesBefore: the sum of the sizes before the n-th.                      *)
SumRound(g, s, k) == IF k = 1 THEN 0 ELSE g[k - 1] + s[k - 1]
SumTable(g, s, n) == g = [k \in 1 .. n |-> SumRound(g, s, k)]

LEMMA SumTableExists ==
  ASSUME NEW s, NEW n \in Nat
  PROVE  \E g : SumTable(g, s, n)
<1> DEFINE T == {m \in Nat : \E g : SumTable(g, s, m)}
<1>1. 0 \in T
  <2> DEFINE g == [k \in 1 .. 0 |-> 0]
  <2>1. SumTable(g, s, 0)
    BY DEF SumTable
  <2> QED BY <2>1
<1>2. ASSUME NEW m \in Nat, m \in T
      PROVE  m + 1 \in T
  <2>1. PICK g : SumTable(g, s, m)
    BY <1>2
  <2> DEFINE h == [k \in 1 .. m + 1 |-> SumRound(g, s, k)]
  <2>2. \A k \in 1 .. m : h[k] = g[k]
    <3>1. \A k \in 1 .. m : g[k] = SumRound(g, s, k)
      BY <2>1 DEF SumTable
    <3> QED BY <3>1
  <2>3. \A k \in 1 .. m + 1 : h[k] = SumRound(g, s, k)
    OBVIOUS
  <2>4. h = [k \in 1 .. m + 1 |-> h[k]]
    OBVIOUS
  <2> HIDE DEF h
  <2>5. ASSUME NEW k \in 1 .. m + 1
        PROVE  SumRound(h, s, k) = SumRound(g, s, k)
    <3>1. k = 1 \/ k - 1 \in 1 .. m
      OBVIOUS
    <3> QED BY <3>1, <2>2 DEF SumRound
  <2>6. SumTable(h, s, m + 1)
    BY <2>3, <2>4, <2>5 DEF SumTable
  <2> QED BY <2>6
<1> HIDE DEF T
<1>3. n \in T
  BY <1>1, <1>2, NatSet
<1> QED BY <1>3 DEF T

LEMMA SumUnfold ==
  ASSUME NEW s, NEW n \in Nat
  PROVE  \E g : SizesBefore(s, n) = g[n] /\ \A k \in 1 .. n : g[k] = SumRound(g, s, k)
<1> DEFINE g == CHOOSE h : SumTable(h, s, n)
<1>1. SumTable(g, s, n)
  BY SumTableExists
<1>2. SizesBefore(s, n) = g[n]
  BY DEF SizesBefore, SumTable, SumRound
<1> HIDE DEF g
<1>3. \A k \in 1 .. n : g[k] = SumRound(g, s, k)
  BY <1>1 DEF SumTable
<1> QED BY <1>2, <1>3

(* Two tables agree as far as both go and their sizes agree.               *)
LEMMA SumUnique ==
  ASSUME NEW s, NEW t, NEW n \in Nat, NEW g, NEW h,
         \A k \in 1 .. n : g[k] = SumRound(g, s, k),
         \A k \in 1 .. n : h[k] = SumRound(h, t, k),
         \A k \in 1 .. n - 1 : s[k] = t[k]
  PROVE  \A k \in 1 .. n : g[k] = h[k]
<1> DEFINE T == {m \in Nat : m + 1 <= n => g[m + 1] = h[m + 1]}
<1>1. 0 \in T
  BY DEF SumRound
<1>2. ASSUME NEW m \in Nat, m \in T
      PROVE  m + 1 \in T
  <2> SUFFICES ASSUME m + 2 <= n PROVE g[m + 2] = h[m + 2]
    OBVIOUS
  <2>1. m + 2 \in 1 .. n /\ m + 1 \in 1 .. n - 1 /\ m + 2 # 1 /\ (m + 2) - 1 = m + 1 /\ m + 1 <= n
    OBVIOUS
  <2>2. g[m + 2] = g[m + 1] + s[m + 1] /\ h[m + 2] = h[m + 1] + t[m + 1]
    BY <2>1 DEF SumRound
  <2> QED BY <1>2, <2>1, <2>2
<1> HIDE DEF T
<1>3. ASSUME NEW k \in 1 .. n PROVE g[k] = h[k]
  <2>1. k - 1 \in Nat /\ (k - 1) + 1 = k /\ k <= n
    OBVIOUS
  <2>2. k - 1 \in T
    BY <1>1, <1>2, <2>1, NatSet
  <2> QED BY <2>1, <2>2 DEF T
<1> QED BY <1>3

LEMMA SumFirst ==
  ASSUME NEW s
  PROVE  SizesBefore(s, 1) = 0
<1>1. PICK g : SizesBefore(s, 1) = g[1] /\ \A k \in 1 .. 1 : g[k] = SumRound(g, s, k)
  BY SumUnfold
<1> QED BY <1>1 DEF SumRound

LEMMA SumNext ==
  ASSUME NEW s, NEW n \in Nat \ {0}
  PROVE  SizesBefore(s, n + 1) = SizesBefore(s, n) + s[n]
<1>1. PICK g : SizesBefore(s, n) = g[n] /\ \A k \in 1 .. n : g[k] = SumRound(g, s, k)
  BY SumUnfold
<1>2. PICK h : SizesBefore(s, n + 1) = h[n + 1] /\ \A k \in 1 .. n + 1 : h[k] = SumRound(h, s, k)
  BY SumUnfold
<1>3. \A k \in 1 .. n : h[k] = SumRound(h, s, k)
  BY <1>2
<1>4. \A k \in 1 .. n : g[k] = SumRound(g, s, k)
  BY <1>1
<1>6. g[n] = h[n]
  <2>1. \A k \in 1 .. n - 1 : s[k] = s[k]
    OBVIOUS
  <2>2. \A k \in 1 .. n : g[k] = h[k]
    BY ONLY n \in Nat, <1>3, <1>4, <2>1, SumUnique
  <2> QED BY <2>2
<1>5. h[n + 1] = h[n] + s[n]
  BY <1>2 DEF SumRound
<1> QED BY <1>1, <1>2, <1>6, <1>5

(* Only the sizes before the n-th matter.                                  *)
LEMMA SumSame ==
  ASSUME NEW s, NEW t, NEW n \in Nat \ {0}, \A k \in 1 .. n - 1 : s[k] = t[k]
  PROVE  SizesBefore(s, n) = SizesBefore(t, n)
<1>1. PICK g : SizesBefore(s, n) = g[n] /\ \A k \in 1 .. n : g[k] = SumRound(g, s, k)
  BY SumUnfold
<1>2. PICK h : SizesBefore(t, n) = h[n] /\ \A k \in 1 .. n : h[k] = SumRound(h, t, k)
  BY SumUnfold
<1>3. g[n] = h[n]
  <2>0. (\A k \in 1 .. n : g[k] = SumRound(g, s, k)) /\ (\A k \in 1 .. n : h[k] = SumRound(h, t, k))
    BY <1>1, <1>2
  <2>1. \A k \in 1 .. n : g[k] = h[k]
    BY ONLY n \in Nat, <2>0, (\A k \in 1 .. n - 1 : s[k] = t[k]), SumUnique
  <2> QED BY <2>1
<1> QED BY <1>1, <1>2, <1>3

LEMMA SumNat ==
  ASSUME NEW s, NEW N \in Nat, \A k \in 1 .. N : s[k] \in Nat
  PROVE  \A n \in 1 .. N + 1 : SizesBefore(s, n) \in Nat
<1> DEFINE T == {m \in Nat : m <= N => SizesBefore(s, m + 1) \in Nat}
<1>1. 0 \in T
  BY SumFirst
<1>2. ASSUME NEW m \in Nat, m \in T
      PROVE  m + 1 \in T
  <2> SUFFICES ASSUME m + 1 <= N PROVE SizesBefore(s, (m + 1) + 1) \in Nat
    OBVIOUS
  <2>1. SizesBefore(s, (m + 1) + 1) = SizesBefore(s, m + 1) + s[m + 1]
    BY SumNext
  <2>2. SizesBefore(s, m + 1) \in Nat /\ s[m + 1] \in Nat
    BY <1>2
  <2> QED BY <2>1, <2>2
<1> HIDE DEF T
<1>3. ASSUME NEW n \in 1 .. N + 1 PROVE SizesBefore(s, n) \in Nat
  <2>1. n - 1 \in Nat /\ (n - 1) + 1 = n /\ n - 1 <= N
    OBVIOUS
  <2>2. n - 1 \in T
    BY <1>1, <1>2, <2>1, NatSet
  <2> QED BY <2>1, <2>2 DEF T
<1> QED BY <1>3

(* What lies before the n-th and the n-th lie before any later one.        *)
LEMMA SumGrows ==
  ASSUME NEW s, NEW N \in Nat, \A k \in 1 .. N : s[k] \in Nat,
         NEW n \in 1 .. N, NEW p \in n + 1 .. N + 1
  PROVE  SizesBefore(s, n) + s[n] <= SizesBefore(s, p)
<1> DEFINE T == {m \in Nat : n + 1 + m <= N + 1 =>
                    SizesBefore(s, n) + s[n] <= SizesBefore(s, n + 1 + m)}
<1>0. \A k \in 1 .. N + 1 : SizesBefore(s, k) \in Nat
  BY SumNat
<1>1. 0 \in T
  <2>1. SizesBefore(s, n + 1) = SizesBefore(s, n) + s[n]
    BY SumNext
  <2>2. SizesBefore(s, n) \in Nat /\ s[n] \in Nat
    BY <1>0
  <2> QED BY <2>1, <2>2
<1>2. ASSUME NEW m \in Nat, m \in T
      PROVE  m + 1 \in T
  <2> SUFFICES ASSUME n + 1 + (m + 1) <= N + 1
               PROVE SizesBefore(s, n) + s[n] <= SizesBefore(s, n + 1 + (m + 1))
    OBVIOUS
  <2> DEFINE q == n + 1 + m
  <2>1. q \in Nat \ {0} /\ q \in 1 .. N /\ n + 1 + (m + 1) = q + 1
    OBVIOUS
  <2>2. SizesBefore(s, q + 1) = SizesBefore(s, q) + s[q]
    BY <2>1, SumNext
  <2>3. SizesBefore(s, n) + s[n] <= SizesBefore(s, q)
    BY <1>2
  <2>4. s[q] \in Nat /\ s[n] \in Nat /\ SizesBefore(s, q) \in Nat /\ SizesBefore(s, n) \in Nat
    BY <1>0, <2>1
  <2> HIDE DEF q
  <2> QED BY <2>1, <2>2, <2>3, <2>4
<1> HIDE DEF T
<1>3. p - n - 1 \in Nat /\ n + 1 + (p - n - 1) = p /\ p <= N + 1
  OBVIOUS
<1>4. p - n - 1 \in T
  BY <1>1, <1>2, <1>3, NatSet
<1> QED BY <1>3, <1>4 DEF T

(* The sizes after the m-th add up as a sequence of their own.             *)
Continues(s, m, t, q) ==
    (\A k \in 1 .. m + q : s[k] \in Nat) /\ (\A k \in 1 .. q : s[m + k] = t[k])

LEMMA SumTail ==
  ASSUME NEW s, NEW t, NEW m \in Nat, NEW q \in Nat, Continues(s, m, t, q)
  PROVE  \A n \in 1 .. q + 1 : SizesBefore(s, m + n) = SizesBefore(s, m + 1) + SizesBefore(t, n)
<1> TAKE n \in 1 .. q + 1
<1> USE DEF Continues
<1> DEFINE T == {i \in Nat : i + 1 <= q + 1 =>
                    SizesBefore(s, m + (i + 1)) = SizesBefore(s, m + 1) + SizesBefore(t, i + 1)}
<1>0. /\ \A k \in 1 .. (m + q) + 1 : SizesBefore(s, k) \in Nat
      /\ \A k \in 1 .. q + 1 : SizesBefore(t, k) \in Nat
  <2>1. \A k \in 1 .. q : t[k] \in Nat
    <3> SUFFICES ASSUME NEW k \in 1 .. q PROVE t[k] \in Nat
      OBVIOUS
    <3>1. m + k \in 1 .. m + q /\ s[m + k] = t[k]
      OBVIOUS
    <3> QED BY <3>1
  <2>2. \A k \in 1 .. q + 1 : SizesBefore(t, k) \in Nat
    BY <2>1, SumNat
  <2>3. \A k \in 1 .. (m + q) + 1 : SizesBefore(s, k) \in Nat
    <3>1. m + q \in Nat
      OBVIOUS
    <3> QED BY <3>1, SumNat
  <2> QED BY <2>2, <2>3
<1>1. 0 \in T
  <2>1. SizesBefore(t, 1) = 0 /\ SizesBefore(s, m + 1) \in Nat
    BY SumFirst, <1>0
  <2> QED BY <2>1
<1>2. ASSUME NEW i \in Nat, i \in T
      PROVE  i + 1 \in T
  <2> SUFFICES ASSUME (i + 1) + 1 <= q + 1
               PROVE  SizesBefore(s, m + ((i + 1) + 1)) = SizesBefore(s, m + 1) + SizesBefore(t, (i + 1) + 1)
    OBVIOUS
  <2> DEFINE r == i + 1
  <2>1. r \in Nat \ {0} /\ r \in 1 .. q /\ m + r \in Nat \ {0} /\ m + r \in 1 .. m + q
    OBVIOUS
  <2>2. SizesBefore(s, m + r) = SizesBefore(s, m + 1) + SizesBefore(t, r)
    BY <1>2
  <2>3. s[m + r] = t[r] /\ s[m + r] \in Nat
    BY <2>1
  <2>4. SizesBefore(s, m + 1) \in Nat /\ SizesBefore(t, r) \in Nat
    BY <1>0, <2>1
  <2>5. m + (r + 1) = (m + r) + 1
    BY <2>1
  <2> HIDE DEF r
  <2>6. SizesBefore(s, (m + r) + 1) = SizesBefore(s, m + r) + s[m + r]
    BY <2>1, SumNext
  <2>7. SizesBefore(t, r + 1) = SizesBefore(t, r) + t[r]
    BY <2>1, SumNext
  <2>8. SizesBefore(s, m + (r + 1)) = SizesBefore(s, m + 1) + SizesBefore(t, r + 1)
    BY <2>2, <2>3, <2>4, <2>5, <2>6, <2>7
  <2> QED BY <2>8 DEF r
<1> HIDE DEF T
<1>3. n - 1 \in Nat /\ (n - 1) + 1 = n /\ n <= q + 1
  OBVIOUS
<1>4. n - 1 \in T
  BY <1>1, <1>2, <1>3, NatSet
<1> QED BY <1>3, <1>4 DEF T

LEMMA SumOnes ==
  ASSUME NEW s, NEW m \in Nat, \A k \in 1 .. m : s[k] = 1, NEW n \in 1 .. m + 1
  PROVE  SizesBefore(s, n) = n - 1
<1> DEFINE T == {i \in Nat : i <= m => SizesBefore(s, i + 1) = i}
<1>1. 0 \in T
  BY SumFirst
<1>2. ASSUME NEW i \in Nat, i \in T
      PROVE  i + 1 \in T
  <2> SUFFICES ASSUME i + 1 <= m PROVE SizesBefore(s, (i + 1) + 1) = i + 1
    OBVIOUS
  <2>1. SizesBefore(s, (i + 1) + 1) = SizesBefore(s, i + 1) + s[i + 1]
    BY SumNext
  <2>2. SizesBefore(s, i + 1) = i /\ s[i + 1] = 1
    BY <1>2
  <2> QED BY <2>1, <2>2
<1> HIDE DEF T
<1>3. n - 1 \in Nat /\ (n - 1) + 1 = n /\ n - 1 <= m
  OBVIOUS
<1>4. n - 1 \in T
  BY <1>1, <1>2, <1>3, NatSet
<1> QED BY <1>3, <1>4 DEF T

-----------------------------------------------------------------------------
(* Chunks in a file: chunk n begins after the units of those before it.    *)
Lens(chunks) == [n \in DOMAIN chunks |-> Len(chunks[n])]

ChunkAt(d, at, chunks, n) ==
    \A j \in 1 .. Len(chunks[n]) : d[at + SizesBefore(Lens(chunks), n) + j] = chunks[n][j]

Holds(d, at, chunks, k) == \A n \in 1 .. k : ChunkAt(d, at, chunks, n)

LEMMA LensType ==
  ASSUME NEW S, NEW chunks \in Seq(Seq(S))
  PROVE  /\ Len(chunks) \in Nat
         /\ \A n \in 1 .. Len(chunks) : Lens(chunks)[n] = Len(chunks[n]) /\ Lens(chunks)[n] \in Nat
         /\ \A n \in 1 .. Len(chunks) + 1 : SizesBefore(Lens(chunks), n) \in Nat
         /\ ChunkUnits(chunks) = SizesBefore(Lens(chunks), Len(chunks) + 1)
<1>1. Len(chunks) \in Nat /\ DOMAIN chunks = 1 .. Len(chunks)
  OBVIOUS
<1>2. \A n \in 1 .. Len(chunks) : Lens(chunks)[n] = Len(chunks[n]) /\ Lens(chunks)[n] \in Nat
  BY <1>1 DEF Lens
<1>3. \A n \in 1 .. Len(chunks) + 1 : SizesBefore(Lens(chunks), n) \in Nat
  BY <1>1, <1>2, SumNat
<1>4. ChunkUnits(chunks) = SizesBefore(Lens(chunks), Len(chunks) + 1)
  BY DEF ChunkUnits, Lens
<1> QED BY <1>1, <1>2, <1>3, <1>4

(* FlattenSeq puts the chunks one after the other from position 0.         *)
FlattenRound(f, seqs, i) == IF i = 1 THEN seqs[i] ELSE f[i - 1] \o seqs[i]
FlattenTable(f, seqs) == f = [i \in 1 .. Len(seqs) |-> FlattenRound(f, seqs, i)]

LEMMA FlattenTableExists ==
  ASSUME NEW S, NEW seqs \in Seq(Seq(S))
  PROVE  \E g : FlattenTable(g, seqs)
<1> DEFINE T == {m \in Nat : \E g : g = [i \in 1 .. m |-> FlattenRound(g, seqs, i)]}
<1>1. 0 \in T
  <2> DEFINE g == [k \in 1 .. 0 |-> 0]
  <2>1. g = [i \in 1 .. 0 |-> FlattenRound(g, seqs, i)]
    OBVIOUS
  <2> QED BY <2>1
<1>2. ASSUME NEW m \in Nat, m \in T
      PROVE  m + 1 \in T
  <2>1. PICK g : g = [i \in 1 .. m |-> FlattenRound(g, seqs, i)]
    BY <1>2
  <2> DEFINE h == [k \in 1 .. m + 1 |-> FlattenRound(g, seqs, k)]
  <2>2. \A k \in 1 .. m : h[k] = g[k]
    <3>1. \A k \in 1 .. m : g[k] = FlattenRound(g, seqs, k)
      BY <2>1
    <3> QED BY <3>1
  <2>3. \A k \in 1 .. m + 1 : h[k] = FlattenRound(g, seqs, k)
    OBVIOUS
  <2>4. h = [k \in 1 .. m + 1 |-> h[k]]
    OBVIOUS
  <2> HIDE DEF h
  <2>5. ASSUME NEW k \in 1 .. m + 1
        PROVE  FlattenRound(h, seqs, k) = FlattenRound(g, seqs, k)
    <3>1. k = 1 \/ k - 1 \in 1 .. m
      OBVIOUS
    <3> QED BY <3>1, <2>2 DEF FlattenRound
  <2>6. h = [i \in 1 .. m + 1 |-> FlattenRound(h, seqs, i)]
    BY <2>3, <2>4, <2>5
  <2> QED BY <2>6
<1> HIDE DEF T
<1>3. Len(seqs) \in T
  BY <1>1, <1>2, NatSet
<1> QED BY <1>3 DEF T, FlattenTable

(* A chunk at the end of a sequence does not disturb those before it.      *)
LEMMA HoldsKept ==
  ASSUME NEW S, NEW chunks \in Seq(Seq(S)), NEW k \in 0 .. Len(chunks),
         NEW d, NEW e, NEW at \in Nat, Holds(d, at, chunks, k),
         \A i \in at + 1 .. at + SizesBefore(Lens(chunks), k + 1) : e[i] = d[i]
  PROVE  Holds(e, at, chunks, k)
<1> SUFFICES ASSUME NEW n \in 1 .. k, NEW j \in 1 .. Len(chunks[n])
             PROVE  e[at + SizesBefore(Lens(chunks), n) + j] = chunks[n][j]
  BY DEF Holds, ChunkAt
<1>1. d[at + SizesBefore(Lens(chunks), n) + j] = chunks[n][j]
  BY DEF Holds, ChunkAt
<1>2. /\ SizesBefore(Lens(chunks), n) + Lens(chunks)[n] <= SizesBefore(Lens(chunks), k + 1)
      /\ Lens(chunks)[n] = Len(chunks[n]) /\ Len(chunks[n]) \in Nat
      /\ SizesBefore(Lens(chunks), n) \in Nat /\ SizesBefore(Lens(chunks), k + 1) \in Nat
  <2>1. n \in 1 .. Len(chunks) /\ k + 1 \in n + 1 .. Len(chunks) + 1 /\ Len(chunks) \in Nat
    OBVIOUS
  <2>2. \A i \in 1 .. Len(chunks) : Lens(chunks)[i] \in Nat /\ Lens(chunks)[i] = Len(chunks[i])
    BY LensType
  <2>3. SizesBefore(Lens(chunks), n) \in Nat /\ SizesBefore(Lens(chunks), k + 1) \in Nat
    BY <2>1, LensType
  <2>4. SizesBefore(Lens(chunks), n) + Lens(chunks)[n] <= SizesBefore(Lens(chunks), k + 1)
    BY <2>1, <2>2, SumGrows
  <2> QED BY <2>1, <2>2, <2>3, <2>4
<1>3. at + SizesBefore(Lens(chunks), n) + j \in at + 1 .. at + SizesBefore(Lens(chunks), k + 1)
  BY <1>2, SMTT(30)
<1> QED BY <1>1, <1>3

LEMMA JoinPoints ==
  ASSUME NEW S, NEW a \in Seq(S), NEW b \in Seq(S)
  PROVE  /\ a \o b \in Seq(S) /\ Len(a \o b) = Len(a) + Len(b)
         /\ \A i \in 1 .. Len(a) : (a \o b)[i] = a[i]
         /\ \A i \in 1 .. Len(b) : (a \o b)[Len(a) + i] = b[i]
<1>1. /\ a \o b \in Seq(S) /\ Len(a \o b) = Len(a) + Len(b)
      /\ \A i \in 1 .. Len(a) + Len(b) :
            (a \o b)[i] = IF i <= Len(a) THEN a[i] ELSE b[i - Len(a)]
  BY ConcatProperties
<1>2. Len(a) \in Nat /\ Len(b) \in Nat
  OBVIOUS
<1>3. ASSUME NEW i \in 1 .. Len(b) PROVE (a \o b)[Len(a) + i] = b[i]
  <2>1. Len(a) + i \in 1 .. Len(a) + Len(b) /\ ~ (Len(a) + i <= Len(a)) /\ (Len(a) + i) - Len(a) = i
    BY <1>2
  <2>2. (a \o b)[Len(a) + i] = b[(Len(a) + i) - Len(a)]
    BY <1>1, <2>1
  <2> QED BY <2>1, <2>2
<1>4. \A i \in 1 .. Len(a) : (a \o b)[i] = a[i]
  BY <1>1, <1>2
<1> QED BY <1>1, <1>3, <1>4

LEMMA FlattenPoints ==
  ASSUME NEW S, NEW seqs \in Seq(Seq(S))
  PROVE  /\ FlattenSeq(seqs) \in Seq(S)
         /\ Len(FlattenSeq(seqs)) = ChunkUnits(seqs)
         /\ Holds(FlattenSeq(seqs), 0, seqs, Len(seqs))
<1> DEFINE N == Len(seqs)
           L == Lens(seqs)
           flat == CHOOSE g : FlattenTable(g, seqs)
<1>1. N \in Nat /\ (\A n \in 1 .. N : seqs[n] \in Seq(S) /\ L[n] = Len(seqs[n]) /\ L[n] \in Nat)
      /\ (\A n \in 1 .. N + 1 : SizesBefore(L, n) \in Nat) /\ ChunkUnits(seqs) = SizesBefore(L, N + 1)
  BY LensType
<1>2. CASE N = 0
  <2>1. seqs = <<>>
    BY <1>2
  <2>2. FlattenSeq(seqs) = <<>>
    BY <1>2, <2>1 DEF FlattenSeq
  <2>3. ChunkUnits(seqs) = 0
    BY <1>1, <1>2, SumFirst
  <2>4. Holds(<<>>, 0, seqs, 0)
    BY DEF Holds
  <2> QED BY <1>2, <2>2, <2>3, <2>4
<1>3. CASE N # 0
  <2>1. FlattenSeq(seqs) = flat[N]
    BY <1>3 DEF FlattenSeq, FlattenTable, FlattenRound
  <2>2. FlattenTable(flat, seqs)
    BY FlattenTableExists, Zenon
  <2> HIDE DEF flat
  <2>3. \A i \in 1 .. N : flat[i] = FlattenRound(flat, seqs, i)
    <3>1. flat = [i \in 1 .. N |-> FlattenRound(flat, seqs, i)]
      BY <2>2 DEF FlattenTable
    <3> QED BY <3>1
  <2> DEFINE Good(m) == /\ flat[m + 1] \in Seq(S)
                        /\ Len(flat[m + 1]) = SizesBefore(L, m + 2)
                        /\ Holds(flat[m + 1], 0, seqs, m + 1)
             T == {m \in Nat : m + 1 <= N => Good(m)}
  <2> HIDE DEF L, N
  <2>4. 0 \in T
    <3>1. 1 \in 1 .. N
      BY <1>1, <1>3
    <3>2. flat[1] = seqs[1] /\ seqs[1] \in Seq(S)
      BY <3>1, <2>3, <1>1 DEF FlattenRound
    <3>3. SizesBefore(L, 1) = 0 /\ SizesBefore(L, 2) = Len(seqs[1])
      <4>1. SizesBefore(L, 1) = 0
        BY SumFirst
      <4>2. SizesBefore(L, 1 + 1) = SizesBefore(L, 1) + L[1]
        BY SumNext
      <4> QED BY <4>1, <4>2, <3>1, <1>1
    <3>4. Holds(flat[1], 0, seqs, 1)
      BY <3>2, <3>3 DEF Holds, ChunkAt, L
    <3> QED BY <3>2, <3>3, <3>4
  <2>5. ASSUME NEW m \in Nat, m \in T PROVE m + 1 \in T
    <3> SUFFICES ASSUME m + 2 <= N PROVE Good(m + 1)
      OBVIOUS
    <3>1. m + 2 \in 1 .. N /\ m + 2 # 1 /\ (m + 2) - 1 = m + 1 /\ m + 1 <= N /\ m + 1 \in 0 .. N
      BY <1>1
    <3>2. flat[m + 2] = flat[m + 1] \o seqs[m + 2]
      BY <3>1, <2>3 DEF FlattenRound
    <3>3. Good(m)
      BY <3>1, <2>5
    <3>4. SizesBefore(L, m + 3) = SizesBefore(L, m + 2) + L[m + 2] /\ SizesBefore(L, m + 2) \in Nat
      <4>1. SizesBefore(L, (m + 2) + 1) = SizesBefore(L, m + 2) + L[m + 2]
        BY SumNext
      <4>2. (m + 2) + 1 = m + 3 /\ m + 2 \in 1 .. N + 1
        BY <1>1, <3>1
      <4> QED BY <4>1, <4>2, <1>1
    <3> DEFINE a == flat[m + 1]
               b == seqs[m + 2]
    <3>5. a \in Seq(S) /\ b \in Seq(S) /\ Len(a) = SizesBefore(L, m + 2) /\ Len(b) = L[m + 2]
      BY <3>1, <3>3, <1>1
    <3>6. Holds(a, 0, seqs, m + 1)
      BY <3>3
    <3> HIDE DEF a
    <3>7. /\ a \o b \in Seq(S) /\ Len(a \o b) = Len(a) + Len(b)
          /\ \A i \in 1 .. Len(a) : (a \o b)[i] = a[i]
          /\ \A i \in 1 .. Len(b) : (a \o b)[Len(a) + i] = b[i]
      <4> HIDE DEF b
      <4>1. a \in Seq(S) /\ b \in Seq(S)
        BY <3>5
      <4> QED BY ONLY <4>1, JoinPoints
    <3>8. Holds(a \o b, 0, seqs, m + 1)
      <4>1. (m + 1) + 1 = m + 2
        OBVIOUS
      <4>2. \A i \in 0 + 1 .. 0 + SizesBefore(Lens(seqs), (m + 1) + 1) : (a \o b)[i] = a[i]
        BY <4>1, <3>5, <3>7 DEF L
      <4> QED BY <3>6, <4>2, <3>1, HoldsKept DEF N
    <3>9. ChunkAt(a \o b, 0, seqs, m + 2)
      <4> SUFFICES ASSUME NEW j \in 1 .. Len(b)
                   PROVE  (a \o b)[0 + SizesBefore(L, m + 2) + j] = b[j]
        BY DEF ChunkAt, L
      <4>1. 0 + SizesBefore(L, m + 2) + j = Len(a) + j
        BY <3>4, <3>5
      <4> QED BY <4>1, <3>7
    <3>10. Holds(a \o b, 0, seqs, m + 2)
      BY <3>8, <3>9 DEF Holds
    <3>11. (m + 1) + 1 = m + 2 /\ (m + 1) + 2 = m + 3 /\ flat[m + 2] = a \o b
      BY <3>2 DEF a
    <3> HIDE DEF b
    <3> QED BY <3>4, <3>5, <3>7, <3>10, <3>11
  <2> HIDE DEF T
  <2>6. N - 1 \in T /\ N - 1 \in Nat /\ (N - 1) + 1 = N /\ (N - 1) + 2 = N + 1
    <3>1. N - 1 \in Nat /\ (N - 1) + 1 = N /\ (N - 1) + 2 = N + 1
      BY <1>1, <1>3
    <3>2. Nat \subseteq T
      BY <2>4, <2>5, NatSet
    <3> QED BY <3>1, <3>2
  <2>7. Good(N - 1)
    BY <2>6, <1>1 DEF T
  <2> QED BY <2>1, <2>6, <2>7, <1>1 DEF N
<1> QED BY <1>2, <1>3

(* Chunks of one unit each, then others: how write_headers and write_attrs *)
(* lay out the sections and what they point to.                            *)
LEMMA HeadsThenBodies ==
  ASSUME NEW S, NEW heads \in Seq(Seq(S)), NEW bodies \in Seq(Seq(S)),
         \A k \in 1 .. Len(heads) : Len(heads[k]) = 1
  PROVE  /\ heads \o bodies \in Seq(Seq(S))
         /\ ChunkUnits(heads \o bodies) = Len(heads) + ChunkUnits(bodies)
         /\ \A d, at : at \in Nat /\ Holds(d, at, heads \o bodies, Len(heads \o bodies)) =>
               /\ \A k \in 1 .. Len(heads) : d[at + k] = heads[k][1]
               /\ Holds(d, at + Len(heads), bodies, Len(bodies))
<1> DEFINE m == Len(heads)
           q == Len(bodies)
           all == heads \o bodies
           L == Lens(all)
           B == Lens(bodies)
<1>1. m \in Nat /\ q \in Nat
  OBVIOUS
<1>2. /\ all \in Seq(Seq(S)) /\ Len(all) = m + q
      /\ \A i \in 1 .. m : all[i] = heads[i]
      /\ \A i \in 1 .. q : all[m + i] = bodies[i]
  BY JoinPoints
<1> HIDE DEF all
<1>3. /\ \A n \in 1 .. m + q : L[n] = Len(all[n]) /\ L[n] \in Nat
      /\ ChunkUnits(all) = SizesBefore(L, (m + q) + 1)
  BY <1>2, LensType
<1>4. /\ \A n \in 1 .. q : B[n] = Len(bodies[n]) /\ B[n] \in Nat
      /\ ChunkUnits(bodies) = SizesBefore(B, q + 1)
      /\ \A n \in 1 .. q + 1 : SizesBefore(B, n) \in Nat
  BY LensType
<1> HIDE DEF L, B
<1>5. ASSUME NEW k \in 1 .. m PROVE L[k] = 1 /\ all[k] = heads[k] /\ Len(all[k]) = 1
  <2>1. k \in 1 .. m + q /\ all[k] = heads[k] /\ Len(heads[k]) = 1
    <3>1. Len(heads[k]) = 1
      OBVIOUS
    <3>2. all[k] = heads[k]
      BY <1>2
    <3> HIDE DEF m, q
    <3>3. k \in 1 .. m + q
      BY ONLY <1>1, k \in 1 .. m
    <3> QED BY <3>1, <3>2, <3>3
  <2> HIDE DEF m, q
  <2> QED BY <2>1, <1>3
<1>6. ASSUME NEW k \in 1 .. q PROVE L[m + k] = B[k]
  <2>1. m + k \in 1 .. m + q /\ all[m + k] = bodies[k]
    BY <1>1, <1>2
  <2> HIDE DEF m, q
  <2> QED BY <2>1, <1>3, <1>4
<1> HIDE DEF m, q
<1>7. \A n \in 1 .. m + 1 : SizesBefore(L, n) = n - 1
  BY <1>1, <1>5, SumOnes
<1>8. \A n \in 1 .. q + 1 : SizesBefore(L, m + n) = m + SizesBefore(B, n)
  <2>1. SizesBefore(L, m + 1) = m
    BY <1>1, <1>7
  <2>2. \A k \in 1 .. m + q : L[k] \in Nat
    BY <1>3
  <2>3. \A k \in 1 .. q : L[m + k] = B[k]
    BY <1>6
  <2>4. \A n \in 1 .. q + 1 : SizesBefore(L, m + n) = SizesBefore(L, m + 1) + SizesBefore(B, n)
    <3>1. Continues(L, m, B, q)
      BY <2>2, <2>3 DEF Continues
    <3> QED BY <1>1, <3>1, SumTail
  <2> QED BY <2>1, <2>4
<1>9. ChunkUnits(all) = m + ChunkUnits(bodies)
  <2>1. (m + q) + 1 = m + (q + 1) /\ q + 1 \in 1 .. q + 1
    BY <1>1
  <2> QED BY <2>1, <1>8, <1>3, <1>4
<1>10. ASSUME NEW d, NEW at \in Nat, Holds(d, at, all, m + q)
       PROVE  /\ \A k \in 1 .. m : d[at + k] = heads[k][1]
              /\ Holds(d, at + m, bodies, q)
  <2>1. \A n \in 1 .. m + q : \A j \in 1 .. Len(all[n]) : d[at + SizesBefore(L, n) + j] = all[n][j]
    BY <1>10 DEF Holds, ChunkAt, L
  <2>2. ASSUME NEW k \in 1 .. m PROVE d[at + k] = heads[k][1]
    <3>1. k \in 1 .. m + q /\ k \in 1 .. m + 1 /\ Len(all[k]) = 1 /\ all[k] = heads[k]
      BY <1>1, <1>5
    <3>2. SizesBefore(L, k) = k - 1
      BY <1>7, <3>1
    <3>3. d[at + SizesBefore(L, k) + 1] = all[k][1]
      BY ONLY <2>1, <3>1
    <3>4. at + SizesBefore(L, k) + 1 = at + k
      BY <3>2, <1>1
    <3> QED BY <3>1, <3>3, <3>4
  <2>3. ASSUME NEW n \in 1 .. q, NEW j \in 1 .. Len(bodies[n])
        PROVE  d[(at + m) + SizesBefore(B, n) + j] = bodies[n][j]
    <3>1. m + n \in 1 .. m + q /\ n \in 1 .. q + 1 /\ all[m + n] = bodies[n]
      BY <1>1, <1>2
    <3>2. d[at + SizesBefore(L, m + n) + j] = bodies[n][j]
      BY <2>1, <3>1
    <3>3. SizesBefore(L, m + n) = m + SizesBefore(B, n) /\ SizesBefore(B, n) \in Nat
      BY <1>8, <1>4, <3>1
    <3>4. j \in Nat
      BY <1>4
    <3>5. at + SizesBefore(L, m + n) + j = (at + m) + SizesBefore(B, n) + j
      BY <3>3, <3>4, <1>1
    <3> QED BY <3>2, <3>5
  <2>4. Holds(d, at + m, bodies, q)
    BY <2>3 DEF Holds, ChunkAt, B
  <2> QED BY <2>2, <2>4
<1> QED BY <1>2, <1>9, <1>10 DEF m, q, all

-----------------------------------------------------------------------------
(* Ascending(S) is S in order: its n-th element has n - 1 below it, and    *)
(* every element of S occurs.                                              *)
Below(S, x) == {y \in S : y < x}
Nth(S, n) == CHOOSE x \in S : Cardinality(Below(S, x)) = n - 1

LEMMA BelowGrows ==
  ASSUME NEW S \in SUBSET Int, IsFiniteSet(S), NEW x \in S, NEW z \in Int, x < z
  PROVE  /\ IsFiniteSet(Below(S, x)) /\ Cardinality(Below(S, x)) \in Nat
         /\ Cardinality(Below(S, z)) \in Nat
         /\ Cardinality(Below(S, x)) < Cardinality(Below(S, z))
<1>1. Below(S, x) \in SUBSET S /\ Below(S, z) \in SUBSET S
  BY DEF Below
<1>2. /\ IsFiniteSet(Below(S, x)) /\ IsFiniteSet(Below(S, z))
  BY <1>1, FS_Subset
<1>3. Cardinality(Below(S, x)) \in Nat /\ Cardinality(Below(S, z)) \in Nat
  BY <1>2, FS_CardinalityType
<1>4. Below(S, x) \in SUBSET Below(S, z) /\ x \in Below(S, z) /\ x \notin Below(S, x)
  <2>1. \A y \in S : y < x => y < z
    OBVIOUS
  <2>2. ~ (x < x)
    OBVIOUS
  <2>3. x \in Below(S, z) /\ x \notin Below(S, x)
    BY <2>2 DEF Below
  <2>4. Below(S, x) \subseteq Below(S, z)
    BY <2>1, Zenon DEF Below
  <2> QED BY <2>3, <2>4
<1>5. /\ Cardinality(Below(S, x)) <= Cardinality(Below(S, z))
      /\ Cardinality(Below(S, z)) = Cardinality(Below(S, x)) => Below(S, z) = Below(S, x)
  BY <1>2, <1>4, FS_Subset
<1> QED BY <1>2, <1>3, <1>4, <1>5

LEMMA AscendingRanks ==
  ASSUME NEW S \in SUBSET Int, IsFiniteSet(S)
  PROVE  /\ Cardinality(S) \in Nat
         /\ Ascending(S) \in Seq(S) /\ Len(Ascending(S)) = Cardinality(S)
         /\ \A n \in 1 .. Cardinality(S) : Cardinality(Below(S, Ascending(S)[n])) = n - 1
         /\ \A x \in S : /\ Cardinality(Below(S, x)) + 1 \in 1 .. Cardinality(S)
                         /\ Ascending(S)[Cardinality(Below(S, x)) + 1] = x
<1> DEFINE c == Cardinality(S)
           rank == [x \in S |-> Cardinality(Below(S, x)) + 1]
<1>1. c \in Nat
  BY FS_CardinalityType
<1>2. ASSUME NEW x \in S PROVE rank[x] \in 1 .. c
  <2>1. Below(S, x) \in SUBSET S /\ x \notin Below(S, x)
    BY DEF Below
  <2>2. IsFiniteSet(Below(S, x)) /\ Cardinality(Below(S, x)) <= c
        /\ (c = Cardinality(Below(S, x)) => S = Below(S, x))
    BY <2>1, FS_Subset
  <2>3. Cardinality(Below(S, x)) \in Nat
    BY <2>2, FS_CardinalityType
  <2> QED BY <1>1, <2>1, <2>2, <2>3
<1>3. ASSUME NEW x \in S, NEW z \in S, rank[x] = rank[z] PROVE x = z
  <2>1. ASSUME NEW a \in S, NEW b \in S, a < b PROVE rank[a] # rank[b]
    <3>1. Cardinality(Below(S, a)) \in Nat /\ Cardinality(Below(S, b)) \in Nat
          /\ Cardinality(Below(S, a)) < Cardinality(Below(S, b))
      BY <2>1, BelowGrows
    <3> QED BY <3>1
  <2>2. x < z \/ z < x \/ x = z
    OBVIOUS
  <2> QED BY <2>1, <2>2, <1>3
<1>4. rank \in Injection(S, 1 .. c)
  BY <1>2, <1>3 DEF Injection, IsInjective
<1>5. IsFiniteSet(1 .. c) /\ Cardinality(1 .. c) = c
  BY <1>1, FS_Interval
<1> HIDE DEF rank
<1>6. rank \in Surjection(S, 1 .. c)
  BY <1>4, <1>5, FS_Injection
<1>7. \A n \in 1 .. c : \E x \in S : rank[x] = n
  BY <1>6 DEF Surjection
<1>8. \A n \in 1 .. c : \E x \in S : Cardinality(Below(S, x)) = n - 1
  <2> SUFFICES ASSUME NEW n \in 1 .. c PROVE \E x \in S : Cardinality(Below(S, x)) = n - 1
    OBVIOUS
  <2>1. PICK x \in S : rank[x] = n
    BY <1>7
  <2>2. Cardinality(Below(S, x)) \in Nat
    <3>1. Below(S, x) \in SUBSET S
      BY DEF Below
    <3> QED BY <3>1, FS_Subset, FS_CardinalityType
  <2>3. Cardinality(Below(S, x)) = n - 1
    BY <2>1, <2>2 DEF rank
  <2> QED BY <2>3
<1>9. \A n \in 1 .. c : Ascending(S)[n] = CHOOSE x \in S : Cardinality(Below(S, x)) = n - 1
  BY DEF Ascending, Below
<1>10. \A n \in 1 .. c : Ascending(S)[n] \in S /\ Cardinality(Below(S, Ascending(S)[n])) = n - 1
  BY <1>8, <1>9
<1>11. Ascending(S) = [n \in 1 .. c |-> Ascending(S)[n]]
  <2> DEFINE f == Ascending(S)
  <2>1. f = [n \in 1 .. c |-> Nth(S, n)]
    BY DEF Ascending, Below, Nth
  <2> HIDE DEF f
  <2>2. f = [n \in 1 .. c |-> f[n]]
    BY ONLY <2>1
  <2> QED BY <2>2 DEF f
<1>12. Ascending(S) \in Seq(S) /\ Len(Ascending(S)) = c
  BY <1>1, <1>10, <1>11
<1>13. ASSUME NEW x \in S PROVE Ascending(S)[rank[x]] = x
  <2> DEFINE z == Ascending(S)[rank[x]]
  <2>1. rank[x] \in 1 .. c
    BY <1>2
  <2>2. z \in S /\ Cardinality(Below(S, z)) = rank[x] - 1
    BY <2>1, <1>10
  <2>3. rank[z] = rank[x]
    BY <2>1, <2>2 DEF rank
  <2> QED BY <2>2, <2>3, <1>3
<1> QED BY <1>1, <1>2, <1>10, <1>12, <1>13 DEF rank

-----------------------------------------------------------------------------
(* The types of what the setters fill in.                                  *)
Descs == {d \in [attr : Int, name : Seq(Int), ids : Seq(Int)] : Len(d.name) < NAME_MAX_SIZE}

FormatRecords == [id : Int, system : Int, common : Int]

(* tracepoint_event_desc refuses an id that has a format.                  *)
OneEach(fs) == \A f, g \in fs : f.id = g.id => f = g

WriterRecords ==
    [descs : Seq(Descs), formats : SUBSET FormatRecords,
     headers : [HeaderIndexes -> Seq(Units)],
     header_page : Int, header_event : Int, ftraces : Seq(Int),
     kallsyms : Int, printk : Int, cmd_line : Int, long_size : Int, page_size : Int]

FormatSets == {fs \in SUBSET FormatRecords : IsFiniteSet(fs) /\ OneEach(fs)}

Writers == {x \in WriterRecords : x.formats \in FormatSets}

LEMMA NatMin ==
  ASSUME NEW S \in SUBSET Nat, S # {}
  PROVE  Min(S) \in S /\ \A y \in S : Min(S) <= y
<1> DEFINE R == OpToRel(<, Nat)
<1>1. IsWellFoundedOn(R, Nat)
  BY NatLessThanWellFounded
<1>2. \A a, b \in Nat : a < b => <<a, b>> \in R
  BY DEF OpToRel
<1> HIDE DEF R
<1>3. PICK x \in S : \A y \in S : ~ (<<y, x>> \in R)
  BY <1>1, WFMin
<1>4. \A y \in S : x <= y
  <2> SUFFICES ASSUME NEW y \in S PROVE x <= y
    OBVIOUS
  <2>1. ~ (y < x)
    BY <1>2, <1>3
  <2>2. x \in Nat /\ y \in Nat
    OBVIOUS
  <2> QED BY <2>1, <2>2
<1>5. Min(S) = CHOOSE z \in S : \A y \in S : z <= y
  BY DEF Min
<1> QED BY <1>4, <1>5

LEMMA IsSeq ==
  ASSUME NEW S, NEW n \in Nat, NEW f, f = [i \in 1 .. n |-> f[i]], \A i \in 1 .. n : f[i] \in S
  PROVE  f \in Seq(S) /\ Len(f) = n /\ DOMAIN f = 1 .. n
<1>1. f \in [1 .. n -> S]
  BY Zenon
<1> QED BY <1>1

LEMMA UnitType ==
  ASSUME NEW kind \in Kinds, NEW value \in Seq(Int)
  PROVE  /\ Unit(kind, value) \in Units /\ <<Unit(kind, value)>> \in Seq(Units)
         /\ Unit(kind, value).k = kind /\ Unit(kind, value).v = value
  BY DEF Unit, Units

LEMMA SectionUnit ==
  ASSUME NEW a \in Int, NEW b \in Int
  PROVE  /\ Unit("section", <<a, b>>) \in Units /\ <<Unit("section", <<a, b>>)>> \in Seq(Units)
         /\ Unit("section", <<a, b>>).k = "section" /\ Unit("section", <<a, b>>).v = <<a, b>>
<1> DEFINE v == <<a, b>>
<1>1. v \in Seq(Int)
  OBVIOUS
<1> HIDE DEF v
<1>0. "section" \in Kinds
  BY DEF Kinds
<1>2. /\ Unit("section", v) \in Units /\ <<Unit("section", v)>> \in Seq(Units)
      /\ Unit("section", v).k = "section" /\ Unit("section", v).v = v
  BY <1>0, <1>1, UnitType
<1> QED BY <1>2 DEF v

LEMMA PairUnit ==
  ASSUME NEW kind \in Kinds, NEW a \in Int, NEW b \in Int
  PROVE  /\ Unit(kind, <<a, b>>) \in Units
         /\ Unit(kind, <<a, b>>).v[1] = a /\ Unit(kind, <<a, b>>).v[2] = b
<1> DEFINE v == <<a, b>>
<1>1. v \in Seq(Int) /\ v[1] = a /\ v[2] = b
  OBVIOUS
<1> HIDE DEF v
<1>2. Unit(kind, v) \in Units /\ Unit(kind, v).v = v
  BY <1>1, UnitType
<1> QED BY <1>1, <1>2 DEF v

LEMMA SetHeadersFinite ==
  ASSUME NEW x
  PROVE  LET S == {i \in HeaderIndexes : x.headers[i] # <<>>}
         IN S \in SUBSET Int /\ IsFiniteSet(S)
<1>1. IsFiniteSet(HeaderIndexes)
  <2>1. 0 \in Int /\ 10 - 1 \in Int
    OBVIOUS
  <2>2. IsFiniteSet(0 .. 10 - 1)
    BY <2>1, FS_Interval
  <2> QED BY <2>2 DEF HeaderIndexes, LastFeature
<1>2. {i \in HeaderIndexes : x.headers[i] # <<>>} \in SUBSET HeaderIndexes
  OBVIOUS
<1>3. HeaderIndexes \subseteq Int
  BY DEF HeaderIndexes
<1> QED BY <1>1, <1>2, <1>3, FS_Subset

(* The section of header i follows those of the headers set below i.       *)
SetBelow(x, i) == Cardinality(Below({j \in HeaderIndexes : x.headers[j] # <<>>}, i))

(* Where the content of header i is, and that it lies among the chunks.    *)
HeaderAt(d, x, pos, i, o) ==
    /\ d[pos + SetBelow(x, i) + 1] = Unit("section", <<o, Len(x.headers[i])>>)
    /\ \A j \in 1 .. Len(x.headers[i]) : d[o + j] = x.headers[i][j]
    /\ pos + SetBelow(x, i) < o
    /\ o + Len(x.headers[i]) <= pos + ChunkUnits(HeaderChunks(x, pos))

LEMMA HeaderLayout ==
  ASSUME NEW x \in Writers, NEW pos \in Nat
  PROVE  /\ HeaderChunks(x, pos) \in Seq(Seq(Units))
         /\ ChunkUnits(HeaderChunks(x, pos)) \in Nat
         /\ \A d : Holds(d, pos, HeaderChunks(x, pos), Len(HeaderChunks(x, pos))) =>
               \A i \in HeaderIndexes : x.headers[i] # <<>> =>
                  SetBelow(x, i) \in Nat /\ \E o \in Nat : HeaderAt(d, x, pos, i, o)
<1> DEFINE S == {i \in HeaderIndexes : x.headers[i] # <<>>}
           set == SetIndexes(x)
           m == Len(set)
           sizes == [n \in DOMAIN set |-> Len(x.headers[set[n]])]
           heads == [n \in DOMAIN set |->
                       <<Unit("section", <<FirstHeaderOffset(x, pos) + SizesBefore(sizes, n), sizes[n]>>)>>]
           bodies == [n \in DOMAIN set |-> x.headers[set[n]]]
<1>1. /\ m \in Nat /\ set \in Seq(S) /\ m = Cardinality(S) /\ DOMAIN set = 1 .. m
      /\ \A i \in S : SetBelow(x, i) + 1 \in 1 .. m /\ set[SetBelow(x, i) + 1] = i
  <2>1. S \in SUBSET Int /\ IsFiniteSet(S)
    BY SetHeadersFinite
  <2>2. set = Ascending(S)
    BY DEF SetIndexes
  <2>3. \A i : SetBelow(x, i) = Cardinality(Below(S, i))
    BY DEF SetBelow
  <2> HIDE DEF S, set
  <2>4. m \in Nat /\ set \in Seq(S) /\ m = Cardinality(S)
    BY <2>1, <2>2, AscendingRanks
  <2>5. \A i \in S : SetBelow(x, i) + 1 \in 1 .. m /\ set[SetBelow(x, i) + 1] = i
    BY <2>1, <2>2, <2>3, <2>4, AscendingRanks
  <2> QED BY <2>4, <2>5
<1>2. \A n \in 1 .. m : set[n] \in S
  BY <1>1
<1>3. HeaderChunks(x, pos) = heads \o bodies
  BY DEF HeaderChunks
<1> HIDE DEF set
<1>4. \A i \in HeaderIndexes : x.headers[i] \in Seq(Units) /\ Len(x.headers[i]) \in Nat
  BY DEF Writers, WriterRecords
<1>5. bodies \in Seq(Seq(Units)) /\ Len(bodies) = m /\ \A n \in 1 .. m : bodies[n] = x.headers[set[n]]
  <2>1. \A n \in 1 .. m : bodies[n] = x.headers[set[n]] /\ bodies[n] \in Seq(Units)
    BY <1>1, <1>2, <1>4
  <2>2. bodies = [n \in 1 .. m |-> bodies[n]]
    BY <1>1
  <2> HIDE DEF bodies, m
  <2> QED BY <2>1, <2>2, <1>1, IsSeq
<1>6. \A n \in 1 .. m : sizes[n] = Len(bodies[n]) /\ sizes[n] \in Nat
  BY <1>1, <1>2, <1>4
<1>7. Lens(bodies) = sizes
  BY <1>1 DEF Lens
<1> HIDE DEF sizes
<1>8. \A n \in 1 .. m + 1 : SizesBefore(sizes, n) \in Nat
  BY <1>1, <1>6, SumNat
<1>9. FirstHeaderOffset(x, pos) = pos + m
  BY DEF FirstHeaderOffset, set
<1> HIDE DEF m
<1> DEFINE at(n) == pos + m + SizesBefore(sizes, n)
<1>10. ASSUME NEW n \in 1 .. m
       PROVE  /\ at(n) \in Nat
              /\ heads[n] = <<Unit("section", <<at(n), sizes[n]>>)>>
              /\ heads[n] \in Seq(Units) /\ Len(heads[n]) = 1
              /\ heads[n][1] = Unit("section", <<at(n), sizes[n]>>)
  <2>1. at(n) \in Nat /\ sizes[n] \in Nat
    <3>1. SizesBefore(sizes, n) \in Nat
      <4>1. n \in 1 .. m + 1
        BY <1>1
      <4> QED BY <4>1, <1>8
    <3>2. m \in Nat /\ sizes[n] \in Nat
      BY <1>1, <1>6
    <3> QED BY <3>1, <3>2
  <2>2. heads[n] = <<Unit("section", <<at(n), sizes[n]>>)>>
    BY <1>1, <1>9
  <2> HIDE DEF at, heads
  <2>4. <<Unit("section", <<at(n), sizes[n]>>)>> \in Seq(Units)
    BY <2>1, SectionUnit
  <2> QED BY <2>1, <2>2, <2>4
<1>11. heads \in Seq(Seq(Units)) /\ Len(heads) = m
  <2>1. heads = [n \in 1 .. m |-> heads[n]]
    BY <1>1
  <2>2. \A n \in 1 .. m : heads[n] \in Seq(Units)
    BY <1>10
  <2> HIDE DEF heads
  <2> QED BY <2>1, <2>2, <1>1, IsSeq
<1> HIDE DEF heads, bodies
<1>12. \A k \in 1 .. Len(heads) : Len(heads[k]) = 1
  BY <1>10, <1>11
<1>13. /\ heads \o bodies \in Seq(Seq(Units))
       /\ ChunkUnits(heads \o bodies) = m + ChunkUnits(bodies)
       /\ ChunkUnits(bodies) = SizesBefore(sizes, m + 1)
  <2>1. ChunkUnits(bodies) = SizesBefore(sizes, m + 1)
    BY <1>5, <1>7, LensType
  <2>2. heads \o bodies \in Seq(Seq(Units))
        /\ ChunkUnits(heads \o bodies) = m + ChunkUnits(bodies)
    BY <1>5, <1>11, <1>12, HeadsThenBodies
  <2> QED BY <2>1, <2>2
<1>14. ChunkUnits(heads \o bodies) \in Nat
  BY <1>13, <1>8, <1>1
<1>15. ASSUME NEW d, Holds(d, pos, heads \o bodies, Len(heads \o bodies)),
              NEW i \in HeaderIndexes, x.headers[i] # <<>>
       PROVE  SetBelow(x, i) \in Nat /\ \E o \in Nat : HeaderAt(d, x, pos, i, o)
  <2> DEFINE n == SetBelow(x, i) + 1
  <2>1. i \in S
    BY <1>15
  <2>2. n \in 1 .. m /\ set[n] = i
    BY <2>1, <1>1
  <2>3. SetBelow(x, i) \in Nat
    <3>1. Cardinality(Below(S, i)) \in Nat
      <4>1. S \in SUBSET Int /\ IsFiniteSet(S)
        BY SetHeadersFinite
      <4>2. Below(S, i) \in SUBSET S
        BY DEF Below
      <4> HIDE DEF S
      <4> QED BY <4>1, <4>2, FS_Subset, FS_CardinalityType
    <3> QED BY <3>1 DEF SetBelow
  <2>4. /\ \A k \in 1 .. m : d[pos + k] = heads[k][1]
        /\ Holds(d, pos + m, bodies, m)
    <3>1. /\ \A k \in 1 .. Len(heads) : d[pos + k] = heads[k][1]
          /\ Holds(d, pos + Len(heads), bodies, Len(bodies))
      BY <1>5, <1>11, <1>12, <1>15, HeadsThenBodies
    <3> QED BY <3>1, <1>5, <1>11
  <2>5. bodies[n] = x.headers[i] /\ sizes[n] = Len(x.headers[i])
    BY <2>2, <1>5, <1>6
  <2>6. d[pos + SetBelow(x, i) + 1] = Unit("section", <<at(n), Len(x.headers[i])>>)
    <3>1. pos + SetBelow(x, i) + 1 = pos + n
      BY <2>3
    <3>2. d[pos + n] = heads[n][1]
      BY <2>2, <2>4
    <3> QED BY <3>1, <3>2, <2>2, <2>5, <1>10
  <2>7. \A j \in 1 .. Len(x.headers[i]) : d[at(n) + j] = x.headers[i][j]
    BY <2>2, <2>4, <2>5, <1>7 DEF Holds, ChunkAt
  <2>8. SizesBefore(sizes, n) + sizes[n] <= SizesBefore(sizes, m + 1) /\ SizesBefore(sizes, n) \in Nat
    <3>1. m + 1 \in n + 1 .. m + 1 /\ n \in 1 .. m + 1
      BY <1>1, <2>2
    <3>2. \A k \in 1 .. m : sizes[k] \in Nat
      BY <1>6
    <3> HIDE DEF n
    <3> QED BY <3>1, <3>2, <1>1, <1>8, <2>2, SumGrows
  <2>9. /\ pos + SetBelow(x, i) < at(n)
        /\ at(n) + Len(x.headers[i]) <= pos + ChunkUnits(heads \o bodies)
    <3>1. sizes[n] \in Nat /\ SizesBefore(sizes, m + 1) \in Nat /\ m \in Nat
      BY <1>1, <1>6, <1>8, <2>2
    <3>2. SetBelow(x, i) < m
      BY <2>2, <2>3, <3>1
    <3> HIDE DEF n
    <3>3. pos + SetBelow(x, i) < at(n)
      BY <2>3, <2>8, <3>1, <3>2
    <3>4. at(n) + Len(x.headers[i]) <= pos + ChunkUnits(heads \o bodies)
      BY <2>5, <2>8, <3>1, <1>13, SMTT(30)
    <3> QED BY <3>3, <3>4
  <2>10. at(n) \in Nat
    BY <2>2, <1>10
  <2> HIDE DEF n, at
  <2>11. HeaderAt(d, x, pos, i, at(n))
    BY <2>6, <2>7, <2>9, <1>3 DEF HeaderAt
  <2> QED BY <2>3, <2>10, <2>11
<1> QED BY <1>3, <1>13, <1>14, <1>15

(* Where the entry and the ids of description n are.                       *)
EntryAt(d, x, pos, n, o) ==
    /\ d[pos + 2 * n - 1] = Unit("attr", <<x.descs[n].attr>>)
    /\ d[pos + 2 * n] = Unit("section", <<o, Len(x.descs[n].ids)>>)
    /\ \A j \in 1 .. Len(x.descs[n].ids) : d[o + j] = Unit("id", <<x.descs[n].ids[j]>>)
    /\ o + Len(x.descs[n].ids) <= pos + ChunkUnits(AttrChunks(x, pos))
    /\ Len(x.descs[Len(x.descs)].ids) # 0 => o < pos + ChunkUnits(AttrChunks(x, pos))

LEMMA NumberUnit ==
  ASSUME NEW kind \in Kinds, NEW a \in Int
  PROVE  /\ Unit(kind, <<a>>) \in Units /\ <<Unit(kind, <<a>>)>> \in Seq(Units)
         /\ Unit(kind, <<a>>).k = kind /\ Unit(kind, <<a>>).v = <<a>>
<1> DEFINE v == <<a>>
<1>1. v \in Seq(Int)
  OBVIOUS
<1> HIDE DEF v
<1>2. /\ Unit(kind, v) \in Units /\ <<Unit(kind, v)>> \in Seq(Units)
      /\ Unit(kind, v).k = kind /\ Unit(kind, v).v = v
  BY <1>1, UnitType
<1> QED BY <1>2 DEF v

LEMMA IdUnitsType ==
  ASSUME NEW desc \in Descs
  PROVE  /\ IdUnits(desc) \in Seq(Units) /\ Len(IdUnits(desc)) = Len(desc.ids)
         /\ \A j \in 1 .. Len(desc.ids) : IdUnits(desc)[j] = Unit("id", <<desc.ids[j]>>)
<1>1. desc.ids \in Seq(Int) /\ Len(desc.ids) \in Nat /\ DOMAIN desc.ids = 1 .. Len(desc.ids)
  BY DEF Descs
<1>2. \A j \in 1 .. Len(desc.ids) : desc.ids[j] \in Int
  BY <1>1
<1>3. \A j \in 1 .. Len(desc.ids) : IdUnits(desc)[j] = Unit("id", <<desc.ids[j]>>)
  BY <1>1 DEF IdUnits
<1>4. \A j \in 1 .. Len(desc.ids) : IdUnits(desc)[j] \in Units
  <2>1. "id" \in Kinds
    BY DEF Kinds
  <2> QED BY <1>2, <1>3, <2>1, NumberUnit
<1>5. IdUnits(desc) = [j \in 1 .. Len(desc.ids) |-> IdUnits(desc)[j]]
  BY <1>1 DEF IdUnits
<1> QED BY <1>1, <1>3, <1>4, <1>5, IsSeq

LEMMA AttrLayout ==
  ASSUME NEW x \in Writers, NEW pos \in Nat
  PROVE  /\ AttrChunks(x, pos) \in Seq(Seq(Units))
         /\ ChunkUnits(AttrChunks(x, pos)) \in Nat
         /\ 2 * Len(x.descs) <= ChunkUnits(AttrChunks(x, pos))
         /\ \A d : Holds(d, pos, AttrChunks(x, pos), Len(AttrChunks(x, pos))) =>
               \A n \in 1 .. Len(x.descs) : \E o \in Nat : EntryAt(d, x, pos, n, o)
<1> DEFINE N == Len(x.descs)
           sizes == [n \in DOMAIN x.descs |-> Len(x.descs[n].ids)]
           at(n) == pos + 2 * N + SizesBefore(sizes, n)
           attr(n) == <<Unit("attr", <<x.descs[n].attr>>)>>
           section(n) == <<Unit("section", <<at(n), sizes[n]>>)>>
           heads == [k \in 1 .. 2 * N |-> IF k % 2 = 1 THEN attr((k + 1) \div 2) ELSE section(k \div 2)]
           bodies == [n \in DOMAIN x.descs |-> IdUnits(x.descs[n])]
<1>1. AttrChunks(x, pos) = heads \o bodies
  BY DEF AttrChunks, ENTRY_SIZE
<1>2. /\ N \in Nat /\ DOMAIN x.descs = 1 .. N
      /\ \A n \in 1 .. N : x.descs[n] \in Descs
  BY DEF Writers, WriterRecords
<1> HIDE DEF N
<1>3. \A n \in 1 .. N : /\ sizes[n] = Len(x.descs[n].ids) /\ sizes[n] \in Nat
                        /\ x.descs[n].attr \in Int
  BY <1>2 DEF Descs
<1>4. bodies \in Seq(Seq(Units)) /\ Len(bodies) = N
      /\ \A n \in 1 .. N : bodies[n] = IdUnits(x.descs[n]) /\ Len(bodies[n]) = sizes[n]
  <2>1. \A n \in 1 .. N : /\ bodies[n] = IdUnits(x.descs[n]) /\ bodies[n] \in Seq(Units)
                          /\ Len(bodies[n]) = sizes[n]
    BY <1>2, <1>3, IdUnitsType
  <2>2. bodies = [n \in 1 .. N |-> bodies[n]]
    BY <1>2
  <2> HIDE DEF bodies, sizes
  <2> QED BY <2>1, <2>2, <1>2, IsSeq
<1>5. Lens(bodies) = sizes
  <2>1. Lens(bodies) = [n \in 1 .. N |-> Len(bodies[n])] /\ sizes = [n \in 1 .. N |-> sizes[n]]
    BY <1>2 DEF Lens
  <2> HIDE DEF bodies, sizes
  <2> QED BY <2>1, <1>4
<1> HIDE DEF sizes, bodies
<1>6. \A n \in 1 .. N + 1 : SizesBefore(sizes, n) \in Nat
  BY <1>2, <1>3, SumNat
<1>7. \A n \in 1 .. N : at(n) \in Nat
  BY <1>2, <1>6
<1> HIDE DEF at
<1>8. \A n \in 1 .. N : /\ attr(n) \in Seq(Units) /\ Len(attr(n)) = 1
                        /\ section(n) \in Seq(Units) /\ Len(section(n)) = 1
  <2>1. "attr" \in Kinds
    BY DEF Kinds
  <2>2. \A n \in 1 .. N : attr(n) \in Seq(Units) /\ section(n) \in Seq(Units)
    BY <1>3, <1>7, <2>1, NumberUnit, SectionUnit
  <2> QED BY <2>2
<1>9. \A n \in 1 .. N : heads[2 * n - 1] = attr(n) /\ heads[2 * n] = section(n)
  <2> SUFFICES ASSUME NEW n \in 1 .. N PROVE heads[2 * n - 1] = attr(n) /\ heads[2 * n] = section(n)
    OBVIOUS
  <2>1. /\ 2 * n - 1 \in 1 .. 2 * N /\ (2 * n - 1) % 2 = 1 /\ ((2 * n - 1) + 1) \div 2 = n
        /\ 2 * n \in 1 .. 2 * N /\ (2 * n) % 2 # 1 /\ (2 * n) \div 2 = n
    <3>1. 2 * n - 1 \in 1 .. 2 * N /\ 2 * n \in 1 .. 2 * N /\ (2 * n - 1) + 1 = 2 * n
      BY <1>2
    <3>2. (2 * n) \div 2 = n /\ (2 * n) % 2 = 0
      OBVIOUS
    <3>3. (2 * n - 1) % 2 = 1
      OBVIOUS
    <3> QED BY <3>1, <3>2, <3>3
  <2> HIDE DEF attr, section
  <2> QED BY <2>1
<1> HIDE DEF attr, section
<1>10. heads \in Seq(Seq(Units)) /\ Len(heads) = 2 * N /\ \A k \in 1 .. 2 * N : Len(heads[k]) = 1
  <2>1. ASSUME NEW k \in 1 .. 2 * N PROVE heads[k] \in Seq(Units) /\ Len(heads[k]) = 1
    <3>1. CASE k % 2 = 1
      <4>1. (k + 1) \div 2 \in 1 .. N
        BY <1>2, <3>1
      <4>2. heads[k] = attr((k + 1) \div 2)
        BY <3>1
      <4> HIDE DEF heads
      <4> QED BY <4>1, <4>2, <1>8
    <3>2. CASE k % 2 # 1
      <4>1. k \div 2 \in 1 .. N
        BY <1>2, <3>2
      <4>2. heads[k] = section(k \div 2)
        BY <3>2
      <4> HIDE DEF heads
      <4> QED BY <4>1, <4>2, <1>8
    <3> QED BY <3>1, <3>2
  <2>2. heads = [k \in 1 .. 2 * N |-> heads[k]]
    OBVIOUS
  <2>3. 2 * N \in Nat
    BY <1>2
  <2> HIDE DEF heads
  <2>4. heads \in Seq(Seq(Units)) /\ Len(heads) = 2 * N
    BY <2>1, <2>2, <2>3, IsSeq
  <2> QED BY <2>1, <2>4
<1> HIDE DEF heads
<1>11. /\ heads \o bodies \in Seq(Seq(Units))
       /\ ChunkUnits(heads \o bodies) = 2 * N + SizesBefore(sizes, N + 1)
       /\ SizesBefore(sizes, N + 1) \in Nat
  <2>1. ChunkUnits(bodies) = SizesBefore(sizes, N + 1)
    BY <1>4, <1>5, LensType
  <2>2. heads \o bodies \in Seq(Seq(Units))
        /\ ChunkUnits(heads \o bodies) = 2 * N + ChunkUnits(bodies)
    BY <1>4, <1>10, HeadsThenBodies
  <2> QED BY <2>1, <2>2, <1>2, <1>6
<1>12. ASSUME NEW d, Holds(d, pos, heads \o bodies, Len(heads \o bodies)), NEW n \in 1 .. N
       PROVE  \E o \in Nat : EntryAt(d, x, pos, n, o)
  <2>1. /\ \A k \in 1 .. 2 * N : d[pos + k] = heads[k][1]
        /\ Holds(d, pos + 2 * N, bodies, N)
    <3>1. \A k \in 1 .. Len(heads) : Len(heads[k]) = 1
      BY <1>10
    <3>2. /\ \A k \in 1 .. Len(heads) : d[pos + k] = heads[k][1]
          /\ Holds(d, pos + Len(heads), bodies, Len(bodies))
      BY <1>4, <1>10, <1>12, <3>1, HeadsThenBodies
    <3> QED BY <3>2, <1>4, <1>10
  <2>2. d[pos + 2 * n - 1] = Unit("attr", <<x.descs[n].attr>>) /\ d[pos + 2 * n] = Unit("section", <<at(n), sizes[n]>>)
    <3>1. 2 * n - 1 \in 1 .. 2 * N /\ 2 * n \in 1 .. 2 * N /\ pos + (2 * n - 1) = pos + 2 * n - 1
      BY <1>2
    <3>2. heads[2 * n - 1][1] = Unit("attr", <<x.descs[n].attr>>)
          /\ heads[2 * n][1] = Unit("section", <<at(n), sizes[n]>>)
      BY <1>9 DEF attr, section
    <3>3. d[pos + (2 * n - 1)] = heads[2 * n - 1][1] /\ d[pos + 2 * n] = heads[2 * n][1]
      BY <2>1, <3>1
    <3> QED BY <3>1, <3>2, <3>3
  <2>3. \A j \in 1 .. Len(x.descs[n].ids) : d[at(n) + j] = Unit("id", <<x.descs[n].ids[j]>>)
    <3>1. \A j \in 1 .. Len(bodies[n]) : d[at(n) + j] = bodies[n][j]
      BY <2>1, <1>5 DEF Holds, ChunkAt, at
    <3>2. bodies[n] = IdUnits(x.descs[n]) /\ Len(bodies[n]) = Len(x.descs[n].ids) /\ x.descs[n] \in Descs
      BY <1>2, <1>3, <1>4
    <3> QED BY <3>1, <3>2, IdUnitsType
  <2>4. /\ SizesBefore(sizes, n) + sizes[n] <= SizesBefore(sizes, N + 1)
        /\ SizesBefore(sizes, n) \in Nat /\ sizes[n] \in Nat
    <3>1. N + 1 \in n + 1 .. N + 1 /\ n \in 1 .. N + 1
      BY <1>2
    <3>2. \A k \in 1 .. N : sizes[k] \in Nat
      BY <1>3
    <3> QED BY <3>1, <3>2, <1>2, <1>6, SumGrows
  <2>5. at(n) + Len(x.descs[n].ids) <= pos + ChunkUnits(heads \o bodies)
    BY <2>4, <1>2, <1>3, <1>11, SMTT(30) DEF at
  <2>6. ASSUME Len(x.descs[N].ids) # 0
        PROVE  at(n) < pos + ChunkUnits(heads \o bodies)
    <3>1. N \in 1 .. N /\ N \in Nat \ {0}
      BY <1>2
    <3>2. sizes[N] # 0 /\ sizes[N] \in Nat
      BY <2>6, <1>3, <3>1
    <3>3. SizesBefore(sizes, N + 1) = SizesBefore(sizes, N) + sizes[N]
      BY <3>1, SumNext
    <3>4. SizesBefore(sizes, n) < SizesBefore(sizes, N + 1)
      <4>1. CASE n = N
        BY <4>1, <3>2, <3>3, <2>4
      <4>2. CASE n # N
        <5>1. N \in n + 1 .. N + 1 /\ N \in 1 .. N + 1
          BY <4>2, <1>2
        <5>2. \A k \in 1 .. N : sizes[k] \in Nat
          BY <1>3
        <5>3. SizesBefore(sizes, n) + sizes[n] <= SizesBefore(sizes, N)
          BY <5>1, <5>2, <1>2, SumGrows
        <5>4. SizesBefore(sizes, N) \in Nat
          BY <5>1, <1>6
        <5> QED BY <5>3, <5>4, <2>4, <3>2, <3>3
      <4> QED BY <4>1, <4>2
    <3> QED BY <3>4, <2>4, <1>2, <1>11 DEF at
  <2>7. at(n) \in Nat /\ sizes[n] = Len(x.descs[n].ids)
    BY <1>3, <1>7
  <2>8. EntryAt(d, x, pos, n, at(n))
    BY <2>2, <2>3, <2>5, <2>6, <2>7, <1>1 DEF EntryAt, N
  <2> QED BY <2>7, <2>8
<1>13. ChunkUnits(heads \o bodies) \in Nat /\ 2 * N <= ChunkUnits(heads \o bodies)
  BY <1>2, <1>11
<1> QED BY <1>1, <1>11, <1>12, <1>13 DEF N

-----------------------------------------------------------------------------
(* What parse_header_event_desc makes of what synthesize_event_desc wrote. *)
LEMMA DescContentPoints ==
  ASSUME NEW desc \in Descs
  PROVE  /\ DescContent(desc) \in Seq(Units) /\ Len(DescContent(desc)) = 3 + Len(desc.ids)
         /\ DescContent(desc)[1] = Unit("attr", <<desc.attr>>)
         /\ DescContent(desc)[2] = Word(Len(desc.ids))
         /\ DescContent(desc)[3] = Unit("name", desc.name)
         /\ \A i \in 1 .. Len(desc.ids) : DescContent(desc)[3 + i] = Unit("id", <<desc.ids[i]>>)
         /\ Len(desc.ids) \in Nat
<1>1. desc.attr \in Int /\ desc.name \in Seq(Int) /\ desc.ids \in Seq(Int) /\ Len(desc.ids) \in Nat
  BY DEF Descs
<1> DEFINE a == <<Unit("attr", <<desc.attr>>), Word(Len(desc.ids)), Unit("name", desc.name)>>
           b == IdUnits(desc)
<1>2. /\ Unit("attr", <<desc.attr>>) \in Units /\ Word(Len(desc.ids)) \in Units
      /\ Unit("name", desc.name) \in Units
  <2>1. "attr" \in Kinds /\ "word" \in Kinds /\ "name" \in Kinds
    BY DEF Kinds
  <2>2. Unit("attr", <<desc.attr>>) \in Units
    BY <1>1, <2>1, NumberUnit
  <2>3. Word(Len(desc.ids)) \in Units
    BY <1>1, <2>1, NumberUnit DEF Word
  <2>4. Unit("name", desc.name) \in Units
    BY <1>1, <2>1, UnitType
  <2> QED BY <2>2, <2>3, <2>4
<1>3. /\ a \in Seq(Units) /\ Len(a) = 3
      /\ a[1] = Unit("attr", <<desc.attr>>) /\ a[2] = Word(Len(desc.ids))
      /\ a[3] = Unit("name", desc.name)
  BY <1>2
<1>4. /\ b \in Seq(Units) /\ Len(b) = Len(desc.ids)
      /\ \A j \in 1 .. Len(desc.ids) : b[j] = Unit("id", <<desc.ids[j]>>)
  BY IdUnitsType
<1>5. DescContent(desc) = a \o b
  BY DEF DescContent
<1> HIDE DEF a, b
<1>6. /\ a \o b \in Seq(Units) /\ Len(a \o b) = Len(a) + Len(b)
      /\ \A i \in 1 .. Len(a) : (a \o b)[i] = a[i]
      /\ \A i \in 1 .. Len(b) : (a \o b)[Len(a) + i] = b[i]
  <2>1. a \in Seq(Units) /\ b \in Seq(Units)
    BY <1>3, <1>4
  <2> QED BY ONLY <2>1, JoinPoints
<1> QED BY <1>1, <1>3, <1>4, <1>5, <1>6, SMTT(30)

DescRecord(desc) == [attr |-> desc.attr, name |-> desc.name, ids |-> desc.ids]

LEMMA ParseDescStep ==
  ASSUME NEW desc \in Descs, NEW c, NEW acc, acc.pos \in Nat, Len(c) \in Nat,
         acc.pos + Len(DescContent(desc)) <= Len(c),
         \A j \in 1 .. Len(DescContent(desc)) : c[acc.pos + j] = DescContent(desc)[j]
  PROVE  ParseDesc(c, acc) =
            IF Readable(desc) THEN [pos |-> acc.pos + Len(DescContent(desc)),
                                    descs |-> Append(acc.descs, DescRecord(desc))]
            ELSE acc
<1> DEFINE ids == desc.ids
           p == acc.pos
<1>1. ids \in Seq(Int) /\ Len(ids) \in Nat /\ desc.attr \in Int /\ desc.name \in Seq(Int)
      /\ (\A i \in 1 .. Len(ids) : ids[i] \in Int) /\ ids = [i \in 1 .. Len(ids) |-> ids[i]]
  BY DEF Descs
<1>2. /\ Len(DescContent(desc)) = 3 + Len(ids)
      /\ DescContent(desc)[1] = Unit("attr", <<desc.attr>>)
      /\ DescContent(desc)[2] = Word(Len(ids))
      /\ DescContent(desc)[3] = Unit("name", desc.name)
      /\ \A i \in 1 .. Len(ids) : DescContent(desc)[3 + i] = Unit("id", <<ids[i]>>)
  BY DescContentPoints
<1>0. /\ p \in Nat /\ p + Len(DescContent(desc)) <= Len(c)
      /\ \A j \in 1 .. Len(DescContent(desc)) : c[p + j] = DescContent(desc)[j]
  OBVIOUS
<1> HIDE DEF ids, p
<1>3. c[p + 1].v[1] = desc.attr /\ c[p + 2].v[1] = Len(ids) /\ c[p + 3].v = desc.name
  <2>1. 1 \in 1 .. 3 + Len(ids) /\ 2 \in 1 .. 3 + Len(ids) /\ 3 \in 1 .. 3 + Len(ids)
    BY <1>1
  <2>2. c[p + 1] = Unit("attr", <<desc.attr>>) /\ c[p + 2] = Word(Len(ids))
        /\ c[p + 3] = Unit("name", desc.name)
    BY <1>0, <1>2, <2>1
  <2> QED BY <2>2 DEF Unit, Word
<1>4. \A i \in 1 .. Len(ids) : c[p + 3 + i].v[1] = ids[i]
  <2> SUFFICES ASSUME NEW i \in 1 .. Len(ids) PROVE c[p + 3 + i].v[1] = ids[i]
    OBVIOUS
  <2>1. 3 + i \in 1 .. 3 + Len(ids) /\ p + (3 + i) = p + 3 + i
    <3>1. Len(ids) \in Nat
      BY <1>1
    <3> QED BY <1>0, <3>1
  <2>2. c[p + (3 + i)] = Unit("id", <<ids[i]>>)
    BY <1>0, <1>2, <2>1
  <2> QED BY <2>1, <2>2 DEF Unit
<1>5. [i \in 1 .. Len(ids) |-> c[p + 3 + i].v[1]] = ids
  BY <1>1, <1>4
<1>6. ~ (p + 2 >= Len(c)) /\ ~ (p + 3 + Len(ids) > Len(c)) /\ p + 3 + Len(ids) = p + Len(DescContent(desc))
  <2>1. Len(ids) \in Nat /\ Len(DescContent(desc)) = 3 + Len(ids)
    BY <1>1, <1>2
  <2> QED BY <2>1, <1>0
<1>7. ~ (StringSize(c[p + 3].v) > STRING_LIMIT)
  <2> DEFINE m == Len(desc.name)
  <2>1. m \in Nat /\ m < NAME_MAX_SIZE
    BY DEF Descs
  <2> HIDE DEF m
  <2>2. m + (8 - (m % 8)) <= NAME_MAX_SIZE
    BY <2>1, WriterAssumption
  <2>3. m + (8 - (m % 8)) \in Int /\ NAME_MAX_SIZE \in Int /\ STRING_LIMIT = NAME_MAX_SIZE
    BY <2>1, WriterAssumption
  <2>4. StringSize(c[p + 3].v) = m + (8 - (m % 8))
    BY <1>3 DEF StringSize, m
  <2> QED BY <2>2, <2>3, <2>4
<1>8. ParseDesc(c, acc) =
         IF \/ p + 2 >= Len(c)
            \/ ~ FullSize(desc.attr)
            \/ Len(ids) > IDS_LIMIT \/ StringSize(c[p + 3].v) > STRING_LIMIT
            \/ p + 3 + Len(ids) > Len(c)
         THEN acc
         ELSE [pos |-> p + 3 + Len(ids),
               descs |-> Append(acc.descs, [attr |-> desc.attr, name |-> desc.name, ids |-> ids])]
  BY <1>3, <1>5 DEF ParseDesc, p
<1>9. Readable(desc) <=> FullSize(desc.attr) /\ ~ (Len(ids) > IDS_LIMIT)
  <2>1. Len(ids) \in Int /\ IDS_LIMIT \in Int
    BY <1>1, WriterAssumption
  <2>2. (Len(ids) <= IDS_LIMIT) <=> ~ (Len(ids) > IDS_LIMIT)
    BY <2>1
  <2> QED BY <2>2 DEF Readable, ids
<1> HIDE DEF StringSize
<1> QED BY <1>6, <1>7, <1>8, <1>9 DEF DescRecord, ids, p

DescsRead(descs, read, k) ==
    /\ read = [n \in 1 .. k |-> DescRecord(descs[n])]
    /\ \A n \in 1 .. k : Readable(descs[n])
    /\ k # Len(descs) => ~ Readable(descs[k + 1])

LEMMA EventDescParsed ==
  ASSUME NEW descs \in Seq(Descs)
  PROVE  LET c == <<Word(Len(descs))>> \o FlattenSeq([i \in DOMAIN descs |-> DescContent(descs[i])])
         IN  c \in Seq(Units) /\ c # <<>>
             /\ \E k \in 0 .. Len(descs) : DescsRead(descs, ParseEventDesc(c), k)
<1> DEFINE N == Len(descs)
           parts == [i \in DOMAIN descs |-> DescContent(descs[i])]
           flat == FlattenSeq(parts)
           c == <<Word(N)>> \o flat
           L == Lens(parts)
           pos(n) == 1 + SizesBefore(L, n + 1)
           G(n) == [pos |-> pos(n), descs |-> [k \in 1 .. n |-> DescRecord(descs[k])]]
<1>1. N \in Nat /\ DOMAIN descs = 1 .. N /\ \A n \in 1 .. N : descs[n] \in Descs
  OBVIOUS
<1>2. parts \in Seq(Seq(Units)) /\ Len(parts) = N /\ \A n \in 1 .. N : parts[n] = DescContent(descs[n])
  <2>1. \A n \in 1 .. N : parts[n] = DescContent(descs[n]) /\ parts[n] \in Seq(Units)
    BY <1>1, DescContentPoints
  <2>2. parts = [n \in 1 .. N |-> parts[n]]
    BY <1>1
  <2> HIDE DEF parts
  <2> QED BY <2>1, <2>2, <1>1, IsSeq
<1> HIDE DEF parts
<1>3. /\ \A n \in 1 .. N : L[n] = Len(DescContent(descs[n])) /\ L[n] \in Nat
      /\ \A n \in 1 .. N + 1 : SizesBefore(L, n) \in Nat
      /\ ChunkUnits(parts) = SizesBefore(L, N + 1)
  BY <1>2, LensType
<1>4. /\ flat \in Seq(Units) /\ Len(flat) = SizesBefore(L, N + 1)
      /\ \A n \in 1 .. N : \A j \in 1 .. Len(DescContent(descs[n])) :
            flat[0 + SizesBefore(L, n) + j] = DescContent(descs[n])[j]
  <2>1. flat \in Seq(Units) /\ Len(flat) = ChunkUnits(parts) /\ Holds(flat, 0, parts, N)
    BY <1>2, FlattenPoints
  <2> QED BY <2>1, <1>2, <1>3 DEF Holds, ChunkAt
<1> HIDE DEF flat, L
<1>5. Word(N) \in Units /\ Word(N).v = <<N>>
  BY <1>1, NumberUnit DEF Word, Kinds
<1>6. /\ c \in Seq(Units) /\ Len(c) = 1 + SizesBefore(L, N + 1) /\ c[1] = Word(N)
      /\ \A i \in 1 .. Len(flat) : c[1 + i] = flat[i]
  <2>1. <<Word(N)>> \in Seq(Units) /\ Len(<<Word(N)>>) = 1 /\ <<Word(N)>>[1] = Word(N)
    BY <1>5
  <2>2. /\ c \in Seq(Units) /\ Len(c) = Len(<<Word(N)>>) + Len(flat)
        /\ \A i \in 1 .. Len(<<Word(N)>>) : c[i] = <<Word(N)>>[i]
        /\ \A i \in 1 .. Len(flat) : c[Len(<<Word(N)>>) + i] = flat[i]
    BY <2>1, <1>4, JoinPoints
  <2> HIDE DEF c
  <2> QED BY <2>1, <2>2, <1>4
<1> HIDE DEF c
<1>7. c # <<>> /\ c[1].v[1] = N /\ Len(c) \in Nat
  BY <1>1, <1>3, <1>5, <1>6
<1>8. ASSUME NEW n \in 1 .. N
      PROVE  ParseDesc(c, G(n - 1)) = IF Readable(descs[n]) THEN G(n) ELSE G(n - 1)
  <2> DEFINE acc == G(n - 1)
             desc == descs[n]
  <2>1. acc.pos = 1 + SizesBefore(L, n) /\ acc.descs = [k \in 1 .. n - 1 |-> DescRecord(descs[k])]
    BY <1>1
  <2>2. desc \in Descs /\ L[n] = Len(DescContent(desc)) /\ L[n] \in Nat /\ SizesBefore(L, n) \in Nat
        /\ SizesBefore(L, N + 1) \in Nat
    BY <1>1, <1>3
  <2>3. SizesBefore(L, n + 1) = SizesBefore(L, n) + L[n]
    <3>1. n \in Nat \ {0}
      BY <1>1
    <3> QED BY <3>1, SumNext
  <2>4. SizesBefore(L, n) + L[n] <= SizesBefore(L, N + 1)
    <3>1. N + 1 \in n + 1 .. N + 1 /\ \A k \in 1 .. N : L[k] \in Nat
      BY <1>1, <1>3
    <3> HIDE DEF N
    <3> QED BY <3>1, <1>1, SumGrows
  <2> HIDE DEF acc
  <2>5. ASSUME NEW j \in 1 .. Len(DescContent(desc))
        PROVE  c[acc.pos + j] = DescContent(desc)[j]
    <3> DEFINE i == 0 + SizesBefore(L, n) + j
    <3>1. i \in 1 .. Len(flat) /\ 1 + i = acc.pos + j
      <4>1. j \in 1 .. L[n]
        BY <2>2
      <4>2. Len(flat) = SizesBefore(L, N + 1)
        BY <1>4
      <4> HIDE DEF N
      <4> QED BY <2>1, <2>2, <2>4, <4>1, <4>2
    <3>2. flat[i] = DescContent(desc)[j]
      BY <1>4
    <3> HIDE DEF i
    <3> QED BY <3>1, <3>2, <1>6
  <2>6. acc.pos \in Nat /\ acc.pos + Len(DescContent(desc)) <= Len(c)
    BY <2>1, <2>2, <2>4, <1>6, SMTT(30)
  <2> HIDE DEF desc
  <2>7. ParseDesc(c, acc) =
           IF Readable(desc) THEN [pos |-> acc.pos + Len(DescContent(desc)),
                                   descs |-> Append(acc.descs, DescRecord(desc))]
           ELSE acc
    <3>1. desc \in Descs /\ Len(c) \in Nat
      BY <2>2, <1>7
    <3> QED BY ONLY <3>1, <2>5, <2>6, ParseDescStep
  <2>8. acc.pos + Len(DescContent(desc)) = pos(n)
    BY <2>1, <2>2, <2>3
  <2>9. Append(acc.descs, DescRecord(desc)) = [k \in 1 .. n |-> DescRecord(descs[k])]
    <3> DEFINE D == [k \in 1 .. n - 1 |-> DescRecord(descs[k])]
    <3>1. n - 1 \in Nat /\ D = [k \in 1 .. n - 1 |-> D[k]]
      BY <1>1
    <3>2. \A k \in 1 .. n - 1 : D[k] = DescRecord(descs[k])
      OBVIOUS
    <3> HIDE DEF D
    <3>3. D \in Seq({DescRecord(descs[k]) : k \in 1 .. n}) /\ Len(D) = n - 1
      BY <3>1, <3>2, IsSeq, SMTT(30)
    <3>4. Append(D, DescRecord(desc)) = [k \in 1 .. n |-> DescRecord(descs[k])]
      BY <3>1, <3>2, <3>3 DEF desc
    <3> QED BY <2>1, <3>4 DEF D
  <2>10. G(n) = [pos |-> pos(n), descs |-> [k \in 1 .. n |-> DescRecord(descs[k])]]
    OBVIOUS
  <2> HIDE DEF G
  <2> QED BY <2>7, <2>8, <2>9, <2>10 DEF acc, desc
<1>9. G(0) = [pos |-> 1, descs |-> <<>>]
  <2>1. SizesBefore(L, 0 + 1) = 0
    BY SumFirst
  <2> QED BY <2>1
<1> HIDE DEF G
<1> DEFINE Bad == {n \in 1 .. N : ~ Readable(descs[n])}
           last == IF Bad = {} THEN N ELSE Min(Bad) - 1
           H(n) == IF n <= last THEN G(n) ELSE G(last)
<1>20. /\ last \in 0 .. N /\ \A n \in 1 .. last : Readable(descs[n])
       /\ last # N => ~ Readable(descs[last + 1])
  <2>1. CASE Bad = {}
    BY <2>1, <1>1
  <2>2. CASE Bad # {}
    <3> DEFINE m == Min(Bad)
    <3>1. m \in Bad /\ \A y \in Bad : m <= y
      <4>1. Bad \in SUBSET Nat
        BY <1>1
      <4> HIDE DEF Bad
      <4> QED BY <2>2, <4>1, NatMin
    <3>2. last = m - 1
      BY <2>2
    <3> HIDE DEF m, last
    <3>3. m \in 1 .. N /\ ~ Readable(descs[m])
      BY <3>1
    <3>4. ASSUME NEW n \in 1 .. last PROVE Readable(descs[n])
      <4>1. n \in 1 .. N /\ ~ (m <= n)
        BY <3>2, <3>3, <1>1
      <4> QED BY <4>1, <3>1
    <3>5. last \in 0 .. N /\ last + 1 = m
      BY <3>2, <3>3, <1>1
    <3> QED BY <3>3, <3>4, <3>5
  <2> QED BY <2>1, <2>2
<1> HIDE DEF last, Bad
<1>21. ASSUME NEW n \in 1 .. N PROVE ParseDesc(c, H(n - 1)) = H(n)
  <2>0. N \in Nat /\ last \in 0 .. N
    BY <1>1, <1>20
  <2> HIDE DEF N
  <2>1. CASE n <= last
    <3>1. n - 1 <= last /\ n \in 1 .. last
      BY <2>0, <2>1
    <3>2. Readable(descs[n])
      BY <3>1, <1>20
    <3>3. H(n - 1) = G(n - 1) /\ H(n) = G(n)
      BY <2>1, <3>1
    <3> QED BY <3>2, <3>3, <1>8
  <2>2. CASE ~ (n <= last)
    <3>1. H(n - 1) = G(last)
      <4>1. CASE n - 1 = last
        BY <4>1, <2>0
      <4>2. CASE n - 1 # last
        <5>1. ~ (n - 1 <= last)
          BY <4>2, <2>2, <2>0
        <5> QED BY <5>1
      <4> QED BY <4>1, <4>2
    <3>2. H(n) = G(last)
      BY <2>2
    <3>3. last + 1 \in 1 .. N /\ (last + 1) - 1 = last /\ last # N
      BY <2>0, <2>2
    <3>4. ~ Readable(descs[last + 1])
      BY <3>3, <1>20
    <3>5. ParseDesc(c, G(last)) = G(last)
      BY <3>3, <3>4, <1>8
    <3> QED BY <3>1, <3>2, <3>5
  <2> QED BY <2>1, <2>2
<1>22. H(0) = [pos |-> 1, descs |-> <<>>] /\ H(N) = G(last)
  <2>1. N \in Nat /\ last \in 0 .. N
    BY <1>1, <1>20
  <2> HIDE DEF N
  <2>2. 0 <= last /\ (N <= last => N = last)
    BY <2>1
  <2> QED BY <2>2, <1>9
<1> HIDE DEF H
<1> DEFINE Table(g) == g = [n \in 0 .. N |-> IF n = 0 THEN [pos |-> 1, descs |-> <<>>]
                                             ELSE ParseDesc(c, g[n - 1])]
           after == CHOOSE g : Table(g)
<1>10. ParseEventDesc(c) = after[N].descs
  BY <1>7 DEF ParseEventDesc
<1>11. Table([n \in 0 .. N |-> H(n)])
  <2> DEFINE g == [n \in 0 .. N |-> H(n)]
  <2>1. ASSUME NEW n \in 0 .. N
        PROVE  g[n] = IF n = 0 THEN [pos |-> 1, descs |-> <<>>] ELSE ParseDesc(c, g[n - 1])
    <3>1. CASE n = 0
      BY <3>1, <1>22
    <3>2. CASE n # 0
      <4>1. n \in 1 .. N /\ n - 1 \in 0 .. N
        BY <3>2, <1>1
      <4>2. g[n] = H(n) /\ g[n - 1] = H(n - 1)
        BY <4>1
      <4> QED BY <3>2, <4>1, <4>2, <1>21
    <3> QED BY <3>1, <3>2
  <2>2. g = [n \in 0 .. N |-> g[n]]
    OBVIOUS
  <2> HIDE DEF g
  <2>3. Table(g)
    BY <2>1, <2>2
  <2> QED BY <2>3 DEF g
<1>12. Table(after)
  <2> HIDE DEF Table
  <2> QED BY <1>11
<1> HIDE DEF after
<1>13. \A n \in 0 .. N : after[n] = IF n = 0 THEN [pos |-> 1, descs |-> <<>>] ELSE ParseDesc(c, after[n - 1])
  BY <1>12
<1> HIDE DEF Table
<1> DEFINE T == {n \in Nat : n <= N => after[n] = H(n)}
<1>14. 0 \in T
  BY <1>1, <1>22, <1>13
<1>15. ASSUME NEW n \in Nat, n \in T PROVE n + 1 \in T
  <2> SUFFICES ASSUME n + 1 <= N PROVE after[n + 1] = H(n + 1)
    OBVIOUS
  <2>1. n + 1 \in 0 .. N /\ n + 1 # 0 /\ (n + 1) - 1 = n /\ n + 1 \in 1 .. N /\ n <= N
    BY <1>1
  <2>2. after[n + 1] = ParseDesc(c, after[n])
    BY <2>1, <1>13
  <2>3. after[n] = H(n) /\ ParseDesc(c, H(n)) = H(n + 1)
    BY <2>1, <1>15, <1>21
  <2> QED BY <2>2, <2>3
<1> HIDE DEF T
<1>16. N \in T
  BY <1>1, <1>14, <1>15, NatSet
<1>17. after[N] = G(last)
  BY <1>1, <1>16, <1>22 DEF T
<1>18. DescsRead(descs, ParseEventDesc(c), last)
  <2>1. ParseEventDesc(c) = [n \in 1 .. last |-> DescRecord(descs[n])]
    BY <1>10, <1>17 DEF G
  <2> QED BY <2>1, <1>20 DEF DescsRead
<1> QED BY <1>6, <1>7, <1>18, <1>20 DEF c, flat, parts

-----------------------------------------------------------------------------
(* What parse_tracing_data makes of what synthesize_tracing_data wrote.    *)
PartsAt(r, a, b, c, d, e) ==
    /\ Len(r) = Len(a) + Len(b) + Len(c) + Len(d) + Len(e)
    /\ \A i \in 1 .. Len(a) : r[i] = a[i]
    /\ \A i \in 1 .. Len(b) : r[Len(a) + i] = b[i]
    /\ \A i \in 1 .. Len(c) : r[Len(a) + Len(b) + i] = c[i]
    /\ \A i \in 1 .. Len(d) : r[Len(a) + Len(b) + Len(c) + i] = d[i]
    /\ \A i \in 1 .. Len(e) : r[Len(a) + Len(b) + Len(c) + Len(d) + i] = e[i]

LEMMA FiveParts ==
  ASSUME NEW S, NEW a \in Seq(S), NEW b \in Seq(S), NEW c \in Seq(S), NEW d \in Seq(S), NEW e \in Seq(S)
  PROVE  /\ a \o b \o c \o d \o e \in Seq(S)
         /\ PartsAt(a \o b \o c \o d \o e, a, b, c, d, e)
<1> DEFINE ab == a \o b
           abc == ab \o c
           abcd == abc \o d
           r == abcd \o e
<1>0. Len(a) \in Nat /\ Len(b) \in Nat /\ Len(c) \in Nat /\ Len(d) \in Nat /\ Len(e) \in Nat
  OBVIOUS
<1>1. /\ ab \in Seq(S) /\ Len(ab) = Len(a) + Len(b)
      /\ \A i \in 1 .. Len(a) : ab[i] = a[i]
      /\ \A i \in 1 .. Len(b) : ab[Len(a) + i] = b[i]
  BY JoinPoints
<1> HIDE DEF ab
<1>2. /\ abc \in Seq(S) /\ Len(abc) = Len(ab) + Len(c)
      /\ \A i \in 1 .. Len(ab) : abc[i] = ab[i]
      /\ \A i \in 1 .. Len(c) : abc[Len(ab) + i] = c[i]
  <2>1. ab \in Seq(S) /\ c \in Seq(S)
    BY <1>1
  <2> QED BY ONLY <2>1, JoinPoints
<1> HIDE DEF abc
<1>3. /\ abcd \in Seq(S) /\ Len(abcd) = Len(abc) + Len(d)
      /\ \A i \in 1 .. Len(abc) : abcd[i] = abc[i]
      /\ \A i \in 1 .. Len(d) : abcd[Len(abc) + i] = d[i]
  <2>1. abc \in Seq(S) /\ d \in Seq(S)
    BY <1>2
  <2> QED BY ONLY <2>1, JoinPoints
<1> HIDE DEF abcd
<1>4. /\ r \in Seq(S) /\ Len(r) = Len(abcd) + Len(e)
      /\ \A i \in 1 .. Len(abcd) : r[i] = abcd[i]
      /\ \A i \in 1 .. Len(e) : r[Len(abcd) + i] = e[i]
  <2>1. abcd \in Seq(S) /\ e \in Seq(S)
    BY <1>3
  <2> QED BY ONLY <2>1, JoinPoints
<1> HIDE DEF r
<1>5. /\ Len(abc) = Len(a) + Len(b) + Len(c)
      /\ Len(abcd) = Len(a) + Len(b) + Len(c) + Len(d)
      /\ Len(r) = Len(a) + Len(b) + Len(c) + Len(d) + Len(e)
  BY <1>0, <1>1, <1>2, <1>3, <1>4
<1>6. ASSUME NEW i \in 1 .. Len(abc) PROVE r[i] = abc[i]
  BY <1>0, <1>3, <1>4, <1>5
<1>7. ASSUME NEW i \in 1 .. Len(ab) PROVE r[i] = ab[i]
  BY <1>0, <1>1, <1>2, <1>5, <1>6
<1>8. ASSUME NEW i \in 1 .. Len(a) PROVE r[i] = a[i]
  <2>1. i \in 1 .. Len(ab)
    BY <1>0, <1>1
  <2> QED BY <2>1, <1>1, <1>7
<1>9. ASSUME NEW i \in 1 .. Len(b) PROVE r[Len(a) + i] = b[i]
  <2>1. Len(a) + i \in 1 .. Len(ab)
    BY <1>0, <1>1
  <2> QED BY <2>1, <1>1, <1>7
<1>10. ASSUME NEW i \in 1 .. Len(c) PROVE r[Len(a) + Len(b) + i] = c[i]
  <2>1. Len(ab) + i \in 1 .. Len(abc)
    BY <1>0, <1>1, <1>2
  <2> QED BY <2>1, <1>1, <1>2, <1>6
<1>11. ASSUME NEW i \in 1 .. Len(d) PROVE r[Len(a) + Len(b) + Len(c) + i] = d[i]
  <2>1. Len(abc) + i \in 1 .. Len(abcd)
    BY <1>0, <1>3, <1>5
  <2> QED BY <2>1, <1>3, <1>4, <1>5
<1>12. \A i \in 1 .. Len(e) : r[Len(a) + Len(b) + Len(c) + Len(d) + i] = e[i]
  BY <1>4, <1>5
<1>13. PartsAt(r, a, b, c, d, e)
  BY <1>5, <1>8, <1>9, <1>10, <1>11, <1>12 DEF PartsAt
<1> QED BY <1>4, <1>13 DEF ab, abc, abcd, r

OfOne(fs, s) == {f \in fs : f.system = s}

LEMMA FormatsFinite ==
  ASSUME NEW fs \in FormatSets, NEW s
  PROVE  /\ {f.system : f \in fs} \in SUBSET Int /\ IsFiniteSet({f.system : f \in fs})
         /\ {f.id : f \in OfOne(fs, s)} \in SUBSET Int /\ IsFiniteSet({f.id : f \in OfOne(fs, s)})
<1>1. fs \in SUBSET FormatRecords /\ IsFiniteSet(fs)
  BY DEF FormatSets
<1>2. \A f \in fs : f.id \in Int /\ f.system \in Int
  BY <1>1 DEF FormatRecords
<1>3. IsFiniteSet({f.system : f \in fs})
  <2> DEFINE T == {f.system : f \in fs}
             g == [f \in fs |-> f.system]
  <2>1. g \in Surjection(fs, T)
    BY DEF Surjection
  <2> HIDE DEF g, T
  <2>2. IsFiniteSet(T)
    BY <2>1, <1>1, FS_Surjection
  <2> QED BY <2>2 DEF T
<1>4. IsFiniteSet({f.id : f \in OfOne(fs, s)})
  <2> DEFINE O == OfOne(fs, s)
             T == {f.id : f \in O}
             g == [f \in O |-> f.id]
  <2>1. IsFiniteSet(O)
    <3>1. O \in SUBSET fs
      BY DEF OfOne
    <3> QED BY <3>1, <1>1, FS_Subset
  <2>2. g \in Surjection(O, T)
    BY DEF Surjection
  <2> HIDE DEF g, T, O
  <2>3. IsFiniteSet(T)
    BY <2>1, <2>2, FS_Surjection
  <2> QED BY <2>3 DEF T, O
<1> QED BY <1>2, <1>3, <1>4 DEF OfOne

LEMMA CommonIs ==
  ASSUME NEW fs \in FormatSets, NEW f \in fs
  PROVE  CommonOf(fs, f.id) = f.common /\ f.common \in Int
<1>1. OneEach(fs) /\ f \in FormatRecords
  BY DEF FormatSets
<1> DEFINE g == CHOOSE h \in fs : h.id = f.id
<1>2. g \in fs /\ g.id = f.id
  OBVIOUS
<1>3. g = f
  BY <1>1, <1>2 DEF OneEach
<1>4. CommonOf(fs, f.id) = g.common
  BY DEF CommonOf
<1> HIDE DEF g
<1> QED BY <1>1, <1>3, <1>4 DEF FormatRecords

(* A system's content names it and lists exactly its formats.              *)
Format(id, s, common) == [id |-> id, system |-> s, common |-> common]

SystemPoints(c, fs, s, n, ids, coms) ==
    /\ c \in Seq(Units) /\ Len(c) = 2 + n
    /\ c[1].v[1] = s
    /\ c[2].v[1] = n
    /\ \A i \in 1 .. n : c[2 + i].v[1] = ids[i] /\ c[2 + i].v[2] = coms[i]
    /\ \A i \in 1 .. n : Format(ids[i], s, coms[i]) \in OfOne(fs, s)
    /\ \A f \in OfOne(fs, s) : \E i \in 1 .. n : f = Format(ids[i], s, coms[i])

LEMMA SystemContentPoints ==
  ASSUME NEW fs \in FormatSets, NEW s \in Int
  PROVE  \E n \in Nat : \E ids, coms : SystemPoints(SystemContent(fs, s), fs, s, n, ids, coms)
<1> DEFINE I == {f.id : f \in OfOne(fs, s)}
           ids == OfSystem(fs, s)
           coms == [i \in DOMAIN ids |-> CommonOf(fs, ids[i])]
           n == Len(ids)
           a == <<Unit("name", <<s>>), Word(n)>>
           b == [i \in DOMAIN ids |-> Unit("format", <<ids[i], CommonOf(fs, ids[i])>>)]
<1>1. I \in SUBSET Int /\ IsFiniteSet(I)
  BY FormatsFinite
<1>2. ids = Ascending(I)
  BY DEF OfSystem, OfOne
<1>3. SystemContent(fs, s) = a \o b
  BY DEF SystemContent
<1> HIDE DEF I, ids
<1>4. n \in Nat /\ ids \in Seq(I) /\ n = Cardinality(I) /\ DOMAIN ids = 1 .. n
  BY <1>1, <1>2, AscendingRanks
<1>5. \A x \in I : \E i \in 1 .. n : ids[i] = x
  BY <1>1, <1>2, <1>4, AscendingRanks
<1>6. \A i \in 1 .. n : ids[i] \in I /\ ids[i] \in Int
  <2>1. \A i \in 1 .. n : ids[i] \in I
    BY <1>4
  <2> QED BY <2>1, <1>1
<1> HIDE DEF n
<1>7. "name" \in Kinds /\ "word" \in Kinds /\ "format" \in Kinds
  BY DEF Kinds
<1>8. Unit("name", <<s>>) \in Units /\ Word(n) \in Units
  BY <1>4, <1>7, NumberUnit DEF Word
<1>9. a \in Seq(Units) /\ Len(a) = 2 /\ a[1] = Unit("name", <<s>>) /\ a[2] = Word(n)
  BY <1>8
<1>18. \A i \in 1 .. n : coms[i] = CommonOf(fs, ids[i])
  BY <1>4
<1>19. ASSUME NEW i \in 1 .. n
       PROVE  Format(ids[i], s, coms[i]) \in OfOne(fs, s) /\ coms[i] \in Int
  <2>1. PICK f \in OfOne(fs, s) : f.id = ids[i]
    BY <1>6 DEF I
  <2>2. f \in fs /\ f \in FormatRecords /\ f.system = s
    BY <2>1 DEF OfOne, FormatSets
  <2>3. CommonOf(fs, f.id) = f.common /\ f.common \in Int
    BY <2>2, CommonIs
  <2>4. coms[i] = f.common
    BY <2>1, <2>3, <1>18
  <2>5. f = Format(ids[i], s, coms[i])
    BY <2>1, <2>2, <2>4 DEF FormatRecords, Format
  <2> QED BY <2>1, <2>3, <2>4, <2>5
<1>20. ASSUME NEW f \in OfOne(fs, s) PROVE \E i \in 1 .. n : f = Format(ids[i], s, coms[i])
  <2>1. f.id \in I
    BY DEF I
  <2>2. PICK i \in 1 .. n : ids[i] = f.id
    BY <2>1, <1>5
  <2>3. f \in fs /\ f \in FormatRecords /\ f.system = s
    BY DEF OfOne, FormatSets
  <2>4. coms[i] = f.common
    BY <2>2, <2>3, <1>18, CommonIs
  <2>5. f = Format(ids[i], s, coms[i])
    BY <2>2, <2>3, <2>4 DEF FormatRecords, Format
  <2> QED BY <2>5
<1>10. b \in Seq(Units) /\ Len(b) = n /\ \A i \in 1 .. n : b[i].v[1] = ids[i] /\ b[i].v[2] = coms[i]
  <2>1. ASSUME NEW i \in 1 .. n PROVE b[i] \in Units /\ b[i].v[1] = ids[i] /\ b[i].v[2] = coms[i]
    <3>1. b[i] = Unit("format", <<ids[i], coms[i]>>)
      BY <1>4, <1>18
    <3>2. ids[i] \in Int /\ coms[i] \in Int
      BY <1>6, <1>19
    <3> HIDE DEF b, coms
    <3> QED BY <3>1, <3>2, <1>7, PairUnit
  <2>2. b = [i \in 1 .. n |-> b[i]]
    BY <1>4
  <2> HIDE DEF b
  <2> QED BY <2>1, <2>2, <1>4, IsSeq
<1> HIDE DEF a, b, coms
<1>11. /\ a \o b \in Seq(Units) /\ Len(a \o b) = Len(a) + Len(b)
       /\ \A i \in 1 .. Len(a) : (a \o b)[i] = a[i]
       /\ \A i \in 1 .. Len(b) : (a \o b)[Len(a) + i] = b[i]
  <2>1. a \in Seq(Units) /\ b \in Seq(Units)
    BY <1>9, <1>10
  <2> QED BY ONLY <2>1, JoinPoints
<1>12. (a \o b)[1].v[1] = s /\ (a \o b)[2].v[1] = n
  BY <1>9, <1>11 DEF Unit, Word
<1>13. \A i \in 1 .. n : (a \o b)[2 + i].v[1] = ids[i] /\ (a \o b)[2 + i].v[2] = coms[i]
  BY <1>9, <1>10, <1>11
<1>15. Len(a \o b) = 2 + n
  BY <1>9, <1>10, <1>11
<1>16. n \in Nat
  BY <1>4
<1>17. SystemPoints(a \o b, fs, s, n, ids, coms)
  BY <1>11, <1>12, <1>13, <1>19, <1>20, <1>15 DEF SystemPoints
<1> QED BY <1>3, <1>16, <1>17

(* The common type that counts from a system on: the one that counted      *)
(* before it, else one of its own, if any is usable.                       *)
Counts(fs, before, k) ==
    /\ before # 0 => k = before
    /\ before = 0 => (k = 0 /\ \A f \in fs : f.common = 0) \/ (\E f \in fs : f.common = k /\ k # 0)

Chosen(fs, k) == {f \in fs : f.common = k /\ k # 0}

LEMMA ParseSystemStep ==
  ASSUME NEW fs \in FormatSets, NEW s \in Int, NEW c, NEW acc, acc.pos \in Nat, Len(c) \in Nat,
         acc.pos + Len(SystemContent(fs, s)) <= Len(c),
         \A j \in 1 .. Len(SystemContent(fs, s)) : c[acc.pos + j] = SystemContent(fs, s)[j]
  PROVE  \E k : /\ Counts(OfOne(fs, s), acc.common, k)
                /\ ParseSystem(c, acc) = [pos |-> acc.pos + Len(SystemContent(fs, s)), common |-> k,
                                          formats |-> acc.formats \cup Chosen(OfOne(fs, s), k)]
<1> DEFINE p == acc.pos
           C == SystemContent(fs, s)
           O == OfOne(fs, s)
<1>1. PICK n \in Nat : \E ids, coms : SystemPoints(C, fs, s, n, ids, coms)
  BY SystemContentPoints
<1>2. PICK ids, coms : SystemPoints(C, fs, s, n, ids, coms)
  BY <1>1
<1>3. /\ p \in Nat /\ p + Len(C) <= Len(c)
      /\ \A j \in 1 .. Len(C) : c[p + j] = C[j]
  OBVIOUS
<1> HIDE DEF p, C
<1>4. /\ Len(C) = 2 + n /\ C[1].v[1] = s /\ C[2].v[1] = n
      /\ \A i \in 1 .. n : C[2 + i].v[1] = ids[i] /\ C[2 + i].v[2] = coms[i]
      /\ \A i \in 1 .. n : Format(ids[i], s, coms[i]) \in O
      /\ \A f \in O : \E i \in 1 .. n : f = Format(ids[i], s, coms[i])
  BY <1>2 DEF SystemPoints
<1> HIDE DEF O
<1>5. c[p + 1].v[1] = s /\ c[p + 2].v[1] = n
  <2>1. 1 \in 1 .. Len(C) /\ 2 \in 1 .. Len(C)
    BY <1>4
  <2> QED BY <2>1, <1>3, <1>4
<1>6. \A i \in 1 .. n : c[p + 2 + i].v[1] = ids[i] /\ c[p + 2 + i].v[2] = coms[i]
  <2> SUFFICES ASSUME NEW i \in 1 .. n PROVE c[p + 2 + i].v[1] = ids[i] /\ c[p + 2 + i].v[2] = coms[i]
    OBVIOUS
  <2>1. 2 + i \in 1 .. Len(C) /\ p + (2 + i) = p + 2 + i
    BY <1>3, <1>4, SMTT(30)
  <2>2. c[p + (2 + i)] = C[2 + i]
    BY <1>3, <2>1
  <2>3. C[2 + i].v[1] = ids[i] /\ C[2 + i].v[2] = coms[i]
    BY <1>4, Zenon
  <2> QED BY ONLY <2>1, <2>2, <2>3
<1>8. ~ (p + 2 > Len(c)) /\ p + 2 + n = p + Len(C)
  BY <1>3, <1>4
<1> DEFINE m == c[p + 2].v[1]
           usable == {i \in 1 .. m : c[p + 2 + i].v[2] # 0}
           first == CHOOSE i \in usable : \A j \in usable : i <= j
           k == IF acc.common # 0 \/ usable = {} THEN acc.common ELSE c[p + 2 + first].v[2]
           new == {[id |-> c[p + 2 + i].v[1], system |-> c[p + 1].v[1], common |-> k] :
                      i \in {j \in usable : c[p + 2 + j].v[2] = k}}
<1>9. ParseSystem(c, acc) = [pos |-> p + 2 + n, common |-> k, formats |-> acc.formats \cup new]
  BY <1>5, <1>8 DEF ParseSystem, p
<1>10. usable = {i \in 1 .. n : coms[i] # 0}
  BY <1>5, <1>6
<1>11. usable # {} => first \in usable
  <2> SUFFICES ASSUME usable # {} PROVE first \in usable
    OBVIOUS
  <2>1. usable \in SUBSET Nat
    BY <1>10
  <2> HIDE DEF usable
  <2>2. \E i \in usable : \A j \in usable : i <= j
    BY <2>1, NatMin
  <2> QED BY <2>2
<1> HIDE DEF usable, first
<1>12. Counts(O, acc.common, k)
  <2>1. CASE acc.common # 0
    BY <2>1 DEF Counts
  <2>2. CASE acc.common = 0 /\ usable = {}
    <3>1. k = 0
      BY <2>2
    <3>2. ASSUME NEW f \in O PROVE f.common = 0
      <4>1. PICK i \in 1 .. n : f = Format(ids[i], s, coms[i])
        BY <1>4
      <4>2. coms[i] = 0
        BY <2>2, <1>10
      <4> QED BY <4>1, <4>2 DEF Format
    <3> HIDE DEF k
    <3> QED BY <2>2, <3>1, <3>2 DEF Counts
  <2>3. CASE acc.common = 0 /\ usable # {}
    <3>1. first \in 1 .. n /\ coms[first] # 0
      BY <2>3, <1>10, <1>11
    <3>2. k = coms[first]
      BY <2>3, <3>1, <1>6
    <3>3. Format(ids[first], s, coms[first]) \in O /\ Format(ids[first], s, coms[first]).common = coms[first]
      BY <3>1, <1>4 DEF Format
    <3> HIDE DEF k
    <3> QED BY <2>3, <3>1, <3>2, <3>3 DEF Counts
  <2> QED BY <2>1, <2>2, <2>3
<1>13. new = Chosen(O, k)
  <2> HIDE DEF k
  <2>1. ASSUME NEW g \in new PROVE g \in Chosen(O, k)
    <3>1. PICK i \in usable : /\ c[p + 2 + i].v[2] = k
                              /\ g = [id |-> c[p + 2 + i].v[1], system |-> c[p + 1].v[1], common |-> k]
      OBVIOUS
    <3>2. i \in 1 .. n /\ coms[i] # 0
      BY <1>10
    <3>3. g = Format(ids[i], s, coms[i]) /\ k = coms[i]
      BY <3>1, <3>2, <1>5, <1>6 DEF Format
    <3>4. g \in O /\ g.common = k /\ k # 0
      BY <3>2, <3>3, <1>4 DEF Format
    <3> QED BY <3>4 DEF Chosen
  <2>2. ASSUME NEW f \in Chosen(O, k) PROVE f \in new
    <3>1. f \in O /\ f.common = k /\ k # 0
      BY DEF Chosen
    <3>2. PICK i \in 1 .. n : f = Format(ids[i], s, coms[i])
      BY <3>1, <1>4
    <3>3. coms[i] = k /\ i \in usable
      BY <3>1, <3>2, <1>10 DEF Format
    <3>4. f = [id |-> c[p + 2 + i].v[1], system |-> c[p + 1].v[1], common |-> k] /\ c[p + 2 + i].v[2] = k
      BY <3>2, <3>3, <1>5, <1>6 DEF Format
    <3> QED BY <3>3, <3>4
  <2> HIDE DEF new
  <2> QED BY <2>1, <2>2
<1> HIDE DEF k, new
<1> QED BY <1>8, <1>9, <1>12, <1>13 DEF p, C, O

(* The loop over the systems, from wherever they begin in the content.     *)
SystemsContent(fs) ==
    [i \in DOMAIN SystemsOf(fs) |-> SystemContent(fs, SystemsOf(fs)[i])]

LEMMA SystemsType ==
  ASSUME NEW fs \in FormatSets
  PROVE  /\ SystemsOf(fs) \in Seq(Int) /\ Len(SystemsOf(fs)) \in Nat
         /\ \A f \in fs : \E k \in 1 .. Len(SystemsOf(fs)) : SystemsOf(fs)[k] = f.system
         /\ SystemsContent(fs) \in Seq(Seq(Units))
         /\ Len(SystemsContent(fs)) = Len(SystemsOf(fs))
         /\ \A k \in 1 .. Len(SystemsOf(fs)) :
               SystemsContent(fs)[k] = SystemContent(fs, SystemsOf(fs)[k])
<1> DEFINE S == {f.system : f \in fs}
           sys == SystemsOf(fs)
           M == Len(sys)
<1>1. S \in SUBSET Int /\ IsFiniteSet(S)
  BY FormatsFinite
<1>2. sys = Ascending(S)
  BY DEF SystemsOf
<1>3. \A f \in fs : f.system \in S
  OBVIOUS
<1> HIDE DEF S, sys
<1>4. sys \in Seq(S) /\ M \in Nat /\ M = Cardinality(S)
  BY <1>1, <1>2, AscendingRanks
<1>5. \A f \in fs : \E k \in 1 .. M : sys[k] = f.system
  BY <1>1, <1>2, <1>3, <1>4, AscendingRanks
<1>6. sys \in Seq(Int)
  BY <1>1, <1>4, SeqMonotonic
<1>7. DOMAIN sys = 1 .. M /\ \A k \in 1 .. M : sys[k] \in Int
  BY <1>6
<1> HIDE DEF M
<1> DEFINE parts == SystemsContent(fs)
<1>8. \A k \in 1 .. M : parts[k] = SystemContent(fs, sys[k]) /\ parts[k] \in Seq(Units)
  <2> SUFFICES ASSUME NEW k \in 1 .. M
               PROVE  parts[k] = SystemContent(fs, sys[k]) /\ parts[k] \in Seq(Units)
    OBVIOUS
  <2>1. parts[k] = SystemContent(fs, sys[k])
    BY <1>7 DEF SystemsContent, sys
  <2>2. SystemContent(fs, sys[k]) \in Seq(Units)
    BY <1>7, SystemContentPoints DEF SystemPoints
  <2> QED BY <2>1, <2>2
<1>9. parts = [k \in 1 .. M |-> parts[k]]
  BY <1>7 DEF SystemsContent, sys
<1> HIDE DEF parts
<1>10. parts \in Seq(Seq(Units)) /\ Len(parts) = M
  BY <1>4, <1>8, <1>9, IsSeq
<1> QED BY <1>4, <1>5, <1>6, <1>8, <1>10 DEF M, sys, parts

(* The loop has a table, whatever it reads.                                *)
SystemsRound(c, start, g, n) ==
    IF n = 0 THEN [pos |-> start, common |-> 0, formats |-> {}] ELSE ParseSystem(c, g[n - 1])

LEMMA SystemsTable ==
  ASSUME NEW c, NEW start, NEW M \in Nat
  PROVE  \E g : ParseSystems(c, start, M) = g[M] /\ \A n \in 0 .. M : g[n] = SystemsRound(c, start, g, n)
<1> DEFINE Table(g, m) == g = [n \in 0 .. m |-> SystemsRound(c, start, g, n)]
           T == {m \in Nat : \E g : Table(g, m)}
<1>1. 0 \in T
  <2> DEFINE g == [n \in 0 .. 0 |-> SystemsRound(c, start, <<>>, n)]
  <2>1. \A n \in 0 .. 0 : SystemsRound(c, start, <<>>, n) = SystemsRound(c, start, g, n)
    BY DEF SystemsRound
  <2>2. Table(g, 0)
    <3> DEFINE u(n) == SystemsRound(c, start, <<>>, n)
               v(n) == SystemsRound(c, start, g, n)
    <3>1. \A n \in 0 .. 0 : u(n) = v(n)
      BY <2>1
    <3> HIDE DEF u, v
    <3>2. [n \in 0 .. 0 |-> u(n)] = [n \in 0 .. 0 |-> v(n)]
      BY <3>1
    <3> QED BY <3>2 DEF u, v
  <2> HIDE DEF g
  <2> QED BY <2>2
<1>2. ASSUME NEW m \in Nat, m \in T PROVE m + 1 \in T
  <2>1. PICK g : Table(g, m)
    BY <1>2
  <2> DEFINE h == [n \in 0 .. m + 1 |-> SystemsRound(c, start, g, n)]
  <2>2. \A n \in 0 .. m : h[n] = g[n]
    <3>1. \A n \in 0 .. m : g[n] = SystemsRound(c, start, g, n)
      BY <2>1
    <3> QED BY <3>1
  <2>3. \A n \in 0 .. m + 1 : h[n] = SystemsRound(c, start, g, n)
    OBVIOUS
  <2>4. h = [n \in 0 .. m + 1 |-> h[n]]
    OBVIOUS
  <2> HIDE DEF h
  <2>5. ASSUME NEW n \in 0 .. m + 1 PROVE SystemsRound(c, start, h, n) = SystemsRound(c, start, g, n)
    <3>1. n = 0 \/ n - 1 \in 0 .. m
      OBVIOUS
    <3> QED BY <3>1, <2>2 DEF SystemsRound
  <2>6. Table(h, m + 1)
    BY <2>3, <2>4, <2>5
  <2> QED BY <2>6
<1>3. M \in T
  <2> HIDE DEF T
  <2> QED BY <1>1, <1>2, NatSet
<1> DEFINE after == CHOOSE g : Table(g, M)
<1>4. ParseSystems(c, start, M) = after[M]
  BY DEF ParseSystems, SystemsRound
<1>5. Table(after, M)
  BY <1>3
<1> HIDE DEF after
<1>6. \A n \in 0 .. M : after[n] = SystemsRound(c, start, after, n)
  BY <1>5
<1> QED BY <1>4, <1>6

(* After some systems: the common type that counts and the formats read.   *)
SystemsSoFar(fs, r) == Counts(fs, 0, r.common) /\ r.formats = Chosen(fs, r.common)

LEMMA OneMoreSystem ==
  ASSUME NEW fs, NEW gs, NEW r, NEW k, SystemsSoFar(fs, r), Counts(gs, r.common, k)
  PROVE  Counts(fs \cup gs, 0, k) /\ r.formats \cup Chosen(gs, k) = Chosen(fs \cup gs, k)
<1> DEFINE b == r.common
<1>1. Counts(fs, 0, b) /\ r.formats = Chosen(fs, b) /\ Counts(gs, b, k)
  BY DEF SystemsSoFar
<1> HIDE DEF b
<1>2. CASE b # 0
  <2>1. k = b /\ \E f \in fs : f.common = b
    BY <1>1, <1>2 DEF Counts
  <2> QED BY <1>1, <1>2, <2>1, Zenon DEF Counts, Chosen
<1>3. CASE b = 0
  <2>1. \A f \in fs : f.common = 0
    BY <1>1, <1>3 DEF Counts
  <2>2. r.formats = {}
    BY <1>1, <1>3 DEF Chosen
  <2>3. (k = 0 /\ \A f \in gs : f.common = 0) \/ (\E f \in gs : f.common = k /\ k # 0)
    BY <1>1, <1>3 DEF Counts
  <2>4. Counts(fs \cup gs, 0, k)
    BY <2>1, <2>3, Zenon DEF Counts
  <2>5. Chosen(fs \cup gs, k) = Chosen(gs, k)
    BY <2>1, Zenon DEF Chosen
  <2> QED BY <2>2, <2>4, <2>5
<1> QED BY <1>2, <1>3

LEMMA SystemsParsed ==
  ASSUME NEW fs \in FormatSets, NEW c, Len(c) \in Nat, NEW start \in Nat,
         start + ChunkUnits(SystemsContent(fs)) <= Len(c),
         Holds(c, start, SystemsContent(fs), Len(SystemsContent(fs)))
  PROVE  LET r == ParseSystems(c, start, Len(SystemsOf(fs)))
         IN  r.pos = start + ChunkUnits(SystemsContent(fs)) /\ FormatsMatch(fs, r.formats)
<1> DEFINE sys == SystemsOf(fs)
           M == Len(sys)
           parts == SystemsContent(fs)
           L == Lens(parts)
           Upto(n) == {f \in fs : \E k \in 1 .. n : sys[k] = f.system}
<1>1. /\ M \in Nat /\ sys \in Seq(Int) /\ (\A k \in 1 .. M : sys[k] \in Int)
      /\ (\A f \in fs : \E k \in 1 .. M : sys[k] = f.system)
      /\ parts \in Seq(Seq(Units)) /\ Len(parts) = M
      /\ \A k \in 1 .. M : parts[k] = SystemContent(fs, sys[k])
  BY SystemsType
<1> HIDE DEF parts, sys, M
<1>2. /\ \A n \in 1 .. M : L[n] = Len(SystemContent(fs, sys[n])) /\ L[n] \in Nat
      /\ \A n \in 1 .. M + 1 : SizesBefore(L, n) \in Nat
      /\ ChunkUnits(parts) = SizesBefore(L, M + 1)
  BY <1>1, LensType
<1>3. /\ start + SizesBefore(L, M + 1) <= Len(c)
      /\ \A n \in 1 .. M : \A j \in 1 .. Len(SystemContent(fs, sys[n])) :
            c[start + SizesBefore(L, n) + j] = SystemContent(fs, sys[n])[j]
  <2>1. start + ChunkUnits(parts) <= Len(c) /\ Holds(c, start, parts, M)
    BY <1>1 DEF parts
  <2> QED BY <2>1, <1>1, <1>2 DEF Holds, ChunkAt
<1> HIDE DEF L
<1> DEFINE Read(r, n) == r.pos = start + SizesBefore(L, n + 1) /\ SystemsSoFar(Upto(n), r)
<1>4. ASSUME NEW n \in 1 .. M, NEW acc, Read(acc, n - 1) PROVE Read(ParseSystem(c, acc), n)
  <2> DEFINE s == sys[n]
             C == SystemContent(fs, s)
             O == OfOne(fs, s)
  <2>1. acc.pos = start + SizesBefore(L, n) /\ SystemsSoFar(Upto(n - 1), acc)
    <3>1. (n - 1) + 1 = n
      OBVIOUS
    <3> QED BY <3>1, <1>4
  <2>2. L[n] = Len(C) /\ L[n] \in Nat /\ SizesBefore(L, n) \in Nat /\ SizesBefore(L, M + 1) \in Nat
        /\ sys[n] \in Int
    BY <1>1, <1>2
  <2>3. SizesBefore(L, n + 1) = SizesBefore(L, n) + L[n]
    <3>1. n \in Nat \ {0}
      BY <1>1
    <3> QED BY <3>1, SumNext
  <2>4. SizesBefore(L, n) + L[n] <= SizesBefore(L, M + 1)
    <3>1. M + 1 \in n + 1 .. M + 1 /\ \A k \in 1 .. M : L[k] \in Nat
      BY <1>1, <1>2
    <3> QED BY <3>1, <1>1, SumGrows
  <2>5. \A j \in 1 .. Len(C) : c[acc.pos + j] = C[j]
    BY <2>1, <1>3
  <2>6. acc.pos \in Nat /\ acc.pos + Len(C) <= Len(c)
    <3>1. start + SizesBefore(L, M + 1) <= Len(c)
      BY <1>3
    <3> HIDE DEF C
    <3> QED BY <2>1, <2>2, <2>4, <3>1
  <2>7. PICK k : /\ Counts(O, acc.common, k)
                 /\ ParseSystem(c, acc) = [pos |-> acc.pos + Len(C), common |-> k,
                                           formats |-> acc.formats \cup Chosen(O, k)]
    <3>1. s \in Int
      BY <2>2
    <3> HIDE DEF s
    <3> QED BY <3>1, <2>5, <2>6, ParseSystemStep
  <2>8. acc.pos + Len(C) = start + SizesBefore(L, n + 1)
    <3> HIDE DEF C
    <3> QED BY <2>1, <2>2, <2>3
  <2>9. Upto(n - 1) \cup O = Upto(n)
    <3>1. \A q : q \in 1 .. n <=> q \in 1 .. n - 1 \/ q = n
      BY <1>1
    <3> QED BY <3>1, Zenon DEF OfOne
  <2> HIDE DEF O, Upto, C
  <2>10. Counts(Upto(n - 1) \cup O, 0, k)
         /\ acc.formats \cup Chosen(O, k) = Chosen(Upto(n - 1) \cup O, k)
    <3> DEFINE U == Upto(n - 1)
    <3>1. SystemsSoFar(U, acc) /\ Counts(O, acc.common, k)
      BY <2>1, <2>7
    <3> HIDE DEF U
    <3>2. Counts(U \cup O, 0, k) /\ acc.formats \cup Chosen(O, k) = Chosen(U \cup O, k)
      BY ONLY <3>1, OneMoreSystem
    <3> QED BY <3>2 DEF U
  <2> DEFINE r == ParseSystem(c, acc)
  <2>11. r.pos = start + SizesBefore(L, n + 1) /\ r.common = k /\ r.formats = Chosen(Upto(n), k)
    <3>1. acc.formats \cup Chosen(O, k) = Chosen(Upto(n), k)
      BY <2>9, <2>10
    <3>2. r = [pos |-> acc.pos + Len(C), common |-> k, formats |-> acc.formats \cup Chosen(O, k)]
      BY <2>7
    <3> HIDE DEF r
    <3>3. r.pos = acc.pos + Len(C) /\ r.common = k /\ r.formats = acc.formats \cup Chosen(O, k)
      BY ONLY <3>2
    <3> QED BY <3>1, <3>3, <2>8
  <2>12. Counts(Upto(n), 0, r.common) /\ r.formats = Chosen(Upto(n), r.common)
    BY <2>9, <2>10, <2>11
  <2> HIDE DEF r
  <2> QED BY <2>11, <2>12 DEF SystemsSoFar, r
<1>5. PICK after : ParseSystems(c, start, M) = after[M]
                   /\ \A n \in 0 .. M : after[n] = SystemsRound(c, start, after, n)
  <2>1. M \in Nat
    BY <1>1
  <2> QED BY ONLY <2>1, SystemsTable, Zenon
<1>6. Read(after[0], 0)
  <2>1. after[0] = [pos |-> start, common |-> 0, formats |-> {}]
    <3>1. 0 \in 0 .. M
      BY <1>1
    <3> QED BY <3>1, <1>5 DEF SystemsRound
  <2>2. SizesBefore(L, 0 + 1) = 0
    BY SumFirst
  <2>3. Upto(0) = {}
    OBVIOUS
  <2>4. SystemsSoFar({}, after[0])
    BY <2>1 DEF SystemsSoFar, Counts, Chosen
  <2>5. after[0].pos = start + SizesBefore(L, 0 + 1)
    BY <2>1, <2>2
  <2> HIDE DEF Upto
  <2>6. SystemsSoFar(Upto(0), after[0])
    BY <2>3, <2>4
  <2> QED BY <2>5, <2>6
<1> HIDE DEF Read
<1> DEFINE T == {n \in Nat : n <= M => Read(after[n], n)}
<1>7. 0 \in T
  BY <1>6
<1>8. ASSUME NEW n \in Nat, n \in T PROVE n + 1 \in T
  <2> SUFFICES ASSUME n + 1 <= M PROVE Read(after[n + 1], n + 1)
    OBVIOUS
  <2>1. n + 1 \in 0 .. M /\ n + 1 # 0 /\ (n + 1) - 1 = n /\ n + 1 \in 1 .. M /\ n <= M
    BY <1>1
  <2>2. after[n + 1] = ParseSystem(c, after[n])
    BY <2>1, <1>5 DEF SystemsRound
  <2>3. Read(after[n], n)
    BY <2>1, <1>8
  <2>4. Read(ParseSystem(c, after[n]), n + 1)
    BY <2>1, <2>3, <1>4
  <2> QED BY <2>2, <2>4
<1> HIDE DEF T
<1>9. M \in T
  BY <1>1, <1>7, <1>8, NatSet
<1>10. Read(after[M], M)
  BY <1>1, <1>9 DEF T
<1>11. Upto(M) = fs
  BY <1>1, Zenon
<1> DEFINE r == after[M]
<1>12. r.pos = start + SizesBefore(L, M + 1) /\ Counts(fs, 0, r.common) /\ r.formats = Chosen(fs, r.common)
  <2> HIDE DEF Upto
  <2> QED BY <1>10, <1>11 DEF Read, SystemsSoFar
<1> HIDE DEF r
<1>13. FormatsMatch(fs, r.formats)
  <2> DEFINE k == r.common
  <2> HIDE DEF k
  <2>1. Counts(fs, 0, k) /\ r.formats = Chosen(fs, k)
    BY <1>12 DEF k
  <2>2. CASE k = 0 /\ \A f \in fs : f.common = 0
    <3>1. r.formats = {}
      BY <2>1, <2>2 DEF Chosen
    <3> QED BY <2>2, <3>1 DEF FormatsMatch
  <2>3. CASE \E f \in fs : f.common = k /\ k # 0
    <3>1. PICK g \in fs : g.common = k /\ k # 0
      BY <2>3
    <3>2. r.formats = {f \in fs : f.common = g.common}
      BY <2>1, <3>1 DEF Chosen
    <3> QED BY <3>1, <3>2 DEF FormatsMatch
  <2> QED BY <2>1, <2>2, <2>3 DEF Counts
<1> QED BY <1>2, <1>5, <1>12, <1>13 DEF M, sys, parts, r

LEMMA HoldsInside ==
  ASSUME NEW S, NEW chunks \in Seq(Seq(S)), NEW flat, NEW c, NEW at \in Nat,
         Holds(flat, 0, chunks, Len(chunks)),
         \A i \in 1 .. ChunkUnits(chunks) : c[at + i] = flat[i]
  PROVE  Holds(c, at, chunks, Len(chunks))
<1> DEFINE L == Lens(chunks)
           N == Len(chunks)
<1>0. /\ N \in Nat /\ (\A n \in 1 .. N : L[n] = Len(chunks[n]) /\ L[n] \in Nat)
      /\ (\A n \in 1 .. N + 1 : SizesBefore(L, n) \in Nat)
      /\ ChunkUnits(chunks) = SizesBefore(L, N + 1)
  BY LensType
<1> SUFFICES ASSUME NEW n \in 1 .. N, NEW j \in 1 .. Len(chunks[n])
             PROVE  c[at + SizesBefore(L, n) + j] = chunks[n][j]
  BY DEF Holds, ChunkAt
<1>1. flat[0 + SizesBefore(L, n) + j] = chunks[n][j]
  BY DEF Holds, ChunkAt
<1> HIDE DEF L, N
<1>2. SizesBefore(L, n) + L[n] <= SizesBefore(L, N + 1)
  <2>1. N + 1 \in n + 1 .. N + 1 /\ \A i \in 1 .. N : L[i] \in Nat
    BY <1>0
  <2> QED BY <2>1, <1>0, SumGrows
<1>3. SizesBefore(L, n) \in Nat /\ SizesBefore(L, N + 1) \in Nat /\ j \in 1 .. L[n] /\ L[n] \in Nat
  BY <1>0
<1>4. /\ SizesBefore(L, n) + j \in 1 .. ChunkUnits(chunks)
      /\ 0 + SizesBefore(L, n) + j = SizesBefore(L, n) + j
      /\ at + (SizesBefore(L, n) + j) = at + SizesBefore(L, n) + j
  <2>1. ChunkUnits(chunks) = SizesBefore(L, N + 1)
    BY <1>0
  <2> QED BY <2>1, <1>2, <1>3, SMTT(30)
<1>5. c[at + (SizesBefore(L, n) + j)] = flat[SizesBefore(L, n) + j]
  BY <1>4
<1> QED BY <1>1, <1>4, <1>5

LEMMA TracingParsed ==
  ASSUME NEW x \in Writers
  PROVE  /\ TracingContent(x) \in Seq(Units) /\ TracingContent(x) # <<>>
         /\ TracingMatches(x, ParseTracing(TracingContent(x)))
<1> DEFINE fs == x.formats
           F == Len(x.ftraces)
           M == Len(SystemsOf(fs))
           sig == Unit("signature", <<>>)
           sizes == Unit("sizes", <<x.long_size, x.page_size>>)
           page == Unit("blob", <<OrDefault(x.header_page)>>)
           event == Unit("blob", <<OrDefault(x.header_event)>>)
           a == <<sig, sizes, page, event, Word(F)>>
           b == [i \in DOMAIN x.ftraces |-> Unit("blob", <<x.ftraces[i]>>)]
           k == <<Word(M)>>
           parts == SystemsContent(fs)
           flat == FlattenSeq(parts)
           sy == Unit("blob", <<x.kallsyms>>)
           pk == Unit("blob", <<x.printk>>)
           cl == Unit("blob", <<x.cmd_line>>)
           t == <<sy, pk, cl>>
           c == a \o b \o k \o flat \o t
<1>1. TracingContent(x) = c
  BY DEF TracingContent, SystemsContent
<1>2. /\ fs \in FormatSets /\ x.ftraces \in Seq(Int) /\ x.long_size \in Int /\ x.page_size \in Int
      /\ x.header_page \in Int /\ x.header_event \in Int
      /\ x.kallsyms \in Int /\ x.printk \in Int /\ x.cmd_line \in Int
  BY DEF Writers, WriterRecords, FormatSets
<1>3. OrDefault(x.header_page) \in Int /\ OrDefault(x.header_event) \in Int
  BY <1>2 DEF OrDefault, DefaultBlob
<1>4. F \in Nat /\ DOMAIN x.ftraces = 1 .. F /\ \A i \in 1 .. F : x.ftraces[i] \in Int
  BY <1>2
<1>5. /\ M \in Nat /\ parts \in Seq(Seq(Units)) /\ Len(parts) = M
  BY <1>2, SystemsType
<1>6. "blob" \in Kinds /\ "word" \in Kinds /\ "sizes" \in Kinds /\ "signature" \in Kinds
  BY DEF Kinds
<1>7. /\ sig \in Units /\ sizes \in Units /\ page \in Units /\ event \in Units /\ Word(F) \in Units
      /\ Word(M) \in Units /\ sy \in Units /\ pk \in Units /\ cl \in Units
  <2>1. <<>> \in Seq(Int) /\ <<x.long_size, x.page_size>> \in Seq(Int)
    BY <1>2
  <2>2. sig \in Units
    BY <2>1, <1>6, UnitType
  <2>3. sizes \in Units
    BY <2>1, <1>6 DEF Unit, Units
  <2>4. page \in Units /\ event \in Units
    BY <1>3, <1>6, NumberUnit
  <2>5. sy \in Units /\ pk \in Units /\ cl \in Units
    BY <1>2, <1>6, NumberUnit
  <2>6. Word(F) \in Units /\ Word(M) \in Units
    BY <1>4, <1>5, <1>6, NumberUnit DEF Word
  <2> QED BY <2>2, <2>3, <2>4, <2>5, <2>6
<1>8. sig.k = "signature" /\ sizes.v[1] = x.long_size /\ sizes.v[2] = x.page_size
      /\ page.v[1] = OrDefault(x.header_page) /\ event.v[1] = OrDefault(x.header_event)
      /\ sy.v[1] = x.kallsyms /\ pk.v[1] = x.printk /\ cl.v[1] = x.cmd_line
      /\ Word(F).v[1] = F /\ Word(M).v[1] = M
  BY DEF Unit, Word
<1> HIDE DEF sig, sizes, page, event, sy, pk, cl, parts, fs
<1>9. /\ a \in Seq(Units) /\ Len(a) = 5
      /\ a[1] = sig /\ a[2] = sizes /\ a[3] = page /\ a[4] = event /\ a[5] = Word(F)
  BY <1>7
<1>10. b \in Seq(Units) /\ Len(b) = F /\ \A i \in 1 .. F : b[i].v[1] = x.ftraces[i]
  <2>1. \A i \in 1 .. F : b[i] = Unit("blob", <<x.ftraces[i]>>) /\ b[i] \in Units
    BY <1>4, <1>6, NumberUnit
  <2>2. b = [i \in 1 .. F |-> b[i]]
    BY <1>4
  <2> HIDE DEF b
  <2>3. b \in Seq(Units) /\ Len(b) = F
    BY <2>1, <2>2, <1>4, IsSeq
  <2>4. \A i \in 1 .. F : Unit("blob", <<x.ftraces[i]>>).v[1] = x.ftraces[i]
    BY DEF Unit
  <2> QED BY <2>1, <2>3, <2>4
<1>11. k \in Seq(Units) /\ Len(k) = 1 /\ k[1] = Word(M)
  BY <1>7
<1>12. t \in Seq(Units) /\ Len(t) = 3 /\ t[1] = sy /\ t[2] = pk /\ t[3] = cl
  BY <1>7
<1>13. flat \in Seq(Units) /\ Len(flat) = ChunkUnits(parts) /\ Holds(flat, 0, parts, Len(parts))
  BY <1>5, FlattenPoints
<1> DEFINE U == ChunkUnits(parts)
<1> HIDE DEF a, b, k, t, flat, F, M, U
<1>14. U \in Nat /\ Len(flat) = U
  BY <1>13 DEF U
<1>15. /\ c \in Seq(Units) /\ Len(c) = Len(a) + Len(b) + Len(k) + Len(flat) + Len(t)
       /\ \A i \in 1 .. Len(a) : c[i] = a[i]
       /\ \A i \in 1 .. Len(b) : c[Len(a) + i] = b[i]
       /\ \A i \in 1 .. Len(k) : c[Len(a) + Len(b) + i] = k[i]
       /\ \A i \in 1 .. Len(flat) : c[Len(a) + Len(b) + Len(k) + i] = flat[i]
       /\ \A i \in 1 .. Len(t) : c[Len(a) + Len(b) + Len(k) + Len(flat) + i] = t[i]
  <2>1. a \in Seq(Units) /\ b \in Seq(Units) /\ k \in Seq(Units) /\ flat \in Seq(Units) /\ t \in Seq(Units)
    BY <1>9, <1>10, <1>11, <1>12, <1>13
  <2>2. c \in Seq(Units) /\ PartsAt(c, a, b, k, flat, t)
    BY ONLY <2>1, FiveParts
  <2> HIDE DEF c
  <2> QED BY <2>2 DEF PartsAt
<1> HIDE DEF c
<1>16. /\ Len(a) = 5 /\ Len(b) = F /\ Len(k) = 1 /\ Len(flat) = U /\ Len(t) = 3 /\ F \in Nat
  BY <1>9, <1>10, <1>11, <1>12, <1>14, <1>4
<1>17. /\ Len(c) = 9 + F + U
       /\ c[1] = sig /\ c[2] = sizes /\ c[3] = page /\ c[4] = event /\ c[5] = Word(F)
       /\ \A i \in 1 .. F : c[5 + i] = b[i]
       /\ c[6 + F] = Word(M)
       /\ \A i \in 1 .. U : c[6 + F + i] = flat[i]
       /\ c[6 + F + U + 1] = sy /\ c[6 + F + U + 2] = pk /\ c[6 + F + U + 3] = cl
  <2>1. Len(c) = 9 + F + U
    BY <1>14, <1>15, <1>16
  <2>2. c[1] = sig /\ c[2] = sizes /\ c[3] = page /\ c[4] = event /\ c[5] = Word(F)
    BY <1>15, <1>16, <1>9
  <2>3. \A i \in 1 .. F : c[5 + i] = b[i]
    BY <1>15, <1>16
  <2>4. c[6 + F] = Word(M)
    <3>1. c[Len(a) + Len(b) + 1] = k[1]
      BY <1>15, <1>16
    <3>2. Len(a) + Len(b) + 1 = 6 + F
      BY <1>16
    <3> QED BY <3>1, <3>2, <1>11
  <2>5. \A i \in 1 .. U : c[6 + F + i] = flat[i]
    <3>1. Len(a) + Len(b) + Len(k) = 6 + F
      BY <1>16
    <3> QED BY <3>1, <1>15, <1>16
  <2>6. c[6 + F + U + 1] = sy /\ c[6 + F + U + 2] = pk /\ c[6 + F + U + 3] = cl
    <3>1. Len(a) + Len(b) + Len(k) + Len(flat) = 6 + F + U
      BY <1>16, <1>14
    <3>2. 1 \in 1 .. Len(t) /\ 2 \in 1 .. Len(t) /\ 3 \in 1 .. Len(t)
      BY <1>16
    <3> QED BY <3>1, <3>2, <1>15, <1>12
  <2> QED BY <2>1, <2>2, <2>3, <2>4, <2>5, <2>6
<1>18. Holds(c, 6 + F, parts, Len(parts))
  <2>1. 6 + F \in Nat /\ \A i \in 1 .. ChunkUnits(parts) : c[(6 + F) + i] = flat[i]
    BY <1>16, <1>17 DEF U
  <2> QED BY <2>1, <1>5, <1>13, HoldsInside
<1> DEFINE all == ParseSystems(c, 6 + F, M)
<1>19. all.pos = 6 + F + U /\ FormatsMatch(fs, all.formats)
  <2>1. Len(c) \in Nat /\ 6 + F \in Nat /\ (6 + F) + ChunkUnits(parts) <= Len(c)
    BY <1>14, <1>16, <1>17 DEF U
  <2> DEFINE r == ParseSystems(c, 6 + F, Len(SystemsOf(fs)))
  <2>2. r.pos = (6 + F) + ChunkUnits(SystemsContent(fs)) /\ FormatsMatch(fs, r.formats)
    BY <2>1, <1>2, <1>18, SystemsParsed DEF parts
  <2>3. r = all
    BY DEF M
  <2> HIDE DEF r, all
  <2> QED BY <2>2, <2>3 DEF U, parts
<1> HIDE DEF all
<1>20. c # <<>> /\ c[1].k = "signature" /\ c[5].v[1] = F /\ c[6 + F].v[1] = M
  BY <1>8, <1>14, <1>15, <1>16, <1>17
<1>21. [i \in 1 .. F |-> c[5 + i].v[1]] = x.ftraces
  <2>1. \A i \in 1 .. F : c[5 + i].v[1] = x.ftraces[i]
    BY <1>17, <1>10
  <2>2. x.ftraces = [i \in 1 .. F |-> x.ftraces[i]]
    BY <1>2, <1>4
  <2> QED BY <2>1, <2>2
<1> DEFINE read == ParseTracing(c)
<1>22. read = [long_size |-> c[2].v[1], page_size |-> c[2].v[2],
               header_page |-> c[3].v[1], header_event |-> c[4].v[1],
               ftraces |-> [i \in 1 .. F |-> c[5 + i].v[1]],
               kallsyms |-> c[6 + F + U + 1].v[1], printk |-> c[6 + F + U + 2].v[1],
               cmd_line |-> c[6 + F + U + 3].v[1], formats |-> all.formats]
  <2>2. read = [long_size |-> c[2].v[1], page_size |-> c[2].v[2],
                header_page |-> c[3].v[1], header_event |-> c[4].v[1],
                ftraces |-> [i \in 1 .. F |-> c[5 + i].v[1]],
                kallsyms |-> c[all.pos + 1].v[1], printk |-> c[all.pos + 2].v[1],
                cmd_line |-> c[all.pos + 3].v[1], formats |-> all.formats]
    BY <1>20, Zenon DEF ParseTracing, all
  <2> QED BY <2>2, <1>19
<1>23. TracingMatches(x, read)
  <2>1. read.long_size = x.long_size /\ read.page_size = x.page_size
        /\ read.header_page = OrDefault(x.header_page) /\ read.header_event = OrDefault(x.header_event)
    BY <1>22, <1>17, <1>8
  <2>2. read.kallsyms = x.kallsyms /\ read.printk = x.printk /\ read.cmd_line = x.cmd_line
    BY <1>22, <1>17, <1>8
  <2>3. FormatsMatch(x.formats, read.formats) /\ read.ftraces = x.ftraces
    BY <1>22, <1>19, <1>21 DEF fs
  <2> QED BY <2>1, <2>2, <2>3 DEF TracingMatches
<1> QED BY <1>1, <1>15, <1>20, <1>23

-----------------------------------------------------------------------------
(* What finalize_and_close leaves: the file header, the events, the        *)
(* sections and contents of the headers, the attrs with their ids.         *)
Synthesized(x) == SynthesizeEventDesc(SynthesizeTracingData(x))

LEMMA SynthesizedType ==
  ASSUME NEW x \in Writers
  PROVE  /\ Synthesized(x) \in Writers /\ Synthesized(x).descs = x.descs
         /\ Synthesized(x).headers[EventDesc] # <<>>
         /\ \E k \in 0 .. Len(x.descs) :
               DescsRead(x.descs, ParseEventDesc(Synthesized(x).headers[EventDesc]), k)
         /\ Synthesized(x).headers[TracingData] =
               IF x.long_size # 0 /\ x.page_size # 0 THEN TracingContent(x) ELSE x.headers[TracingData]
         /\ \A i \in HeaderIndexes \ {EventDesc, TracingData} : Synthesized(x).headers[i] = x.headers[i]
<1> DEFINE z == SynthesizeTracingData(x)
           y == SynthesizeEventDesc(z)
           c == <<Word(Len(z.descs))>> \o FlattenSeq([i \in DOMAIN z.descs |-> DescContent(z.descs[i])])
<1>0. EventDesc \in HeaderIndexes /\ TracingData \in HeaderIndexes /\ EventDesc # TracingData
  BY DEF EventDesc, TracingData, HeaderIndexes, LastFeature
<1>1. x \in WriterRecords /\ x.formats \in FormatSets
  BY DEF Writers
<1>2. /\ z \in WriterRecords /\ z.descs = x.descs /\ z.formats = x.formats
      /\ z.headers[TracingData] =
               IF x.long_size # 0 /\ x.page_size # 0 THEN TracingContent(x) ELSE x.headers[TracingData]
      /\ \A i \in HeaderIndexes \ {TracingData} : z.headers[i] = x.headers[i]
  <2>1. CASE x.long_size = 0 \/ x.page_size = 0
    BY <2>1, <1>1 DEF SynthesizeTracingData
  <2>2. CASE ~ (x.long_size = 0 \/ x.page_size = 0)
    <3>1. z = [x EXCEPT !.headers[TracingData] = TracingContent(x)]
      BY <2>2 DEF SynthesizeTracingData
    <3>2. TracingContent(x) \in Seq(Units)
      BY TracingParsed
    <3> HIDE DEF z
    <3> QED BY <2>2, <3>1, <3>2, <1>0, <1>1 DEF WriterRecords
  <2> QED BY <2>1, <2>2
<1> HIDE DEF z
<1>3. z.descs \in Seq(Descs)
  BY <1>2 DEF WriterRecords
<1>4. c \in Seq(Units) /\ c # <<>> /\ \E k \in 0 .. Len(z.descs) : DescsRead(z.descs, ParseEventDesc(c), k)
  BY <1>3, EventDescParsed
<1>5. y = [z EXCEPT !.headers[EventDesc] = c]
  BY DEF SynthesizeEventDesc
<1> HIDE DEF c, y
<1>6. /\ y \in WriterRecords /\ y.descs = x.descs /\ y.formats = x.formats /\ y.headers[EventDesc] = c
      /\ \A i \in HeaderIndexes \ {EventDesc} : y.headers[i] = z.headers[i]
  BY <1>0, <1>2, <1>4, <1>5 DEF WriterRecords
<1>7. y \in Writers
  BY <1>1, <1>6 DEF Writers
<1>8. y.headers[TracingData] =
               IF x.long_size # 0 /\ x.page_size # 0 THEN TracingContent(x) ELSE x.headers[TracingData]
  BY <1>0, <1>2, <1>6
<1>9. \A i \in HeaderIndexes \ {EventDesc, TracingData} : y.headers[i] = x.headers[i]
  BY <1>0, <1>2, <1>6
<1>10. Synthesized(x) = y
  BY DEF Synthesized, y, z
<1> QED BY <1>2, <1>4, <1>6, <1>7, <1>8, <1>9, <1>10

AttrsStart(y, E) == 1 + E + ChunkUnits(HeaderChunks(y, 1 + E))

Complete(d, y, ev) ==
    LET E == Len(ev)
        A == AttrsStart(y, E)
    IN /\ Len(d) = A + ChunkUnits(AttrChunks(y, A))
       /\ d[1] = Unit("header", <<A, 2 * Len(y.descs)>> \o <<1, E>> \o Flags(y))
       /\ \A j \in 1 .. E : d[1 + j] = ev[j]
       /\ Holds(d, 1 + E, HeaderChunks(y, 1 + E), Len(HeaderChunks(y, 1 + E)))
       /\ Holds(d, A, AttrChunks(y, A), Len(AttrChunks(y, A)))

LEMMA SlicePoints ==
  ASSUME NEW d \in Seq(Units), NEW o \in Nat, NEW n \in Nat, o + n <= Len(d)
  PROVE  /\ Slice(d, o, n) \in Seq(Units) /\ Len(Slice(d, o, n)) = n
         /\ \A i \in 1 .. n : Slice(d, o, n)[i] = d[o + i]
<1>1. o + 1 \in Int /\ o + n \in Int /\ \A i \in o + 1 .. o + n : d[i] \in Units
  OBVIOUS
<1> DEFINE a == o + 1
           b == o + n
<1>2. /\ SubSeq(d, a, b) \in Seq(Units)
      /\ Len(SubSeq(d, a, b)) = IF a <= b THEN b - a + 1 ELSE 0
      /\ \A i \in 1 .. b - a + 1 : SubSeq(d, a, b)[i] = d[a + i - 1]
  <2>1. a \in Int /\ b \in Int /\ \A i \in a .. b : d[i] \in Units
    BY <1>1
  <2> HIDE DEF a, b
  <2> QED BY <2>1, SubSeqProperties, SMTT(30)
<1>3. b - a + 1 = n /\ (IF a <= b THEN b - a + 1 ELSE 0) = n /\ \A i \in 1 .. n : a + i - 1 = o + i
  OBVIOUS
<1> HIDE DEF a, b
<1>4. SubSeq(d, a, b) \in Seq(Units) /\ Len(SubSeq(d, a, b)) = n
      /\ \A i \in 1 .. n : SubSeq(d, a, b)[i] = d[o + i]
  BY <1>2, <1>3
<1> QED BY <1>4 DEF Slice, a, b

LEMMA SliceIs ==
  ASSUME NEW d \in Seq(Units), NEW s \in Seq(Units), NEW o \in Nat, o + Len(s) <= Len(d),
         \A j \in 1 .. Len(s) : d[o + j] = s[j]
  PROVE  Slice(d, o, Len(s)) = s
<1>1. Len(s) \in Nat
  OBVIOUS
<1>2. Slice(d, o, Len(s)) \in Seq(Units) /\ Len(Slice(d, o, Len(s))) = Len(s)
      /\ \A i \in 1 .. Len(s) : Slice(d, o, Len(s))[i] = d[o + i]
  BY <1>1, SlicePoints
<1> DEFINE r == Slice(d, o, Len(s))
<1> HIDE DEF r
<1>3. r \in Seq(Units) /\ Len(r) = Len(s) /\ \A i \in 1 .. Len(r) : r[i] = s[i]
  BY <1>2 DEF r
<1>4. r = s
  BY <1>3, SeqEqual
<1> QED BY <1>4 DEF r

(* The three parts of the value of the file header.                        *)
HeaderIs(h, A, n, E, flags) ==
    /\ SubSeq(h, 1, 2)[1] = A /\ SubSeq(h, 1, 2)[2] = n
    /\ SubSeq(h, 3, 4)[1] = 1 /\ SubSeq(h, 3, 4)[2] = E
    /\ \A i \in HeaderIndexes : SubSeq(h, 5, 4 + LastFeature)[i + 1] = flags[i + 1]

LEMMA HeaderParts ==
  ASSUME NEW A \in Int, NEW n \in Int, NEW E \in Int, NEW flags \in Seq(Int), Len(flags) = LastFeature
  PROVE  /\ <<A, n>> \o <<1, E>> \o flags \in Seq(Int)
         /\ HeaderIs(<<A, n>> \o <<1, E>> \o flags, A, n, E, flags)
<1> DEFINE a == <<A, n>>
           b == <<1, E>>
           ab == a \o b
           h == ab \o flags
<1>1. a \in Seq(Int) /\ b \in Seq(Int) /\ Len(a) = 2 /\ Len(b) = 2
      /\ a[1] = A /\ a[2] = n /\ b[1] = 1 /\ b[2] = E
  OBVIOUS
<1> HIDE DEF a, b
<1>2. /\ ab \in Seq(Int) /\ Len(ab) = Len(a) + Len(b)
      /\ \A i \in 1 .. Len(a) : ab[i] = a[i]
      /\ \A i \in 1 .. Len(b) : ab[Len(a) + i] = b[i]
  <2>1. a \in Seq(Int) /\ b \in Seq(Int)
    BY <1>1
  <2> QED BY ONLY <2>1, JoinPoints
<1> HIDE DEF ab
<1>3. Len(ab) = 4 /\ ab[1] = A /\ ab[2] = n /\ ab[3] = 1 /\ ab[4] = E
  BY <1>1, <1>2
<1>4. /\ h \in Seq(Int) /\ Len(h) = Len(ab) + Len(flags)
      /\ \A i \in 1 .. Len(ab) : h[i] = ab[i]
      /\ \A i \in 1 .. Len(flags) : h[Len(ab) + i] = flags[i]
  <2>1. ab \in Seq(Int) /\ flags \in Seq(Int)
    BY <1>2
  <2> QED BY ONLY <2>1, JoinPoints
<1> HIDE DEF h
<1>5. Len(h) = 14 /\ h[1] = A /\ h[2] = n /\ h[3] = 1 /\ h[4] = E
      /\ \A i \in 1 .. 10 : h[4 + i] = flags[i]
  BY <1>3, <1>4 DEF LastFeature
<1>6. ASSUME NEW i \in 1 .. 14 PROVE h[i] \in Int
  <2>1. h \in Seq(Int) /\ Len(h) = 14
    BY <1>4, <1>5
  <2> QED BY <2>1, ElementOfSeq
<1>7. SubSeq(h, 1, 2)[1] = A /\ SubSeq(h, 1, 2)[2] = n
  <2>1. \A i \in 1 .. 2 - 1 + 1 : SubSeq(h, 1, 2)[i] = h[1 + i - 1]
    <3>1. ASSUME NEW i \in 1 .. 2 PROVE h[i] \in Int
      <4>1. i \in 1 .. 14
        OBVIOUS
      <4> QED BY <4>1, <1>6
    <3> QED BY <3>1, SubSeqProperties
  <2> QED BY <2>1, <1>5
<1>8. SubSeq(h, 3, 4)[1] = 1 /\ SubSeq(h, 3, 4)[2] = E
  <2>1. \A i \in 1 .. 4 - 3 + 1 : SubSeq(h, 3, 4)[i] = h[3 + i - 1]
    <3>1. ASSUME NEW i \in 3 .. 4 PROVE h[i] \in Int
      <4>1. i \in 1 .. 14
        OBVIOUS
      <4> QED BY <4>1, <1>6
    <3> QED BY <3>1, SubSeqProperties
  <2> QED BY <2>1, <1>5
<1>9. \A i \in HeaderIndexes : SubSeq(h, 5, 4 + LastFeature)[i + 1] = flags[i + 1]
  <2>1. \A i \in 1 .. 14 - 5 + 1 : SubSeq(h, 5, 14)[i] = h[5 + i - 1]
    <3>1. ASSUME NEW i \in 5 .. 14 PROVE h[i] \in Int
      <4>1. i \in 1 .. 14
        OBVIOUS
      <4> QED BY <4>1, <1>6
    <3> QED BY <3>1, SubSeqProperties
  <2>2. \A i \in 0 .. 9 : SubSeq(h, 5, 14)[i + 1] = flags[i + 1]
    <3> SUFFICES ASSUME NEW i \in 0 .. 9 PROVE SubSeq(h, 5, 14)[i + 1] = flags[i + 1]
      OBVIOUS
    <3>1. i + 1 \in 1 .. 14 - 5 + 1 /\ 5 + (i + 1) - 1 = 4 + (i + 1) /\ i + 1 \in 1 .. 10
      OBVIOUS
    <3> QED BY <3>1, <2>1, <1>5
  <2>3. 4 + LastFeature = 14 /\ HeaderIndexes = 0 .. 9
    BY DEF LastFeature, HeaderIndexes
  <2> QED BY <2>2, <2>3
<1>10. HeaderIs(h, A, n, E, flags)
  BY <1>7, <1>8, <1>9 DEF HeaderIs
<1> QED BY <1>4, <1>10 DEF h, ab, a, b

LEMMA FlagsType ==
  ASSUME NEW y
  PROVE  /\ Flags(y) \in Seq(Int) /\ Len(Flags(y)) = LastFeature
         /\ \A i \in HeaderIndexes : Flags(y)[i + 1] = IF y.headers[i] # <<>> THEN 1 ELSE 0
<1>1. LastFeature \in Nat /\ LastFeature = 10
  BY DEF LastFeature
<1>2. \A i \in 1 .. LastFeature : Flags(y)[i] = IF y.headers[i - 1] # <<>> THEN 1 ELSE 0
  BY DEF Flags
<1>3. Flags(y) = [i \in 1 .. LastFeature |-> Flags(y)[i]]
  BY DEF Flags
<1>4. \A i \in 1 .. LastFeature : Flags(y)[i] \in Int
  BY <1>2
<1>5. Flags(y) \in Seq(Int) /\ Len(Flags(y)) = LastFeature
  BY <1>1, <1>3, <1>4, IsSeq
<1>6. ASSUME NEW i \in HeaderIndexes PROVE Flags(y)[i + 1] = IF y.headers[i] # <<>> THEN 1 ELSE 0
  <2>1. i + 1 \in 1 .. LastFeature /\ (i + 1) - 1 = i
    BY <1>1 DEF HeaderIndexes
  <2> QED BY <2>1, <1>2
<1> QED BY <1>5, <1>6

(* The reader looks for the section of a header where the writer put it.   *)
LEMMA HeaderPosIs ==
  ASSUME NEW y, NEW i \in HeaderIndexes, NEW data, NEW flags,
         \A j \in HeaderIndexes : flags[j + 1] = Flags(y)[j + 1]
  PROVE  HeaderPos(data, flags, i) = data[1] + data[2] + SetBelow(y, i)
<1>1. \A j : j \in 0 .. i - 1 <=> j \in HeaderIndexes /\ j < i
  BY DEF HeaderIndexes, LastFeature
<1>2. \A j \in HeaderIndexes : flags[j + 1] = 1 <=> y.headers[j] # <<>>
  BY FlagsType
<1>3. {j \in 0 .. i - 1 : flags[j + 1] = 1} = Below({j \in HeaderIndexes : y.headers[j] # <<>>}, i)
  BY <1>1, <1>2, Zenon DEF Below
<1> QED BY <1>3 DEF HeaderPos, SetBelow

(* No section is too large for the reader.                                 *)
Fits(y) ==
    /\ 2 * Len(y.descs) < SECTION_LIMIT
    /\ \A n \in 1 .. Len(y.descs) : Len(y.descs[n].ids) < SECTION_LIMIT
    /\ \A i \in HeaderIndexes : Len(y.headers[i]) < SECTION_LIMIT

LEMMA CompleteOpened ==
  ASSUME NEW y \in Writers, NEW ev \in Seq(Units), NEW d \in Seq(Units), Complete(d, y, ev)
  PROVE  /\ OpenLayout(d).ok =>
               /\ OpenLayout(d).events = ev
               /\ OpenLayout(d).attrs =
                     [n \in DOMAIN y.descs |-> [attr |-> y.descs[n].attr, ids |-> y.descs[n].ids]]
               /\ \A i \in HeaderIndexes : OpenLayout(d).headers[i] = y.headers[i]
         /\ y.descs # <<>> /\ Len(y.descs[Len(y.descs)].ids) # 0 /\ Fits(y) => OpenLayout(d).ok
<1> DEFINE E == Len(ev)
           N == Len(y.descs)
           P == 1 + E
           A == AttrsStart(y, E)
           flags == Flags(y)
           hv == <<A, 2 * N>> \o <<1, E>> \o flags
           attrs == SubSeq(d[1].v, 1, 2)
           data == SubSeq(d[1].v, 3, 4)
           fl == SubSeq(d[1].v, 5, 4 + LastFeature)
<1>1. E \in Nat /\ P \in Nat /\ N \in Nat /\ DOMAIN y.descs = 1 .. N
      /\ \A n \in 1 .. N : /\ y.descs[n].ids \in Seq(Int) /\ Len(y.descs[n].ids) \in Nat
                           /\ y.descs[n].attr \in Int
  <2>1. y.descs \in Seq(Descs) /\ E \in Nat
    BY DEF Writers, WriterRecords
  <2>2. N \in Nat /\ DOMAIN y.descs = 1 .. N /\ \A n \in 1 .. N : y.descs[n] \in Descs
    BY <2>1
  <2> HIDE DEF N, E
  <2>3. P \in Nat
    BY <2>1
  <2>4. ASSUME NEW n \in 1 .. N
        PROVE  /\ y.descs[n].ids \in Seq(Int) /\ Len(y.descs[n].ids) \in Nat
               /\ y.descs[n].attr \in Int
    BY <2>2 DEF Descs
  <2> QED BY <2>1, <2>2, <2>3, <2>4
<1>0. E \in Nat /\ P \in Nat /\ N \in Nat
  BY <1>1
<1>2. ChunkUnits(HeaderChunks(y, P)) \in Nat
  BY <1>1, HeaderLayout
<1>3. A = P + ChunkUnits(HeaderChunks(y, P)) /\ A \in Nat /\ P <= A
  BY <1>1, <1>2 DEF AttrsStart
<1> HIDE DEF A
<1>4. /\ Len(d) = A + ChunkUnits(AttrChunks(y, A))
      /\ d[1] = Unit("header", hv)
      /\ \A j \in 1 .. E : d[1 + j] = ev[j]
      /\ Holds(d, P, HeaderChunks(y, P), Len(HeaderChunks(y, P)))
      /\ Holds(d, A, AttrChunks(y, A), Len(AttrChunks(y, A)))
  BY DEF Complete, A
<1>5. ChunkUnits(AttrChunks(y, A)) \in Nat /\ 2 * N <= ChunkUnits(AttrChunks(y, A))
  BY <1>3, AttrLayout
<1>6. \A n \in 1 .. N : \E o \in Nat : EntryAt(d, y, A, n, o)
  BY <1>3, <1>4, AttrLayout
<1>7. \A i \in HeaderIndexes : y.headers[i] # <<>> =>
         SetBelow(y, i) \in Nat /\ \E o \in Nat : HeaderAt(d, y, P, i, o)
  BY <1>1, <1>4, HeaderLayout
<1>8. /\ attrs[1] = A /\ attrs[2] = 2 * N /\ data[1] = 1 /\ data[2] = E
      /\ \A i \in HeaderIndexes : fl[i + 1] = flags[i + 1]
  <2>1. flags \in Seq(Int) /\ Len(flags) = LastFeature
    BY FlagsType
  <2>2. A \in Int /\ 2 * N \in Int /\ E \in Int
    BY <1>1, <1>3
  <2>3. d[1].v = hv
    BY <1>4 DEF Unit
  <2> HIDE DEF flags, N, E
  <2>4. HeaderIs(hv, A, 2 * N, E, flags)
    BY ONLY <2>1, <2>2, HeaderParts
  <2> HIDE DEF hv
  <2> QED BY <2>3, <2>4 DEF HeaderIs
<1>9. d[1].k = "header"
  BY <1>4 DEF Unit
<1> HIDE DEF attrs, data, fl, N, E
<1> DEFINE Valid == /\ IsKind(d, 0, "header")
                    /\ SectionValid(d, attrs) /\ SectionValid(d, data) /\ attrs[2] < SECTION_LIMIT
                    /\ \A n \in Entries(attrs) : EntryValid(d, EntryOffset(attrs, n))
                    /\ \A i \in HeaderIndexes : fl[i + 1] = 1 => HeaderValid(d, HeaderPos(data, fl, i))
           found == [ok |-> TRUE, attrs |-> LoadAttrs(d, attrs), headers |-> LoadHeaders(d, data, fl),
                     events |-> Slice(d, data[1], data[2])]
<1>10. OpenLayout(d) = IF Valid THEN found ELSE Refused
  BY DEF OpenLayout, attrs, data, fl
<1> HIDE DEF Valid
<1>11. OpenLayout(d).ok <=> Valid
  BY <1>10 DEF Refused
<1>12. Entries(attrs) = 1 .. N /\ \A n \in 1 .. N : EntryOffset(attrs, n) = A + 2 * n - 2
  <2>1. (2 * N + 2 - 1) \div 2 = N
    BY <1>0
  <2>2. \A n \in 1 .. N : A + (n - 1) * 2 = A + 2 * n - 2
    BY <1>0, <1>3
  <2> QED BY <2>1, <2>2, <1>8 DEF Entries, EntryOffset, ENTRY_SIZE
<1>13. ASSUME NEW n \in 1 .. N
       PROVE  /\ LoadEntry(d, EntryOffset(attrs, n)) = [attr |-> y.descs[n].attr, ids |-> y.descs[n].ids]
              /\ Len(y.descs[N].ids) # 0 /\ Len(y.descs[n].ids) < SECTION_LIMIT
                 => EntryValid(d, EntryOffset(attrs, n))
  <2> DEFINE p == EntryOffset(attrs, n)
             ids == y.descs[n].ids
  <2>1. PICK o \in Nat : EntryAt(d, y, A, n, o)
    BY <1>6
  <2>2. p + 1 = A + 2 * n - 1 /\ p + 2 = A + 2 * n /\ p \in Nat /\ p + 2 <= Len(d)
    <3>1. p = A + 2 * n - 2
      BY <1>12
    <3>2. Len(d) = A + ChunkUnits(AttrChunks(y, A))
      BY <1>4
    <3> HIDE DEF p
    <3> QED BY <3>1, <3>2, <1>0, <1>3, <1>5, SMTT(30)
  <2>3. ids \in Seq(Int) /\ Len(ids) \in Nat /\ ids = [i \in 1 .. Len(ids) |-> ids[i]]
    <3>1. ids \in Seq(Int)
      BY <1>1
    <3> HIDE DEF ids
    <3> QED BY <3>1
  <2> HIDE DEF p
  <2>4. /\ d[p + 1] = Unit("attr", <<y.descs[n].attr>>) /\ d[p + 2] = Unit("section", <<o, Len(ids)>>)
        /\ \A j \in 1 .. Len(ids) : d[o + j] = Unit("id", <<ids[j]>>)
        /\ o + Len(ids) <= Len(d)
        /\ Len(y.descs[N].ids) # 0 => o < Len(d)
    BY <2>1, <2>2, <1>4 DEF EntryAt, N
  <2> HIDE DEF ids
  <2>5. /\ d[p + 1].v[1] = y.descs[n].attr /\ d[p + 1].k = "attr"
        /\ d[p + 2].v[1] = o /\ d[p + 2].v[2] = Len(ids) /\ d[p + 2].k = "section"
    BY <2>4 DEF Unit
  <2>6. \A i \in 1 .. Len(ids) : Slice(d, o, Len(ids))[i].v[1] = ids[i]
    <3>1. \A i \in 1 .. Len(ids) : Slice(d, o, Len(ids))[i] = d[o + i]
      BY <2>3, <2>4, SlicePoints
    <3>2. \A i \in 1 .. Len(ids) : Unit("id", <<ids[i]>>).v[1] = ids[i]
      BY DEF Unit
    <3> QED BY <3>1, <3>2, <2>4
  <2>7. [i \in 1 .. Len(ids) |-> Slice(d, o, Len(ids))[i].v[1]] = ids
    BY <2>3, <2>6
  <2>8. LoadEntry(d, p) = [attr |-> y.descs[n].attr, ids |-> ids]
    BY <2>5, <2>7 DEF LoadEntry
  <2>9. ASSUME Len(y.descs[N].ids) # 0, Len(ids) < SECTION_LIMIT PROVE EntryValid(d, p)
    <3>1. p < Len(d) /\ p + 1 < Len(d) /\ (p + 1) + 1 = p + 2 /\ o < Len(d) /\ Len(ids) <= Len(d) - o
      BY <2>2, <2>3, <2>4, <2>9, SMTT(30)
    <3> QED BY <3>1, <2>5, <2>9 DEF EntryValid, IsKind, SectionValid
  <2> QED BY <2>8, <2>9 DEF p, ids
<1>14. ASSUME NEW i \in HeaderIndexes, y.headers[i] # <<>>
       PROVE  /\ LoadHeader(d, HeaderPos(data, fl, i)) = y.headers[i]
              /\ A < Len(d) /\ Len(y.headers[i]) < SECTION_LIMIT
                 => HeaderValid(d, HeaderPos(data, fl, i))
  <2> DEFINE p == HeaderPos(data, fl, i)
             c == y.headers[i]
  <2>1. PICK o \in Nat : HeaderAt(d, y, P, i, o)
    BY <1>7, <1>14
  <2>2. SetBelow(y, i) \in Nat
    BY <1>7, <1>14
  <2>3. p = P + SetBelow(y, i)
    BY <1>8, HeaderPosIs
  <2>4. c \in Seq(Units) /\ Len(c) \in Nat
    BY DEF Writers, WriterRecords
  <2>5. /\ d[p + 1] = Unit("section", <<o, Len(c)>>)
        /\ \A j \in 1 .. Len(c) : d[o + j] = c[j]
        /\ p < o /\ o + Len(c) <= A
    BY <2>1, <2>3, <1>3 DEF HeaderAt
  <2>6. p \in Nat /\ A <= Len(d) /\ Len(d) \in Nat
    BY <2>2, <2>3, <1>1, <1>3, <1>4, <1>5, SMTT(30)
  <2> HIDE DEF p, c
  <2>7. d[p + 1].k = "section" /\ d[p + 1].v[1] = o /\ d[p + 1].v[2] = Len(c)
    BY <2>5 DEF Unit
  <2>8. o + Len(c) <= Len(d)
    BY <2>4, <2>5, <2>6, <1>3
  <2>9. LoadHeader(d, p) = c
    BY <2>4, <2>5, <2>7, <2>8, SliceIs DEF LoadHeader
  <2>10. ASSUME A < Len(d), Len(c) < SECTION_LIMIT PROVE HeaderValid(d, p)
    <3>1. p < Len(d) /\ o < Len(d) /\ Len(c) <= Len(d) - o
      BY <2>4, <2>5, <2>6, <2>8, <2>10, <1>3
    <3> QED BY <3>1, <2>7, <2>10 DEF HeaderValid, IsKind, SectionValid
  <2> QED BY <2>9, <2>10 DEF p, c
<1>15. ASSUME Valid
       PROVE  /\ OpenLayout(d).events = ev
              /\ OpenLayout(d).attrs =
                     [n \in DOMAIN y.descs |-> [attr |-> y.descs[n].attr, ids |-> y.descs[n].ids]]
              /\ \A i \in HeaderIndexes : OpenLayout(d).headers[i] = y.headers[i]
  <2>1. OpenLayout(d) = found
    BY <1>10, <1>15
  <2>2. Slice(d, data[1], data[2]) = ev
    <3>1. 1 + Len(ev) <= Len(d)
      <4>1. Len(d) = A + ChunkUnits(AttrChunks(y, A))
        BY <1>4
      <4> QED BY <4>1, <1>0, <1>3, <1>5 DEF E
    <3> QED BY <3>1, <1>4, <1>8, SliceIs DEF E
  <2>3. LoadAttrs(d, attrs) = [n \in DOMAIN y.descs |-> [attr |-> y.descs[n].attr, ids |-> y.descs[n].ids]]
    <3> DEFINE load(n) == LoadEntry(d, EntryOffset(attrs, n))
               want(n) == [attr |-> y.descs[n].attr, ids |-> y.descs[n].ids]
    <3>1. \A n \in 1 .. N : load(n) = want(n)
      BY <1>13
    <3>2. LoadAttrs(d, attrs) = [n \in 1 .. N |-> load(n)]
      BY <1>12 DEF LoadAttrs
    <3> HIDE DEF load, want
    <3>3. [n \in 1 .. N |-> load(n)] = [n \in 1 .. N |-> want(n)]
      BY <3>1
    <3> QED BY <3>2, <3>3, <1>1 DEF want
  <2>4. ASSUME NEW i \in HeaderIndexes PROVE LoadHeaders(d, data, fl)[i] = y.headers[i]
    <3>1. LoadHeaders(d, data, fl)[i] = IF fl[i + 1] = 1 THEN LoadHeader(d, HeaderPos(data, fl, i)) ELSE <<>>
      BY DEF LoadHeaders
    <3>2. fl[i + 1] = IF y.headers[i] # <<>> THEN 1 ELSE 0
      BY <1>8, FlagsType
    <3> QED BY <3>1, <3>2, <1>14
  <2> QED BY <2>1, <2>2, <2>3, <2>4
<1>16. ASSUME y.descs # <<>>, Len(y.descs[N].ids) # 0, Fits(y) PROVE Valid
  <2>1. N # 0
    BY <1>16 DEF Writers, WriterRecords, N
  <2>2. A < Len(d) /\ 2 * N <= Len(d) - A
    <3>1. Len(d) = A + ChunkUnits(AttrChunks(y, A))
      BY <1>4
    <3> QED BY <3>1, <2>1, <1>0, <1>3, <1>5
  <2>0. /\ 2 * N < SECTION_LIMIT /\ \A n \in 1 .. N : Len(y.descs[n].ids) < SECTION_LIMIT
        /\ \A i \in HeaderIndexes : Len(y.headers[i]) < SECTION_LIMIT
    BY <1>16 DEF Fits, N
  <2>3. SectionValid(d, attrs) /\ attrs[2] < SECTION_LIMIT
    BY <2>0, <2>2, <1>8 DEF SectionValid
  <2>4. SectionValid(d, data)
    <3>1. 1 < Len(d) /\ E <= Len(d) - 1
      BY <2>2, <1>1, <1>3
    <3> QED BY <3>1, <1>8 DEF SectionValid
  <2>5. IsKind(d, 0, "header")
    <3>1. 0 < Len(d) /\ 0 + 1 = 1
      BY <2>2, <1>3
    <3> QED BY <3>1, <1>9 DEF IsKind
  <2>6. \A n \in Entries(attrs) : EntryValid(d, EntryOffset(attrs, n))
    BY <2>0, <1>12, <1>13, <1>16
  <2>7. ASSUME NEW i \in HeaderIndexes, fl[i + 1] = 1 PROVE HeaderValid(d, HeaderPos(data, fl, i))
    <3>1. y.headers[i] # <<>>
      BY <2>7, <1>8, FlagsType
    <3> QED BY <3>1, <2>0, <2>2, <1>14
  <2> QED BY <2>3, <2>4, <2>5, <2>6, <2>7 DEF Valid
<1> QED BY <1>11, <1>15, <1>16 DEF N

-----------------------------------------------------------------------------
(* The setters keep the types.                                             *)
LEMMA CutType ==
  ASSUME NEW s \in Seq(Int)
  PROVE  CutAtNul(s) \in Seq(Int) /\ Len(CutAtNul(s)) \in Nat /\ Len(CutAtNul(s)) <= Len(s)
<1> DEFINE Z == {i \in DOMAIN s : s[i] = 0}
<1>1. CASE Z = {}
  <2>1. CutAtNul(s) = s
    BY <1>1 DEF CutAtNul
  <2> QED BY <2>1
<1>2. CASE Z # {}
  <2>1. Z \in SUBSET Nat /\ \A i \in Z : i \in 1 .. Len(s)
    OBVIOUS
  <2> DEFINE m == Min(Z)
  <2>2. CutAtNul(s) = SubSeq(s, 1, m - 1)
    BY <1>2 DEF CutAtNul
  <2>3. m \in Z
    BY <1>2, <2>1, NatMin
  <2> HIDE DEF m
  <2>4. m \in 1 .. Len(s)
    BY <2>1, <2>3
  <2> HIDE DEF Z
  <2>5. m - 1 \in Int /\ \A i \in 1 .. m - 1 : s[i] \in Int
    BY <2>4
  <2>6. SubSeq(s, 1, m - 1) \in Seq(Int)
    BY <2>5, SubSeqProperties
  <2>7. Len(SubSeq(s, 1, m - 1)) <= Len(s)
    BY <2>4
  <2> QED BY <2>2, <2>6, <2>7
<1> QED BY <1>1, <1>2

(* A name has at least as many bytes as characters.                        *)
LEMMA NameFits ==
  ASSUME NEW ids, NEW name \in Seq(Int), DescAccepted(ids, name)
  PROVE  Len(CutAtNul(name)) < NAME_MAX_SIZE
<1> DEFINE wide == {i \in DOMAIN name : IsWide(name[i])}
           n == Len(name)
<1>1. n \in Nat /\ NAME_MAX_SIZE \in Nat
  BY WriterAssumption
<1>2. Cardinality(wide) \in Nat
  <2>1. DOMAIN name = 1 .. n
    OBVIOUS
  <2>2. 1 \in Int /\ n \in Int
    BY <1>1
  <2> HIDE DEF n
  <2>3. IsFiniteSet(1 .. n)
    BY <2>2, FS_Interval
  <2>4. wide \in SUBSET (1 .. n)
    BY <2>1
  <2>5. IsFiniteSet(wide)
    BY <2>3, <2>4, FS_Subset
  <2> QED BY <2>5, FS_CardinalityType
<1>3. n + Cardinality(wide) < NAME_MAX_SIZE
  BY DEF DescAccepted, Utf8Len
<1>4. Len(CutAtNul(name)) \in Nat /\ Len(CutAtNul(name)) <= n
  BY CutType
<1> HIDE DEF n, wide
<1> QED BY <1>1, <1>2, <1>3, <1>4

LEMMA WithHeaderType ==
  ASSUME NEW x \in Writers, NEW index, NEW content \in Seq(Units)
  PROVE  WithHeader(x, index, content) \in Writers /\ WithHeader(x, index, content).descs = x.descs
  BY DEF WithHeader, Writers, WriterRecords

LEMMA StringType ==
  ASSUME NEW s \in Seq(Int)
  PROVE  StringContent(s) \in Seq(Units)
<1> DEFINE t == CutAtNul(s)
           v == <<Len(t) + 1>> \o t
<1>1. t \in Seq(Int) /\ Len(t) \in Nat
  BY CutType
<1> HIDE DEF t
<1>2. <<Len(t) + 1>> \in Seq(Int)
  BY <1>1
<1>3. v \in Seq(Int)
  BY <1>1, <1>2, JoinPoints
<1> HIDE DEF v
<1>4. "string" \in Kinds
  BY DEF Kinds
<1>5. <<Unit("string", v)>> \in Seq(Units)
  BY <1>3, <1>4, UnitType
<1> QED BY <1>5 DEF StringContent, v, t

LEMMA ClockType ==
  ASSUME NEW id \in Int, NEW wall \in Int, NEW time \in Int
  PROVE  ClockIdContent(id) \in Seq(Units) /\ ClockDataContent(id, wall, time) \in Seq(Units)
<1> DEFINE u == <<id>>
           v == <<1, id, wall, time>>
<1>1. u \in Seq(Int) /\ v \in Seq(Int)
  OBVIOUS
<1> HIDE DEF u, v
<1>2. "clockid" \in Kinds /\ "clock_data" \in Kinds
  BY DEF Kinds
<1>3. <<Unit("clockid", u)>> \in Seq(Units) /\ <<Unit("clock_data", v)>> \in Seq(Units)
  BY <1>1, <1>2, UnitType
<1> QED BY <1>3 DEF ClockIdContent, ClockDataContent, Unit, u, v

LEMMA SessionType ==
  ASSUME NEW s \in Sessions
  PROVE  SessionClockId(s) \in Seq(Units) /\ SessionClockData(s) \in Seq(Units)
<1>1. s.clock_id \in Int /\ s.seconds \in Int /\ s.nanoseconds \in Int
  BY WriterAssumption
<1>2. \A n \in Int : WrapU64(n) \in Int
  BY ClockAssumption DEF WrapU64
<1>3. s.seconds * BILLION + s.nanoseconds \in Int /\ (-s.seconds) * BILLION - s.nanoseconds \in Int
  BY <1>1, ClockAssumption
<1>4. GetClockData(s)[1] \in Int /\ GetClockData(s)[2] \in Int
  <2>1. WrapU64(s.seconds * BILLION + s.nanoseconds) \in Int
        /\ WrapU64((-s.seconds) * BILLION - s.nanoseconds) \in Int
    BY <1>2, <1>3
  <2> QED BY <2>1 DEF GetClockData
<1>5. <<>> \in Seq(Units)
  OBVIOUS
<1> QED BY <1>1, <1>4, <1>5, ClockType DEF SessionClockId, SessionClockData

(* The calls of the API that only change what will be written; every       *)
(* description comes from AddEventDesc or AddTracepointEventDesc.          *)
LEMMA DescAdded ==
  ASSUME NEW x \in Writers, NEW ids \in IdLists, NEW attr \in Attrs, NEW name \in Names,
         DescAccepted(ids, name)
  PROVE  /\ WithDesc(x, ids, attr, name) \in Writers
         /\ WithDesc(x, ids, attr, name).formats = x.formats
         /\ WithDesc(x, ids, attr, name).descs
               = Append(x.descs, [attr |-> attr, name |-> CutAtNul(name), ids |-> ids])
<1> DEFINE n == CutAtNul(name)
           desc == [attr |-> attr, name |-> n, ids |-> ids]
<1>1. ids \in Seq(Int) /\ attr \in Int /\ name \in Seq(Int)
  BY WriterAssumption
<1>2. n \in Seq(Int) /\ Len(n) < NAME_MAX_SIZE
  BY <1>1, CutType, NameFits
<1> HIDE DEF n
<1>3. desc \in Descs
  BY <1>1, <1>2 DEF Descs
<1> HIDE DEF desc
<1>4. WithDesc(x, ids, attr, name) = [x EXCEPT !.descs = Append(@, desc)]
  BY DEF WithDesc, desc, n
<1>5. x \in WriterRecords /\ x.formats \in FormatSets /\ x.descs \in Seq(Descs)
  BY DEF Writers, WriterRecords
<1>6. Append(x.descs, desc) \in Seq(Descs)
  BY <1>3, <1>5
<1>7. [x EXCEPT !.descs = Append(@, desc)] \in WriterRecords
      /\ [x EXCEPT !.descs = Append(@, desc)].formats = x.formats
      /\ [x EXCEPT !.descs = Append(@, desc)].descs = Append(x.descs, desc)
  BY <1>5, <1>6 DEF WriterRecords
<1> QED BY <1>4, <1>5, <1>7 DEF Writers, desc, n

LEMMA SizesSet ==
  ASSUME NEW x \in WriterRecords, NEW long \in Int, NEW page \in Int
  PROVE  /\ [x EXCEPT !.long_size = long, !.page_size = page] \in WriterRecords
         /\ [x EXCEPT !.long_size = long, !.page_size = page].descs = x.descs
         /\ [x EXCEPT !.long_size = long, !.page_size = page].formats = x.formats
<1> DEFINE y == [x EXCEPT !.long_size = long]
<1>1. y \in WriterRecords /\ y.descs = x.descs /\ y.formats = x.formats
  BY DEF WriterRecords
<1>2. [x EXCEPT !.long_size = long, !.page_size = page] = [y EXCEPT !.page_size = page]
  BY DEF WriterRecords
<1> HIDE DEF y
<1>3. [y EXCEPT !.page_size = page] \in WriterRecords
      /\ [y EXCEPT !.page_size = page].descs = y.descs
      /\ [y EXCEPT !.page_size = page].formats = y.formats
  BY <1>1 DEF WriterRecords
<1> QED BY <1>1, <1>2, <1>3

SameFile == UNCHANGED <<disk, fpos, file, pc, fin, history>>

LEMMA SettersType ==
  ASSUME w \in Writers, Setters
  PROVE  /\ w' \in Writers /\ pc = "idle" /\ SameFile
         /\ \/ w'.descs = w.descs
            \/ \E ids \in IdLists, attr \in Attrs, name \in Names :
                  w'.descs = Append(w.descs, [attr |-> attr, name |-> CutAtNul(name), ids |-> ids])
<1> USE DEF Setter, SameFile
<1> DEFINE Goal == /\ w' \in Writers /\ pc = "idle" /\ SameFile
                   /\ \/ w'.descs = w.descs
                      \/ \E ids \in IdLists, attr \in Attrs, name \in Names :
                            w'.descs = Append(w.descs, [attr |-> attr, name |-> CutAtNul(name), ids |-> ids])
<1>0. ASSUME NEW new \in Writers, new.descs = w.descs, Setter(new) PROVE Goal
  BY <1>0
<1>1. CASE SetHeader
  <2>1. PICK index \in {TracingData, EventDesc, NrCpus, OutOfRange}, data \in Payloads :
           Setter(WithHeader(w, index, data))
    BY <1>1 DEF SetHeader
  <2>2. data \in Seq(Units)
    BY WriterAssumption
  <2> QED BY <2>1, <2>2, <1>0, WithHeaderType
<1>2. CASE SetStringHeader
  <2>1. PICK index \in {Hostname, OutOfRange}, s \in Strings : Setter(WithHeader(w, index, StringContent(s)))
    BY <1>2 DEF SetStringHeader
  <2>2. StringContent(s) \in Seq(Units)
    BY WriterAssumption, StringType
  <2> QED BY <2>1, <2>2, <1>0, WithHeaderType
<1>3. CASE SetNrCpusHeader \/ SetSampleTimeHeader
  <2>1. <<Unit("word", <<2>>), Unit("word", <<1>>)>> \in Seq(Units)
        /\ <<Unit("u64", <<1>>), Unit("u64", <<3>>)>> \in Seq(Units)
    <3>1. "word" \in Kinds /\ "u64" \in Kinds
      BY DEF Kinds
    <3>2. Unit("word", <<2>>) \in Units /\ Unit("word", <<1>>) \in Units
          /\ Unit("u64", <<1>>) \in Units /\ Unit("u64", <<3>>) \in Units
      BY <3>1, NumberUnit
    <3> QED BY <3>2
  <2> QED BY <2>1, <1>0, <1>3, WithHeaderType DEF SetNrCpusHeader, SetSampleTimeHeader
<1>4. CASE SetClockidHeader \/ SetClockDataHeader
  <2>1. ClockIdContent(1) \in Seq(Units) /\ ClockDataContent(1, 2, 1) \in Seq(Units)
    BY ClockType
  <2> QED BY <2>1, <1>0, <1>4, WithHeaderType DEF SetClockidHeader, SetClockDataHeader
<1>5. CASE SetSessionInfoHeaders
  <2>1. PICK s \in Sessions :
           Setter(WithHeader(WithHeader(w, ClockId, SessionClockId(s)), ClockDataIndex, SessionClockData(s)))
    BY <1>5 DEF SetSessionInfoHeaders
  <2>2. SessionClockId(s) \in Seq(Units) /\ SessionClockData(s) \in Seq(Units)
    BY SessionType
  <2> DEFINE x == WithHeader(w, ClockId, SessionClockId(s))
  <2>3. x \in Writers /\ x.descs = w.descs
    BY <2>2, WithHeaderType
  <2> HIDE DEF x
  <2>4. WithHeader(x, ClockDataIndex, SessionClockData(s)) \in Writers
        /\ WithHeader(x, ClockDataIndex, SessionClockData(s)).descs = w.descs
    BY <2>2, <2>3, WithHeaderType
  <2> QED BY <2>1, <2>4, <1>0 DEF x
<1>6. CASE SetUtsnameHeaders
  <2>1. PICK hostname \in Strings, arch \in Strings :
           Setter(WithHeader(WithHeader(WithHeader(w, Hostname, StringContent(hostname)),
                                        OSRelease, StringContent(<<1>>)),
                             Arch, StringContent(arch)))
    BY <1>6 DEF SetUtsnameHeaders
  <2>2. StringContent(hostname) \in Seq(Units) /\ StringContent(arch) \in Seq(Units)
    BY WriterAssumption, StringType
  <2>3. StringContent(<<1>>) \in Seq(Units)
    <3>1. <<1>> \in Seq(Int)
      OBVIOUS
    <3> QED BY <3>1, StringType
  <2> DEFINE x == WithHeader(w, Hostname, StringContent(hostname))
             y == WithHeader(x, OSRelease, StringContent(<<1>>))
             z == WithHeader(y, Arch, StringContent(arch))
  <2>4. x \in Writers /\ x.descs = w.descs
    BY <2>2, WithHeaderType
  <2> HIDE DEF x
  <2>5. y \in Writers /\ y.descs = w.descs
    BY <2>3, <2>4, WithHeaderType
  <2> HIDE DEF y
  <2>6. z \in Writers /\ z.descs = w.descs
    BY <2>2, <2>5, WithHeaderType
  <2>7. Setter(z)
    BY <2>1 DEF x, y, z
  <2> HIDE DEF z
  <2> QED BY <2>6, <2>7, <1>0
<1>7. CASE \/ SetTracingDataRequired \/ SetTracingDataHeaderPage \/ SetTracingDataHeaderEvent
           \/ SetTracingDataKallsyms \/ SetTracingDataPrintk \/ SetTracingDataSavedCmdLine
  <2>1. PICK new \in Writers : new.descs = w.descs /\ Setter(new)
    <3>1. w \in WriterRecords /\ w.formats \in FormatSets /\ \A b \in Blobs : b \in Int
      BY WriterAssumption DEF Writers
    <3> HIDE DEF Setter
    <3>2. ASSUME NEW new \in WriterRecords, new.descs = w.descs, new.formats = w.formats, Setter(new)
          PROVE  \E x \in Writers : x.descs = w.descs /\ Setter(x)
      BY <3>1, <3>2 DEF Writers
    <3>3. CASE SetTracingDataRequired
      <4>1. PICK page \in {0, 8} : Setter([w EXCEPT !.long_size = 8, !.page_size = page])
        BY <3>3 DEF SetTracingDataRequired
      <4> DEFINE new == [w EXCEPT !.long_size = 8, !.page_size = page]
      <4>2. new \in WriterRecords /\ new.descs = w.descs /\ new.formats = w.formats
        <5>1. page \in Int /\ 8 \in Int
          OBVIOUS
        <5> QED BY <5>1, <3>1, SizesSet
      <4> QED BY <4>1, <4>2, <3>2
    <3>4. CASE SetTracingDataHeaderPage
      BY <3>1, <3>2, <3>4 DEF SetTracingDataHeaderPage, WriterRecords
    <3>5. CASE SetTracingDataHeaderEvent
      BY <3>1, <3>2, <3>5 DEF SetTracingDataHeaderEvent, WriterRecords
    <3>6. CASE SetTracingDataKallsyms
      BY <3>1, <3>2, <3>6 DEF SetTracingDataKallsyms, WriterRecords
    <3>7. CASE SetTracingDataPrintk
      BY <3>1, <3>2, <3>7 DEF SetTracingDataPrintk, WriterRecords
    <3>8. CASE SetTracingDataSavedCmdLine
      BY <3>1, <3>2, <3>8 DEF SetTracingDataSavedCmdLine, WriterRecords
    <3> QED BY <1>7, <3>3, <3>4, <3>5, <3>6, <3>7, <3>8
  <2> QED BY <2>1, <1>0
<1>8. CASE SetTracingDataClearFtraces \/ SetTracingDataAddFtrace
  <2>1. PICK f \in Seq(Int) : Setter([w EXCEPT !.ftraces = f])
    <3>1. w.ftraces \in Seq(Int) /\ w \in WriterRecords /\ \A b \in Blobs : b \in Int
      BY WriterAssumption DEF Writers, WriterRecords
    <3> HIDE DEF Setter
    <3>2. CASE SetTracingDataClearFtraces
      <4>1. Setter([w EXCEPT !.ftraces = <<>>]) /\ <<>> \in Seq(Int)
        BY <3>2 DEF SetTracingDataClearFtraces
      <4> QED BY <4>1
    <3>3. CASE SetTracingDataAddFtrace
      <4>1. PICK b \in Blobs : Setter([w EXCEPT !.ftraces = Append(@, b)])
        BY <3>3 DEF SetTracingDataAddFtrace
      <4>2. Append(w.ftraces, b) \in Seq(Int)
        BY <3>1
      <4>3. [w EXCEPT !.ftraces = Append(@, b)] = [w EXCEPT !.ftraces = Append(w.ftraces, b)]
        OBVIOUS
      <4> QED BY <4>1, <4>2, <4>3
    <3> QED BY <1>8, <3>2, <3>3
  <2>2. [w EXCEPT !.ftraces = f] \in Writers /\ [w EXCEPT !.ftraces = f].descs = w.descs
    BY DEF Writers, WriterRecords
  <2> QED BY <2>1, <2>2, <1>0
<1>9. CASE AddEventDesc
  <2>1. PICK ids \in IdLists, attr \in Attrs, name \in Names :
          Setter(IF DescAccepted(ids, name) THEN WithDesc(w, ids, attr, name) ELSE w)
    BY <1>9 DEF AddEventDesc
  <2>2. CASE ~ DescAccepted(ids, name)
    BY <2>1, <2>2
  <2>3. CASE DescAccepted(ids, name)
    BY <2>1, <2>3, DescAdded
  <2> QED BY <2>2, <2>3
<1>10. CASE AddTracepointEventDesc
  <2>1. PICK f \in Formats, ids \in IdLists, attr \in Attrs, name \in Names :
          Setter(IF DescAccepted(ids, name) /\ ~ HasTracepointEventDesc(f.id)
                 THEN [WithDesc(w, ids, attr, name) EXCEPT !.formats = @ \cup {f}]
                 ELSE w)
    BY <1>10 DEF AddTracepointEventDesc
  <2> DEFINE x == WithDesc(w, ids, attr, name)
             y == [x EXCEPT !.formats = @ \cup {f}]
  <2>2. CASE ~ (DescAccepted(ids, name) /\ ~ HasTracepointEventDesc(f.id))
    BY <2>1, <2>2
  <2>3. CASE DescAccepted(ids, name) /\ ~ HasTracepointEventDesc(f.id)
    <3>1. /\ x \in Writers /\ x.formats = w.formats
          /\ x.descs = Append(w.descs, [attr |-> attr, name |-> CutAtNul(name), ids |-> ids])
      BY <2>3, DescAdded
    <3>2. Setter(y)
      BY <2>1, <2>3
    <3> HIDE DEF x
    <3>3. f \in FormatRecords /\ \A g \in x.formats : g.id # f.id
      BY <2>3, <3>1, WriterAssumption DEF HasTracepointEventDesc, FormatRecords
    <3>4. x.formats \cup {f} \in FormatSets
      <4>1. IsFiniteSet(x.formats) /\ x.formats \in SUBSET FormatRecords /\ OneEach(x.formats)
        BY <3>1 DEF Writers, FormatSets
      <4>2. IsFiniteSet(x.formats \cup {f})
        BY <4>1, FS_AddElement
      <4>3. OneEach(x.formats \cup {f})
        BY <4>1, <3>3, Zenon DEF OneEach
      <4> QED BY <4>1, <4>2, <4>3, <3>3 DEF FormatSets
    <3>5. y \in Writers /\ y.descs = x.descs
      <4>1. x \in WriterRecords /\ x.formats \cup {f} \in SUBSET FormatRecords
        BY <3>1, <3>4 DEF Writers, FormatSets
      <4>2. y \in WriterRecords /\ y.formats = x.formats \cup {f} /\ y.descs = x.descs
        BY <4>1 DEF WriterRecords
      <4> HIDE DEF y
      <4> QED BY <4>2, <3>4 DEF Writers
    <3> HIDE DEF y
    <3>6. w' = y /\ pc = "idle" /\ SameFile
      BY <3>2
    <3> QED BY <3>1, <3>5, <3>6
  <2> QED BY <2>2, <2>3
<1> QED BY <1>1, <1>2, <1>3, <1>4, <1>5, <1>6, <1>7, <1>8, <1>9, <1>10 DEF Setters

-----------------------------------------------------------------------------
(* Put: the units of a write, and what stays of the file around them.      *)
LEMMA PutPoints ==
  ASSUME NEW S, NEW d \in Seq(S), NEW u \in Seq(S), NEW at \in 0 .. Len(d)
  PROVE  /\ Put(d, at, u) \in Seq(S)
         /\ Len(Put(d, at, u)) = IF at + Len(u) > Len(d) THEN at + Len(u) ELSE Len(d)
         /\ \A i \in 1 .. Len(Put(d, at, u)) :
               Put(d, at, u)[i] = IF i > at /\ i <= at + Len(u) THEN u[i - at] ELSE d[i]
<1> DEFINE n == IF at + Len(u) > Len(d) THEN at + Len(u) ELSE Len(d)
           p == Put(d, at, u)
<1>1. n \in Nat /\ at \in Nat /\ Len(u) \in Nat /\ Len(d) \in Nat
  OBVIOUS
<1>2. p = [i \in 1 .. n |-> IF i > at /\ i <= at + Len(u) THEN u[i - at] ELSE d[i]]
  BY DEF Put
<1>3. \A i \in 1 .. n : p[i] = IF i > at /\ i <= at + Len(u) THEN u[i - at] ELSE d[i]
  BY ONLY <1>2
<1>4. \A i \in 1 .. n : p[i] \in S
  <2> TAKE i \in 1 .. n
  <2>1. CASE i > at /\ i <= at + Len(u)
    <3>1. i - at \in 1 .. Len(u)
      BY <2>1, <1>1
    <3>2. u[i - at] \in S
      BY <3>1
    <3>3. p[i] = u[i - at]
      BY <2>1, <1>3
    <3> QED BY <3>2, <3>3
  <2>2. CASE ~ (i > at /\ i <= at + Len(u))
    <3>1. i \in 1 .. Len(d)
      BY <2>2, <1>1
    <3> QED BY <3>1, <2>2, <1>3
  <2> QED BY <2>1, <2>2
<1>5. p = [i \in 1 .. n |-> p[i]]
  BY ONLY <1>2
<1> HIDE DEF p
<1>6. p \in Seq(S) /\ Len(p) = n
  BY ONLY <1>1, <1>4, <1>5, IsSeq
<1> QED BY <1>3, <1>6 DEF p

(* A write at the end of the file.                                         *)
Longer(e, d, u) ==
    /\ Len(e) = Len(d) + Len(u)
    /\ \A i \in 1 .. Len(d) : e[i] = d[i]
    /\ \A i \in 1 .. Len(u) : e[Len(d) + i] = u[i]

LEMMA PutEnd ==
  ASSUME NEW S, NEW d \in Seq(S), NEW u \in Seq(S)
  PROVE  Put(d, Len(d), u) \in Seq(S) /\ Longer(Put(d, Len(d), u), d, u)
<1> DEFINE p == Put(d, Len(d), u)
<1>1. Len(d) \in 0 .. Len(d) /\ Len(d) \in Nat /\ Len(u) \in Nat
  OBVIOUS
<1>2. /\ p \in Seq(S)
      /\ Len(p) = IF Len(d) + Len(u) > Len(d) THEN Len(d) + Len(u) ELSE Len(d)
      /\ \A i \in 1 .. Len(p) : p[i] = IF i > Len(d) /\ i <= Len(d) + Len(u) THEN u[i - Len(d)] ELSE d[i]
  BY <1>1, PutPoints
<1> HIDE DEF p
<1>3. Len(p) = Len(d) + Len(u)
  BY <1>1, <1>2
<1>4. ASSUME NEW i \in 1 .. Len(d) PROVE p[i] = d[i]
  <2>1. i \in 1 .. Len(p) /\ ~ (i > Len(d))
    BY <1>1, <1>3
  <2> QED BY <2>1, <1>2
<1>5. ASSUME NEW i \in 1 .. Len(u) PROVE p[Len(d) + i] = u[i]
  <2>1. Len(d) + i \in 1 .. Len(p) /\ Len(d) + i > Len(d) /\ Len(d) + i <= Len(d) + Len(u)
        /\ (Len(d) + i) - Len(d) = i
    BY <1>1, <1>3
  <2> QED BY <2>1, <1>2
<1>6. Longer(p, d, u)
  BY <1>3, <1>4, <1>5 DEF Longer
<1> QED BY <1>2, <1>6 DEF p

(* The rewrite of the first unit.                                          *)
LEMMA PutFirst ==
  ASSUME NEW S, NEW d \in Seq(S), NEW u \in S, Len(d) >= 1
  PROVE  /\ Put(d, 0, <<u>>) \in Seq(S) /\ Len(Put(d, 0, <<u>>)) = Len(d)
         /\ Put(d, 0, <<u>>)[1] = u
         /\ \A i \in 2 .. Len(d) : Put(d, 0, <<u>>)[i] = d[i]
<1> DEFINE p == Put(d, 0, <<u>>)
<1>1. 0 \in 0 .. Len(d) /\ Len(d) \in Nat /\ <<u>> \in Seq(S) /\ Len(<<u>>) = 1 /\ <<u>>[1] = u
  OBVIOUS
<1>2. /\ p \in Seq(S)
      /\ Len(p) = IF 0 + Len(<<u>>) > Len(d) THEN 0 + Len(<<u>>) ELSE Len(d)
      /\ \A i \in 1 .. Len(p) : p[i] = IF i > 0 /\ i <= 0 + Len(<<u>>) THEN <<u>>[i - 0] ELSE d[i]
  BY ONLY <1>1, PutPoints
<1> HIDE DEF p
<1>3. Len(p) = Len(d) /\ 1 \in 1 .. Len(p)
  BY <1>1, <1>2
<1>4. p[1] = u
  <2>1. p[1] = <<u>>[1 - 0]
    BY <1>1, <1>2, <1>3
  <2> QED BY <2>1
<1>5. ASSUME NEW i \in 2 .. Len(d) PROVE p[i] = d[i]
  <2>1. i \in 1 .. Len(p) /\ ~ (i <= 0 + Len(<<u>>))
    BY <1>1, <1>3
  <2> QED BY <2>1, <1>2
<1> QED BY <1>2, <1>3, <1>4, <1>5 DEF p

-----------------------------------------------------------------------------
(* The chunks that finalize_and_close has still to write are the last ones *)
(* of a list, and inner_pos is where the first of them belongs.            *)
Written(chunks, todo) == Len(chunks) - Len(todo)

Pending(chunks, start, todo, at) ==
    /\ Written(chunks, todo) \in 0 .. Len(chunks)
    /\ \A i \in 1 .. Len(todo) : todo[i] = chunks[Written(chunks, todo) + i]
    /\ at = start + SizesBefore(Lens(chunks), Written(chunks, todo) + 1)

LEMMA PendingStart ==
  ASSUME NEW S, NEW chunks \in Seq(Seq(S)), NEW start \in Nat
  PROVE  /\ Pending(chunks, start, chunks, start) /\ Written(chunks, chunks) = 0
         /\ \A d : Holds(d, start, chunks, Written(chunks, chunks))
<1>1. Len(chunks) \in Nat /\ Written(chunks, chunks) = 0
  BY DEF Written
<1>2. SizesBefore(Lens(chunks), 1) = 0
  BY SumFirst
<1>3. start = start + SizesBefore(Lens(chunks), Written(chunks, chunks) + 1)
  BY <1>1, <1>2
<1>4. \A i \in 1 .. Len(chunks) : chunks[i] = chunks[Written(chunks, chunks) + i]
  BY <1>1
<1>5. \A d : Holds(d, start, chunks, Written(chunks, chunks))
  BY <1>1 DEF Holds
<1> QED BY <1>1, <1>3, <1>4, <1>5 DEF Pending

LEMMA PendingStep ==
  ASSUME NEW S, NEW chunks \in Seq(Seq(S)), NEW start \in Nat, NEW todo \in Seq(Seq(S)), NEW at \in Nat,
         Pending(chunks, start, todo, at), todo # <<>>
  PROVE  /\ Pending(chunks, start, Tail(todo), at + Len(Head(todo)))
         /\ Written(chunks, Tail(todo)) = Written(chunks, todo) + 1
         /\ Written(chunks, todo) + 1 \in 1 .. Len(chunks)
         /\ Head(todo) = chunks[Written(chunks, todo) + 1]
<1> DEFINE k == Written(chunks, todo)
<1>1. Len(todo) \in Nat /\ Len(todo) >= 1 /\ Len(chunks) \in Nat
  OBVIOUS
<1>2. Tail(todo) \in Seq(Seq(S)) /\ Len(Tail(todo)) = Len(todo) - 1 /\ Head(todo) = todo[1]
      /\ \A i \in 1 .. Len(Tail(todo)) : Tail(todo)[i] = todo[i + 1]
  <2>1. todo \in Seq(Seq(S)) /\ todo # <<>>
    OBVIOUS
  <2> QED BY ONLY <2>1, HeadTailProperties
<1>3. k = Len(chunks) - Len(todo) /\ k \in 0 .. Len(chunks)
      /\ (\A i \in 1 .. Len(todo) : todo[i] = chunks[k + i])
      /\ at = start + SizesBefore(Lens(chunks), k + 1)
  BY DEF Pending, Written
<1>4. Written(chunks, Tail(todo)) = k + 1
  <2>1. Written(chunks, Tail(todo)) = Len(chunks) - Len(Tail(todo)) /\ Len(Tail(todo)) = Len(todo) - 1
    BY <1>2 DEF Written
  <2> HIDE DEF k
  <2> QED BY ONLY <2>1, <1>1, <1>3
<1> HIDE DEF k
<1>5. k + 1 \in 1 .. Len(chunks) /\ k \in Nat
  BY <1>1, <1>3
<1>6. Head(todo) = chunks[k + 1]
  <2>1. 1 \in 1 .. Len(todo)
    BY <1>1
  <2> QED BY <2>1, <1>2, <1>3
<1>7. \A i \in 1 .. Len(Tail(todo)) : Tail(todo)[i] = chunks[(k + 1) + i]
  <2> TAKE i \in 1 .. Len(Tail(todo))
  <2>1. i + 1 \in 1 .. Len(todo) /\ k + (i + 1) = (k + 1) + i
    BY <1>1, <1>2, <1>5
  <2> QED BY <2>1, <1>2, <1>3
<1>8. SizesBefore(Lens(chunks), (k + 1) + 1) = SizesBefore(Lens(chunks), k + 1) + Lens(chunks)[k + 1]
  <2>1. k + 1 \in Nat \ {0}
    BY <1>5
  <2> QED BY ONLY <2>1, SumNext
<1>9. Lens(chunks)[k + 1] = Len(Head(todo)) /\ Lens(chunks)[k + 1] \in Nat
      /\ SizesBefore(Lens(chunks), k + 1) \in Nat
  <2>1. k + 1 \in 1 .. Len(chunks) + 1
    BY <1>1, <1>5
  <2> QED BY <2>1, <1>5, <1>6, LensType
<1>10. at + Len(Head(todo)) = start + SizesBefore(Lens(chunks), (k + 1) + 1)
  BY ONLY <1>3, <1>8, <1>9
<1>11. k + 1 \in 0 .. Len(chunks)
  BY <1>5
<1>12. Pending(chunks, start, Tail(todo), at + Len(Head(todo)))
  BY <1>4, <1>7, <1>10, <1>11 DEF Pending
<1> QED BY <1>4, <1>5, <1>6, <1>12 DEF k

LEMMA PendingEnd ==
  ASSUME NEW S, NEW chunks \in Seq(Seq(S)), NEW start \in Nat, NEW at,
         Pending(chunks, start, <<>>, at)
  PROVE  Written(chunks, <<>>) = Len(chunks) /\ at = start + ChunkUnits(chunks)
<1>1. Written(chunks, <<>>) = Len(chunks)
  BY DEF Written
<1> QED BY <1>1, LensType DEF Pending

(* The write of the next chunk at the end of the file.                     *)
LEMMA WrittenStep ==
  ASSUME NEW S, NEW chunks \in Seq(Seq(S)), NEW start \in Nat, NEW todo \in Seq(Seq(S)), NEW d \in Seq(S),
         Pending(chunks, start, todo, Len(d)), todo # <<>>,
         Holds(d, start, chunks, Written(chunks, todo))
  PROVE  Holds(Put(d, Len(d), Head(todo)), start, chunks, Written(chunks, Tail(todo)))
<1> DEFINE k == Written(chunks, todo)
           u == Head(todo)
           e == Put(d, Len(d), u)
<1>1. Len(d) \in Nat /\ u \in Seq(S)
  OBVIOUS
<1>2. Written(chunks, Tail(todo)) = k + 1 /\ k + 1 \in 1 .. Len(chunks) /\ u = chunks[k + 1]
  BY <1>1, PendingStep
<1>3. Len(d) = start + SizesBefore(Lens(chunks), k + 1) /\ k \in 0 .. Len(chunks)
  BY DEF Pending
<1>4. (\A i \in 1 .. Len(d) : e[i] = d[i]) /\ (\A i \in 1 .. Len(u) : e[Len(d) + i] = u[i])
  <2> HIDE DEF u, e
  <2>1. d \in Seq(S) /\ u \in Seq(S)
    BY <1>1
  <2>2. Longer(Put(d, Len(d), u), d, u)
    BY ONLY <2>1, PutEnd
  <2>3. Longer(e, d, u)
    BY <2>2 DEF e
  <2> QED BY ONLY <2>3 DEF Longer
<1> HIDE DEF k, u, e
<1>5. SizesBefore(Lens(chunks), k + 1) \in Nat
  <2>1. k + 1 \in 1 .. Len(chunks) + 1
    BY <1>3
  <2> QED BY <2>1, LensType
<1>6. Holds(e, start, chunks, k)
  <2>1. Holds(d, start, chunks, k)
    BY DEF k
  <2>2. \A i \in start + 1 .. start + SizesBefore(Lens(chunks), k + 1) : e[i] = d[i]
    BY <1>1, <1>3, <1>4, <1>5
  <2> QED BY ONLY <2>1, <2>2, <1>3, HoldsKept, start \in Nat, chunks \in Seq(Seq(S))
<1>7. ChunkAt(e, start, chunks, k + 1)
  BY <1>2, <1>3, <1>4 DEF ChunkAt
<1>8. ASSUME NEW n \in 1 .. k + 1 PROVE ChunkAt(e, start, chunks, n)
  <2>1. n \in 1 .. k \/ n = k + 1
    BY <1>3
  <2> QED BY <2>1, <1>6, <1>7 DEF Holds
<1>9. Holds(e, start, chunks, k + 1)
  BY <1>8 DEF Holds
<1> QED BY <1>2, <1>9 DEF e, u, k

-----------------------------------------------------------------------------
(* The inductive invariant.                                                *)
Busy == {"headers", "attrs", "rewrite"}

Fins == [data_end : Nat, flags : Seq(Int), end : Nat, attrs : Seq(Int),
         todo : Seq(Seq(Units)), written : Seq(Units)]

(* Types: what is in the file, the position of the descriptor inside it,   *)
(* the file or none, what was set, and the locals of finalize_and_close.   *)
WriterType ==
    /\ disk \in Seq(Units) /\ fpos \in 0 .. Len(disk)
    /\ file \in Nat \cup {Closed}
    /\ w \in Writers
    /\ pc \in {"idle", "panicked"} \cup Busy
    /\ fin \in Fins
    /\ calls \in 0 .. MaxCalls
    /\ events \in Seq(Units)
    /\ given = <<>> \/ (Len(given) = 1 /\ given[1] \in Writers)
    /\ damaged \in BOOLEAN /\ done \in BOOLEAN

(* Where finalize_and_close is in its two lists of chunks.  It holds after *)
(* any failure, whatever the file holds.                                   *)
InHeaders == Pending(HeaderChunks(w, fin.data_end), fin.data_end, fin.todo, file)
InAttrs == Pending(AttrChunks(w, fin.end), fin.end, fin.todo, file)

FinalizeInv ==
    pc \in Busy =>
        /\ file \in Nat /\ given # <<>> /\ w = Synthesized(given[1])
        /\ fin.flags = Flags(w)
        /\ fin.end = fin.data_end + ChunkUnits(HeaderChunks(w, fin.data_end))
        /\ pc = "headers" => InHeaders
        /\ pc # "headers" => fin.attrs = <<fin.end, ENTRY_SIZE * Len(w.descs)>>
        /\ pc = "attrs" => InAttrs

(* The file begins with an empty header and the events.                    *)
Recorded == disk[1] = ZeroHeader /\ \A j \in 1 .. Len(events) : disk[1 + j] = events[j]

AtEnd == file = Len(disk) /\ fpos = Len(disk)

(* A file that is not being finalized holds what was accepted so far, what *)
(* failed attempts to finalize it left, and nothing else.                  *)
RecordingInv ==
    ~damaged /\ pc = "idle" /\ file # Closed =>
        ~done /\ AtEnd /\ Len(disk) = 1 + Len(events) /\ Recorded

(* While it is being finalized, the units written since then follow.       *)
LeftOver ==
    /\ Len(disk) = 1 + Len(events) + Len(fin.written)
    /\ \A j \in 1 .. Len(fin.written) : disk[1 + Len(events) + j] = fin.written[j]

LeftInv == ~damaged /\ pc \in {"headers", "attrs"} => LeftOver

WroteHeaders(n) == Holds(disk, fin.data_end, HeaderChunks(w, fin.data_end), n)
WroteAttrs(n) == Holds(disk, fin.end, AttrChunks(w, fin.end), n)
AllHeaders == WroteHeaders(Len(HeaderChunks(w, fin.data_end)))
AllAttrs == WroteAttrs(Len(AttrChunks(w, fin.end)))

WritingInv ==
    ~damaged /\ pc \in Busy =>
        /\ ~done /\ fin.data_end = 1 + Len(events) /\ Recorded
        /\ Len(disk) >= 1 + Len(events)
        /\ pc = "headers" =>
              AtEnd /\ WroteHeaders(Written(HeaderChunks(w, fin.data_end), fin.todo))
        /\ pc = "attrs" =>
              AtEnd /\ AllHeaders /\ WroteAttrs(Written(AttrChunks(w, fin.end), fin.todo))
        /\ pc = "rewrite" =>
              /\ fpos = 0 /\ Len(disk) = fin.end + ChunkUnits(AttrChunks(w, fin.end))
              /\ AllHeaders /\ AllAttrs

(* Only the rewrite of the header makes a file that a reader accepts.      *)
HeaderInv == ~damaged /\ ~done => ~IsKind(disk, 0, "header")

FinishedInv ==
    done /\ ~damaged =>
        /\ file = Closed /\ pc \notin Busy
        /\ given # <<>> /\ Complete(disk, Synthesized(given[1]), events)

WriterInv ==
    /\ WriterType /\ FinalizeInv
    /\ RecordingInv /\ LeftInv /\ WritingInv /\ HeaderInv /\ FinishedInv

LEMMA NewWriterType ==
  NewWriter \in Writers /\ NoFin \in Fins
<1>1. <<>> \in Seq(Units) /\ <<>> \in Seq(Descs) /\ <<>> \in Seq(Int) /\ <<>> \in Seq(Seq(Units))
      /\ <<0, 0>> \in Seq(Int)
  OBVIOUS
<1>2. [i \in HeaderIndexes |-> <<>>] \in [HeaderIndexes -> Seq(Units)]
  BY <1>1
<1>3. {} \in SUBSET FormatRecords /\ {} \in FormatSets
  BY FS_EmptySet DEF FormatSets, OneEach
<1>4. NewWriter \in WriterRecords
  BY <1>1, <1>2, <1>3 DEF NewWriter, WriterRecords
<1>5. NewWriter.formats = {}
  BY DEF NewWriter
<1>6. NoFin \in Fins
  BY <1>1 DEF NoFin, Fins
<1> QED BY <1>3, <1>4, <1>5, <1>6 DEF Writers

LEMMA ZeroType == ZeroHeader \in Units /\ ZeroHeader.k # "header" /\ <<ZeroHeader>> \in Seq(Units)
<1>1. "zero" \in Kinds /\ <<>> \in Seq(Int)
  BY DEF Kinds
<1>2. ZeroHeader \in Units /\ ZeroHeader.k # "header"
  BY <1>1 DEF ZeroHeader, Unit, Units
<1> QED BY <1>2

LEMMA InitInv == Init => WriterInv
<1> SUFFICES ASSUME Init PROVE WriterInv
  OBVIOUS
<1>1. /\ disk = <<>> /\ fpos = 0 /\ file = Closed /\ w = NewWriter /\ pc = "idle" /\ fin = NoFin
      /\ calls = 0 /\ events = <<>> /\ given = <<>> /\ damaged = FALSE /\ done = FALSE
  BY DEF Init
<1>2. disk \in Seq(Units) /\ Len(disk) = 0 /\ events \in Seq(Units) /\ Len(events) = 0
  BY <1>1
<1>3. pc \notin Busy
  BY <1>1 DEF Busy
<1>4. MaxCalls \in Nat
  BY WriterAssumption
<1>5. WriterType
  <2>1. fpos \in 0 .. Len(disk) /\ calls \in 0 .. MaxCalls
    BY <1>1, <1>2, <1>4
  <2>2. damaged \in BOOLEAN /\ done \in BOOLEAN
    BY <1>1
  <2> QED BY <1>1, <1>2, <2>1, <2>2, NewWriterType DEF WriterType
<1>7. LeftInv
  BY <1>1 DEF LeftInv
<1>6. HeaderInv
  BY <1>2 DEF HeaderInv, IsKind
<1> QED BY <1>1, <1>3, <1>5, <1>6, <1>7 DEF WriterInv, FinalizeInv, RecordingInv, WritingInv, FinishedInv

(* The first unit of the file after a write.                               *)
LEMMA PutKind ==
  ASSUME NEW d \in Seq(Units), NEW u \in Seq(Units), NEW at \in 0 .. Len(d),
         ~ IsKind(d, 0, "header"), at # 0 \/ \A i \in 1 .. Len(u) : u[i].k # "header"
  PROVE  ~ IsKind(Put(d, at, u), 0, "header")
<1> DEFINE p == Put(d, at, u)
<1>1. /\ p \in Seq(Units)
      /\ Len(p) = IF at + Len(u) > Len(d) THEN at + Len(u) ELSE Len(d)
      /\ \A i \in 1 .. Len(p) : p[i] = IF i > at /\ i <= at + Len(u) THEN u[i - at] ELSE d[i]
  BY PutPoints
<1> HIDE DEF p
<1>2. Len(d) \in Nat /\ Len(u) \in Nat /\ Len(p) \in Nat
  BY <1>1
<1>3. SUFFICES ASSUME 0 < Len(p) PROVE p[1].k # "header"
  BY DEF IsKind, p
<1>4. CASE 1 > at /\ 1 <= at + Len(u)
  <2>1. at = 0 /\ 1 - at = 1 /\ 1 \in 1 .. Len(u) /\ 1 \in 1 .. Len(p)
    BY <1>2, <1>3, <1>4
  <2>2. p[1] = u[1]
    BY <2>1, <1>1, <1>4
  <2> QED BY <2>1, <2>2
<1>5. CASE ~ (1 > at /\ 1 <= at + Len(u))
  <2>1. 1 \in 1 .. Len(p) /\ 0 < Len(d)
    BY <1>1, <1>2, <1>3, <1>5
  <2>2. p[1] = d[1]
    BY <2>1, <1>1, <1>5
  <2> QED BY <2>1, <2>2 DEF IsKind
<1> QED BY <1>4, <1>5

(* create_file starts over; a file that could not be opened stays.         *)
LEMMA CreateInv == ASSUME WriterInv, CreateFile PROVE WriterInv'
<1> USE DEF WriterInv
<1>1. w' = NewWriter /\ pc = "idle" /\ pc' = "idle" /\ fin' = fin /\ (Created \/ NotOpened)
  BY DEF CreateFile
<1>2. pc' \notin Busy /\ w' \in Writers /\ fin' \in Fins /\ pc' \in {"idle", "panicked"} \cup Busy
  BY <1>1, NewWriterType DEF Busy, WriterType
<1>3. calls' \in 0 .. MaxCalls
  <2>1. calls \in 0 .. MaxCalls /\ MaxCalls \in Nat
    BY WriterAssumption DEF WriterType
  <2> QED BY <2>1, <1>1 DEF Created, NotOpened, Spend
<1>4. FinalizeInv' /\ WritingInv' /\ LeftInv'
  BY <1>1, <1>2 DEF FinalizeInv, WritingInv, LeftInv
<1>5. CASE NotOpened
  <2>1. /\ file' = Closed /\ disk' = disk /\ fpos' = fpos
        /\ events' = events /\ given' = given /\ damaged' = damaged /\ done' = done
    BY <1>5 DEF NotOpened, history
  <2>2. WriterType'
    BY <2>1, <1>2, <1>3 DEF WriterType
  <2>3. RecordingInv' /\ HeaderInv'
    BY <2>1 DEF RecordingInv, HeaderInv
  <2>4. FinishedInv'
    BY <2>1, <1>2 DEF FinishedInv
  <2> QED BY <1>4, <2>2, <2>3, <2>4
<1>6. CASE Created
  <2>1. events' = <<>> /\ given' = <<>> /\ damaged' = FALSE /\ done' = FALSE
    BY <1>6 DEF Created
  <2>2. events' \in Seq(Units) /\ Len(events') = 0
        /\ damaged' \in BOOLEAN /\ done' \in BOOLEAN
    <3>1. <<>> \in Seq(Units) /\ Len(<<>>) = 0
      OBVIOUS
    <3>2. events' \in Seq(Units) /\ Len(events') = 0
      BY <2>1, <3>1
    <3>3. damaged' \in BOOLEAN /\ done' \in BOOLEAN
      BY <2>1
    <3> QED BY <3>1, <3>2, <3>3
  <2>3. CASE disk' = Put(OpenTruncated, 0, <<ZeroHeader>>) /\ fpos' = 1 /\ file' = 1
    <3> DEFINE e == <<>>
               u == <<ZeroHeader>>
    <3>1. disk' = Put(e, 0, u) /\ e \in Seq(Units) /\ Len(e) = 0 /\ u \in Seq(Units) /\ Len(u) = 1
          /\ u[1] = ZeroHeader
      BY <2>3, ZeroType DEF OpenTruncated
    <3> HIDE DEF e, u
    <3>2. Put(e, Len(e), u) \in Seq(Units) /\ Longer(Put(e, Len(e), u), e, u)
      BY ONLY <3>1, PutEnd
    <3>3. disk' = Put(e, Len(e), u)
      BY <3>1
    <3>4. disk' \in Seq(Units) /\ Longer(disk', e, u)
      BY <3>2, <3>3
    <3>5. Len(disk') = 1 /\ disk'[1] = ZeroHeader
      <4>1. Len(disk') = 0 + 1 /\ \A i \in 1 .. 1 : disk'[0 + i] = u[i]
        BY <3>1, <3>4 DEF Longer
      <4>2. disk'[0 + 1] = u[1]
        BY <4>1
      <4> QED BY <4>1, <4>2, <3>1
    <3>6. WriterType'
      <4>1. fpos' \in 0 .. Len(disk') /\ file' \in Nat \cup {Closed}
        BY <3>5, <2>3
      <4> QED BY <4>1, <3>4, <2>1, <2>2, <1>2, <1>3 DEF WriterType
    <3>7. RecordingInv'
      <4>1. AtEnd' /\ Len(disk') = 1 + Len(events')
        BY <2>2, <2>3, <3>5 DEF AtEnd
      <4>2. Recorded'
        BY <2>2, <3>5 DEF Recorded
      <4> QED BY <4>1, <4>2, <2>1, <1>1 DEF RecordingInv
    <3>8. HeaderInv'
      BY <3>5, ZeroType DEF HeaderInv, IsKind
    <3>9. FinishedInv'
      BY <2>1 DEF FinishedInv
    <3> QED BY <1>4, <3>6, <3>7, <3>8, <3>9
  <2>4. CASE disk' = OpenTruncated /\ fpos' = 0 /\ file' = Closed
    <3>1. disk' \in Seq(Units) /\ Len(disk') = 0
      BY <2>4 DEF OpenTruncated
    <3>2. WriterType'
      <4>1. fpos' \in 0 .. Len(disk') /\ file' \in Nat \cup {Closed}
        BY <3>1, <2>4
      <4> QED BY <4>1, <3>1, <2>1, <2>2, <1>2, <1>3 DEF WriterType
    <3>3. RecordingInv' /\ HeaderInv' /\ FinishedInv'
      BY <3>1, <2>1, <2>4 DEF RecordingInv, HeaderInv, FinishedInv, IsKind
    <3> QED BY <1>4, <3>2, <3>3
  <2> QED BY <2>3, <2>4, <1>6 DEF Created
<1> QED BY <1>1, <1>5, <1>6

LEMMA CloseInv == ASSUME WriterInv, CloseNoFinalize PROVE WriterInv'
<1> USE DEF WriterInv
<1>1. /\ pc = "idle" /\ pc' = pc /\ file' = Closed /\ w' = NewWriter /\ disk' = disk /\ fpos' = fpos
      /\ fin' = fin /\ calls' = calls
      /\ events' = events /\ given' = given /\ damaged' = damaged /\ done' = done
  BY DEF CloseNoFinalize, history
<1>2. pc' \notin Busy
  BY <1>1 DEF Busy
<1>3. WriterType'
  BY <1>1, NewWriterType DEF WriterType
<1>4. FinalizeInv' /\ WritingInv' /\ LeftInv'
  BY <1>1, <1>2 DEF FinalizeInv, WritingInv, LeftInv
<1>5. RecordingInv' /\ HeaderInv'
  BY <1>1 DEF RecordingInv, HeaderInv
<1>6. FinishedInv'
  BY <1>1, <1>2 DEF FinishedInv
<1> QED BY <1>3, <1>4, <1>5, <1>6

LEMMA StutterInv == ASSUME WriterInv, UNCHANGED vars PROVE WriterInv'
<1>1. /\ disk' = disk /\ fpos' = fpos /\ file' = file /\ w' = w /\ pc' = pc /\ fin' = fin /\ calls' = calls
      /\ events' = events /\ given' = given /\ damaged' = damaged /\ done' = done
  BY DEF vars
<1> QED BY <1>1 DEF WriterInv, WriterType, FinalizeInv, RecordingInv, LeftInv, WritingInv, HeaderInv, FinishedInv,
       InHeaders, InAttrs, Recorded, LeftOver, AtEnd, WroteHeaders, WroteAttrs, AllHeaders, AllAttrs

(* The types after a write, whole or cut short.                            *)
LEMMA WriteAllType ==
  ASSUME WriterType, file \in Nat, NEW u \in Seq(Units), WriteAll(u)
  PROVE  disk' \in Seq(Units) /\ fpos' \in 0 .. Len(disk') /\ file' \in Nat
<1>1. disk \in Seq(Units) /\ fpos \in 0 .. Len(disk)
  BY DEF WriterType
<1>2. disk' = Put(disk, fpos, u) /\ fpos' = fpos + Len(u) /\ file' = file + Len(u)
  BY DEF WriteAll
<1>3. Put(disk, fpos, u) \in Seq(Units)
      /\ Len(Put(disk, fpos, u)) = IF fpos + Len(u) > Len(disk) THEN fpos + Len(u) ELSE Len(disk)
  BY ONLY <1>1, PutPoints, u \in Seq(Units)
<1>4. Len(disk) \in Nat /\ Len(u) \in Nat /\ fpos \in Nat
  BY <1>1
<1>5. fpos + Len(u) \in 0 .. Len(disk')
  BY <1>1, <1>2, <1>3, <1>4
<1> QED BY <1>2, <1>3, <1>4, <1>5

LEMMA WriteAllFailsType ==
  ASSUME WriterType, NEW u \in Seq(Units), WriteAllFails(u)
  PROVE  /\ disk' \in Seq(Units) /\ fpos' \in 0 .. Len(disk') /\ file' = file
         /\ damaged' \in BOOLEAN /\ (~ damaged' => ~ damaged /\ disk' = disk /\ fpos' = fpos)
<1>1. disk \in Seq(Units) /\ fpos \in 0 .. Len(disk)
  BY DEF WriterType
<1>2. PICK n \in 0 .. Len(u) - 1 : disk' = Put(disk, fpos, SubSeq(u, 1, n)) /\ fpos' = fpos + n
                                  /\ damaged' = (damaged \/ n > 0)
  BY DEF WriteAllFails
<1> DEFINE v == SubSeq(u, 1, n)
<1>3. n \in Nat /\ n <= Len(u) /\ Len(u) \in Nat
  OBVIOUS
<1>4. v \in Seq(Units) /\ Len(v) = n /\ \A i \in 1 .. n : v[i] = u[i]
  <2>1. v = [i \in 1 .. n |-> u[i]]
    BY <1>3
  <2>2. \A i \in 1 .. n : u[i] \in Units
    BY <1>3
  <2> HIDE DEF v
  <2>3. v = [i \in 1 .. n |-> v[i]] /\ \A i \in 1 .. n : v[i] = u[i]
    BY ONLY <2>1
  <2>4. \A i \in 1 .. n : v[i] \in Units
    BY <2>2, <2>3
  <2> QED BY ONLY <1>3, <2>3, <2>4, IsSeq
<1>5. disk' = Put(disk, fpos, v)
  BY <1>2
<1> HIDE DEF v
<1>6. Put(disk, fpos, v) \in Seq(Units)
      /\ Len(Put(disk, fpos, v)) = IF fpos + Len(v) > Len(disk) THEN fpos + Len(v) ELSE Len(disk)
  BY ONLY <1>1, <1>4, PutPoints
<1>7. Len(disk) \in Nat /\ fpos \in Nat
  BY <1>1
<1>8. fpos' \in 0 .. Len(disk')
  BY <1>1, <1>2, <1>3, <1>4, <1>5, <1>6, <1>7
<1>9. ASSUME ~ damaged' PROVE ~ damaged /\ disk' = disk /\ fpos' = fpos
  <2>1. ~ damaged /\ n = 0
    <3>1. ~ damaged /\ ~ (n > 0)
      BY <1>2, <1>9, Zenon
    <3> QED BY <3>1, <1>3
  <2>2. /\ Put(disk, fpos, v) \in Seq(Units) /\ Len(Put(disk, fpos, v)) = Len(disk)
        /\ \A i \in 1 .. Len(disk) : Put(disk, fpos, v)[i] = disk[i]
    <3>1. /\ Put(disk, fpos, v) \in Seq(Units)
          /\ Len(Put(disk, fpos, v)) = IF fpos + Len(v) > Len(disk) THEN fpos + Len(v) ELSE Len(disk)
          /\ \A i \in 1 .. Len(Put(disk, fpos, v)) :
                Put(disk, fpos, v)[i] = IF i > fpos /\ i <= fpos + Len(v) THEN v[i - fpos] ELSE disk[i]
      BY ONLY <1>1, <1>4, PutPoints
    <3>2. Len(Put(disk, fpos, v)) = Len(disk)
      BY <3>1, <2>1, <1>1, <1>4, <1>7
    <3>3. ASSUME NEW i \in 1 .. Len(disk) PROVE Put(disk, fpos, v)[i] = disk[i]
      <4>1. ~ (i > fpos /\ i <= fpos + Len(v))
        BY <2>1, <1>4, <1>7
      <4> QED BY <4>1, <3>1, <3>2
    <3> QED BY <3>1, <3>2, <3>3
  <2>3. Put(disk, fpos, v) = disk
    <3> DEFINE q == Put(disk, fpos, v)
    <3>1. q \in Seq(Units) /\ Len(q) = Len(disk) /\ \A i \in 1 .. Len(disk) : q[i] = disk[i]
      BY <2>2
    <3> HIDE DEF q
    <3>2. q = disk
      BY <3>1, <1>1
    <3> QED BY <3>2 DEF q
  <2>4. fpos' = fpos
    BY <2>1, <1>2, <1>7
  <2> QED BY <2>1, <2>3, <2>4, <1>5
<1>10. damaged' \in BOOLEAN
  BY <1>2 DEF WriterType
<1> QED BY <1>5, <1>6, <1>8, <1>9, <1>10 DEF WriteAllFails

IsEvents(u) == u \in Seq(Units) /\ \A i \in 1 .. Len(u) : u[i].k = "event"

LEMMA OneEvent ==
  ASSUME NEW n \in Int
  PROVE  Unit("event", <<n>>) \in Units /\ Unit("event", <<n>>).k = "event"
<1>1. "event" \in Kinds
  BY DEF Kinds
<1> QED BY <1>1, NumberUnit DEF Unit

LEMMA EventUnits ==
  ASSUME events \in Seq(Units)
  PROVE  /\ \A n \in 0 .. 2 : IsEvents(NewEvents(n)) /\ Len(NewEvents(n)) = n
         /\ IsEvents(<<FinishedInit>>) /\ IsEvents(<<FinishedRound>>)
<1>1. ASSUME NEW n \in 0 .. 2 PROVE IsEvents(NewEvents(n)) /\ Len(NewEvents(n)) = n
  <2> DEFINE u == NewEvents(n)
  <2>1. n \in Nat /\ Len(events) \in Nat
    OBVIOUS
  <2>2. u = [i \in 1 .. n |-> Unit("event", <<Len(events) + i>>)]
    BY DEF NewEvents, Event
  <2> HIDE DEF u
  <2>3. u = [i \in 1 .. n |-> u[i]] /\ \A i \in 1 .. n : u[i] = Unit("event", <<Len(events) + i>>)
    BY ONLY <2>2
  <2>4. \A i \in 1 .. n : u[i] \in Units /\ u[i].k = "event"
    <3> TAKE i \in 1 .. n
    <3>1. Len(events) + i \in Int
      BY <2>1
    <3> QED BY <3>1, <2>3, OneEvent
  <2>5. u \in Seq(Units) /\ Len(u) = n
    BY ONLY <2>1, <2>3, <2>4, IsSeq
  <2> QED BY <2>4, <2>5 DEF IsEvents, u
<1>2. IsEvents(<<FinishedInit>>) /\ IsEvents(<<FinishedRound>>)
  <2>1. FinishedInit \in Units /\ FinishedInit.k = "event" /\ FinishedRound \in Units /\ FinishedRound.k = "event"
    BY OneEvent DEF FinishedInit, FinishedRound
  <2> HIDE DEF FinishedInit, FinishedRound
  <2> QED BY <2>1 DEF IsEvents
<1> QED BY <1>1, <1>2

(* An accepted write of events extends both the file and the record of it. *)
LEMMA EventsWritten ==
  ASSUME WriterInv, NEW u, IsEvents(u), pc = "idle", file # Closed,
         WriteAll(u), events' = events \o u, calls' \in 0 .. MaxCalls,
         UNCHANGED <<w, pc, fin, given, damaged, done>>
  PROVE  WriterInv'
<1> USE DEF WriterInv
<1>1. /\ w' = w /\ pc' = pc /\ fin' = fin /\ given' = given /\ damaged' = damaged /\ done' = done
      /\ pc' \notin Busy /\ u \in Seq(Units)
  BY DEF Busy, IsEvents
<1>2. file \in Nat /\ disk \in Seq(Units) /\ fpos \in 0 .. Len(disk) /\ events \in Seq(Units)
  BY DEF WriterType
<1>3. disk' \in Seq(Units) /\ fpos' \in 0 .. Len(disk') /\ file' \in Nat
  BY ONLY <1>1, <1>2, WriterInv, WriteAll(u), WriteAllType
<1>4. events' \in Seq(Units) /\ Len(events') = Len(events) + Len(u)
      /\ (\A j \in 1 .. Len(events) : events'[j] = events[j])
      /\ (\A j \in 1 .. Len(u) : events'[Len(events) + j] = u[j])
  BY <1>1, <1>2
<1>5. WriterType'
  BY <1>1, <1>3, <1>4 DEF WriterType
<1>6. FinalizeInv' /\ WritingInv' /\ LeftInv'
  BY <1>1 DEF FinalizeInv, WritingInv, LeftInv, Busy
<1>7. FinishedInv'
  BY <1>1 DEF FinishedInv
<1>8. HeaderInv'
  <2> SUFFICES ASSUME ~ damaged, ~ done PROVE ~ IsKind(disk', 0, "header")
    BY <1>1 DEF HeaderInv
  <2>1. ~ IsKind(disk, 0, "header") /\ \A i \in 1 .. Len(u) : u[i].k # "header"
    BY DEF HeaderInv, IsEvents
  <2>2. ~ IsKind(Put(disk, fpos, u), 0, "header")
    BY ONLY <2>1, <1>1, <1>2, PutKind
  <2> QED BY <2>2 DEF WriteAll
<1>9. RecordingInv'
  <2> SUFFICES ASSUME ~ damaged
               PROVE  ~ done' /\ AtEnd' /\ Len(disk') = 1 + Len(events') /\ Recorded'
    BY <1>1 DEF RecordingInv
  <2>1. ~ done /\ file = Len(disk) /\ fpos = Len(disk) /\ Len(disk) = 1 + Len(events)
        /\ disk[1] = ZeroHeader /\ \A j \in 1 .. Len(events) : disk[1 + j] = events[j]
    BY DEF RecordingInv, AtEnd, Recorded
  <2>2. disk' = Put(disk, Len(disk), u) /\ fpos' = Len(disk) + Len(u) /\ file' = Len(disk) + Len(u)
    BY <2>1 DEF WriteAll
  <2>3. Longer(Put(disk, Len(disk), u), disk, u)
    BY ONLY <1>1, <1>2, PutEnd
  <2>4. /\ Len(disk') = Len(disk) + Len(u)
        /\ \A i \in 1 .. Len(disk) : disk'[i] = disk[i]
        /\ \A i \in 1 .. Len(u) : disk'[Len(disk) + i] = u[i]
    BY <2>2, <2>3 DEF Longer
  <2>5. Len(disk) \in Nat /\ Len(u) \in Nat /\ Len(events) \in Nat
    BY <1>1, <1>2
  <2>6. AtEnd' /\ Len(disk') = 1 + Len(events')
    BY <2>1, <2>2, <2>4, <2>5, <1>4 DEF AtEnd
  <2>7. disk'[1] = ZeroHeader
    BY <2>1, <2>4, <2>5, SMTT(30)
  <2>8. ASSUME NEW j \in 1 .. Len(events') PROVE disk'[1 + j] = events'[j]
    <3>1. CASE j \in 1 .. Len(events)
      <4>1. 1 + j \in 1 .. Len(disk)
        BY <3>1, <2>1, <2>5
      <4> QED BY <4>1, <3>1, <2>1, <2>4, <1>4
    <3>2. CASE j \notin 1 .. Len(events)
      <4> DEFINE i == j - Len(events)
      <4>1. i \in 1 .. Len(u) /\ Len(events) + i = j /\ Len(disk) + i = 1 + j
        BY <3>2, <2>1, <2>5, <1>4
      <4> HIDE DEF i
      <4>2. disk'[Len(disk) + i] = u[i] /\ events'[Len(events) + i] = u[i]
        BY <4>1, <2>4, <1>4
      <4> QED BY <4>1, <4>2
    <3> QED BY <3>1, <3>2
  <2>9. Recorded'
    BY <2>7, <2>8 DEF Recorded
  <2> QED BY <2>1, <2>6, <2>9, <1>1
<1> QED BY <1>5, <1>6, <1>7, <1>8, <1>9

LEMMA EventsFailed ==
  ASSUME WriterInv, NEW u, IsEvents(u), pc = "idle", WriteAllFails(u),
         calls' \in 0 .. MaxCalls, UNCHANGED <<events, w, pc, fin, given, done>>
  PROVE  WriterInv'
<1> USE DEF WriterInv
<1>1. /\ w' = w /\ pc' = pc /\ fin' = fin /\ given' = given /\ events' = events /\ done' = done
      /\ pc' \notin Busy /\ pc' \notin {"headers", "attrs"} /\ u \in Seq(Units)
  BY DEF Busy, IsEvents
<1>2. /\ disk' \in Seq(Units) /\ fpos' \in 0 .. Len(disk') /\ file' = file
      /\ damaged' \in BOOLEAN /\ (~ damaged' => ~ damaged /\ disk' = disk /\ fpos' = fpos)
  BY ONLY <1>1, WriterInv, WriteAllFails(u), WriteAllFailsType
<1>3. WriterType'
  BY <1>1, <1>2 DEF WriterType
<1>4. FinalizeInv' /\ WritingInv' /\ LeftInv'
  BY <1>1 DEF FinalizeInv, WritingInv, LeftInv
<1>5. RecordingInv' /\ HeaderInv' /\ FinishedInv'
  BY <1>1, <1>2 DEF RecordingInv, HeaderInv, FinishedInv, AtEnd, Recorded
<1> QED BY <1>3, <1>4, <1>5

LEMMA SpentType ==
  ASSUME WriterType, NEW n \in Nat, Spend(n)
  PROVE  calls' \in 0 .. MaxCalls
<1>1. calls \in 0 .. MaxCalls /\ MaxCalls \in Nat /\ calls + n <= MaxCalls /\ calls' = calls + n
  BY WriterAssumption DEF WriterType, Spend
<1> QED BY <1>1

LEMMA EventsInv ==
  ASSUME WriterInv,
         WriteEventData \/ WriteEventDataVectored \/ WriteFinishedInit \/ WriteFinishedRound
  PROVE  WriterInv'
<1>1. WriterType /\ events \in Seq(Units) /\ Len(events) \in Nat
  BY DEF WriterInv, WriterType
<1>2. ASSUME NEW u, IsEvents(u), WriteEvents(u) PROVE WriterInv'
  <2>1. pc = "idle" /\ file # Closed
        /\ UNCHANGED <<w, pc, fin, given, done>>
    BY <1>2 DEF WriteEvents
  <2>2. CASE WriteAll(u) /\ events' = events \o u /\ Spend(1) /\ UNCHANGED damaged
    <3>1. calls' \in 0 .. MaxCalls /\ UNCHANGED <<w, pc, fin, given, damaged, done>>
      BY <2>1, <2>2, <1>1, SpentType
    <3> QED BY ONLY <3>1, <2>1, <2>2, <1>2, WriterInv, EventsWritten
  <2>3. CASE WriteAllFails(u) /\ Spend(2) /\ UNCHANGED events
    <3>1. calls' \in 0 .. MaxCalls /\ UNCHANGED <<events, w, pc, fin, given, done>>
      BY <2>1, <2>3, <1>1, SpentType
    <3> QED BY ONLY <3>1, <2>1, <2>3, <1>2, WriterInv, EventsFailed
  <2> QED BY <2>2, <2>3, <1>2 DEF WriteEvents
<1>3. CASE WriteEventData
  <2>1. PICK n \in 1 .. 2 : WriteEvents(NewEvents(n))
    BY <1>3 DEF WriteEventData
  <2>2. n \in 0 .. 2
    OBVIOUS
  <2> QED BY <2>1, <2>2, <1>1, <1>2, EventUnits
<1>4. CASE WriteEventDataVectored
  <2>1. /\ pc = "idle" /\ file # Closed /\ Spend(1)
        /\ UNCHANGED <<w, pc, fin, given, damaged, done>>
    BY <1>4 DEF WriteEventDataVectored
  <2>2. PICK n \in 0 .. 2 : WriteAll(NewEvents(n)) /\ events' = events \o NewEvents(n)
    BY <1>4 DEF WriteEventDataVectored
  <2> DEFINE u == NewEvents(n)
  <2>3. IsEvents(u) /\ Len(u) = n
    BY <1>1, EventUnits
  <2>4. WriteAll(u) /\ events' = events \o u
    BY <2>2
  <2> HIDE DEF u
  <2>6. calls' \in 0 .. MaxCalls
    BY <2>1, <1>1, SpentType
  <2> QED BY ONLY <2>1, <2>3, <2>4, <2>6, WriterInv, EventsWritten
<1>5. CASE WriteFinishedInit \/ WriteFinishedRound
  <2>1. IsEvents(<<FinishedInit>>) /\ IsEvents(<<FinishedRound>>)
    BY <1>1, EventUnits
  <2> QED BY <2>1, <1>2, <1>5 DEF WriteFinishedInit, WriteFinishedRound
<1> QED BY <1>3, <1>4, <1>5

(* What is set does not matter to a file that is not being finalized.      *)
LEMMA SettersInv == ASSUME WriterInv, Setters PROVE WriterInv'
<1> USE DEF WriterInv
<1>1. w' \in Writers /\ pc = "idle" /\ SameFile
  <2>1. w \in Writers
    BY DEF WriterType
  <2> QED BY ONLY <2>1, Setters, SettersType
<1>2. /\ disk' = disk /\ fpos' = fpos /\ file' = file /\ pc' = pc /\ fin' = fin
      /\ events' = events /\ given' = given /\ damaged' = damaged /\ done' = done
  BY <1>1 DEF SameFile, history
<1>3. pc' \notin Busy
  BY <1>1, <1>2 DEF Busy
<1>4. calls' \in 0 .. MaxCalls
  <2>1. Spend(1)
    BY DEF Setters, Setter, SetHeader, SetStringHeader, SetNrCpusHeader, SetSampleTimeHeader, SetClockidHeader,
           SetClockDataHeader, SetSessionInfoHeaders, SetUtsnameHeaders, SetTracingDataRequired,
           SetTracingDataHeaderPage, SetTracingDataHeaderEvent, SetTracingDataKallsyms, SetTracingDataPrintk,
           SetTracingDataSavedCmdLine, SetTracingDataClearFtraces, SetTracingDataAddFtrace, AddEventDesc,
           AddTracepointEventDesc
  <2> QED BY <2>1, SpentType
<1>5. WriterType'
  BY <1>1, <1>2, <1>4 DEF WriterType
<1>6. FinalizeInv' /\ WritingInv' /\ LeftInv'
  BY <1>1, <1>2, <1>3 DEF FinalizeInv, WritingInv, LeftInv
<1>7. RecordingInv' /\ HeaderInv' /\ FinishedInv'
  BY <1>2 DEF RecordingInv, HeaderInv, FinishedInv, AtEnd, Recorded
<1> QED BY <1>5, <1>6, <1>7

LEMMA FinFields ==
  ASSUME NEW f \in Fins
  PROVE  /\ f.data_end \in Nat /\ f.flags \in Seq(Int) /\ f.end \in Nat /\ f.attrs \in Seq(Int)
         /\ f.todo \in Seq(Seq(Units)) /\ f.written \in Seq(Units)
BY DEF Fins

(* finalize_and_close begins: the file stays as it is.                     *)
LEMMA BeginInv == ASSUME WriterInv, Finalize PROVE WriterInv'
<1> USE DEF WriterInv
<1> DEFINE hc == HeaderChunks(w', file)
<1>1. /\ pc = "idle" /\ file # Closed /\ w' = Synthesized(w)
      /\ pc' \in {"headers", "panicked"}
      /\ given' = <<w>> /\ damaged' = damaged
      /\ disk' = disk /\ fpos' = fpos /\ file' = file /\ calls' = calls /\ events' = events /\ done' = done
  BY DEF Finalize, Synthesized
<1>2. fin' = [NoFin EXCEPT !.data_end = file, !.flags = Flags(w'), !.todo = hc,
                           !.end = file + ChunkUnits(hc)]
  BY DEF Finalize
<1>3. w \in Writers /\ file \in Nat /\ disk \in Seq(Units) /\ events \in Seq(Units)
  BY <1>1 DEF WriterType
<1>4. w' \in Writers
  BY <1>1, <1>3, SynthesizedType
<1>5. hc \in Seq(Seq(Units)) /\ ChunkUnits(hc) \in Nat
  BY <1>3, <1>4, HeaderLayout
<1>6. Flags(w') \in Seq(Int)
  BY FlagsType
<1> HIDE DEF hc
<1>7. /\ fin' \in Fins /\ fin'.data_end = file /\ fin'.flags = Flags(w') /\ fin'.todo = hc
      /\ fin'.end = file + ChunkUnits(hc) /\ fin'.written = <<>>
  <2>1. <<0, 0>> \in Seq(Int) /\ <<>> \in Seq(Units) /\ file + ChunkUnits(hc) \in Nat
    BY <1>3, <1>5
  <2>2. fin' = [data_end |-> file, flags |-> Flags(w'), end |-> file + ChunkUnits(hc),
                attrs |-> <<0, 0>>, todo |-> hc, written |-> <<>>]
    BY <1>2 DEF NoFin
  <2> QED BY <2>1, <2>2, <1>3, <1>5, <1>6 DEF Fins
<1>8. Len(given') = 1 /\ given'[1] = w /\ given' # <<>>
  BY <1>1
<1>9. WriterType'
  <2>1. damaged' \in BOOLEAN
    BY <1>1 DEF WriterType
  <2>2. pc' \in {"idle", "panicked"} \cup Busy
    BY <1>1 DEF Busy
  <2> QED BY <2>1, <2>2, <1>1, <1>3, <1>4, <1>7, <1>8 DEF WriterType
<1>10. Pending(hc, file, hc, file) /\ Written(hc, hc) = 0 /\ Holds(disk, file, hc, Written(hc, hc))
  BY ONLY <1>3, <1>5, PendingStart
<1>11. HeaderChunks(w', fin'.data_end) = hc
  BY <1>7 DEF hc
<1>12. FinalizeInv'
  <2>1. InHeaders'
    BY <1>1, <1>7, <1>10, <1>11 DEF InHeaders
  <2>2. fin'.end = fin'.data_end + ChunkUnits(HeaderChunks(w', fin'.data_end))
    BY <1>7, <1>11
  <2>3. pc' \in Busy => pc' = "headers"
    BY <1>1 DEF Busy
  <2> QED BY <2>1, <2>2, <2>3, <1>1, <1>3, <1>7, <1>8 DEF FinalizeInv
<1>13. WritingInv'
  <2> SUFFICES ASSUME ~ damaged', pc' \in Busy
               PROVE  /\ ~ done' /\ fin'.data_end = 1 + Len(events') /\ Recorded'
                      /\ Len(disk') >= 1 + Len(events')
                      /\ pc' = "headers"
                      /\ AtEnd' /\ WroteHeaders(Written(HeaderChunks(w, fin.data_end), fin.todo))'
    BY DEF WritingInv
  <2>1. ~ damaged /\ pc' = "headers"
    BY <1>1 DEF Busy
  <2>2. ~ done /\ AtEnd /\ Len(disk) = 1 + Len(events) /\ Recorded
    BY <2>1, <1>1 DEF RecordingInv
  <2>3. WroteHeaders(Written(HeaderChunks(w, fin.data_end), fin.todo))'
    BY <1>1, <1>7, <1>10, <1>11 DEF WroteHeaders
  <2>4. AtEnd' /\ Recorded' /\ Len(disk') >= 1 + Len(events')
    BY <2>2, <1>1, <1>3 DEF AtEnd, Recorded
  <2> QED BY <2>1, <2>2, <2>3, <2>4, <1>1, <1>7 DEF AtEnd
<1>14. RecordingInv' /\ HeaderInv'
  BY <1>1 DEF RecordingInv, HeaderInv
<1>16. LeftInv'
  <2> SUFFICES ASSUME ~ damaged PROVE LeftOver'
    BY <1>1 DEF LeftInv
  <2>1. Len(disk) = 1 + Len(events) /\ Len(events) \in Nat
    BY <1>1, <1>3 DEF RecordingInv
  <2>2. Len(fin'.written) = 0
    BY <1>7
  <2> QED BY <2>1, <2>2, <1>1 DEF LeftOver
<1>15. FinishedInv'
  BY <1>1 DEF FinishedInv, RecordingInv
<1> QED BY <1>9, <1>12, <1>13, <1>14, <1>15, <1>16

(* What a step of finalize_and_close leaves when it is the first one.      *)
LEMMA BusyFacts ==
  ASSUME WriterInv, pc \in Busy
  PROVE  /\ file \in Nat /\ given # <<>> /\ w \in Writers /\ fin \in Fins /\ disk \in Seq(Units)
         /\ fpos \in 0 .. Len(disk) /\ events \in Seq(Units)
         /\ HeaderChunks(w, fin.data_end) \in Seq(Seq(Units))
         /\ ChunkUnits(HeaderChunks(w, fin.data_end)) \in Nat
         /\ AttrChunks(w, fin.end) \in Seq(Seq(Units)) /\ ChunkUnits(AttrChunks(w, fin.end)) \in Nat
         /\ ~ damaged => ~ done
<1>1. /\ file \in Nat /\ given # <<>> /\ w \in Writers /\ fin \in Fins /\ disk \in Seq(Units)
      /\ fpos \in 0 .. Len(disk) /\ events \in Seq(Units)
  BY DEF WriterInv, WriterType, FinalizeInv
<1>2. fin.data_end \in Nat /\ fin.end \in Nat
  BY <1>1, FinFields
<1>3. HeaderChunks(w, fin.data_end) \in Seq(Seq(Units)) /\ ChunkUnits(HeaderChunks(w, fin.data_end)) \in Nat
  BY ONLY <1>1, <1>2, HeaderLayout
<1>4. AttrChunks(w, fin.end) \in Seq(Seq(Units)) /\ ChunkUnits(AttrChunks(w, fin.end)) \in Nat
  BY ONLY <1>1, <1>2, AttrLayout
<1> QED BY <1>1, <1>3, <1>4 DEF WriterInv, WritingInv

(* A chunk at the end of the file belongs to what would be left.           *)
LEMMA LeftKept ==
  ASSUME disk \in Seq(Units), events \in Seq(Units), fin.written \in Seq(Units), NEW u \in Seq(Units),
         Longer(disk', disk, u), LeftOver, fin'.written = fin.written \o u, UNCHANGED events
  PROVE  LeftOver'
<1> DEFINE D == Len(disk)
           E == Len(events)
           W == Len(fin.written)
           U == Len(u)
<1>1. D \in Nat /\ E \in Nat /\ W \in Nat /\ U \in Nat
  OBVIOUS
<1>2. D = 1 + E + W /\ \A j \in 1 .. W : disk[1 + E + j] = fin.written[j]
  BY DEF LeftOver
<1>3. Len(disk') = D + U /\ (\A i \in 1 .. D : disk'[i] = disk[i]) /\ (\A i \in 1 .. U : disk'[D + i] = u[i])
  BY DEF Longer
<1>4. Len(fin'.written) = W + U /\ (\A j \in 1 .. W : fin'.written[j] = fin.written[j])
      /\ \A j \in 1 .. U : fin'.written[W + j] = u[j]
  BY JoinPoints
<1>5. Len(events') = E
  OBVIOUS
<1> HIDE DEF D, E, W, U
<1>6. ASSUME NEW j \in 1 .. W + U PROVE disk'[1 + E + j] = fin'.written[j]
  <2>1. CASE j \in 1 .. W
    <3>1. 1 + E + j \in 1 .. D
      BY <2>1, <1>1, <1>2
    <3> QED BY <2>1, <3>1, <1>2, <1>3, <1>4
  <2>2. CASE j \notin 1 .. W
    <3> DEFINE i == j - W
    <3>1. i \in 1 .. U /\ W + i = j /\ D + i = 1 + E + j
      BY <2>2, <1>1, <1>2
    <3> HIDE DEF i
    <3>2. disk'[D + i] = u[i] /\ fin'.written[W + i] = u[i]
      BY <3>1, <1>3, <1>4
    <3> QED BY <3>1, <3>2
  <2> QED BY <2>1, <2>2
<1>7. D + U = 1 + E + (W + U)
  BY <1>1, <1>2
<1> QED BY <1>3, <1>4, <1>5, <1>6, <1>7 DEF LeftOver

(* finalize_and_close gives up: what it wrote counts as events, and        *)
(* nothing passes for a recording.                                         *)
LEMMA GiveUpInv ==
  ASSUME WriterInv, pc \in {"headers", "attrs"}, pc' = "idle", fin' = NoFin, calls' \in 0 .. MaxCalls,
         disk' \in Seq(Units), fpos' \in 0 .. Len(disk'), UNCHANGED <<file, w, given, done>>,
         events' = events \o fin.written,
         damaged' \in BOOLEAN, ~ damaged' => ~ damaged /\ disk' = disk /\ fpos' = fpos
  PROVE  WriterInv'
<1> USE DEF WriterInv
<1>0. pc \in Busy
  BY DEF Busy
<1>1. file' = file /\ w' = w /\ given' = given /\ done' = done
  OBVIOUS
<1>2. given # <<>> /\ (~ damaged => ~ done) /\ fin \in Fins /\ events \in Seq(Units)
  BY <1>0, BusyFacts
<1>3. pc' \notin Busy /\ pc' \in {"idle", "panicked"} \cup Busy
  BY DEF Busy
<1> DEFINE E == Len(events)
           W == Len(fin.written)
<1>7. /\ events' \in Seq(Units) /\ Len(events') = E + W /\ E \in Nat /\ W \in Nat
      /\ (\A j \in 1 .. E : events'[j] = events[j]) /\ (\A j \in 1 .. W : events'[E + j] = fin.written[j])
  <2>1. fin.written \in Seq(Units)
    BY <1>2, FinFields
  <2> QED BY <2>1, <1>2, JoinPoints
<1>4. WriterType'
  BY <1>1, <1>3, <1>7, NewWriterType DEF WriterType
<1>5. FinalizeInv' /\ WritingInv' /\ LeftInv'
  BY <1>3 DEF FinalizeInv, WritingInv, LeftInv
<1>6. HeaderInv' /\ FinishedInv'
  BY <1>1, <1>2 DEF HeaderInv, FinishedInv
<1>8. RecordingInv'
  <2> SUFFICES ASSUME ~ damaged' PROVE ~ done' /\ AtEnd' /\ Len(disk') = 1 + Len(events') /\ Recorded'
    BY DEF RecordingInv
  <2>1. ~ damaged /\ disk' = disk /\ fpos' = fpos /\ ~ done'
    BY <1>1, <1>2
  <2>2. AtEnd /\ disk[1] = ZeroHeader /\ \A j \in 1 .. E : disk[1 + j] = events[j]
    BY <2>1, <1>0 DEF WritingInv, Recorded
  <2>3. Len(disk) = 1 + E + W /\ \A j \in 1 .. W : disk[1 + E + j] = fin.written[j]
    BY <2>1 DEF LeftInv, LeftOver
  <2> HIDE DEF E, W
  <2>4. AtEnd' /\ Len(disk') = 1 + Len(events')
    BY <2>1, <2>2, <2>3, <1>1, <1>7 DEF AtEnd
  <2>5. ASSUME NEW j \in 1 .. E + W PROVE disk[1 + j] = events'[j]
    <3>1. CASE j \in 1 .. E
      BY <3>1, <2>2, <1>7
    <3>2. CASE j \notin 1 .. E
      <4> DEFINE i == j - E
      <4>1. i \in 1 .. W /\ E + i = j /\ 1 + E + i = 1 + j
        BY <3>2, <1>7
      <4> HIDE DEF i
      <4> QED BY <4>1, <2>3, <1>7
    <3> QED BY <3>1, <3>2
  <2>6. Recorded'
    BY <2>1, <2>2, <2>5, <1>7 DEF Recorded
  <2> QED BY <2>1, <2>4, <2>6
<1> QED BY <1>4, <1>5, <1>6, <1>8

(* A chunk that finalize_and_close wrote.                                  *)
LEMMA ChunkTypes ==
  ASSUME WriterInv, pc \in Busy, fin.todo # <<>>, WriteAll(Head(fin.todo)),
         fin' = [fin EXCEPT !.todo = Tail(@), !.written = @ \o Head(fin.todo)],
         UNCHANGED <<pc, calls, events, damaged, w, given, done>>
  PROVE  /\ WriterType' /\ RecordingInv' /\ FinishedInv' /\ file' \in Nat
         /\ fin.todo \in Seq(Seq(Units)) /\ Head(fin.todo) \in Seq(Units)
         /\ fin'.todo = Tail(fin.todo) /\ fin'.data_end = fin.data_end /\ fin'.end = fin.end
         /\ fin'.flags = fin.flags /\ fin'.attrs = fin.attrs
         /\ fin.written \in Seq(Units) /\ fin'.written = fin.written \o Head(fin.todo)
<1> USE DEF WriterInv
<1>1. fin \in Fins /\ file \in Nat /\ given # <<>> /\ (~ damaged => ~ done)
  BY BusyFacts
<1>2. fin.todo \in Seq(Seq(Units)) /\ fin.written \in Seq(Units)
  BY <1>1, FinFields
<1>3. Head(fin.todo) \in Seq(Units) /\ Tail(fin.todo) \in Seq(Seq(Units))
      /\ fin.written \o Head(fin.todo) \in Seq(Units)
  BY <1>2
<1>4. disk' \in Seq(Units) /\ fpos' \in 0 .. Len(disk') /\ file' \in Nat
  BY ONLY <1>1, <1>3, WriterInv, WriteAll(Head(fin.todo)), WriteAllType
<1>5. /\ fin' \in Fins /\ fin'.todo = Tail(fin.todo) /\ fin'.data_end = fin.data_end /\ fin'.end = fin.end
      /\ fin'.flags = fin.flags /\ fin'.attrs = fin.attrs
      /\ fin'.written = fin.written \o Head(fin.todo)
  <2> DEFINE t == Tail(fin.todo)
             v == fin.written \o Head(fin.todo)
             g == [fin EXCEPT !.todo = t]
  <2>1. fin' = [fin EXCEPT !.todo = t, !.written = v] /\ t \in Seq(Seq(Units)) /\ v \in Seq(Units)
    BY <1>3
  <2> HIDE DEF t, v
  <2>2. /\ g \in Fins /\ g.todo = t /\ g.data_end = fin.data_end /\ g.end = fin.end
        /\ g.flags = fin.flags /\ g.attrs = fin.attrs
    BY <2>1, <1>1 DEF Fins
  <2>3. fin' = [g EXCEPT !.written = v]
    BY <2>1, <1>1 DEF Fins
  <2> HIDE DEF g
  <2>4. /\ fin' \in Fins /\ fin'.todo = g.todo /\ fin'.data_end = g.data_end /\ fin'.end = g.end
        /\ fin'.flags = g.flags /\ fin'.attrs = g.attrs /\ fin'.written = v
    BY <2>1, <2>2, <2>3 DEF Fins
  <2> QED BY <2>2, <2>4 DEF t, v
<1>6. /\ pc' = pc /\ calls' = calls /\ w' = w
      /\ events' = events /\ given' = given /\ damaged' = damaged /\ done' = done
  OBVIOUS
<1>7. WriterType'
  BY <1>4, <1>5, <1>6 DEF WriterType
<1>8. RecordingInv' /\ FinishedInv'
  BY <1>1, <1>6 DEF RecordingInv, FinishedInv, Busy
<1> QED BY <1>2, <1>3, <1>4, <1>5, <1>7, <1>8

(* A chunk at the end of the file keeps what the file held.                *)
LEMMA ChunkKeeps ==
  ASSUME disk \in Seq(Units), events \in Seq(Units), NEW u \in Seq(Units), WriteAll(u), AtEnd,
         Recorded, Len(disk) >= 1 + Len(events), UNCHANGED events
  PROVE  /\ Longer(disk', disk, u) /\ disk' = Put(disk, Len(disk), u)
         /\ Recorded' /\ AtEnd' /\ Len(disk') >= 1 + Len(events')
         /\ ~ IsKind(disk', 0, "header")
<1>1. file = Len(disk) /\ fpos = Len(disk) /\ Len(disk) \in Nat /\ Len(u) \in Nat /\ Len(events) \in Nat
  BY DEF AtEnd
<1>2. disk' = Put(disk, Len(disk), u) /\ fpos' = Len(disk) + Len(u) /\ file' = Len(disk) + Len(u)
  BY <1>1 DEF WriteAll
<1>3. Longer(Put(disk, Len(disk), u), disk, u)
  BY ONLY disk \in Seq(Units), u \in Seq(Units), PutEnd
<1>4. Longer(disk', disk, u)
  BY <1>2, <1>3
<1>5. Len(disk') = Len(disk) + Len(u) /\ \A i \in 1 .. Len(disk) : disk'[i] = disk[i]
  BY <1>4 DEF Longer
<1>6. disk[1] = ZeroHeader /\ \A j \in 1 .. Len(events) : disk[1 + j] = events[j]
  BY DEF Recorded
<1>7. disk'[1] = ZeroHeader
  BY <1>1, <1>5, <1>6
<1>8. \A j \in 1 .. Len(events) : disk'[1 + j] = events[j]
  <2> TAKE j \in 1 .. Len(events)
  <2>1. 1 + j \in 1 .. Len(disk)
    BY <1>1
  <2> QED BY <2>1, <1>5, <1>6
<1>9. Recorded'
  BY <1>7, <1>8 DEF Recorded
<1>10. AtEnd' /\ Len(disk') >= 1 + Len(events')
  BY <1>1, <1>2, <1>5 DEF AtEnd
<1>11. ~ IsKind(disk', 0, "header")
  BY <1>7, ZeroType DEF IsKind
<1> QED BY <1>2, <1>4, <1>9, <1>10, <1>11

LEMMA HeaderChunkInv ==
  ASSUME WriterInv, pc = "headers", fin.todo # <<>>, WriteAll(Head(fin.todo)),
         fin' = [fin EXCEPT !.todo = Tail(@), !.written = @ \o Head(fin.todo)],
         UNCHANGED <<pc, calls, events, damaged, w, given, done>>
  PROVE  WriterInv'
<1> USE DEF WriterInv
<1> DEFINE hc == HeaderChunks(w, fin.data_end)
           u == Head(fin.todo)
<1>1. pc \in Busy
  BY DEF Busy
<1>2. /\ WriterType' /\ RecordingInv' /\ FinishedInv' /\ file' \in Nat
      /\ fin.todo \in Seq(Seq(Units)) /\ u \in Seq(Units)
      /\ fin'.todo = Tail(fin.todo) /\ fin'.data_end = fin.data_end /\ fin'.end = fin.end
      /\ fin'.flags = fin.flags /\ fin'.attrs = fin.attrs
      /\ fin.written \in Seq(Units) /\ fin'.written = fin.written \o u
  BY <1>1, ChunkTypes
<1>3. /\ file \in Nat /\ hc \in Seq(Seq(Units)) /\ disk \in Seq(Units) /\ events \in Seq(Units)
      /\ fin.data_end \in Nat
  BY <1>1, BusyFacts, FinFields
<1>4. /\ pc' = pc /\ w' = w
      /\ events' = events /\ given' = given /\ damaged' = damaged /\ done' = done
  OBVIOUS
<1>5. Pending(hc, fin.data_end, fin.todo, file)
  BY <1>1 DEF FinalizeInv, InHeaders
<1>6. HeaderChunks(w', fin'.data_end) = hc
  BY <1>2, <1>4
<1>7. file' = file + Len(u)
  BY DEF WriteAll
<1> HIDE DEF hc
<1>8. Pending(hc, fin.data_end, Tail(fin.todo), file + Len(u))
  BY ONLY <1>2, <1>3, <1>5, fin.todo # <<>>, PendingStep DEF u
<1>9. FinalizeInv'
  <2>1. InHeaders'
    BY <1>2, <1>6, <1>7, <1>8 DEF InHeaders
  <2>2. given # <<>> /\ w = Synthesized(given[1]) /\ fin.flags = Flags(w)
        /\ fin.end = fin.data_end + ChunkUnits(hc)
    BY <1>1 DEF FinalizeInv, hc
  <2> QED BY <2>1, <2>2, <1>2, <1>4, <1>6 DEF FinalizeInv
<1>10. CASE damaged
  BY <1>2, <1>4, <1>9, <1>10 DEF WritingInv, HeaderInv, LeftInv
<1>11. CASE ~ damaged
  <2>1. /\ ~ done /\ fin.data_end = 1 + Len(events) /\ Recorded /\ Len(disk) >= 1 + Len(events)
        /\ AtEnd /\ Holds(disk, fin.data_end, hc, Written(hc, fin.todo))
    BY <1>1, <1>11 DEF WritingInv, WroteHeaders, hc
  <2>2. /\ Longer(disk', disk, u) /\ disk' = Put(disk, Len(disk), u)
        /\ Recorded' /\ AtEnd' /\ Len(disk') >= 1 + Len(events')
        /\ ~ IsKind(disk', 0, "header")
    <3> HIDE DEF u
    <3>1. WriteAll(u)
      BY DEF u
    <3>2. UNCHANGED events
      BY <1>4
    <3> QED BY ONLY <3>1, <3>2, <2>1, <1>2, <1>3, ChunkKeeps
  <2>3. file = Len(disk)
    BY <2>1 DEF AtEnd
  <2>4. Holds(Put(disk, Len(disk), u), fin.data_end, hc, Written(hc, Tail(fin.todo)))
    <3>1. Pending(hc, fin.data_end, fin.todo, Len(disk))
      BY <1>5, <2>3
    <3> QED BY ONLY <3>1, <2>1, <1>2, <1>3, fin.todo # <<>>, WrittenStep DEF u
  <2>5. WroteHeaders(Written(HeaderChunks(w, fin.data_end), fin.todo))'
    BY <2>2, <2>4, <1>2, <1>6 DEF WroteHeaders
  <2>6. WritingInv'
    BY <2>1, <2>2, <2>5, <1>2, <1>4 DEF WritingInv
  <2>7. HeaderInv'
    BY <2>2 DEF HeaderInv
  <2>10. LeftInv'
    <3>1. LeftOver
      BY <1>11 DEF LeftInv
    <3>2. LeftOver'
      <4> HIDE DEF u
      <4>1. UNCHANGED events
        BY <1>4
      <4> QED BY ONLY <3>1, <4>1, <2>2, <1>2, <1>3, LeftKept
    <3> QED BY <3>2 DEF LeftInv
  <2> QED BY <2>10, <2>6, <2>7, <1>2, <1>9
<1> QED BY <1>10, <1>11

LEMMA AttrChunkInv ==
  ASSUME WriterInv, pc = "attrs", fin.todo # <<>>, WriteAll(Head(fin.todo)),
         fin' = [fin EXCEPT !.todo = Tail(@), !.written = @ \o Head(fin.todo)],
         UNCHANGED <<pc, calls, events, damaged, w, given, done>>
  PROVE  WriterInv'
<1> USE DEF WriterInv
<1> DEFINE hc == HeaderChunks(w, fin.data_end)
           ac == AttrChunks(w, fin.end)
           u == Head(fin.todo)
<1>1. pc \in Busy
  BY DEF Busy
<1>2. /\ WriterType' /\ RecordingInv' /\ FinishedInv' /\ file' \in Nat
      /\ fin.todo \in Seq(Seq(Units)) /\ u \in Seq(Units)
      /\ fin'.todo = Tail(fin.todo) /\ fin'.data_end = fin.data_end /\ fin'.end = fin.end
      /\ fin'.flags = fin.flags /\ fin'.attrs = fin.attrs
      /\ fin.written \in Seq(Units) /\ fin'.written = fin.written \o u
  BY <1>1, ChunkTypes
<1>3. /\ file \in Nat /\ hc \in Seq(Seq(Units)) /\ ac \in Seq(Seq(Units)) /\ ChunkUnits(hc) \in Nat
      /\ disk \in Seq(Units) /\ events \in Seq(Units) /\ fin.data_end \in Nat /\ fin.end \in Nat
  BY <1>1, BusyFacts, FinFields
<1>4. /\ pc' = pc /\ w' = w
      /\ events' = events /\ given' = given /\ damaged' = damaged /\ done' = done
  OBVIOUS
<1>5. Pending(ac, fin.end, fin.todo, file)
  BY <1>1 DEF FinalizeInv, InAttrs
<1>6. HeaderChunks(w', fin'.data_end) = hc /\ AttrChunks(w', fin'.end) = ac
  BY <1>2, <1>4
<1>7. file' = file + Len(u)
  BY DEF WriteAll
<1> HIDE DEF hc, ac
<1>8. Pending(ac, fin.end, Tail(fin.todo), file + Len(u))
  BY ONLY <1>2, <1>3, <1>5, fin.todo # <<>>, PendingStep DEF u
<1>9. fin.end = fin.data_end + ChunkUnits(hc)
  BY <1>1 DEF FinalizeInv, hc
<1>10. FinalizeInv'
  <2>1. InAttrs'
    BY <1>2, <1>6, <1>7, <1>8 DEF InAttrs
  <2>2. given # <<>> /\ w = Synthesized(given[1]) /\ fin.flags = Flags(w)
        /\ fin.attrs = <<fin.end, ENTRY_SIZE * Len(w.descs)>>
    BY <1>1 DEF FinalizeInv
  <2> QED BY <2>1, <2>2, <1>2, <1>4, <1>6, <1>9 DEF FinalizeInv
<1>11. CASE damaged
  BY <1>2, <1>4, <1>10, <1>11 DEF WritingInv, HeaderInv, LeftInv
<1>12. CASE ~ damaged
  <2>1. /\ ~ done /\ fin.data_end = 1 + Len(events) /\ Recorded /\ Len(disk) >= 1 + Len(events)
        /\ AtEnd /\ Holds(disk, fin.data_end, hc, Len(hc)) /\ Holds(disk, fin.end, ac, Written(ac, fin.todo))
    BY <1>1, <1>12 DEF WritingInv, WroteHeaders, WroteAttrs, AllHeaders, hc, ac
  <2>2. /\ Longer(disk', disk, u) /\ disk' = Put(disk, Len(disk), u)
        /\ Recorded' /\ AtEnd' /\ Len(disk') >= 1 + Len(events')
        /\ ~ IsKind(disk', 0, "header")
    <3> HIDE DEF u
    <3>1. WriteAll(u)
      BY DEF u
    <3>2. UNCHANGED events
      BY <1>4
    <3> QED BY ONLY <3>1, <3>2, <2>1, <1>2, <1>3, ChunkKeeps
  <2>3. file = Len(disk)
    BY <2>1 DEF AtEnd
  <2>4. Holds(Put(disk, Len(disk), u), fin.end, ac, Written(ac, Tail(fin.todo)))
    <3>1. Pending(ac, fin.end, fin.todo, Len(disk))
      BY <1>5, <2>3
    <3> QED BY ONLY <3>1, <2>1, <1>2, <1>3, fin.todo # <<>>, WrittenStep DEF u
  <2>5. WroteAttrs(Written(AttrChunks(w, fin.end), fin.todo))'
    BY <2>2, <2>4, <1>2, <1>6 DEF WroteAttrs
  <2>6. Holds(disk', fin.data_end, hc, Len(hc))
    <3>1. Len(hc) \in Nat /\ Len(hc) \in 0 .. Len(hc) /\ SizesBefore(Lens(hc), Len(hc) + 1) = ChunkUnits(hc)
      BY <1>3, LensType
    <3>2. fin.data_end + ChunkUnits(hc) <= Len(disk)
      <4>1. file >= fin.end
        <5>1. Written(ac, fin.todo) \in 0 .. Len(ac) /\ file = fin.end + SizesBefore(Lens(ac), Written(ac, fin.todo) + 1)
          BY <1>5 DEF Pending
        <5>2. Written(ac, fin.todo) + 1 \in 1 .. Len(ac) + 1
          BY <5>1, <1>3
        <5>3. SizesBefore(Lens(ac), Written(ac, fin.todo) + 1) \in Nat
          BY <5>2, <1>3, LensType
        <5> QED BY <5>1, <5>3, <1>3
      <4> QED BY <4>1, <2>3, <1>9
    <3>3. \A i \in 1 .. Len(disk) : disk'[i] = disk[i]
      BY <2>2 DEF Longer
    <3>4. \A i \in fin.data_end + 1 .. fin.data_end + SizesBefore(Lens(hc), Len(hc) + 1) : disk'[i] = disk[i]
      <4> TAKE i \in fin.data_end + 1 .. fin.data_end + SizesBefore(Lens(hc), Len(hc) + 1)
      <4>1. i \in fin.data_end + 1 .. fin.data_end + ChunkUnits(hc) /\ Len(disk) \in Nat
        BY <3>1, <1>3
      <4>2. i \in 1 .. Len(disk)
        BY <4>1, <3>2, <1>3
      <4> QED BY <4>2, <3>3
    <3> QED BY ONLY <3>1, <3>4, <2>1, <1>3, HoldsKept
  <2>7. AllHeaders'
    BY <2>6, <1>2, <1>6 DEF AllHeaders, WroteHeaders
  <2>8. WritingInv'
    BY <2>1, <2>2, <2>5, <2>7, <1>2, <1>4 DEF WritingInv
  <2>9. HeaderInv'
    BY <2>2 DEF HeaderInv
  <2>10. LeftInv'
    <3>1. LeftOver
      BY <1>12 DEF LeftInv
    <3>2. LeftOver'
      <4> HIDE DEF u
      <4>1. UNCHANGED events
        BY <1>4
      <4> QED BY ONLY <3>1, <4>1, <2>2, <1>2, <1>3, LeftKept
    <3> QED BY <3>2 DEF LeftInv
  <2> QED BY <2>10, <2>8, <2>9, <1>2, <1>10
<1> QED BY <1>11, <1>12

(* Each write of finalize_and_close, done or failed.                       *)
LEMMA FinalizeWriteInv == ASSUME WriterInv, FinalizeWrite PROVE WriterInv'
<1>1. pc \in {"headers", "attrs"} /\ fin.todo # <<>> /\ UNCHANGED <<w, given, done>>
  BY DEF FinalizeWrite
<1>2. pc \in Busy
  BY <1>1 DEF Busy
<1>3. CASE /\ WriteAll(Head(fin.todo))
           /\ fin' = [fin EXCEPT !.todo = Tail(@), !.written = @ \o Head(fin.todo)]
           /\ UNCHANGED <<pc, calls, events, damaged>>
  <2>1. UNCHANGED <<pc, calls, events, damaged, w, given, done>>
    BY <1>1, <1>3
  <2>2. CASE pc = "headers"
    BY ONLY <2>1, <2>2, <1>1, <1>3, WriterInv, HeaderChunkInv
  <2>3. CASE pc = "attrs"
    BY ONLY <2>1, <2>3, <1>1, <1>3, WriterInv, AttrChunkInv
  <2> QED BY <2>2, <2>3, <1>1
<1>4. CASE WriteAllFails(Head(fin.todo)) /\ Leave
  <2> DEFINE u == Head(fin.todo)
  <2>1. WriterType /\ fin.todo \in Seq(Seq(Units))
    BY <1>2, BusyFacts, FinFields DEF WriterInv
  <2>2. u \in Seq(Units) /\ WriteAllFails(u)
    BY <2>1, <1>1, <1>4
  <2> HIDE DEF u
  <2>3. /\ disk' \in Seq(Units) /\ fpos' \in 0 .. Len(disk') /\ file' = file
        /\ damaged' \in BOOLEAN /\ (~ damaged' => ~ damaged /\ disk' = disk /\ fpos' = fpos)
    BY ONLY <2>1, <2>2, WriteAllFailsType
  <2>4. pc' = "idle" /\ fin' = NoFin /\ events' = events \o fin.written /\ Spend(1)
    BY <1>4 DEF Leave
  <2>5. calls' \in 0 .. MaxCalls
    BY <2>1, <2>4, SpentType
  <2>6. UNCHANGED <<file, w, given, done>>
    BY <2>3, <1>1
  <2> QED BY ONLY <2>3, <2>4, <2>5, <2>6, <1>1, WriterInv, GiveUpInv
<1> QED BY <1>3, <1>4 DEF FinalizeWrite

(* The assertion that the headers end where their sections say holds.      *)
LEMMA HeadersEnd ==
  ASSUME WriterInv, FinalizeAttrs
  PROVE  file = fin.end
<1>1. pc = "headers" /\ fin.todo = <<>> /\ pc \in Busy
  BY DEF FinalizeAttrs, Busy
<1> DEFINE hc == HeaderChunks(w, fin.data_end)
<1>2. hc \in Seq(Seq(Units)) /\ fin.data_end \in Nat
  BY <1>1, BusyFacts, FinFields
<1>3. Pending(hc, fin.data_end, <<>>, file)
  BY <1>1 DEF WriterInv, FinalizeInv, InHeaders
<1>4. fin.end = fin.data_end + ChunkUnits(hc)
  BY <1>1 DEF WriterInv, FinalizeInv
<1> HIDE DEF hc
<1>5. file = fin.data_end + ChunkUnits(hc)
  BY ONLY <1>2, <1>3, PendingEnd
<1> QED BY <1>4, <1>5

LEMMA FinalizeAttrsInv == ASSUME WriterInv, FinalizeAttrs PROVE WriterInv'
<1> USE DEF WriterInv
<1> DEFINE hc == HeaderChunks(w, fin.data_end)
           ac == AttrChunks(w, fin.end)
<1>1. pc = "headers" /\ fin.todo = <<>> /\ pc \in Busy
  BY DEF FinalizeAttrs, Busy
<1>2. file = fin.end
  BY HeadersEnd
<1>3. /\ pc' = "attrs" /\ disk' = disk /\ fpos' = fpos /\ file' = file /\ w' = w /\ calls' = calls
      /\ events' = events /\ given' = given /\ damaged' = damaged /\ done' = done
      /\ fin' = [fin EXCEPT !.attrs = <<fin.end, ENTRY_SIZE * Len(w.descs)>>, !.todo = ac]
  BY <1>2 DEF FinalizeAttrs, history
<1>4. /\ file \in Nat /\ given # <<>> /\ w \in Writers /\ fin \in Fins /\ disk \in Seq(Units)
      /\ hc \in Seq(Seq(Units)) /\ ac \in Seq(Seq(Units)) /\ (~ damaged => ~ done)
      /\ fin.data_end \in Nat /\ fin.end \in Nat
  BY <1>1, BusyFacts, FinFields
<1>5. Pending(hc, fin.data_end, <<>>, file)
  BY <1>1 DEF FinalizeInv, InHeaders
<1> HIDE DEF hc, ac
<1>6. /\ fin' \in Fins /\ fin'.attrs = <<fin.end, ENTRY_SIZE * Len(w.descs)>> /\ fin'.todo = ac
      /\ fin'.data_end = fin.data_end /\ fin'.end = fin.end /\ fin'.flags = fin.flags
      /\ fin'.written = fin.written
  <2> DEFINE at == <<fin.end, ENTRY_SIZE * Len(w.descs)>>
             g == [fin EXCEPT !.attrs = at]
  <2>1. at \in Seq(Int)
    <3>1. w.descs \in Seq(Descs)
      BY <1>4 DEF Writers, WriterRecords
    <3>2. Len(w.descs) \in Nat
      BY <3>1
    <3>3. fin.end \in Int /\ ENTRY_SIZE * Len(w.descs) \in Int
      BY <3>2, <1>4 DEF ENTRY_SIZE
    <3> QED BY <3>3
  <2> HIDE DEF at
  <2>2. /\ g \in Fins /\ g.attrs = at /\ g.data_end = fin.data_end /\ g.end = fin.end /\ g.flags = fin.flags
        /\ g.written = fin.written
    BY <2>1, <1>4 DEF Fins
  <2>3. fin' = [g EXCEPT !.todo = ac]
    BY <1>3, <1>4 DEF Fins, at
  <2> HIDE DEF g
  <2>4. /\ fin' \in Fins /\ fin'.attrs = g.attrs /\ fin'.todo = ac
        /\ fin'.data_end = g.data_end /\ fin'.end = g.end /\ fin'.flags = g.flags
        /\ fin'.written = g.written
    BY <2>2, <2>3, <1>4 DEF Fins
  <2> QED BY <2>2, <2>4 DEF at
<1>7. HeaderChunks(w', fin'.data_end) = hc /\ AttrChunks(w', fin'.end) = ac
  BY <1>3, <1>6 DEF hc, ac
<1>8. Pending(ac, fin.end, ac, fin.end) /\ Holds(disk, fin.end, ac, Written(ac, ac))
  BY ONLY <1>4, PendingStart
<1>9. Written(hc, <<>>) = Len(hc)
  BY ONLY <1>4, <1>5, PendingEnd
<1>10. pc' \in Busy /\ pc' \in {"idle", "panicked"} \cup Busy /\ pc' # "headers" /\ pc' # "rewrite"
  BY <1>3 DEF Busy
<1>11. WriterType'
  BY <1>3, <1>6, <1>10 DEF WriterType
<1>12. FinalizeInv'
  <2>1. InAttrs'
    BY <1>2, <1>3, <1>6, <1>7, <1>8 DEF InAttrs
  <2>2. w = Synthesized(given[1]) /\ fin.flags = Flags(w) /\ fin.end = fin.data_end + ChunkUnits(hc)
    BY <1>1 DEF FinalizeInv, hc
  <2> QED BY <2>1, <2>2, <1>3, <1>4, <1>6, <1>7, <1>10 DEF FinalizeInv
<1>13. WritingInv'
  <2> SUFFICES ASSUME ~ damaged
               PROVE  /\ ~ done' /\ fin'.data_end = 1 + Len(events') /\ Recorded'
                      /\ Len(disk') >= 1 + Len(events')
                      /\ AtEnd' /\ AllHeaders' /\ WroteAttrs(Written(AttrChunks(w, fin.end), fin.todo))'
    BY <1>3, <1>10 DEF WritingInv
  <2>1. /\ ~ done /\ fin.data_end = 1 + Len(events) /\ Recorded /\ Len(disk) >= 1 + Len(events)
        /\ AtEnd /\ Holds(disk, fin.data_end, hc, Written(hc, fin.todo))
    BY <1>1 DEF WritingInv, WroteHeaders, hc
  <2>2. AllHeaders'
    <3>1. Holds(disk, fin.data_end, hc, Len(hc))
      BY <2>1, <1>1, <1>9
    <3> QED BY <3>1, <1>3, <1>6, <1>7 DEF AllHeaders, WroteHeaders
  <2>3. WroteAttrs(Written(AttrChunks(w, fin.end), fin.todo))'
    BY <1>3, <1>6, <1>7, <1>8 DEF WroteAttrs
  <2>4. Recorded' /\ AtEnd'
    BY <2>1, <1>3 DEF Recorded, AtEnd
  <2> QED BY <2>1, <2>2, <2>3, <2>4, <1>3, <1>6
<1>14. RecordingInv' /\ HeaderInv' /\ FinishedInv'
  BY <1>3, <1>4 DEF RecordingInv, HeaderInv, FinishedInv
<1>15. LeftInv'
  <2> SUFFICES ASSUME ~ damaged PROVE LeftOver'
    BY <1>3 DEF LeftInv
  <2>1. LeftOver
    BY <1>1 DEF LeftInv
  <2> QED BY <2>1, <1>3, <1>6 DEF LeftOver
<1> QED BY <1>11, <1>12, <1>13, <1>14, <1>15

LEMMA FinalizeSeekInv == ASSUME WriterInv, FinalizeSeek PROVE WriterInv'
<1> USE DEF WriterInv
<1> DEFINE ac == AttrChunks(w, fin.end)
<1>1. /\ pc = "attrs" /\ fin.todo = <<>> /\ pc \in Busy
      /\ disk' = disk /\ w' = w
      /\ given' = given /\ damaged' = damaged /\ done' = done
  BY DEF FinalizeSeek, Busy
<1>2. /\ file \in Nat /\ given # <<>> /\ fin \in Fins /\ disk \in Seq(Units) /\ fpos \in 0 .. Len(disk)
      /\ ac \in Seq(Seq(Units)) /\ (~ damaged => ~ done) /\ fin.end \in Nat
  BY <1>1, BusyFacts, FinFields
<1>3. CASE pc' = "rewrite" /\ fpos' = 0 /\ file' = 0 /\ UNCHANGED <<fin, calls, events>>
  <2>1. fin' = fin /\ calls' = calls /\ events' = events /\ pc' \in Busy /\ pc' \in {"idle", "panicked"} \cup Busy
        /\ pc' # "headers" /\ pc' # "attrs"
    BY <1>3 DEF Busy
  <2>2. Pending(ac, fin.end, <<>>, file)
    BY <1>1 DEF FinalizeInv, InAttrs
  <2> HIDE DEF ac
  <2>3. Written(ac, <<>>) = Len(ac) /\ file = fin.end + ChunkUnits(ac)
    BY ONLY <1>2, <2>2, PendingEnd
  <2>4. WriterType'
    <3>1. fpos' \in 0 .. Len(disk') /\ file' \in Nat \cup {Closed}
      BY <1>1, <1>2, <1>3
    <3> QED BY <3>1, <1>1, <1>2, <2>1 DEF WriterType
  <2>5. FinalizeInv'
    <3>1. file' \in Nat
      BY <1>3
    <3> QED BY <3>1, <1>1, <2>1 DEF FinalizeInv
  <2>6. WritingInv'
    <3> SUFFICES ASSUME ~ damaged
                 PROVE  /\ ~ done' /\ fin'.data_end = 1 + Len(events') /\ Recorded'
                        /\ Len(disk') >= 1 + Len(events')
                        /\ fpos' = 0 /\ Len(disk') = fin'.end + ChunkUnits(AttrChunks(w', fin'.end))
                        /\ AllHeaders' /\ AllAttrs'
      BY <1>1, <2>1 DEF WritingInv
    <3>1. /\ ~ done /\ fin.data_end = 1 + Len(events) /\ Recorded /\ Len(disk) >= 1 + Len(events)
          /\ AtEnd /\ AllHeaders /\ WroteAttrs(Written(ac, fin.todo))
      BY <1>1 DEF WritingInv, ac
    <3>2. AllAttrs
      BY <3>1, <2>3, <1>1 DEF AllAttrs, ac
    <3>3. Len(disk) = fin.end + ChunkUnits(AttrChunks(w, fin.end))
      BY <3>1, <2>3 DEF AtEnd, ac
    <3>4. AllHeaders' /\ AllAttrs'
      BY <3>1, <3>2, <1>1, <2>1 DEF AllHeaders, AllAttrs, WroteHeaders, WroteAttrs
    <3>5. Recorded'
      BY <3>1, <1>1, <2>1 DEF Recorded
    <3> QED BY <3>1, <3>3, <3>4, <3>5, <1>1, <1>3, <2>1
  <2>7. RecordingInv' /\ HeaderInv' /\ FinishedInv'
    BY <1>1, <1>2, <1>3 DEF RecordingInv, HeaderInv, FinishedInv
  <2>8. LeftInv'
    BY <1>3 DEF LeftInv
  <2> QED BY <2>4, <2>5, <2>6, <2>7, <2>8
<1>4. CASE Leave /\ UNCHANGED <<fpos, file>>
  <2>0. pc' = "idle" /\ fin' = NoFin /\ events' = events \o fin.written /\ Spend(1)
    BY <1>4 DEF Leave
  <2>1. calls' \in 0 .. MaxCalls
    BY <2>0, SpentType
  <2>2. pc \in {"headers", "attrs"} /\ damaged' \in BOOLEAN
        /\ (~ damaged' => ~ damaged /\ disk' = disk /\ fpos' = fpos)
    BY <1>1, <1>4 DEF WriterType
  <2>3. disk' \in Seq(Units) /\ fpos' \in 0 .. Len(disk') /\ UNCHANGED <<file, w, given, done>>
    BY <1>1, <1>2, <1>4
  <2> QED BY ONLY <2>0, <2>1, <2>2, <2>3, WriterInv, GiveUpInv
<1> QED BY <1>3, <1>4 DEF FinalizeSeek

(* The file header: where the attrs are, where the events are, the flags.  *)
LEMMA FileHeaderIs ==
  ASSUME WriterInv, pc = "rewrite"
  PROVE  /\ FileHeader \in Units /\ <<FileHeader>> \in Seq(Units)
         /\ ~ damaged => FileHeader = Unit("header",
               <<fin.end, ENTRY_SIZE * Len(w.descs)>> \o <<1, Len(events)>> \o Flags(w))
<1>1. pc \in Busy /\ pc # "headers"
  BY DEF Busy
<1>2. /\ fin \in Fins /\ fin.data_end \in Nat /\ fin.flags \in Seq(Int) /\ fin.attrs \in Seq(Int)
      /\ events \in Seq(Units)
  BY <1>1, BusyFacts, FinFields
<1>3. fin.attrs = <<fin.end, ENTRY_SIZE * Len(w.descs)>> /\ fin.flags = Flags(w)
  BY <1>1 DEF WriterInv, FinalizeInv
<1>4. DataSize(fin.data_end) \in Int
  <2>1. U64_MAX \in Nat /\ fin.data_end - 1 \in Int
    BY <1>2, ClockAssumption
  <2> QED BY <2>1, <1>2 DEF DataSize, DATA_START_POS
<1>5. FileHeader \in Units
  <2> DEFINE size == <<1, DataSize(fin.data_end)>>
             v == fin.attrs \o size \o fin.flags
  <2>1. size \in Seq(Int)
    BY <1>4
  <2> HIDE DEF size
  <2>2. v \in Seq(Int)
    BY <2>1, <1>2
  <2>3. FileHeader = Unit("header", v)
    BY DEF FileHeader, DATA_START_POS, size
  <2>4. "header" \in Kinds
    BY DEF Kinds
  <2> HIDE DEF v
  <2> QED BY <2>2, <2>3, <2>4 DEF Unit, Units
<1>6. <<FileHeader>> \in Seq(Units)
  BY <1>5
<1>7. ASSUME ~ damaged PROVE DataSize(fin.data_end) = Len(events)
  <2>1. fin.data_end = 1 + Len(events)
    BY <1>1, <1>7 DEF WriterInv, WritingInv
  <2>2. Len(events) \in Nat
    BY <1>2
  <2>3. fin.data_end - 1 = Len(events) /\ fin.data_end >= 1
    BY <2>1, <2>2
  <2> QED BY <2>3 DEF DataSize, DATA_START_POS
<1> QED BY <1>3, <1>5, <1>6, <1>7 DEF FileHeader, DATA_START_POS

(* The rewrite of the header makes the file complete.                      *)
LEMMA RewriteInv ==
  ASSUME WriterInv, pc = "rewrite", pc' = "idle", fin' = NoFin,
         disk' = Put(disk, fpos, <<FileHeader>>), fpos' = fpos + 1, file' = Closed, w' = NewWriter,
         done' = TRUE, UNCHANGED <<calls, events, given, damaged>>
  PROVE  WriterInv'
<1> USE DEF WriterInv
<1> DEFINE hc == HeaderChunks(w, fin.data_end)
           ac == AttrChunks(w, fin.end)
           u == FileHeader
<1>1. pc \in Busy /\ pc # "headers" /\ pc' \notin Busy /\ pc' \in {"idle", "panicked"} \cup Busy
  BY DEF Busy
<1>2. u \in Units /\ <<u>> \in Seq(Units)
      /\ (~ damaged => u = Unit("header", <<fin.end, ENTRY_SIZE * Len(w.descs)>> \o <<1, Len(events)>> \o Flags(w)))
  BY FileHeaderIs
<1>3. /\ w \in Writers /\ fin \in Fins /\ disk \in Seq(Units) /\ fpos \in 0 .. Len(disk) /\ events \in Seq(Units)
      /\ hc \in Seq(Seq(Units)) /\ ac \in Seq(Seq(Units)) /\ ChunkUnits(hc) \in Nat /\ ChunkUnits(ac) \in Nat
      /\ given # <<>> /\ fin.data_end \in Nat /\ fin.end \in Nat
  BY <1>1, BusyFacts, FinFields
<1>4. disk' = Put(disk, fpos, <<u>>)
  OBVIOUS
<1>5. w = Synthesized(given[1]) /\ fin.end = fin.data_end + ChunkUnits(hc)
  BY <1>1 DEF FinalizeInv
<1> HIDE DEF hc, ac, u
<1>6. disk' \in Seq(Units) /\ fpos' \in 0 .. Len(disk')
  <2>1. Put(disk, fpos, <<u>>) \in Seq(Units)
        /\ Len(Put(disk, fpos, <<u>>)) = IF fpos + Len(<<u>>) > Len(disk) THEN fpos + Len(<<u>>) ELSE Len(disk)
    BY ONLY <1>2, <1>3, PutPoints
  <2>2. Len(<<u>>) = 1 /\ Len(disk) \in Nat /\ fpos \in Nat
    BY <1>3
  <2> QED BY <2>1, <2>2, <1>3, <1>4
<1>7. WriterType'
  <2>1. done' \in BOOLEAN
    OBVIOUS
  <2> QED BY <2>1, <1>1, <1>6, NewWriterType DEF WriterType
<1>8. FinalizeInv' /\ WritingInv' /\ RecordingInv' /\ LeftInv' /\ HeaderInv'
  BY <1>1, <1>3 DEF FinalizeInv, WritingInv, RecordingInv, LeftInv, HeaderInv
<1>9. FinishedInv'
  <2> SUFFICES ASSUME ~ damaged PROVE Complete(disk', w, events)
    BY <1>1, <1>3, <1>5 DEF FinishedInv
  <2>1. /\ fin.data_end = 1 + Len(events) /\ Recorded /\ Len(disk) >= 1 + Len(events)
        /\ fpos = 0 /\ Len(disk) = fin.end + ChunkUnits(ac)
        /\ Holds(disk, fin.data_end, hc, Len(hc)) /\ Holds(disk, fin.end, ac, Len(ac))
    BY <1>1 DEF WritingInv, AllHeaders, AllAttrs, WroteHeaders, WroteAttrs, hc, ac
  <2>2. Len(disk) \in Nat /\ Len(events) \in Nat /\ Len(disk) >= 1
    <3>1. Len(disk) \in Nat /\ Len(events) \in Nat
      BY <1>3
    <3> QED BY <3>1, <2>1
  <2>3. /\ Put(disk, 0, <<u>>) \in Seq(Units) /\ Len(Put(disk, 0, <<u>>)) = Len(disk)
        /\ Put(disk, 0, <<u>>)[1] = u
        /\ \A i \in 2 .. Len(disk) : Put(disk, 0, <<u>>)[i] = disk[i]
    BY ONLY <2>2, <1>2, <1>3, PutFirst, SMTT(30)
  <2>4. Len(disk') = Len(disk) /\ disk'[1] = u /\ \A i \in 2 .. Len(disk) : disk'[i] = disk[i]
    BY <2>1, <2>3, <1>4
  <2>5. \A j \in 1 .. Len(events) : disk'[1 + j] = events[j]
    <3> TAKE j \in 1 .. Len(events)
    <3>1. 1 + j \in 2 .. Len(disk)
      BY <2>1, <2>2
    <3> QED BY <3>1, <2>1, <2>4 DEF Recorded
  <2>6. Holds(disk', fin.data_end, hc, Len(hc))
    <3>1. Len(hc) \in 0 .. Len(hc) /\ SizesBefore(Lens(hc), Len(hc) + 1) = ChunkUnits(hc)
      BY <1>3, LensType
    <3>2. \A i \in fin.data_end + 1 .. fin.data_end + SizesBefore(Lens(hc), Len(hc) + 1) : disk'[i] = disk[i]
      <4> TAKE i \in fin.data_end + 1 .. fin.data_end + SizesBefore(Lens(hc), Len(hc) + 1)
      <4>1. i \in fin.data_end + 1 .. fin.end
        BY <3>1, <1>5
      <4>2. i \in 2 .. Len(disk)
        BY <4>1, <2>1, <2>2, <1>3
      <4> QED BY <4>2, <2>4
    <3> QED BY ONLY <3>1, <3>2, <2>1, <1>3, HoldsKept
  <2>7. Holds(disk', fin.end, ac, Len(ac))
    <3>1. Len(ac) \in 0 .. Len(ac) /\ SizesBefore(Lens(ac), Len(ac) + 1) = ChunkUnits(ac)
      BY <1>3, LensType
    <3>2. \A i \in fin.end + 1 .. fin.end + SizesBefore(Lens(ac), Len(ac) + 1) : disk'[i] = disk[i]
      <4> TAKE i \in fin.end + 1 .. fin.end + SizesBefore(Lens(ac), Len(ac) + 1)
      <4>1. i \in fin.end + 1 .. Len(disk)
        BY <3>1, <2>1
      <4>2. i \in 2 .. Len(disk)
        BY <4>1, <2>1, <2>2, <1>3, <1>5
      <4> QED BY <4>2, <2>4
    <3> QED BY ONLY <3>1, <3>2, <2>1, <1>3, HoldsKept
  <2>8. fin.end = AttrsStart(w, Len(events)) /\ hc = HeaderChunks(w, 1 + Len(events))
    BY <2>1, <1>5 DEF AttrsStart, hc
  <2>9. ac = AttrChunks(w, AttrsStart(w, Len(events)))
    BY <2>8 DEF ac
  <2>10. u = Unit("header", <<AttrsStart(w, Len(events)), 2 * Len(w.descs)>> \o <<1, Len(events)>> \o Flags(w))
    BY <2>8, <1>2 DEF ENTRY_SIZE
  <2>11. Len(disk') = AttrsStart(w, Len(events)) + ChunkUnits(ac)
    BY <2>1, <2>4, <2>8
  <2>12. /\ Holds(disk', 1 + Len(events), hc, Len(hc))
         /\ Holds(disk', AttrsStart(w, Len(events)), ac, Len(ac))
    BY <2>1, <2>6, <2>7, <2>8
  <2> QED BY <2>4, <2>5, <2>8, <2>9, <2>10, <2>11, <2>12 DEF Complete
<1> QED BY <1>7, <1>8, <1>9

LEMMA FinalizeHeaderInv == ASSUME WriterInv, FinalizeHeader PROVE WriterInv'
<1>1. pc = "rewrite" /\ pc' = "idle" /\ fin' = NoFin /\ UNCHANGED <<events, given>> /\ pc \in Busy
  BY DEF FinalizeHeader, Busy
<1>2. CASE /\ disk' = Put(disk, fpos, <<FileHeader>>)
           /\ fpos' = fpos + 1 /\ file' = Closed /\ w' = NewWriter
           /\ done' = TRUE /\ UNCHANGED <<calls, damaged>>
  <2>1. UNCHANGED <<calls, events, given, damaged>>
    BY <1>1, <1>2
  <2> QED BY ONLY <2>1, <1>1, <1>2, WriterInv, RewriteInv
<1>3. CASE Spend(1) /\ damaged' = TRUE /\ UNCHANGED <<disk, fpos, file, w, done>>
  <2>1. calls' \in 0 .. MaxCalls
    BY <1>3, SpentType DEF WriterInv
  <2>2. pc' \notin Busy /\ pc' \in {"idle", "panicked"} \cup Busy /\ damaged' \in BOOLEAN
    BY <1>1, <1>3 DEF Busy
  <2>3. WriterType'
    BY <2>1, <2>2, <1>1, <1>3, NewWriterType DEF WriterInv, WriterType
  <2>4. FinalizeInv'
    BY <2>2 DEF FinalizeInv
  <2>5. RecordingInv' /\ LeftInv' /\ WritingInv' /\ HeaderInv' /\ FinishedInv'
    BY <1>3 DEF RecordingInv, LeftInv, WritingInv, HeaderInv, FinishedInv
  <2> QED BY <2>3, <2>4, <2>5 DEF WriterInv
<1> QED BY <1>2, <1>3 DEF FinalizeHeader

LEMMA NextInv == ASSUME WriterInv, [Next]_vars PROVE WriterInv'
<1>1. CASE UNCHANGED vars
  BY <1>1, StutterInv
<1>2. CASE FinalizeStep
  BY <1>2, FinalizeWriteInv, FinalizeAttrsInv, FinalizeSeekInv, FinalizeHeaderInv DEF FinalizeStep
<1>3. CASE WriteEventData \/ WriteEventDataVectored \/ WriteFinishedInit \/ WriteFinishedRound
  BY <1>3, EventsInv
<1> QED BY <1>1, <1>2, <1>3, CreateInv, CloseInv, SettersInv, BeginInv DEF Next

LEMMA AcceptedFromInv == WriterInv => AcceptedIsComplete
<1> SUFFICES ASSUME WriterInv, View.ok, ~ damaged PROVE given # <<>> /\ Tells(View, given[1])
  BY DEF AcceptedIsComplete
<1> DEFINE x == given[1]
           y == Synthesized(x)
<1>1. IsKind(disk, 0, "header")
  <2>1. OpenLayout(disk).ok /\ ~ Refused.ok
    BY DEF View, Refused
  <2>2. OpenLayout(disk) # Refused
    BY <2>1
  <2> QED BY <2>2 DEF OpenLayout
<1>2. done
  BY <1>1 DEF WriterInv, HeaderInv
<1>3. given # <<>> /\ Complete(disk, y, events)
  BY <1>2 DEF WriterInv, FinishedInv
<1>4. x \in Writers /\ disk \in Seq(Units) /\ events \in Seq(Units)
  BY <1>3 DEF WriterInv, WriterType
<1> HIDE DEF x
<1>5. /\ y \in Writers /\ y.descs = x.descs
      /\ \E k \in 0 .. Len(x.descs) : DescsRead(x.descs, ParseEventDesc(y.headers[EventDesc]), k)
      /\ y.headers[TracingData] =
            IF x.long_size # 0 /\ x.page_size # 0 THEN TracingContent(x) ELSE x.headers[TracingData]
      /\ \A i \in HeaderIndexes \ {EventDesc, TracingData} : y.headers[i] = x.headers[i]
  BY <1>4, SynthesizedType
<1> HIDE DEF y
<1>6. /\ View.events = events
      /\ View.attrs = [n \in DOMAIN y.descs |-> [attr |-> y.descs[n].attr, ids |-> y.descs[n].ids]]
      /\ \A i \in HeaderIndexes : View.headers[i] = y.headers[i]
  <2>1. OpenLayout(disk).ok
    BY DEF View
  <2>2. /\ OpenLayout(disk).events = events
        /\ OpenLayout(disk).attrs =
              [n \in DOMAIN y.descs |-> [attr |-> y.descs[n].attr, ids |-> y.descs[n].ids]]
        /\ \A i \in HeaderIndexes : OpenLayout(disk).headers[i] = y.headers[i]
    <3>1. y \in Writers /\ Complete(disk, y, events) /\ disk \in Seq(Units) /\ events \in Seq(Units)
      BY <1>3, <1>4, <1>5
    <3> QED BY ONLY <3>1, <2>1, CompleteOpened
  <2> QED BY <2>2 DEF View
<1>7. EventDesc \in HeaderIndexes /\ TracingData \in HeaderIndexes
  BY DEF EventDesc, TracingData, HeaderIndexes, LastFeature
<1>8. View.attrs = [n \in DOMAIN x.descs |-> [attr |-> x.descs[n].attr, ids |-> x.descs[n].ids]]
  BY <1>5, <1>6
<1>9. DescsMatch(x, ParseEventDesc(View.headers[EventDesc]))
  <2>1. View.headers[EventDesc] = y.headers[EventDesc]
    BY <1>6, <1>7
  <2>2. PICK k \in 0 .. Len(x.descs) : DescsRead(x.descs, ParseEventDesc(y.headers[EventDesc]), k)
    BY <1>5
  <2> QED BY <2>1, <2>2 DEF DescsRead, DescsMatch, DescRecord, DescOf
<1>10. View.headers[TracingData] = y.headers[TracingData]
  BY <1>6, <1>7
<1>11. IF x.long_size # 0 /\ x.page_size # 0
       THEN TracingMatches(x, ParseTracing(View.headers[TracingData]))
       ELSE View.headers[TracingData] = x.headers[TracingData]
  <2>1. TracingMatches(x, ParseTracing(TracingContent(x)))
    BY ONLY <1>4, TracingParsed
  <2> QED BY <2>1, <1>5, <1>10
<1>12. \A i \in HeaderIndexes \ {EventDesc, TracingData} : View.headers[i] = x.headers[i]
  BY <1>5, <1>6
<1>13. Tells(View, x)
  BY <1>6, <1>8, <1>9, <1>11, <1>12 DEF Tells
<1> QED BY <1>3, <1>13 DEF x

LEMMA OpensFromInv == WriterInv => FinalizedOpens
<1> SUFFICES ASSUME WriterInv, done, ~ damaged, SectionsFit(given[1]),
                    given[1].descs # <<>>, Last(given[1].descs).ids # <<>>
             PROVE  View.ok
  BY DEF FinalizedOpens
<1> DEFINE x == given[1]
           y == Synthesized(x)
<1>1. given # <<>> /\ Complete(disk, y, events)
  BY DEF WriterInv, FinishedInv
<1>2. x \in Writers /\ disk \in Seq(Units) /\ events \in Seq(Units)
  BY <1>1 DEF WriterInv, WriterType
<1>3. x.descs # <<>> /\ x.descs[Len(x.descs)].ids # <<>>
  BY DEF Last
<1> HIDE DEF x
<1>4. y \in Writers /\ y.descs = x.descs
  BY <1>2, SynthesizedType
<1>7. Fits(y)
  <2>1. SectionsFit(x)
    BY DEF x
  <2>2. DOMAIN x.descs = 1 .. Len(x.descs)
    BY <1>2 DEF Writers, WriterRecords
  <2>3. /\ 2 * Len(x.descs) < SECTION_LIMIT
        /\ \A n \in 1 .. Len(x.descs) : Len(x.descs[n].ids) < SECTION_LIMIT
        /\ \A i \in HeaderIndexes : Len(y.headers[i]) < SECTION_LIMIT
    BY <2>1, <2>2 DEF SectionsFit, Synthesized, ENTRY_SIZE
  <2> HIDE DEF y
  <2> QED BY <2>3, <1>4 DEF Fits
<1> HIDE DEF y
<1>5. Len(y.descs[Len(y.descs)].ids) # 0
  <2>1. y.descs \in Seq(Descs) /\ y.descs # <<>>
    BY <1>3, <1>4 DEF Writers, WriterRecords
  <2>2. Len(y.descs) \in 1 .. Len(y.descs)
    BY <2>1
  <2>3. y.descs[Len(y.descs)] \in Descs
    BY <2>1, <2>2
  <2>4. y.descs[Len(y.descs)].ids \in Seq(Int)
    BY <2>3 DEF Descs
  <2> QED BY <2>4, <1>3, <1>4
<1>6. OpenLayout(disk).ok
  BY ONLY <1>1, <1>2, <1>3, <1>4, <1>5, <1>7, CompleteOpened
<1> QED BY <1>6 DEF View

-----------------------------------------------------------------------------
(* In every state of the writer, whatever it is given and whichever write  *)
(* fails, the file, the positions, the collected headers and descriptions  *)
(* and the locals of finalize_and_close keep their types.                  *)
THEOREM WriterTypeCorrect == Spec => []WriterType
<1>1. WriterInv => WriterType
  BY DEF WriterInv
<1> QED BY <1>1, InitInv, NextInv, PTL DEF Spec

(* A file that PerfDataFileReader's open accepts, at any moment and so     *)
(* after a crash between two writes of finalize_and_close or a failure of  *)
(* any of them, holds exactly the events, attrs, ids and headers that were *)
(* given to PerfDataFileWriter since create_file, the names up to the first*)
(* description beyond the reader's limits and the formats of one common    *)
(* type; what failed attempts to finalize left counts as events.  Not for  *)
(* a file with a torn write or a failed rewrite of its header (damaged).   *)
THEOREM WriterAcceptedIsComplete == Spec => []AcceptedIsComplete
BY InitInv, NextInv, AcceptedFromInv, PTL DEF Spec

(* A file for which finalize_and_close returned Ok opens, when the last    *)
(* event description has sample ids and no section is too large for the    *)
(* reader.                                                                 *)
THEOREM WriterFinalizedOpens == Spec => []FinalizedOpens
BY InitInv, NextInv, OpensFromInv, PTL DEF Spec

-----------------------------------------------------------------------------
(* finalize_and_close does not panic.                                      *)

(* The names that add_event_desc takes have no character of two bytes.     *)
NarrowNames == \A name \in Names : \A i \in DOMAIN name : ~ IsWide(name[i])

NarrowDescs == \A i \in DOMAIN w.descs : SliceFits(w.descs[i])

LEMMA CutNarrow ==
  ASSUME NarrowNames, NEW ids, NEW attr, NEW name \in Names
  PROVE  SliceFits([attr |-> attr, name |-> CutAtNul(name), ids |-> ids])
<1> DEFINE c == CutAtNul(name)
<1>1. name \in Seq(Int)
  BY WriterAssumption
<1>2. ASSUME NEW i \in DOMAIN c PROVE i \in DOMAIN name /\ c[i] = name[i]
  <2>1. CASE \E j \in DOMAIN name : name[j] = 0
    <3> DEFINE Zeros == {j \in DOMAIN name : name[j] = 0}
    <3>1. Zeros \subseteq Nat /\ Zeros # {}
      BY <2>1, <1>1
    <3> HIDE DEF Zeros
    <3>2. Min(Zeros) \in Zeros
      BY <3>1, NatMin
    <3> DEFINE m == Min(Zeros)
    <3>3. m \in 1 .. Len(name)
      BY <3>2, <1>1 DEF Zeros
    <3>4. c = SubSeq(name, 1, m - 1)
      BY <2>1 DEF CutAtNul, Zeros
    <3> HIDE DEF m, c
    <3>5. i \in 1 .. m - 1 /\ c[i] = name[i]
      BY <3>3, <3>4, <1>1
    <3> QED BY <3>3, <3>5, <1>1
  <2>2. CASE ~ \E j \in DOMAIN name : name[j] = 0
    BY <2>2, <1>2 DEF CutAtNul
  <2> QED BY <2>1, <2>2
<1> HIDE DEF c
<1>3. \A i \in DOMAIN c : ~ IsWide(c[i])
  BY <1>2 DEF NarrowNames
<1> QED BY <1>3 DEF SliceFits, c

LEMMA NarrowNext ==
  ASSUME NarrowNames, WriterInv, NarrowDescs, FinalizeReturns, [Next]_vars
  PROVE  NarrowDescs' /\ FinalizeReturns'
<1>1. w \in Writers
  BY DEF WriterInv, WriterType
<1>2. ASSUME w' = NewWriter PROVE NarrowDescs'
  BY <1>2 DEF NarrowDescs, NewWriter
<1>3. ASSUME w'.descs = w.descs PROVE NarrowDescs'
  BY <1>3 DEF NarrowDescs
<1>4. CASE CreateFile \/ CloseNoFinalize
  <2>1. w' = NewWriter /\ pc' = pc
    BY <1>4 DEF CreateFile, CloseNoFinalize
  <2> QED BY <2>1, <1>2 DEF FinalizeReturns
<1>5. CASE WriteEventData \/ WriteEventDataVectored \/ WriteFinishedInit \/ WriteFinishedRound \/ UNCHANGED vars
  <2>1. w' = w /\ pc' = pc
    BY <1>5 DEF WriteEventData, WriteEventDataVectored, WriteFinishedInit, WriteFinishedRound, WriteEvents, vars
  <2> QED BY <2>1, <1>3 DEF FinalizeReturns
<1>6. CASE Setters
  <2>1. /\ pc = "idle" /\ SameFile
        /\ \/ w'.descs = w.descs
           \/ \E ids \in IdLists, attr \in Attrs, name \in Names :
                 w'.descs = Append(w.descs, [attr |-> attr, name |-> CutAtNul(name), ids |-> ids])
    BY ONLY <1>1, <1>6, SettersType
  <2>2. FinalizeReturns'
    BY <2>1 DEF SameFile, FinalizeReturns
  <2>3. ASSUME NEW ids \in IdLists, NEW attr \in Attrs, NEW name \in Names,
               w'.descs = Append(w.descs, [attr |-> attr, name |-> CutAtNul(name), ids |-> ids])
        PROVE  NarrowDescs'
    <3> DEFINE desc == [attr |-> attr, name |-> CutAtNul(name), ids |-> ids]
    <3>1. SliceFits(desc)
      BY CutNarrow
    <3>2. w'.descs = Append(w.descs, desc)
      BY <2>3
    <3> HIDE DEF desc
    <3>3. w.descs \in Seq(Descs)
      BY <1>1 DEF Writers, WriterRecords
    <3>4. ASSUME NEW i \in DOMAIN w'.descs PROVE SliceFits(w'.descs[i])
      <4>1. i \in 1 .. Len(w.descs) + 1 /\ Len(w.descs) \in Nat /\ DOMAIN w.descs = 1 .. Len(w.descs)
        BY <3>2, <3>3, <3>4
      <4>2. CASE i \in 1 .. Len(w.descs)
        <5>1. w'.descs[i] = w.descs[i]
          BY <4>2, <3>2, <3>3
        <5> QED BY <5>1, <4>1, <4>2 DEF NarrowDescs
      <4>3. CASE i = Len(w.descs) + 1
        <5>1. w'.descs[i] = desc
          BY <4>3, <3>2, <3>3
        <5> QED BY <5>1, <3>1
      <4> QED BY <4>1, <4>2, <4>3
    <3> QED BY <3>4 DEF NarrowDescs
  <2> QED BY <2>1, <2>2, <2>3, <1>3
<1>7. CASE Finalize
  <2>1. pc' = "headers" /\ w' = Synthesized(w)
    BY <1>7 DEF Finalize, NarrowDescs, Synthesized
  <2>2. w'.descs = w.descs
    BY <2>1, <1>1, SynthesizedType
  <2> QED BY <2>1, <2>2, <1>3 DEF FinalizeReturns
<1>8. CASE FinalizeWrite \/ FinalizeSeek
  <2>1. w' = w /\ (pc' = pc \/ pc' = "idle" \/ pc' = "rewrite")
    BY <1>8 DEF FinalizeWrite, FinalizeSeek, Leave
  <2> QED BY <2>1, <1>3 DEF FinalizeReturns
<1>9. CASE FinalizeAttrs
  <2>1. w' = w /\ pc' = "attrs"
    BY <1>9, HeadersEnd DEF FinalizeAttrs
  <2> QED BY <2>1, <1>3 DEF FinalizeReturns
<1>10. CASE FinalizeHeader
  <2>1. pc' = "idle" /\ (w' = w \/ w' = NewWriter)
    BY <1>10 DEF FinalizeHeader
  <2> QED BY <2>1, <1>2, <1>3 DEF FinalizeReturns
<1> QED BY <1>4, <1>5, <1>6, <1>7, <1>8, <1>9, <1>10 DEF Next, FinalizeStep

(* When the event names have no character of two bytes, finalize_and_close *)
(* panics neither on its assertion that the headers end where their        *)
(* sections say nor on the slice of a name, however often it is called     *)
(* again after an error.                                                   *)
THEOREM WriterFinalizeReturns == ASSUME NarrowNames PROVE Spec => []FinalizeReturns
<1>1. Init => NarrowDescs /\ FinalizeReturns
  BY DEF Init, NewWriter, NarrowDescs, FinalizeReturns
<1>2. WriterInv /\ NarrowDescs /\ FinalizeReturns /\ [Next]_vars => NarrowDescs' /\ FinalizeReturns'
  BY NarrowNext
<1> QED BY <1>1, <1>2, InitInv, NextInv, PTL DEF Spec
=============================================================================
