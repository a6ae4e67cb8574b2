------------------------------ MODULE SumProofs ------------------------------
(***************************************************************************)
(* Sums over a finite set of accounts: what they are when nothing, one     *)
(* account or two accounts hold something, and how they move when one      *)
(* account does.                                                           *)
(***************************************************************************)
EXTENDS Sums, FiniteSetTheorems, WellFoundedInduction, TLAPS

\* Induction over the naturals, by a least counterexample.
LEMMA LeastNatural ==
    ASSUME NEW T \in SUBSET Nat, T # {}
    PROVE  \E m \in T : \A n \in T : m <= n
<1>1. PICK m \in T : \A n \in T : ~(<<n, m>> \in OpToRel(<, Nat))
  BY NatLessThanWellFounded, WFMin
<1>2. \A n \in T : ~(n < m)
  BY <1>1 DEF OpToRel
<1> QED BY <1>2

\* A set of naturals with 0 and the successor of each of its members is all of them.
LEMMA EveryNatural ==
    ASSUME NEW K \in SUBSET Nat, 0 \in K, \A n \in K : n + 1 \in K
    PROVE  K = Nat
<1>1. SUFFICES ASSUME Nat \ K # {} PROVE FALSE
  OBVIOUS
<1>2. PICK m \in Nat \ K : \A n \in Nat \ K : m <= n
  BY <1>1, LeastNatural
<1>3. m # 0 /\ m - 1 \in Nat /\ m - 1 \notin Nat \ K
  BY <1>2
<1> QED BY <1>2, <1>3

\* The account a sum takes next, and the others.
Chosen(s) == CHOOSE a \in s : TRUE
Rest(s) == s \ {Chosen(s)}

\* What holds of no account and of a set when it holds of all but the chosen one
\* holds of every set of accounts.
LEMMA EverySubset ==
    ASSUME NEW A, IsFiniteSet(A), NEW G, {} \in G,
           \A s \in SUBSET A : s # {} /\ Rest(s) \in G => s \in G
    PROVE  \A s \in SUBSET A : s \in G
<1> DEFINE K == {n \in Nat : \A s \in SUBSET A : Cardinality(s) = n => s \in G}
<1>1. \A s \in SUBSET A : IsFiniteSet(s) /\ Cardinality(s) \in Nat
  BY FS_Subset, FS_CardinalityType
<1>2. 0 \in K
  BY <1>1, FS_EmptySet
<1>3. ASSUME NEW n \in K PROVE n + 1 \in K
  <2>1. ASSUME NEW s \in SUBSET A, Cardinality(s) = n + 1 PROVE s \in G
    <3>1. s # {} /\ n \in Nat
      BY <2>1, FS_EmptySet
    <3>2. Chosen(s) \in s
      BY <3>1 DEF Chosen
    <3>3. Cardinality(Rest(s)) = n
      BY <1>1, <2>1, <3>1, <3>2, FS_RemoveElement DEF Rest
    <3>4. Rest(s) \in SUBSET A
      BY DEF Rest
    <3> QED BY <3>1, <3>3, <3>4
  <2> QED BY <2>1
<1>4. K = Nat
  <2>1. K \in SUBSET Nat
    OBVIOUS
  <2> HIDE DEF K
  <2> QED BY <1>2, <1>3, <2>1, EveryNatural
<1> QED BY <1>1, <1>4

\* The sums of all subsets, as one function.
Summed(f, A, it) ==
    it = [s \in SUBSET A |-> IF s = {} THEN 0 ELSE f[Chosen(s)] + it[Rest(s)]]
Sums(f, A) == CHOOSE it : Summed(f, A, it)

\* A sum is the last of the sums of the subsets.
LEMMA SumOfIs == \A f, A : SumOver(f, A) = Sums(f, A)[A]
BY DEF SumOver, MapThenFoldSet, Sums, Summed, Chosen, Rest

\* The sums of all sets of accounts exist, one account at a time.
LEMMA SumsExist ==
    ASSUME NEW A, IsFiniteSet(A), NEW f \in [A -> Int]
    PROVE  Summed(f, A, Sums(f, A))
<1> DEFINE Sets == SUBSET A
           Fits(g, s) == g[s] = IF s = {} THEN 0 ELSE f[Chosen(s)] + g[Rest(s)]
           UpTo(g, n) == /\ g = [s \in Sets |-> g[s]]
                         /\ \A s \in Sets : Cardinality(s) <= n => Fits(g, s)
           K == {n \in Nat : \E g : UpTo(g, n)}
<1>1. \A s \in Sets : IsFiniteSet(s) /\ Cardinality(s) \in Nat
  BY FS_Subset, FS_CardinalityType
<1>2. ASSUME NEW s \in Sets, s # {} PROVE Rest(s) \in Sets /\ Cardinality(Rest(s)) = Cardinality(s) - 1
  <2>1. Chosen(s) \in s
    BY <1>2 DEF Chosen
  <2> QED BY <1>1, <2>1, FS_RemoveElement DEF Rest
<1>3. 0 \in K
  <2> DEFINE g == [s \in Sets |-> 0]
  <2>1. \A s \in Sets : Cardinality(s) <= 0 => s = {}
    BY <1>1, FS_EmptySet
  <2>2. UpTo(g, 0)
    BY <2>1
  <2> HIDE DEF g, UpTo
  <2> QED BY <2>2
<1>4. ASSUME NEW n \in K PROVE n + 1 \in K
  <2>1. PICK g : UpTo(g, n)
    OBVIOUS
  <2> DEFINE k == [s \in Sets |-> IF Cardinality(s) <= n THEN g[s] ELSE f[Chosen(s)] + g[Rest(s)]]
  <2>2. ASSUME NEW s \in Sets, Cardinality(s) <= n + 1 PROVE Fits(k, s)
    <3>1. CASE s = {}
      <4>1. Cardinality(s) <= n
        BY <3>1, FS_EmptySet
      <4>2. g[s] = 0
        BY <2>1, <3>1, <4>1
      <4> QED BY <3>1, <4>1, <4>2
    <3>2. CASE s # {}
      <4>1. Rest(s) \in Sets /\ Cardinality(Rest(s)) <= n
        BY <1>1, <1>2, <2>2, <3>2
      <4>2. k[Rest(s)] = g[Rest(s)]
        BY <4>1
      <4>3. k[s] = f[Chosen(s)] + g[Rest(s)]
        BY <2>1, <3>2
      <4> HIDE DEF k
      <4> QED BY <3>2, <4>2, <4>3
    <3> QED BY <3>1, <3>2
  <2>3. k = [s \in Sets |-> k[s]]
    OBVIOUS
  <2>4. UpTo(k, n + 1)
    BY <2>2, <2>3
  <2> HIDE DEF k, UpTo
  <2> QED BY <2>4
<1>5. K = Nat
  <2>1. K \in SUBSET Nat
    OBVIOUS
  <2> HIDE DEF K
  <2> QED BY <1>3, <1>4, <2>1, EveryNatural
<1>6. PICK g : UpTo(g, Cardinality(A))
  BY <1>1, <1>5
<1>7. \A s \in Sets : Cardinality(s) <= Cardinality(A)
  BY FS_Subset
<1>8. Summed(f, A, g)
  BY <1>6, <1>7 DEF Summed
<1> QED BY <1>8 DEF Sums

\* The sum of a set is the chosen account's value and the sum of the rest.
LEMMA SumsStep ==
    ASSUME NEW A, IsFiniteSet(A), NEW f \in [A -> Int]
    PROVE  /\ Sums(f, A)[{}] = 0
           /\ \A s \in SUBSET A : s # {} =>
                /\ Chosen(s) \in s /\ Rest(s) \in SUBSET A
                /\ Sums(f, A)[s] = f[Chosen(s)] + Sums(f, A)[Rest(s)]
           /\ \A s \in SUBSET A : Sums(f, A)[s] \in Int
<1>1. Summed(f, A, Sums(f, A))
  BY SumsExist
<1>2. \A s \in SUBSET A : s # {} => Chosen(s) \in s /\ Rest(s) \in SUBSET A
  BY DEF Chosen, Rest
<1>3. Sums(f, A)[{}] = 0
  BY <1>1 DEF Summed
<1>4. \A s \in SUBSET A : s # {} => Sums(f, A)[s] = f[Chosen(s)] + Sums(f, A)[Rest(s)]
  BY <1>1 DEF Summed
<1> DEFINE G == {s \in SUBSET A : Sums(f, A)[s] \in Int}
<1>5. \A s \in SUBSET A : s \in G
  <2>1. {} \in G
    BY <1>3
  <2>2. \A s \in SUBSET A : s # {} /\ Rest(s) \in G => s \in G
    BY <1>2, <1>4
  <2> HIDE DEF G
  <2> QED BY <2>1, <2>2, EverySubset
<1> QED BY <1>2, <1>3, <1>4, <1>5

\* Sums add up account by account.
LEMMA SumsAdd ==
    ASSUME NEW A, IsFiniteSet(A), NEW f \in [A -> Int], NEW g \in [A -> Int],
           NEW h \in [A -> Int], \A a \in A : h[a] = f[a] + g[a]
    PROVE  SumOver(h, A) = SumOver(f, A) + SumOver(g, A)
<1> DEFINE G == {s \in SUBSET A : Sums(h, A)[s] = Sums(f, A)[s] + Sums(g, A)[s]}
<1>1. {} \in G
  BY SumsStep
<1>2. ASSUME NEW s \in SUBSET A, s # {}, Rest(s) \in G PROVE s \in G
  <2>1. Chosen(s) \in A
    BY <1>2, SumsStep
  <2>2. /\ Sums(f, A)[s] = f[Chosen(s)] + Sums(f, A)[Rest(s)] /\ Sums(f, A)[Rest(s)] \in Int
        /\ Sums(g, A)[s] = g[Chosen(s)] + Sums(g, A)[Rest(s)] /\ Sums(g, A)[Rest(s)] \in Int
        /\ Sums(h, A)[s] = h[Chosen(s)] + Sums(h, A)[Rest(s)] /\ Sums(h, A)[Rest(s)] \in Int
    BY <1>2, SumsStep
  <2>3. f[Chosen(s)] \in Int /\ g[Chosen(s)] \in Int /\ h[Chosen(s)] = f[Chosen(s)] + g[Chosen(s)]
    BY <2>1
  <2> QED BY <1>2, <2>2, <2>3
<1>3. A \in G
  <2> HIDE DEF G
  <2> QED BY <1>1, <1>2, EverySubset
<1> QED BY <1>3, SumOfIs

\* n at h, nothing elsewhere.
One(A, h, n) == [a \in A |-> IF a = h THEN n ELSE 0]

\* A function that is nothing but at one account sums to what it is there.
LEMMA SumAtOne ==
    ASSUME NEW A, IsFiniteSet(A), NEW h \in A, NEW n \in Int
    PROVE  One(A, h, n) \in [A -> Int] /\ SumOver(One(A, h, n), A) = n
<1> DEFINE f == One(A, h, n)
           G == {s \in SUBSET A : Sums(f, A)[s] = IF h \in s THEN n ELSE 0}
<1>1. f \in [A -> Int] /\ \A a \in A : f[a] = IF a = h THEN n ELSE 0
  BY DEF One
<1> HIDE DEF f
<1>2. {} \in G
  BY <1>1, SumsStep
<1>3. ASSUME NEW s \in SUBSET A, s # {}, Rest(s) \in G PROVE s \in G
  <2>1. Chosen(s) \in s /\ Sums(f, A)[s] = f[Chosen(s)] + Sums(f, A)[Rest(s)]
    BY <1>1, <1>3, SumsStep
  <2>2. h \in Rest(s) <=> h \in s /\ h # Chosen(s)
    BY DEF Rest
  <2> QED BY <1>1, <1>3, <2>1, <2>2
<1>4. A \in G
  <2> HIDE DEF G
  <2> QED BY <1>2, <1>3, EverySubset
<1> QED BY <1>1, <1>4, SumOfIs DEF f

\* A sum of naturals is one.
LEMMA SumIsNatural ==
    ASSUME NEW A, IsFiniteSet(A), NEW f \in [A -> Nat]
    PROVE  SumOver(f, A) \in Nat
<1> DEFINE G == {s \in SUBSET A : Sums(f, A)[s] \in Nat}
<1>0. f \in [A -> Int]
  OBVIOUS
<1>1. {} \in G
  BY <1>0, SumsStep
<1>2. ASSUME NEW s \in SUBSET A, s # {}, Rest(s) \in G PROVE s \in G
  <2>1. Chosen(s) \in A /\ Sums(f, A)[s] = f[Chosen(s)] + Sums(f, A)[Rest(s)]
    BY <1>0, <1>2, SumsStep
  <2> QED BY <1>2, <2>1
<1>3. A \in G
  <2> HIDE DEF G
  <2> QED BY <1>1, <1>2, EverySubset
<1> QED BY <1>3, SumOfIs

\* No two accounts hold more than all of them together.
LEMMA TwoWithin ==
    ASSUME NEW A, IsFiniteSet(A), NEW f \in [A -> Nat], NEW a \in A, NEW b \in A
    PROVE  IF a = b THEN f[a] <= SumOver(f, A) ELSE f[a] + f[b] <= SumOver(f, A)
<1> DEFINE rest == [c \in A |-> IF c \in {a, b} THEN 0 ELSE f[c]]
           but == [c \in A |-> IF c = a THEN 0 ELSE f[c]]
<1>1. rest \in [A -> Nat] /\ SumOver(rest, A) \in Nat
  BY SumIsNatural
<1>2. but \in [A -> Int] /\ One(A, a, f[a]) \in [A -> Int]
  BY DEF One
<1>3. SumOver(f, A) = SumOver(but, A) + SumOver(One(A, a, f[a]), A)
  <2>1. \A c \in A : f[c] = but[c] + One(A, a, f[a])[c]
    BY DEF One
  <2> HIDE DEF but
  <2> QED BY <1>2, <2>1, SumsAdd
<1>4. SumOver(One(A, a, f[a]), A) = f[a]
  BY SumAtOne
<1>5. CASE a = b
  <2>1. but = rest
    BY <1>5
  <2> HIDE DEF but, rest
  <2> QED BY <1>1, <1>3, <1>4, <1>5, <2>1
<1>6. CASE a # b
  <2>1. SumOver(but, A) = SumOver(rest, A) + SumOver(One(A, b, f[b]), A)
    <3>1. \A c \in A : but[c] = rest[c] + One(A, b, f[b])[c]
      BY <1>6 DEF One
    <3>2. rest \in [A -> Int] /\ One(A, b, f[b]) \in [A -> Int]
      BY DEF One
    <3> HIDE DEF but, rest
    <3> QED BY <1>2, <3>1, <3>2, SumsAdd
  <2>2. SumOver(One(A, b, f[b]), A) = f[b]
    BY SumAtOne
  <2> HIDE DEF but, rest
  <2> QED BY <1>1, <1>3, <1>4, <1>6, <2>1, <2>2
<1> QED BY <1>5, <1>6

\* A sum moves by what one account moves.
LEMMA SumMoves ==
    ASSUME NEW A, IsFiniteSet(A), NEW f \in [A -> Int], NEW g \in [A -> Int], NEW h \in A, NEW n \in Int,
           \A a \in A : g[a] = IF a = h THEN f[a] + n ELSE f[a]
    PROVE  SumOver(g, A) = SumOver(f, A) + n
<1>1. \A a \in A : g[a] = f[a] + One(A, h, n)[a]
  BY DEF One
<1>2. One(A, h, n) \in [A -> Int] /\ SumOver(One(A, h, n), A) = n
  BY SumAtOne
<1>3. SumOver(g, A) = SumOver(f, A) + SumOver(One(A, h, n), A)
  BY <1>1, <1>2, SumsAdd
<1> QED BY <1>2, <1>3

\* Where no account holds anything, all hold nothing.
LEMMA SumOfZeros ==
    ASSUME NEW A, IsFiniteSet(A)
    PROVE  SumOver([a \in A |-> 0], A) = 0
<1> DEFINE f == [a \in A |-> 0]
           G == {s \in SUBSET A : Sums(f, A)[s] = 0}
<1>1. f \in [A -> Int] /\ \A a \in A : f[a] = 0
  OBVIOUS
<1> HIDE DEF f
<1>2. {} \in G
  BY <1>1, SumsStep
<1>3. ASSUME NEW s \in SUBSET A, s # {}, Rest(s) \in G PROVE s \in G
  <2>1. Chosen(s) \in A /\ Sums(f, A)[s] = f[Chosen(s)] + Sums(f, A)[Rest(s)]
    BY <1>1, <1>3, SumsStep
  <2> QED BY <1>1, <1>3, <2>1
<1>4. A \in G
  <2> HIDE DEF G
  <2> QED BY <1>2, <1>3, EverySubset
<1> QED BY <1>4, SumOfIs DEF f

\* A sum of integers is one.
LEMMA SumIsInteger ==
    ASSUME NEW A, IsFiniteSet(A), NEW f \in [A -> Int]
    PROVE  SumOver(f, A) \in Int
BY SumsStep, SumOfIs
=============================================================================
