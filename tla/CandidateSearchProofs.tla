----------------------- MODULE CandidateSearchProofs -----------------------
(***************************************************************************)
(* Proofs that whatever the detector selects is a candidate, and that it   *)
(* misses none where its limits on paths cut nothing off, for every        *)
(* snapshot, price, quality, tuning, number of hops and cutoff.            *)
(***************************************************************************)
EXTENDS CandidateSearch, FiniteSetTheorems, WellFoundedInduction, TLAPS

-----------------------------------------------------------------------------
(* Induction and recursion over the natural numbers *)

\* Induction over the natural numbers, about the set of those that have a property
LEMMA InductiveSet ==
    ASSUME NEW S, 0 \in S, \A n \in Nat : n \in S => n + 1 \in S
    PROVE  Nat \subseteq S
<1> DEFINE R == OpToRel(<, Nat)
           T == {n \in Nat : n \notin S}
<1> SUFFICES ASSUME T # {} PROVE FALSE
  OBVIOUS
<1>1. IsWellFoundedOn(R, Nat)
  BY NatLessThanWellFounded, Zenon
<1>2. PICK x \in T : \A y \in T : ~ (<<y, x>> \in R)
  <2> HIDE DEF R
  <2> QED
    BY <1>1, WFMin
<1>3. \A y \in T : ~ (y < x)
  BY <1>2 DEF OpToRel
<1>4. x # 0
  OBVIOUS
<1>5. x - 1 \in Nat /\ x - 1 \in T
  <2>1. x - 1 \in Nat /\ (x - 1) + 1 = x
    BY <1>4
  <2> QED
    BY <2>1
<1> QED
  BY <1>3, <1>5

\* The values after each round of a loop: F[i] is what its i-th round makes of one
Rounds(X, base, n, F) == base \in X /\ n \in Nat /\ F \in [1..n -> [X -> X]]
Values(X, base, n, F, g) == g \in [0..n -> X] /\ g[0] = base /\ \A i \in 1..n : g[i] = F[i][g[i - 1]]

LEMMA LoopExists ==
    ASSUME NEW X, NEW base, NEW n, NEW F, Rounds(X, base, n, F)
    PROVE  \E g : Values(X, base, n, F, g)
<1> USE DEF Rounds
<1> DEFINE Made(g, m) == /\ g \in [0..m -> X]
                         /\ g[0] = base
                         /\ \A i \in 1..m : g[i] = F[i][g[i - 1]]
           T == {m \in Nat : m <= n => \E g : Made(g, m)}
<1>1. 0 \in T
  <2> DEFINE g == [i \in 0..0 |-> base]
  <2>1. Made(g, 0)
    OBVIOUS
  <2> HIDE DEF Made, g
  <2>2. \E f : Made(f, 0)
    BY <2>1
  <2> QED
    BY <2>2
<1>2. ASSUME NEW m \in Nat, m \in T PROVE m + 1 \in T
  <2> SUFFICES ASSUME m + 1 <= n PROVE \E g : Made(g, m + 1)
    <3> HIDE DEF Made
    <3> QED
      OBVIOUS
  <2>1. \E g : Made(g, m)
    <3> HIDE DEF Made
    <3> QED
      BY <1>2
  <2>2. PICK g : Made(g, m)
    BY <2>1
  <2> DEFINE h == [i \in 0..(m + 1) |-> IF i = m + 1 THEN F[m + 1][g[m]] ELSE g[i]]
  <2>3. F[m + 1][g[m]] \in X
    BY <2>2
  <2>4. h \in [0..(m + 1) -> X] /\ h[0] = base
    BY <2>2, <2>3
  <2>5. \A i \in 1..(m + 1) : h[i] = F[i][h[i - 1]]
    <3> TAKE i \in 1..(m + 1)
    <3>1. CASE i = m + 1
      <4>1. h[i] = F[m + 1][g[m]] /\ h[i - 1] = g[m]
        BY <3>1
      <4> QED
        BY <3>1, <4>1
    <3>2. CASE i # m + 1
      <4>1. i \in 1..m /\ h[i] = g[i] /\ h[i - 1] = g[i - 1]
        BY <3>2
      <4> QED
        BY <2>2, <4>1
    <3> QED
      BY <3>1, <3>2
  <2> HIDE DEF h
  <2>6. Made(h, m + 1)
    BY <2>4, <2>5
  <2> HIDE DEF Made
  <2> QED
    BY <2>6
<1>3. n \in T
  <2> HIDE DEF T
  <2> QED
    BY <1>1, <1>2, InductiveSet
<1>4. \E g : Made(g, n)
  <2> HIDE DEF Made
  <2> QED
    BY <1>3
<1> QED
  BY <1>4 DEF Values

-----------------------------------------------------------------------------
(* The first of a finite set *)

\* R orders S strictly.
Strict(R, S) ==
    /\ \A x \in S : <<x, x>> \notin R
    /\ \A x, y, z \in S : <<x, y>> \in R /\ <<y, z>> \in R => <<x, z>> \in R

LEMMA MinimalExists ==
    ASSUME NEW S, IsFiniteSet(S), S # {}, NEW R, Strict(R, S)
    PROVE  \E x \in S : \A y \in S : <<y, x>> \notin R
<1> DEFINE HasMinimal(U) == \E x \in U : \A y \in U : <<y, x>> \notin R
           T == {n \in Nat : \A U \in SUBSET S : Cardinality(U) = n + 1 => HasMinimal(U)}
<1>1. \A U \in SUBSET S : IsFiniteSet(U) /\ Cardinality(U) \in Nat
  BY FS_Subset, FS_CardinalityType
<1>2. 0 \in T
  <2> SUFFICES ASSUME NEW U \in SUBSET S, Cardinality(U) = 1 PROVE HasMinimal(U)
    OBVIOUS
  <2>1. PICK x : U = {x}
    BY <1>1, FS_Singleton
  <2> QED
    BY <2>1 DEF Strict
<1>3. ASSUME NEW n \in Nat, n \in T PROVE n + 1 \in T
  <2> SUFFICES ASSUME NEW U \in SUBSET S, Cardinality(U) = (n + 1) + 1 PROVE HasMinimal(U)
    OBVIOUS
  <2>1. PICK z : z \in U
    <3>1. U # {}
      BY FS_EmptySet
    <3> QED
      BY <3>1
  <2> DEFINE V == U \ {z}
  <2>2. V \in SUBSET S /\ Cardinality(V) = n + 1
    BY <1>1, <2>1, FS_RemoveElement
  <2>3. HasMinimal(V)
    <3> HIDE DEF HasMinimal
    <3> QED
      BY <1>3, <2>2
  <2>4. PICK x \in V : \A y \in V : <<y, x>> \notin R
    BY <2>3
  <2>5. CASE <<z, x>> \in R
    <3>1. \A y \in U : <<y, z>> \notin R
      BY <2>1, <2>4, <2>5 DEF Strict
    <3> QED
      BY <2>1, <3>1
  <2>6. CASE <<z, x>> \notin R
    <3>1. \A y \in U : <<y, x>> \notin R
      BY <2>4, <2>6
    <3> QED
      BY <3>1
  <2> QED
    BY <2>5, <2>6
<1>4. Cardinality(S) - 1 \in T
  <2>1. Cardinality(S) - 1 \in Nat
    BY <1>1, FS_EmptySet
  <2> HIDE DEF T
  <2> QED
    BY <1>2, <1>3, <2>1, InductiveSet
<1>5. HasMinimal(S)
  <2> HIDE DEF HasMinimal
  <2>1. Cardinality(S) = (Cardinality(S) - 1) + 1
    BY <1>1
  <2> QED
    BY <1>4, <2>1
<1> QED
  BY <1>5

\* best[n] are n elements of S, the first of the rest taken each time.
Taken(S, first, k, best) ==
    \A n \in 0..k : best[n] = IF n = 0 THEN {} ELSE best[n - 1] \union {first[S \ best[n - 1]]}

\* first picks one that none of the set precedes.
PicksFirst(S, R, first) ==
    \A T \in SUBSET S : T # {} => first[T] \in T /\ \A y \in T : <<y, first[T]>> \notin R

LEMMA TakenExists ==
    ASSUME NEW S, NEW R, NEW first, PicksFirst(S, R, first), NEW k \in Nat
    PROVE  \E best : /\ DOMAIN best = 0..k
                     /\ best = [n \in 0..k |-> best[n]]
                     /\ Taken(S, first, k, best)
<1> DEFINE X == SUBSET (S \union {first[{}]})
           F == [i \in 1..k |-> [b \in X |-> b \union {first[S \ b]}]]
<1>1. \A b \in X : b \union {first[S \ b]} \in X
  <2> TAKE b \in X
  <2>1. S \ b \in SUBSET S
    OBVIOUS
  <2>2. S \ b # {} => first[S \ b] \in S
    BY <2>1 DEF PicksFirst
  <2> QED
    BY <2>2
<1>2. Rounds(X, {}, k, F)
  BY <1>1 DEF Rounds
<1>3. PICK g : Values(X, {}, k, F, g)
  <2> HIDE DEF X, F
  <2> QED
    BY <1>2, LoopExists
<1>4. \A i \in 0..k : i = 0 \/ (i \in 1..k /\ i - 1 \in 0..k)
  OBVIOUS
<1>5. /\ g = [n \in 0..k |-> g[n]] /\ DOMAIN g = 0..k
      /\ \A i \in 0..k : g[i] = IF i = 0 THEN {} ELSE g[i - 1] \union {first[S \ g[i - 1]]}
  BY <1>3, <1>4 DEF Values
<1> QED
  BY <1>5 DEF Taken

\* They are k elements of S; fewer than k precede each of them, and none of the rest does.
LEMMA TakenIs ==
    ASSUME NEW S, IsFiniteSet(S), NEW R, Strict(R, S), NEW first, PicksFirst(S, R, first),
           NEW k \in Nat, k < Cardinality(S), NEW best, Taken(S, first, k, best)
    PROVE  /\ best[k] \in SUBSET S /\ Cardinality(best[k]) = k
           /\ \A x \in best[k] : Cardinality({y \in S : <<y, x>> \in R}) < k
           /\ \A x \in best[k], y \in S \ best[k] : <<y, x>> \notin R
<1> DEFINE Ok(n) == /\ best[n] \in SUBSET S /\ Cardinality(best[n]) = n
                    /\ \A x \in best[n], y \in S \ best[n] : <<y, x>> \notin R
                    /\ \A x \in best[n] : Cardinality({y \in S : <<y, x>> \in R}) < n
           T == {n \in Nat : n <= k => Ok(n)}
<1>1. \A U \in SUBSET S : IsFiniteSet(U) /\ Cardinality(U) \in Nat
  BY FS_Subset, FS_CardinalityType
<1>2. 0 \in T
  <2>1. 0 \in 0..k => best[0] = {}
    BY DEF Taken
  <2>2. Ok(0)
    BY <2>1, FS_EmptySet
  <2> HIDE DEF Ok
  <2> QED
    BY <2>2
<1>3. ASSUME NEW n \in Nat, n \in T PROVE n + 1 \in T
  <2> SUFFICES ASSUME n + 1 <= k PROVE Ok(n + 1)
    <3> HIDE DEF Ok
    <3> QED
      OBVIOUS
  <2>1. Ok(n)
    <3> HIDE DEF Ok
    <3> QED
      BY <1>3
  <2> DEFINE b == best[n]
             rest == S \ b
             x == first[rest]
  <2>2. best[n + 1] = b \union {x}
    <3>1. n + 1 \in 0..k /\ n + 1 # 0 /\ (n + 1) - 1 = n
      OBVIOUS
    <3> QED
      BY <3>1 DEF Taken
  <2>3. b \in SUBSET S /\ Cardinality(b) = n /\ IsFiniteSet(b)
    BY <1>1, <2>1
  <2>4. rest \in SUBSET S /\ rest # {}
    <3>1. CASE rest = {}
      <4>1. b = S
        BY <2>3, <3>1
      <4> QED
        BY <1>1, <2>3, <4>1
    <3> QED
      BY <3>1
  <2>5. x \in rest /\ \A y \in rest : <<y, x>> \notin R
    <3> HIDE DEF rest
    <3> QED
      BY <2>4 DEF PicksFirst
  <2> HIDE DEF x
  <2>6. {y \in S : <<y, x>> \in R} \in SUBSET b
    BY <2>5
  <2>7. Cardinality({y \in S : <<y, x>> \in R}) <= n
    BY <2>3, <2>6, FS_Subset
  <2>8. /\ Cardinality(b \union {x}) = n + 1
        /\ b \union {x} \in SUBSET S
    BY <2>3, <2>5, FS_AddElement
  <2>9. \A z \in b \union {x} : Cardinality({y \in S : <<y, z>> \in R}) < n + 1
    <3> TAKE z \in b \union {x}
    <3>1. {y \in S : <<y, z>> \in R} \in SUBSET S
      OBVIOUS
    <3>2. Cardinality({y \in S : <<y, z>> \in R}) \in Nat
      BY <1>1, <3>1
    <3>3. CASE z \in b
      BY <2>1, <3>2, <3>3
    <3>4. CASE z = x
      BY <2>7, <3>2, <3>4
    <3> QED
      BY <3>3, <3>4
  <2>10. \A z \in b \union {x}, y \in S \ (b \union {x}) : <<y, z>> \notin R
    BY <2>1, <2>5
  <2> QED
    BY <2>2, <2>8, <2>9, <2>10
<1>4. k \in T
  <2> HIDE DEF T
  <2> QED
    BY <1>2, <1>3, InductiveSet
<1>5. Ok(k)
  <2> HIDE DEF Ok
  <2> QED
    BY <1>4
<1> QED
  BY <1>5

-----------------------------------------------------------------------------
(* Finite images *)

LEMMA ImageFinite ==
    ASSUME NEW S, IsFiniteSet(S), NEW f
    PROVE  IsFiniteSet({f[x] : x \in S})
<1> DEFINE T == {f[x] : x \in S}
           g == [x \in S |-> f[x]]
<1>1. g \in Surjection(S, T)
  BY DEF Surjection
<1> QED
  BY <1>1, FS_Surjection

-----------------------------------------------------------------------------
(* Edges *)

\* An edge of the snapshot
IsEdge(e) ==
    /\ e.from \in Tokens /\ e.to \in Tokens /\ e.w \in Int /\ e.cap \in Nat
    /\ e.confidence \in Nat /\ e.pool \in Nat

LEMMA EdgesAreFinite ==
    ASSUME input \in Inputs
    PROVE  IsFiniteSet(Edges) /\ \A e \in Edges : IsEdge(e)
<1> DEFINE Forth(p) == Edge(p, p.a, p.b, p.w)
           Back(p) == Edge(p, p.b, p.a, p.fee - p.w)
           forth == [p \in input.pools |-> Forth(p)]
           back == [p \in input.pools |-> Back(p)]
<1>1. IsFiniteSet(input.pools) /\ input.pools \subseteq PoolRecords
  BY SearchAssumption
<1>2. Edges = {Forth(p) : p \in input.pools} \union {Back(p) : p \in input.pools}
  BY DEF Edges, EdgesOf
<1>3. IsFiniteSet({Forth(p) : p \in input.pools})
  <2>1. {Forth(p) : p \in input.pools} = {forth[p] : p \in input.pools}
    OBVIOUS
  <2> HIDE DEF forth, Forth
  <2> QED
    BY <1>1, <2>1, ImageFinite
<1>4. IsFiniteSet({Back(p) : p \in input.pools})
  <2>1. {Back(p) : p \in input.pools} = {back[p] : p \in input.pools}
    OBVIOUS
  <2> HIDE DEF back, Back
  <2> QED
    BY <1>1, <2>1, ImageFinite
<1>5. \A p \in PoolRecords : IsEdge(Forth(p)) /\ IsEdge(Back(p))
  BY DEF PoolRecords, IsEdge, Edge
<1> HIDE DEF Forth, Back
<1>6. IsFiniteSet(Edges)
  BY <1>2, <1>3, <1>4, FS_Union
<1> QED
  BY <1>1, <1>2, <1>5, <1>6

\* EdgeBefore is strict on edges.
LEMMA EdgesAreOrdered ==
    ASSUME NEW S, \A e \in S : IsEdge(e)
    PROVE  Strict({r \in S \X S : EdgeBefore(r[1], r[2])}, S)
BY DEF Strict, EdgeBefore, IsEdge

\* None of a finite set precedes its first.
LEMMA FirstEdge ==
    ASSUME NEW S, IsFiniteSet(S), S # {}, \A e \in S : IsEdge(e)
    PROVE  First(S, EdgeBefore) \in S /\ \A e \in S : ~ EdgeBefore(e, First(S, EdgeBefore))
<1> DEFINE R == {r \in S \X S : EdgeBefore(r[1], r[2])}
           least == First(S, EdgeBefore)
<1>1. Strict(R, S)
  BY EdgesAreOrdered
<1>2. \A x, y \in S : <<y, x>> \in R <=> EdgeBefore(y, x)
  OBVIOUS
<1> HIDE DEF R
<1>3. PICK x \in S : \A y \in S : <<y, x>> \notin R
  BY <1>1, MinimalExists
<1>4. \A y \in S \ {x} : ~ EdgeBefore(y, x)
  BY <1>2, <1>3
<1>5. least \in S /\ \A y \in S \ {least} : ~ EdgeBefore(y, least)
  BY <1>4, Zenon DEF First
<1> HIDE DEF least
<1>6. ~ EdgeBefore(least, least)
  BY <1>1, <1>2, <1>5 DEF Strict
<1>7. \A e \in S : ~ EdgeBefore(e, least)
  BY <1>5, <1>6
<1> QED
  BY <1>5, <1>7 DEF least

\* Fewer than k of S precede one of its k best.
LEMMA BestEdges ==
    ASSUME NEW S, IsFiniteSet(S), \A e \in S : IsEdge(e), NEW k \in Nat
    PROVE  /\ Best(S, k, EdgeBefore) \subseteq S
           /\ \A e \in Best(S, k, EdgeBefore) : Cardinality({f \in S : EdgeBefore(f, e)}) < k
           /\ \/ Best(S, k, EdgeBefore) = S
              \/ /\ Cardinality(Best(S, k, EdgeBefore)) = k
                 /\ \A e \in Best(S, k, EdgeBefore), f \in S \ Best(S, k, EdgeBefore) : ~ EdgeBefore(f, e)
<1> DEFINE R == {r \in S \X S : EdgeBefore(r[1], r[2])}
           first == [T \in SUBSET S |-> First(T, EdgeBefore)]
<1>1. Strict(R, S)
  BY EdgesAreOrdered
<1>2. \A x, y \in S : <<y, x>> \in R <=> EdgeBefore(y, x)
  OBVIOUS
<1>3. \A x \in S : {y \in S : <<y, x>> \in R} = {y \in S : EdgeBefore(y, x)}
  BY <1>2
<1> HIDE DEF R
<1>4. \A T \in SUBSET S : first[T] = First(T, EdgeBefore)
  OBVIOUS
<1> HIDE DEF first
<1>5. PicksFirst(S, R, first)
  <2> SUFFICES ASSUME NEW T \in SUBSET S, T # {}
               PROVE  first[T] \in T /\ \A y \in T : <<y, first[T]>> \notin R
    BY DEF PicksFirst
  <2>1. First(T, EdgeBefore) \in T /\ \A y \in T : ~ EdgeBefore(y, First(T, EdgeBefore))
    <3>1. IsFiniteSet(T)
      BY FS_Subset
    <3> QED
      BY <3>1, FirstEdge
  <2> QED
    BY <1>2, <1>4, <2>1
<1>6. CASE Cardinality(S) <= k
  <2>1. Best(S, k, EdgeBefore) = S
    BY <1>6 DEF Best
  <2>2. ASSUME NEW e \in S PROVE Cardinality({f \in S : EdgeBefore(f, e)}) < k
    <3> DEFINE U == {f \in S : EdgeBefore(f, e)}
    <3>1. U \in SUBSET S /\ e \notin U
      BY <1>1, <1>2 DEF Strict
    <3> HIDE DEF U
    <3>2. Cardinality(U) <= Cardinality(S) /\ Cardinality(U) # Cardinality(S)
      BY <3>1, FS_Subset
    <3>3. Cardinality(U) \in Nat /\ Cardinality(S) \in Nat
      BY <3>1, FS_Subset, FS_CardinalityType
    <3>4. Cardinality(U) < k
      BY <1>6, <3>2, <3>3
    <3> QED
      BY <3>4 DEF U
  <2> QED
    BY <2>1, <2>2
<1>7. CASE ~ (Cardinality(S) <= k)
  <2> DEFINE best[n \in 0..k] ==
                 IF n = 0 THEN {} ELSE best[n - 1] \union {First(S \ best[n - 1], EdgeBefore)}
  <2>1. Best(S, k, EdgeBefore) = best[k]
    BY <1>7 DEF Best
  <2>2. PICK g : /\ DOMAIN g = 0..k /\ g = [n \in 0..k |-> g[n]] /\ Taken(S, first, k, g)
    BY <1>5, TakenExists
  <2>3. \A n \in 0..k : g[n] = IF n = 0 THEN {}
                               ELSE g[n - 1] \union {First(S \ g[n - 1], EdgeBefore)}
    <3>1. \A n : S \ g[n] \in SUBSET S
      OBVIOUS
    <3> QED
      BY <1>4, <2>2, <3>1 DEF Taken
  <2>4. g = [n \in 0..k |-> IF n = 0 THEN {}
                            ELSE g[n - 1] \union {First(S \ g[n - 1], EdgeBefore)}]
    BY <2>2, <2>3, Zenon
  <2>5. best = [n \in 0..k |-> IF n = 0 THEN {}
                               ELSE best[n - 1] \union {First(S \ best[n - 1], EdgeBefore)}]
    BY <2>4, Zenon
  <2> HIDE DEF best
  <2>6. Taken(S, first, k, best)
    <3>1. \A n : S \ best[n] \in SUBSET S
      OBVIOUS
    <3>2. \A n \in 0..k : best[n] = IF n = 0 THEN {}
                                    ELSE best[n - 1] \union {First(S \ best[n - 1], EdgeBefore)}
      BY <2>5, Zenon
    <3> QED
      BY <1>4, <3>1, <3>2 DEF Taken
  <2>7. k < Cardinality(S)
    BY <1>7, FS_CardinalityType
  <2>8. /\ best[k] \in SUBSET S /\ Cardinality(best[k]) = k
        /\ \A x \in best[k] : Cardinality({y \in S : <<y, x>> \in R}) < k
        /\ \A x \in best[k], y \in S \ best[k] : <<y, x>> \notin R
    BY <1>1, <1>5, <2>6, <2>7, TakenIs
  <2>9. \A e \in best[k], f \in S \ best[k] : ~ EdgeBefore(f, e)
    BY <1>2, <2>8
  <2> QED
    BY <1>3, <2>1, <2>8, <2>9
<1> QED
  BY <1>6, <1>7

\* PairBefore is strict on edges too.
LEMMA PairsAreOrdered ==
    ASSUME NEW S, \A e \in S : IsEdge(e)
    PROVE  Strict({r \in S \X S : PairBefore(r[1], r[2])}, S)
<1>1. \A e \in S : e.w \in Int /\ e.from \in Int /\ e.to \in Int
  <2>1. Tokens \subseteq Nat
    BY SearchAssumption, Zenon
  <2> TAKE e \in S
  <2>2. e.w \in Int /\ e.from \in Tokens /\ e.to \in Tokens
    BY DEF IsEdge
  <2>3. e.from \in Nat /\ e.to \in Nat
    BY <2>1, <2>2
  <2> QED
    BY <2>2, <2>3
<1> QED
  BY <1>1 DEF Strict, PairBefore

\* None of a finite set precedes its first.
LEMMA FirstPair ==
    ASSUME NEW S, IsFiniteSet(S), S # {}, \A e \in S : IsEdge(e)
    PROVE  First(S, PairBefore) \in S /\ \A e \in S : ~ PairBefore(e, First(S, PairBefore))
<1> DEFINE R == {r \in S \X S : PairBefore(r[1], r[2])}
           least == First(S, PairBefore)
<1>1. Strict(R, S)
  BY PairsAreOrdered
<1>2. \A x, y \in S : <<y, x>> \in R <=> PairBefore(y, x)
  OBVIOUS
<1> HIDE DEF R
<1>3. PICK x \in S : \A y \in S : <<y, x>> \notin R
  BY <1>1, MinimalExists
<1>4. \A y \in S \ {x} : ~ PairBefore(y, x)
  BY <1>2, <1>3
<1>5. least \in S /\ \A y \in S \ {least} : ~ PairBefore(y, least)
  BY <1>4, Zenon DEF First
<1> HIDE DEF least
<1>6. ~ PairBefore(least, least)
  BY <1>1, <1>2, <1>5 DEF Strict
<1>7. \A e \in S : ~ PairBefore(e, least)
  BY <1>5, <1>6
<1> QED
  BY <1>5, <1>7 DEF least

-----------------------------------------------------------------------------
(* The order of paths and of candidates *)

IsScored(p) == p.score \in Int /\ p.hint \in Int /\ Len(p.edges) \in Nat

\* PathBefore is strict on paths.
LEMMA PathsAreOrdered ==
    ASSUME NEW S, \A e \in S : IsScored(e)
    PROVE  Strict({r \in S \X S : PathBefore(r[1], r[2])}, S)
<1>1. \A x \in S : ~ PathBefore(x, x)
  BY DEF PathBefore, IsScored
<1>2. \A x, y, z \in S : PathBefore(x, y) /\ PathBefore(y, z) => PathBefore(x, z)
  BY DEF PathBefore, IsScored
<1> QED
  BY <1>1, <1>2 DEF Strict

\* None of a finite set precedes its first.
LEMMA FirstPath ==
    ASSUME NEW S, IsFiniteSet(S), S # {}, \A e \in S : IsScored(e)
    PROVE  First(S, PathBefore) \in S /\ \A e \in S : ~ PathBefore(e, First(S, PathBefore))
<1> DEFINE R == {r \in S \X S : PathBefore(r[1], r[2])}
           least == First(S, PathBefore)
<1>1. Strict(R, S)
  BY PathsAreOrdered
<1>2. \A x, y \in S : <<y, x>> \in R <=> PathBefore(y, x)
  OBVIOUS
<1> HIDE DEF R
<1>3. PICK x \in S : \A y \in S : <<y, x>> \notin R
  BY <1>1, MinimalExists
<1>4. \A y \in S \ {x} : ~ PathBefore(y, x)
  BY <1>2, <1>3
<1>5. least \in S /\ \A y \in S \ {least} : ~ PathBefore(y, least)
  BY <1>4, Zenon DEF First
<1> HIDE DEF least
<1>6. ~ PathBefore(least, least)
  BY <1>1, <1>2, <1>5 DEF Strict
<1>7. \A e \in S : ~ PathBefore(e, least)
  BY <1>5, <1>6
<1> QED
  BY <1>5, <1>7 DEF least

\* Fewer than k of S precede one of its k best.
LEMMA BestPaths ==
    ASSUME NEW S, IsFiniteSet(S), \A e \in S : IsScored(e), NEW k \in Nat
    PROVE  /\ Best(S, k, PathBefore) \subseteq S
           /\ \A e \in Best(S, k, PathBefore) : Cardinality({f \in S : PathBefore(f, e)}) < k
<1> DEFINE R == {r \in S \X S : PathBefore(r[1], r[2])}
           first == [T \in SUBSET S |-> First(T, PathBefore)]
<1>1. Strict(R, S)
  BY PathsAreOrdered
<1>2. \A x, y \in S : <<y, x>> \in R <=> PathBefore(y, x)
  OBVIOUS
<1>3. \A x \in S : {y \in S : <<y, x>> \in R} = {y \in S : PathBefore(y, x)}
  BY <1>2
<1> HIDE DEF R
<1>4. \A T \in SUBSET S : first[T] = First(T, PathBefore)
  OBVIOUS
<1> HIDE DEF first
<1>5. PicksFirst(S, R, first)
  <2> SUFFICES ASSUME NEW T \in SUBSET S, T # {}
               PROVE  first[T] \in T /\ \A y \in T : <<y, first[T]>> \notin R
    BY DEF PicksFirst
  <2>1. First(T, PathBefore) \in T /\ \A y \in T : ~ PathBefore(y, First(T, PathBefore))
    <3>1. IsFiniteSet(T)
      BY FS_Subset
    <3> QED
      BY <3>1, FirstPath
  <2> QED
    BY <1>2, <1>4, <2>1
<1>6. CASE Cardinality(S) <= k
  <2>1. Best(S, k, PathBefore) = S
    BY <1>6 DEF Best
  <2>2. ASSUME NEW e \in S PROVE Cardinality({f \in S : PathBefore(f, e)}) < k
    <3> DEFINE U == {f \in S : PathBefore(f, e)}
    <3>1. U \in SUBSET S /\ e \notin U
      BY <1>1, <1>2 DEF Strict
    <3> HIDE DEF U
    <3>2. Cardinality(U) <= Cardinality(S) /\ Cardinality(U) # Cardinality(S)
      BY <3>1, FS_Subset
    <3>3. Cardinality(U) \in Nat /\ Cardinality(S) \in Nat
      BY <3>1, FS_Subset, FS_CardinalityType
    <3>4. Cardinality(U) < k
      BY <1>6, <3>2, <3>3
    <3> QED
      BY <3>4 DEF U
  <2> QED
    BY <2>1, <2>2
<1>7. CASE ~ (Cardinality(S) <= k)
  <2> DEFINE best[n \in 0..k] ==
                 IF n = 0 THEN {} ELSE best[n - 1] \union {First(S \ best[n - 1], PathBefore)}
  <2>1. Best(S, k, PathBefore) = best[k]
    BY <1>7 DEF Best
  <2>2. PICK g : /\ DOMAIN g = 0..k /\ g = [n \in 0..k |-> g[n]] /\ Taken(S, first, k, g)
    BY <1>5, TakenExists
  <2>3. \A n \in 0..k : g[n] = IF n = 0 THEN {}
                               ELSE g[n - 1] \union {First(S \ g[n - 1], PathBefore)}
    <3>1. \A n : S \ g[n] \in SUBSET S
      OBVIOUS
    <3> QED
      BY <1>4, <2>2, <3>1 DEF Taken
  <2>4. g = [n \in 0..k |-> IF n = 0 THEN {}
                            ELSE g[n - 1] \union {First(S \ g[n - 1], PathBefore)}]
    BY <2>2, <2>3, Zenon
  <2>5. best = [n \in 0..k |-> IF n = 0 THEN {}
                               ELSE best[n - 1] \union {First(S \ best[n - 1], PathBefore)}]
    BY <2>4, Zenon
  <2> HIDE DEF best
  <2>6. Taken(S, first, k, best)
    <3>1. \A n : S \ best[n] \in SUBSET S
      OBVIOUS
    <3>2. \A n \in 0..k : best[n] = IF n = 0 THEN {}
                                    ELSE best[n - 1] \union {First(S \ best[n - 1], PathBefore)}
      BY <2>5, Zenon
    <3> QED
      BY <1>4, <3>1, <3>2 DEF Taken
  <2>7. k < Cardinality(S)
    BY <1>7, FS_CardinalityType
  <2>8. /\ best[k] \in SUBSET S
        /\ \A x \in best[k] : Cardinality({y \in S : <<y, x>> \in R}) < k
    BY <1>1, <1>5, <2>6, <2>7, TakenIs
  <2> QED
    BY <1>3, <2>1, <2>8
<1> QED
  BY <1>6, <1>7

IsRanked(c) ==
    Potential(c) \in Int /\ Sum(c.edges) \in Int /\ Capacity(c) \in Int /\ Len(c.edges) \in Nat

\* CandidateBefore is strict on candidates.
LEMMA CandidatesAreOrdered ==
    ASSUME NEW S, \A e \in S : IsRanked(e)
    PROVE  Strict({r \in S \X S : CandidateBefore(r[1], r[2])}, S)
<1>1. \A x \in S : ~ CandidateBefore(x, x)
  BY DEF CandidateBefore, IsRanked
<1>2. \A x, y, z \in S : CandidateBefore(x, y) /\ CandidateBefore(y, z) => CandidateBefore(x, z)
  BY DEF CandidateBefore, IsRanked
<1> QED
  BY <1>1, <1>2 DEF Strict

\* None of a finite set precedes its first.
LEMMA FirstCandidate ==
    ASSUME NEW S, IsFiniteSet(S), S # {}, \A e \in S : IsRanked(e)
    PROVE  First(S, CandidateBefore) \in S /\ \A e \in S : ~ CandidateBefore(e, First(S, CandidateBefore))
<1> DEFINE R == {r \in S \X S : CandidateBefore(r[1], r[2])}
           least == First(S, CandidateBefore)
<1>1. Strict(R, S)
  BY CandidatesAreOrdered
<1>2. \A x, y \in S : <<y, x>> \in R <=> CandidateBefore(y, x)
  OBVIOUS
<1> HIDE DEF R
<1>3. PICK x \in S : \A y \in S : <<y, x>> \notin R
  BY <1>1, MinimalExists
<1>4. \A y \in S \ {x} : ~ CandidateBefore(y, x)
  BY <1>2, <1>3
<1>5. least \in S /\ \A y \in S \ {least} : ~ CandidateBefore(y, least)
  BY <1>4, Zenon DEF First
<1> HIDE DEF least
<1>6. ~ CandidateBefore(least, least)
  BY <1>1, <1>2, <1>5 DEF Strict
<1>7. \A e \in S : ~ CandidateBefore(e, least)
  BY <1>5, <1>6
<1> QED
  BY <1>5, <1>7 DEF least

\* Fewer than k of S precede one of its k best.
LEMMA BestCandidates ==
    ASSUME NEW S, IsFiniteSet(S), \A e \in S : IsRanked(e), NEW k \in Nat
    PROVE  /\ Best(S, k, CandidateBefore) \subseteq S
           /\ \A e \in Best(S, k, CandidateBefore) : Cardinality({f \in S : CandidateBefore(f, e)}) < k
           /\ \/ Best(S, k, CandidateBefore) = S
              \/ /\ Cardinality(Best(S, k, CandidateBefore)) = k
                 /\ \A e \in Best(S, k, CandidateBefore), f \in S \ Best(S, k, CandidateBefore) : ~ CandidateBefore(f, e)
<1> DEFINE R == {r \in S \X S : CandidateBefore(r[1], r[2])}
           first == [T \in SUBSET S |-> First(T, CandidateBefore)]
<1>1. Strict(R, S)
  BY CandidatesAreOrdered
<1>2. \A x, y \in S : <<y, x>> \in R <=> CandidateBefore(y, x)
  OBVIOUS
<1>3. \A x \in S : {y \in S : <<y, x>> \in R} = {y \in S : CandidateBefore(y, x)}
  BY <1>2
<1> HIDE DEF R
<1>4. \A T \in SUBSET S : first[T] = First(T, CandidateBefore)
  OBVIOUS
<1> HIDE DEF first
<1>5. PicksFirst(S, R, first)
  <2> SUFFICES ASSUME NEW T \in SUBSET S, T # {}
               PROVE  first[T] \in T /\ \A y \in T : <<y, first[T]>> \notin R
    BY DEF PicksFirst
  <2>1. First(T, CandidateBefore) \in T /\ \A y \in T : ~ CandidateBefore(y, First(T, CandidateBefore))
    <3>1. IsFiniteSet(T)
      BY FS_Subset
    <3> QED
      BY <3>1, FirstCandidate
  <2> QED
    BY <1>2, <1>4, <2>1
<1>6. CASE Cardinality(S) <= k
  <2>1. Best(S, k, CandidateBefore) = S
    BY <1>6 DEF Best
  <2>2. ASSUME NEW e \in S PROVE Cardinality({f \in S : CandidateBefore(f, e)}) < k
    <3> DEFINE U == {f \in S : CandidateBefore(f, e)}
    <3>1. U \in SUBSET S /\ e \notin U
      BY <1>1, <1>2 DEF Strict
    <3> HIDE DEF U
    <3>2. Cardinality(U) <= Cardinality(S) /\ Cardinality(U) # Cardinality(S)
      BY <3>1, FS_Subset
    <3>3. Cardinality(U) \in Nat /\ Cardinality(S) \in Nat
      BY <3>1, FS_Subset, FS_CardinalityType
    <3>4. Cardinality(U) < k
      BY <1>6, <3>2, <3>3
    <3> QED
      BY <3>4 DEF U
  <2> QED
    BY <2>1, <2>2
<1>7. CASE ~ (Cardinality(S) <= k)
  <2> DEFINE best[n \in 0..k] ==
                 IF n = 0 THEN {} ELSE best[n - 1] \union {First(S \ best[n - 1], CandidateBefore)}
  <2>1. Best(S, k, CandidateBefore) = best[k]
    BY <1>7 DEF Best
  <2>2. PICK g : /\ DOMAIN g = 0..k /\ g = [n \in 0..k |-> g[n]] /\ Taken(S, first, k, g)
    BY <1>5, TakenExists
  <2>3. \A n \in 0..k : g[n] = IF n = 0 THEN {}
                               ELSE g[n - 1] \union {First(S \ g[n - 1], CandidateBefore)}
    <3>1. \A n : S \ g[n] \in SUBSET S
      OBVIOUS
    <3> QED
      BY <1>4, <2>2, <3>1 DEF Taken
  <2>4. g = [n \in 0..k |-> IF n = 0 THEN {}
                            ELSE g[n - 1] \union {First(S \ g[n - 1], CandidateBefore)}]
    BY <2>2, <2>3, Zenon
  <2>5. best = [n \in 0..k |-> IF n = 0 THEN {}
                               ELSE best[n - 1] \union {First(S \ best[n - 1], CandidateBefore)}]
    BY <2>4, Zenon
  <2> HIDE DEF best
  <2>6. Taken(S, first, k, best)
    <3>1. \A n : S \ best[n] \in SUBSET S
      OBVIOUS
    <3>2. \A n \in 0..k : best[n] = IF n = 0 THEN {}
                                    ELSE best[n - 1] \union {First(S \ best[n - 1], CandidateBefore)}
      BY <2>5, Zenon
    <3> QED
      BY <1>4, <3>1, <3>2 DEF Taken
  <2>7. k < Cardinality(S)
    BY <1>7, FS_CardinalityType
  <2>8. /\ best[k] \in SUBSET S /\ Cardinality(best[k]) = k
        /\ \A x \in best[k] : Cardinality({y \in S : <<y, x>> \in R}) < k
        /\ \A x \in best[k], y \in S \ best[k] : <<y, x>> \notin R
    BY <1>1, <1>5, <2>6, <2>7, TakenIs
  <2>9. \A e \in best[k], f \in S \ best[k] : ~ CandidateBefore(f, e)
    BY <1>2, <2>8
  <2> QED
    BY <1>3, <2>1, <2>8, <2>9
<1> QED
  BY <1>6, <1>7

-----------------------------------------------------------------------------
(* Weights and powers *)

\* A power of two can be divided by.
LEMMA PowerIsPositive ==
    ASSUME NEW n \in Nat
    PROVE  PowerOf2(n) \in Nat \ {0}
<1> DEFINE X == Nat \ {0}
           F == [i \in 1..n |-> [x \in X |-> 2 * x]]
           power[i \in 0..n] == IF i = 0 THEN 1 ELSE 2 * power[i - 1]
<1>1. \A i \in 1..n, x \in X : F[i][x] = 2 * x
  OBVIOUS
<1>2. Rounds(X, 1, n, F)
  <2>1. \A x \in X : 2 * x \in X
    OBVIOUS
  <2> HIDE DEF X
  <2>2. F \in [1..n -> [X -> X]]
    BY <2>1
  <2> QED
    BY <2>2 DEF Rounds, X
<1> HIDE DEF F, X
<1>3. PICK g : Values(X, 1, n, F, g)
  BY <1>2, LoopExists
<1>4. \A i \in 0..n : g[i] = IF i = 0 THEN 1 ELSE 2 * g[i - 1]
  <2> TAKE i \in 0..n
  <2>1. CASE i = 0
    BY <1>3, <2>1 DEF Values
  <2>2. CASE i # 0
    <3>1. i \in 1..n /\ i - 1 \in 0..n
      BY <2>2
    <3>2. g[i] = F[i][g[i - 1]] /\ g[i - 1] \in X
      BY <1>3, <3>1 DEF Values
    <3> QED
      BY <1>1, <2>2, <3>1, <3>2
  <2> QED
    BY <2>1, <2>2
<1>5. g = [i \in 0..n |-> IF i = 0 THEN 1 ELSE 2 * g[i - 1]]
  <2>1. g = [i \in 0..n |-> g[i]]
    BY <1>3 DEF Values
  <2> QED
    BY <1>4, <2>1, Zenon
<1>6. power = [i \in 0..n |-> IF i = 0 THEN 1 ELSE 2 * power[i - 1]]
  BY <1>5, Zenon
<1>7. PowerOf2(n) = power[n]
  BY DEF PowerOf2
<1> HIDE DEF power
<1>8. \A i \in 0..n : power[i] = IF i = 0 THEN 1 ELSE 2 * power[i - 1]
  BY <1>6, Zenon
<1>9. \A i \in Nat : i <= n => power[i] \in X
  <2> DEFINE T == {i \in Nat : i <= n => power[i] \in X}
  <2>1. 0 \in T
    BY <1>8 DEF X
  <2>2. ASSUME NEW i \in Nat, i \in T PROVE i + 1 \in T
    <3> SUFFICES ASSUME i + 1 <= n PROVE power[i + 1] \in X
      OBVIOUS
    <3>1. i + 1 \in 0..n /\ i + 1 # 0 /\ (i + 1) - 1 = i
      OBVIOUS
    <3>2. power[i + 1] = 2 * power[i]
      BY <1>8, <3>1
    <3>3. power[i] \in X
      BY <2>2
    <3> QED
      BY <3>2, <3>3 DEF X
  <2> HIDE DEF T
  <2>3. Nat \subseteq T
    BY <2>1, <2>2, InductiveSet
  <2> QED
    BY <2>3 DEF T
<1> QED
  BY <1>7, <1>9 DEF X

\* The sums of the first weights of a sequence
Sums(s, g) ==
    /\ g \in [0..Len(s) -> Int]
    /\ g[0] = 0
    /\ \A i \in 1..Len(s) : g[i] = g[i - 1] + s[i].w

LEMMA SumIs ==
    ASSUME NEW E, \A e \in E : e.w \in Int, NEW s \in Seq(E)
    PROVE  \E g : Sums(s, g) /\ Sum(s) = g[Len(s)]
<1> DEFINE n == Len(s)
           F == [i \in 1..n |-> [x \in Int |-> x + s[i].w]]
           upto[i \in 0..n] == IF i = 0 THEN 0 ELSE upto[i - 1] + s[i].w
<1>1. n \in Nat /\ \A i \in 1..n : s[i].w \in Int
  OBVIOUS
<1>2. Sum(s) = upto[n]
  BY DEF Sum
<1>3. \A i \in 1..n, x \in Int : F[i][x] = x + s[i].w
  OBVIOUS
<1>4. Rounds(Int, 0, n, F)
  BY <1>1 DEF Rounds
<1> HIDE DEF F
<1>5. PICK g : Values(Int, 0, n, F, g)
  BY <1>4, LoopExists
<1>6. \A i \in 0..n : g[i] = IF i = 0 THEN 0 ELSE g[i - 1] + s[i].w
  <2> HIDE DEF n
  <2> TAKE i \in 0..n
  <2>1. CASE i = 0
    BY <1>5, <2>1 DEF Values
  <2>2. CASE i # 0
    <3>1. i \in 1..n /\ i - 1 \in 0..n
      BY <1>1, <2>2
    <3>2. g[i] = F[i][g[i - 1]] /\ g[i - 1] \in Int
      BY <1>5, <3>1 DEF Values
    <3> QED
      BY <1>3, <2>2, <3>1, <3>2
  <2> QED
    BY <2>1, <2>2
<1>7. g = [i \in 0..n |-> IF i = 0 THEN 0 ELSE g[i - 1] + s[i].w]
  <2>1. g = [i \in 0..n |-> g[i]]
    BY <1>5 DEF Values
  <2> HIDE DEF n
  <2> QED
    BY <1>6, <2>1, Zenon
<1>8. upto = [i \in 0..n |-> IF i = 0 THEN 0 ELSE upto[i - 1] + s[i].w]
  BY <1>7, Zenon
<1> HIDE DEF upto
<1>9. \A i \in 0..n : upto[i] = IF i = 0 THEN 0 ELSE upto[i - 1] + s[i].w
  BY <1>8, Zenon
<1>10. upto = [i \in 0..n |-> upto[i]]
  BY <1>8, <1>9, Zenon
<1> HIDE DEF n
<1>11. \A i \in 0..n : upto[i] \in Int
  <2>1. upto[0] = 0
    BY <1>1, <1>9
  <2> DEFINE T == {i \in Nat : i <= n => upto[i] \in Int}
  <2>2. 0 \in T
    BY <2>1
  <2>3. ASSUME NEW i \in Nat, i \in T PROVE i + 1 \in T
    <3> SUFFICES ASSUME i + 1 <= n PROVE upto[i + 1] \in Int
      OBVIOUS
    <3>1. i + 1 \in 0..n /\ i + 1 \in 1..n /\ i + 1 # 0 /\ (i + 1) - 1 = i
      BY <1>1
    <3>2. upto[i + 1] = upto[i] + s[i + 1].w
      BY <1>9, <3>1
    <3>3. upto[i] \in Int
      BY <1>1, <2>3
    <3> QED
      BY <1>1, <3>1, <3>2, <3>3
  <2> HIDE DEF T
  <2>4. Nat \subseteq T
    BY <2>2, <2>3, InductiveSet
  <2> QED
    BY <1>1, <2>4 DEF T
<1>12. Sums(s, upto)
  <2>1. \A i \in 1..n : i \in 0..n /\ i # 0
    BY <1>1
  <2>2. \A i \in 1..n : upto[i] = upto[i - 1] + s[i].w
    BY <1>9, <2>1
  <2>3. upto[0] = 0
    BY <1>1, <1>9
  <2>4. upto \in [0..n -> Int]
    BY <1>10, <1>11
  <2> QED
    BY <2>2, <2>3, <2>4 DEF Sums, n
<1> QED
  BY <1>2, <1>12 DEF n

\* Weights add up along a route.
LEMMA SumOf ==
    ASSUME NEW E, \A e \in E : e.w \in Int, NEW s \in Seq(E), NEW t \in Seq(E)
    PROVE  /\ Sum(s) \in Int
           /\ Sum(s \o t) = Sum(s) + Sum(t)
<1>1. PICK g : Sums(s, g) /\ Sum(s) = g[Len(s)]
  BY SumIs
<1>2. PICK h : Sums(t, h) /\ Sum(t) = h[Len(t)]
  BY SumIs
<1>3. PICK f : Sums(s \o t, f) /\ Sum(s \o t) = f[Len(s \o t)]
  <2>1. s \o t \in Seq(E)
    OBVIOUS
  <2> QED
    BY <2>1, SumIs
<1> DEFINE m == Len(s)
           n == Len(t)
           u == s \o t
<1>4. m \in Nat /\ n \in Nat /\ Len(u) = m + n
  OBVIOUS
<1>5. /\ \A i \in 1..m : u[i] = s[i] /\ s[i].w \in Int
      /\ \A i \in 1..n : u[m + i] = t[i] /\ t[i].w \in Int
  OBVIOUS
<1>6. /\ g[0] = 0 /\ h[0] = 0 /\ f[0] = 0
      /\ \A i \in 1..m : g[i] = g[i - 1] + s[i].w
      /\ \A i \in 1..n : h[i] = h[i - 1] + t[i].w
      /\ \A i \in 1..(m + n) : f[i] = f[i - 1] + u[i].w
  BY <1>1, <1>2, <1>3, <1>4 DEF Sums
<1>7. /\ \A i \in 0..m : g[i] \in Int
      /\ \A i \in 0..n : h[i] \in Int
  BY <1>1, <1>2 DEF Sums
<1> HIDE DEF m, n, u
<1>8. f[m] = g[m]
  <2> DEFINE T == {i \in Nat : i <= m => f[i] = g[i]}
  <2>1. 0 \in T
    BY <1>6
  <2>2. ASSUME NEW i \in Nat, i \in T PROVE i + 1 \in T
    <3> SUFFICES ASSUME i + 1 <= m PROVE f[i + 1] = g[i + 1]
      OBVIOUS
    <3>1. i + 1 \in 1..m /\ i + 1 \in 1..(m + n) /\ (i + 1) - 1 = i
      BY <1>4
    <3>2. f[i + 1] = f[i] + u[i + 1].w /\ g[i + 1] = g[i] + s[i + 1].w
      BY <1>6, <3>1
    <3>3. f[i] = g[i]
      BY <1>4, <2>2
    <3> QED
      BY <1>5, <3>1, <3>2, <3>3
  <2> HIDE DEF T
  <2>3. Nat \subseteq T
    BY <2>1, <2>2, InductiveSet
  <2> QED
    BY <1>4, <2>3 DEF T
<1>9. f[m + n] = g[m] + h[n]
  <2> DEFINE T == {i \in Nat : i <= n => f[m + i] = g[m] + h[i]}
  <2>1. 0 \in T
    BY <1>4, <1>6, <1>7, <1>8
  <2>2. ASSUME NEW i \in Nat, i \in T PROVE i + 1 \in T
    <3> SUFFICES ASSUME i + 1 <= n PROVE f[m + (i + 1)] = g[m] + h[i + 1]
      OBVIOUS
    <3>1. /\ i + 1 \in 1..n /\ m + (i + 1) \in 1..(m + n) /\ (i + 1) - 1 = i
          /\ (m + (i + 1)) - 1 = m + i /\ i \in 0..n /\ m \in 0..m
      BY <1>4
    <3>2. f[m + (i + 1)] = f[m + i] + u[m + (i + 1)].w /\ h[i + 1] = h[i] + t[i + 1].w
      BY <1>6, <3>1
    <3>3. f[m + i] = g[m] + h[i]
      BY <1>4, <2>2
    <3>4. u[m + (i + 1)] = t[i + 1] /\ t[i + 1].w \in Int /\ g[m] \in Int /\ h[i] \in Int
      BY <1>5, <1>7, <3>1
    <3> QED
      BY <3>2, <3>3, <3>4
  <2> HIDE DEF T
  <2>3. Nat \subseteq T
    BY <2>1, <2>2, InductiveSet
  <2> QED
    BY <1>4, <2>3 DEF T
<1> QED
  BY <1>1, <1>2, <1>3, <1>4, <1>7, <1>9 DEF m, n, u

LEMMA SumOfOne ==
    ASSUME NEW e, e.w \in Int
    PROVE  Sum(<<e>>) = e.w
<1>1. PICK g : Sums(<<e>>, g) /\ Sum(<<e>>) = g[Len(<<e>>)]
  <2>1. <<e>> \in Seq({e})
    OBVIOUS
  <2> QED
    BY <2>1, SumIs
<1> QED
  BY <1>1 DEF Sums

LEMMA SumOfNone == Sum(<< >>) = 0
<1>1. PICK g : Sums(<< >>, g) /\ Sum(<< >>) = g[Len(<< >>)]
  <2>1. << >> \in Seq({})
    OBVIOUS
  <2> QED
    BY <2>1, SumIs
<1> QED
  BY <1>1 DEF Sums

\* Min picks the least of a finite set of integers.
LEMMA MinIs ==
    ASSUME NEW S, IsFiniteSet(S), S # {}, S \subseteq Int
    PROVE  Min(S) \in S
<1> DEFINE R == {r \in S \X S : r[1] < r[2]}
<1>1. Strict(R, S)
  BY DEF Strict
<1>2. \A x, y \in S : <<y, x>> \in R <=> y < x
  OBVIOUS
<1> HIDE DEF R
<1>3. PICK x \in S : \A y \in S : <<y, x>> \notin R
  BY <1>1, MinimalExists
<1>4. \A y \in S : x <= y
  <2> TAKE y \in S
  <2>1. x \in Int /\ y \in Int /\ ~ (y < x)
    BY <1>2, <1>3
  <2> QED
    BY <2>1
<1> QED
  BY <1>3, <1>4, Zenon DEF Min

-----------------------------------------------------------------------------
(* What the input bounds, and the edges of a pair *)

LEMMA InputIs ==
    ASSUME input \in Inputs
    PROVE  /\ input.anchors \subseteq Tokens
           /\ input.changed \subseteq input.pools
           /\ input.tuning.topK \in Nat /\ input.tuning.branches \in Nat /\ input.tuning.beam \in Nat
           /\ input.tuning.pairEdges \in Nat /\ input.tuning.variants \in Nat
           /\ input.tuning.max \in Nat \ {0} /\ input.tuning.multiplier \in Nat
<1>1. /\ input.anchors \subseteq Tokens
      /\ input.changed \subseteq input.pools
      /\ input.tuning \in Tunings
  BY SearchAssumption, Zenon
<1> QED
  BY <1>1 DEF Tunings

\* None but fewer than pairEdges usable edges between the same tokens precede an
\* edge that is taken for a pair.
LEMMA PairEdgesAre ==
    ASSUME input \in Inputs, NEW from, NEW to
    PROVE  \A e \in PairEdges(from, to) :
              e \in Edges /\ e.from = from /\ e.to = to /\ Admissible(e)
<1> DEFINE S == {e \in Edges : e.from = from /\ e.to = to /\ Usable(e)}
<1>1. IsFiniteSet(S) /\ \A e \in S : IsEdge(e)
  BY EdgesAreFinite, FS_Subset
<1>2. PairEdges(from, to) = Best(S, input.tuning.pairEdges, EdgeBefore)
  BY DEF PairEdges
<1> HIDE DEF S
<1>3. /\ PairEdges(from, to) \subseteq S
      /\ \A e \in PairEdges(from, to) : Cardinality({f \in S : EdgeBefore(f, e)}) < input.tuning.pairEdges
  <2> DEFINE k == input.tuning.pairEdges
  <2>1. k \in Nat
    BY InputIs
  <2> HIDE DEF k
  <2>2. /\ Best(S, k, EdgeBefore) \subseteq S
        /\ \A e \in Best(S, k, EdgeBefore) : Cardinality({f \in S : EdgeBefore(f, e)}) < k
    BY <1>1, <2>1, BestEdges
  <2> QED
    BY <1>2, <2>2 DEF k
<1> SUFFICES ASSUME NEW e \in PairEdges(from, to)
             PROVE  e \in Edges /\ e.from = from /\ e.to = to /\ Admissible(e)
  OBVIOUS
<1>4. e \in Edges /\ e.from = from /\ e.to = to /\ Usable(e)
  BY <1>3 DEF S
<1>5. {f \in S : EdgeBefore(f, e)}
        = {f \in Edges : /\ f.from = e.from /\ f.to = e.to
                         /\ Usable(f) /\ EdgeBefore(f, e)}
  BY <1>4 DEF S
<1> QED
  BY <1>3, <1>4, <1>5 DEF Admissible

\* Of two usable edges between the same tokens one precedes the other.
LEMMA EdgesDiffer ==
    ASSUME input \in Inputs, NEW e \in Edges, NEW f \in Edges, Usable(e), Usable(f),
           e.from = f.from, e.to = f.to, e # f
    PROVE  EdgeBefore(e, f) \/ EdgeBefore(f, e)
<1>1. PICK p \in input.pools : e \in EdgesOf(p)
  BY DEF Edges
<1>2. PICK q \in input.pools : f \in EdgesOf(q)
  BY DEF Edges
<1>3. /\ e = [from |-> e.from, to |-> e.to, w |-> e.w, cap |-> e.cap,
              confidence |-> e.confidence, healthy |-> e.healthy, pool |-> e.pool]
      /\ e.healthy \in BOOLEAN
  <2>1. p.healthy \in BOOLEAN
    <3>1. input.pools \subseteq PoolRecords
      BY SearchAssumption, Zenon
    <3> QED
      BY <3>1 DEF PoolRecords
  <2> QED
    BY <1>1, <2>1 DEF EdgesOf, Edge
<1>4. /\ f = [from |-> f.from, to |-> f.to, w |-> f.w, cap |-> f.cap,
              confidence |-> f.confidence, healthy |-> f.healthy, pool |-> f.pool]
      /\ f.healthy \in BOOLEAN
  <2>1. q.healthy \in BOOLEAN
    <3>1. input.pools \subseteq PoolRecords
      BY SearchAssumption, Zenon
    <3> QED
      BY <3>1 DEF PoolRecords
  <2> QED
    BY <1>2, <2>1 DEF EdgesOf, Edge
<1>5. e.healthy = f.healthy
  BY <1>3, <1>4 DEF Usable
<1>6. ~ (e.w = f.w /\ e.cap = f.cap /\ e.confidence = f.confidence /\ e.pool = f.pool)
  BY <1>3, <1>4, <1>5, Zenon
<1>7. IsEdge(e) /\ IsEdge(f)
  BY EdgesAreFinite
<1> QED
  BY <1>6, <1>7 DEF EdgeBefore, IsEdge

\* Every such edge is taken for its pair.
LEMMA AdmissibleAreTaken ==
    ASSUME input \in Inputs, NEW e \in Edges, Admissible(e)
    PROVE  e \in PairEdges(e.from, e.to)
<1> DEFINE S == {f \in Edges : f.from = e.from /\ f.to = e.to /\ Usable(f)}
           k == input.tuning.pairEdges
           B == Best(S, k, EdgeBefore)
           U == {f \in S : EdgeBefore(f, e)}
<1>1. IsFiniteSet(S) /\ (\A f \in S : IsEdge(f)) /\ k \in Nat
  BY EdgesAreFinite, FS_Subset, InputIs
<1>2. PairEdges(e.from, e.to) = B
  BY DEF PairEdges
<1>3. e \in S /\ Usable(e)
  BY DEF Admissible
<1>4. U = {f \in Edges : f.from = e.from /\ f.to = e.to /\ Usable(f) /\ EdgeBefore(f, e)}
  OBVIOUS
<1>5. Cardinality(U) < k
  BY <1>4 DEF Admissible
<1>6. \A f \in S : f # e => EdgeBefore(e, f) \/ EdgeBefore(f, e)
  BY <1>3, EdgesDiffer
<1> HIDE DEF S, k
<1>7. /\ B \subseteq S
      /\ \/ B = S
         \/ Cardinality(B) = k /\ \A x \in B, f \in S \ B : ~ EdgeBefore(f, x)
  BY <1>1, BestEdges
<1> SUFFICES ASSUME e \notin B PROVE FALSE
  BY <1>2
<1> HIDE DEF B
<1>8. Cardinality(B) = k /\ \A x \in B : ~ EdgeBefore(e, x)
  BY <1>3, <1>7
<1>9. B \in SUBSET U
  BY <1>3, <1>6, <1>7, <1>8
<1>10. IsFiniteSet(U)
  BY <1>1, FS_Subset
<1> HIDE DEF U
<1>11. Cardinality(B) <= Cardinality(U)
  BY <1>9, <1>10, FS_Subset
<1>12. Cardinality(U) \in Nat
  BY <1>10, FS_CardinalityType
<1> QED
  BY <1>1, <1>5, <1>8, <1>11, <1>12

LEMMA OutgoingAre ==
    ASSUME input \in Inputs, NEW t
    PROVE  /\ \A e \in Outgoing(t) : e \in Edges /\ e.from = t /\ Admissible(e)
           /\ IsFiniteSet(Outgoing(t))
<1> DEFINE S == UNION {PairEdges(t, u) : u \in Tokens}
<1>1. \A e \in S : e \in Edges /\ e.from = t /\ Admissible(e)
  BY PairEdgesAre
<1>2. Outgoing(t) = Best(S, input.tuning.branches, EdgeBefore)
  BY DEF Outgoing
<1> HIDE DEF S
<1>3. IsFiniteSet(S) /\ \A e \in S : IsEdge(e)
  BY <1>1, EdgesAreFinite, FS_Subset
<1>4. Outgoing(t) \subseteq S
  <2>1. input.tuning.branches \in Nat
    BY InputIs
  <2>2. Best(S, input.tuning.branches, EdgeBefore) \subseteq S
    BY <1>3, <2>1, BestEdges
  <2> QED
    BY <1>2, <2>2
<1> QED
  BY <1>1, <1>3, <1>4, FS_Subset

-----------------------------------------------------------------------------
(* Candidates have a place in the order *)

LEMMA ScaledIs ==
    ASSUME NEW cap \in Nat, NEW s \in Int
    PROVE  Scaled(cap, s) \in Int
<1>1. CASE s >= 0
  <2>1. PowerOf2(s) \in Nat \ {0}
    BY <1>1, PowerIsPositive
  <2> QED
    BY <1>1, <2>1 DEF Scaled
<1>2. CASE ~ (s >= 0)
  <2>1. -s \in Nat
    BY <1>2
  <2>2. PowerOf2(-s) \in Nat \ {0}
    BY <2>1, PowerIsPositive
  <2> QED
    BY <1>2, <2>2 DEF Scaled
<1> QED
  BY <1>1, <1>2

\* A route over edges of the snapshot
IsRoute(c) ==
    c = Candidate(c.anchor, c.edges) /\ c.anchor \in Tokens /\ c.edges \in Seq(Edges) /\ c.edges # << >>

LEMMA CapacityIs ==
    ASSUME input \in Inputs, NEW edges \in Seq(Edges), edges # << >>
    PROVE  StartCapacity(edges) \in Int
<1> DEFINE n == Len(edges)
           f == [i \in 1..n |-> Scaled(edges[i].cap, Sum(SubSeq(edges, 1, i - 1)))]
           S == {f[i] : i \in 1..n}
<1>1. n \in Nat /\ 1 \in 1..n /\ \A i \in 1..n : edges[i] \in Edges
  OBVIOUS
<1>2. StartCapacity(edges) = Min(S)
  <2>1. S = {Scaled(edges[i].cap, Sum(SubSeq(edges, 1, i - 1))) : i \in 1..Len(edges)}
    OBVIOUS
  <2> HIDE DEF S
  <2> QED
    BY <2>1 DEF StartCapacity
<1>3. \A i \in 1..n : f[i] \in Int
  <2> SUFFICES ASSUME NEW i \in 1..n PROVE Scaled(edges[i].cap, Sum(SubSeq(edges, 1, i - 1))) \in Int
    OBVIOUS
  <2>1. SubSeq(edges, 1, i - 1) \in Seq(Edges)
    <3>1. \A j \in 1..(i - 1) : edges[j] \in Edges
      OBVIOUS
    <3> QED
      BY <3>1
  <2>2. Sum(SubSeq(edges, 1, i - 1)) \in Int
    <3> HIDE DEF n
    <3>1. \A e \in Edges : e.w \in Int
      BY EdgesAreFinite DEF IsEdge
    <3> QED
      BY <2>1, <3>1, SumOf
  <2>3. edges[i].cap \in Nat
    BY <1>1, EdgesAreFinite DEF IsEdge
  <2> QED
    BY <2>2, <2>3, ScaledIs
<1>4. IsFiniteSet(S)
  <2>1. IsFiniteSet(1..n)
    BY <1>1, FS_Interval
  <2> HIDE DEF f, n
  <2> QED
    BY <2>1, ImageFinite
<1>5. S \subseteq Int /\ S # {}
  <2> HIDE DEF f, n
  <2> QED
    BY <1>1, <1>3
<1> HIDE DEF S
<1> QED
  BY <1>2, <1>4, <1>5, MinIs

LEMMA QualityIs ==
    ASSUME input \in Inputs, NEW anchor \in Tokens, NEW edges \in Seq(Edges)
    PROVE  RouteQuality(anchor, edges) \in Int
<1> DEFINE n == Len(edges)
           f == [i \in 1..n |-> Quality[edges[i].to]]
           S == {f[i] : i \in 1..n}
           U == {Quality[anchor]} \union S
<1>1. Quality \in [Tokens -> Nat]
  BY SearchAssumption, Zenon
<1>2. n \in Nat /\ \A i \in 1..n : edges[i] \in Edges
  OBVIOUS
<1>3. RouteQuality(anchor, edges) = AtLeast(Min(U) - 750 * (n - 2), 500)
  <2>1. S = {Quality[edges[i].to] : i \in 1..Len(edges)}
    OBVIOUS
  <2> HIDE DEF S
  <2> QED
    BY <2>1 DEF RouteQuality
<1>4. \A i \in 1..n : f[i] \in Int
  <2> SUFFICES ASSUME NEW i \in 1..n PROVE Quality[edges[i].to] \in Int
    OBVIOUS
  <2>1. edges[i].to \in Tokens
    BY <1>2, EdgesAreFinite DEF IsEdge
  <2> QED
    BY <1>1, <2>1
<1>5. IsFiniteSet(S)
  <2>1. IsFiniteSet(1..n)
    BY <1>2, FS_Interval
  <2> HIDE DEF f, n
  <2> QED
    BY <2>1, ImageFinite
<1>6. S \subseteq Int
  <2> HIDE DEF f, n
  <2> QED
    BY <1>4
<1> HIDE DEF S
<1>7. IsFiniteSet(U)
  BY <1>5, FS_Singleton, FS_Union
<1>8. U \subseteq Int /\ U # {}
  <2>1. Quality[anchor] \in Int
    BY <1>1
  <2> QED
    BY <1>6, <2>1
<1> HIDE DEF U
<1>9. Min(U) \in Int
  BY <1>7, <1>8, MinIs
<1> HIDE DEF n
<1> QED
  BY <1>2, <1>3, <1>9 DEF AtLeast

LEMMA RoutesAreRanked ==
    ASSUME input \in Inputs, NEW c, IsRoute(c)
    PROVE  IsRanked(c)
<1>1. \A e \in Edges : e.w \in Int
  BY EdgesAreFinite DEF IsEdge
<1>2. c.anchor \in Tokens /\ c.edges \in Seq(Edges) /\ c.edges # << >>
  BY DEF IsRoute
<1>3. Sum(c.edges) \in Int
  BY <1>1, <1>2, SumOf
<1>4. StartCapacity(c.edges) \in Int
  BY <1>2, CapacityIs
<1>5. RouteQuality(c.anchor, c.edges) \in Int
  BY <1>2, QualityIs
<1>6. Price[c.anchor] \in Int
  <2>1. Price \in [Tokens -> Nat]
    BY SearchAssumption, Zenon
  <2> QED
    BY <1>2, <2>1
<1>7. Capacity(c) \in Int
  BY <1>4, <1>6 DEF Capacity
<1>8. AtLeast(- Sum(c.edges), 0) \in Int
  BY <1>3 DEF AtLeast
<1>9. Potential(c) \in Int
  BY <1>5, <1>7, <1>8 DEF Potential
<1> QED
  BY <1>2, <1>3, <1>7, <1>9 DEF IsRanked

-----------------------------------------------------------------------------
(* Paths *)

\* What the least capacity of the edges is
IsHint(edges, hint) ==
    /\ edges = << >> => hint = -1
    /\ edges # << >> => /\ \E k \in 1..Len(edges) : hint = edges[k].cap
                        /\ \A k \in 1..Len(edges) : hint <= edges[k].cap

\* What Extended makes out of NoPath(start): its edges follow each other, and no
\* token comes twice.
IsPathFrom(start, p) ==
    /\ \A k \in 1..Len(p.edges) : Admissible(p.edges[k]) /\ p.edges[k].to # start
    /\ \A j, k \in 1..Len(p.edges) : j # k => p.edges[j].to # p.edges[k].to
    /\ \A k \in 1..(Len(p.edges) - 1) : p.edges[k].to = p.edges[k + 1].from
    /\ p.edges = << >> => p.end = start
    /\ p.edges # << >> => p.edges[1].from = start /\ p.edges[Len(p.edges)].to = p.end
    /\ p.tokens = {start} \union {p.edges[k].to : k \in 1..Len(p.edges)}
    /\ p.score = Sum(p.edges)
    /\ IsHint(p.edges, p.hint)

Paths(start) ==
    {p \in [edges: Seq(Edges), tokens: SUBSET Tokens, end: Tokens, score: Int, hint: Int] :
        IsPathFrom(start, p)}

LEMMA NoPathIs ==
    ASSUME NEW start \in Tokens
    PROVE  NoPath(start) \in Paths(start)
<1> DEFINE p == NoPath(start)
<1>1. /\ p.edges = << >> /\ p.tokens = {start} /\ p.end = start /\ p.score = 0 /\ p.hint = -1
      /\ p \in [edges: Seq(Edges), tokens: SUBSET Tokens, end: Tokens, score: Int, hint: Int]
  BY DEF NoPath
<1>2. Len(p.edges) = 0 /\ 1..0 = {} /\ 1..(0 - 1) = {}
  BY <1>1
<1> HIDE DEF p
<1>3. IsPathFrom(start, p)
  BY <1>1, <1>2, SumOfNone DEF IsPathFrom, IsHint
<1> QED
  BY <1>1, <1>3 DEF Paths, p

LEMMA ExtendedIs ==
    ASSUME input \in Inputs, NEW start \in Tokens, NEW p \in Paths(start),
           NEW e \in Edges, Admissible(e), e.from = p.end, e.to \notin p.tokens
    PROVE  Extended(p, e) \in Paths(start)
<1> DEFINE q == Extended(p, e)
           n == Len(p.edges)
<1>1. /\ p.edges \in Seq(Edges) /\ p.tokens \in SUBSET Tokens /\ p.score \in Int /\ p.hint \in Int
      /\ IsPathFrom(start, p)
  BY DEF Paths
<1>2. e.to \in Tokens /\ e.w \in Int /\ e.cap \in Nat
  BY EdgesAreFinite DEF IsEdge
<1>3. /\ q.edges = Append(p.edges, e) /\ q.tokens = p.tokens \union {e.to}
      /\ q.end = e.to /\ q.score = p.score + e.w /\ q.hint \in Int
      /\ q \in [edges: Seq(Edges), tokens: SUBSET Tokens, end: Tokens, score: Int, hint: Int]
  BY <1>1, <1>2 DEF Extended, AtMost
<1>4. /\ n \in Nat /\ Len(q.edges) = n + 1 /\ q.edges[n + 1] = e
      /\ \A k \in 1..n : q.edges[k] = p.edges[k]
  BY <1>1, <1>3
<1>5. \A k \in 1..(n + 1) : k \in 1..n \/ k = n + 1
  BY <1>4
<1> HIDE DEF q
<1>6. IsPathFrom(start, q)
  <2>1. e.to # start /\ \A k \in 1..n : e.to # p.edges[k].to
    BY <1>1 DEF IsPathFrom
  <2>2. \A k \in 1..(n + 1) : Admissible(q.edges[k]) /\ q.edges[k].to # start
    BY <1>1, <1>4, <1>5, <2>1 DEF IsPathFrom
  <2>3. \A j, k \in 1..(n + 1) : j # k => q.edges[j].to # q.edges[k].to
    <3> HIDE DEF n
    <3> SUFFICES ASSUME NEW j \in 1..(n + 1), NEW k \in 1..(n + 1), j # k
                 PROVE  q.edges[j].to # q.edges[k].to
      OBVIOUS
    <3>1. \A i, l \in 1..n : i # l => p.edges[i].to # p.edges[l].to
      BY <1>1 DEF IsPathFrom, n
    <3> QED
      BY <1>4, <1>5, <2>1, <3>1
  <2>4. \A k \in 1..n : q.edges[k].to = q.edges[k + 1].from
    <3> TAKE k \in 1..n
    <3>1. CASE k = n
      <4>1. p.edges # << >> /\ p.edges[n].to = p.end
        BY <1>1, <3>1 DEF IsPathFrom
      <4> QED
        BY <1>4, <3>1, <4>1
    <3>2. CASE k # n
      <4>1. k \in 1..(n - 1) /\ k + 1 \in 1..n
        BY <1>4, <3>2
      <4>2. p.edges[k].to = p.edges[k + 1].from
        BY <1>1, <4>1 DEF IsPathFrom
      <4> QED
        BY <1>4, <4>1, <4>2
    <3> QED
      BY <3>1, <3>2
  <2>5. q.edges # << >> /\ q.edges[1].from = start
    <3>1. CASE n = 0
      <4>1. p.edges = << >>
        BY <1>1, <3>1
      <4>2. e.from = start
        BY <1>1, <4>1 DEF IsPathFrom
      <4> QED
        BY <1>3, <1>4, <3>1, <4>2
    <3>2. CASE n # 0
      <4>1. p.edges # << >> /\ 1 \in 1..n
        BY <1>4, <3>2
      <4>2. p.edges[1].from = start
        BY <1>1, <4>1 DEF IsPathFrom
      <4> QED
        BY <1>3, <1>4, <4>1, <4>2
    <3> QED
      BY <3>1, <3>2
  <2>6. q.tokens = {start} \union {q.edges[k].to : k \in 1..(n + 1)}
    <3>1. p.tokens = {start} \union {p.edges[k].to : k \in 1..n}
      BY <1>1 DEF IsPathFrom
    <3>2. {q.edges[k].to : k \in 1..(n + 1)} = {p.edges[k].to : k \in 1..n} \union {e.to}
      <4> HIDE DEF n
      <4>1. \A k \in 1..n : k \in 1..(n + 1)
        BY <1>4
      <4>2. n + 1 \in 1..(n + 1)
        BY <1>4
      <4> QED
        BY <1>4, <1>5, <4>1, <4>2
    <3> QED
      BY <1>3, <3>1, <3>2
  <2>7. q.score = Sum(q.edges)
    <3>0. q.edges = p.edges \o <<e>>
      BY <1>3
    <3>1. q.edges = p.edges \o <<e>> /\ <<e>> \in Seq(Edges)
      BY <1>1, <3>0
    <3>2. \A f \in Edges : f.w \in Int
      BY EdgesAreFinite DEF IsEdge
    <3>3. Sum(p.edges \o <<e>>) = Sum(p.edges) + Sum(<<e>>)
      BY <1>1, <3>1, <3>2, SumOf
    <3>4. p.score = Sum(p.edges)
      BY <1>1 DEF IsPathFrom
    <3> QED
      BY <1>2, <1>3, <3>1, <3>3, <3>4, SumOfOne
  <2>8. (n + 1) - 1 = n
    BY <1>4
  <2>9. IsHint(q.edges, q.hint)
    <3>1. IsHint(p.edges, p.hint) /\ q.hint = IF p.hint = -1 THEN e.cap ELSE AtMost(p.hint, e.cap)
      BY <1>1 DEF IsPathFrom, q, Extended
    <3>2. \A k \in 1..n : p.edges[k].cap \in Nat
      BY <1>1, EdgesAreFinite DEF IsEdge
    <3>3. n + 1 \in 1..(n + 1) /\ \A k \in 1..n : k \in 1..(n + 1)
      BY <1>4
    <3>4. CASE p.edges = << >>
      <4>1. q.hint = e.cap /\ n = 0
        BY <3>1, <3>4 DEF IsHint
      <4>2. \A k \in 1..(n + 1) : k = n + 1
        BY <4>1
      <4> HIDE DEF n
      <4> QED
        BY <1>2, <1>4, <2>5, <3>3, <4>1, <4>2 DEF IsHint
    <3>5. CASE p.edges # << >>
      <4>1. PICK k \in 1..n : p.hint = p.edges[k].cap
        BY <3>1, <3>5 DEF IsHint
      <4>2. \A j \in 1..n : p.hint <= p.edges[j].cap
        BY <3>1, <3>5 DEF IsHint
      <4>3. p.hint \in Nat
        BY <3>2, <4>1
      <4>4. q.hint = AtMost(p.hint, e.cap) /\ q.hint \in Nat
        BY <1>2, <3>1, <4>3 DEF AtMost
      <4> HIDE DEF n
      <4>5. q.hint = q.edges[k].cap \/ q.hint = q.edges[n + 1].cap
        BY <1>2, <1>4, <4>1, <4>4 DEF AtMost
      <4>6. q.hint <= p.hint /\ q.hint <= e.cap
        BY <1>2, <4>3, <4>4 DEF AtMost
      <4>7. \A j \in 1..(n + 1) : q.hint <= q.edges[j].cap
        BY <1>4, <1>5, <3>2, <4>2, <4>3, <4>4, <4>6
      <4> QED
        BY <1>4, <2>5, <3>3, <4>5, <4>7 DEF IsHint
    <3> QED
      BY <3>4, <3>5
  <2> HIDE DEF n
  <2> QED
    BY <1>3, <1>4, <2>2, <2>3, <2>4, <2>5, <2>6, <2>7, <2>8, <2>9 DEF IsPathFrom
<1> QED
  BY <1>3, <1>6 DEF Paths, q

\* What a round of find_top_paths makes of what the one before it left
Grown(frontier) ==
    UNION {{Extended(path, e) : e \in {f \in Outgoing(path.end) : f.to \notin path.tokens}}
           : path \in frontier}

NextLayer(l, target) ==
    LET next == Grown(l.frontier)
        there == {path \in next : path.end = target}
    IN  [out |-> Best(l.out \union there, input.tuning.topK, PathBefore),
         frontier |-> Best(next \ there, input.tuning.beam, PathBefore)]

Layers(start, target) ==
    {l \in [out: SUBSET {p \in Paths(start) : p.end = target}, frontier: SUBSET Paths(start)] :
        IsFiniteSet(l.out) /\ IsFiniteSet(l.frontier)}

LEMMA GrownIs ==
    ASSUME input \in Inputs, NEW start \in Tokens,
           NEW frontier \in SUBSET Paths(start), IsFiniteSet(frontier)
    PROVE  Grown(frontier) \subseteq Paths(start) /\ IsFiniteSet(Grown(frontier))
<1>1. Grown(frontier) \subseteq Paths(start)
  <2> SUFFICES ASSUME NEW path \in frontier, NEW e \in Outgoing(path.end), e.to \notin path.tokens
               PROVE  Extended(path, e) \in Paths(start)
    BY DEF Grown
  <2>1. e \in Edges /\ e.from = path.end /\ Admissible(e)
    BY OutgoingAre
  <2> QED
    BY <2>1, ExtendedIs
<1>2. IsFiniteSet(Grown(frontier))
  <2> DEFINE f == [r \in frontier \X Edges |-> Extended(r[1], r[2])]
             T == {f[r] : r \in frontier \X Edges}
  <2>1. IsFiniteSet(frontier \X Edges)
    BY EdgesAreFinite, FS_Product
  <2>2. Grown(frontier) \subseteq T
    <3> SUFFICES ASSUME NEW path \in frontier, NEW e \in Outgoing(path.end), e.to \notin path.tokens
                 PROVE  Extended(path, e) \in T
      BY DEF Grown
    <3>1. <<path, e>> \in frontier \X Edges
      BY OutgoingAre
    <3>2. f[<<path, e>>] = Extended(path, e)
      BY <3>1
    <3> HIDE DEF f
    <3> QED
      BY <3>1, <3>2
  <2>3. IsFiniteSet(T)
    <3> HIDE DEF f
    <3> QED
      BY <2>1, ImageFinite
  <2> HIDE DEF T
  <2> QED
    BY <2>2, <2>3, FS_Subset
<1> QED
  BY <1>1, <1>2

LEMMA PathsAreScored ==
    ASSUME NEW start, NEW S \in SUBSET Paths(start)
    PROVE  \A p \in S : IsScored(p)
BY DEF Paths, IsScored

LEMMA NextLayerIs ==
    ASSUME input \in Inputs, NEW start \in Tokens, NEW target, NEW l \in Layers(start, target)
    PROVE  NextLayer(l, target) \in Layers(start, target)
<1> DEFINE next == Grown(l.frontier)
           there == {path \in next : path.end = target}
           A == l.out \union there
           B == next \ there
           a == Best(A, input.tuning.topK, PathBefore)
           b == Best(B, input.tuning.beam, PathBefore)
<1>1. /\ l.out \in SUBSET {p \in Paths(start) : p.end = target}
      /\ l.frontier \in SUBSET Paths(start)
      /\ IsFiniteSet(l.out) /\ IsFiniteSet(l.frontier)
  BY DEF Layers
<1>2. next \subseteq Paths(start) /\ IsFiniteSet(next)
  BY <1>1, GrownIs
<1>3. NextLayer(l, target) = [out |-> a, frontier |-> b]
  BY DEF NextLayer
<1> HIDE DEF next
<1>4. A \in SUBSET {p \in Paths(start) : p.end = target} /\ IsFiniteSet(A)
  <2>1. IsFiniteSet(there)
    BY <1>2, FS_Subset
  <2> QED
    BY <1>1, <1>2, <2>1, FS_Union
<1>5. B \in SUBSET Paths(start) /\ IsFiniteSet(B)
  BY <1>2, FS_Subset
<1> HIDE DEF A, B
<1>6. a \subseteq A
  <2>1. A \in SUBSET Paths(start)
    BY <1>4
  <2>2. \A p \in A : IsScored(p)
    BY <2>1, PathsAreScored
  <2>3. input.tuning.topK \in Nat
    BY InputIs
  <2> QED
    BY <1>4, <2>2, <2>3, BestPaths
<1>7. b \subseteq B
  <2>1. \A p \in B : IsScored(p)
    BY <1>5, PathsAreScored
  <2>2. input.tuning.beam \in Nat
    BY InputIs
  <2> QED
    BY <1>5, <2>1, <2>2, BestPaths
<1> HIDE DEF a, b
<1>8. IsFiniteSet(a) /\ IsFiniteSet(b)
  BY <1>4, <1>5, <1>6, <1>7, FS_Subset
<1> QED
  BY <1>3, <1>4, <1>5, <1>6, <1>7, <1>8 DEF Layers

\* layer[i] is what find_top_paths has after i rounds.
FirstLayer(start) == [out |-> {}, frontier |-> {NoPath(start)}]
Layering(layer, start, target) ==
    /\ layer[0] = FirstLayer(start)
    /\ \A i \in 1..(MaxHops - 1) : layer[i] = NextLayer(layer[i - 1], target)
    /\ \A i \in 0..(MaxHops - 1) : layer[i] \in Layers(start, target)
    /\ start # target => TopPaths(start, target) = layer[MaxHops - 1].out

LEMMA LayeringExists ==
    ASSUME input \in Inputs, NEW start \in Tokens, NEW target, MaxHops >= 1
    PROVE  \E layer : Layering(layer, start, target)
<1> DEFINE n == MaxHops - 1
           X == Layers(start, target)
           base == FirstLayer(start)
           F == [i \in 1..n |-> [l \in X |-> NextLayer(l, target)]]
           layer[i \in 0..n] == IF i = 0 THEN base ELSE NextLayer(layer[i - 1], target)
<1>1. n \in Nat
  <2>1. MaxHops \in Nat
    BY SearchAssumption, Zenon
  <2> QED
    BY <2>1
<1>2. base \in X
  <2>1. NoPath(start) \in Paths(start)
    BY NoPathIs
  <2>2. IsFiniteSet({}) /\ IsFiniteSet({NoPath(start)})
    BY FS_EmptySet, FS_Singleton
  <2> QED
    BY <2>1, <2>2 DEF Layers, FirstLayer
<1>3. \A l \in X : NextLayer(l, target) \in X
  BY NextLayerIs
<1>4. start # target => TopPaths(start, target) = layer[n].out
  BY DEF TopPaths, NextLayer, Grown, FirstLayer
<1> HIDE DEF n, X, base
<1>5. \A i \in 1..n, l \in X : F[i][l] = NextLayer(l, target)
  OBVIOUS
<1>6. Rounds(X, base, n, F)
  BY <1>1, <1>2, <1>3 DEF Rounds
<1> HIDE DEF F
<1>7. PICK g : Values(X, base, n, F, g)
  BY <1>6, LoopExists
<1>8. \A i \in 0..n : g[i] = IF i = 0 THEN base ELSE NextLayer(g[i - 1], target)
  <2> TAKE i \in 0..n
  <2>1. CASE i = 0
    BY <1>7, <2>1 DEF Values
  <2>2. CASE i # 0
    <3>1. i \in 1..n /\ i - 1 \in 0..n
      BY <1>1, <2>2
    <3>2. g[i] = F[i][g[i - 1]] /\ g[i - 1] \in X
      BY <1>7, <3>1 DEF Values
    <3> QED
      BY <1>5, <2>2, <3>1, <3>2
  <2> QED
    BY <2>1, <2>2
<1>9. g = [i \in 0..n |-> IF i = 0 THEN base ELSE NextLayer(g[i - 1], target)]
  <2>1. g = [i \in 0..n |-> g[i]]
    BY <1>7 DEF Values
  <2> QED
    BY <1>8, <2>1, Zenon
<1>10. layer = [i \in 0..n |-> IF i = 0 THEN base ELSE NextLayer(layer[i - 1], target)]
  BY <1>9, Zenon
<1> HIDE DEF layer
<1>11. \A i \in 0..n : layer[i] = IF i = 0 THEN base ELSE NextLayer(layer[i - 1], target)
  BY <1>10, Zenon
<1>12. \A i \in 0..n : layer[i] \in X
  <2> DEFINE T == {i \in Nat : i <= n => layer[i] \in X}
  <2>1. 0 \in T
    BY <1>1, <1>2, <1>11
  <2>2. ASSUME NEW i \in Nat, i \in T PROVE i + 1 \in T
    <3> SUFFICES ASSUME i + 1 <= n PROVE layer[i + 1] \in X
      OBVIOUS
    <3>1. i + 1 \in 0..n /\ i + 1 # 0 /\ (i + 1) - 1 = i
      BY <1>1
    <3>2. layer[i + 1] = NextLayer(layer[i], target)
      BY <1>11, <3>1
    <3>3. layer[i] \in X
      BY <1>1, <2>2
    <3> QED
      BY <1>3, <3>2, <3>3
  <2> HIDE DEF T
  <2>3. Nat \subseteq T
    BY <2>1, <2>2, InductiveSet
  <2> QED
    BY <1>1, <2>3 DEF T
<1>13. layer[0] = base /\ \A i \in 1..n : layer[i] = NextLayer(layer[i - 1], target)
  <2>1. 0 \in 0..n /\ \A i \in 1..n : i \in 0..n /\ i # 0
    BY <1>1
  <2> QED
    BY <1>11, <2>1
<1>14. Layering(layer, start, target)
  BY <1>4, <1>12, <1>13 DEF Layering, n, X, base
<1> QED
  BY <1>14

\* find_top_paths finds paths from the start to the target.
LEMMA TopPathsAre ==
    ASSUME input \in Inputs, NEW start \in Tokens, NEW target, MaxHops >= 1
    PROVE  /\ TopPaths(start, target) \in SUBSET {p \in Paths(start) : p.end = target}
           /\ IsFiniteSet(TopPaths(start, target))
<1>1. PICK layer : Layering(layer, start, target)
  BY LayeringExists
<1>2. layer[MaxHops - 1] \in Layers(start, target)
  <2>1. MaxHops \in Nat
    BY SearchAssumption, Zenon
  <2>2. MaxHops - 1 \in 0..(MaxHops - 1)
    BY <2>1
  <2> QED
    BY <1>1, <2>2 DEF Layering
<1>3. CASE start = target
  <2>1. NoPath(start) \in Paths(start) /\ NoPath(start).end = target
    BY <1>3, NoPathIs DEF NoPath
  <2>2. IsFiniteSet({NoPath(start)})
    BY FS_Singleton
  <2>3. TopPaths(start, target) = {NoPath(start)}
    BY <1>3 DEF TopPaths
  <2> QED
    BY <1>3, <2>1, <2>2, <2>3
<1>4. CASE start # target
  BY <1>1, <1>2, <1>4 DEF Layering, Layers
<1> QED
  BY <1>3, <1>4

-----------------------------------------------------------------------------
(* A prefix, an edge of the pair and a suffix make a cycle *)

\* The values a function takes on 1..n, and that they all differ
AllDiffer(f, n) == \A j, k \in 1..n : j # k => f[j] # f[k]
Listed(f, n) == {f[k] : k \in 1..n}

LEMMA DistinctCount ==
    ASSUME NEW n \in Nat, NEW f, AllDiffer(f, n)
    PROVE  Cardinality(Listed(f, n)) = n
<1> USE DEF AllDiffer
<1> DEFINE T == {f[k] : k \in 1..n}
           g == [k \in 1..n |-> f[k]]
<1>1. g \in Bijection(1..n, T)
  BY DEF Bijection, Injection, Surjection, IsInjective
<1>2. ExistsBijection(1..n, T)
  BY <1>1 DEF ExistsBijection
<1> HIDE DEF T
<1>3. Cardinality(T) = n
  BY <1>2, FS_CountingElements
<1> QED
  BY <1>3 DEF T, Listed

\* q is a, x and b, one after the other.
Joins(E, a, x, b, q) == a \in Seq(E) /\ x \in E /\ b \in Seq(E) /\ q = (a \o <<x>>) \o b

Joined(E, a, x, b, q) ==
    /\ q \in Seq(E) /\ Len(q) = Len(a) + 1 + Len(b) /\ q # << >>
    /\ Len(a) \in Nat /\ Len(b) \in Nat
    /\ \A k \in 1..Len(a) : q[k] = a[k]
    /\ q[Len(a) + 1] = x
    /\ \A k \in 1..Len(b) : q[Len(a) + 1 + k] = b[k]

LEMMA JoinIs ==
    ASSUME NEW E, NEW a, NEW x, NEW b, NEW q, Joins(E, a, x, b, q)
    PROVE  Joined(E, a, x, b, q)
<1> USE DEF Joins
<1> DEFINE u == a \o <<x>>
           m == Len(a)
           n == Len(b)
<1>1. m \in Nat /\ n \in Nat
  OBVIOUS
<1>2. u \in Seq(E) /\ Len(u) = m + 1 /\ u[m + 1] = x /\ \A k \in 1..m : u[k] = a[k]
  OBVIOUS
<1>3. q = u \o b
  OBVIOUS
<1> HIDE DEF u
<1>4. q \in Seq(E) /\ Len(q) = m + 1 + n
  BY <1>2, <1>3
<1>5. \A k \in 1..(m + 1) : q[k] = u[k]
  BY <1>2, <1>3
<1>6. \A k \in 1..n : q[m + 1 + k] = b[k]
  BY <1>2, <1>3
<1>7. \A k \in 1..m : k \in 1..(m + 1)
  BY <1>1
<1>8. m + 1 \in 1..(m + 1)
  BY <1>1
<1>9. q # << >>
  BY <1>1, <1>4
<1>10. q[m + 1] = x /\ \A k \in 1..m : q[k] = a[k]
  BY <1>2, <1>5, <1>7, <1>8
<1> QED
  BY <1>1, <1>4, <1>6, <1>9, <1>10 DEF Joined

\* q goes from the anchor over p to `from`, over e to `to`, and over s back.
Closes(anchor, from, to, p, e, s, q) ==
    /\ anchor \in Tokens /\ to \in Tokens
    /\ p \in Paths(anchor) /\ p.end = from
    /\ e \in PairEdges(from, to)
    /\ s \in Paths(to) /\ s.end = anchor
    /\ SimpleCycle(anchor, p, s)
    /\ Len(p.edges) + 1 + Len(s.edges) \in 2..MaxHops
    /\ q = (p.edges \o <<e>>) \o s.edges

Closed(anchor, e, weight, q) ==
    /\ q \in Seq(Edges) /\ q # << >>
    /\ IsCycle(Candidate(anchor, q))
    /\ \A k \in 1..Len(q) : Admissible(q[k])
    /\ \E k \in 1..Len(q) : q[k] = e
    /\ Sum(q) = weight

LEMMA JoinIsCycle ==
    ASSUME input \in Inputs, NEW anchor, NEW from, NEW to, NEW p, NEW e, NEW s, NEW q,
           Closes(anchor, from, to, p, e, s, q)
    PROVE  Closed(anchor, e, p.score + e.w + s.score, q)
<1> USE DEF Closes
<1> DEFINE m == Len(p.edges)
           n == Len(s.edges)
           N == m + 1 + n
<1>1. e \in Edges /\ e.from = from /\ e.to = to /\ Admissible(e)
  BY PairEdgesAre
<1>2. /\ p.edges \in Seq(Edges) /\ p.score \in Int /\ IsPathFrom(anchor, p)
      /\ s.edges \in Seq(Edges) /\ s.score \in Int /\ IsPathFrom(to, s)
  BY DEF Paths
<1>3. /\ q \in Seq(Edges) /\ q # << >> /\ Len(q) = N /\ m \in Nat /\ n \in Nat
      /\ \A k \in 1..m : q[k] = p.edges[k]
      /\ q[m + 1] = e
      /\ \A k \in 1..n : q[m + 1 + k] = s.edges[k]
  <2>1. Joins(Edges, p.edges, e, s.edges, q)
    BY <1>1, <1>2 DEF Joins
  <2>2. Joined(Edges, p.edges, e, s.edges, q)
    BY <2>1, JoinIs
  <2> QED
    BY <2>2 DEF Joined
<1>4. m \in Nat /\ n \in Nat
  BY <1>3
<1>5. /\ \A k \in 1..m : q[k] = p.edges[k]
      /\ q[m + 1] = e
      /\ \A k \in 1..n : q[m + 1 + k] = s.edges[k]
  BY <1>3
<1>6. \A k \in 1..N : k \in 1..m \/ k = m + 1 \/ (k - (m + 1) \in 1..n /\ q[k] = s.edges[k - (m + 1)])
  <2> HIDE DEF m, n
  <2> TAKE k \in 1..N
  <2>1. CASE k > m + 1
    <3>1. k - (m + 1) \in 1..n /\ m + 1 + (k - (m + 1)) = k
      BY <1>4, <2>1
    <3>2. q[m + 1 + (k - (m + 1))] = s.edges[k - (m + 1)]
      BY <1>5, <3>1
    <3> QED
      BY <3>1, <3>2
  <2>2. CASE ~ (k > m + 1)
    <3>1. k \in 1..m \/ k = m + 1
      BY <1>4, <2>2
    <3> QED
      BY <3>1
  <2> QED
    BY <2>1, <2>2
<1>7. N \in 2..MaxHops
  OBVIOUS
<1>8. /\ \A k \in 1..m : Admissible(p.edges[k]) /\ p.edges[k].to # anchor
      /\ \A k \in 1..n : Admissible(s.edges[k]) /\ s.edges[k].to # to
      /\ \A j, k \in 1..m : j # k => p.edges[j].to # p.edges[k].to
      /\ \A j, k \in 1..n : j # k => s.edges[j].to # s.edges[k].to
      /\ p.tokens = {anchor} \union {p.edges[k].to : k \in 1..m}
      /\ s.tokens = {to} \union {s.edges[k].to : k \in 1..n}
  BY <1>2 DEF IsPathFrom
<1>9. p.tokens \intersect s.tokens = {anchor}
  BY DEF SimpleCycle
<1>10. Sum(q) = p.score + e.w + s.score
  <2>1. \A f \in Edges : f.w \in Int
    BY EdgesAreFinite DEF IsEdge
  <2>2. <<e>> \in Seq(Edges) /\ p.edges \o <<e>> \in Seq(Edges)
    BY <1>1, <1>2
  <2>3. Sum(p.edges \o <<e>>) = Sum(p.edges) + Sum(<<e>>)
    BY <1>2, <2>1, <2>2, SumOf
  <2>4. Sum((p.edges \o <<e>>) \o s.edges) = Sum(p.edges \o <<e>>) + Sum(s.edges)
    BY <1>2, <2>1, <2>2, SumOf
  <2>5. Sum(<<e>>) = e.w /\ e.w \in Int
    BY <1>1, <2>1, SumOfOne
  <2>6. p.score = Sum(p.edges) /\ s.score = Sum(s.edges)
    BY <1>2 DEF IsPathFrom
  <2> QED
    BY <1>2, <2>3, <2>4, <2>5, <2>6
<1> HIDE DEF m, n
<1>11. \A k \in 1..N : Admissible(q[k])
  BY <1>1, <1>3, <1>6, <1>8
<1>12. \E k \in 1..N : q[k] = e
  <2>1. m + 1 \in 1..N
    BY <1>3
  <2> QED
    BY <1>3, <2>1
<1>13. q[1].from = anchor
  <2>1. CASE m = 0
    <3>1. p.edges = << >>
      BY <1>2, <2>1 DEF m
    <3>2. from = anchor
      BY <1>2, <3>1 DEF IsPathFrom
    <3>3. q[1] = e
      <4>1. m + 1 = 1
        BY <2>1
      <4> QED
        BY <1>5, <4>1
    <3> QED
      BY <1>1, <3>2, <3>3
  <2>2. CASE m # 0
    <3>1. p.edges # << >> /\ 1 \in 1..m
      BY <1>3, <2>2 DEF m
    <3>2. p.edges[1].from = anchor
      BY <1>2, <3>1 DEF IsPathFrom
    <3> QED
      BY <1>3, <3>1, <3>2
  <2> QED
    BY <2>1, <2>2
<1>14. q[N].to = anchor
  <2>1. CASE n = 0
    <3>1. s.edges = << >>
      BY <1>2, <2>1 DEF n
    <3>2. to = anchor
      BY <1>2, <3>1 DEF IsPathFrom
    <3>3. N = m + 1
      BY <1>3, <2>1
    <3> QED
      BY <1>1, <1>3, <3>2, <3>3
  <2>2. CASE n # 0
    <3>1. s.edges # << >> /\ n \in 1..n
      BY <1>3, <2>2 DEF n
    <3>2. s.edges[n].to = anchor
      BY <1>2, <3>1 DEF IsPathFrom, n
    <3> QED
      BY <1>3, <3>1, <3>2
  <2> QED
    BY <2>1, <2>2
<1>15. \A k \in 1..(N - 1) : q[k].to = q[k + 1].from
  <2> TAKE k \in 1..(N - 1)
  <2>1. CASE k < m
    <3>1. k \in 1..(m - 1) /\ k \in 1..m /\ k + 1 \in 1..m
      BY <1>3, <2>1
    <3>2. p.edges[k].to = p.edges[k + 1].from
      BY <1>2, <3>1 DEF IsPathFrom, m
    <3> QED
      BY <1>3, <3>1, <3>2
  <2>2. CASE k = m
    <3>1. p.edges # << >> /\ m \in 1..m
      BY <1>3, <2>2 DEF m
    <3>2. p.edges[m].to = from
      BY <1>2, <3>1 DEF IsPathFrom, m
    <3> QED
      BY <1>1, <1>3, <2>2, <3>1, <3>2
  <2>3. CASE k = m + 1
    <3>1. n # 0 /\ 1 \in 1..n /\ k + 1 = m + 1 + 1
      BY <1>4, <2>3
    <3>2. s.edges # << >>
      BY <3>1 DEF n
    <3>3. s.edges[1].from = to
      BY <1>2, <3>2 DEF IsPathFrom
    <3>4. q[k + 1] = s.edges[1]
      BY <1>5, <3>1
    <3> QED
      BY <1>1, <1>5, <2>3, <3>3, <3>4
  <2>4. CASE k > m + 1
    <3> DEFINE i == k - (m + 1)
    <3>1. i \in 1..(n - 1) /\ i \in 1..n /\ i + 1 \in 1..n
          /\ k = m + 1 + i /\ k + 1 = m + 1 + (i + 1)
      BY <1>4, <2>4
    <3> HIDE DEF i
    <3>2. s.edges[i].to = s.edges[i + 1].from
      BY <1>2, <3>1 DEF IsPathFrom, n
    <3>3. q[k] = s.edges[i] /\ q[k + 1] = s.edges[i + 1]
      BY <1>5, <3>1
    <3> QED
      BY <3>2, <3>3
  <2>5. k < m \/ k = m \/ k = m + 1 \/ k > m + 1
    BY <1>4
  <2> QED
    BY <2>1, <2>2, <2>3, <2>4, <2>5, Zenon
<1>16. \A j, k \in 1..N : j # k => q[j].to # q[k].to
  <2>1. \A i \in 1..m : p.edges[i].to \notin s.tokens
    <3>1. \A i \in 1..m : p.edges[i].to \in p.tokens /\ p.edges[i].to # anchor
      BY <1>8
    <3> QED
      BY <1>9, <3>1, Zenon
  <2>2. /\ \A i \in 1..m, k \in 1..n : p.edges[i].to # s.edges[k].to
        /\ \A i \in 1..m : p.edges[i].to # to
    <3>1. to \in s.tokens /\ \A k \in 1..n : s.edges[k].to \in s.tokens
      BY <1>8
    <3> QED
      BY <2>1, <3>1, Zenon
  <2>3. ASSUME NEW j \in 1..N, NEW k \in 1..N, j < k PROVE q[j].to # q[k].to
    <3>1. CASE j \in 1..m
      <4>1. q[j] = p.edges[j]
        BY <1>5, <3>1
      <4>2. CASE k \in 1..m
        <5>1. q[k] = p.edges[k]
          BY <1>5, <4>2
        <5>2. j # k
          BY <1>4, <2>3
        <5> QED
          BY <1>8, <3>1, <4>1, <4>2, <5>1, <5>2
      <4>3. CASE k = m + 1
        BY <1>1, <1>5, <2>2, <3>1, <4>1, <4>3
      <4>4. CASE k - (m + 1) \in 1..n /\ q[k] = s.edges[k - (m + 1)]
        BY <2>2, <3>1, <4>1, <4>4
      <4> QED
        BY <1>6, <4>2, <4>3, <4>4
    <3>2. CASE j = m + 1
      <4>1. k \notin 1..m /\ k # m + 1
        BY <1>4, <2>3, <3>2
      <4>2. k - (m + 1) \in 1..n /\ q[k] = s.edges[k - (m + 1)]
        BY <1>6, <4>1
      <4>3. q[j].to = to
        BY <1>1, <1>5, <3>2
      <4> QED
        BY <1>8, <4>2, <4>3
    <3>3. CASE j - (m + 1) \in 1..n /\ q[j] = s.edges[j - (m + 1)]
      <4>1. k \notin 1..m /\ k # m + 1 /\ j - (m + 1) # k - (m + 1)
        BY <1>4, <2>3, <3>3
      <4>2. k - (m + 1) \in 1..n /\ q[k] = s.edges[k - (m + 1)]
        BY <1>6, <4>1
      <4> QED
        BY <1>8, <3>3, <4>1, <4>2
    <3> QED
      BY <1>6, <3>1, <3>2, <3>3
  <2> SUFFICES ASSUME NEW j \in 1..N, NEW k \in 1..N, j # k PROVE q[j].to # q[k].to
    OBVIOUS
  <2>4. j < k \/ k < j
    BY <1>4
  <2> QED
    BY <2>3, <2>4
<1>17. Cardinality({q[k].to : k \in 1..N}) = N
  <2> DEFINE f == [k \in 1..N |-> q[k].to]
  <2>1. \A k \in 1..N : f[k] = q[k].to
    OBVIOUS
  <2> HIDE DEF f
  <2>2. AllDiffer(f, N)
    <3> SUFFICES ASSUME NEW j \in 1..N, NEW k \in 1..N, j # k PROVE f[j] # f[k]
      BY DEF AllDiffer
    <3> QED
      BY <1>16, <2>1, Zenon
  <2>3. N \in Nat
    BY <1>3
  <2> HIDE DEF N
  <2>4. Cardinality(Listed(f, N)) = N
    BY <2>2, <2>3, DistinctCount, Zenon
  <2>5. Listed(f, N) = {q[k].to : k \in 1..N}
    BY <2>1 DEF Listed
  <2> QED
    BY <2>4, <2>5
<1>18. Len(q) = N
  BY <1>3
<1> HIDE DEF N
<1>19. IsCycle(Candidate(anchor, q))
  <2>1. Candidate(anchor, q).edges = q /\ Candidate(anchor, q).anchor = anchor
    BY DEF Candidate
  <2> QED
    BY <1>7, <1>13, <1>14, <1>15, <1>17, <1>18, <2>1, Zenon DEF IsCycle
<1> QED
  BY <1>3, <1>10, <1>11, <1>12, <1>19 DEF Closed

-----------------------------------------------------------------------------
(* The routes of a changed pair are candidates *)

\* A pair that find_candidates searches
IsChanged(from, to) ==
    /\ from \in Tokens /\ to \in Tokens
    /\ \E p \in input.changed : <<from, to>> \in {<<p.a, p.b>>, <<p.b, p.a>>}

LEMMA CandidatesAre ==
    ASSUME input \in Inputs, NEW from, NEW to, IsChanged(from, to), NEW anchor \in input.anchors
    PROVE  /\ IsFiniteSet(CandidatesOf(from, to, anchor))
           /\ \A c \in CandidatesOf(from, to, anchor) : IsRoute(c) /\ IsCandidate(c)
<1> DEFINE A == TopPaths(anchor, from)
           B == PairEdges(from, to)
           C == TopPaths(to, anchor)
           Fits(p, e, s) == /\ Len(p.edges) + 1 + Len(s.edges) \in 2..MaxHops
                            /\ SimpleCycle(anchor, p, s)
                            /\ p.score + e.w + s.score < Cutoff
           Join(p, e, s) == Candidate(anchor, (p.edges \o <<e>>) \o s.edges)
<1>1. anchor \in Tokens /\ from \in Tokens /\ to \in Tokens
  BY InputIs DEF IsChanged
<1>2. \A c \in Routes(from, to, anchor) :
         \E p \in A, e \in B, s \in C : Fits(p, e, s) /\ c = Join(p, e, s)
  BY DEF Routes
<1>3. CASE MaxHops < 1
  <2>1. Routes(from, to, anchor) = {}
    <3>1. MaxHops \in Nat
      BY SearchAssumption, Zenon
    <3>2. 2..MaxHops = {}
      BY <1>3, <3>1
    <3> QED
      BY <1>2, <3>2
  <2> QED
    BY <2>1, FS_EmptySet DEF CandidatesOf
<1>4. CASE MaxHops >= 1
  <2>1. /\ A \in SUBSET {p \in Paths(anchor) : p.end = from} /\ IsFiniteSet(A)
        /\ C \in SUBSET {s \in Paths(to) : s.end = anchor} /\ IsFiniteSet(C)
    BY <1>1, <1>4, TopPathsAre
  <2>2. \A e \in B : e \in Edges
    BY PairEdgesAre
  <2>3. IsFiniteSet(B)
    <3> HIDE DEF B
    <3>1. B \in SUBSET Edges
      BY <2>2
    <3> QED
      BY <3>1, EdgesAreFinite, FS_Subset
  <2>4. IsFiniteSet(Routes(from, to, anchor))
    <3> HIDE DEF A, B, C, Fits
    <3> DEFINE f == [r \in (A \X B) \X C |-> Join(r[1][1], r[1][2], r[2])]
               T == {f[r] : r \in (A \X B) \X C}
    <3>1. IsFiniteSet((A \X B) \X C)
      BY <2>1, <2>3, FS_Product
    <3>2. \A p \in A, e \in B, s \in C : Join(p, e, s) \in T
      <4> TAKE p \in A, e \in B, s \in C
      <4> HIDE DEF Join
      <4>1. <<<<p, e>>, s>> \in (A \X B) \X C
        OBVIOUS
      <4>2. f[<<<<p, e>>, s>>] = Join(p, e, s)
        BY <4>1
      <4> HIDE DEF f
      <4> QED
        BY <4>1, <4>2
    <3>3. IsFiniteSet(T)
      <4> HIDE DEF f
      <4> QED
        BY <3>1, ImageFinite
    <3> HIDE DEF T, Join
    <3>4. Routes(from, to, anchor) \in SUBSET T
      BY <1>2, <3>2
    <3> QED
      BY <3>3, <3>4, FS_Subset
  <2>5. IsFiniteSet(CandidatesOf(from, to, anchor))
    BY <2>4, FS_Subset DEF CandidatesOf
  <2>6. ASSUME NEW c \in CandidatesOf(from, to, anchor)
        PROVE  IsRoute(c) /\ IsCandidate(c)
    <3>1. c \in Routes(from, to, anchor) /\ Materializes(c.anchor, c.edges)
      BY DEF CandidatesOf
    <3> HIDE DEF A, B, C, Fits, Join
    <3>2. PICK p \in A, e \in B, s \in C : Fits(p, e, s) /\ c = Join(p, e, s)
      BY <1>2, <3>1
    <3> DEFINE q == (p.edges \o <<e>>) \o s.edges
    <3>3. /\ p \in Paths(anchor) /\ p.end = from
          /\ s \in Paths(to) /\ s.end = anchor
      BY <2>1
    <3>4. /\ Len(p.edges) + 1 + Len(s.edges) \in 2..MaxHops
          /\ SimpleCycle(anchor, p, s)
          /\ p.score + e.w + s.score < Cutoff
      BY <3>2 DEF Fits
    <3>5. e \in PairEdges(from, to)
      BY DEF B
    <3>6. c = Candidate(anchor, q)
      BY <3>2 DEF Join
    <3>7. Closes(anchor, from, to, p, e, s, q)
      BY <1>1, <3>3, <3>4, <3>5 DEF Closes
    <3>8. c.anchor = anchor /\ c.edges = q
      BY <3>6 DEF Candidate
    <3> HIDE DEF q
    <3>9. Closed(anchor, e, p.score + e.w + s.score, q)
      BY <3>7, JoinIsCycle
    <3>10. /\ q \in Seq(Edges) /\ q # << >>
           /\ IsCycle(Candidate(anchor, q))
           /\ \A k \in 1..Len(q) : Admissible(q[k])
           /\ Sum(q) = p.score + e.w + s.score
      BY <3>9 DEF Closed
    <3>11. TouchesChange(c)
      <4>1. e.from = from /\ e.to = to
        BY <3>5, PairEdgesAre
      <4>2. PICK k \in 1..Len(q) : q[k] = e
        BY <3>9 DEF Closed
      <4>3. <<c.edges[k].from, c.edges[k].to>> = <<from, to>>
        BY <3>8, <4>1, <4>2
      <4>4. k \in 1..Len(c.edges)
        BY <3>8
      <4>5. PICK x \in input.changed : <<from, to>> \in {<<x.a, x.b>>, <<x.b, x.a>>}
        BY DEF IsChanged
      <4> QED
        BY <4>3, <4>4, <4>5 DEF TouchesChange
    <3>12. IsCandidate(c)
      BY <3>1, <3>4, <3>6, <3>8, <3>10, <3>11 DEF IsCandidate
    <3>13. IsRoute(c)
      BY <1>1, <3>6, <3>8, <3>10 DEF IsRoute
    <3> QED
      BY <3>12, <3>13
  <2> QED
    BY <2>5, <2>6
<1> QED
  <2>1. MaxHops \in Nat
    BY SearchAssumption, Zenon
  <2> QED
    BY <1>3, <1>4, <2>1

\* The better variants of a token path are kept, and nothing is made up.
LEMMA InsertedAre ==
    ASSUME input \in Inputs, NEW S, IsFiniteSet(S), IsFiniteSet(kept),
           \A c \in kept \union S : IsRoute(c)
    PROVE  Inserted(S) \subseteq kept \union S /\ IsFiniteSet(Inserted(S))
<1> DEFINE U == kept \union S
           Same(key) == {c \in U : TokenPath(c) = key}
<1>1. IsFiniteSet(U)
  BY FS_Union
<1>2. \A key : Best(Same(key), input.tuning.variants, CandidateBefore) \subseteq U
  <2> TAKE key
  <2> HIDE DEF U
  <2>1. IsFiniteSet(Same(key)) /\ Same(key) \subseteq U
    BY <1>1, FS_Subset
  <2>2. \A c \in Same(key) : IsRanked(c)
    BY RoutesAreRanked DEF U
  <2>3. input.tuning.variants \in Nat
    BY InputIs
  <2> HIDE DEF Same
  <2>4. Best(Same(key), input.tuning.variants, CandidateBefore) \subseteq Same(key)
    BY <2>1, <2>2, <2>3, BestCandidates
  <2> QED
    BY <2>1, <2>4
<1>3. Inserted(S) \subseteq U
  BY <1>2 DEF Inserted
<1> HIDE DEF U
<1>4. IsFiniteSet(Inserted(S))
  BY <1>1, <1>3, FS_Subset
<1> QED
  BY <1>3, <1>4 DEF U

LEMMA BudgetIs ==
    ASSUME input \in Inputs
    PROVE  Budget \in Nat \ {0}
<1>1. input.tuning.max \in Nat \ {0} /\ input.tuning.multiplier \in Nat
  BY InputIs
<1> DEFINE m == input.tuning.max
           n == AtLeast(input.tuning.multiplier, 1)
<1>2. m \in Nat \ {0} /\ n \in Nat \ {0}
  BY <1>1 DEF AtLeast
<1>3. Budget = m * n
  BY DEF Budget
<1> HIDE DEF m, n
<1> QED
  BY <1>2, <1>3

-----------------------------------------------------------------------------
(* The inductive invariant *)

ChangedEdges == UNION {EdgesOf(p) : p \in input.changed}

\* What is searched has changed.
SearchInv ==
    /\ input \in Inputs
    /\ pc \in {"pairs", "select", "fill", "done"}
    /\ pending \subseteq ChangedEdges
    /\ pair \in {<< >>} \union (Tokens \X Tokens)
    /\ anchors \subseteq input.anchors
    /\ anchors # {} => IsChanged(pair[1], pair[2])

\* What is kept are candidates, within the budget.
KeptInv ==
    /\ IsFiniteSet(kept) /\ Cardinality(kept) <= Budget
    /\ \A c \in kept : IsRoute(c) /\ IsCandidate(c)
    /\ left \subseteq kept

\* The first pass drops from what is left whatever has the pools of a selected
\* one, the second looks at the selected ones again.
SelectedInv ==
    /\ selected \in Seq(kept)
    /\ Len(selected) <= input.tuning.max
    /\ pc = "pairs" => selected = << >>
    /\ pc = "select" => \A d \in left, k \in 1..Len(selected) : ~ SamePools(d, selected[k])
    /\ \A j, k \in 1..Len(selected) : j # k => ~ SamePools(selected[j], selected[k])

DetectorInv == SearchInv /\ KeptInv /\ SelectedInv

\* What is said of a snapshot depends on nothing else.
LEMMA SameInput ==
    ASSUME input' = input, NEW c
    PROVE  /\ IsRoute(c)' <=> IsRoute(c)
           /\ IsCandidate(c)' <=> IsCandidate(c)
           /\ Budget' = Budget /\ ChangedEdges' = ChangedEdges
<1>1. Edges' = Edges
  BY DEF Edges
<1>2. \A e : Admissible(e)' <=> Admissible(e)
  BY <1>1 DEF Admissible
<1>3. TouchesChange(c)' <=> TouchesChange(c)
  BY DEF TouchesChange
<1>4. Materializes(c.anchor, c.edges)' <=> Materializes(c.anchor, c.edges)
  BY DEF Materializes, TokensAllowed
<1>5. IsCandidate(c)' <=> IsCandidate(c)
  BY <1>2, <1>3, <1>4 DEF IsCandidate
<1> QED
  BY <1>1, <1>5 DEF IsRoute, Budget, ChangedEdges

LEMMA ChangedEdgesAre ==
    ASSUME input \in Inputs
    PROVE  /\ ChangedEdges \subseteq Edges /\ IsFiniteSet(ChangedEdges)
           /\ \A e \in ChangedEdges : IsEdge(e) /\ IsChanged(e.from, e.to)
<1>1. ChangedEdges \subseteq Edges
  BY InputIs DEF ChangedEdges, Edges
<1>2. IsFiniteSet(ChangedEdges) /\ \A e \in ChangedEdges : IsEdge(e)
  BY <1>1, EdgesAreFinite, FS_Subset
<1>3. \A e \in ChangedEdges : \E p \in input.changed : <<e.from, e.to>> \in {<<p.a, p.b>>, <<p.b, p.a>>}
  BY DEF ChangedEdges, EdgesOf, Edge
<1> QED
  BY <1>1, <1>2, <1>3 DEF IsChanged, IsEdge

LEMMA DetectorInit == Init => DetectorInv
<1> SUFFICES ASSUME Init PROVE DetectorInv
  OBVIOUS
<1>1. ChangedPairs \subseteq ChangedEdges
  <2> DEFINE S(q) == {e \in ChangedEdges : <<e.from, e.to>> = q}
  <2>1. ChangedPairs = {First(S(q), EdgeBefore) : q \in {<<e.from, e.to>> : e \in ChangedEdges}}
    BY DEF ChangedPairs, ChangedEdges
  <2>2. ASSUME NEW q \in {<<e.from, e.to>> : e \in ChangedEdges}
        PROVE  First(S(q), EdgeBefore) \in ChangedEdges
    <3>1. S(q) # {} /\ S(q) \subseteq ChangedEdges
      OBVIOUS
    <3>2. IsFiniteSet(S(q)) /\ \A e \in S(q) : IsEdge(e)
      BY <3>1, ChangedEdgesAre, FS_Subset DEF Init
    <3> HIDE DEF S
    <3>3. First(S(q), EdgeBefore) \in S(q)
      BY <3>1, <3>2, FirstEdge
    <3> QED
      BY <3>1, <3>3
  <2> HIDE DEF S
  <2> QED
    BY <2>1, <2>2
<1>2. SearchInv
  BY <1>1 DEF Init, SearchInv
<1>3. KeptInv
  <2>1. IsFiniteSet({}) /\ Cardinality({}) = 0 /\ Budget \in Nat
    BY FS_EmptySet, BudgetIs DEF Init
  <2> QED
    BY <2>1 DEF Init, KeptInv
<1>4. SelectedInv
  <2>1. input.tuning.max \in Nat
    BY InputIs DEF Init
  <2> QED
    BY <2>1 DEF Init, SelectedInv
<1> QED
  BY <1>2, <1>3, <1>4 DEF DetectorInv

LEMMA TakePairKeeps ==
    ASSUME DetectorInv, TakePair
    PROVE  DetectorInv'
<1> DEFINE e == First(pending, PairBefore)
<1>1. SearchInv /\ KeptInv /\ SelectedInv /\ input' = input /\ input \in Inputs
  BY DEF DetectorInv, SearchInv, TakePair
<1>2. e \in pending
  <2>1. pending \subseteq ChangedEdges /\ pending # {}
    BY <1>1 DEF SearchInv, TakePair
  <2>2. IsFiniteSet(pending) /\ \A f \in pending : IsEdge(f)
    BY <1>1, <2>1, ChangedEdgesAre, FS_Subset
  <2> QED
    BY <2>1, <2>2, FirstPair
<1>3. IsEdge(e) /\ IsChanged(e.from, e.to)
  BY <1>1, <1>2, ChangedEdgesAre DEF SearchInv
<1>4. pair' = <<e.from, e.to>> /\ pending' = pending \ {e} /\ anchors' \subseteq input.anchors
  BY DEF TakePair
<1> HIDE DEF e
<1>5. SearchInv'
  <2>1. /\ e.from \in Tokens /\ e.to \in Tokens
        /\ \E p \in input'.changed : <<e.from, e.to>> \in {<<p.a, p.b>>, <<p.b, p.a>>}
    BY <1>1, <1>3 DEF IsChanged
  <2>2. pair'[1] = e.from /\ pair'[2] = e.to /\ pair' \in Tokens \X Tokens
    BY <1>3, <1>4 DEF IsEdge
  <2>3. IsChanged(pair[1], pair[2])'
    BY <2>1, <2>2 DEF IsChanged
  <2>4. pending' \subseteq ChangedEdges'
    BY <1>1, <1>4, SameInput DEF SearchInv
  <2> QED
    BY <1>1, <1>4, <2>2, <2>3, <2>4 DEF SearchInv, TakePair
<1>6. KeptInv'
  BY <1>1, SameInput DEF KeptInv, TakePair
<1>7. SelectedInv'
  BY <1>1 DEF SelectedInv, TakePair
<1> QED
  BY <1>5, <1>6, <1>7 DEF DetectorInv

LEMMA TryAnchorKeeps ==
    ASSUME DetectorInv, TryAnchor
    PROVE  DetectorInv'
<1> DEFINE anchor == Min(anchors)
           all == CandidatesOf(pair[1], pair[2], anchor)
<1>1. SearchInv /\ KeptInv /\ SelectedInv /\ input' = input /\ input \in Inputs
  BY DEF DetectorInv, SearchInv, TryAnchor
<1>2. anchor \in anchors /\ anchor \in input.anchors
  <2>1. anchors \subseteq input.anchors /\ anchors # {}
    BY <1>1 DEF SearchInv, TryAnchor
  <2>2. IsFiniteSet(Tokens) /\ Tokens \subseteq Nat
    BY SearchAssumption, Zenon
  <2>3. anchors \subseteq Tokens
    BY <1>1, <2>1, InputIs
  <2>4. IsFiniteSet(anchors)
    BY <2>2, <2>3, FS_Subset
  <2>5. anchors \subseteq Int
    BY <2>2, <2>3
  <2> QED
    BY <2>1, <2>4, <2>5, MinIs
<1>3. IsChanged(pair[1], pair[2])
  BY <1>1, <1>2 DEF SearchInv
<1>4. /\ IsFiniteSet(all)
      /\ \A c \in all : IsRoute(c) /\ IsCandidate(c)
  <2> HIDE DEF anchor
  <2> QED
    BY <1>1, <1>2, <1>3, CandidatesAre
<1>5. /\ anchors' = anchors \ {anchor}
      /\ \/ \E seen \in SUBSET all : Cardinality(Inserted(seen)) = Budget /\ kept' = Inserted(seen)
         \/ ~ (Cardinality(Inserted(all)) >= Budget) /\ kept' = Inserted(all)
      /\ pc' \in {"pairs", "select"}
      /\ left' = {} \/ left' = kept'
  BY DEF TryAnchor
<1> HIDE DEF anchor, all
<1>6. PICK seen \in SUBSET all :
         /\ kept' = Inserted(seen)
         /\ Cardinality(Inserted(seen)) = Budget \/ ~ (Cardinality(Inserted(seen)) >= Budget)
  BY <1>5
<1>7. /\ Inserted(seen) \subseteq kept \union seen /\ IsFiniteSet(Inserted(seen))
      /\ \A c \in kept \union seen : IsRoute(c) /\ IsCandidate(c)
  <2>1. IsFiniteSet(seen) /\ IsFiniteSet(kept)
    BY <1>1, <1>4, FS_Subset DEF KeptInv
  <2>2. \A c \in kept \union seen : IsRoute(c) /\ IsCandidate(c)
    BY <1>1, <1>4 DEF KeptInv
  <2> QED
    BY <1>1, <2>1, <2>2, InsertedAre
<1>8. Cardinality(kept') <= Budget
  <2>1. Cardinality(Inserted(seen)) \in Nat /\ Budget \in Nat
    BY <1>1, <1>7, FS_CardinalityType, BudgetIs
  <2> QED
    BY <1>6, <2>1
<1>9. SearchInv'
  <2>1. IsChanged(pair[1], pair[2])'
    BY <1>1, <1>3 DEF IsChanged, TryAnchor
  <2> QED
    BY <1>1, <1>5, <2>1, SameInput DEF SearchInv, TryAnchor
<1>10. KeptInv'
  <2>1. \A c \in kept' : IsRoute(c)' /\ IsCandidate(c)'
    BY <1>1, <1>6, <1>7, SameInput
  <2>2. Budget' = Budget
    BY <1>1, SameInput
  <2> QED
    BY <1>5, <1>6, <1>7, <1>8, <2>1, <2>2 DEF KeptInv
<1>11. SelectedInv'
  <2>1. selected = << >> /\ selected' = << >>
    BY <1>1 DEF SelectedInv, TryAnchor
  <2>2. input.tuning.max \in Nat
    BY <1>1, InputIs
  <2> QED
    BY <1>1, <2>1, <2>2 DEF SelectedInv
<1> QED
  BY <1>9, <1>10, <1>11 DEF DetectorInv

\* A step that leaves the search and what it kept alone
LEMMA SelectionKeeps ==
    ASSUME DetectorInv, UNCHANGED <<input, pending, pair, anchors, kept>>,
           pc' \in {"pairs", "select", "fill", "done"}, left' \subseteq kept
    PROVE  SearchInv' /\ KeptInv'
<1>1. SearchInv /\ KeptInv /\ input' = input
  BY DEF DetectorInv
<1>2. SearchInv'
  <2>1. IsChanged(pair[1], pair[2])' <=> IsChanged(pair[1], pair[2])
    BY DEF IsChanged
  <2> QED
    BY <1>1, <2>1, SameInput DEF SearchInv
<1>3. KeptInv'
  BY <1>1, SameInput DEF KeptInv
<1> QED
  BY <1>2, <1>3

LEMMA SamePoolsIs ==
    /\ \A c : SamePools(c, c)
    /\ \A c, d : SamePools(c, d) => SamePools(d, c)
BY DEF SamePools

LEMMA SelectNextKeeps ==
    ASSUME DetectorInv, SelectNext
    PROVE  DetectorInv'
<1>1. PICK c \in left :
         /\ left' = {d \in left : ~ SamePools(c, d)}
         /\ selected' = IF Wanted(c) THEN Append(selected, c) ELSE selected
  BY DEF SelectNext, NextLeft
<1>2. /\ selected \in Seq(kept) /\ c \in kept /\ left \subseteq kept
      /\ \A d \in left, k \in 1..Len(selected) : ~ SamePools(d, selected[k])
      /\ \A j, k \in 1..Len(selected) : j # k => ~ SamePools(selected[j], selected[k])
  BY DEF DetectorInv, KeptInv, SelectedInv, SelectNext
<1>3. Len(selected) < input.tuning.max
  <2>1. input.tuning.max \in Nat
    BY InputIs DEF DetectorInv, SearchInv
  <2>2. ~ (Len(selected) >= input.tuning.max) /\ Len(selected) \in Nat
    BY <1>2 DEF SelectNext, Full
  <2> QED
    BY <2>1, <2>2
<1>4. SearchInv' /\ KeptInv'
  <2>1. left' \subseteq kept
    BY <1>1, <1>2
  <2>2. pc' \in {"pairs", "select", "fill", "done"} /\ UNCHANGED <<input, pending, pair, anchors, kept>>
    BY DEF SelectNext
  <2> QED
    BY <2>1, <2>2, SelectionKeeps
<1>5. /\ \A d \in left' : d \in left /\ ~ SamePools(d, c)
      /\ \A k \in 1..Len(selected) : ~ SamePools(c, selected[k]) /\ ~ SamePools(selected[k], c)
  BY <1>1, <1>2, SamePoolsIs
<1>6. pc' = "select" /\ kept' = kept /\ input' = input
  BY DEF SelectNext
<1>7. CASE Wanted(c)
  <2> DEFINE s == Append(selected, c)
             n == Len(selected)
  <2>1. /\ n \in Nat /\ s \in Seq(kept) /\ Len(s) = n + 1 /\ s[n + 1] = c
        /\ \A k \in 1..n : s[k] = selected[k]
    BY <1>2
  <2>2. \A k \in 1..(n + 1) : k \in 1..n \/ k = n + 1
    BY <2>1
  <2>3. selected' = s
    BY <1>1, <1>7
  <2> HIDE DEF s, n
  <2>4. \A d \in left', k \in 1..(n + 1) : ~ SamePools(d, s[k])
    BY <1>2, <1>5, <2>1, <2>2 DEF n
  <2>5. \A j, k \in 1..(n + 1) : j # k => ~ SamePools(s[j], s[k])
    BY <1>2, <1>5, <2>1, <2>2 DEF n
  <2>6. Len(s) <= input.tuning.max
    <3>1. input.tuning.max \in Nat
      BY InputIs DEF DetectorInv, SearchInv
    <3> QED
      BY <1>3, <2>1, <3>1 DEF n
  <2>7. SelectedInv'
    BY <1>6, <2>1, <2>3, <2>4, <2>5, <2>6 DEF SelectedInv
  <2> QED
    BY <1>4, <2>7 DEF DetectorInv
<1>8. CASE ~ Wanted(c)
  <2>1. selected' = selected
    BY <1>1, <1>8
  <2>2. \A d \in left', k \in 1..Len(selected) : ~ SamePools(d, selected[k])
    BY <1>2, <1>5
  <2>3. SelectedInv'
    BY <1>2, <1>6, <2>1, <2>2 DEF SelectedInv, DetectorInv
  <2> QED
    BY <1>4, <2>3 DEF DetectorInv
<1> QED
  BY <1>7, <1>8

LEMMA FillNextKeeps ==
    ASSUME DetectorInv, FillNext
    PROVE  DetectorInv'
<1>1. PICK c \in left :
         /\ left' = left \ {c}
         /\ selected' = IF FillWants(c) THEN Append(selected, c) ELSE selected
  BY DEF FillNext, NextLeft
<1>2. /\ selected \in Seq(kept) /\ c \in kept /\ left \subseteq kept
      /\ \A j, k \in 1..Len(selected) : j # k => ~ SamePools(selected[j], selected[k])
  BY DEF DetectorInv, KeptInv, SelectedInv
<1>3. input.tuning.max \in Nat /\ ~ (Len(selected) >= input.tuning.max) /\ Len(selected) \in Nat
  BY <1>2, InputIs DEF DetectorInv, SearchInv, FillNext, Full
<1>4. SearchInv' /\ KeptInv'
  <2>1. left' \subseteq kept
    BY <1>1, <1>2
  <2>2. pc' \in {"pairs", "select", "fill", "done"} /\ UNCHANGED <<input, pending, pair, anchors, kept>>
    BY DEF FillNext
  <2> QED
    BY <2>1, <2>2, SelectionKeeps
<1>5. pc' = "fill" /\ kept' = kept /\ input' = input
  BY DEF FillNext
<1>6. CASE FillWants(c)
  <2> DEFINE s == Append(selected, c)
             n == Len(selected)
  <2>1. /\ n \in Nat /\ s \in Seq(kept) /\ Len(s) = n + 1 /\ s[n + 1] = c
        /\ \A k \in 1..n : s[k] = selected[k]
    BY <1>2
  <2>2. \A k \in 1..(n + 1) : k \in 1..n \/ k = n + 1
    BY <2>1
  <2>3. selected' = s
    BY <1>1, <1>6
  <2>4. \A k \in 1..n : ~ SamePools(c, selected[k]) /\ ~ SamePools(selected[k], c)
    BY <1>6, SamePoolsIs DEF FillWants, Selected
  <2> HIDE DEF s, n
  <2>5. \A j, k \in 1..(n + 1) : j # k => ~ SamePools(s[j], s[k])
    BY <1>2, <2>1, <2>2, <2>4 DEF n
  <2>6. Len(s) <= input.tuning.max
    BY <1>3, <2>1 DEF n
  <2>7. SelectedInv'
    BY <1>5, <2>1, <2>3, <2>5, <2>6 DEF SelectedInv
  <2> QED
    BY <1>4, <2>7 DEF DetectorInv
<1>7. CASE ~ FillWants(c)
  <2>1. SelectedInv'
    BY <1>1, <1>5, <1>7 DEF SelectedInv, DetectorInv
  <2> QED
    BY <1>4, <2>1 DEF DetectorInv
<1> QED
  BY <1>6, <1>7

LEMMA DetectorNext == DetectorInv /\ [Next]_vars => DetectorInv'
<1> SUFFICES ASSUME DetectorInv, [Next]_vars PROVE DetectorInv'
  OBVIOUS
<1>1. CASE TakePair
  BY <1>1, TakePairKeeps
<1>2. CASE TryAnchor
  BY <1>2, TryAnchorKeeps
<1>3. CASE SearchDone
  <2>1. SearchInv' /\ KeptInv'
    BY <1>3, SelectionKeeps DEF SearchDone
  <2>2. SelectedInv'
    <3>1. selected = << >> /\ selected' = << >> /\ kept' = kept /\ input' = input
      BY <1>3 DEF SearchDone, SelectedInv, DetectorInv
    <3> QED
      BY <3>1 DEF SelectedInv, DetectorInv
  <2> QED
    BY <2>1, <2>2 DEF DetectorInv
<1>4. CASE SelectNext
  BY <1>4, SelectNextKeeps
<1>5. CASE StartFill
  <2>1. SearchInv' /\ KeptInv'
    BY <1>5, SelectionKeeps DEF StartFill
  <2>2. SelectedInv'
    BY <1>5 DEF StartFill, SelectedInv, DetectorInv
  <2> QED
    BY <2>1, <2>2 DEF DetectorInv
<1>6. CASE FillNext
  BY <1>6, FillNextKeeps
<1>7. CASE FillDone
  <2>1. SearchInv' /\ KeptInv'
    BY <1>7, SelectionKeeps DEF FillDone
  <2>2. SelectedInv'
    BY <1>7 DEF FillDone, SelectedInv, DetectorInv
  <2> QED
    BY <2>1, <2>2 DEF DetectorInv
<1>8. CASE UNCHANGED vars
  <2>1. SearchInv' /\ KeptInv'
    BY <1>8, SelectionKeeps DEF vars, DetectorInv, SearchInv, KeptInv
  <2>2. SelectedInv'
    BY <1>8 DEF vars, SelectedInv, DetectorInv
  <2> QED
    BY <2>1, <2>2 DEF DetectorInv
<1> QED
  BY <1>1, <1>2, <1>3, <1>4, <1>5, <1>6, <1>7, <1>8 DEF Next

\* The detector keeps to the invariant: what it searches has changed, what it
\* keeps are candidates within the budget, what it selects differs in its pools.
THEOREM DetectorInvariant == Spec => []DetectorInv
<1> QED
  BY DetectorInit, DetectorNext, PTL DEF Spec

\* Kept within candidate_selection_budget, selected within
\* max_candidates_per_refresh, and every place of the search of its type.
THEOREM SearchTypeInvariant == Spec => []SearchTypeOK
<1>1. DetectorInv => SearchTypeOK
  <2> SUFFICES ASSUME DetectorInv PROVE SearchTypeOK
    OBVIOUS
  <2>1. pending \subseteq Edges
    BY ChangedEdgesAre DEF DetectorInv, SearchInv
  <2>2. Selected \subseteq kept
    BY DEF DetectorInv, SelectedInv, Selected
  <2> QED
    BY <2>1, <2>2 DEF DetectorInv, SearchInv, KeptInv, SelectedInv, SearchTypeOK
<1> QED
  BY <1>1, DetectorInvariant, PTL

\* Whatever find_candidates hands to the router is a cycle of distinct tokens
\* from an anchor back to it, over usable edges, through a pair that changed,
\* below the cutoff and large enough to trade; none is handed over twice, and no
\* more than max_candidates_per_refresh are.
THEOREM SelectedAreCyclesHolds == Spec => []SelectedAreCycles
<1>1. DetectorInv => SelectedAreCycles
  <2> SUFFICES ASSUME DetectorInv PROVE SelectedAreCycles
    OBVIOUS
  <2>1. \A c \in Selected : c \in kept
    BY DEF DetectorInv, SelectedInv, Selected
  <2>2. \A c \in Selected : IsCandidate(c)
    BY <2>1 DEF DetectorInv, KeptInv
  <2> QED
    BY <2>2 DEF DetectorInv, SelectedInv, SelectedAreCycles
<1> QED
  BY <1>1, DetectorInvariant, PTL

-----------------------------------------------------------------------------
(* How many paths there are *)

LEMMA ImageIsNoLarger ==
    ASSUME NEW S, IsFiniteSet(S), NEW f
    PROVE  Cardinality({f[x] : x \in S}) <= Cardinality(S)
<1> DEFINE T == {f[x] : x \in S}
           g == [x \in S |-> f[x]]
<1>1. g \in Surjection(S, T)
  BY DEF Surjection
<1> QED
  BY <1>1, FS_Surjection

\* The sequences of n members of a finite set
LEMMA SequencesFinite ==
    ASSUME NEW S, IsFiniteSet(S), NEW n \in Nat
    PROVE  IsFiniteSet([1..n -> S])
<1> DEFINE T == {m \in Nat : IsFiniteSet([1..m -> S])}
<1>1. 0 \in T
  <2> DEFINE F == [1..0 -> S]
  <2>1. 1..0 = {}
    OBVIOUS
  <2>2. \A f, g \in F : f = g
    BY <2>1
  <2>3. F \subseteq {CHOOSE f \in F : TRUE}
    <3> HIDE DEF F
    <3> QED
      BY <2>2
  <2>4. IsFiniteSet(F)
    BY <2>3, FS_Singleton, FS_Subset
  <2> QED
    BY <2>4
<1>2. ASSUME NEW m \in Nat, m \in T PROVE m + 1 \in T
  <2> DEFINE A == [1..m -> S] \X S
             f == [r \in A |-> [k \in 1..(m + 1) |-> IF k = m + 1 THEN r[2] ELSE r[1][k]]]
             B == {f[r] : r \in A}
  <2>1. IsFiniteSet(A)
    BY <1>2, FS_Product
  <2>2. IsFiniteSet(B)
    <3> HIDE DEF f, A
    <3> QED
      BY <2>1, ImageFinite
  <2>3. ASSUME NEW g \in [1..(m + 1) -> S] PROVE g \in B
    <3> DEFINE h == [k \in 1..m |-> g[k]]
               r == <<h, g[m + 1]>>
    <3>1. m + 1 \in 1..(m + 1) /\ \A k \in 1..m : k \in 1..(m + 1)
      OBVIOUS
    <3>2. r \in A
      <4>1. h \in [1..m -> S] /\ g[m + 1] \in S
        BY <3>1
      <4> HIDE DEF h
      <4> QED
        BY <4>1
    <3>3. f[r] = [k \in 1..(m + 1) |-> IF k = m + 1 THEN r[2] ELSE r[1][k]]
      BY <3>2
    <3>4. \A k \in 1..(m + 1) : k = m + 1 \/ k \in 1..m
      OBVIOUS
    <3>5. r[2] = g[m + 1] /\ \A k \in 1..m : r[1][k] = g[k]
      OBVIOUS
    <3> HIDE DEF f, r, A
    <3>6. \A k \in 1..(m + 1) : g[k] = IF k = m + 1 THEN r[2] ELSE r[1][k]
      BY <3>4, <3>5, Zenon
    <3>7. g = [k \in 1..(m + 1) |-> g[k]]
      OBVIOUS
    <3>8. g = f[r]
      BY <3>3, <3>6, <3>7, Zenon
    <3> QED
      BY <3>2, <3>8
  <2> HIDE DEF B
  <2>4. IsFiniteSet([1..(m + 1) -> S])
    BY <2>2, <2>3, FS_Subset
  <2> QED
    BY <2>4
<1> HIDE DEF T
<1>3. Nat \subseteq T
  BY <1>1, <1>2, InductiveSet
<1> QED
  BY <1>3 DEF T

LEMMA SimplePathsFinite ==
    ASSUME input \in Inputs, NEW t
    PROVE  IsFiniteSet(SimplePaths(t))
<1> DEFINE E == {e \in Edges : Admissible(e)}
           n == MaxHops - 1
           f == [m \in 1..n |-> [1..m -> E]]
           Q == {f[m] : m \in 1..n}
<1>1. IsFiniteSet(E)
  BY EdgesAreFinite, FS_Subset
<1>2. \A m \in 1..n : f[m] = [1..m -> E] /\ m \in Nat
  OBVIOUS
<1>3. SimplePaths(t) \subseteq UNION {[1..m -> E] : m \in 1..n}
  BY DEF SimplePaths
<1> HIDE DEF E
<1>4. {[1..m -> E] : m \in 1..n} = Q
  OBVIOUS
<1> HIDE DEF f
<1>5. \A q \in Q : IsFiniteSet(q)
  BY <1>1, <1>2, SequencesFinite
<1>6. IsFiniteSet(Q)
  <2>1. IsFiniteSet(1..n)
    <3>1. n \in Int
      <4>1. MaxHops \in Nat
        BY SearchAssumption, Zenon
      <4> QED
        BY <4>1
    <3> QED
      BY <3>1, FS_Interval
  <2> HIDE DEF n
  <2> QED
    BY <2>1, ImageFinite
<1> HIDE DEF Q
<1>7. IsFiniteSet(UNION Q)
  BY <1>5, <1>6, FS_UNION
<1> QED
  BY <1>3, <1>4, <1>7, FS_Subset

\* A path from a token is known by its edges.
LEMMA PathIsItsEdges ==
    ASSUME input \in Inputs, NEW start, NEW p \in Paths(start), NEW q \in Paths(start), p.edges = q.edges
    PROVE  p = q
<1>1. /\ p = [edges |-> p.edges, tokens |-> p.tokens, end |-> p.end, score |-> p.score, hint |-> p.hint]
      /\ q = [edges |-> q.edges, tokens |-> q.tokens, end |-> q.end, score |-> q.score, hint |-> q.hint]
      /\ IsPathFrom(start, p) /\ IsPathFrom(start, q) /\ p.hint \in Int /\ q.hint \in Int
      /\ p.edges \in Seq(Edges)
  BY DEF Paths
<1>2. p.tokens = q.tokens /\ p.end = q.end /\ p.score = q.score
  BY <1>1 DEF IsPathFrom
<1>3. p.hint = q.hint
  <2>1. IsHint(p.edges, p.hint) /\ IsHint(p.edges, q.hint)
    BY <1>1 DEF IsPathFrom
  <2>2. CASE p.edges = << >>
    BY <2>1, <2>2 DEF IsHint
  <2>3. CASE p.edges # << >>
    <3>1. PICK k \in 1..Len(p.edges) : p.hint = p.edges[k].cap
      BY <2>1, <2>3 DEF IsHint
    <3>2. PICK j \in 1..Len(p.edges) : q.hint = p.edges[j].cap
      BY <2>1, <2>3 DEF IsHint
    <3>3. q.hint <= p.hint /\ p.hint <= q.hint
      BY <2>1, <2>3, <3>1, <3>2 DEF IsHint
    <3> QED
      BY <1>1, <3>3
  <2> QED
    BY <2>2, <2>3
<1> QED
  BY <1>1, <1>2, <1>3, Zenon

LEMMA PathIsSimple ==
    ASSUME input \in Inputs, NEW start, NEW p \in Paths(start), Len(p.edges) \in 1..(MaxHops - 1)
    PROVE  p.edges \in SimplePaths(start)
<1> DEFINE s == p.edges
           n == Len(s)
           E == {e \in Edges : Admissible(e)}
<1>1. s \in Seq(Edges) /\ IsPathFrom(start, p)
  BY DEF Paths
<1>2. n \in 1..(MaxHops - 1)
  OBVIOUS
<1>3. s # << >>
  <2>1. n # 0
    BY <1>2
  <2> QED
    BY <1>1, <2>1
<1>4. /\ s[1].from = start
      /\ \A k \in 1..n : Admissible(s[k]) /\ s[k].to # start
      /\ \A j, k \in 1..n : j # k => s[j].to # s[k].to
      /\ \A k \in 1..(n - 1) : s[k].to = s[k + 1].from
  BY <1>1, <1>3 DEF IsPathFrom
<1>5. s \in [1..n -> E]
  BY <1>1, <1>4
<1> HIDE DEF s, E
<1>6. s \in UNION {[1..m -> E] : m \in 1..(MaxHops - 1)}
  BY <1>2, <1>5
<1> QED
  BY <1>4, <1>6 DEF SimplePaths, s, n, E

\* Wide leaves room for all of them.
LEMMA PathsFit ==
    ASSUME input \in Inputs, Wide, NEW start \in Tokens, NEW A \in SUBSET Paths(start), IsFiniteSet(A),
           \A p \in A : Len(p.edges) \in 1..(MaxHops - 1)
    PROVE  /\ Best(A, input.tuning.topK, PathBefore) = A
           /\ Best(A, input.tuning.beam, PathBefore) = A
<1> DEFINE f == [p \in A |-> p.edges]
           T == SimplePaths(start)
<1>1. f \in Injection(A, T)
  <2>1. f \in [A -> T]
    BY PathIsSimple
  <2>2. \A p, q \in A : f[p] = f[q] => p = q
    BY PathIsItsEdges
  <2> HIDE DEF f, T
  <2> QED
    BY <2>1, <2>2 DEF Injection, IsInjective
<1>2. IsFiniteSet(T)
  BY SimplePathsFinite
<1>3. Cardinality(T) <= AtMost(input.tuning.topK, input.tuning.beam)
  BY DEF Wide
<1> HIDE DEF f, T
<1>4. Cardinality(A) <= Cardinality(T)
  BY <1>1, <1>2, FS_Injection
<1>5. Cardinality(A) \in Nat /\ Cardinality(T) \in Nat
  BY <1>2, FS_CardinalityType
<1>6. input.tuning.topK \in Nat /\ input.tuning.beam \in Nat
  BY InputIs
<1>7. Cardinality(A) <= input.tuning.topK /\ Cardinality(A) <= input.tuning.beam
  BY <1>3, <1>4, <1>5, <1>6 DEF AtMost
<1> QED
  BY <1>7 DEF Best

\* And a node is followed along all its admissible edges.
LEMMA OutgoingAreAll ==
    ASSUME input \in Inputs, Wide, NEW e \in Edges, Admissible(e)
    PROVE  e \in Outgoing(e.from)
<1> DEFINE t == e.from
           S == UNION {PairEdges(t, u) : u \in Tokens}
           A == {f \in Edges : f.from = t /\ Admissible(f)}
<1>1. t \in Tokens /\ e.to \in Tokens
  BY EdgesAreFinite DEF IsEdge
<1>2. e \in S
  BY <1>1, AdmissibleAreTaken
<1>3. S \in SUBSET A
  BY PairEdgesAre
<1>4. Cardinality(A) <= input.tuning.branches
  BY <1>1 DEF Wide
<1>5. Outgoing(t) = Best(S, input.tuning.branches, EdgeBefore)
  BY DEF Outgoing
<1>6. IsFiniteSet(A)
  BY EdgesAreFinite, FS_Subset
<1> HIDE DEF S, A
<1>7. Cardinality(S) <= Cardinality(A) /\ Cardinality(S) \in Nat /\ Cardinality(A) \in Nat
  BY <1>3, <1>6, FS_Subset, FS_CardinalityType
<1>8. Cardinality(S) <= input.tuning.branches
  <2>1. input.tuning.branches \in Nat
    BY InputIs
  <2> QED
    BY <1>4, <1>7, <2>1
<1> QED
  BY <1>2, <1>5, <1>8 DEF Best

-----------------------------------------------------------------------------
(* find_top_paths misses no path *)

\* Edges one after the other that pass no token twice
Walk(start, s) ==
    /\ s \in Seq(Edges)
    /\ \A k \in 1..Len(s) : Admissible(s[k]) /\ s[k].to # start
    /\ \A j, k \in 1..Len(s) : j # k => s[j].to # s[k].to
    /\ \A k \in 1..(Len(s) - 1) : s[k].to = s[k + 1].from
    /\ s # << >> => s[1].from = start

\* Without its last edge it is one too.
Shortened(s, n) == SubSeq(s, 1, n)

LEMMA WalkShortened ==
    ASSUME NEW start, NEW n \in Nat, NEW s, Walk(start, s), Len(s) = n + 1
    PROVE  /\ Walk(start, Shortened(s, n)) /\ Len(Shortened(s, n)) = n
           /\ \A k \in 1..n : Shortened(s, n)[k] = s[k]
           /\ s = Append(Shortened(s, n), s[n + 1])
<1> DEFINE r == Shortened(s, n)
<1>1. s \in Seq(Edges) /\ \A k \in 1..(n + 1) : s[k] \in Edges
  BY DEF Walk
<1>2. /\ r \in Seq(Edges) /\ Len(r) = n
      /\ \A k \in 1..n : r[k] = s[k]
      /\ s = Append(r, s[n + 1])
  <2>1. r = [k \in 1..n |-> s[k]]
    BY <1>1 DEF Shortened
  <2>2. r \in Seq(Edges) /\ Len(r) = n /\ \A k \in 1..n : r[k] = s[k]
    BY <1>1, <2>1
  <2>3. s = [k \in 1..(n + 1) |-> s[k]]
    BY <1>1
  <2> HIDE DEF r
  <2>4. s = Append(r, s[n + 1])
    <3> DEFINE q == Append(r, s[n + 1])
    <3>1. q = [k \in 1..(n + 1) |-> IF k = n + 1 THEN s[n + 1] ELSE r[k]]
      BY <2>2
    <3>2. \A k \in 1..(n + 1) : k # n + 1 => k \in 1..n
      OBVIOUS
    <3>3. \A k \in 1..(n + 1) : s[k] = IF k = n + 1 THEN s[n + 1] ELSE r[k]
      BY <2>2, <3>2
    <3> HIDE DEF q
    <3> QED
      BY <2>3, <3>1, <3>3, Zenon DEF q
  <2> QED
    BY <2>2, <2>4
<1>3. /\ \A k \in 1..n : k \in 1..(n + 1)
      /\ \A k \in 1..(n - 1) : k \in 1..n /\ k + 1 \in 1..n /\ k \in 1..((n + 1) - 1)
      /\ n # 0 => 1 \in 1..n
      /\ s # << >>
  BY <1>1
<1> HIDE DEF r
<1>4. r # << >> => n # 0
  BY <1>2
<1>5. Walk(start, r)
  BY <1>2, <1>3, <1>4 DEF Walk
<1> QED
  BY <1>2, <1>5 DEF r

\* A round extends a path by every edge that goes on from it.
LEMMA GrownHas ==
    ASSUME input \in Inputs, Wide, NEW start \in Tokens, NEW n \in Nat, NEW s, Walk(start, s), Len(s) = n + 1,
           NEW frontier, NEW p \in frontier, p \in Paths(start), p.edges = Shortened(s, n)
    PROVE  \E q \in Grown(frontier) : q.edges = s /\ q.end = s[n + 1].to
<1> DEFINE e == s[n + 1]
           r == Shortened(s, n)
<1>1. Walk(start, r) /\ Len(r) = n /\ (\A k \in 1..n : r[k] = s[k]) /\ s = Append(r, e)
  BY WalkShortened
<1>2. e \in Edges /\ Admissible(e) /\ e.to # start /\ \A k \in 1..n : s[k].to # e.to
  BY DEF Walk
<1>3. IsPathFrom(start, p) /\ p.edges = r
  BY DEF Paths
<1>4. e.from = p.end
  <2>1. CASE n = 0
    <3>1. r = << >>
      BY <1>1, <2>1 DEF Walk
    <3>2. e.from = start
      <4>1. s # << >> /\ e = s[1]
        <5>1. n + 1 = 1
          BY <2>1
        <5>2. s \in Seq(Edges) /\ Len(s) = 1
          BY <5>1 DEF Walk
        <5>3. s # << >>
          BY <5>2
        <5> QED
          BY <5>1, <5>3
      <4> QED
        BY <4>1 DEF Walk
    <3> QED
      BY <1>3, <3>1, <3>2 DEF IsPathFrom
  <2>2. CASE n # 0
    <3>1. r # << >>
      BY <1>1, <2>2
    <3>2. n \in 1..(Len(s) - 1) /\ n \in 1..n
      BY <2>2
    <3>3. s[n].to = e.from
      BY <3>2 DEF Walk
    <3> QED
      BY <1>1, <1>3, <3>1, <3>2, <3>3 DEF IsPathFrom
  <2> QED
    BY <2>1, <2>2
<1>5. e.to \notin p.tokens
  <2>1. p.tokens = {start} \union {r[k].to : k \in 1..n}
    BY <1>1, <1>3 DEF IsPathFrom
  <2>2. \A k \in 1..n : r[k].to # e.to
    BY <1>1, <1>2
  <2> QED
    BY <1>2, <2>1, <2>2
<1>6. e \in Outgoing(p.end)
  BY <1>2, <1>4, OutgoingAreAll
<1>7. Extended(p, e) \in Grown(frontier)
  BY <1>5, <1>6 DEF Grown
<1>8. Extended(p, e).edges = s /\ Extended(p, e).end = e.to
  BY <1>1, <1>3 DEF Extended
<1> QED
  BY <1>7, <1>8

\* A round lengthens each path by an edge.
LEMMA GrownLengths ==
    ASSUME NEW start, NEW n \in Nat, NEW frontier \in SUBSET Paths(start), \A p \in frontier : Len(p.edges) = n
    PROVE  \A q \in Grown(frontier) : Len(q.edges) = n + 1
<1> SUFFICES ASSUME NEW p \in frontier, NEW e PROVE Len(Extended(p, e).edges) = n + 1
  BY DEF Grown
<1>1. p.edges \in Seq(Edges) /\ Len(p.edges) = n
  BY DEF Paths
<1>2. Extended(p, e).edges = Append(p.edges, e)
  BY DEF Extended
<1> QED
  BY <1>1, <1>2

Avoids(s, n, target) == \A k \in 1..n : s[k].to # target

\* After n rounds the frontier has the paths of n edges that avoid the target, and
\* out those of up to n that end there.
Complete(l, start, target, n) ==
    /\ \A p \in l.frontier : Len(p.edges) = n
    /\ \A p \in l.out : Len(p.edges) \in 1..n
    /\ \A s : Walk(start, s) /\ Len(s) = n /\ Avoids(s, n, target) => \E p \in l.frontier : p.edges = s
    /\ \A s : Walk(start, s) /\ Len(s) \in 1..n /\ s[Len(s)].to = target => \E p \in l.out : p.edges = s

LEMMA FirstIsComplete ==
    ASSUME NEW start, NEW target
    PROVE  Complete(FirstLayer(start), start, target, 0)
<1> DEFINE l == FirstLayer(start)
<1>1. l.out = {} /\ \A p : p \in l.frontier <=> p = NoPath(start)
  BY DEF FirstLayer
<1>2. NoPath(start).edges = << >>
  BY DEF NoPath
<1>3. \A s : Walk(start, s) /\ Len(s) = 0 => s = << >>
  BY DEF Walk
<1>4. \A s : ~ (Len(s) \in 1..0)
  OBVIOUS
<1> HIDE DEF l
<1>5. Complete(l, start, target, 0)
  BY <1>1, <1>2, <1>3, <1>4 DEF Complete
<1> QED
  BY <1>5 DEF l

LEMMA NextIsComplete ==
    ASSUME input \in Inputs, Wide, NEW start \in Tokens, NEW target, NEW n \in Nat, n + 1 <= MaxHops - 1,
           NEW l \in Layers(start, target), Complete(l, start, target, n)
    PROVE  Complete(NextLayer(l, target), start, target, n + 1)
<1> DEFINE next == Grown(l.frontier)
           there == {p \in next : p.end = target}
           A == l.out \union there
           B == next \ there
<1>1. /\ l.out \in SUBSET {p \in Paths(start) : p.end = target} /\ l.frontier \in SUBSET Paths(start)
      /\ IsFiniteSet(l.out) /\ IsFiniteSet(l.frontier)
  BY DEF Layers
<1>2. next \subseteq Paths(start) /\ IsFiniteSet(next)
  BY <1>1, GrownIs
<1>3. \A q \in next : Len(q.edges) = n + 1
  BY <1>1, GrownLengths DEF Complete
<1>4. MaxHops \in Nat
  BY SearchAssumption, Zenon
<1>5. n + 1 \in 1..(MaxHops - 1) /\ \A k \in 1..n : k \in 1..(MaxHops - 1) /\ k \in 1..(n + 1)
  BY <1>4
<1>6. NextLayer(l, target) = [out |-> Best(A, input.tuning.topK, PathBefore),
                              frontier |-> Best(B, input.tuning.beam, PathBefore)]
  BY DEF NextLayer
<1>7. ASSUME NEW s, Walk(start, s), Len(s) = n + 1, Avoids(s, n, target)
      PROVE  \E q \in next : q.edges = s /\ q.end = s[n + 1].to
  <2> DEFINE r == Shortened(s, n)
  <2>1. Walk(start, r) /\ Len(r) = n /\ \A k \in 1..n : r[k] = s[k]
    BY <1>7, WalkShortened
  <2>2. Avoids(r, n, target)
    BY <1>7, <2>1 DEF Avoids
  <2> HIDE DEF r
  <2>3. PICK p \in l.frontier : p.edges = r
    BY <2>1, <2>2 DEF Complete
  <2>4. p \in Paths(start)
    BY <1>1
  <2> QED
    BY <1>7, <2>3, <2>4, GrownHas DEF r
<1> HIDE DEF next
<1>8. IsFiniteSet(A) /\ A \in SUBSET Paths(start) /\ IsFiniteSet(B) /\ B \in SUBSET Paths(start)
  <2>1. IsFiniteSet(there)
    BY <1>2, FS_Subset
  <2> QED
    BY <1>1, <1>2, <2>1, FS_Union, FS_Subset
<1>9. /\ \A p \in A : Len(p.edges) \in 1..(n + 1)
      /\ \A p \in B : Len(p.edges) = n + 1
  <2>1. \A p \in l.out : Len(p.edges) \in 1..n
    BY DEF Complete
  <2>2. n + 1 \in 1..(n + 1)
    OBVIOUS
  <2> QED
    BY <1>3, <1>5, <2>1, <2>2
<1>10. \A k \in 1..(n + 1) : k \in 1..(MaxHops - 1)
  BY <1>5
<1>11. NextLayer(l, target) = [out |-> A, frontier |-> B]
  <2> HIDE DEF A, B
  <2>1. Best(A, input.tuning.topK, PathBefore) = A
    BY <1>8, <1>9, <1>10, PathsFit
  <2>2. Best(B, input.tuning.beam, PathBefore) = B
    BY <1>5, <1>8, <1>9, PathsFit
  <2> QED
    BY <1>6, <2>1, <2>2
<1>12. ASSUME NEW s, Walk(start, s), Len(s) = n + 1, Avoids(s, n + 1, target)
       PROVE  \E p \in B : p.edges = s
  <2>1. Avoids(s, n, target) /\ s[n + 1].to # target
    BY <1>5, <1>12 DEF Avoids
  <2> QED
    BY <1>7, <1>12, <2>1
<1>13. ASSUME NEW s, Walk(start, s), Len(s) \in 1..(n + 1), s[Len(s)].to = target
       PROVE  \E p \in A : p.edges = s
  <2>1. CASE Len(s) = n + 1
    <3>1. Avoids(s, n, target)
      <4>1. n + 1 \in 1..(n + 1) /\ \A k \in 1..n : k \in 1..(n + 1) /\ k # n + 1
        OBVIOUS
      <4> QED
        BY <1>13, <2>1, <4>1 DEF Avoids, Walk
    <3> QED
      BY <1>7, <1>13, <2>1, <3>1
  <2>2. CASE Len(s) # n + 1
    <3>1. Len(s) \in 1..n
      BY <1>13, <2>2
    <3>2. PICK p \in l.out : p.edges = s
      BY <1>13, <3>1 DEF Complete
    <3> QED
      BY <3>2
  <2> QED
    BY <2>1, <2>2
<1> HIDE DEF A, B
<1> QED
  BY <1>9, <1>11, <1>12, <1>13 DEF Complete

\* find_top_paths returns every path to the target.
LEMMA TopPathsHave ==
    ASSUME input \in Inputs, Wide, NEW start \in Tokens, NEW target, MaxHops >= 1, NEW s, Walk(start, s),
           Len(s) <= MaxHops - 1,
           IF s = << >> THEN start = target ELSE s[Len(s)].to = target
    PROVE  \E p \in TopPaths(start, target) : p.edges = s
<1>1. MaxHops - 1 \in Nat
  <2>1. MaxHops \in Nat
    BY SearchAssumption, Zenon
  <2> QED
    BY <2>1
<1>2. s \in Seq(Edges) /\ Len(s) \in Nat
  BY DEF Walk
<1>3. CASE s = << >>
  BY <1>3 DEF TopPaths, NoPath
<1>4. CASE s # << >>
  <2> DEFINE n == MaxHops - 1
             L == Len(s)
  <2>1. L \in 1..n /\ s[L].to = target
    BY <1>1, <1>2, <1>4
  <2>2. start # target
    BY <1>2, <2>1 DEF Walk
  <2>3. PICK layer : Layering(layer, start, target)
    BY LayeringExists
  <2> DEFINE T == {i \in Nat : i <= n => Complete(layer[i], start, target, i)}
  <2>4. 0 \in T
    BY <2>3, FirstIsComplete DEF Layering
  <2>5. ASSUME NEW i \in Nat, i \in T PROVE i + 1 \in T
    <3> SUFFICES ASSUME i + 1 <= n PROVE Complete(layer[i + 1], start, target, i + 1)
      OBVIOUS
    <3>1. i \in 0..n /\ i + 1 \in 1..n /\ (i + 1) - 1 = i
      BY <1>1
    <3>2. layer[i + 1] = NextLayer(layer[i], target) /\ layer[i] \in Layers(start, target)
      BY <2>3, <3>1 DEF Layering
    <3>3. Complete(layer[i], start, target, i)
      BY <1>1, <2>5
    <3> QED
      BY <3>2, <3>3, NextIsComplete
  <2> HIDE DEF T
  <2>6. Nat \subseteq T
    BY <2>4, <2>5, InductiveSet
  <2>7. Complete(layer[n], start, target, n)
    BY <1>1, <2>6 DEF T
  <2>8. TopPaths(start, target) = layer[n].out
    BY <2>2, <2>3 DEF Layering
  <2> HIDE DEF n
  <2> QED
    BY <2>1, <2>7, <2>8 DEF Complete
<1> QED
  BY <1>3, <1>4

-----------------------------------------------------------------------------
(* No cycle through a pair is missed when its anchor is tried *)

LEMMA CountedDiffer ==
    ASSUME NEW n \in Nat, NEW f, Cardinality(Listed(f, n)) = n
    PROVE  AllDiffer(f, n)
<1> DEFINE T == {f[k] : k \in 1..n}
           g == [k \in 1..n |-> f[k]]
<1>1. g \in Surjection(1..n, T)
  BY DEF Surjection
<1>2. IsFiniteSet(1..n) /\ Cardinality(1..n) = n
  BY FS_Interval
<1>3. Cardinality(T) = n
  BY DEF Listed
<1> HIDE DEF T, g
<1>4. g \in Injection(1..n, T)
  BY <1>1, <1>2, <1>3, FS_Surjection
<1>5. \A j, k \in 1..n : g[j] = g[k] => j = k
  BY <1>4 DEF Injection, IsInjective
<1> QED
  BY <1>5 DEF AllDiffer, g

\* A cycle of n edges from the anchor
Cycle(c, n) ==
    /\ c = Candidate(c.anchor, c.edges) /\ c.anchor \in Tokens
    /\ c.edges \in Seq(Edges) /\ Len(c.edges) = n /\ n \in 2..MaxHops /\ n \in Nat
    /\ c.edges[1].from = c.anchor /\ c.edges[n].to = c.anchor
    /\ \A k \in 1..(n - 1) : c.edges[k].to = c.edges[k + 1].from
    /\ \A j, k \in 1..n : j # k => c.edges[j].to # c.edges[k].to
    /\ \A k \in 1..n : Admissible(c.edges[k])

LEMMA CycleIs ==
    ASSUME input \in Inputs, NEW c, IsRoute(c), IsCandidate(c)
    PROVE  Cycle(c, Len(c.edges))
<1> DEFINE n == Len(c.edges)
           f == [k \in 1..n |-> c.edges[k].to]
<1>1. /\ c = Candidate(c.anchor, c.edges) /\ c.anchor \in Tokens /\ c.edges \in Seq(Edges)
      /\ \A k \in 1..n : Admissible(c.edges[k])
  BY DEF IsRoute, IsCandidate
<1>2. IsCycle(c)
  BY DEF IsCandidate
<1>3. /\ n \in 2..MaxHops
      /\ c.edges[1].from = c.anchor /\ c.edges[n].to = c.anchor
      /\ \A k \in 1..(n - 1) : c.edges[k].to = c.edges[k + 1].from
      /\ Cardinality({c.edges[k].to : k \in 1..n}) = n
  BY <1>2 DEF IsCycle
<1>4. n \in Nat /\ \A k \in 1..n : f[k] = c.edges[k].to
  BY <1>1
<1>5. Listed(f, n) = {c.edges[k].to : k \in 1..n}
  BY <1>4 DEF Listed
<1> HIDE DEF f
<1>6. AllDiffer(f, n)
  BY <1>3, <1>4, <1>5, CountedDiffer
<1>7. \A j, k \in 1..n : j # k => c.edges[j].to # c.edges[k].to
  BY <1>4, <1>6 DEF AllDiffer
<1> QED
  BY <1>1, <1>3, <1>4, <1>7 DEF Cycle

\* What comes before its k-th edge, and what comes after it
EdgesBefore(c, k) == SubSeq(c.edges, 1, k - 1)
EdgesAfter(c, k) == SubSeq(c.edges, k + 1, Len(c.edges))

LEMMA BeforeIs ==
    ASSUME NEW c, NEW n, Cycle(c, n), NEW k \in 1..n
    PROVE  /\ Walk(c.anchor, EdgesBefore(c, k)) /\ Len(EdgesBefore(c, k)) = k - 1
           /\ IF EdgesBefore(c, k) = << >> THEN c.anchor = c.edges[k].from
              ELSE EdgesBefore(c, k)[Len(EdgesBefore(c, k))].to = c.edges[k].from
           /\ \A j \in 1..(k - 1) : EdgesBefore(c, k)[j] = c.edges[j]
<1> DEFINE s == EdgesBefore(c, k)
           m == k - 1
<1>1. n \in Nat /\ m \in Nat /\ m < n
  BY DEF Cycle
<1>2. /\ \A j \in 1..m : j \in 1..n /\ j # n
      /\ \A j \in 1..(m - 1) : j \in 1..m /\ j + 1 \in 1..m /\ j \in 1..(n - 1)
      /\ m # 0 => 1 \in 1..m /\ m \in 1..m /\ m \in 1..(n - 1) /\ m + 1 = k
      /\ m = 0 => k = 1
      /\ n \in 1..n
  BY <1>1
<1>3. s = [j \in 1..m |-> c.edges[j]]
  BY <1>2 DEF EdgesBefore, Cycle
<1>4. s \in Seq(Edges) /\ Len(s) = m /\ \A j \in 1..m : s[j] = c.edges[j]
  BY <1>1, <1>2, <1>3 DEF Cycle
<1>5. /\ \A j \in 1..n : Admissible(c.edges[j])
      /\ \A i, j \in 1..n : i # j => c.edges[i].to # c.edges[j].to
      /\ \A j \in 1..(n - 1) : c.edges[j].to = c.edges[j + 1].from
      /\ c.edges[1].from = c.anchor /\ c.edges[n].to = c.anchor
  BY DEF Cycle
<1>6. s # << >> <=> m # 0
  BY <1>4
<1> HIDE DEF s, m
<1>7. \A j \in 1..m : Admissible(s[j]) /\ s[j].to # c.anchor
  <2> TAKE j \in 1..m
  <2>1. s[j] = c.edges[j] /\ j \in 1..n /\ j # n /\ n \in 1..n
    BY <1>2, <1>4
  <2>2. \A x, y \in 1..n : x # y => c.edges[x].to # c.edges[y].to
    BY <1>5, Zenon
  <2>3. \A x \in 1..n : Admissible(c.edges[x])
    BY <1>5, Zenon
  <2> QED
    BY <1>5, <2>1, <2>2, <2>3, Zenon
<1>8. \A i, j \in 1..m : i # j => s[i].to # s[j].to
  <2> TAKE i, j \in 1..m
  <2>1. s[i] = c.edges[i] /\ s[j] = c.edges[j] /\ i \in 1..n /\ j \in 1..n
    BY <1>2, <1>4
  <2>2. \A x, y \in 1..n : x # y => c.edges[x].to # c.edges[y].to
    BY <1>5, Zenon
  <2> QED
    BY <2>1, <2>2, Zenon
<1>9. \A j \in 1..(m - 1) : s[j].to = s[j + 1].from
  <2> TAKE j \in 1..(m - 1)
  <2>1. s[j] = c.edges[j] /\ s[j + 1] = c.edges[j + 1] /\ j \in 1..(n - 1)
    BY <1>2, <1>4
  <2>2. \A x \in 1..(n - 1) : c.edges[x].to = c.edges[x + 1].from
    BY <1>5, Zenon
  <2> QED
    BY <2>1, <2>2
<1>10. s # << >> => s[1].from = c.anchor
  BY <1>2, <1>4, <1>6 DEF Cycle
<1>11. Walk(c.anchor, s)
  BY <1>4, <1>7, <1>8, <1>9, <1>10 DEF Walk
<1>12. IF s = << >> THEN c.anchor = c.edges[k].from ELSE s[m].to = c.edges[k].from
  BY <1>2, <1>4, <1>6 DEF Cycle
<1> QED
  BY <1>4, <1>11, <1>12 DEF s, m

LEMMA AfterIs ==
    ASSUME NEW c, NEW n, Cycle(c, n), NEW k \in 1..n
    PROVE  /\ Walk(c.edges[k].to, EdgesAfter(c, k)) /\ Len(EdgesAfter(c, k)) = n - k
           /\ IF EdgesAfter(c, k) = << >> THEN c.edges[k].to = c.anchor
              ELSE EdgesAfter(c, k)[Len(EdgesAfter(c, k))].to = c.anchor
           /\ \A j \in 1..(n - k) : EdgesAfter(c, k)[j] = c.edges[k + j]
<1> DEFINE s == EdgesAfter(c, k)
           m == n - k
<1>1. n \in Nat /\ m \in Nat /\ k \in Nat /\ k + m = n
  BY DEF Cycle
<1>2. /\ \A j \in 1..m : k + j \in 1..n /\ k + j # k
      /\ \A j \in 1..(m - 1) : j \in 1..m /\ j + 1 \in 1..m /\ k + j \in 1..(n - 1) /\ (k + j) + 1 = k + (j + 1)
      /\ m # 0 => 1 \in 1..m /\ m \in 1..m /\ k \in 1..(n - 1)
      /\ m = 0 => k = n
      /\ \A i, j \in 1..m : i # j => k + i # k + j
  BY <1>1
<1>3. s = [j \in 1..m |-> c.edges[k + j]]
  <2>1. s = [j \in 1..(n - (k + 1) + 1) |-> c.edges[(k + 1) + j - 1]]
    BY DEF EdgesAfter, Cycle
  <2>2. (n - (k + 1)) + 1 = m /\ \A j \in 1..m : (k + 1) + j - 1 = k + j
    BY <1>1
  <2> HIDE DEF s, m
  <2> QED
    BY <2>1, <2>2
<1>4. s \in Seq(Edges) /\ Len(s) = m /\ \A j \in 1..m : s[j] = c.edges[k + j]
  BY <1>1, <1>2, <1>3 DEF Cycle
<1>5. /\ \A j \in 1..n : Admissible(c.edges[j])
      /\ \A i, j \in 1..n : i # j => c.edges[i].to # c.edges[j].to
      /\ \A j \in 1..(n - 1) : c.edges[j].to = c.edges[j + 1].from
      /\ c.edges[1].from = c.anchor /\ c.edges[n].to = c.anchor
  BY DEF Cycle
<1>6. s # << >> <=> m # 0
  BY <1>4
<1> HIDE DEF s, m
<1>7. \A j \in 1..m : Admissible(s[j]) /\ s[j].to # c.edges[k].to
  <2> TAKE j \in 1..m
  <2>1. s[j] = c.edges[k + j] /\ k + j \in 1..n /\ k + j # k
    BY <1>2, <1>4
  <2>2. \A x, y \in 1..n : x # y => c.edges[x].to # c.edges[y].to
    BY <1>5, Zenon
  <2>3. \A x \in 1..n : Admissible(c.edges[x])
    BY <1>5, Zenon
  <2> QED
    BY <2>1, <2>2, <2>3, Zenon
<1>8. \A i, j \in 1..m : i # j => s[i].to # s[j].to
  <2> TAKE i, j \in 1..m
  <2>1. s[i] = c.edges[k + i] /\ s[j] = c.edges[k + j] /\ k + i \in 1..n /\ k + j \in 1..n
    BY <1>2, <1>4
  <2>2. i # j => k + i # k + j
    BY <1>2
  <2>3. \A x, y \in 1..n : x # y => c.edges[x].to # c.edges[y].to
    BY <1>5, Zenon
  <2> QED
    BY <2>1, <2>2, <2>3, Zenon
<1>9. \A j \in 1..(m - 1) : s[j].to = s[j + 1].from
  <2> TAKE j \in 1..(m - 1)
  <2>1. s[j] = c.edges[k + j] /\ s[j + 1] = c.edges[(k + j) + 1]
    BY <1>2, <1>4
  <2>2. k + j \in 1..(n - 1)
    BY <1>2
  <2>3. \A i \in 1..(n - 1) : c.edges[i].to = c.edges[i + 1].from
    BY <1>5, Zenon
  <2>4. c.edges[k + j].to = c.edges[(k + j) + 1].from
    BY <2>2, <2>3, Zenon
  <2> QED
    BY <2>1, <2>4
<1>10. s # << >> => s[1].from = c.edges[k].to
  BY <1>2, <1>4, <1>6 DEF Cycle
<1>11. Walk(c.edges[k].to, s)
  BY <1>4, <1>7, <1>8, <1>9, <1>10 DEF Walk
<1>12. IF s = << >> THEN c.edges[k].to = c.anchor ELSE s[m].to = c.anchor
  BY <1>1, <1>2, <1>4, <1>6 DEF Cycle
<1> QED
  BY <1>4, <1>11, <1>12 DEF s, m

\* The two have only the anchor in common.
LEMMA PartsAreApart ==
    ASSUME NEW c, NEW n, Cycle(c, n), NEW k \in 1..n,
           NEW p \in Paths(c.anchor), p.edges = EdgesBefore(c, k),
           NEW s \in Paths(c.edges[k].to), s.edges = EdgesAfter(c, k)
    PROVE  SimpleCycle(c.anchor, p, s)
<1>1. /\ p.tokens = {c.anchor} \union {EdgesBefore(c, k)[j].to : j \in 1..Len(EdgesBefore(c, k))}
      /\ s.tokens = {c.edges[k].to} \union {EdgesAfter(c, k)[j].to : j \in 1..Len(EdgesAfter(c, k))}
  BY DEF Paths, IsPathFrom
<1>2. n \in Nat /\ k \in Nat
  BY DEF Cycle
<1>3. p.tokens = {c.anchor} \union {c.edges[j].to : j \in 1..(k - 1)}
  BY <1>1, BeforeIs
<1>4. s.tokens = {c.edges[j].to : j \in k..n}
  <2>1. s.tokens = {c.edges[k].to} \union {c.edges[k + j].to : j \in 1..(n - k)}
    <3>1. Len(EdgesAfter(c, k)) = n - k /\ \A j \in 1..(n - k) : EdgesAfter(c, k)[j] = c.edges[k + j]
      BY AfterIs
    <3>2. {EdgesAfter(c, k)[j].to : j \in 1..(n - k)} = {c.edges[k + j].to : j \in 1..(n - k)}
      BY <3>1
    <3> QED
      BY <1>1, <3>1, <3>2
  <2>2. \A j \in k..n : j = k \/ (j - k \in 1..(n - k) /\ k + (j - k) = j)
    BY <1>2
  <2>3. k \in k..n /\ \A j \in 1..(n - k) : k + j \in k..n
    BY <1>2
  <2> QED
    BY <2>1, <2>2, <2>3
<1>5. /\ n \in k..n
      /\ \A i \in 1..(k - 1), j \in k..n : i \in 1..n /\ j \in 1..n /\ i # j
  BY <1>2
<1>6. c.anchor \in s.tokens
  BY <1>4, <1>5 DEF Cycle
<1>7. \A i \in 1..(k - 1), j \in k..n : c.edges[i].to # c.edges[j].to
  BY <1>5 DEF Cycle
<1> QED
  BY <1>3, <1>4, <1>6, <1>7 DEF SimpleCycle

LEMMA CandidatesHave ==
    ASSUME input \in Inputs, Wide, NEW c, IsRoute(c), IsCandidate(c), NEW k \in 1..Len(c.edges)
    PROVE  c \in CandidatesOf(c.edges[k].from, c.edges[k].to, c.anchor)
<1> DEFINE n == Len(c.edges)
           e == c.edges[k]
<1>1. Cycle(c, n) /\ Materializes(c.anchor, c.edges) /\ Sum(c.edges) < Cutoff
  BY CycleIs DEF IsCandidate
<1>2. /\ c = Candidate(c.anchor, c.edges) /\ c.anchor \in Tokens /\ c.edges \in Seq(Edges)
      /\ n \in 2..MaxHops /\ n \in Nat /\ e \in Edges /\ Admissible(e)
  BY <1>1 DEF Cycle
<1>3. MaxHops \in Nat
  BY SearchAssumption, Zenon
<1>4. e.from \in Tokens /\ e.to \in Tokens /\ e.w \in Int
  BY <1>2, EdgesAreFinite DEF IsEdge
<1>5. MaxHops >= 1 /\ k - 1 <= MaxHops - 1 /\ n - k <= MaxHops - 1
  BY <1>2, <1>3
<1>6. PICK p \in TopPaths(c.anchor, e.from) : p.edges = EdgesBefore(c, k)
  <2>1. /\ Walk(c.anchor, EdgesBefore(c, k)) /\ Len(EdgesBefore(c, k)) = k - 1
        /\ IF EdgesBefore(c, k) = << >> THEN c.anchor = e.from
           ELSE EdgesBefore(c, k)[Len(EdgesBefore(c, k))].to = e.from
    BY <1>1, BeforeIs
  <2> QED
    BY <1>2, <1>5, <2>1, TopPathsHave
<1>7. PICK s \in TopPaths(e.to, c.anchor) : s.edges = EdgesAfter(c, k)
  <2>1. /\ Walk(e.to, EdgesAfter(c, k)) /\ Len(EdgesAfter(c, k)) = n - k
        /\ IF EdgesAfter(c, k) = << >> THEN e.to = c.anchor
           ELSE EdgesAfter(c, k)[Len(EdgesAfter(c, k))].to = c.anchor
    BY <1>1, AfterIs
  <2> QED
    BY <1>4, <1>5, <2>1, TopPathsHave
<1>8. p \in Paths(c.anchor) /\ s \in Paths(e.to)
  BY <1>2, <1>4, <1>5, <1>6, <1>7, TopPathsAre
<1>9. SimpleCycle(c.anchor, p, s)
  BY <1>1, <1>6, <1>7, <1>8, PartsAreApart
<1>10. e \in PairEdges(e.from, e.to)
  BY <1>2, AdmissibleAreTaken
<1> DEFINE q == (p.edges \o <<e>>) \o s.edges
<1>11. Len(p.edges) = k - 1 /\ Len(s.edges) = n - k
  <2>1. Len(EdgesBefore(c, k)) = k - 1
    BY <1>1, BeforeIs
  <2>2. Len(EdgesAfter(c, k)) = n - k
    BY <1>1, AfterIs
  <2> QED
    BY <1>6, <1>7, <2>1, <2>2, Zenon
<1>12. p.edges \in Seq(Edges) /\ s.edges \in Seq(Edges) /\ p.score = Sum(p.edges) /\ s.score = Sum(s.edges)
  BY <1>8 DEF Paths, IsPathFrom
<1>13. c.edges = q
  <2>1. Joined(Edges, p.edges, e, s.edges, q)
    <3>1. Joins(Edges, p.edges, e, s.edges, q)
      BY <1>2, <1>12 DEF Joins
    <3> QED
      BY <3>1, JoinIs
  <2> HIDE DEF q, n, e
  <2>2. q \in Seq(Edges) /\ Len(q) = n
    <3>1. q \in Seq(Edges) /\ Len(q) = (k - 1) + 1 + (n - k)
      BY <1>11, <2>1 DEF Joined
    <3> QED
      BY <1>2, <3>1 DEF n
  <2>3. \A j \in 1..n : q[j] = c.edges[j]
    <3> TAKE j \in 1..n
    <3>1. CASE j \in 1..(k - 1)
      <4>1. q[j] = p.edges[j]
        BY <1>11, <2>1, <3>1 DEF Joined
      <4> QED
        BY <1>1, <1>6, <3>1, <4>1, BeforeIs DEF n
    <3>2. CASE j = k
      <4>1. (k - 1) + 1 = k
        BY <1>2
      <4>2. q[k] = e
        BY <1>11, <2>1, <4>1 DEF Joined
      <4> QED
        BY <3>2, <4>2 DEF e
    <3>3. CASE j > k
      <4>1. j - k \in 1..(n - k) /\ ((k - 1) + 1) + (j - k) = j /\ k + (j - k) = j
        BY <1>2, <3>3 DEF n
      <4>2. q[j] = s.edges[j - k]
        BY <1>11, <2>1, <4>1 DEF Joined
      <4>3. s.edges[j - k] = c.edges[j]
        BY <1>1, <1>7, <4>1, AfterIs DEF n
      <4> QED
        BY <4>2, <4>3
    <3>4. j \in 1..(k - 1) \/ j = k \/ j > k
      BY <1>2 DEF n
    <3> QED
      BY <3>1, <3>2, <3>3, <3>4
  <2>4. c.edges = [j \in 1..n |-> c.edges[j]] /\ q = [j \in 1..n |-> q[j]]
    BY <1>2, <2>2 DEF n
  <2>5. [j \in 1..n |-> q[j]] = [j \in 1..n |-> c.edges[j]]
    BY <2>3, Zenon
  <2> QED
    BY <2>4, <2>5, Zenon
<1>14. p.score + e.w + s.score < Cutoff
  <2>1. \A f \in Edges : f.w \in Int
    BY EdgesAreFinite DEF IsEdge
  <2>2. <<e>> \in Seq(Edges) /\ p.edges \o <<e>> \in Seq(Edges)
    BY <1>2, <1>12
  <2>3. Sum(p.edges \o <<e>>) = Sum(p.edges) + Sum(<<e>>)
    BY <1>12, <2>1, <2>2, SumOf
  <2>4. Sum(q) = Sum(p.edges \o <<e>>) + Sum(s.edges)
    BY <1>12, <2>1, <2>2, SumOf
  <2>5. Sum(<<e>>) = e.w
    BY <1>4, SumOfOne
  <2> QED
    BY <1>1, <1>12, <1>13, <2>3, <2>4, <2>5
<1>15. Len(p.edges) + 1 + Len(s.edges) \in 2..MaxHops
  BY <1>2, <1>11
<1>16. c \in Routes(e.from, e.to, c.anchor)
  <2> DEFINE r == <<p, e, s>>
  <2>1. r \in TopPaths(c.anchor, e.from) \X PairEdges(e.from, e.to) \X TopPaths(e.to, c.anchor)
    BY <1>6, <1>7, <1>10
  <2>2. r[1] = p /\ r[2] = e /\ r[3] = s
    OBVIOUS
  <2>3. c = Candidate(c.anchor, (r[1].edges \o <<r[2]>>) \o r[3].edges)
    BY <1>2, <1>13
  <2> HIDE DEF r, q, e
  <2> QED
    BY <1>9, <1>14, <1>15, <2>1, <2>2, <2>3 DEF Routes
<1> QED
  BY <1>1, <1>16 DEF CandidatesOf

-----------------------------------------------------------------------------
(* No pair of such a cycle is left out *)

\* What the distance cache finds round by round
LEMMA ReachExists ==
    ASSUME input \in Inputs, NEW F \in [SUBSET Tokens -> SUBSET Tokens]
    PROVE  \E g : /\ g = [n \in 0..Cardinality(Tokens) |-> IF n = 0 THEN input.anchors ELSE F[g[n - 1]]]
                  /\ g[0] = input.anchors
                  /\ \A n \in 1..Cardinality(Tokens) : g[n] = F[g[n - 1]]
                  /\ \A n \in 0..Cardinality(Tokens) : g[n] \in SUBSET Tokens
<1> DEFINE N == Cardinality(Tokens)
           X == SUBSET Tokens
           G == [i \in 1..N |-> F]
<1>1. N \in Nat
  <2>1. IsFiniteSet(Tokens)
    BY SearchAssumption, Zenon
  <2> QED
    BY <2>1, FS_CardinalityType
<1>2. Rounds(X, input.anchors, N, G)
  <2>1. input.anchors \in X
    BY InputIs
  <2> HIDE DEF X, N
  <2>2. G \in [1..N -> [X -> X]]
    BY DEF X
  <2> QED
    BY <1>1, <2>1, <2>2 DEF Rounds
<1>3. \A i \in 1..N : G[i] = F
  OBVIOUS
<1> HIDE DEF N, X, G
<1>4. PICK g : Values(X, input.anchors, N, G, g)
  BY <1>2, LoopExists
<1>5. g \in [0..N -> X] /\ g[0] = input.anchors /\ \A i \in 1..N : g[i] = F[g[i - 1]]
  BY <1>3, <1>4 DEF Values
<1>6. \A i \in 0..N : g[i] = IF i = 0 THEN input.anchors ELSE F[g[i - 1]]
  <2>1. \A i \in 0..N : i = 0 \/ i \in 1..N
    BY <1>1
  <2> QED
    BY <1>5, <2>1
<1>7. g = [i \in 0..N |-> g[i]]
  BY <1>5
<1>8. g = [i \in 0..N |-> IF i = 0 THEN input.anchors ELSE F[g[i - 1]]]
  BY <1>6, <1>7, Zenon
<1> QED
  BY <1>5, <1>8 DEF N, X

LEMMA StepIs ==
    ASSUME input \in Inputs, NEW S \in SUBSET Tokens
    PROVE  /\ Step(S, From, To) = S \union {e.to : e \in {f \in Edges : f.from \in S}}
           /\ Step(S, To, From) = S \union {e.from : e \in {f \in Edges : f.to \in S}}
           /\ Step(S, From, To) \in SUBSET Tokens /\ Step(S, To, From) \in SUBSET Tokens
<1>1. \A e \in Edges : e.from \in Tokens /\ e.to \in Tokens
  BY EdgesAreFinite DEF IsEdge
<1>2. /\ Step(S, From, To) = S \union {e.to : e \in {f \in Edges : f.from \in S}}
      /\ Step(S, To, From) = S \union {e.from : e \in {f \in Edges : f.to \in S}}
  BY DEF Step, From, To
<1> QED
  BY <1>1, <1>2

\* An anchor reaches every token of its cycles.
LEMMA CycleIsReached ==
    ASSUME input \in Inputs, NEW c, NEW n, Cycle(c, n), c.anchor \in input.anchors, n <= Cardinality(Tokens)
    PROVE  \A k \in 1..n : c.edges[k].from \in ReachableFromAnchor
<1> DEFINE N == Cardinality(Tokens)
           F == [S \in SUBSET Tokens |-> Step(S, From, To)]
           reach[i \in 0..N] == IF i = 0 THEN input.anchors ELSE Step(reach[i - 1], From, To)
<1>1. N \in Nat /\ n \in Nat
  <2>1. IsFiniteSet(Tokens)
    BY SearchAssumption, Zenon
  <2> QED
    BY <2>1, FS_CardinalityType DEF Cycle
<1>2. ReachableFromAnchor = reach[N]
  BY DEF ReachableFromAnchor
<1>3. F \in [SUBSET Tokens -> SUBSET Tokens] /\ \A S \in SUBSET Tokens : F[S] = Step(S, From, To)
  BY StepIs
<1> HIDE DEF F
<1>4. PICK g : /\ g = [i \in 0..N |-> IF i = 0 THEN input.anchors ELSE F[g[i - 1]]]
               /\ g[0] = input.anchors
               /\ \A i \in 1..N : g[i] = F[g[i - 1]]
               /\ \A i \in 0..N : g[i] \in SUBSET Tokens
  BY <1>3, ReachExists
<1> HIDE DEF N
<1>5. \A i \in 0..N : g[i] = IF i = 0 THEN input.anchors ELSE Step(g[i - 1], From, To)
  <2> TAKE i \in 0..N
  <2>1. i # 0 => i \in 1..N /\ i - 1 \in 0..N
    BY <1>1
  <2> QED
    BY <1>3, <1>4, <2>1
<1>6. g = [i \in 0..N |-> g[i]]
  BY <1>4, Zenon
<1>7. g = [i \in 0..N |-> IF i = 0 THEN input.anchors ELSE Step(g[i - 1], From, To)]
  BY <1>5, <1>6, Zenon
<1>8. reach = [i \in 0..N |-> IF i = 0 THEN input.anchors ELSE Step(reach[i - 1], From, To)]
  BY <1>7, Zenon
<1> HIDE DEF reach
<1>9. \A i \in 0..N : reach[i] = IF i = 0 THEN input.anchors ELSE Step(reach[i - 1], From, To)
  BY <1>8, Zenon
<1> DEFINE Near(i) == reach[i] \in SUBSET Tokens /\ \A k \in 1..n : k <= i + 1 => c.edges[k].from \in reach[i]
           T == {i \in Nat : i <= N => Near(i)}
<1>10. 0 \in T
  <2>1. reach[0] = input.anchors /\ input.anchors \in SUBSET Tokens
    BY <1>1, <1>9, InputIs
  <2>2. \A k \in 1..n : k <= 0 + 1 => k = 1
    OBVIOUS
  <2> QED
    BY <2>1, <2>2 DEF Cycle
<1>11. ASSUME NEW i \in Nat, i \in T PROVE i + 1 \in T
  <2> SUFFICES ASSUME i + 1 <= N PROVE Near(i + 1)
    OBVIOUS
  <2>1. i + 1 \in 0..N /\ i + 1 # 0 /\ (i + 1) - 1 = i
    BY <1>1
  <2>2. Near(i)
    BY <1>1, <1>11
  <2>3. reach[i + 1] = reach[i] \union {e.to : e \in {f \in Edges : f.from \in reach[i]}}
    BY <1>9, <2>1, <2>2, StepIs
  <2>4. reach[i + 1] \in SUBSET Tokens
    BY <1>9, <2>1, <2>2, StepIs
  <2>5. ASSUME NEW k \in 1..n, k <= (i + 1) + 1 PROVE c.edges[k].from \in reach[i + 1]
    <3>1. CASE k <= i + 1
      BY <2>2, <2>3, <3>1
    <3>2. CASE k = (i + 1) + 1
      <4>1. i + 1 \in 1..(n - 1) /\ i + 1 \in 1..n
        BY <1>1, <3>2
      <4>2. c.edges[i + 1].from \in reach[i]
        BY <2>2, <4>1
      <4>3. c.edges[i + 1] \in Edges /\ c.edges[i + 1].to = c.edges[k].from
        BY <3>2, <4>1 DEF Cycle
      <4> QED
        BY <2>3, <4>2, <4>3
    <3> QED
      BY <2>5, <3>1, <3>2
  <2> QED
    BY <2>4, <2>5
<1> HIDE DEF T
<1>12. Nat \subseteq T
  BY <1>10, <1>11, InductiveSet
<1>13. Near(N)
  BY <1>1, <1>12 DEF T
<1>14. \A k \in 1..n : k <= N + 1
  BY <1>1 DEF N
<1> QED
  BY <1>2, <1>13, <1>14

\* And every token of its cycles reaches it.
LEMMA CycleReaches ==
    ASSUME input \in Inputs, NEW c, NEW n, Cycle(c, n), c.anchor \in input.anchors, n <= Cardinality(Tokens)
    PROVE  \A k \in 1..n : c.edges[k].to \in ReachableToAnchor
<1> DEFINE N == Cardinality(Tokens)
           F == [S \in SUBSET Tokens |-> Step(S, To, From)]
           reach[i \in 0..N] == IF i = 0 THEN input.anchors ELSE Step(reach[i - 1], To, From)
<1>1. N \in Nat /\ n \in Nat
  <2>1. IsFiniteSet(Tokens)
    BY SearchAssumption, Zenon
  <2> QED
    BY <2>1, FS_CardinalityType DEF Cycle
<1>2. ReachableToAnchor = reach[N]
  BY DEF ReachableToAnchor
<1>3. F \in [SUBSET Tokens -> SUBSET Tokens] /\ \A S \in SUBSET Tokens : F[S] = Step(S, To, From)
  BY StepIs
<1> HIDE DEF F
<1>4. PICK g : /\ g = [i \in 0..N |-> IF i = 0 THEN input.anchors ELSE F[g[i - 1]]]
               /\ g[0] = input.anchors
               /\ \A i \in 1..N : g[i] = F[g[i - 1]]
               /\ \A i \in 0..N : g[i] \in SUBSET Tokens
  BY <1>3, ReachExists
<1> HIDE DEF N
<1>5. \A i \in 0..N : g[i] = IF i = 0 THEN input.anchors ELSE Step(g[i - 1], To, From)
  <2> TAKE i \in 0..N
  <2>1. i # 0 => i \in 1..N /\ i - 1 \in 0..N
    BY <1>1
  <2> QED
    BY <1>3, <1>4, <2>1
<1>6. g = [i \in 0..N |-> g[i]]
  BY <1>4, Zenon
<1>7. g = [i \in 0..N |-> IF i = 0 THEN input.anchors ELSE Step(g[i - 1], To, From)]
  BY <1>5, <1>6, Zenon
<1>8. reach = [i \in 0..N |-> IF i = 0 THEN input.anchors ELSE Step(reach[i - 1], To, From)]
  BY <1>7, Zenon
<1> HIDE DEF reach
<1>9. \A i \in 0..N : reach[i] = IF i = 0 THEN input.anchors ELSE Step(reach[i - 1], To, From)
  BY <1>8, Zenon
<1> DEFINE Near(i) == reach[i] \in SUBSET Tokens /\ \A k \in 1..n : n - k <= i => c.edges[k].to \in reach[i]
           T == {i \in Nat : i <= N => Near(i)}
<1>10. 0 \in T
  <2>1. reach[0] = input.anchors /\ input.anchors \in SUBSET Tokens
    BY <1>1, <1>9, InputIs
  <2>2. \A k \in 1..n : n - k <= 0 => k = n
    BY <1>1
  <2> QED
    BY <2>1, <2>2 DEF Cycle
<1>11. ASSUME NEW i \in Nat, i \in T PROVE i + 1 \in T
  <2> SUFFICES ASSUME i + 1 <= N PROVE Near(i + 1)
    OBVIOUS
  <2>1. i + 1 \in 0..N /\ i + 1 # 0 /\ (i + 1) - 1 = i
    BY <1>1
  <2>2. Near(i)
    BY <1>1, <1>11
  <2>3. reach[i + 1] = reach[i] \union {e.from : e \in {f \in Edges : f.to \in reach[i]}}
    BY <1>9, <2>1, <2>2, StepIs
  <2>4. reach[i + 1] \in SUBSET Tokens
    BY <1>9, <2>1, <2>2, StepIs
  <2>5. ASSUME NEW k \in 1..n, n - k <= i + 1 PROVE c.edges[k].to \in reach[i + 1]
    <3>1. CASE n - k <= i
      BY <2>2, <2>3, <3>1
    <3>2. CASE n - k = i + 1
      <4>1. k \in 1..(n - 1) /\ k + 1 \in 1..n /\ n - (k + 1) <= i
        BY <1>1, <3>2
      <4>2. c.edges[k + 1].to \in reach[i]
        BY <2>2, <4>1
      <4>3. c.edges[k + 1] \in Edges /\ c.edges[k].to = c.edges[k + 1].from
        BY <4>1 DEF Cycle
      <4> QED
        BY <2>3, <4>2, <4>3
    <3> QED
      BY <1>1, <2>5, <3>1, <3>2
  <2> QED
    BY <2>4, <2>5
<1> HIDE DEF T
<1>12. Nat \subseteq T
  BY <1>10, <1>11, InductiveSet
<1>13. Near(N)
  BY <1>1, <1>12 DEF T
<1>14. \A k \in 1..n : n - k <= N
  BY <1>1 DEF N
<1> QED
  BY <1>2, <1>13, <1>14

LEMMA AllCandidatesAre ==
    ASSUME input \in Inputs, NEW c \in AllCandidates
    PROVE  /\ IsRoute(c) /\ IsCandidate(c)
           /\ c.anchor \in input.anchors /\ Len(c.edges) <= Cardinality(Tokens)
<1> DEFINE E == {e \in Edges : Admissible(e)}
           N == AtMost(MaxHops, Cardinality(Tokens))
<1>1. /\ c \in [anchor: input.anchors, edges: UNION {[1..n -> E] : n \in 2..N}]
      /\ IsCandidate(c)
  BY DEF AllCandidates
<1> HIDE DEF E, N
<1>2. /\ c = [anchor |-> c.anchor, edges |-> c.edges] /\ c.anchor \in input.anchors
      /\ c.edges \in UNION {[1..n -> E] : n \in 2..N}
  BY <1>1
<1>3. PICK n \in 2..N : c.edges \in [1..n -> E]
  BY <1>2
<1>4. MaxHops \in Nat /\ Cardinality(Tokens) \in Nat
  <2>1. IsFiniteSet(Tokens) /\ MaxHops \in Nat
    BY SearchAssumption, Zenon
  <2> QED
    BY <2>1, FS_CardinalityType
<1>5. N \in Nat /\ N <= Cardinality(Tokens)
  BY <1>4 DEF N, AtMost
<1>6. n \in Nat /\ n >= 2 /\ n <= Cardinality(Tokens)
  BY <1>3, <1>4, <1>5
<1>7. c.edges \in Seq(Edges) /\ Len(c.edges) = n
  BY <1>3, <1>6 DEF E
<1>8. c.edges # << >>
  BY <1>6, <1>7
<1>9. c.anchor \in Tokens
  BY <1>2, InputIs
<1>10. IsRoute(c)
  BY <1>2, <1>7, <1>8, <1>9 DEF IsRoute, Candidate
<1> QED
  BY <1>1, <1>2, <1>6, <1>7, <1>10

\* So its anchor is tried with each of its pairs.
LEMMA AnchorIsTried ==
    ASSUME input \in Inputs, NEW c \in AllCandidates, NEW k \in 1..Len(c.edges), NEW e, e = c.edges[k]
    PROVE  /\ e.from \in ReachableFromAnchor /\ e.to \in ReachableToAnchor
           /\ PairEdges(e.from, e.to) # {}
           /\ c.anchor \in input.anchors /\ Participates(c.anchor, e.from, e.to)
<1>1. /\ IsRoute(c) /\ IsCandidate(c)
      /\ c.anchor \in input.anchors /\ Len(c.edges) <= Cardinality(Tokens)
  BY AllCandidatesAre
<1>2. Cycle(c, Len(c.edges))
  BY <1>1, CycleIs
<1>3. e.from \in ReachableFromAnchor /\ e.to \in ReachableToAnchor
  BY <1>1, <1>2, CycleIsReached, CycleReaches
<1>4. e \in Edges /\ Admissible(e) /\ c.edges[1] \in Edges /\ c.edges[1].from = c.anchor
  <2>1. 1 \in 1..Len(c.edges)
    BY <1>2 DEF Cycle
  <2> QED
    BY <1>2, <2>1 DEF Cycle
<1>5. PairEdges(e.from, e.to) # {}
  BY <1>4, AdmissibleAreTaken
<1>6. Participates(c.anchor, e.from, e.to)
  BY <1>4 DEF Participates
<1> QED
  BY <1>1, <1>3, <1>5, <1>6

\* Two cycles over the same pools from the same anchor are the same.
LEMMA SameCycle ==
    ASSUME NEW c, NEW d, NEW m, NEW n, Cycle(c, m), Cycle(d, n), SamePools(c, d), m <= n
    PROVE  c = d
<1>1. /\ m \in Nat /\ n \in Nat /\ m >= 2 /\ n >= 2
      /\ c = Candidate(c.anchor, c.edges) /\ d = Candidate(d.anchor, d.edges) /\ c.anchor = d.anchor
      /\ c.edges \in Seq(Edges) /\ Len(c.edges) = m /\ d.edges \in Seq(Edges) /\ Len(d.edges) = n
      /\ {c.edges[k] : k \in 1..m} = {d.edges[k] : k \in 1..n}
  <2>1. /\ c = Candidate(c.anchor, c.edges) /\ d = Candidate(d.anchor, d.edges)
        /\ c.edges \in Seq(Edges) /\ Len(c.edges) = m /\ d.edges \in Seq(Edges) /\ Len(d.edges) = n
        /\ m \in 2..MaxHops /\ m \in Nat /\ n \in 2..MaxHops /\ n \in Nat
    BY DEF Cycle
  <2>2. c.anchor = d.anchor /\ {c.edges[k] : k \in 1..m} = {d.edges[k] : k \in 1..n}
    BY <2>1, Zenon DEF SamePools
  <2>3. m >= 2 /\ n >= 2
    BY <2>1
  <2> QED
    BY <2>1, <2>2, <2>3, Zenon
<1>2. /\ c.edges[1].from = c.anchor /\ c.edges[m].to = c.anchor
      /\ \A k \in 1..(m - 1) : c.edges[k].to = c.edges[k + 1].from
      /\ d.edges[1].from = c.anchor /\ d.edges[n].to = c.anchor
      /\ \A k \in 1..(n - 1) : d.edges[k].to = d.edges[k + 1].from
      /\ \A j, k \in 1..n : j # k => d.edges[j].to # d.edges[k].to
  BY <1>1 DEF Cycle
<1>3. \A k \in 1..m : \E j \in 1..n : c.edges[k] = d.edges[j]
  <2> TAKE k \in 1..m
  <2>1. c.edges[k] \in {d.edges[j] : j \in 1..n}
    BY <1>1
  <2> QED
    BY <2>1
<1>4. ASSUME NEW j \in 1..n, d.edges[j].from = c.anchor PROVE j = 1
  <2> SUFFICES ASSUME j # 1 PROVE FALSE
    OBVIOUS
  <2>1. j - 1 \in 1..(n - 1) /\ (j - 1) + 1 = j /\ j - 1 \in 1..n /\ n \in 1..n /\ j - 1 # n
    BY <1>1
  <2>2. d.edges[j - 1].to = d.edges[j].from
    BY <1>2, <2>1
  <2> QED
    BY <1>2, <1>4, <2>1, <2>2
<1>5. ASSUME NEW i \in 1..(n - 1), NEW j \in 1..n, d.edges[j].from = d.edges[i].to PROVE j = i + 1
  <2>1. i \in 1..n /\ n \in 1..n /\ i # n
    BY <1>1
  <2>2. j # 1
    BY <1>2, <1>5, <2>1
  <2>3. j - 1 \in 1..(n - 1) /\ (j - 1) + 1 = j /\ j - 1 \in 1..n
    BY <1>1, <2>2
  <2>4. d.edges[j - 1].to = d.edges[j].from
    BY <1>2, <2>3
  <2>5. j - 1 = i
    BY <1>2, <1>5, <2>1, <2>3, <2>4
  <2> QED
    BY <2>3, <2>5
<1> DEFINE T == {i \in Nat : i + 1 <= m => c.edges[i + 1] = d.edges[i + 1]}
<1>6. 0 \in T
  <2>1. 1 \in 1..m
    BY <1>1
  <2>2. PICK j \in 1..n : c.edges[1] = d.edges[j]
    BY <1>3, <2>1
  <2>3. j = 1
    BY <1>2, <1>4, <2>2
  <2> QED
    BY <2>2, <2>3
<1>7. ASSUME NEW i \in Nat, i \in T PROVE i + 1 \in T
  <2> SUFFICES ASSUME (i + 1) + 1 <= m PROVE c.edges[(i + 1) + 1] = d.edges[(i + 1) + 1]
    OBVIOUS
  <2>1. i + 1 \in 1..(m - 1) /\ i + 1 \in 1..(n - 1) /\ (i + 1) + 1 \in 1..m
    BY <1>1
  <2>2. c.edges[i + 1] = d.edges[i + 1]
    <3>1. i + 1 <= m
      BY <1>1
    <3> QED
      BY <1>7, <3>1
  <2>3. PICK j \in 1..n : c.edges[(i + 1) + 1] = d.edges[j]
    BY <1>3, <2>1
  <2>4. d.edges[j].from = d.edges[i + 1].to
    BY <1>2, <2>1, <2>2, <2>3
  <2>5. j = (i + 1) + 1
    BY <1>5, <2>1, <2>4
  <2> QED
    BY <2>3, <2>5
<1> HIDE DEF T
<1>8. Nat \subseteq T
  BY <1>6, <1>7, InductiveSet
<1>9. \A k \in 1..m : c.edges[k] = d.edges[k]
  <2> TAKE k \in 1..m
  <2>1. k - 1 \in Nat /\ (k - 1) + 1 = k /\ k <= m
    BY <1>1
  <2> QED
    BY <1>8, <2>1 DEF T
<1>10. m = n
  <2> SUFFICES ASSUME m # n PROVE FALSE
    OBVIOUS
  <2>1. m \in 1..m /\ m \in 1..n /\ n \in 1..n
    BY <1>1
  <2> QED
    BY <1>2, <1>9, <2>1
<1>11. c.edges = [k \in 1..m |-> c.edges[k]] /\ d.edges = [k \in 1..n |-> d.edges[k]]
  BY <1>1
<1>12. c.edges = d.edges
  BY <1>9, <1>10, <1>11
<1> QED
  BY <1>1, <1>12

LEMMA SamePoolsAreSame ==
    ASSUME input \in Inputs, NEW c, NEW d, IsRoute(c), IsCandidate(c), IsRoute(d), IsCandidate(d),
           SamePools(c, d)
    PROVE  c = d
<1> DEFINE m == Len(c.edges)
           n == Len(d.edges)
<1>1. Cycle(c, m) /\ Cycle(d, n) /\ SamePools(d, c)
  BY CycleIs, SamePoolsIs
<1>2. m \in Nat /\ n \in Nat
  BY <1>1 DEF Cycle
<1> HIDE DEF m, n
<1>3. m <= n \/ n <= m
  BY <1>2
<1> QED
  BY <1>1, <1>3, SameCycle

-----------------------------------------------------------------------------
(* What is kept stands for all that was found *)

\* K has c, or as many of its token path as are kept that are at least as good.
NoWorse(c, K) == {d \in K : TokenPath(d) = TokenPath(c) /\ ~ CandidateBefore(c, d)}
Covered(c, K) ==
    \/ c \in K
    \/ input.tuning.dedup /\ Cardinality(NoWorse(c, K)) >= input.tuning.variants

\* Of a set of one token path, its best cover what it covers.
LEMMA BestCovers ==
    ASSUME input \in Inputs, NEW c, IsRoute(c), NEW G, IsFiniteSet(G),
           \A d \in G : IsRoute(d) /\ TokenPath(d) = TokenPath(c),
           input.tuning.dedup, Covered(c, G)
    PROVE  Covered(c, Best(G, input.tuning.variants, CandidateBefore))
<1> DEFINE k == input.tuning.variants
           B == Best(G, k, CandidateBefore)
<1>1. k \in Nat
  BY InputIs
<1>2. (\A d \in G : IsRanked(d)) /\ IsRanked(c)
  BY RoutesAreRanked
<1> HIDE DEF k
<1>3. /\ B \subseteq G
      /\ \/ B = G
         \/ Cardinality(B) = k /\ \A e \in B, f \in G \ B : ~ CandidateBefore(f, e)
  BY <1>1, <1>2, BestCandidates
<1> HIDE DEF B
<1>4. CASE B = G
  BY <1>4 DEF B, k
<1>5. CASE Cardinality(B) = k /\ \A e \in B, f \in G \ B : ~ CandidateBefore(f, e)
  <2> SUFFICES ASSUME c \notin B PROVE Cardinality(NoWorse(c, B)) >= k
    BY DEF Covered, B, k
  <2>1. IsFiniteSet(B) /\ IsFiniteSet(NoWorse(c, B)) /\ Cardinality(NoWorse(c, B)) \in Nat
    BY <1>3, FS_Subset, FS_CardinalityType DEF NoWorse
  <2>2. CASE \A d \in B : ~ CandidateBefore(c, d)
    <3>1. NoWorse(c, B) = B
      BY <1>3, <2>2 DEF NoWorse
    <3> QED
      BY <1>1, <1>5, <3>1
  <2>3. CASE \E d \in B : CandidateBefore(c, d)
    <3>1. PICK d \in B : CandidateBefore(c, d)
      BY <2>3
    <3>2. c \notin G
      BY <1>5, <3>1
    <3>3. Cardinality(NoWorse(c, G)) >= k
      BY <3>2 DEF Covered, k
    <3>4. ASSUME NEW w \in NoWorse(c, G) PROVE w \in B
      <4>1. w \in G /\ ~ CandidateBefore(c, w)
        BY DEF NoWorse
      <4> SUFFICES ASSUME w \notin B PROVE FALSE
        OBVIOUS
      <4>2. ~ CandidateBefore(w, d)
        BY <1>5, <4>1
      <4>3. IsRanked(c) /\ IsRanked(w) /\ IsRanked(d)
        BY <1>2, <1>3, <4>1
      <4> QED
        BY <3>1, <4>1, <4>2, <4>3 DEF CandidateBefore, IsRanked
    <3>5. NoWorse(c, G) = NoWorse(c, B)
      BY <1>3, <3>4 DEF NoWorse
    <3> QED
      BY <3>3, <3>5
  <2> QED
    BY <2>2, <2>3
<1> QED
  BY <1>3, <1>4, <1>5

\* More candidates cover no less.
LEMMA CoveredByMore ==
    ASSUME input \in Inputs, NEW c, NEW K, NEW L, IsFiniteSet(L), K \subseteq L, Covered(c, K)
    PROVE  Covered(c, L)
<1>1. NoWorse(c, K) \in SUBSET NoWorse(c, L) /\ IsFiniteSet(NoWorse(c, L))
  BY FS_Subset DEF NoWorse
<1>2. Cardinality(NoWorse(c, K)) <= Cardinality(NoWorse(c, L))
  BY <1>1, FS_Subset
<1>3. Cardinality(NoWorse(c, K)) \in Nat /\ Cardinality(NoWorse(c, L)) \in Nat
  BY <1>1, FS_Subset, FS_CardinalityType
<1>4. input.tuning.variants \in Nat
  BY InputIs
<1>5. CASE c \in K
  BY <1>5 DEF Covered
<1>6. CASE c \notin K
  <2>1. input.tuning.dedup /\ Cardinality(NoWorse(c, K)) >= input.tuning.variants
    BY <1>6 DEF Covered
  <2>2. Cardinality(NoWorse(c, L)) >= input.tuning.variants
    BY <1>2, <1>3, <1>4, <2>1
  <2> QED
    BY <2>1, <2>2 DEF Covered
<1> QED
  BY <1>5, <1>6

\* What is inserted covers what was kept and what was found.
LEMMA InsertedCovers ==
    ASSUME input \in Inputs, NEW S, IsFiniteSet(S), IsFiniteSet(kept),
           \A d \in kept \union S : IsRoute(d),
           NEW c, IsRoute(c), Covered(c, kept \union S)
    PROVE  Covered(c, Inserted(S))
<1> DEFINE U == kept \union S
           G == {d \in U : TokenPath(d) = TokenPath(c)}
           B == Best(G, input.tuning.variants, CandidateBefore)
<1>1. CASE ~ input.tuning.dedup
  BY <1>1 DEF Inserted
<1>2. CASE input.tuning.dedup
  <2>1. IsFiniteSet(U) /\ IsFiniteSet(G) /\ \A d \in G : IsRoute(d) /\ TokenPath(d) = TokenPath(c)
    BY FS_Union, FS_Subset
  <2>2. Covered(c, G)
    <3>1. NoWorse(c, G) = NoWorse(c, U)
      BY DEF NoWorse
    <3> QED
      BY <3>1 DEF Covered
  <2>3. Inserted(S) = UNION {Best({d \in U : TokenPath(d) = key}, input.tuning.variants, CandidateBefore) :
                               key \in {TokenPath(d) : d \in U}}
    BY <1>2 DEF Inserted
  <2>4. IsFiniteSet(Inserted(S))
    BY InsertedAre
  <2>5. Covered(c, B)
    <3> HIDE DEF G
    <3> QED
      BY <1>2, <2>1, <2>2, BestCovers
  <2>6. B \subseteq Inserted(S)
    <3>1. CASE \E d \in U : TokenPath(d) = TokenPath(c)
      <4>1. TokenPath(c) \in {TokenPath(d) : d \in U}
        BY <3>1
      <4> QED
        BY <2>3, <4>1
    <3>2. CASE ~ \E d \in U : TokenPath(d) = TokenPath(c)
      <4>1. G = {}
        BY <3>2
      <4> HIDE DEF G
      <4>2. B = {}
        <5>1. Cardinality({}) = 0 /\ input.tuning.variants \in Nat
          BY FS_EmptySet, InputIs
        <5> QED
          BY <4>1, <5>1 DEF Best
      <4> QED
        BY <4>2
    <3> QED
      BY <3>1, <3>2
  <2> HIDE DEF B, G
  <2> QED
    BY <2>4, <2>5, <2>6, CoveredByMore
<1> QED
  BY <1>1, <1>2

-----------------------------------------------------------------------------
(* The invariant *)

\* A cycle that is still ahead of the search: a pair of it is to be searched, or is
\* being searched and its anchor is to be tried.
Ahead(c) ==
    \/ \E e \in pending, k \in 1..Len(c.edges) : e.from = c.edges[k].from /\ e.to = c.edges[k].to
    \/ /\ c.anchor \in anchors
       /\ \E k \in 1..Len(c.edges) : pair = <<c.edges[k].from, c.edges[k].to>>

AllCovered == \A c \in AllCandidates : Covered(c, kept)

\* What the search has passed is covered, unless it ran out of its budget.
PassedInv ==
    Wide => /\ pc = "pairs" => \A c \in AllCandidates : Ahead(c) \/ Covered(c, kept)
            /\ pc # "pairs" => Cardinality(kept) = Budget \/ AllCovered

\* The second pass leaves out nothing that is kept, unless the selection is full.
FillInv ==
    /\ pc = "fill" => kept \ left \subseteq Selected
    /\ pc = "done" /\ input.tuning.fill => Full \/ kept \subseteq Selected

CoverInv == DetectorInv /\ PassedInv /\ FillInv

LEMMA SameCandidates ==
    ASSUME input' = input
    PROVE  /\ AllCandidates' = AllCandidates /\ Wide' = Wide
           /\ \A c : (kept' = kept => (Covered(c, kept)' <=> Covered(c, kept)))
<1>1. Edges' = Edges
  BY DEF Edges
<1>2. \A e : Admissible(e)' <=> Admissible(e)
  BY <1>1 DEF Admissible
<1>3. AllCandidates' = AllCandidates
  <2>1. \A c : IsCandidate(c)' <=> IsCandidate(c)
    BY SameInput
  <2> QED
    BY <1>1, <1>2, <2>1 DEF AllCandidates
<1>4. \A t : SimplePaths(t)' = SimplePaths(t)
  BY <1>1, <1>2 DEF SimplePaths
<1>5. Wide' = Wide
  BY <1>1, <1>2, <1>4 DEF Wide
<1>6. \A c : (kept' = kept => (Covered(c, kept)' <=> Covered(c, kept)))
  BY DEF Covered, NoWorse, CandidateBefore, Potential, Capacity
<1> QED
  BY <1>3, <1>5, <1>6

\* At first every cycle is ahead: each has a pair that has changed.
LEMMA CoverInit == Init => CoverInv
<1> SUFFICES ASSUME Init PROVE CoverInv
  OBVIOUS
<1>1. DetectorInv /\ input \in Inputs /\ pc = "pairs"
  BY DetectorInit DEF Init
<1>2. ASSUME NEW c \in AllCandidates PROVE Ahead(c)
  <2>1. IsRoute(c) /\ IsCandidate(c)
    BY <1>1, AllCandidatesAre
  <2>2. Cycle(c, Len(c.edges)) /\ TouchesChange(c)
    BY <1>1, <2>1, CycleIs DEF IsCandidate
  <2>3. pending = ChangedPairs
    <3>1. MaxHops \in Nat
      BY SearchAssumption, Zenon
    <3>2. ~ (MaxHops < 2)
      BY <2>2, <3>1 DEF Cycle
    <3> QED
      BY <3>2 DEF Init
  <2>4. PICK k \in 1..Len(c.edges), p \in input.changed :
           <<c.edges[k].from, c.edges[k].to>> \in {<<p.a, p.b>>, <<p.b, p.a>>}
    BY <2>2 DEF TouchesChange
  <2> DEFINE q == <<c.edges[k].from, c.edges[k].to>>
             S == {e \in ChangedEdges : <<e.from, e.to>> = q}
             f == First(S, EdgeBefore)
  <2>5. PICK e \in EdgesOf(p) : <<e.from, e.to>> = q
    <3>1. \E e \in EdgesOf(p) : e.from = p.a /\ e.to = p.b
      BY DEF EdgesOf, Edge
    <3>2. \E e \in EdgesOf(p) : e.from = p.b /\ e.to = p.a
      BY DEF EdgesOf, Edge
    <3> QED
      BY <2>4, <3>1, <3>2
  <2>6. e \in ChangedEdges
    BY DEF ChangedEdges
  <2>7. S # {} /\ IsFiniteSet(S) /\ \A d \in S : IsEdge(d)
    BY <1>1, <2>5, <2>6, ChangedEdgesAre, FS_Subset
  <2>8. f \in S
    <3> HIDE DEF S
    <3> QED
      BY <2>7, FirstEdge
  <2>9. f \in ChangedPairs
    <3>1. ChangedPairs = {First({d \in ChangedEdges : <<d.from, d.to>> = r}, EdgeBefore) :
                             r \in {<<d.from, d.to>> : d \in ChangedEdges}}
      BY DEF ChangedPairs, ChangedEdges
    <3>2. q \in {<<d.from, d.to>> : d \in ChangedEdges}
      BY <2>5, <2>6
    <3> HIDE DEF q
    <3> QED
      BY <3>1, <3>2
  <2>10. f.from = c.edges[k].from /\ f.to = c.edges[k].to
    <3>1. <<f.from, f.to>> = q
      BY <2>8
    <3> HIDE DEF f
    <3> QED
      BY <3>1
  <2> HIDE DEF f
  <2> QED
    BY <2>3, <2>9, <2>10 DEF Ahead
<1> QED
  BY <1>1, <1>2 DEF CoverInv, PassedInv, FillInv

\* The pair that is taken is searched with every anchor that a cycle through it has.
LEMMA TakePairCovers ==
    ASSUME CoverInv, TakePair
    PROVE  CoverInv'
<1> DEFINE e == First(pending, PairBefore)
<1>1. DetectorInv /\ PassedInv /\ DetectorInv' /\ input' = input /\ input \in Inputs /\ kept' = kept
  BY TakePairKeeps DEF CoverInv, DetectorInv, SearchInv, TakePair
<1>2. pc = "pairs" /\ pc' = "pairs" /\ anchors = {}
  BY DEF TakePair
<1>3. /\ pair' = <<e.from, e.to>> /\ pending' = pending \ {e}
      /\ anchors' = IF /\ e.from \in ReachableFromAnchor /\ e.to \in ReachableToAnchor
                       /\ PairEdges(e.from, e.to) # {}
                    THEN {a \in input.anchors : Participates(a, e.from, e.to)}
                    ELSE {}
  BY DEF TakePair
<1> HIDE DEF e
<1>4. PassedInv'
  <2> SUFFICES ASSUME Wide, NEW c \in AllCandidates PROVE Ahead(c)' \/ Covered(c, kept)'
    BY <1>1, <1>2, SameCandidates DEF PassedInv
  <2>1. Ahead(c) \/ Covered(c, kept)
    BY <1>1, <1>2 DEF PassedInv
  <2>2. CASE Covered(c, kept)
    BY <1>1, <2>2, SameCandidates
  <2>3. CASE Ahead(c)
    <3>1. PICK d \in pending, k \in 1..Len(c.edges) : d.from = c.edges[k].from /\ d.to = c.edges[k].to
      BY <1>2, <2>3 DEF Ahead
    <3>2. CASE d # e
      BY <1>3, <3>1, <3>2 DEF Ahead
    <3>3. CASE d = e
      <4> DEFINE x == c.edges[k]
      <4>1. /\ x.from \in ReachableFromAnchor /\ x.to \in ReachableToAnchor
            /\ PairEdges(x.from, x.to) # {}
            /\ c.anchor \in input.anchors /\ Participates(c.anchor, x.from, x.to)
        BY <1>1, AnchorIsTried
      <4>2. e.from = x.from /\ e.to = x.to
        BY <3>1, <3>3
      <4> HIDE DEF x
      <4>3. c.anchor \in anchors' /\ pair' = <<x.from, x.to>>
        BY <1>3, <4>1, <4>2
      <4> QED
        BY <4>3 DEF Ahead, x
    <3> QED
      BY <3>2, <3>3
  <2> QED
    BY <2>1, <2>2, <2>3
<1>5. FillInv'
  BY <1>2 DEF FillInv
<1> QED
  BY <1>1, <1>4, <1>5 DEF CoverInv

\* An anchor is done with once its cycles through the pair are kept or covered.
LEMMA TryAnchorCovers ==
    ASSUME CoverInv, TryAnchor
    PROVE  CoverInv'
<1> DEFINE anchor == Min(anchors)
           all == CandidatesOf(pair[1], pair[2], anchor)
<1>1. DetectorInv /\ PassedInv /\ DetectorInv' /\ input' = input /\ input \in Inputs
  BY TryAnchorKeeps DEF CoverInv, DetectorInv, SearchInv, TryAnchor
<1>2. /\ pc = "pairs" /\ anchors # {} /\ pending' = pending /\ pair' = pair /\ anchors' = anchors \ {anchor}
      /\ \/ pc' = "select" /\ Cardinality(kept') = Budget
         \/ pc' = "pairs" /\ kept' = Inserted(all)
  BY DEF TryAnchor
<1>3. FillInv'
  <2>1. pc' \in {"pairs", "select"}
    BY <1>2
  <2> QED
    BY <2>1 DEF FillInv
<1>4. CASE pc' = "select" /\ Cardinality(kept') = Budget
  <2>1. Budget' = Budget
    BY <1>1, SameInput
  <2>2. PassedInv'
    BY <1>4, <2>1 DEF PassedInv
  <2> QED
    BY <1>1, <1>3, <2>2 DEF CoverInv
<1>5. CASE pc' = "pairs" /\ kept' = Inserted(all)
  <2>1. anchor \in input.anchors
    <3>1. anchors \subseteq input.anchors
      BY <1>1 DEF DetectorInv, SearchInv
    <3>2. IsFiniteSet(Tokens) /\ Tokens \subseteq Nat
      BY SearchAssumption, Zenon
    <3>3. anchors \subseteq Tokens
      BY <1>1, <3>1, InputIs
    <3>4. IsFiniteSet(anchors)
      BY <3>2, <3>3, FS_Subset
    <3>5. anchors \subseteq Int
      BY <3>2, <3>3
    <3>6. anchor \in anchors
      BY <1>2, <3>4, <3>5, MinIs
    <3> QED
      BY <3>1, <3>6
  <2>2. IsChanged(pair[1], pair[2])
    BY <1>1, <1>2 DEF DetectorInv, SearchInv
  <2> HIDE DEF anchor
  <2>3. IsFiniteSet(all) /\ \A d \in all : IsRoute(d)
    BY <1>1, <2>1, <2>2, CandidatesAre
  <2>4. IsFiniteSet(kept) /\ \A d \in kept : IsRoute(d)
    BY <1>1 DEF DetectorInv, KeptInv
  <2>5. \A d \in kept \union all : IsRoute(d)
    BY <2>3, <2>4
  <2>6. PassedInv'
    <3> SUFFICES ASSUME Wide, NEW c \in AllCandidates PROVE Ahead(c)' \/ Covered(c, kept)'
      BY <1>1, <1>5, SameCandidates DEF PassedInv
    <3>1. IsRoute(c) /\ IsCandidate(c)
      BY <1>1, AllCandidatesAre
    <3>2. Covered(c, kept') => Covered(c, kept)'
      BY <1>1 DEF Covered, NoWorse, CandidateBefore, Potential, Capacity
    <3>3. ASSUME Covered(c, kept \union all) PROVE Covered(c, kept)'
      <4>1. Covered(c, Inserted(all))
        <5> HIDE DEF all
        <5> QED
          BY <1>1, <2>3, <2>4, <2>5, <3>1, <3>3, InsertedCovers
      <4> QED
        BY <1>5, <3>2, <4>1
    <3>4. Ahead(c) \/ Covered(c, kept)
      BY <1>1, <1>2 DEF PassedInv
    <3>5. CASE Covered(c, kept)
      <4>1. IsFiniteSet(kept \union all)
        BY <2>3, <2>4, FS_Union
      <4>2. Covered(c, kept \union all)
        <5> HIDE DEF all
        <5> QED
          BY <1>1, <3>5, <4>1, CoveredByMore
      <4> QED
        BY <3>3, <4>2
    <3>6. CASE \E e \in pending, k \in 1..Len(c.edges) : e.from = c.edges[k].from /\ e.to = c.edges[k].to
      BY <1>2, <3>6 DEF Ahead
    <3>7. CASE /\ c.anchor \in anchors
               /\ \E k \in 1..Len(c.edges) : pair = <<c.edges[k].from, c.edges[k].to>>
      <4>1. PICK k \in 1..Len(c.edges) : pair = <<c.edges[k].from, c.edges[k].to>>
        BY <3>7
      <4>2. CASE c.anchor # anchor
        BY <1>2, <3>7, <4>2 DEF Ahead
      <4>3. CASE c.anchor = anchor
        <5>1. c \in CandidatesOf(c.edges[k].from, c.edges[k].to, c.anchor)
          BY <1>1, <3>1, CandidatesHave
        <5>2. pair[1] = c.edges[k].from /\ pair[2] = c.edges[k].to
          BY <4>1
        <5>3. c \in all
          BY <4>3, <5>1, <5>2
        <5> HIDE DEF all
        <5> QED
          BY <3>3, <5>3 DEF Covered
      <4> QED
        BY <4>2, <4>3
    <3> QED
      BY <3>4, <3>5, <3>6, <3>7 DEF Ahead
  <2> QED
    BY <1>1, <1>3, <2>6 DEF CoverInv
<1> QED
  BY <1>2, <1>4, <1>5

\* A step of the selection leaves alone what the search has kept.
LEMMA SelectionCovers ==
    ASSUME input' = input, kept' = kept, pc # "pairs", pc' # "pairs", PassedInv
    PROVE  PassedInv'
<1> SUFFICES ASSUME Wide PROVE Cardinality(kept) = Budget' \/ AllCovered'
  BY SameCandidates DEF PassedInv
<1>1. Budget' = Budget
  BY SameInput
<1>2. Cardinality(kept) = Budget \/ AllCovered
  BY DEF PassedInv
<1>3. AllCovered' <=> AllCovered
  BY SameCandidates DEF AllCovered
<1> QED
  BY <1>1, <1>2, <1>3

LEMMA FillNextCovers ==
    ASSUME DetectorInv, FillInv, FillNext
    PROVE  FillInv'
<1>1. PICK c \in left :
         /\ left' = left \ {c}
         /\ selected' = IF FillWants(c) THEN Append(selected, c) ELSE selected
  BY DEF FillNext, NextLeft
<1>2. /\ pc = "fill" /\ pc' = "fill" /\ kept' = kept /\ kept \ left \subseteq Selected
      /\ selected \in Seq(kept) /\ c \in kept /\ input \in Inputs
      /\ \A d \in kept : IsRoute(d) /\ IsCandidate(d)
  BY DEF DetectorInv, SearchInv, KeptInv, SelectedInv, FillInv, FillNext
<1>3. Selected \subseteq Selected' /\ c \in Selected'
  <2>1. CASE FillWants(c)
    <3> DEFINE s == Append(selected, c)
               n == Len(selected)
    <3>1. n \in Nat /\ Len(s) = n + 1 /\ s[n + 1] = c /\ \A k \in 1..n : s[k] = selected[k]
      BY <1>2
    <3>2. selected' = s
      BY <1>1, <2>1
    <3>3. n + 1 \in 1..(n + 1) /\ \A k \in 1..n : k \in 1..(n + 1)
      BY <3>1
    <3>4. Selected' = {s[k] : k \in 1..(n + 1)}
      BY <3>1, <3>2 DEF Selected
    <3>5. Selected = {selected[k] : k \in 1..n}
      BY DEF Selected
    <3> HIDE DEF s, n
    <3> QED
      BY <3>1, <3>3, <3>4, <3>5
  <2>2. CASE ~ FillWants(c)
    <3>1. PICK d \in Selected : SamePools(c, d)
      BY <2>2 DEF FillWants
    <3>2. d \in kept
      BY <1>2, <3>1 DEF Selected
    <3>3. c = d
      BY <1>2, <3>1, <3>2, SamePoolsAreSame
    <3>4. Selected' = Selected
      BY <1>1, <2>2 DEF Selected
    <3> QED
      BY <3>1, <3>3, <3>4
  <2> QED
    BY <2>1, <2>2
<1>4. kept' \ left' \subseteq Selected'
  BY <1>1, <1>2, <1>3
<1> QED
  BY <1>2, <1>4 DEF FillInv

LEMMA CoverNext == CoverInv /\ [Next]_vars => CoverInv'
<1> SUFFICES ASSUME CoverInv, [Next]_vars PROVE CoverInv'
  OBVIOUS
<1>1. DetectorInv /\ PassedInv /\ FillInv /\ DetectorInv'
  BY DetectorNext DEF CoverInv
<1>2. CASE TakePair
  BY <1>2, TakePairCovers
<1>3. CASE TryAnchor
  BY <1>3, TryAnchorCovers
<1>4. CASE SearchDone
  <2>1. /\ input' = input /\ kept' = kept /\ pc = "pairs" /\ pc' = "select" /\ pending = {} /\ anchors = {}
    BY <1>4 DEF SearchDone
  <2>2. Wide => AllCovered
    BY <1>1, <2>1 DEF PassedInv, Ahead, AllCovered
  <2>3. AllCovered' <=> AllCovered
    BY <2>1, SameCandidates DEF AllCovered
  <2>4. PassedInv'
    BY <2>1, <2>2, <2>3, SameCandidates DEF PassedInv
  <2>5. FillInv'
    BY <2>1 DEF FillInv
  <2> QED
    BY <1>1, <2>4, <2>5 DEF CoverInv
<1>5. CASE SelectNext
  <2>1. input' = input /\ kept' = kept /\ pc = "select" /\ pc' = "select"
    BY <1>5 DEF SelectNext
  <2>2. PassedInv' /\ FillInv'
    BY <1>1, <2>1, SelectionCovers DEF FillInv
  <2> QED
    BY <1>1, <2>2 DEF CoverInv
<1>6. CASE StartFill
  <2>1. /\ input' = input /\ kept' = kept /\ selected' = selected /\ pc = "select"
        /\ pc' = IF input.tuning.fill /\ ~ Full THEN "fill" ELSE "done"
        /\ left' = IF pc' = "fill" THEN kept ELSE {}
    BY <1>6 DEF StartFill
  <2>2. PassedInv'
    BY <1>1, <2>1, SelectionCovers
  <2>3. Full' <=> Full
    BY <2>1 DEF Full
  <2>4. FillInv'
    BY <2>1, <2>3 DEF FillInv
  <2> QED
    BY <1>1, <2>2, <2>4 DEF CoverInv
<1>7. CASE FillNext
  <2>1. input' = input /\ kept' = kept /\ pc = "fill" /\ pc' = "fill"
    BY <1>7 DEF FillNext
  <2>2. PassedInv'
    BY <1>1, <2>1, SelectionCovers
  <2> QED
    BY <1>1, <1>7, <2>2, FillNextCovers DEF CoverInv
<1>8. CASE FillDone
  <2>1. /\ input' = input /\ kept' = kept /\ selected' = selected /\ pc = "fill" /\ pc' = "done"
        /\ left = {} \/ Full
    BY <1>8 DEF FillDone
  <2>2. PassedInv'
    BY <1>1, <2>1, SelectionCovers
  <2>3. Full' = Full /\ Selected' = Selected
    BY <2>1 DEF Full, Selected
  <2>4. FillInv'
    BY <1>1, <2>1, <2>3 DEF FillInv
  <2> QED
    BY <1>1, <2>2, <2>4 DEF CoverInv
<1>9. CASE UNCHANGED vars
  <2>1. input' = input /\ kept' = kept /\ pc' = pc /\ selected' = selected /\ left' = left
        /\ pending' = pending /\ anchors' = anchors /\ pair' = pair
    BY <1>9 DEF vars
  <2>2. Budget' = Budget /\ Full' = Full /\ Selected' = Selected /\ \A c : Ahead(c)' <=> Ahead(c)
    BY <2>1, SameInput DEF Full, Selected, Ahead
  <2>3. AllCovered' <=> AllCovered
    BY <2>1, SameCandidates DEF AllCovered
  <2>4. PassedInv'
    BY <1>1, <2>1, <2>2, <2>3, SameCandidates DEF PassedInv
  <2>5. FillInv'
    BY <1>1, <2>1, <2>2 DEF FillInv
  <2> QED
    BY <1>1, <2>4, <2>5 DEF CoverInv
<1> QED
  BY <1>2, <1>3, <1>4, <1>5, <1>6, <1>7, <1>8, <1>9 DEF Next

\* When the whole budget is kept and all of it selected, the selection is full.
LEMMA BudgetFills ==
    ASSUME DetectorInv, Cardinality(kept) = Budget, kept \subseteq Selected
    PROVE  Full
<1> DEFINE n == Len(selected)
           S == {selected[k] : k \in 1..n}
<1>1. input \in Inputs /\ selected \in Seq(kept) /\ IsFiniteSet(kept) /\ n \in Nat
  BY DEF DetectorInv, SearchInv, KeptInv, SelectedInv
<1>2. IsFiniteSet(1..n) /\ Cardinality(1..n) = n
  BY <1>1, FS_Interval
<1>3. kept \in SUBSET S
  BY DEF Selected
<1> HIDE DEF n
<1>4. IsFiniteSet(S) /\ Cardinality(S) <= n
  BY <1>2, ImageFinite, ImageIsNoLarger
<1>5. Cardinality(kept) <= Cardinality(S) /\ Cardinality(S) \in Nat
  BY <1>3, <1>4, FS_Subset, FS_CardinalityType
<1> DEFINE m == input.tuning.max
           k == AtLeast(input.tuning.multiplier, 1)
<1>6. m \in Nat \ {0} /\ input.tuning.multiplier \in Nat
  BY <1>1, InputIs
<1>7. k \in Nat /\ k >= 1
  BY <1>6 DEF AtLeast
<1>8. Budget = m * k
  BY DEF Budget
<1> HIDE DEF S, m, k
<1>9. m * k >= m
  BY <1>6, <1>7
<1>10. n >= m
  BY <1>1, <1>4, <1>5, <1>6, <1>7, <1>8, <1>9
<1> QED
  BY <1>10 DEF Full, n, m

\* The search covers every cycle until its budget is used up, and the second pass
\* leaves out nothing that was kept.
THEOREM CoverInvariant == Spec => []CoverInv
<1> QED
  BY CoverInit, CoverNext, PTL DEF Spec

\* Where the limits of find_top_paths cut nothing off, no profitable cycle through a
\* changed pair is missed: it is selected, or the selection is full, or as many
\* cycles of its token path as are kept are at least as good.
THEOREM NothingMissedHolds == Spec => []NothingMissed
<1>1. CoverInv => NothingMissed
  <2> SUFFICES ASSUME CoverInv, pc = "done", input.tuning.fill, Wide, ~ Full, NEW c \in AllCandidates
               PROVE  \/ c \in Selected
                      \/ /\ input.tuning.dedup
                         /\ Cardinality({d \in kept : TokenPath(d) = TokenPath(c) /\ ~ CandidateBefore(c, d)})
                              >= input.tuning.variants
    BY DEF NothingMissed
  <2>1. kept \subseteq Selected
    BY DEF CoverInv, FillInv
  <2>2. Cardinality(kept) # Budget
    BY <2>1, BudgetFills DEF CoverInv
  <2>3. Covered(c, kept)
    BY <2>2 DEF CoverInv, PassedInv, AllCovered
  <2> QED
    BY <2>1, <2>3 DEF Covered, NoWorse
<1> QED
  BY <1>1, CoverInvariant, PTL

=============================================================================
