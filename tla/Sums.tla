-------------------------------- MODULE Sums --------------------------------
(* Finite sums, as the modules use them: SumFunctionOnSet(f, S) adds up the *)
(* integers f[x] for x in S.                                                *)
EXTENDS FiniteSetsExt, FiniteSetTheorems, WellFoundedInduction, TLAPS

(* The recursion that defines a sum, one table per set of indices.          *)
Pick(T) == CHOOSE x \in T : TRUE
Table(g, f, S) == g = [T \in SUBSET S |->
                          IF T = {} THEN 0 ELSE f[Pick(T)] + g[T \ {Pick(T)}]]
Ints(f, S) == \A x \in S : f[x] \in Int

TheTable(f, S) == CHOOSE g : Table(g, f, S)
HasTable(f, S) == \E g : Table(g, f, S)

LEMMA SumIsTable == \A f, S : SumFunctionOnSet(f, S) = TheTable(f, S)[S]
BY DEF SumFunctionOnSet, FoldFunctionOnSet, MapThenFoldSet, TheTable, Table, Pick

LEMMA TheTableIs == \A f, S : HasTable(f, S) => Table(TheTable(f, S), f, S)
BY DEF HasTable, TheTable

(* Every nonempty set of subsets of a finite set has a smallest element:    *)
(* what takes the place of induction over finite sets below.                *)
LEMMA Smallest ==
    ASSUME NEW S, IsFiniteSet(S), NEW C, C \subseteq SUBSET S, C # {}
    PROVE  \E T \in C : \A U \in C : U \subseteq T => U = T
<1>1. IsWellFoundedOn(StrictSubsetOrdering(S), SUBSET S)
  BY FS_StrictSubsetOrderingWellFounded, FS_FiniteSubsetsOfFinite
<1>2. PICK T \in C : \A U \in C : ~ (<<U, T>> \in StrictSubsetOrdering(S))
  BY <1>1, WFMin
<1> QED
  BY <1>2 DEF StrictSubsetOrdering

LEMMA PickIn == \A T : T # {} => Pick(T) \in T
BY DEF Pick

(* Two tables agree where both are defined, and there is one for each set.  *)
LEMMA TablesAgree ==
    ASSUME NEW f, NEW S, NEW U, IsFiniteSet(S), NEW g, NEW h, Table(g, f, S), Table(h, f, U),
           NEW T, T \subseteq S, T \subseteq U
    PROVE  g[T] = h[T]
<1> DEFINE C == {V \in SUBSET T : g[V] # h[V]}
<1> SUFFICES ASSUME g[T] # h[T] PROVE FALSE
  OBVIOUS
<1>1. C \subseteq SUBSET S /\ C # {}
  OBVIOUS
<1>2. PICK V \in C : \A W \in C : W \subseteq V => W = V
  <2> HIDE DEF C
  <2> QED BY <1>1, Smallest
<1>3. /\ g[V] = IF V = {} THEN 0 ELSE f[Pick(V)] + g[V \ {Pick(V)}]
      /\ h[V] = IF V = {} THEN 0 ELSE f[Pick(V)] + h[V \ {Pick(V)}]
  BY <1>1 DEF Table
<1>4. V # {} /\ Pick(V) \in V
  BY <1>2, <1>3, PickIn
<1>5. g[V \ {Pick(V)}] = h[V \ {Pick(V)}]
  BY <1>2, <1>4
<1> QED
  BY <1>2, <1>3, <1>5

LEMMA TableExists ==
    ASSUME NEW f, NEW S, IsFiniteSet(S)
    PROVE  HasTable(f, S)
<1> DEFINE C == {U \in SUBSET S : ~ HasTable(f, U)}
           G(T) == TheTable(f, T)
<1> SUFFICES ASSUME ~ HasTable(f, S) PROVE FALSE
  OBVIOUS
<1>1. C \subseteq SUBSET S /\ C # {}
  OBVIOUS
<1>2. PICK U \in C : \A W \in C : W \subseteq U => W = U
  <2> HIDE DEF C
  <2> QED BY <1>1, Smallest
<1>3. \A T \in SUBSET U : T # U => Table(G(T), f, T)
  BY <1>2, TheTableIs
<1>4. \A T \in SUBSET U : IsFiniteSet(T)
  BY <1>2, FS_Subset
<1> DEFINE h == [T \in SUBSET U |-> IF T # U THEN G(T)[T]
                     ELSE IF U = {} THEN 0
                     ELSE f[Pick(U)] + G(U \ {Pick(U)})[U \ {Pick(U)}]]
<1>5. ASSUME NEW T \in SUBSET U
      PROVE  h[T] = IF T = {} THEN 0 ELSE f[Pick(T)] + h[T \ {Pick(T)}]
  <2>1. CASE T = {} /\ T # U
    BY <1>3, <2>1 DEF Table
  <2>2. CASE T = {} /\ T = U
    BY <2>2
  <2>3. CASE T # {}
    <3>1. /\ Pick(T) \in T /\ T \ {Pick(T)} # U /\ T \ {Pick(T)} \in SUBSET U
          /\ h[T \ {Pick(T)}] = G(T \ {Pick(T)})[T \ {Pick(T)}]
      BY <2>3, PickIn
    <3>2. CASE T = U
      BY <2>3, <3>1, <3>2
    <3>3. CASE T # U
      <4>1. h[T] = G(T)[T] /\ Table(G(T), f, T) /\ Table(G(T \ {Pick(T)}), f, T \ {Pick(T)})
        BY <1>3, <3>1, <3>3
      <4>2. G(T)[T] = f[Pick(T)] + G(T)[T \ {Pick(T)}]
        BY <2>3, <4>1 DEF Table
      <4>3. G(T)[T \ {Pick(T)}] = G(T \ {Pick(T)})[T \ {Pick(T)}]
        BY <1>4, <4>1, TablesAgree
      <4> QED
        BY <2>3, <3>1, <4>1, <4>2, <4>3
    <3> QED
      BY <3>2, <3>3
  <2> QED
    BY <2>1, <2>2, <2>3
<1>6. Table(h, f, U)
  <2> HIDE DEF h
  <2> h = [T \in SUBSET U |-> h[T]]
    BY DEF h
  <2> QED BY <1>5 DEF Table
<1> QED
  BY <1>2, <1>6 DEF HasTable

(* A sum over no index, and over one index and the rest as the fold takes   *)
(* them.                                                                    *)
LEMMA SumEmpty == ASSUME NEW f PROVE SumFunctionOnSet(f, {}) = 0
<1>1. IsFiniteSet({})
  BY FS_EmptySet
<1> QED
  <2>1. Table(TheTable(f, {}), f, {})
    BY <1>1, TableExists, TheTableIs
  <2> QED
    BY <2>1, SumIsTable DEF Table

LEMMA SumPick ==
    ASSUME NEW f, NEW S, IsFiniteSet(S), S # {}
    PROVE  SumFunctionOnSet(f, S) = f[Pick(S)] + SumFunctionOnSet(f, S \ {Pick(S)})
<1> DEFINE g == TheTable(f, S)
           h == TheTable(f, S \ {Pick(S)})
<1>1. IsFiniteSet(S \ {Pick(S)})
  BY FS_Subset
<1>2. Table(g, f, S) /\ Table(h, f, S \ {Pick(S)})
  BY <1>1, TableExists, TheTableIs
<1>3. SumFunctionOnSet(f, S) = g[S]
      /\ SumFunctionOnSet(f, S \ {Pick(S)}) = h[S \ {Pick(S)}]
  BY SumIsTable
<1>4. g[S \ {Pick(S)}] = h[S \ {Pick(S)}]
  <2> HIDE DEF g, h
  <2> DEFINE R == S \ {Pick(S)}
  <2>1. R \subseteq S /\ R \subseteq R
    OBVIOUS
  <2> HIDE DEF R
  <2>2. Table(g, f, S) /\ Table(h, f, R)
    BY <1>2 DEF R
  <2>3. g[R] = h[R]
    BY <2>1, <2>2, TablesAgree
  <2> QED
    BY <2>3 DEF R
<1>5. g[S] = f[Pick(S)] + g[S \ {Pick(S)}]
  <2> HIDE DEF g, h
  <2> QED BY <1>2 DEF Table
<1> QED
  BY <1>3, <1>4, <1>5

-----------------------------------------------------------------------------
(* What a sum is made of.  Each lemma takes a smallest set that breaks it.  *)
LEMMA SumInt ==
    ASSUME NEW f, NEW S, IsFiniteSet(S), Ints(f, S)
    PROVE  SumFunctionOnSet(f, S) \in Int
<1> DEFINE C == {T \in SUBSET S : SumFunctionOnSet(f, T) \notin Int}
<1> SUFFICES ASSUME C # {} PROVE FALSE
  OBVIOUS
<1>1. PICK T \in C : \A U \in C : U \subseteq T => U = T
  <2>1. C \subseteq SUBSET S
    OBVIOUS
  <2> HIDE DEF C
  <2> QED BY <2>1, Smallest
<1>2. T # {} /\ Pick(T) \in T /\ IsFiniteSet(T)
  <2>1. T # {}
    BY SumEmpty
  <2> QED
    BY <2>1, PickIn, FS_Subset
<1>3. SumFunctionOnSet(f, T \ {Pick(T)}) \in Int
  BY <1>1, <1>2
<1>4. f[Pick(T)] \in Int
  BY <1>2 DEF Ints
<1> QED
  BY <1>2, <1>3, <1>4, SumPick

LEMMA SumRemove ==
    ASSUME NEW f, NEW S, IsFiniteSet(S), Ints(f, S), NEW x \in S
    PROVE  SumFunctionOnSet(f, S) = f[x] + SumFunctionOnSet(f, S \ {x})
<1> DEFINE Takes(T, y) == SumFunctionOnSet(f, T) = f[y] + SumFunctionOnSet(f, T \ {y})
           C == {T \in SUBSET S : \E y \in T : ~ Takes(T, y)}
<1> SUFFICES ASSUME C # {} PROVE FALSE
  OBVIOUS
<1>1. PICK T \in C : \A U \in C : U \subseteq T => U = T
  <2>1. C \subseteq SUBSET S
    OBVIOUS
  <2> HIDE DEF C
  <2> QED BY <2>1, Smallest
<1>2. PICK y \in T : ~ Takes(T, y)
  OBVIOUS
<1> DEFINE p == Pick(T)
           R == (T \ {p}) \ {y}
<1>3. T \subseteq S /\ p \in T /\ IsFiniteSet(T)
  BY PickIn, FS_Subset
<1>4. Takes(T, p)
  BY <1>3, SumPick
<1>5. \A U \in SUBSET T : U # T => \A z \in U : Takes(U, z)
  BY <1>1
<1> HIDE DEF p, Takes, C
<1>6. p # y
  BY <1>2, <1>4
<1>7. Takes(T \ {p}, y) /\ Takes(T \ {y}, p)
  <2>1. T \ {p} \in SUBSET T /\ T \ {p} # T /\ y \in T \ {p}
    BY <1>3, <1>6
  <2>2. T \ {y} \in SUBSET T /\ T \ {y} # T /\ p \in T \ {y}
    BY <1>3, <1>6
  <2> QED
    BY <1>5, <2>1, <2>2
<1>8. R = (T \ {y}) \ {p}
  OBVIOUS
<1>9. f[p] \in Int /\ f[y] \in Int /\ SumFunctionOnSet(f, R) \in Int
  <2>1. IsFiniteSet(R) /\ Ints(f, R)
    BY <1>3, FS_Subset DEF Ints
  <2> QED
    BY <1>3, <2>1, SumInt DEF Ints
<1> HIDE DEF R
<1>10. /\ SumFunctionOnSet(f, T) = f[p] + SumFunctionOnSet(f, T \ {p})
       /\ SumFunctionOnSet(f, T \ {p}) = f[y] + SumFunctionOnSet(f, R)
       /\ SumFunctionOnSet(f, T \ {y}) = f[p] + SumFunctionOnSet(f, R)
  BY <1>4, <1>7, <1>8 DEF Takes, R
<1> QED
  BY <1>2, <1>9, <1>10 DEF Takes

LEMMA SumInsert ==
    ASSUME NEW f, NEW S, IsFiniteSet(S), NEW x, x \notin S, Ints(f, S \cup {x})
    PROVE  SumFunctionOnSet(f, S \cup {x}) = f[x] + SumFunctionOnSet(f, S)
<1>1. IsFiniteSet(S \cup {x}) /\ (S \cup {x}) \ {x} = S
  BY FS_AddElement
<1> QED
  BY <1>1, SumRemove

(* Two sums over the same indices.                                          *)
LEMMA SumSame ==
    ASSUME NEW f, NEW g, NEW S, IsFiniteSet(S), \A x \in S : f[x] = g[x]
    PROVE  SumFunctionOnSet(f, S) = SumFunctionOnSet(g, S)
<1> DEFINE C == {T \in SUBSET S : SumFunctionOnSet(f, T) # SumFunctionOnSet(g, T)}
<1> SUFFICES ASSUME C # {} PROVE FALSE
  OBVIOUS
<1>1. PICK T \in C : \A U \in C : U \subseteq T => U = T
  <2>1. C \subseteq SUBSET S
    OBVIOUS
  <2> HIDE DEF C
  <2> QED BY <2>1, Smallest
<1>2. T # {}
  BY SumEmpty
<1>3. Pick(T) \in T /\ IsFiniteSet(T)
  BY <1>2, PickIn, FS_Subset
<1>4. SumFunctionOnSet(f, T \ {Pick(T)}) = SumFunctionOnSet(g, T \ {Pick(T)})
  BY <1>1, <1>3
<1> QED
  BY <1>2, <1>3, <1>4, SumPick

LEMMA SumChange ==
    ASSUME NEW f, NEW g, NEW S, IsFiniteSet(S), Ints(f, S), Ints(g, S), NEW x \in S,
           \A y \in S \ {x} : f[y] = g[y]
    PROVE  SumFunctionOnSet(g, S) = SumFunctionOnSet(f, S) - f[x] + g[x]
<1>1. IsFiniteSet(S \ {x}) /\ Ints(f, S \ {x}) /\ f[x] \in Int /\ g[x] \in Int
  BY FS_Subset DEF Ints
<1>2. SumFunctionOnSet(f, S) = f[x] + SumFunctionOnSet(f, S \ {x})
      /\ SumFunctionOnSet(g, S) = g[x] + SumFunctionOnSet(g, S \ {x})
  BY SumRemove
<1>3. SumFunctionOnSet(f, S \ {x}) = SumFunctionOnSet(g, S \ {x})
  BY <1>1, SumSame
<1>4. SumFunctionOnSet(f, S \ {x}) \in Int
  BY <1>1, SumInt
<1> QED
  BY <1>1, <1>2, <1>3, <1>4

LEMMA SumMonotone ==
    ASSUME NEW f, NEW g, NEW S, IsFiniteSet(S), Ints(f, S), Ints(g, S),
           \A x \in S : f[x] <= g[x]
    PROVE  SumFunctionOnSet(f, S) <= SumFunctionOnSet(g, S)
<1> DEFINE C == {T \in SUBSET S : ~ (SumFunctionOnSet(f, T) <= SumFunctionOnSet(g, T))}
<1> SUFFICES ASSUME C # {} PROVE FALSE
  OBVIOUS
<1>1. PICK T \in C : \A U \in C : U \subseteq T => U = T
  <2>1. C \subseteq SUBSET S
    OBVIOUS
  <2> HIDE DEF C
  <2> QED BY <2>1, Smallest
<1>2. T # {}
  BY SumEmpty
<1> DEFINE p == Pick(T)
           R == T \ {p}
<1>3. p \in T /\ IsFiniteSet(T) /\ IsFiniteSet(R) /\ Ints(f, R) /\ Ints(g, R)
  BY <1>2, PickIn, FS_Subset DEF Ints
<1>4. SumFunctionOnSet(f, R) <= SumFunctionOnSet(g, R)
  BY <1>1, <1>3
<1>5. SumFunctionOnSet(f, R) \in Int /\ SumFunctionOnSet(g, R) \in Int
  BY <1>3, SumInt
<1>6. f[p] \in Int /\ g[p] \in Int /\ f[p] <= g[p]
  BY <1>3 DEF Ints
<1>7. /\ SumFunctionOnSet(f, T) = f[p] + SumFunctionOnSet(f, R)
      /\ SumFunctionOnSet(g, T) = g[p] + SumFunctionOnSet(g, R)
  BY <1>2, <1>3, SumPick
<1> HIDE DEF p, R
<1> QED
  BY <1>4, <1>5, <1>6, <1>7

LEMMA SumPlus ==
    ASSUME NEW f, NEW g, NEW h, NEW S, IsFiniteSet(S), Ints(f, S), Ints(g, S),
           \A x \in S : h[x] = f[x] + g[x]
    PROVE  SumFunctionOnSet(h, S) = SumFunctionOnSet(f, S) + SumFunctionOnSet(g, S)
<1> DEFINE Adds(T) == SumFunctionOnSet(h, T) = SumFunctionOnSet(f, T) + SumFunctionOnSet(g, T)
           C == {T \in SUBSET S : ~ Adds(T)}
<1> SUFFICES ASSUME C # {} PROVE FALSE
  OBVIOUS
<1>1. PICK T \in C : \A U \in C : U \subseteq T => U = T
  <2>1. C \subseteq SUBSET S
    OBVIOUS
  <2> HIDE DEF C
  <2> QED BY <2>1, Smallest
<1>2. T # {}
  BY SumEmpty
<1> DEFINE p == Pick(T)
           R == T \ {p}
<1>3. p \in T /\ IsFiniteSet(T) /\ IsFiniteSet(R) /\ Ints(f, R) /\ Ints(g, R)
  BY <1>2, PickIn, FS_Subset DEF Ints
<1>4. Adds(R)
  BY <1>1, <1>3
<1>5. SumFunctionOnSet(f, R) \in Int /\ SumFunctionOnSet(g, R) \in Int
  BY <1>3, SumInt
<1>6. f[p] \in Int /\ g[p] \in Int /\ h[p] = f[p] + g[p]
  BY <1>3 DEF Ints
<1>7. /\ SumFunctionOnSet(f, T) = f[p] + SumFunctionOnSet(f, R)
      /\ SumFunctionOnSet(g, T) = g[p] + SumFunctionOnSet(g, R)
      /\ SumFunctionOnSet(h, T) = h[p] + SumFunctionOnSet(h, R)
  BY <1>2, <1>3, SumPick
<1>8. ~ Adds(T)
  OBVIOUS
<1> HIDE DEF p, R, C
<1> QED
  BY <1>4, <1>5, <1>6, <1>7, <1>8

(* Sums of zeros and of natural numbers, and over fewer indices.            *)
LEMMA SumZero ==
    ASSUME NEW f, NEW S, IsFiniteSet(S), \A x \in S : f[x] = 0
    PROVE  SumFunctionOnSet(f, S) = 0
<1>1. Ints(f, S) /\ \A x \in S : f[x] = f[x] + f[x]
  BY DEF Ints
<1>2. SumFunctionOnSet(f, S) = SumFunctionOnSet(f, S) + SumFunctionOnSet(f, S)
  BY <1>1, SumPlus
<1> QED
  BY <1>1, <1>2, SumInt

LEMMA SumNat ==
    ASSUME NEW f, NEW S, IsFiniteSet(S), \A x \in S : f[x] \in Nat
    PROVE  SumFunctionOnSet(f, S) \in Nat
<1> DEFINE zero == [x \in S |-> 0]
<1>1. Ints(f, S) /\ Ints(zero, S) /\ \A x \in S : zero[x] <= f[x] /\ zero[x] = 0
  BY DEF Ints
<1> HIDE DEF zero
<1>2. SumFunctionOnSet(zero, S) = 0
  BY <1>1, SumZero
<1>3. SumFunctionOnSet(zero, S) <= SumFunctionOnSet(f, S)
  BY <1>1, SumMonotone
<1> QED
  BY <1>1, <1>2, <1>3, SumInt

LEMMA SumTerm ==
    ASSUME NEW f, NEW S, IsFiniteSet(S), \A x \in S : f[x] \in Nat, NEW x \in S
    PROVE  f[x] <= SumFunctionOnSet(f, S)
<1>1. IsFiniteSet(S \ {x}) /\ Ints(f, S)
  BY FS_Subset DEF Ints
<1>2. SumFunctionOnSet(f, S \ {x}) \in Nat
  BY <1>1, SumNat
<1> QED
  BY <1>1, <1>2, SumRemove

LEMMA SumFewer ==
    ASSUME NEW f, NEW S, IsFiniteSet(S), \A x \in S : f[x] \in Nat, NEW T \in SUBSET S
    PROVE  SumFunctionOnSet(f, T) <= SumFunctionOnSet(f, S)
<1> DEFINE C == {U \in SUBSET S : T \subseteq U
                     /\ ~ (SumFunctionOnSet(f, T) <= SumFunctionOnSet(f, U))}
<1> SUFFICES ASSUME C # {} PROVE FALSE
  OBVIOUS
<1>1. PICK U \in C : \A V \in C : V \subseteq U => V = U
  <2>1. C \subseteq SUBSET S
    OBVIOUS
  <2> HIDE DEF C
  <2> QED BY <2>1, Smallest
<1>2. IsFiniteSet(U) /\ IsFiniteSet(T) /\ Ints(f, U)
  BY FS_Subset DEF Ints
<1>3. SumFunctionOnSet(f, T) \in Nat
  BY <1>2, SumNat
<1>4. PICK x \in U : x \notin T
  BY <1>3
<1>5. IsFiniteSet(U \ {x})
  BY <1>2, FS_Subset
<1>6. SumFunctionOnSet(f, T) <= SumFunctionOnSet(f, U \ {x})
  BY <1>1, <1>4
<1>7. SumFunctionOnSet(f, U \ {x}) \in Nat /\ f[x] \in Nat
  BY <1>5, SumNat
<1>8. SumFunctionOnSet(f, U) = f[x] + SumFunctionOnSet(f, U \ {x})
  BY <1>2, SumRemove
<1> QED
  BY <1>3, <1>6, <1>7, <1>8

(* A sum over some of the indices is one over all, the others adding zero.  *)
LEMMA SumOver ==
    ASSUME NEW f, NEW g, NEW S, IsFiniteSet(S), NEW T \in SUBSET S, Ints(f, T),
           \A x \in S : g[x] = IF x \in T THEN f[x] ELSE 0
    PROVE  SumFunctionOnSet(f, T) = SumFunctionOnSet(g, S)
<1> DEFINE C == {U \in SUBSET S : SumFunctionOnSet(f, U \cap T) # SumFunctionOnSet(g, U)}
<1>1. C = {}
  <2> SUFFICES ASSUME C # {} PROVE FALSE
    OBVIOUS
  <2>1. PICK U \in C : \A V \in C : V \subseteq U => V = U
    <3>1. C \subseteq SUBSET S
      OBVIOUS
    <3> HIDE DEF C
    <3> QED BY <3>1, Smallest
  <2>2. U \subseteq S /\ SumFunctionOnSet(f, U \cap T) # SumFunctionOnSet(g, U)
    BY <2>1
  <2>3. U # {}
    <3>1. U = {} => U \cap T = {}
      OBVIOUS
    <3> QED
      BY <2>2, <3>1, SumEmpty
  <2>4. PICK x \in U : TRUE
    BY <2>3
  <2>5. SumFunctionOnSet(f, (U \ {x}) \cap T) = SumFunctionOnSet(g, U \ {x})
    BY <2>1, <2>2, <2>4
  <2>6. IsFiniteSet(U) /\ IsFiniteSet(U \cap T) /\ IsFiniteSet(U \ {x})
    BY <2>2, FS_Subset
  <2>7. \A y \in S : g[y] \in Int
    BY DEF Ints
  <2>8. Ints(g, U) /\ Ints(f, U \cap T)
    BY <2>2, <2>7 DEF Ints
  <2>9. SumFunctionOnSet(g, U) = g[x] + SumFunctionOnSet(g, U \ {x})
    BY <2>4, <2>6, <2>8, SumRemove
  <2>10. SumFunctionOnSet(g, U \ {x}) \in Int
    BY <2>6, <2>8, SumInt DEF Ints
  <2>11. CASE x \in T
    <3>1. x \in U \cap T /\ (U \cap T) \ {x} = (U \ {x}) \cap T /\ g[x] = f[x]
      BY <2>2, <2>4, <2>11
    <3>2. SumFunctionOnSet(f, U \cap T) = f[x] + SumFunctionOnSet(f, (U \cap T) \ {x})
      BY <2>6, <2>8, <3>1, SumRemove
    <3> QED
      BY <2>2, <2>5, <2>9, <3>1, <3>2
  <2>12. CASE x \notin T
    <3>1. (U \ {x}) \cap T = U \cap T /\ g[x] = 0
      BY <2>2, <2>4, <2>12
    <3> QED
      BY <2>2, <2>5, <2>9, <2>10, <3>1
  <2> QED
    BY <2>11, <2>12
<1>2. S \cap T = T /\ S \in SUBSET S
  OBVIOUS
<1> QED
  BY <1>1, <1>2

(* A finite set has an element with the least value, and one with the       *)
(* greatest.                                                                *)
LEMMA LeastIn ==
    ASSUME NEW f, NEW S, IsFiniteSet(S), S # {}, Ints(f, S)
    PROVE  \E x \in S : \A y \in S : f[x] <= f[y]
<1> DEFINE Has(T) == \E x \in T : \A y \in T : f[x] <= f[y]
           C == {T \in SUBSET S : T # {} /\ ~ Has(T)}
<1> SUFFICES ASSUME C # {} PROVE FALSE
  OBVIOUS
<1>1. PICK T \in C : \A U \in C : U \subseteq T => U = T
  <2>1. C \subseteq SUBSET S
    OBVIOUS
  <2> HIDE DEF C
  <2> QED BY <2>1, Smallest
<1>2. PICK p \in T : TRUE
  BY <1>1
<1>3. \A x \in T : f[x] \in Int
  BY DEF Ints
<1>4. CASE T \ {p} = {}
  BY <1>3, <1>4
<1>5. CASE T \ {p} # {}
  <2>1. Has(T \ {p})
    <3>1. T \ {p} \in SUBSET S /\ T \ {p} # T /\ T \ {p} \subseteq T
      BY <1>1, <1>2
    <3>2. T \ {p} \notin C
      BY <1>1, <3>1
    <3> HIDE DEF Has
    <3> QED
      BY <1>5, <3>1, <3>2
  <2>2. PICK x \in T \ {p} : \A y \in T \ {p} : f[x] <= f[y]
    BY <2>1
  <2> QED
    BY <1>2, <1>3, <2>2
<1> QED
  BY <1>4, <1>5

LEMMA GreatestIn ==
    ASSUME NEW f, NEW S, IsFiniteSet(S), S # {}, Ints(f, S)
    PROVE  \E x \in S : \A y \in S : f[y] <= f[x]
<1> DEFINE g == [x \in S |-> 0 - f[x]]
<1>1. Ints(g, S)
  BY DEF Ints
<1>2. PICK x \in S : \A y \in S : g[x] <= g[y]
  <2> HIDE DEF g
  <2> QED BY <1>1, LeastIn
<1>3. \A y \in S : f[y] \in Int
  BY DEF Ints
<1> QED
  BY <1>2, <1>3
=============================================================================
