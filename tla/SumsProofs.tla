------------------------------ MODULE SumsProofs ------------------------------
(***************************************************************************)
(* Finite sums, which every account of the models is checked against: what *)
(* SumFunctionOnSet of the module Functions adds up to, and what becomes   *)
(* of it when an element comes, goes or changes.                           *)
(*                                                                         *)
(* The induction theorems of the library take a predicate as a parameter;  *)
(* here induction is over a set of finite sets, by the least number of     *)
(* elements of a set that is missing.                                      *)
(***************************************************************************)
EXTENDS Integers, FiniteSets, Functions, FiniteSetTheorems, WellFoundedInduction, TLAPS

-------------------------------------------------------------------------------
(* Induction *)

\* A set of natural numbers that is not empty has a least one.
LEMMA LeastNumber ==
  ASSUME NEW T \in SUBSET Nat, T # {}
  PROVE  \E m \in T : \A k \in T : m <= k
<1> DEFINE R == {ss \in Nat \X Nat : ss[1] < ss[2]}
<1>1. IsWellFoundedOn(R, Nat)
  BY NatLessThanWellFounded DEF OpToRel
<1>2. \A k, m \in Nat : <<k, m>> \in R <=> k < m
  OBVIOUS
<1> HIDE DEF R
<1>3. PICK m \in T : \A k \in T : ~ (<<k, m>> \in R)
  BY <1>1, WFMin
<1>4. ASSUME NEW k \in T PROVE m <= k
  <2>1. k \in Nat /\ m \in Nat /\ ~(k < m)
    BY <1>2, <1>3
  <2> QED
    BY <2>1
<1> QED
  BY <1>4

\* A set of sets that has the empty set, and with a set all that have one
\* element of S more, has S.
LEMMA SetInduction ==
  ASSUME NEW S, IsFiniteSet(S), NEW Q, {} \in Q,
         \A T \in SUBSET S, x \in S : T \in Q /\ x \notin T => T \cup {x} \in Q
  PROVE  S \in Q
<1> SUFFICES ASSUME S \notin Q PROVE FALSE
  OBVIOUS
<1> DEFINE Missing == {T \in SUBSET S : T \notin Q}
           Sizes == {n \in Nat : \E T \in Missing : Cardinality(T) = n}
<1>1. \A T \in SUBSET S : IsFiniteSet(T) /\ Cardinality(T) \in Nat
  BY FS_Subset, FS_CardinalityType
<1>2. Cardinality(S) \in Sizes
  BY <1>1
<1>3. PICK n \in Sizes : \A k \in Sizes : n <= k
  BY <1>2, LeastNumber
<1>4. PICK T \in Missing : Cardinality(T) = n
  OBVIOUS
<1>5. PICK x \in T : TRUE
  OBVIOUS
<1>6. T \ {x} \in SUBSET S /\ Cardinality(T \ {x}) = n - 1
  BY <1>1, <1>4, FS_RemoveElement
<1>7. T \ {x} \in Q
  <2>1. T \ {x} \in SUBSET S
    BY <1>6
  <2>2. Cardinality(T \ {x}) \in Nat
    BY <1>1, <2>1
  <2> SUFFICES ASSUME T \ {x} \notin Q PROVE FALSE
    OBVIOUS
  <2>3. Cardinality(T \ {x}) \in Sizes
    BY <2>1, <2>2
  <2>4. n <= n - 1
    BY <1>3, <1>6, <2>3
  <2> QED
    BY <2>4
<1>8. (T \ {x}) \cup {x} = T /\ x \notin T \ {x} /\ x \in S
  BY <1>5
<1> QED
  BY <1>6, <1>7, <1>8

-------------------------------------------------------------------------------
(* The recursion of the sum *)

Chosen(s) == CHOOSE x \in s : TRUE

\* h is what the sum computes on the sets of D.
IsSum(h, f, D) ==
  h = [s \in D |-> IF s = {} THEN 0 ELSE f[Chosen(s)] + h[s \ {Chosen(s)}]]

\* The element that the sum takes next is one of the set.
LEMMA ChosenIn == \A s : s # {} => Chosen(s) \in s
BY DEF Chosen

\* The sum is such a function, at the whole set.
LEMMA SumUnfold ==
  ASSUME NEW f, NEW S
  PROVE  SumFunctionOnSet(f, S) = (CHOOSE h : IsSum(h, f, SUBSET S))[S]
BY DEF SumFunctionOnSet, FoldFunctionOnSet, MapThenFoldSet, Chosen, IsSum


\* The subsets of S with n elements at most.
UpTo(n, S) == {s \in SUBSET S : Cardinality(s) <= n}

\* There is such a function for the subsets of a finite set ...
LEMMA SumExists ==
  ASSUME NEW f, NEW S, IsFiniteSet(S)
  PROVE  \E h : IsSum(h, f, SUBSET S)
<1> DEFINE Without == {n \in Nat : ~ \E h : IsSum(h, f, UpTo(n, S))}
<1>1. \A s \in SUBSET S : IsFiniteSet(s) /\ Cardinality(s) \in Nat
                          /\ Cardinality(s) <= Cardinality(S)
  BY FS_Subset, FS_CardinalityType
<1>2. Without = {}
  <2> SUFFICES ASSUME Without # {} PROVE FALSE
    OBVIOUS
  <2>1. PICK n \in Without : \A k \in Without : n <= k
    BY LeastNumber
  <2>2. CASE n = 0
    <3>1. UpTo(0, S) = {{}}
      <4>1. \A s \in SUBSET S : Cardinality(s) <= 0 <=> s = {}
        BY <1>1, FS_EmptySet
      <4> QED
        BY <4>1 DEF UpTo
    <3>2. IsSum([s \in UpTo(0, S) |-> 0], f, UpTo(0, S))
      BY <3>1 DEF IsSum
    <3> QED
      BY <2>2, <3>2
  <2>3. CASE n # 0
    <3>1. n - 1 \in Nat /\ n - 1 \notin Without
      BY <2>1, <2>3
    <3>2. PICK h : IsSum(h, f, UpTo(n - 1, S))
      BY <3>1
    <3> DEFINE g == [s \in UpTo(n, S) |->
                       IF s = {} THEN 0 ELSE f[Chosen(s)] + h[s \ {Chosen(s)}]]
    <3>3. UpTo(n - 1, S) \subseteq UpTo(n, S)
      BY <1>1 DEF UpTo
    <3>4. \A s \in UpTo(n - 1, S) : g[s] = h[s]
      BY <3>2, <3>3 DEF IsSum
    <3>5. ASSUME NEW s \in UpTo(n, S), s # {} PROVE s \ {Chosen(s)} \in UpTo(n - 1, S)
      <4>1. Chosen(s) \in s /\ IsFiniteSet(s) /\ Cardinality(s) \in Nat /\ Cardinality(s) <= n
        BY <1>1, <3>5, ChosenIn DEF UpTo
      <4>2. Cardinality(s \ {Chosen(s)}) = Cardinality(s) - 1
        BY <4>1, FS_RemoveElement
      <4> QED
        BY <4>1, <4>2 DEF UpTo
    <3>6. \A s \in UpTo(n, S) :
            g[s] = IF s = {} THEN 0 ELSE f[Chosen(s)] + g[s \ {Chosen(s)}]
      BY <3>4, <3>5
    <3>7. IsSum(g, f, UpTo(n, S))
      <4>1. g = [s \in UpTo(n, S) |-> g[s]]
        OBVIOUS
      <4> HIDE DEF g
      <4> QED
        BY <3>6, <4>1 DEF IsSum
    <3> QED
      BY <3>7
  <2> QED
    BY <2>2, <2>3
<1>3. \E h : IsSum(h, f, UpTo(Cardinality(S), S))
  BY <1>1, <1>2
<1>4. UpTo(Cardinality(S), S) = SUBSET S
  BY <1>1 DEF UpTo
<1> QED
  BY <1>3, <1>4

\* ... and any two agree.
LEMMA SumUnique ==
  ASSUME NEW f, NEW S, IsFiniteSet(S), NEW T \in SUBSET S
  PROVE  \A g, h : IsSum(g, f, SUBSET S) /\ IsSum(h, f, SUBSET T) => g[T] = h[T]
<1> SUFFICES ASSUME NEW g, IsSum(g, f, SUBSET S), NEW h, IsSum(h, f, SUBSET T)
             PROVE  g[T] = h[T]
  OBVIOUS
<1> DEFINE Differ == {n \in Nat : \E s \in SUBSET T : Cardinality(s) = n /\ g[s] # h[s]}
<1>1. \A s \in SUBSET T : s \in SUBSET S /\ IsFiniteSet(s) /\ Cardinality(s) \in Nat
  BY FS_Subset, FS_CardinalityType
<1>2. Differ = {}
  <2> SUFFICES ASSUME Differ # {} PROVE FALSE
    OBVIOUS
  <2>1. PICK n \in Differ : \A k \in Differ : n <= k
    BY LeastNumber
  <2>2. PICK s \in SUBSET T : Cardinality(s) = n /\ g[s] # h[s]
    BY <2>1
  <2>3. s # {}
    BY <1>1, <2>2 DEF IsSum
  <2> DEFINE u == s \ {Chosen(s)}
  <2>4. Chosen(s) \in s /\ u \in SUBSET T
    BY <2>3, ChosenIn
  <2>5. Cardinality(u) = n - 1 /\ Cardinality(u) \in Nat
    BY <1>1, <2>2, <2>4, FS_RemoveElement
  <2>6. g[u] = h[u]
    <3> SUFFICES ASSUME g[u] # h[u] PROVE FALSE
      OBVIOUS
    <3> HIDE DEF u
    <3>1. n - 1 \in Differ
      BY <2>4, <2>5
    <3>2. n <= n - 1
      BY <2>1, <3>1
    <3> QED
      BY <3>2
  <2>7. g[s] = f[Chosen(s)] + g[u] /\ h[s] = f[Chosen(s)] + h[u]
    BY <1>1, <2>3 DEF IsSum
  <2> QED
    BY <2>2, <2>6, <2>7
<1> QED
  BY <1>1, <1>2

\* So the sum is computed as its recursion says.
LEMMA SumChosen ==
  ASSUME NEW f, NEW S, IsFiniteSet(S)
  PROVE  SumFunctionOnSet(f, S)
           = IF S = {} THEN 0
             ELSE f[Chosen(S)] + SumFunctionOnSet(f, S \ {Chosen(S)})
<1>1. PICK T : T = S \ {Chosen(S)}
  OBVIOUS
<1>2. IsFiniteSet(T) /\ T \in SUBSET S
  BY <1>1, FS_RemoveElement
<1>3. PICK g : g = (CHOOSE h : IsSum(h, f, SUBSET S)) /\ IsSum(g, f, SUBSET S)
  BY SumExists
<1>4. PICK h : h = (CHOOSE k : IsSum(k, f, SUBSET T)) /\ IsSum(h, f, SUBSET T)
  BY <1>2, SumExists
<1>5. SumFunctionOnSet(f, S) = g[S] /\ SumFunctionOnSet(f, T) = h[T]
  BY <1>3, <1>4, SumUnfold
<1>6. g[T] = h[T]
  <2>1. IsSum(g, f, SUBSET S) /\ IsSum(h, f, SUBSET T)
    BY <1>3, <1>4
  <2>2. \A k, l : IsSum(k, f, SUBSET S) /\ IsSum(l, f, SUBSET T) => k[T] = l[T]
    BY <1>2, SumUnique
  <2> QED
    BY <2>1, <2>2
<1>7. g[S] = IF S = {} THEN 0 ELSE f[Chosen(S)] + g[T]
  <2>1. IsSum(g, f, SUBSET S)
    BY <1>3
  <2> QED
    BY <1>1, <2>1 DEF IsSum
<1> QED
  BY <1>1, <1>5, <1>6, <1>7

-------------------------------------------------------------------------------
(* What the sum is *)

\* Nothing adds up to 0.
LEMMA SumEmpty == ASSUME NEW f PROVE SumFunctionOnSet(f, {}) = 0
BY SumChosen, FS_EmptySet

\* Integers add up to an integer.
LEMMA SumInt ==
  ASSUME NEW f, NEW S, IsFiniteSet(S), \A x \in S : f[x] \in Int
  PROVE  SumFunctionOnSet(f, S) \in Int
<1> DEFINE Without == {n \in Nat : \E T \in SUBSET S : /\ Cardinality(T) = n
                                                       /\ SumFunctionOnSet(f, T) \notin Int}
<1>1. \A T \in SUBSET S : IsFiniteSet(T) /\ Cardinality(T) \in Nat
  BY FS_Subset, FS_CardinalityType
<1>2. Without = {}
  <2> SUFFICES ASSUME Without # {} PROVE FALSE
    OBVIOUS
  <2>1. PICK n \in Without : \A k \in Without : n <= k
    BY LeastNumber
  <2>2. PICK T \in SUBSET S : Cardinality(T) = n /\ SumFunctionOnSet(f, T) \notin Int
    BY <2>1
  <2> DEFINE U == T \ {Chosen(T)}
  <2>3. T # {}
    BY <2>2, SumEmpty
  <2>4. Chosen(T) \in T /\ U \in SUBSET S /\ IsFiniteSet(T)
    BY <1>1, <2>3, ChosenIn
  <2>5. Cardinality(U) = n - 1 /\ Cardinality(U) \in Nat
    BY <1>1, <2>2, <2>4, FS_RemoveElement
  <2>6. SumFunctionOnSet(f, U) \in Int
    <3> SUFFICES ASSUME SumFunctionOnSet(f, U) \notin Int PROVE FALSE
      OBVIOUS
    <3> HIDE DEF U
    <3>1. n - 1 \in Without
      BY <2>4, <2>5
    <3>2. n <= n - 1
      BY <2>1, <3>1
    <3> QED
      BY <3>2
  <2>7. SumFunctionOnSet(f, T) = f[Chosen(T)] + SumFunctionOnSet(f, U)
    BY <2>3, <2>4, SumChosen
  <2>8. f[Chosen(T)] \in Int
    BY <2>4
  <2> HIDE DEF U
  <2> QED
    BY <2>2, <2>6, <2>7, <2>8
<1> QED
  BY <1>1, <1>2

\* Any element may be taken out first.
LEMMA SumRemove ==
  ASSUME NEW f, NEW S, IsFiniteSet(S), \A x \in S : f[x] \in Int, NEW x \in S
  PROVE  SumFunctionOnSet(f, S) = f[x] + SumFunctionOnSet(f, S \ {x})
<1> DEFINE Apart(T, y) == SumFunctionOnSet(f, T) = f[y] + SumFunctionOnSet(f, T \ {y})
           Without == {n \in Nat : \E T \in SUBSET S : /\ Cardinality(T) = n
                                                       /\ \E y \in T : ~Apart(T, y)}
<1>1. \A T \in SUBSET S : IsFiniteSet(T) /\ Cardinality(T) \in Nat
                          /\ SumFunctionOnSet(f, T) \in Int
  BY FS_Subset, FS_CardinalityType, SumInt
<1>2. Without = {}
  <2> SUFFICES ASSUME Without # {} PROVE FALSE
    OBVIOUS
  <2>1. PICK n \in Without : \A k \in Without : n <= k
    BY LeastNumber
  <2>2. PICK T \in SUBSET S : Cardinality(T) = n /\ \E y \in T : ~Apart(T, y)
    BY <2>1
  <2>0. PICK y \in T : ~Apart(T, y)
    BY <2>2
  <2> DEFINE c == Chosen(T)
  <2>3. T # {} /\ c \in T /\ IsFiniteSet(T) /\ T \in SUBSET S
    BY <1>1, <2>2, ChosenIn
  <2>4. Apart(T, c)
    BY <2>3, SumChosen
  <2>5. c # y
    BY <2>0, <2>4
  <2>6. ASSUME NEW z \in T, NEW d \in T \ {z} PROVE Apart(T \ {z}, d)
    <3>1. Cardinality(T \ {z}) = n - 1 /\ T \ {z} \in SUBSET S
      BY <2>2, <2>3, FS_RemoveElement
    <3>2. n - 1 \in Nat
      BY <1>1, <3>1
    <3> HIDE DEF Apart
    <3> SUFFICES ASSUME ~Apart(T \ {z}, d) PROVE FALSE
      OBVIOUS
    <3>3. n - 1 \in Without
      BY <3>1, <3>2
    <3>4. n <= n - 1
      BY <2>1, <3>3
    <3> QED
      BY <3>4
  <2>7. Apart(T \ {c}, y) /\ Apart(T \ {y}, c)
    <3> HIDE DEF Apart, c
    <3> QED
      BY <2>0, <2>3, <2>5, <2>6
  <2>8. (T \ {c}) \ {y} = (T \ {y}) \ {c}
    OBVIOUS
  <2>9. /\ f[c] \in Int /\ f[y] \in Int
        /\ SumFunctionOnSet(f, T \ {c}) \in Int /\ SumFunctionOnSet(f, T \ {y}) \in Int
        /\ SumFunctionOnSet(f, (T \ {y}) \ {c}) \in Int /\ SumFunctionOnSet(f, T) \in Int
    BY <1>1, <2>0, <2>3
  <2>10. SumFunctionOnSet(f, (T \ {c}) \ {y}) = SumFunctionOnSet(f, (T \ {y}) \ {c})
    BY <2>8, Zenon
  <2> HIDE DEF c
  <2> QED
    BY <2>0, <2>4, <2>7, <2>9, <2>10
<1> QED
  BY <1>1, <1>2

\* What a further element adds.
LEMMA SumAdd ==
  ASSUME NEW f, NEW S, IsFiniteSet(S), NEW x, x \notin S, \A y \in S \cup {x} : f[y] \in Int
  PROVE  SumFunctionOnSet(f, S \cup {x}) = f[x] + SumFunctionOnSet(f, S)
<1>1. (S \cup {x}) \ {x} = S /\ IsFiniteSet(S \cup {x}) /\ x \in S \cup {x}
  BY FS_AddElement
<1> HIDE DEF SumFunctionOnSet
<1>2. SumFunctionOnSet(f, S \cup {x}) = f[x] + SumFunctionOnSet(f, (S \cup {x}) \ {x})
  BY <1>1, SumRemove
<1> QED
  BY <1>1, <1>2

\* The sum of f is not beyond that of g, if f is nowhere beyond g.
LEMMA SumMonotone ==
  ASSUME NEW f, NEW g, NEW S, IsFiniteSet(S),
         \A x \in S : f[x] \in Int /\ g[x] \in Int /\ f[x] <= g[x]
  PROVE  SumFunctionOnSet(f, S) <= SumFunctionOnSet(g, S)
<1> DEFINE Q == {T \in SUBSET S : SumFunctionOnSet(f, T) <= SumFunctionOnSet(g, T)}
<1>1. {} \in Q
  BY SumEmpty
<1>2. ASSUME NEW T \in SUBSET S, NEW x \in S, T \in Q, x \notin T
      PROVE  T \cup {x} \in Q
  <2>1. IsFiniteSet(T)
    BY FS_Subset
  <2>2. /\ SumFunctionOnSet(f, T \cup {x}) = f[x] + SumFunctionOnSet(f, T)
        /\ SumFunctionOnSet(g, T \cup {x}) = g[x] + SumFunctionOnSet(g, T)
    BY <1>2, <2>1, SumAdd
  <2>3. SumFunctionOnSet(f, T) \in Int /\ SumFunctionOnSet(g, T) \in Int
    BY <2>1, SumInt
  <2> QED
    BY <1>2, <2>2, <2>3
<1>3. S \in Q
  <2> HIDE DEF Q
  <2> QED
    BY <1>1, <1>2, SetInduction
<1> QED
  BY <1>3

\* The sum depends on the values in the set only.
LEMMA SumEqual ==
  ASSUME NEW f, NEW g, NEW S, IsFiniteSet(S), \A x \in S : f[x] \in Int /\ f[x] = g[x]
  PROVE  SumFunctionOnSet(f, S) = SumFunctionOnSet(g, S)
<1>1. \A x \in S : f[x] \in Int /\ g[x] \in Int /\ f[x] <= g[x] /\ g[x] <= f[x]
  OBVIOUS
<1>2. /\ SumFunctionOnSet(f, S) <= SumFunctionOnSet(g, S)
      /\ SumFunctionOnSet(g, S) <= SumFunctionOnSet(f, S)
  BY <1>1, SumMonotone
<1>3. SumFunctionOnSet(f, S) \in Int /\ SumFunctionOnSet(g, S) \in Int
  BY <1>1, SumInt
<1> QED
  BY <1>2, <1>3

\* One element has another value: the rest of the sum stays.
LEMMA SumUpdate ==
  ASSUME NEW f, NEW g, NEW S, IsFiniteSet(S), NEW x \in S,
         \A y \in S : f[y] \in Int /\ g[y] \in Int, \A y \in S \ {x} : f[y] = g[y]
  PROVE  SumFunctionOnSet(g, S) = SumFunctionOnSet(f, S) - f[x] + g[x]
<1> DEFINE T == S \ {x}
<1>1. IsFiniteSet(T)
  BY FS_RemoveElement
<1>2. SumFunctionOnSet(f, T) = SumFunctionOnSet(g, T)
  BY <1>1, SumEqual
<1>3. /\ SumFunctionOnSet(f, S) = f[x] + SumFunctionOnSet(f, T)
      /\ SumFunctionOnSet(g, S) = g[x] + SumFunctionOnSet(g, T)
  BY SumRemove
<1>4. SumFunctionOnSet(f, T) \in Int
  BY <1>1, SumInt
<1> HIDE DEF T
<1> QED
  BY <1>2, <1>3, <1>4

\* Two disjoint sets together add up to the sum of both.
LEMMA SumUnion ==
  ASSUME NEW f, NEW S, IsFiniteSet(S), NEW T, IsFiniteSet(T), S \cap T = {},
         \A x \in S \cup T : f[x] \in Int
  PROVE  SumFunctionOnSet(f, S \cup T) = SumFunctionOnSet(f, S) + SumFunctionOnSet(f, T)
<1> DEFINE Q == {U \in SUBSET T : SumFunctionOnSet(f, S \cup U)
                                    = SumFunctionOnSet(f, S) + SumFunctionOnSet(f, U)}
<1>1. {} \in Q
  <2>1. S \cup {} = S /\ SumFunctionOnSet(f, S) \in Int
    BY SumInt
  <2> QED
    BY <2>1, SumEmpty
<1>2. ASSUME NEW U \in SUBSET T, NEW x \in T, U \in Q, x \notin U
      PROVE  U \cup {x} \in Q
  <2>1. IsFiniteSet(U) /\ IsFiniteSet(S \cup U) /\ x \notin S \cup U
    BY <1>2, FS_Subset, FS_Union
  <2>2. S \cup (U \cup {x}) = (S \cup U) \cup {x}
    OBVIOUS
  <2>3. /\ SumFunctionOnSet(f, (S \cup U) \cup {x}) = f[x] + SumFunctionOnSet(f, S \cup U)
        /\ SumFunctionOnSet(f, U \cup {x}) = f[x] + SumFunctionOnSet(f, U)
    BY <2>1, SumAdd
  <2>4. SumFunctionOnSet(f, S) \in Int /\ SumFunctionOnSet(f, U) \in Int /\ f[x] \in Int
    BY <2>1, SumInt
  <2>5. SumFunctionOnSet(f, S \cup (U \cup {x})) = f[x] + SumFunctionOnSet(f, S \cup U)
    BY <2>2, <2>3, Zenon
  <2>6. SumFunctionOnSet(f, S \cup U) = SumFunctionOnSet(f, S) + SumFunctionOnSet(f, U)
    BY <1>2
  <2>7. SumFunctionOnSet(f, S \cup (U \cup {x}))
          = SumFunctionOnSet(f, S) + SumFunctionOnSet(f, U \cup {x})
    BY <2>3, <2>4, <2>5, <2>6
  <2> QED
    BY <2>7
<1>3. T \in Q
  <2> HIDE DEF Q
  <2> QED
    BY <1>1, <1>2, SetInduction
<1> QED
  BY <1>3

\* The sum over one element is its value.
LEMMA SumOne == ASSUME NEW f, NEW x, f[x] \in Int PROVE SumFunctionOnSet(f, {x}) = f[x]
<1>1. x \in {x} /\ {x} \ {x} = {} /\ IsFiniteSet({x})
  BY FS_Singleton
<1>2. SumFunctionOnSet(f, {x}) = f[x] + SumFunctionOnSet(f, {x} \ {x})
  BY <1>1, SumRemove
<1> QED
  BY <1>1, <1>2, SumEmpty

\* Zeros add up to 0.
LEMMA SumZero ==
  ASSUME NEW f, NEW S, IsFiniteSet(S), \A x \in S : f[x] = 0
  PROVE  SumFunctionOnSet(f, S) = 0
<1> DEFINE Q == {T \in SUBSET S : SumFunctionOnSet(f, T) = 0}
<1>1. {} \in Q
  BY SumEmpty
<1>2. ASSUME NEW T \in SUBSET S, NEW x \in S, T \in Q, x \notin T
      PROVE  T \cup {x} \in Q
  <2>1. IsFiniteSet(T)
    BY FS_Subset
  <2> QED
    BY <1>2, <2>1, SumAdd
<1>3. S \in Q
  <2> HIDE DEF Q
  <2> QED
    BY <1>1, <1>2, SetInduction
<1> QED
  BY <1>3

\* Natural numbers add up to a natural number.
LEMMA SumNat ==
  ASSUME NEW f, NEW S, IsFiniteSet(S), \A x \in S : f[x] \in Nat
  PROVE  SumFunctionOnSet(f, S) \in Nat
<1> DEFINE z == [x \in S |-> 0]
<1>1. SumFunctionOnSet(z, S) = 0
  BY SumZero
<1>2. SumFunctionOnSet(z, S) <= SumFunctionOnSet(f, S)
  BY SumMonotone
<1>3. SumFunctionOnSet(f, S) \in Int
  BY SumInt
<1> QED
  BY <1>1, <1>2, <1>3

\* The sum over a part is at most the sum over the whole.
LEMMA SumPart ==
  ASSUME NEW f, NEW S, IsFiniteSet(S), \A x \in S : f[x] \in Nat, NEW T \in SUBSET S
  PROVE  SumFunctionOnSet(f, T) <= SumFunctionOnSet(f, S)
<1> DEFINE U == S \ T
<1>1. T \cup U = S /\ T \cap U = {} /\ IsFiniteSet(T) /\ IsFiniteSet(U)
  BY FS_Subset
<1>2. SumFunctionOnSet(f, S) = SumFunctionOnSet(f, T) + SumFunctionOnSet(f, U)
  <2>1. SumFunctionOnSet(f, T \cup U) = SumFunctionOnSet(f, T) + SumFunctionOnSet(f, U)
    BY <1>1, SumUnion
  <2> QED
    BY <1>1, <2>1, Zenon
<1>3. SumFunctionOnSet(f, T) \in Nat /\ SumFunctionOnSet(f, U) \in Nat
  BY <1>1, SumNat
<1> HIDE DEF U
<1> QED
  BY <1>1, <1>2, <1>3

\* No value is beyond the sum.
LEMMA SumElement ==
  ASSUME NEW f, NEW S, IsFiniteSet(S), \A x \in S : f[x] \in Nat, NEW x \in S
  PROVE  f[x] <= SumFunctionOnSet(f, S)
<1>1. SumFunctionOnSet(f, {x}) = f[x]
  BY SumOne
<1>2. {x} \in SUBSET S
  OBVIOUS
<1> QED
  BY <1>1, <1>2, SumPart

\* Elements that are 0 do not count.
LEMMA SumSupport ==
  ASSUME NEW f, NEW S, IsFiniteSet(S), \A x \in S : f[x] \in Int, NEW T \in SUBSET S,
         \A x \in S \ T : f[x] = 0
  PROVE  SumFunctionOnSet(f, T) = SumFunctionOnSet(f, S)
<1> DEFINE U == S \ T
<1>1. T \cup U = S /\ T \cap U = {} /\ IsFiniteSet(T) /\ IsFiniteSet(U)
  BY FS_Subset
<1>2. SumFunctionOnSet(f, S) = SumFunctionOnSet(f, T) + SumFunctionOnSet(f, U)
  <2>1. SumFunctionOnSet(f, T \cup U) = SumFunctionOnSet(f, T) + SumFunctionOnSet(f, U)
    BY <1>1, SumUnion
  <2> QED
    BY <1>1, <2>1, Zenon
<1>3. SumFunctionOnSet(f, U) = 0
  BY <1>1, SumZero
<1>4. SumFunctionOnSet(f, T) \in Int
  BY <1>1, SumInt
<1> HIDE DEF U
<1> QED
  BY <1>1, <1>2, <1>3, <1>4
===============================================================================
