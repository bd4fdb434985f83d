-------------------------------- MODULE Sums --------------------------------
(***************************************************************************)
(* Sums over finite sets, for proofs about what is added up.               *)
(*                                                                         *)
(* The community modules add up a set by taking its elements away one by   *)
(* one, in the order CHOOSE gives.  Shown here: there is exactly one such  *)
(* sum, any element can be taken away first, and a one-to-one renaming of  *)
(* the elements keeps it, and adding up part by part comes to the whole.   *)
(* The induction is by a smallest counterexample: the subsets of a finite  *)
(* set are well-founded (SmallestSubset), and so are the numbers.          *)
(***************************************************************************)
EXTENDS Integers, FiniteSets, FiniteSetsExt, FiniteSetTheorems, NaturalsInduction, WellFoundedInduction, TLAPS

(* Among subsets of a finite set there is one no other of them is part of. *)
LEMMA SmallestSubset ==
  ASSUME NEW S, IsFiniteSet(S), NEW bad \in SUBSET SUBSET S, bad # {}
  PROVE  \E T \in bad : \A U \in SUBSET T : U # T => U \notin bad
<1>1. /\ FiniteSubsetsOf(S) = SUBSET S
      /\ IsWellFoundedOn(StrictSubsetOrdering(S), FiniteSubsetsOf(S))
  BY FS_FiniteSubsetsOfFinite, FS_StrictSubsetOrderingWellFounded
<1>2. \E T \in bad : \A U \in bad : ~(<<U, T>> \in StrictSubsetOrdering(S))
  BY <1>1, WFMin
<1> QED BY <1>2 DEF StrictSubsetOrdering

LEMMA SmallestNumber ==
  ASSUME NEW bad \in SUBSET Nat, bad # {}
  PROVE  \E n \in bad : \A m \in bad : n <= m
<1>1. IsWellFoundedOn(OpToRel(<,Nat), Nat)
  BY NatLessThanWellFounded
<1>2. \E n \in bad : \A m \in bad : ~(<<m, n>> \in OpToRel(<,Nat))
  BY <1>1, WFMin
<1> DEFINE less == OpToRel(<,Nat)
<1>3. PICK n \in bad : \A m \in bad : ~(<<m, n>> \in less)
  BY <1>2
<1>4. \A m \in bad : n <= m
  <2> TAKE m \in bad
  <2>1. m \in Nat /\ n \in Nat
    OBVIOUS
  <2>2. m < n => <<m, n>> \in less
    BY <2>1 DEF OpToRel
  <2> HIDE DEF less
  <2> QED BY <1>3, <2>1, <2>2
<1> QED BY <1>4

(* What a function gives for finitely many arguments is finite.            *)
LEMMA FiniteImage ==
  ASSUME NEW S, IsFiniteSet(S), NEW f
  PROVE  IsFiniteSet({f[x] : x \in S})
<1> DEFINE T == {f[x] : x \in S}
           g == [x \in S |-> f[x]]
<1>1. g \in Surjection(S, T)
  BY DEF Surjection
<1> QED BY <1>1, FS_Surjection

-----------------------------------------------------------------------------
First(s) == CHOOSE x \in s : TRUE

(* g[s] is the sum of h over s, for every part s of S.                     *)
AddsUp(g, h, S) ==
  g = [s \in SUBSET S |-> IF s = {} THEN 0 ELSE h[First(s)] + g[s \ {First(s)}]]

(* The sum of h over S, as the community modules compute it.               *)
SumOver(h, S) == MapThenSumSet(LAMBDA x : h[x], S)

LEMMA FirstIn == \A s : s # {} => First(s) \in s
BY DEF First

(* Sums of the same numbers are the same, whatever larger set they are     *)
(* computed for.                                                           *)
LEMMA SumsAgree ==
  ASSUME NEW S, IsFiniteSet(S), NEW A, NEW B, S \subseteq A, S \subseteq B,
         NEW g, NEW a, AddsUp(g, a, A), NEW k, NEW b, AddsUp(k, b, B),
         \A x \in S : a[x] = b[x]
  PROVE  g[S] = k[S]
<1> DEFINE bad == {s \in SUBSET S : g[s] # k[s]}
<1> SUFFICES ASSUME bad # {} PROVE FALSE
  OBVIOUS
<1>1. PICK T \in bad : \A U \in SUBSET T : U # T => U \notin bad
  <2>1. bad \in SUBSET SUBSET S
    OBVIOUS
  <2> HIDE DEF bad
  <2> QED BY <2>1, SmallestSubset
<1>2. T \subseteq S /\ T \in SUBSET A /\ T \in SUBSET B /\ g[T] # k[T]
  OBVIOUS
<1>3. T # {}
  BY <1>2 DEF AddsUp
<1>4. First(T) \in T
  BY <1>3, FirstIn
<1>5. g[T \ {First(T)}] = k[T \ {First(T)}]
  BY <1>1, <1>2, <1>4
<1>6. g[T] = a[First(T)] + g[T \ {First(T)}] /\ k[T] = b[First(T)] + k[T \ {First(T)}]
  BY <1>2, <1>3 DEF AddsUp
<1>7. a[First(T)] = b[First(T)]
  BY <1>2, <1>4
<1> QED BY <1>2, <1>5, <1>6, <1>7

LEMMA SumsType ==
  ASSUME NEW S, IsFiniteSet(S), NEW N \in {Nat, Int}, NEW g, NEW h, AddsUp(g, h, S), \A x \in S : h[x] \in N
  PROVE  g \in [SUBSET S -> N]
<1> DEFINE bad == {s \in SUBSET S : g[s] \notin N}
<1>1. bad = {}
  <2> SUFFICES ASSUME bad # {} PROVE FALSE
    OBVIOUS
  <2>1. PICK T \in bad : \A U \in SUBSET T : U # T => U \notin bad
    <3>1. bad \in SUBSET SUBSET S
      OBVIOUS
    <3> HIDE DEF bad
    <3> QED BY <3>1, SmallestSubset
  <2>2. T \in SUBSET S /\ g[T] \notin N
    OBVIOUS
  <2>3. g[T] = IF T = {} THEN 0 ELSE h[First(T)] + g[T \ {First(T)}]
    BY <2>2 DEF AddsUp
  <2>4. T # {} /\ First(T) \in T
    BY <2>2, <2>3, FirstIn
  <2>5. T \ {First(T)} \in SUBSET T /\ T \ {First(T)} # T /\ T \ {First(T)} \in SUBSET S
    BY <2>2, <2>4
  <2>6. g[T \ {First(T)}] \in N /\ h[First(T)] \in N
    BY <2>1, <2>2, <2>4, <2>5
  <2> QED BY <2>2, <2>3, <2>4, <2>6
<1> QED BY <1>1 DEF AddsUp

(* Whatever is added up, there is a sum.                                   *)
LEMMA SumsExist ==
  ASSUME NEW S, IsFiniteSet(S), NEW h
  PROVE  \E g : AddsUp(g, h, S)
<1> DEFINE bad == {s \in SUBSET S : ~ \E g : AddsUp(g, h, s)}
<1> SUFFICES ASSUME bad # {} PROVE FALSE
  OBVIOUS
<1>1. PICK T \in bad : \A U \in SUBSET T : U # T => U \notin bad
  <2>1. bad \in SUBSET SUBSET S
    OBVIOUS
  <2> HIDE DEF bad
  <2> QED BY <2>1, SmallestSubset
<1>2. T \subseteq S /\ ~ \E g : AddsUp(g, h, T)
  OBVIOUS
<1>3. \A U \in SUBSET T : U # T => \E g : AddsUp(g, h, U)
  BY <1>1, <1>2
<1> HIDE DEF bad
<1> DEFINE part(U) == CHOOSE g : AddsUp(g, h, U)
<1>4. \A U \in SUBSET T : U # T => AddsUp(part(U), h, U)
  BY <1>3
<1>5. \A U \in SUBSET T : IsFiniteSet(U)
  BY <1>2, FS_Subset
<1> DEFINE small(s) == part(s)[s]
           whole == h[First(T)] + small(T \ {First(T)})
<1>7. ASSUME NEW s \in SUBSET T, s # T
      PROVE  small(s) = IF s = {} THEN 0 ELSE h[First(s)] + small(s \ {First(s)})
  <2>1. AddsUp(part(s), h, s)
    BY <1>4, <1>7
  <2>2. CASE s = {}
    <3> HIDE DEF part
    <3> QED BY <2>1, <2>2 DEF AddsUp
  <2>3. CASE s # {}
    <3> DEFINE r == s \ {First(s)}
    <3>1. First(s) \in s /\ r \in SUBSET T /\ r # T /\ IsFiniteSet(r) /\ r \in SUBSET s
      BY <1>5, <2>3, FirstIn
    <3>2. AddsUp(part(r), h, r)
      BY <1>4, <3>1
    <3> HIDE DEF r, part
    <3>3. part(r)[r] = part(s)[r]
      BY <2>1, <3>1, <3>2, SumsAgree
    <3>4. part(s)[s] = h[First(s)] + part(s)[r]
      BY <2>1, <2>3 DEF AddsUp, r
    <3> QED BY <2>3, <3>3, <3>4 DEF r
  <2> QED BY <2>2, <2>3
<1> HIDE DEF part
<1> HIDE DEF small
<1>8. CASE T = {}
  <2> DEFINE g == [s \in SUBSET T |-> 0]
  <2>1. AddsUp(g, h, T)
    BY <1>8 DEF AddsUp
  <2> QED BY <1>2, <2>1
<1>9. CASE T # {}
  <2>1. First(T) \in T
    BY <1>9, FirstIn
  <2>2. T \ {First(T)} \in SUBSET T /\ T \ {First(T)} # T
    BY <2>1
  <2> HIDE DEF whole
  <2> DEFINE g == [s \in SUBSET T |-> IF s = T THEN whole ELSE small(s)]
  <2>4. g = [s \in SUBSET T |-> g[s]]
    OBVIOUS
  <2>5. ASSUME NEW s \in SUBSET T
        PROVE  g[s] = IF s = {} THEN 0 ELSE h[First(s)] + g[s \ {First(s)}]
    <3>1. CASE s = T
      BY <3>1, <1>9, <2>2 DEF whole
    <3>2. CASE s # T
      <4>1. s \ {First(s)} \in SUBSET T /\ s \ {First(s)} # T
        BY <3>2
      <4> QED BY <3>2, <4>1, <1>7
    <3> QED BY <3>1, <3>2
  <2> HIDE DEF g
  <2>6. AddsUp(g, h, T)
    BY <2>4, <2>5 DEF AddsUp
  <2> QED BY <1>2, <2>6
<1> QED BY <1>8, <1>9

(* Any element can be taken away first.                                    *)
LEMMA SumsTakeAny ==
  ASSUME NEW S, IsFiniteSet(S), NEW g, NEW h, AddsUp(g, h, S), \A x \in S : h[x] \in Int,
         NEW U \in SUBSET S, NEW x \in U
  PROVE  g[U] = h[x] + g[U \ {x}]
<1> DEFINE bad == {s \in SUBSET S : \E y \in s : g[s] # h[y] + g[s \ {y}]}
<1> SUFFICES ASSUME bad # {} PROVE FALSE
  OBVIOUS
<1>1. PICK T \in bad : \A V \in SUBSET T : V # T => V \notin bad
  <2>1. bad \in SUBSET SUBSET S
    OBVIOUS
  <2> HIDE DEF bad
  <2> QED BY <2>1, SmallestSubset
<1>2. PICK y \in T : g[T] # h[y] + g[T \ {y}]
  OBVIOUS
<1> DEFINE c == First(T)
           rest == T \ {c, y}
<1>3. T \in SUBSET S /\ T # {} /\ c \in T /\ y \in S /\ c \in S
  BY FirstIn
<1>4. g[T] = h[c] + g[T \ {c}]
  BY <1>3 DEF AddsUp
<1>5. c # y
  BY <1>2, <1>4
<1>6. /\ T \ {c} \in SUBSET T /\ T \ {c} # T /\ y \in T \ {c} /\ (T \ {c}) \ {y} = rest
      /\ T \ {y} \in SUBSET T /\ T \ {y} # T /\ c \in T \ {y} /\ (T \ {y}) \ {c} = rest
      /\ rest \in SUBSET S
  BY <1>3, <1>5
<1>7. /\ T \ {c} \in SUBSET S /\ T \ {c} \notin bad
      /\ T \ {y} \in SUBSET S /\ T \ {y} \notin bad
  BY <1>1, <1>3, <1>6
<1>8. g[T \ {c}] = h[y] + g[rest] /\ g[T \ {y}] = h[c] + g[rest]
  BY <1>6, <1>7
<1>9. g[rest] \in Int /\ h[c] \in Int /\ h[y] \in Int
  <2>1. g \in [SUBSET S -> Int]
    BY SumsType
  <2> HIDE DEF c, rest, bad
  <2> QED BY <1>3, <1>6, <2>1
<1> HIDE DEF c, rest, bad
<1> QED BY <1>2, <1>4, <1>8, <1>9

(* Renaming the elements one to one keeps the sum.                         *)
LEMMA SumsRenamed ==
  ASSUME NEW I, IsFiniteSet(I), NEW J, IsFiniteSet(J), NEW f \in [I -> J],
         \A x, y \in I : f[x] = f[y] => x = y,
         \A z \in J : \E x \in I : f[x] = z,
         NEW g, NEW a, AddsUp(g, a, I), \A x \in I : a[x] \in Int,
         NEW k, NEW b, AddsUp(k, b, J), \A x \in I : b[f[x]] = a[x]
  PROVE  g[I] = k[J]
<1> DEFINE image(s) == {f[x] : x \in s}
           bad == {s \in SUBSET I : g[s] # k[image(s)]}
<1>0. \A z \in J : b[z] \in Int
  OBVIOUS
<1>1. bad = {}
  <2> SUFFICES ASSUME bad # {} PROVE FALSE
    OBVIOUS
  <2>1. PICK T \in bad : \A U \in SUBSET T : U # T => U \notin bad
    <3>1. bad \in SUBSET SUBSET I
      OBVIOUS
    <3> HIDE DEF bad
    <3> QED BY <3>1, SmallestSubset
  <2>2. T \in SUBSET I /\ image(T) \in SUBSET J /\ g[T] # k[image(T)]
    OBVIOUS
  <2>3. CASE T = {}
    <3>1. image(T) = {}
      BY <2>3
    <3> QED BY <2>2, <2>3, <3>1 DEF AddsUp
  <2>4. CASE T # {}
    <3>1. PICK x \in T : TRUE
      BY <2>4
    <3>2. image(T) \ {f[x]} = image(T \ {x}) /\ f[x] \in image(T)
      BY <2>2, <3>1
    <3>3. g[T \ {x}] = k[image(T \ {x})]
      <4>1. T \ {x} \in SUBSET T /\ T \ {x} # T /\ T \ {x} \in SUBSET I
        BY <2>2, <3>1
      <4>2. T \ {x} \notin bad
        BY <2>1, <4>1
      <4> QED BY <4>1, <4>2
    <3>4. g[T] = a[x] + g[T \ {x}]
      <4>1. T \in SUBSET I /\ x \in T
        BY <2>2, <3>1
      <4> HIDE DEF bad, image
      <4> QED BY <4>1, SumsTakeAny
    <3> DEFINE y == f[x]
               image_T == image(T)
    <3>5. y \in image_T /\ image_T \in SUBSET J /\ b[y] = a[x]
      BY <2>2, <3>1, <3>2
    <3>6. k[image_T] = b[y] + k[image_T \ {y}]
      <4> HIDE DEF y, image_T
      <4> HIDE DEF bad, image
      <4> QED BY <1>0, <3>5, SumsTakeAny
    <3> QED BY <2>2, <3>2, <3>3, <3>4, <3>5, <3>6
  <2> QED BY <2>3, <2>4
<1>2. image(I) = J
  OBVIOUS
<1>3. g[I] = k[image(I)]
  BY <1>1
<1> QED BY <1>2, <1>3

-----------------------------------------------------------------------------
(* The same of the sum as the community modules compute it.                *)

LEMMA TotalIsTheSum ==
  ASSUME NEW A, IsFiniteSet(A), NEW g, NEW h, AddsUp(g, h, A), NEW S \in SUBSET A
  PROVE  SumOver(h, S) = g[S]
<1>1. IsFiniteSet(S)
  BY FS_Subset
<1>2. SumOver(h, S) = (CHOOSE f : AddsUp(f, h, S))[S]
  BY DEF SumOver, MapThenSumSet, MapThenFoldSet, AddsUp, First
<1>3. PICK f : AddsUp(f, h, S) /\ SumOver(h, S) = f[S]
  BY <1>1, <1>2, SumsExist
<1> QED BY <1>1, <1>3, SumsAgree

LEMMA TotalOfNone == ASSUME NEW h PROVE SumOver(h, {}) = 0
<1>1. IsFiniteSet({})
  BY FS_EmptySet
<1>2. PICK g : AddsUp(g, h, {})
  BY <1>1, SumsExist
<1>3. {} \in SUBSET {} /\ g[{}] = 0
  BY <1>2 DEF AddsUp
<1> QED BY <1>1, <1>2, <1>3, TotalIsTheSum

LEMMA TotalType ==
  ASSUME NEW S, IsFiniteSet(S), NEW N \in {Nat, Int}, NEW h, \A x \in S : h[x] \in N
  PROVE  SumOver(h, S) \in N
<1>1. PICK g : AddsUp(g, h, S)
  BY SumsExist
<1>2. g \in [SUBSET S -> N]
  BY <1>1, SumsType
<1>3. SumOver(h, S) = g[S]
  BY <1>1, TotalIsTheSum
<1> QED BY <1>2, <1>3

(* Any element can be added last.                                          *)
LEMMA TotalTakesAny ==
  ASSUME NEW S, IsFiniteSet(S), NEW h, \A x \in S : h[x] \in Int, NEW x \in S
  PROVE  SumOver(h, S) = h[x] + SumOver(h, S \ {x})
<1>1. PICK g : AddsUp(g, h, S)
  BY SumsExist
<1>2. SumOver(h, S) = g[S] /\ SumOver(h, S \ {x}) = g[S \ {x}]
  BY <1>1, TotalIsTheSum
<1>3. S \in SUBSET S
  OBVIOUS
<1>4. g[S] = h[x] + g[S \ {x}]
  BY <1>1, <1>3, SumsTakeAny
<1> QED BY <1>2, <1>4

LEMMA TotalOfOne ==
  ASSUME NEW x, NEW h, h[x] \in Int
  PROVE  SumOver(h, {x}) = h[x]
<1>1. IsFiniteSet({x}) /\ {x} \ {x} = {}
  BY FS_Singleton
<1>2. SumOver(h, {x}) = h[x] + SumOver(h, {x} \ {x})
  BY <1>1, TotalTakesAny
<1> QED BY <1>1, <1>2, TotalOfNone

(* Only the numbers added up matter.                                       *)
LEMMA TotalAgrees ==
  ASSUME NEW S, IsFiniteSet(S), NEW a, NEW b, \A x \in S : a[x] = b[x]
  PROVE  SumOver(a, S) = SumOver(b, S)
<1>1. PICK g : AddsUp(g, a, S)
  BY SumsExist
<1>2. PICK k : AddsUp(k, b, S)
  BY SumsExist
<1>3. SumOver(a, S) = g[S] /\ SumOver(b, S) = k[S]
  BY <1>1, <1>2, TotalIsTheSum
<1> QED BY <1>1, <1>2, <1>3, SumsAgree

(* What counts for nothing can be left out.                                *)
LEMMA TotalWithoutZeros ==
  ASSUME NEW S, IsFiniteSet(S), NEW h, \A x \in S : h[x] \in Int,
         NEW P \in SUBSET S, \A x \in S \ P : h[x] = 0
  PROVE  SumOver(h, S) = SumOver(h, P)
<1> DEFINE bad == {T \in SUBSET S : P \subseteq T /\ SumOver(h, T) # SumOver(h, P)}
<1>1. bad = {}
  <2> SUFFICES ASSUME bad # {} PROVE FALSE
    OBVIOUS
  <2>1. PICK T \in bad : \A U \in SUBSET T : U # T => U \notin bad
    <3>1. bad \in SUBSET SUBSET S
      OBVIOUS
    <3> HIDE DEF bad
    <3> QED BY <3>1, SmallestSubset
  <2>2. T \in SUBSET S /\ P \subseteq T /\ SumOver(h, T) # SumOver(h, P)
    OBVIOUS
  <2>3. PICK x \in T : x \notin P
    BY <2>2
  <2>4. T \ {x} \in SUBSET T /\ T \ {x} # T /\ P \subseteq T \ {x} /\ T \ {x} \in SUBSET S
    BY <2>2, <2>3
  <2>5. SumOver(h, T \ {x}) = SumOver(h, P)
    BY <2>1, <2>4
  <2>6. IsFiniteSet(T) /\ \A y \in T : h[y] \in Int
    BY <2>2, FS_Subset
  <2>7. SumOver(h, T) = h[x] + SumOver(h, T \ {x})
    BY <2>3, <2>6, TotalTakesAny
  <2>8. IsFiniteSet(P) /\ SumOver(h, P) \in Int
    BY FS_Subset, TotalType
  <2>9. h[x] = 0
    BY <2>2, <2>3
  <2> HIDE DEF bad
  <2> QED BY <2>2, <2>5, <2>7, <2>8, <2>9
<1> QED BY <1>1

(* The sum over a set is that over a part of it and over the rest.         *)
LEMMA TotalOfTwo ==
  ASSUME NEW S, IsFiniteSet(S), NEW h, \A x \in S : h[x] \in Int, NEW A
  PROVE  SumOver(h, S) = SumOver(h, S \cap A) + SumOver(h, S \ A)
<1> DEFINE bad == {T \in SUBSET S : SumOver(h, T) # SumOver(h, T \cap A) + SumOver(h, T \ A)}
<1>1. bad = {}
  <2> SUFFICES ASSUME bad # {} PROVE FALSE
    OBVIOUS
  <2>1. PICK T \in bad : \A U \in SUBSET T : U # T => U \notin bad
    <3>1. bad \in SUBSET SUBSET S
      OBVIOUS
    <3> HIDE DEF bad
    <3> QED BY <3>1, SmallestSubset
  <2>2. T \in SUBSET S /\ SumOver(h, T) # SumOver(h, T \cap A) + SumOver(h, T \ A)
    OBVIOUS
  <2>3. \A U \in SUBSET T : IsFiniteSet(U) /\ SumOver(h, U) \in Int /\ \A x \in U : h[x] \in Int
    <3> TAKE U \in SUBSET T
    <3>1. IsFiniteSet(U) /\ \A x \in U : h[x] \in Int
      BY <2>2, FS_Subset
    <3> QED BY <3>1, TotalType
  <2>4. T # {}
    <3>1. {} \cap A = {} /\ {} \ A = {}
      OBVIOUS
    <3> QED BY <2>2, <3>1, TotalOfNone
  <2>5. PICK x \in T : TRUE
    BY <2>4
  <2> DEFINE U == T \ {x}
  <2>6. U \in SUBSET T /\ U # T /\ U \in SUBSET S
    BY <2>2, <2>5
  <2>7. SumOver(h, U) = SumOver(h, U \cap A) + SumOver(h, U \ A)
    BY <2>1, <2>6
  <2>8. SumOver(h, T) = h[x] + SumOver(h, U)
    BY <2>3, <2>5, TotalTakesAny
  <2>9. h[x] \in Int /\ SumOver(h, U \cap A) \in Int /\ SumOver(h, U \ A) \in Int
    <3>1. U \cap A \in SUBSET T /\ U \ A \in SUBSET T
      OBVIOUS
    <3> QED BY <2>3, <2>5, <3>1
  <2>10. CASE x \in A
    <3>1. T \ A = U \ A /\ (T \cap A) \ {x} = U \cap A /\ x \in T \cap A /\ T \cap A \in SUBSET T
      BY <2>10, <2>5
    <3>2. SumOver(h, T \cap A) = h[x] + SumOver(h, U \cap A)
      BY <2>3, <3>1, TotalTakesAny
    <3> HIDE DEF bad, U
    <3>3. SumOver(h, T \ A) = SumOver(h, U \ A)
      BY <3>1
    <3> QED BY <2>2, <2>7, <2>8, <2>9, <3>2, <3>3
  <2>11. CASE x \notin A
    <3>1. T \cap A = U \cap A /\ (T \ A) \ {x} = U \ A /\ x \in T \ A /\ T \ A \in SUBSET T
      BY <2>11, <2>5
    <3>2. SumOver(h, T \ A) = h[x] + SumOver(h, U \ A)
      BY <2>3, <3>1, TotalTakesAny
    <3> HIDE DEF bad, U
    <3>3. SumOver(h, T \cap A) = SumOver(h, U \cap A)
      BY <3>1
    <3> QED BY <2>2, <2>7, <2>8, <2>9, <3>2, <3>3
  <2> QED BY <2>10, <2>11
<1> QED BY <1>1

(* Renaming the elements one to one keeps the sum.                         *)
LEMMA TotalRenamed ==
  ASSUME NEW I, IsFiniteSet(I), NEW J, IsFiniteSet(J), NEW f \in [I -> J],
         \A x, y \in I : f[x] = f[y] => x = y,
         \A z \in J : \E x \in I : f[x] = z,
         NEW a, NEW b, \A x \in I : a[x] \in Int /\ b[f[x]] = a[x]
  PROVE  SumOver(a, I) = SumOver(b, J)
<1>1. PICK g : AddsUp(g, a, I)
  BY SumsExist
<1>2. PICK k : AddsUp(k, b, J)
  BY SumsExist
<1>3. SumOver(a, I) = g[I] /\ SumOver(b, J) = k[J]
  BY <1>1, <1>2, TotalIsTheSum
<1>4. g[I] = k[J]
  BY <1>1, <1>2, SumsRenamed
<1> QED BY <1>3, <1>4

-----------------------------------------------------------------------------
(* A difference of sums, and sums of sums.                                 *)

LEMMA TotalOfDifference ==
  ASSUME NEW S, IsFiniteSet(S), NEW a, NEW b, NEW d,
         \A x \in S : a[x] \in Int /\ b[x] \in Int /\ d[x] = a[x] - b[x]
  PROVE  SumOver(d, S) = SumOver(a, S) - SumOver(b, S)
<1> DEFINE bad == {T \in SUBSET S : SumOver(d, T) # SumOver(a, T) - SumOver(b, T)}
<1>1. bad = {}
  <2> SUFFICES ASSUME bad # {} PROVE FALSE
    OBVIOUS
  <2>1. PICK T \in bad : \A U \in SUBSET T : U # T => U \notin bad
    <3>1. bad \in SUBSET SUBSET S
      OBVIOUS
    <3> HIDE DEF bad
    <3> QED BY <3>1, SmallestSubset
  <2>2. T \in SUBSET S /\ SumOver(d, T) # SumOver(a, T) - SumOver(b, T)
    OBVIOUS
  <2>3. IsFiniteSet(T) /\ \A x \in T : a[x] \in Int /\ b[x] \in Int /\ d[x] = a[x] - b[x]
    BY <2>2, FS_Subset
  <2>4. T # {}
    <3>1. SumOver(a, {}) = 0 /\ SumOver(b, {}) = 0 /\ SumOver(d, {}) = 0
      BY TotalOfNone
    <3>2. SumOver(a, {}) - SumOver(b, {}) = SumOver(d, {})
      BY <3>1
    <3> QED BY <2>2, <3>2
  <2>5. PICK x \in T : TRUE
    BY <2>4
  <2> DEFINE U == T \ {x}
  <2>6. U \in SUBSET T /\ U # T /\ U \in SUBSET S /\ IsFiniteSet(U)
    BY <2>2, <2>5, FS_Subset
  <2>7. SumOver(d, U) = SumOver(a, U) - SumOver(b, U)
    BY <2>1, <2>6
  <2>8. \A y \in T : d[y] \in Int
    BY <2>3
  <2>9. /\ SumOver(a, T) = a[x] + SumOver(a, U) /\ SumOver(b, T) = b[x] + SumOver(b, U)
        /\ SumOver(d, T) = d[x] + SumOver(d, U)
    BY <2>3, <2>5, <2>8, TotalTakesAny
  <2>10. SumOver(a, U) \in Int /\ SumOver(b, U) \in Int
    BY <2>3, <2>6, TotalType
  <2> HIDE DEF bad, U
  <2> QED BY <2>2, <2>3, <2>5, <2>7, <2>9, <2>10
<1> QED BY <1>1

(* cut[j] is the part of S that f gives j for.                             *)
CutBy(cut, S, f, J) == \A j \in J : cut[j] = {x \in S : f[x] = j}

(* What is added up part by part comes to the whole, however many parts    *)
(* are empty.                                                              *)
LEMMA TotalByParts ==
  ASSUME NEW S, IsFiniteSet(S), NEW J, IsFiniteSet(J), NEW h, NEW f, NEW cut, NEW part,
         \A x \in S : h[x] \in Int, \A x \in S : f[x] \in J,
         CutBy(cut, S, f, J), \A j \in J : part[j] = SumOver(h, cut[j])
  PROVE  SumOver(part, J) = SumOver(h, S)
<1> DEFINE within(K) == {x \in S : f[x] \in K}
           bad == {K \in SUBSET J : SumOver(part, K) # SumOver(h, within(K))}
<1>1. bad = {}
  <2> SUFFICES ASSUME bad # {} PROVE FALSE
    OBVIOUS
  <2>1. PICK K \in bad : \A L \in SUBSET K : L # K => L \notin bad
    <3>1. bad \in SUBSET SUBSET J
      OBVIOUS
    <3> HIDE DEF bad
    <3> QED BY <3>1, SmallestSubset
  <2>2. K \in SUBSET J /\ SumOver(part, K) # SumOver(h, within(K))
    OBVIOUS
  <2>0. \A j \in J : part[j] = SumOver(h, {x \in S : f[x] = j})
    BY DEF CutBy
  <2>3. \A T \in SUBSET S : IsFiniteSet(T) /\ SumOver(h, T) \in Int /\ \A x \in T : h[x] \in Int
    <3> TAKE T \in SUBSET S
    <3>1. IsFiniteSet(T) /\ \A x \in T : h[x] \in Int
      BY FS_Subset
    <3> QED BY <3>1, TotalType
  <2>4. K # {}
    <3>1. within({}) = {} /\ SumOver(part, {}) = 0 /\ SumOver(h, {}) = 0
      BY TotalOfNone
    <3> QED BY <2>2, <3>1
  <2>5. PICK j \in K : TRUE
    BY <2>4
  <2> DEFINE L == K \ {j}
             one == {x \in S : f[x] = j}
  <2>6. L \in SUBSET K /\ L # K /\ L \in SUBSET J
    BY <2>2, <2>5
  <2>7. SumOver(part, L) = SumOver(h, within(L))
    BY <2>1, <2>6
  <2>8. IsFiniteSet(K) /\ (\A i \in K : part[i] \in Int) /\ part[j] = SumOver(h, one)
    <3>1. \A i \in J : cut[i] \in SUBSET S /\ part[i] = SumOver(h, cut[i])
      BY DEF CutBy
    <3>2. \A i \in J : part[i] \in Int
      BY <2>3, <3>1
    <3>3. IsFiniteSet(K)
      BY <2>2, FS_Subset
    <3> QED BY <2>0, <2>2, <2>5, <3>2, <3>3
  <2>9. SumOver(part, K) = part[j] + SumOver(part, L)
    BY <2>5, <2>8, TotalTakesAny
  <2>10. SumOver(h, within(K)) = SumOver(h, one) + SumOver(h, within(L))
    <3>1. within(K) \in SUBSET S /\ within(K) \cap one = one /\ within(K) \ one = within(L)
      BY <2>5
    <3> HIDE DEF within, one
    <3>2. SumOver(h, within(K)) = SumOver(h, within(K) \cap one) + SumOver(h, within(K) \ one)
      BY <2>3, <3>1, TotalOfTwo
    <3> QED BY <3>1, <3>2
  <2> HIDE DEF bad, within, one, L
  <2> QED BY <2>2, <2>7, <2>8, <2>9, <2>10
<1>2. within(J) = S
  OBVIOUS
<1>3. SumOver(part, J) = SumOver(h, within(J))
  BY <1>1
<1> HIDE DEF within
<1> QED BY <1>2, <1>3

LEMMA TotalOfBoth ==
  ASSUME NEW S, IsFiniteSet(S), NEW a, NEW b, NEW s,
         \A x \in S : a[x] \in Int /\ b[x] \in Int /\ s[x] = a[x] + b[x]
  PROVE  SumOver(s, S) = SumOver(a, S) + SumOver(b, S)
<1>1. \A x \in S : s[x] \in Int /\ b[x] \in Int /\ a[x] = s[x] - b[x]
  OBVIOUS
<1>2. SumOver(a, S) = SumOver(s, S) - SumOver(b, S)
  BY <1>1, TotalOfDifference
<1>3. SumOver(s, S) \in Int /\ SumOver(b, S) \in Int
  BY <1>1, TotalType
<1> QED BY <1>2, <1>3

LEMMA TotalOfSame ==
  ASSUME NEW S, IsFiniteSet(S), NEW h, NEW c \in Int, \A x \in S : h[x] = c
  PROVE  SumOver(h, S) = c * Cardinality(S)
<1> DEFINE bad == {T \in SUBSET S : SumOver(h, T) # c * Cardinality(T)}
<1>1. bad = {}
  <2> SUFFICES ASSUME bad # {} PROVE FALSE
    OBVIOUS
  <2>1. PICK T \in bad : \A U \in SUBSET T : U # T => U \notin bad
    <3>1. bad \in SUBSET SUBSET S
      OBVIOUS
    <3> HIDE DEF bad
    <3> QED BY <3>1, SmallestSubset
  <2>2. T \in SUBSET S /\ SumOver(h, T) # c * Cardinality(T)
    OBVIOUS
  <2>3. IsFiniteSet(T) /\ \A x \in T : h[x] \in Int
    BY <2>2, FS_Subset
  <2>4. T # {}
    <3>1. Cardinality({}) = 0 /\ c * 0 = 0
      BY FS_EmptySet
    <3> QED BY <2>2, <3>1, TotalOfNone
  <2>5. PICK x : x \in T
    BY <2>4
  <2> DEFINE U == T \ {x}
             n == Cardinality(U)
  <2>6. U \in SUBSET T /\ U # T /\ U \in SUBSET S
    BY <2>2, <2>5
  <2>7. SumOver(h, U) = c * n
    BY <2>1, <2>6
  <2>8. SumOver(h, T) = c + c * n
    <3>1. SumOver(h, T) = h[x] + SumOver(h, U)
      BY <2>3, <2>5, TotalTakesAny
    <3> QED BY <2>2, <2>5, <2>7, <3>1
  <2>9. n \in Nat /\ Cardinality(T) = n + 1
    <3>1. IsFiniteSet(U) /\ Cardinality(T) \in Nat
      BY <2>3, FS_RemoveElement, FS_CardinalityType
    <3>2. n \in Nat /\ n = Cardinality(T) - 1
      BY <2>3, <2>5, <3>1, FS_RemoveElement, FS_CardinalityType
    <3> HIDE DEF n
    <3> QED BY <3>1, <3>2
  <2> HIDE DEF bad, U, n
  <2>10. c * (n + 1) = c + c * n
    BY <2>9
  <2> QED BY <2>2, <2>8, <2>9, <2>10
<1>2. S \in SUBSET S
  OBVIOUS
<1> HIDE DEF bad
<1> QED BY <1>1, <1>2 DEF bad

(* What is counted part by part comes to the whole.                        *)
LEMMA CountByParts ==
  ASSUME NEW S, IsFiniteSet(S), NEW J, IsFiniteSet(J), NEW f, NEW cut, NEW part,
         \A x \in S : f[x] \in J, CutBy(cut, S, f, J), \A j \in J : part[j] = Cardinality(cut[j])
  PROVE  SumOver(part, J) = Cardinality(S)
<1> DEFINE one == [x \in S |-> 1]
<1>1. \A x \in S : one[x] \in Int /\ one[x] = 1
  OBVIOUS
<1> HIDE DEF one
<1>2. \A T \in SUBSET S : IsFiniteSet(T) /\ SumOver(one, T) = Cardinality(T)
  <2> TAKE T \in SUBSET S
  <2>1. IsFiniteSet(T) /\ Cardinality(T) \in Nat
    BY FS_Subset, FS_CardinalityType
  <2>2. SumOver(one, T) = 1 * Cardinality(T)
    BY <1>1, <2>1, TotalOfSame
  <2> QED BY <2>1, <2>2
<1>3. \A j \in J : part[j] = SumOver(one, cut[j])
  <2> TAKE j \in J
  <2>1. cut[j] \in SUBSET S
    BY DEF CutBy
  <2> QED BY <1>2, <2>1
<1>4. SumOver(part, J) = SumOver(one, S)
  BY <1>1, <1>3, TotalByParts
<1> QED BY <1>2, <1>4

LEMMA CountRenamed ==
  ASSUME NEW I, IsFiniteSet(I), NEW J, NEW f \in [I -> J],
         \A x, y \in I : f[x] = f[y] => x = y,
         \A z \in J : \E x \in I : f[x] = z
  PROVE  IsFiniteSet(J) /\ Cardinality(J) = Cardinality(I)
<1>1. f \in Bijection(I, J)
  BY DEF Bijection, Injection, Surjection, IsInjective
<1> QED BY <1>1, FS_Bijection DEF ExistsBijection

(* cut[u] is the part of I that u is a member of.                          *)
SharedBy(cut, I, who, U) == \A u \in U : cut[u] = {x \in I : u \in who[x]}

(* Everything of I gives the same to each of its members: what each member *)
(* gets, added up, is what each thing gives to all of its members.         *)
LEMMA TotalPerMember ==
  ASSUME NEW I, IsFiniteSet(I), NEW U, IsFiniteSet(U), NEW h, NEW who, NEW cut, NEW gets, NEW gives,
         \A x \in I : h[x] \in Int /\ who[x] \in SUBSET U,
         SharedBy(cut, I, who, U), \A u \in U : gets[u] = SumOver(h, cut[u]),
         \A x \in I : gives[x] = h[x] * Cardinality(who[x])
  PROVE  SumOver(gets, U) = SumOver(gives, I)
<1> DEFINE from(T) == [u \in U |-> SumOver(h, {x \in T : u \in who[x]})]
           bad == {T \in SUBSET I : SumOver(from(T), U) # SumOver(gives, T)}
<1>0. \A x \in I : gives[x] \in Int
  <2> TAKE x \in I
  <2>1. IsFiniteSet(who[x])
    BY FS_Subset
  <2>2. Cardinality(who[x]) \in Nat
    BY <2>1, FS_CardinalityType
  <2> QED BY <2>2
<1>1. bad = {}
  <2> SUFFICES ASSUME bad # {} PROVE FALSE
    OBVIOUS
  <2>1. PICK T \in bad : \A V \in SUBSET T : V # T => V \notin bad
    <3>1. bad \in SUBSET SUBSET I
      OBVIOUS
    <3> HIDE DEF bad
    <3> QED BY <3>1, SmallestSubset
  <2>2. T \in SUBSET I /\ SumOver(from(T), U) # SumOver(gives, T)
    OBVIOUS
  <2>3. IsFiniteSet(T)
    BY <2>2, FS_Subset
  <2>4. \A V \in SUBSET I : \A u \in U : from(V)[u] \in Int
    <3> SUFFICES ASSUME NEW V \in SUBSET I, NEW u \in U PROVE from(V)[u] \in Int
      OBVIOUS
    <3> DEFINE W == {x \in V : u \in who[x]}
    <3>1. IsFiniteSet(W) /\ \A x \in W : h[x] \in Int
      BY FS_Subset
    <3>2. SumOver(h, W) \in Int
      <4> HIDE DEF W
      <4> QED BY <3>1, TotalType
    <3> QED BY <3>2
  <2>5. T # {}
    <3> SUFFICES ASSUME T = {} PROVE FALSE
      OBVIOUS
    <3>1. \A u \in U : from({})[u] = 0
      <4> TAKE u \in U
      <4>1. {x \in {} : u \in who[x]} = {}
        OBVIOUS
      <4> QED BY <4>1, TotalOfNone
    <3> HIDE DEF from
    <3>2. SumOver(from({}), U) = 0 * Cardinality(U)
      BY <3>1, TotalOfSame
    <3>3. 0 * Cardinality(U) = 0
      BY FS_CardinalityType
    <3> QED BY <2>2, <3>2, <3>3, TotalOfNone
  <2>6. PICK x : x \in T
    BY <2>5
  <2> DEFINE V == T \ {x}
             add == [u \in U |-> IF u \in who[x] THEN h[x] ELSE 0]
  <2>7. V \in SUBSET T /\ V # T /\ V \in SUBSET I /\ x \in I
    BY <2>2, <2>6
  <2>8. SumOver(from(V), U) = SumOver(gives, V)
    BY <2>1, <2>7
  <2>9. \A u \in U : from(T)[u] = from(V)[u] + add[u]
    <3> TAKE u \in U
    <3> DEFINE A == {y \in T : u \in who[y]}
               B == {y \in V : u \in who[y]}
    <3>1. IsFiniteSet(A) /\ \A y \in A : h[y] \in Int
      BY <2>2, <2>3, FS_Subset
    <3>2. from(T)[u] = SumOver(h, A) /\ from(V)[u] = SumOver(h, B) /\ from(V)[u] \in Int
      BY <2>4, <2>7
    <3>3. CASE u \in who[x]
      <4>1. x \in A /\ B = A \ {x}
        BY <2>6, <3>3
      <4> HIDE DEF A, B
      <4>2. SumOver(h, A) = h[x] + SumOver(h, B)
        BY <3>1, <4>1, TotalTakesAny
      <4> QED BY <2>7, <3>2, <3>3, <4>2
    <3>4. CASE u \notin who[x]
      <4>1. A = B
        BY <3>4
      <4>2. add[u] = 0
        BY <3>4
      <4> HIDE DEF A, B, from, add, V
      <4> QED BY <3>2, <4>1, <4>2
    <3> QED BY <3>3, <3>4
  <2>10. SumOver(from(T), U) = SumOver(from(V), U) + SumOver(add, U)
    <3>1. \A u \in U : add[u] \in Int /\ from(V)[u] \in Int
      <4>1. \A u \in U : add[u] \in Int
        BY <2>7
      <4> HIDE DEF add, from, V
      <4> QED BY <2>4, <2>7, <4>1
    <3> HIDE DEF add, from, V
    <3> QED BY <2>9, <3>1, TotalOfBoth
  <2>11. SumOver(add, U) = gives[x]
    <3> DEFINE M == who[x]
    <3>1. M \in SUBSET U /\ IsFiniteSet(M) /\ h[x] \in Int
      BY <2>7, FS_Subset
    <3>2. /\ \A u \in U : add[u] \in Int
          /\ \A u \in U \ M : add[u] = 0
          /\ \A u \in M : add[u] = h[x]
      BY <3>1
    <3> HIDE DEF add, M
    <3>3. SumOver(add, U) = SumOver(add, M)
      BY <3>1, <3>2, TotalWithoutZeros
    <3>4. SumOver(add, M) = h[x] * Cardinality(M)
      BY <3>1, <3>2, TotalOfSame
    <3> QED BY <2>7, <3>3, <3>4 DEF M
  <2>12. SumOver(gives, T) = gives[x] + SumOver(gives, V)
    BY <1>0, <2>2, <2>3, <2>6, TotalTakesAny
  <2>13. SumOver(gives, V) \in Int /\ gives[x] \in Int
    <3>1. IsFiniteSet(V) /\ \A y \in V : gives[y] \in Int
      BY <1>0, <2>3, <2>7, FS_Subset
    <3> HIDE DEF V
    <3> QED BY <1>0, <2>7, <3>1, TotalType
  <2> HIDE DEF from, V, add, bad
  <2> QED BY <2>2, <2>8, <2>10, <2>11, <2>12, <2>13
<1>2. SumOver(from(I), U) = SumOver(gives, I)
  <2>1. I \in SUBSET I /\ I \notin bad
    BY <1>1
  <2> HIDE DEF from
  <2> QED BY <2>1
<1>3. SumOver(gets, U) = SumOver(from(I), U)
  <2>1. \A u \in U : gets[u] = SumOver(h, {x \in I : u \in who[x]})
    BY DEF SharedBy
  <2> QED BY <2>1, TotalAgrees
<1> QED BY <1>2, <1>3
=============================================================================
