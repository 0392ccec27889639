------------------------------ MODULE SumFacts ------------------------------
(***************************************************************************)
(* Facts about SumFunctionOnSet of the community modules, for every finite *)
(* set and integer function: what the proofs about totals (the costs of    *)
(* all generations, the value of all holdings) rest on.                    *)
(*                                                                         *)
(* The sum is a recursive function over the subsets of the set, whose      *)
(* existence has to be shown before its equation may be used.  Induction   *)
(* is over sets (SubsetInduction): a set of subsets that contains each one *)
(* all of whose proper subsets it contains is the whole powerset.          *)
(***************************************************************************)
EXTENDS Integers, Functions, FiniteSetTheorems, WellFoundedInduction, TLAPS

(* From the well-foundedness of the strict subset ordering: a bad subset   *)
(* of least extent would have only good subsets.                           *)
LEMMA SubsetInduction ==
  ASSUME NEW S, IsFiniteSet(S), NEW Good,
         \A T \in SUBSET S : (\A U \in SUBSET T : U # T => U \in Good) => T \in Good
  PROVE  \A T \in SUBSET S : T \in Good
<1> DEFINE Bad == {T \in SUBSET S : T \notin Good}
<1> SUFFICES ASSUME Bad # {}
             PROVE  FALSE
  OBVIOUS
<1>1. Bad \subseteq FiniteSubsetsOf(S)
  BY FS_Subset DEF FiniteSubsetsOf
<1>2. IsWellFoundedOn(StrictSubsetOrdering(S), FiniteSubsetsOf(S))
  BY FS_StrictSubsetOrderingWellFounded
<1> HIDE DEF Bad
<1>3. PICK T \in Bad : \A U \in Bad : <<U, T>> \notin StrictSubsetOrdering(S)
  BY <1>1, <1>2, WFMin
<1>4. \A U \in SUBSET T : U # T => U \in Good
  BY <1>3 DEF Bad, StrictSubsetOrdering
<1> QED
  BY <1>3, <1>4 DEF Bad

(* The element the community modules' fold takes out first.                *)
First(s) == CHOOSE x \in s : TRUE

(* g gives each subset of S the sum of f over it.                          *)
Sums(g, f, S) ==
  g = [s \in SUBSET S |-> IF s = {} THEN 0 ELSE f[First(s)] + g[s \ {First(s)}]]

(* The definition of the sum, which chooses such a g.                      *)
LEMMA SumUnfolds ==
  ASSUME NEW f, NEW S
  PROVE  SumFunctionOnSet(f, S) = (CHOOSE g : Sums(g, f, S))[S]
  BY DEF SumFunctionOnSet, FoldFunctionOnSet, MapThenFoldSet, Sums, First

(* Two functions defined this way over two sets agree on the subsets of    *)
(* both.                                                                   *)
LEMMA SumsAgree ==
  ASSUME NEW f, NEW S, IsFiniteSet(S), NEW T \in SUBSET S,
         NEW g, Sums(g, f, S), NEW h, Sums(h, f, T)
  PROVE  \A s \in SUBSET T : g[s] = h[s]
<1> DEFINE Good == {s \in SUBSET T : g[s] = h[s]}
<1>1. ASSUME NEW s \in SUBSET T, \A u \in SUBSET s : u # s => u \in Good
      PROVE  g[s] = h[s]
  <2>1. CASE s = {}
    BY <2>1 DEF Sums
  <2>2. CASE s # {}
    <3> DEFINE u == s \ {First(s)}
    <3>1. First(s) \in s
      BY <2>2 DEF First
    <3>2. u \in SUBSET s /\ u # s
      BY <3>1
    <3>3. g[u] = h[u]
      BY <1>1, <3>2
    <3>4. g[s] = f[First(s)] + g[u] /\ h[s] = f[First(s)] + h[u]
      BY <2>2 DEF Sums
    <3> QED
      BY <3>3, <3>4
  <2> QED
    BY <2>1, <2>2
<1>2. IsFiniteSet(T)
  BY FS_Subset
<1> HIDE DEF Good
<1>3. \A s \in SUBSET T : (\A u \in SUBSET s : u # s => u \in Good) => s \in Good
  BY <1>1 DEF Good
<1>4. \A s \in SUBSET T : s \in Good
  BY <1>2, <1>3, SubsetInduction
<1> QED
  BY <1>4 DEF Good

(* There is such a function.                                               *)
LEMMA SumsExist ==
  ASSUME NEW f, NEW S, IsFiniteSet(S)
  PROVE  \E g : Sums(g, f, S)
<1> DEFINE Good == {T \in SUBSET S : \E g : Sums(g, f, T)}
           Over(T) == CHOOSE g : Sums(g, f, T)
<1>1. ASSUME NEW T \in SUBSET S, \A U \in SUBSET T : U # T => U \in Good
      PROVE  \E g : Sums(g, f, T)
  <2> DEFINE Rest(s) == s \ {First(s)}
             h == [s \in SUBSET T |-> IF s = {} THEN 0
                                      ELSE f[First(s)] + Over(Rest(s))[Rest(s)]]
  <2>1. ASSUME NEW s \in SUBSET T, s # {}
        PROVE  /\ First(s) \in s
               /\ Rest(s) \in SUBSET T /\ Rest(s) # T
               /\ Sums(Over(Rest(s)), f, Rest(s))
    <3>1. First(s) \in s
      BY <2>1 DEF First
    <3>2. Rest(s) \in SUBSET T /\ Rest(s) # T
      BY <3>1
    <3>3. \E g : Sums(g, f, Rest(s))
      BY <1>1, <3>2
    <3>4. Sums(Over(Rest(s)), f, Rest(s))
      BY <3>3
    <3> QED
      BY <3>1, <3>2, <3>4
  <2> HIDE DEF Over
  <2>2. ASSUME NEW s \in SUBSET T, s # {}
        PROVE  Over(Rest(s))[Rest(s)] = h[Rest(s)]
    <3> DEFINE u == Rest(s)
    <3>1. u \in SUBSET T /\ Sums(Over(u), f, u)
      BY <2>1, <2>2
    <3>2. CASE u = {}
      BY <3>1, <3>2 DEF Sums
    <3>3. CASE u # {}
      <4>1. /\ Rest(u) \in SUBSET u
            /\ Sums(Over(Rest(u)), f, Rest(u))
        BY <2>1, <3>1, <3>3
      <4>2. IsFiniteSet(u)
        BY <3>1, FS_Subset
      <4>3. Over(u)[Rest(u)] = Over(Rest(u))[Rest(u)]
        <5> HIDE DEF Rest, u
        <5>1. \A x \in SUBSET Rest(u) : Over(u)[x] = Over(Rest(u))[x]
          BY <3>1, <4>1, <4>2, SumsAgree
        <5> QED
          BY <5>1
      <4>4. Over(u)[u] = f[First(u)] + Over(u)[Rest(u)]
        BY <3>1, <3>3 DEF Sums
      <4>5. h[u] = f[First(u)] + Over(Rest(u))[Rest(u)]
        BY <3>1, <3>3
      <4> QED
        BY <4>3, <4>4, <4>5
    <3> QED
      BY <3>2, <3>3
  <2>3. Sums(h, f, T)
    <3>1. h = [s \in SUBSET T |-> IF s = {} THEN 0 ELSE f[First(s)] + h[Rest(s)]]
      <4> DEFINE k == [s \in SUBSET T |-> IF s = {} THEN 0 ELSE f[First(s)] + h[Rest(s)]]
      <4>1. \A s \in SUBSET T : h[s] = k[s]
        BY <2>2
      <4> QED
        BY <4>1
    <3> QED
      BY <3>1 DEF Sums
  <2> QED
    BY <2>3
<1> HIDE DEF Good
<1>2. \A T \in SUBSET S : (\A U \in SUBSET T : U # T => U \in Good) => T \in Good
  BY <1>1 DEF Good
<1>3. \A T \in SUBSET S : T \in Good
  BY <1>2, SubsetInduction
<1>4. S \in Good
  BY <1>3
<1> QED
  BY <1>4 DEF Good

(* So the sum is the value of a function that satisfies the equation ...   *)
LEMMA SumIsOfSums ==
  ASSUME NEW f, NEW S, IsFiniteSet(S)
  PROVE  \E g : Sums(g, f, S) /\ SumFunctionOnSet(f, S) = g[S]
  BY SumUnfolds, SumsExist

(* ... and satisfies it itself.                                            *)
LEMMA SumDef ==
  ASSUME NEW f, NEW S, IsFiniteSet(S)
  PROVE  SumFunctionOnSet(f, S) =
           IF S = {} THEN 0 ELSE f[First(S)] + SumFunctionOnSet(f, S \ {First(S)})
<1>1. PICK T \in SUBSET S : T = S \ {First(S)}
  OBVIOUS
<1>2. IsFiniteSet(T)
  BY FS_Subset
<1>3. PICK g : Sums(g, f, S) /\ SumFunctionOnSet(f, S) = g[S]
  BY SumIsOfSums
<1>4. PICK h : Sums(h, f, T) /\ SumFunctionOnSet(f, T) = h[T]
  BY <1>2, SumIsOfSums
<1>5. \A s \in SUBSET T : g[s] = h[s]
  BY <1>3, <1>4, SumsAgree
<1>6. g[S] = IF S = {} THEN 0 ELSE f[First(S)] + g[T]
  BY <1>1, <1>3 DEF Sums
<1> QED
  BY <1>1, <1>3, <1>4, <1>5, <1>6

(* The sum over a finite set of integers is one, ...                       *)
LEMMA SumType ==
  ASSUME NEW S, IsFiniteSet(S), NEW f, \A x \in S : f[x] \in Int
  PROVE  SumFunctionOnSet(f, S) \in Int
<1> DEFINE Good == {T \in SUBSET S : SumFunctionOnSet(f, T) \in Int}
<1>1. ASSUME NEW T \in SUBSET S, \A U \in SUBSET T : U # T => U \in Good
      PROVE  SumFunctionOnSet(f, T) \in Int
  <2>1. IsFiniteSet(T)
    BY FS_Subset
  <2>2. CASE T = {}
    BY <2>1, <2>2, SumDef
  <2>3. CASE T # {}
    <3>1. First(T) \in T
      BY <2>3 DEF First
    <3>2. SumFunctionOnSet(f, T \ {First(T)}) \in Int
      BY <1>1, <3>1
    <3>3. SumFunctionOnSet(f, T) = f[First(T)] + SumFunctionOnSet(f, T \ {First(T)})
      BY <2>1, <2>3, SumDef
    <3> QED
      BY <3>1, <3>2, <3>3
  <2> QED
    BY <2>2, <2>3
<1> HIDE DEF Good
<1>2. \A T \in SUBSET S : (\A U \in SUBSET T : U # T => U \in Good) => T \in Good
  BY <1>1 DEF Good
<1>3. \A T \in SUBSET S : T \in Good
  BY <1>2, SubsetInduction
<1> QED
  BY <1>3 DEF Good

(* ... of which any element may be taken out first.                        *)
LEMMA SumTakeOut ==
  ASSUME NEW S, IsFiniteSet(S), NEW f, \A y \in S : f[y] \in Int, NEW x \in S
  PROVE  SumFunctionOnSet(f, S) = f[x] + SumFunctionOnSet(f, S \ {x})
<1> DEFINE Sum(T) == SumFunctionOnSet(f, T)
           Good == {T \in SUBSET S : \A z \in T : Sum(T) = f[z] + Sum(T \ {z})}
<1>s. \A T \in SUBSET S : IsFiniteSet(T) /\ Sum(T) \in Int
  <2> TAKE T \in SUBSET S
  <2>1. IsFiniteSet(T)
    BY FS_Subset
  <2> QED
    BY <2>1, SumType
<1>1. ASSUME NEW T \in SUBSET S, \A U \in SUBSET T : U # T => U \in Good,
             NEW z \in T
      PROVE  Sum(T) = f[z] + Sum(T \ {z})
  <2> DEFINE a == First(T)
  <2>1. a \in T
    BY DEF First
  <2>2. Sum(T) = f[a] + Sum(T \ {a})
    BY <1>s, SumDef
  <2> HIDE DEF Sum, a
  <2>3. CASE z = a
    BY <2>2, <2>3
  <2>4. CASE z # a
    <3>1. T \ {a} \in Good /\ T \ {z} \in Good
      BY <1>1, <2>1
    <3>2. (T \ {a}) \ {z} = (T \ {z}) \ {a} /\ z \in T \ {a} /\ a \in T \ {z}
      BY <2>1, <2>4
    <3>3. Sum(T \ {a}) = f[z] + Sum((T \ {a}) \ {z})
      BY <3>1, <3>2
    <3>4. Sum(T \ {z}) = f[a] + Sum((T \ {a}) \ {z})
      BY <3>1, <3>2
    <3>5. (T \ {a}) \ {z} \in SUBSET S
      OBVIOUS
    <3>6. f[a] \in Int /\ f[z] \in Int /\ Sum((T \ {a}) \ {z}) \in Int
      BY <1>s, <2>1, <3>5
    <3> QED
      BY <2>2, <3>3, <3>4, <3>6
  <2> QED
    BY <2>3, <2>4
<1> HIDE DEF Good
<1>2. \A T \in SUBSET S : (\A U \in SUBSET T : U # T => U \in Good) => T \in Good
  BY <1>1 DEF Good
<1>3. \A T \in SUBSET S : T \in Good
  BY <1>2, SubsetInduction
<1>4. S \in Good
  BY <1>3
<1> QED
  BY <1>4 DEF Good

(* The sum depends on the function's values over the set only.             *)
LEMMA SumCongruence ==
  ASSUME NEW S, IsFiniteSet(S), NEW f, NEW g, \A x \in S : f[x] = g[x]
  PROVE  SumFunctionOnSet(f, S) = SumFunctionOnSet(g, S)
<1> DEFINE Good == {T \in SUBSET S : SumFunctionOnSet(f, T) = SumFunctionOnSet(g, T)}
<1>1. ASSUME NEW T \in SUBSET S, \A U \in SUBSET T : U # T => U \in Good
      PROVE  SumFunctionOnSet(f, T) = SumFunctionOnSet(g, T)
  <2>1. IsFiniteSet(T)
    BY FS_Subset
  <2>2. CASE T = {}
    BY <2>1, <2>2, SumDef
  <2>3. CASE T # {}
    <3>1. First(T) \in T
      BY <2>3 DEF First
    <3>2. SumFunctionOnSet(f, T \ {First(T)}) = SumFunctionOnSet(g, T \ {First(T)})
      BY <1>1, <3>1
    <3>3. /\ SumFunctionOnSet(f, T) = f[First(T)] + SumFunctionOnSet(f, T \ {First(T)})
          /\ SumFunctionOnSet(g, T) = g[First(T)] + SumFunctionOnSet(g, T \ {First(T)})
      BY <2>1, <2>3, SumDef
    <3> QED
      BY <3>1, <3>2, <3>3
  <2> QED
    BY <2>2, <2>3
<1> HIDE DEF Good
<1>2. \A T \in SUBSET S : (\A U \in SUBSET T : U # T => U \in Good) => T \in Good
  BY <1>1 DEF Good
<1>3. \A T \in SUBSET S : T \in Good
  BY <1>2, SubsetInduction
<1> QED
  BY <1>3 DEF Good

(* Nothing adds up to nothing.                                             *)
LEMMA SumOfZeros ==
  ASSUME NEW S, IsFiniteSet(S), NEW f, \A x \in S : f[x] = 0
  PROVE  SumFunctionOnSet(f, S) = 0
<1> DEFINE Good == {T \in SUBSET S : SumFunctionOnSet(f, T) = 0}
<1>1. ASSUME NEW T \in SUBSET S, \A U \in SUBSET T : U # T => U \in Good
      PROVE  SumFunctionOnSet(f, T) = 0
  <2>1. IsFiniteSet(T)
    BY FS_Subset
  <2>2. SumFunctionOnSet(f, T) =
          IF T = {} THEN 0 ELSE f[First(T)] + SumFunctionOnSet(f, T \ {First(T)})
    BY <2>1, SumDef
  <2>3. T # {} => First(T) \in T
    BY DEF First
  <2> QED
    BY <1>1, <2>2, <2>3
<1> HIDE DEF Good
<1>2. \A T \in SUBSET S : (\A U \in SUBSET T : U # T => U \in Good) => T \in Good
  BY <1>1 DEF Good
<1>3. \A T \in SUBSET S : T \in Good
  BY <1>2, SubsetInduction
<1> QED
  BY <1>3 DEF Good

(* What one changed value does to the sum.                                 *)
LEMMA SumUpdated ==
  ASSUME NEW S, IsFiniteSet(S), NEW x \in S,
         NEW f, \A y \in S : f[y] \in Int,
         NEW g, g[x] \in Int, \A y \in S \ {x} : g[y] = f[y]
  PROVE  SumFunctionOnSet(g, S) = SumFunctionOnSet(f, S) + g[x] - f[x]
<1>1. SumFunctionOnSet(f, S) = f[x] + SumFunctionOnSet(f, S \ {x})
  BY SumTakeOut
<1>2. SumFunctionOnSet(g, S) = g[x] + SumFunctionOnSet(g, S \ {x})
  <2>1. \A y \in S : g[y] \in Int
    OBVIOUS
  <2> QED
    BY <2>1, SumTakeOut
<1>3. IsFiniteSet(S \ {x})
  BY FS_RemoveElement
<1>4. SumFunctionOnSet(g, S \ {x}) = SumFunctionOnSet(f, S \ {x})
  BY <1>3, SumCongruence
<1>5. SumFunctionOnSet(f, S \ {x}) \in Int
  BY <1>3, SumType
<1> QED
  BY <1>1, <1>2, <1>4, <1>5

(* Without negative values a part does not sum to more than the whole.     *)
LEMMA SumOfPart ==
  ASSUME NEW S, IsFiniteSet(S), NEW f, \A x \in S : f[x] \in Nat, NEW P \in SUBSET S
  PROVE  /\ SumFunctionOnSet(f, S) \in Nat
         /\ SumFunctionOnSet(f, P) <= SumFunctionOnSet(f, S)
<1> DEFINE Sum(T) == SumFunctionOnSet(f, T)
           Good == {T \in SUBSET S : 0 <= Sum(T) /\ (P \subseteq T => Sum(P) <= Sum(T))}
<1>s. \A T \in SUBSET S : IsFiniteSet(T) /\ Sum(T) \in Int
  <2> TAKE T \in SUBSET S
  <2>1. IsFiniteSet(T)
    BY FS_Subset
  <2> QED
    BY <2>1, SumType
<1>1. ASSUME NEW T \in SUBSET S, \A U \in SUBSET T : U # T => U \in Good
      PROVE  0 <= Sum(T) /\ (P \subseteq T => Sum(P) <= Sum(T))
  <2>0. \A x \in T : Sum(T) = f[x] + Sum(T \ {x})
    <3> TAKE x \in T
    <3> QED
      BY <1>s, SumTakeOut
  <2> HIDE DEF Sum
  <2>r. ASSUME NEW x \in T
        PROVE  /\ f[x] \in Nat /\ Sum(T \ {x}) \in Int
               /\ T \ {x} \in Good
               /\ Sum(T) = f[x] + Sum(T \ {x})
    BY <1>1, <1>s, <2>0
  <2>1. CASE T = {}
    <3>1. Sum(T) = 0
      BY <2>1, FS_EmptySet, SumDef DEF Sum
    <3> QED
      BY <2>1, <3>1, <1>s
  <2>2. ASSUME NEW x \in T
        PROVE  0 <= Sum(T)
    <3>1. 0 <= Sum(T \ {x})
      BY <2>r, <2>2 DEF Good
    <3>2. f[x] \in Nat /\ Sum(T \ {x}) \in Int /\ Sum(T) = f[x] + Sum(T \ {x})
      BY <2>r, <2>2
    <3> QED
      BY <3>1, <3>2
  <2>3. ASSUME P \subseteq T
        PROVE  Sum(P) <= Sum(T)
    <3>1. CASE P = T
      BY <3>1, <1>s
    <3>2. CASE P # T
      <4>1. PICK x \in T : x \notin P
        BY <2>3, <3>2
      <4>2. Sum(P) <= Sum(T \ {x})
        BY <2>3, <2>r, <4>1 DEF Good
      <4> QED
        BY <1>s, <2>r, <4>2
    <3> QED
      BY <3>1, <3>2
  <2> QED
    BY <2>1, <2>2, <2>3
<1>2. ASSUME NEW T \in SUBSET S, \A U \in SUBSET T : U # T => U \in Good
      PROVE  T \in Good
  BY <1>1, <1>2
<1> HIDE DEF Good
<1>3. \A T \in SUBSET S : T \in Good
  BY <1>2, SubsetInduction
<1> QED
  BY <1>3, <1>s DEF Good
=============================================================================
