------------------------------- MODULE Sums -------------------------------
(***************************************************************************)
(* Sums over finite sets: what SumFunctionOnSet of the community modules   *)
(* computes, for every set and every function.  Induction goes by the      *)
(* smallest counterexample, in Nat and among the subsets of a finite set.  *)
(***************************************************************************)
EXTENDS Integers, FiniteSets, Functions, FiniteSetTheorems, WellFoundedInduction, TLAPS

(* A set of naturals has a least element.                                  *)
LEMMA Least ==
    ASSUME NEW T \in SUBSET Nat, T # {}
    PROVE  \E n \in T : \A m \in T : n <= m
<1>1. PICK x \in T : \A y \in T : ~(<<y, x>> \in OpToRel(<, Nat))
    BY NatLessThanWellFounded, WFMin
<1>2. \A y \in T : ~(y < x)
    BY <1>1 DEF OpToRel
<1>3. QED
    BY <1>2

(* A set of subsets of a finite set has a smallest one.                    *)
LEMMA Smallest ==
    ASSUME NEW S, IsFiniteSet(S), NEW T \in SUBSET (SUBSET S), T # {}
    PROVE  \E s \in T : \A t \in T : t \subseteq s => t = s
<1>1. T \subseteq FiniteSubsetsOf(S)
    BY FS_FiniteSubsetsOfFinite
<1>2. PICK x \in T : \A y \in T : ~(<<y, x>> \in StrictSubsetOrdering(S))
    BY <1>1, FS_StrictSubsetOrderingWellFounded, WFMin
<1>3. QED
    BY <1>2 DEF StrictSubsetOrdering

-----------------------------------------------------------------------------

(* The element that a sum over s begins with.                              *)
First(s) == CHOOSE x \in s : TRUE

(* The function that computes the sum of w over every subset of S.         *)
Computes(h, w, S) ==
    h = [s \in SUBSET S |-> IF s = {} THEN 0 ELSE w[First(s)] + h[s \ {First(s)}]]

(* It is one of them.                                                      *)
LEMMA FirstIn ==
    ASSUME NEW s, s # {}
    PROVE  First(s) \in s
BY DEF First

(* There is such a function: up to each number of elements, from the one   *)
(* for one element less.                                                   *)
LEMMA Computable ==
    ASSUME NEW S, IsFiniteSet(S), NEW w
    PROVE  \E h : Computes(h, w, S)
<1> DEFINE UpTo(n) == {s \in SUBSET S : Cardinality(s) <= n}
           Fits(h, n) == h = [s \in UpTo(n) |->
                                 IF s = {} THEN 0 ELSE w[First(s)] + h[s \ {First(s)}]]
           Missing == {n \in Nat : ~\E h : Fits(h, n)}
<1>1. \A s \in SUBSET S : IsFiniteSet(s) /\ Cardinality(s) \in Nat
    BY FS_Subset, FS_CardinalityType
<1>2. Missing = {}
    <2> SUFFICES ASSUME Missing # {} PROVE FALSE
        OBVIOUS
    <2>1. Missing \in SUBSET Nat /\ 0 \notin Missing
        <3>1. \A s \in UpTo(0) : s = {}
            BY <1>1, FS_EmptySet
        <3>2. Fits([s \in UpTo(0) |-> 0], 0)
            BY <3>1
        <3>3. \E h : Fits(h, 0)
            BY <3>2
        <3> HIDE DEF Fits
        <3>4. QED
            BY <3>3
    <2> HIDE DEF Missing
    <2>2. PICK n \in Missing : \A m \in Missing : n <= m
        BY <2>1, Least
    <2>3. n \in Nat /\ n - 1 \in Nat /\ n - 1 \notin Missing
        BY <2>1, <2>2
    <2> HIDE DEF Fits
    <2>4. PICK h : Fits(h, n - 1)
        BY <2>3 DEF Missing
    <2> USE DEF Fits
    <2> DEFINE g == [s \in UpTo(n) |-> IF s = {} THEN 0 ELSE w[First(s)] + h[s \ {First(s)}]]
    <2>5. ASSUME NEW s \in UpTo(n), s # {}
          PROVE  g[s \ {First(s)}] = h[s \ {First(s)}]
        <3>1. First(s) \in s
            BY <2>5, FirstIn
        <3>2. Cardinality(s \ {First(s)}) = Cardinality(s) - 1
            BY <1>1, <3>1, FS_RemoveElement
        <3>3. s \ {First(s)} \in UpTo(n - 1) /\ s \ {First(s)} \in UpTo(n)
            BY <1>1, <2>3, <3>2
        <3>4. QED
            BY <2>4, <3>3
    <2>6. Fits(g, n)
        BY <2>5
    <2> HIDE DEF Fits, g
    <2>7. QED
        BY <2>2, <2>6 DEF Missing
<1>3. Cardinality(S) \in Nat /\ UpTo(Cardinality(S)) = SUBSET S
    BY <1>1, FS_Subset, FS_CardinalityType
<1>4. PICK h : Fits(h, Cardinality(S))
    BY <1>2, <1>3
<1>5. Computes(h, w, S)
    BY <1>3, <1>4 DEF Computes
<1>6. QED
    BY <1>5

(* Any two such functions agree where both are defined.                    *)
LEMMA ComputedOnce ==
    ASSUME NEW S, NEW R, NEW w, NEW v, NEW h, NEW g, Computes(h, w, S), Computes(g, v, R),
           NEW T, IsFiniteSet(T), T \subseteq S, T \subseteq R, \A x \in T : w[x] = v[x]
    PROVE  h[T] = g[T]
<1> DEFINE Differ == {t \in SUBSET T : h[t] # g[t]}
<1> SUFFICES ASSUME Differ # {} PROVE FALSE
    OBVIOUS
<1>1. Differ \in SUBSET (SUBSET T)
    OBVIOUS
<1> HIDE DEF Differ
<1>2. PICK s \in Differ : \A t \in Differ : t \subseteq s => t = s
    BY <1>1, Smallest
<1> USE DEF Differ
<1>3. /\ s \in SUBSET T /\ h[s] # g[s]
      /\ \A t \in SUBSET T : t \subseteq s /\ t # s => h[t] = g[t]
    BY <1>2
<1>4. /\ h[s] = IF s = {} THEN 0 ELSE w[First(s)] + h[s \ {First(s)}]
      /\ g[s] = IF s = {} THEN 0 ELSE v[First(s)] + g[s \ {First(s)}]
    BY <1>3 DEF Computes
<1>5. s # {} /\ First(s) \in s
    BY <1>3, <1>4, FirstIn
<1>6. h[s \ {First(s)}] = g[s \ {First(s)}]
    BY <1>3, <1>5
<1>7. QED
    BY <1>3, <1>4, <1>5, <1>6

(* SumFunctionOnSet is such a function at the set.                         *)
LEMMA SumIsComputed ==
    ASSUME NEW S, IsFiniteSet(S), NEW w
    PROVE  \E h : Computes(h, w, S) /\ SumFunctionOnSet(w, S) = h[S]
<1>1. PICK h : Computes(h, w, S)
    BY Computable
<1>2. \E f : f = [s \in SUBSET S |-> IF s = {} THEN 0
                                     ELSE w[CHOOSE x \in s : TRUE] + f[s \ {CHOOSE x \in s : TRUE}]]
    BY <1>1 DEF Computes, First
<1>3. PICK g : /\ SumFunctionOnSet(w, S) = g[S]
               /\ g = [s \in SUBSET S |-> IF s = {} THEN 0
                            ELSE w[CHOOSE x \in s : TRUE] + g[s \ {CHOOSE x \in s : TRUE}]]
    BY <1>2 DEF SumFunctionOnSet, FoldFunctionOnSet, MapThenFoldSet
<1>4. QED
    BY <1>3 DEF Computes, First

-----------------------------------------------------------------------------

(* The sum over no element is 0.                                           *)
THEOREM SumEmpty == \A w : SumFunctionOnSet(w, {}) = 0
<1> SUFFICES ASSUME NEW w PROVE SumFunctionOnSet(w, {}) = 0
    OBVIOUS
<1>1. PICK h : Computes(h, w, {}) /\ SumFunctionOnSet(w, {}) = h[{}]
    BY SumIsComputed, FS_EmptySet
<1>2. QED
    BY <1>1 DEF Computes

(* Only the values on the set count.                                       *)
THEOREM SumAgrees ==
    ASSUME NEW S, IsFiniteSet(S), NEW w, NEW v, \A x \in S : w[x] = v[x]
    PROVE  SumFunctionOnSet(w, S) = SumFunctionOnSet(v, S)
<1>1. PICK h : Computes(h, w, S) /\ SumFunctionOnSet(w, S) = h[S]
    BY SumIsComputed
<1>2. PICK g : Computes(g, v, S) /\ SumFunctionOnSet(v, S) = g[S]
    BY SumIsComputed
<1>3. QED
    BY <1>1, <1>2, ComputedOnce

(* A sum is the value of the element it begins with, and the rest.         *)
LEMMA SumFirst ==
    ASSUME NEW S, IsFiniteSet(S), S # {}, NEW w
    PROVE  SumFunctionOnSet(w, S) = w[First(S)] + SumFunctionOnSet(w, S \ {First(S)})
<1> DEFINE R == S \ {First(S)}
<1>1. IsFiniteSet(R)
    BY FS_RemoveElement
<1>2. PICK h : Computes(h, w, S) /\ SumFunctionOnSet(w, S) = h[S]
    BY SumIsComputed
<1>3. PICK g : Computes(g, w, R) /\ SumFunctionOnSet(w, R) = g[R]
    BY <1>1, SumIsComputed
<1>4. h[R] = g[R]
    BY <1>1, <1>2, <1>3, ComputedOnce
<1>5. h[S] = w[First(S)] + h[R]
    BY <1>2 DEF Computes
<1>6. QED
    BY <1>2, <1>3, <1>4, <1>5

(* Integers add up to an integer.                                          *)
THEOREM SumInt ==
    ASSUME NEW S, IsFiniteSet(S), NEW w, \A x \in S : w[x] \in Int
    PROVE  SumFunctionOnSet(w, S) \in Int
<1> DEFINE Bad == {s \in SUBSET S : SumFunctionOnSet(w, s) \notin Int}
<1> SUFFICES ASSUME Bad # {} PROVE FALSE
    BY DEF Bad
<1>1. Bad \in SUBSET (SUBSET S)
    BY DEF Bad
<1> HIDE DEF Bad
<1>2. PICK s \in Bad : \A t \in Bad : t \subseteq s => t = s
    BY <1>1, Smallest
<1>3. /\ s \in SUBSET S /\ SumFunctionOnSet(w, s) \notin Int
      /\ \A t \in SUBSET S : t \subseteq s /\ t # s => SumFunctionOnSet(w, t) \in Int
    BY <1>2 DEF Bad
<1>4. s # {}
    <2>1. SumFunctionOnSet(w, {}) \in Int
        <3>1. SumFunctionOnSet(w, {}) = 0
            BY SumEmpty
        <3>2. QED
            BY <3>1
    <2>2. QED
        BY <1>3, <2>1, Zenon
<1>5. IsFiniteSet(s)
    BY <1>3, FS_Subset
<1>6. First(s) \in s
    BY <1>4, FirstIn
<1>7. SumFunctionOnSet(w, s \ {First(s)}) \in Int
    BY <1>3, <1>6
<1>8. SumFunctionOnSet(w, s) = w[First(s)] + SumFunctionOnSet(w, s \ {First(s)})
    BY <1>4, <1>5, SumFirst
<1>9. w[First(s)] \in Int
    BY <1>3, <1>6
<1>10. QED
    BY <1>3, <1>7, <1>8, <1>9

(* Whichever element is taken out, the sum is its value and the rest.      *)
THEOREM SumRemove ==
    ASSUME NEW S, IsFiniteSet(S), NEW w, \A x \in S : w[x] \in Int, NEW y \in S
    PROVE  SumFunctionOnSet(w, S) = w[y] + SumFunctionOnSet(w, S \ {y})
<1> DEFINE Bad == {s \in SUBSET S : \E x \in s :
                       SumFunctionOnSet(w, s) # w[x] + SumFunctionOnSet(w, s \ {x})}
<1> SUFFICES ASSUME Bad # {} PROVE FALSE
    BY DEF Bad
<1>1. Bad \in SUBSET (SUBSET S)
    BY DEF Bad
<1> HIDE DEF Bad
<1>2. PICK s \in Bad : \A t \in Bad : t \subseteq s => t = s
    BY <1>1, Smallest
<1>3. s \in SUBSET S /\ \E x \in s : SumFunctionOnSet(w, s) # w[x] + SumFunctionOnSet(w, s \ {x})
    BY <1>2 DEF Bad
<1>4. ASSUME NEW t \in SUBSET S, t \subseteq s, t # s, NEW x \in t
      PROVE  SumFunctionOnSet(w, t) = w[x] + SumFunctionOnSet(w, t \ {x})
    BY <1>2, <1>4 DEF Bad
<1>5. PICK x \in s : SumFunctionOnSet(w, s) # w[x] + SumFunctionOnSet(w, s \ {x})
    BY <1>3
<1>6. IsFiniteSet(s)
    BY <1>3, FS_Subset
<1>7. PICK c \in s : c = First(s)
    BY <1>5, FirstIn
<1>8. SumFunctionOnSet(w, s) = w[c] + SumFunctionOnSet(w, s \ {c})
    BY <1>6, <1>7, SumFirst
<1>9. c # x
    BY <1>5, <1>8
<1>10. SumFunctionOnSet(w, s \ {c}) = w[x] + SumFunctionOnSet(w, (s \ {c}) \ {x})
    BY <1>3, <1>4, <1>9
<1>11. SumFunctionOnSet(w, s \ {x}) = w[c] + SumFunctionOnSet(w, (s \ {x}) \ {c})
    BY <1>3, <1>4, <1>9
<1> DEFINE rest == (s \ {c}) \ {x}
<1>12. (s \ {x}) \ {c} = rest
    OBVIOUS
<1>13. SumFunctionOnSet(w, rest) \in Int
    <2>1. IsFiniteSet(rest) /\ \A z \in rest : w[z] \in Int
        BY <1>3, <1>6, FS_RemoveElement
    <2> HIDE DEF rest
    <2>2. QED
        BY <2>1, SumInt
<1>14. w[x] \in Int /\ w[c] \in Int
    BY <1>3
<1> DEFINE total == SumFunctionOnSet(w, s)
           less == SumFunctionOnSet(w, rest)
<1>15. total = w[c] + (w[x] + less) /\ SumFunctionOnSet(w, s \ {x}) = w[c] + less
    BY <1>8, <1>10, <1>11, <1>12
<1>16. less \in Int
    BY <1>13
<1>17. total # w[x] + (w[c] + less)
    BY <1>5, <1>15
<1> HIDE DEF total, less
<1>18. QED
    BY <1>14, <1>15, <1>16, <1>17

(* One more element adds its value.                                        *)
THEOREM SumAdd ==
    ASSUME NEW S, IsFiniteSet(S), NEW w, NEW y, y \notin S, \A x \in S \union {y} : w[x] \in Int
    PROVE  SumFunctionOnSet(w, S \union {y}) = SumFunctionOnSet(w, S) + w[y]
<1>1. IsFiniteSet(S \union {y})
    BY FS_AddElement
<1>2. SumFunctionOnSet(w, S \union {y}) = w[y] + SumFunctionOnSet(w, (S \union {y}) \ {y})
    BY <1>1, SumRemove
<1>3. (S \union {y}) \ {y} = S
    OBVIOUS
<1>4. SumFunctionOnSet(w, S) \in Int /\ w[y] \in Int
    BY SumInt
<1> DEFINE old == SumFunctionOnSet(w, S)
           new == SumFunctionOnSet(w, S \union {y})
<1>5. new = w[y] + old /\ old \in Int
    BY <1>2, <1>3, <1>4
<1> HIDE DEF old, new
<1>6. new = old + w[y]
    BY <1>4, <1>5
<1>7. QED
    BY <1>6 DEF old, new

-----------------------------------------------------------------------------

(* What holds of the empty set, and with each element that is added, holds *)
(* of a finite set: good are the subsets of which it holds.                *)
THEOREM SubsetsGrow ==
    ASSUME NEW S, IsFiniteSet(S), NEW good \in SUBSET (SUBSET S), {} \in good,
           \A s \in good : \A x \in S \ s : s \union {x} \in good
    PROVE  S \in good
<1> DEFINE Bad == (SUBSET S) \ good
<1> SUFFICES ASSUME Bad # {} PROVE FALSE
    OBVIOUS
<1>1. Bad \in SUBSET (SUBSET S)
    OBVIOUS
<1> HIDE DEF Bad
<1>2. PICK s \in Bad : \A t \in Bad : t \subseteq s => t = s
    BY <1>1, Smallest
<1>3. s \in SUBSET S /\ s \notin good
    BY <1>2 DEF Bad
<1>4. PICK x \in s : TRUE
    BY <1>3
<1>5. s \ {x} \in good
    BY <1>2, <1>3, <1>4 DEF Bad
<1>6. (s \ {x}) \union {x} = s /\ x \in S \ (s \ {x})
    BY <1>3, <1>4
<1>7. QED
    BY <1>3, <1>5, <1>6

(* The larger the values, the larger the sum.                              *)
THEOREM SumAtMost ==
    ASSUME NEW S, IsFiniteSet(S), NEW w, NEW v,
           \A x \in S : w[x] \in Int /\ v[x] \in Int /\ w[x] <= v[x]
    PROVE  SumFunctionOnSet(w, S) <= SumFunctionOnSet(v, S)
<1> DEFINE good == {s \in SUBSET S : SumFunctionOnSet(w, s) <= SumFunctionOnSet(v, s)}
<1>1. {} \in good
    BY SumEmpty
<1>2. ASSUME NEW s \in good, NEW x \in S \ s
      PROVE  s \union {x} \in good
    <2>1. IsFiniteSet(s) /\ s \subseteq S
        BY FS_Subset
    <2>2. /\ SumFunctionOnSet(w, s) \in Int /\ SumFunctionOnSet(v, s) \in Int
          /\ SumFunctionOnSet(w, s) <= SumFunctionOnSet(v, s)
        BY <2>1, SumInt
    <2>3. /\ SumFunctionOnSet(w, s \union {x}) = SumFunctionOnSet(w, s) + w[x]
          /\ SumFunctionOnSet(v, s \union {x}) = SumFunctionOnSet(v, s) + v[x]
        BY <2>1, SumAdd
    <2> DEFINE a == SumFunctionOnSet(w, s)
               b == SumFunctionOnSet(v, s)
    <2> HIDE DEF a, b
    <2>4. a + w[x] <= b + v[x]
        BY <2>2 DEF a, b
    <2>5. QED
        BY <2>1, <2>3, <2>4 DEF a, b
<1>3. QED
    BY <1>1, <1>2, SubsetsGrow

(* Values of one count elements.                                           *)
THEOREM SumOfOnes ==
    ASSUME NEW S, IsFiniteSet(S), NEW w, \A x \in S : w[x] \in Int /\ w[x] = 1
    PROVE  SumFunctionOnSet(w, S) = Cardinality(S)
<1> DEFINE good == {s \in SUBSET S : SumFunctionOnSet(w, s) = Cardinality(s)}
<1>1. {} \in good
    BY SumEmpty, FS_EmptySet
<1>2. ASSUME NEW s \in good, NEW x \in S \ s
      PROVE  s \union {x} \in good
    <2>1. IsFiniteSet(s) /\ s \subseteq S
        BY FS_Subset
    <2>2. SumFunctionOnSet(w, s \union {x}) = SumFunctionOnSet(w, s) + w[x]
        <3>1. x \notin s /\ IsFiniteSet(s) /\ \A y \in s \union {x} : w[y] \in Int
            BY <2>1
        <3> HIDE DEF good
        <3>2. QED
            BY <3>1, SumAdd
    <2>3. Cardinality(s \union {x}) = Cardinality(s) + 1
        BY <2>1, FS_AddElement
    <2>4. QED
        BY <2>1, <2>2, <2>3
<1>3. QED
    BY <1>1, <1>2, SubsetsGrow

(* The sum of values a hundred times as large.                             *)
THEOREM SumTimesHundred ==
    ASSUME NEW S, IsFiniteSet(S), NEW w, NEW v, \A x \in S : v[x] \in Int /\ w[x] = v[x] * 100
    PROVE  SumFunctionOnSet(w, S) = SumFunctionOnSet(v, S) * 100
<1> DEFINE good == {s \in SUBSET S : SumFunctionOnSet(w, s) = SumFunctionOnSet(v, s) * 100}
<1>1. {} \in good
    BY SumEmpty
<1>2. ASSUME NEW s \in good, NEW x \in S \ s
      PROVE  s \union {x} \in good
    <2>1. IsFiniteSet(s) /\ s \subseteq S
        BY FS_Subset
    <2>2. SumFunctionOnSet(v, s) \in Int /\ SumFunctionOnSet(w, s) = SumFunctionOnSet(v, s) * 100
        BY <2>1, SumInt
    <2>3. /\ SumFunctionOnSet(w, s \union {x}) = SumFunctionOnSet(w, s) + w[x]
          /\ SumFunctionOnSet(v, s \union {x}) = SumFunctionOnSet(v, s) + v[x]
        <3>1. /\ x \notin s /\ IsFiniteSet(s)
              /\ \A y \in s \union {x} : w[y] \in Int
              /\ \A y \in s \union {x} : v[y] \in Int
            BY <2>1
        <3> HIDE DEF good
        <3>2. SumFunctionOnSet(w, s \union {x}) = SumFunctionOnSet(w, s) + w[x]
            BY <3>1, SumAdd
        <3>3. SumFunctionOnSet(v, s \union {x}) = SumFunctionOnSet(v, s) + v[x]
            BY <3>1, SumAdd
        <3>4. QED
            BY <3>2, <3>3
    <2> DEFINE a == SumFunctionOnSet(w, s)
               b == SumFunctionOnSet(v, s)
    <2> HIDE DEF a, b
    <2>4. a + w[x] = (b + v[x]) * 100
        BY <2>2 DEF a, b
    <2>5. QED
        BY <2>1, <2>3, <2>4 DEF a, b
<1>3. QED
    BY <1>1, <1>2, SubsetsGrow

(* Over two sets apart, the sum is that of both sums.                      *)
THEOREM SumApart ==
    ASSUME NEW S, IsFiniteSet(S), NEW R, IsFiniteSet(R), R \intersect S = {},
           NEW w, \A x \in R \union S : w[x] \in Int
    PROVE  SumFunctionOnSet(w, R \union S) = SumFunctionOnSet(w, R) + SumFunctionOnSet(w, S)
<1> DEFINE good == {s \in SUBSET S : SumFunctionOnSet(w, R \union s)
                                         = SumFunctionOnSet(w, R) + SumFunctionOnSet(w, s)}
<1>1. {} \in good
    <2>1. R \union {} = R /\ SumFunctionOnSet(w, R) \in Int
        BY SumInt
    <2>2. QED
        BY <2>1, SumEmpty
<1>2. ASSUME NEW s \in good, NEW x \in S \ s
      PROVE  s \union {x} \in good
    <2>1. /\ IsFiniteSet(s) /\ s \subseteq S /\ IsFiniteSet(R \union s)
          /\ x \notin R \union s /\ R \union (s \union {x}) = (R \union s) \union {x}
        BY FS_Subset, FS_Union
    <2>2. /\ SumFunctionOnSet(w, s) \in Int /\ SumFunctionOnSet(w, R) \in Int
          /\ SumFunctionOnSet(w, R \union s) = SumFunctionOnSet(w, R) + SumFunctionOnSet(w, s)
        BY <2>1, SumInt
    <2>3. /\ SumFunctionOnSet(w, s \union {x}) = SumFunctionOnSet(w, s) + w[x]
          /\ SumFunctionOnSet(w, (R \union s) \union {x}) = SumFunctionOnSet(w, R \union s) + w[x]
        <3>1. x \notin s /\ \A y \in s \union {x} : w[y] \in Int
            BY <2>1
        <3>2. \A y \in (R \union s) \union {x} : w[y] \in Int
            BY <2>1
        <3>3. SumFunctionOnSet(w, s \union {x}) = SumFunctionOnSet(w, s) + w[x]
            BY <2>1, <3>1, SumAdd
        <3>4. SumFunctionOnSet(w, (R \union s) \union {x}) = SumFunctionOnSet(w, R \union s) + w[x]
            BY <2>1, <3>2, SumAdd
        <3>5. QED
            BY <3>3, <3>4
    <2> DEFINE a == SumFunctionOnSet(w, s)
               b == SumFunctionOnSet(w, R)
    <2> HIDE DEF a, b
    <2>4. (b + a) + w[x] = b + (a + w[x])
        BY <2>2 DEF a, b
    <2>5. QED
        BY <2>1, <2>2, <2>3, <2>4 DEF a, b
<1>3. QED
    BY <1>1, <1>2, SubsetsGrow

(* The elements whose key is k, and those whose key is one of K.           *)
Under(S, key, k) == {x \in S : key[x] = k}
UnderAny(S, key, K) == {x \in S : key[x] \in K}

(* Sums of the parts add up to the sum: key tells to which part an element *)
(* belongs, part what each adds up to.                                     *)
THEOREM SumOfParts ==
    ASSUME NEW S, IsFiniteSet(S), NEW w, \A x \in S : w[x] \in Int,
           NEW K, IsFiniteSet(K), NEW key, NEW part,
           \A k \in K : part[k] = SumFunctionOnSet(w, Under(S, key, k))
    PROVE  SumFunctionOnSet(part, K) = SumFunctionOnSet(w, UnderAny(S, key, K))
<1> USE DEF Under, UnderAny
<1> DEFINE In(s) == {x \in S : key[x] \in s}
           good == {s \in SUBSET K : SumFunctionOnSet(part, s) = SumFunctionOnSet(w, In(s))}
<1>1. {} \in good
    <2>1. In({}) = {}
        OBVIOUS
    <2>2. QED
        BY <2>1, SumEmpty
<1>2. \A k \in K : part[k] \in Int
    <2>1. SUFFICES ASSUME NEW k \in K PROVE SumFunctionOnSet(w, {x \in S : key[x] = k}) \in Int
        OBVIOUS
    <2>2. IsFiniteSet({x \in S : key[x] = k})
        BY FS_Subset
    <2>3. QED
        BY <2>2, SumInt
<1>3. ASSUME NEW s \in good, NEW k \in K \ s
      PROVE  s \union {k} \in good
    <2> DEFINE R == In(s)
               T == {x \in S : key[x] = k}
    <2>1. /\ IsFiniteSet(s) /\ IsFiniteSet(R) /\ IsFiniteSet(T) /\ T \intersect R = {}
          /\ In(s \union {k}) = R \union T
        BY FS_Subset
    <2>2. SumFunctionOnSet(part, s \union {k}) = SumFunctionOnSet(part, s) + part[k]
        BY <1>2, <2>1, SumAdd
    <2>3. SumFunctionOnSet(w, R \union T) = SumFunctionOnSet(w, R) + SumFunctionOnSet(w, T)
        <3>1. R \intersect T = {} /\ \A x \in R \union T : w[x] \in Int
            BY <2>1
        <3> HIDE DEF R, T
        <3>2. QED
            BY <2>1, <3>1, SumApart
    <2>4. part[k] = SumFunctionOnSet(w, T)
        OBVIOUS
    <2>5. SumFunctionOnSet(part, s) = SumFunctionOnSet(w, R)
        OBVIOUS
    <2>6. QED
        BY <2>1, <2>2, <2>3, <2>4, <2>5
<1>4. K \in good
    <2> HIDE DEF good
    <2>1. good \in SUBSET (SUBSET K)
        BY DEF good
    <2>2. QED
        BY <1>1, <1>3, <2>1, SubsetsGrow
<1>5. QED
    BY <1>4

(* The sum over one element is its value.                                  *)
THEOREM SumOne ==
    ASSUME NEW w, NEW y, w[y] \in Int
    PROVE  SumFunctionOnSet(w, {y}) = w[y]
<1>1. SumFunctionOnSet(w, {} \union {y}) = SumFunctionOnSet(w, {}) + w[y]
    BY SumAdd, FS_EmptySet
<1>2. SumFunctionOnSet(w, {}) = 0
    BY SumEmpty
<1>3. {} \union {y} = {y}
    OBVIOUS
<1>4. SumFunctionOnSet(w, {y}) = 0 + w[y]
    BY <1>1, <1>2, <1>3
<1>5. QED
    BY <1>4

(* The numbers of elements of the parts add up to that of the whole.       *)
THEOREM CountsOfParts ==
    ASSUME NEW S, IsFiniteSet(S), NEW K, IsFiniteSet(K), NEW key, NEW count,
           \A k \in K : count[k] = Cardinality(Under(S, key, k))
    PROVE  SumFunctionOnSet(count, K) = Cardinality(UnderAny(S, key, K))
<1>1. PICK w : w = [x \in S |-> 1]
    OBVIOUS
<1>2. \A x \in S : w[x] \in Int /\ w[x] = 1
    BY <1>1
<1>3. ASSUME NEW s \in SUBSET S
      PROVE  SumFunctionOnSet(w, s) = Cardinality(s)
    BY <1>2, FS_Subset, SumOfOnes
<1>4. UnderAny(S, key, K) \in SUBSET S /\ \A k \in K : Under(S, key, k) \in SUBSET S
    BY DEF Under, UnderAny
<1>5. \A k \in K : count[k] = SumFunctionOnSet(w, Under(S, key, k))
    BY <1>3, <1>4
<1>6. SumFunctionOnSet(count, K) = SumFunctionOnSet(w, UnderAny(S, key, K))
    BY <1>2, <1>5, SumOfParts
<1>7. QED
    BY <1>3, <1>4, <1>6

(* What a function makes of a finite set is finite.                        *)
THEOREM ImageFinite ==
    ASSUME NEW S, IsFiniteSet(S), NEW f
    PROVE  IsFiniteSet({f[x] : x \in S})
<1>1. PICK g : g = [x \in S |-> f[x]]
    OBVIOUS
<1>2. g \in Surjection(S, {f[x] : x \in S})
    BY <1>1 DEF Surjection
<1>3. QED
    BY <1>2, FS_Surjection

(* A sum does not depend on the order in which its elements are listed.    *)
THEOREM SumInOrder ==
    ASSUME NEW S, IsFiniteSet(S), NEW w, \A x \in S : w[x] \in Int,
           NEW T, NEW s \in [T -> S], IsFiniteSet(T),
           \A x \in S : \E i \in T : s[i] = x, \A i, j \in T : s[i] = s[j] => i = j,
           NEW v, \A i \in T : v[i] = w[s[i]]
    PROVE  SumFunctionOnSet(v, T) = SumFunctionOnSet(w, S)
<1>1. \A i \in T : v[i] \in Int
    OBVIOUS
<1>2. ASSUME NEW x \in S
      PROVE  w[x] = SumFunctionOnSet(v, Under(T, s, x))
    <2>1. PICK i \in T : s[i] = x
        OBVIOUS
    <2>2. Under(T, s, x) = {i}
        BY <2>1 DEF Under
    <2>3. v[i] \in Int /\ v[i] = w[x]
        BY <2>1
    <2>4. SumFunctionOnSet(v, {i}) = v[i]
        BY <2>3, SumOne
    <2>5. QED
        BY <2>2, <2>3, <2>4
<1>3. SumFunctionOnSet(w, S) = SumFunctionOnSet(v, UnderAny(T, s, S))
    BY <1>1, <1>2, SumOfParts
<1>4. UnderAny(T, s, S) = T
    BY DEF UnderAny
<1>5. QED
    BY <1>3, <1>4
=============================================================================
