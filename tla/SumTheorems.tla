----------------------------- MODULE SumTheorems -----------------------------
(***************************************************************************)
(* Sums of a function over a finite set, as SumFunctionOnSet defines them, *)
(* and the induction they need.  The library's induction theorems take the *)
(* induction hypothesis as an operator; here it is a set, whose least      *)
(* counterexample is looked at.                                            *)
(***************************************************************************)
EXTENDS Integers, Functions, FiniteSetTheorems, WellFoundedInduction, TLAPS

-----------------------------------------------------------------------------
(* Induction with sets. *)

\* A set of natural numbers has a least member.
LEMMA LeastNatural ==
  ASSUME NEW T, T \subseteq Nat, T # {}
  PROVE  \E n \in T : \A m \in T : n <= m
<1>1. PICK x \in T : \A y \in T : ~ (<<y, x>> \in OpToRel(<, Nat))
  BY NatLessThanWellFounded, WFMin
<1>2. \A y \in T : ~ (y < x)
  BY <1>1 DEF OpToRel
<1> QED
  BY <1>2

\* What holds of 0 and is handed on holds of every natural number.
LEMMA NaturalsClosed ==
  ASSUME NEW T, 0 \in T, \A n \in Nat : n \in T => n + 1 \in T
  PROVE  Nat \subseteq T
<1> SUFFICES ASSUME Nat \ T # {} PROVE FALSE
  OBVIOUS
<1>1. PICK n \in Nat \ T : \A m \in Nat \ T : n <= m
  BY LeastNatural
<1>2. n - 1 \in Nat /\ n - 1 \in T
  BY <1>1
<1> QED
  BY <1>1, <1>2

\* What holds of the empty set, and of a set if it holds of that set without any
\* one of its members, holds of every finite set.
LEMMA SubsetsClosed ==
  ASSUME NEW S, IsFiniteSet(S), NEW F, {} \in F,
         \A U \in SUBSET S : U # {} /\ (\A x \in U : U \ {x} \in F) => U \in F
  PROVE  S \in F
<1> DEFINE T == {n \in Nat : \A U \in SUBSET S : Cardinality(U) = n => U \in F}
<1>1. \A U \in SUBSET S : IsFiniteSet(U) /\ Cardinality(U) \in Nat
  BY FS_Subset, FS_CardinalityType
<1>2. 0 \in T
  <2>1. \A U \in SUBSET S : Cardinality(U) = 0 => U = {}
    BY <1>1, FS_EmptySet
  <2> QED
    BY <2>1
<1>3. ASSUME NEW n \in Nat, n \in T
      PROVE  n + 1 \in T
  <2> SUFFICES ASSUME NEW U \in SUBSET S, Cardinality(U) = n + 1
               PROVE  U \in F
    OBVIOUS
  <2>1. U # {}
    BY <1>1, FS_EmptySet
  <2>2. ASSUME NEW x \in U PROVE U \ {x} \in F
    <3>1. Cardinality(U \ {x}) = n
      BY <1>1, FS_RemoveElement
    <3> QED
      BY <1>3, <3>1
  <2> QED
    BY <2>1, <2>2
<1> HIDE DEF T
<1>4. Nat \subseteq T
  BY <1>2, <1>3, NaturalsClosed
<1>5. Cardinality(S) \in T
  BY <1>1, <1>4
<1> QED
  BY <1>5 DEF T

-----------------------------------------------------------------------------
(* The equation of a sum. *)

Pick(s) == CHOOSE x \in s : TRUE

\* g knows the sums of f over the sets in D.
Sums(g, f, D) ==
  g = [s \in D |-> IF s = {} THEN 0 ELSE f[Pick(s)] + g[s \ {Pick(s)}]]

SubsetsUpTo(S, n) == {s \in SUBSET S : Cardinality(s) <= n}

SumsUpTo(g, f, S) == Sums(g, f, SUBSET S)

\* The sums of f over the subsets of S.
SumsOver(f, S) == CHOOSE g : Sums(g, f, SUBSET S)

LEMMA Unfolded ==
  ASSUME NEW f, NEW S
  PROVE  SumFunctionOnSet(f, S) = SumsOver(f, S)[S]
BY DEF SumFunctionOnSet, FoldFunctionOnSet, MapThenFoldSet, SumsOver, Sums, Pick

LEMMA PickIsMember ==
  ASSUME NEW s, s # {}
  PROVE  Pick(s) \in s
BY DEF Pick

\* The recursion is well-founded: some g does know the sums.
LEMMA SumsExist ==
  ASSUME NEW f, NEW S, IsFiniteSet(S)
  PROVE  \E g : Sums(g, f, SUBSET S)
<1> DEFINE T == {n \in Nat : \E g : Sums(g, f, SubsetsUpTo(S, n))}
<1>1. \A U \in SUBSET S : IsFiniteSet(U) /\ Cardinality(U) \in Nat
                          /\ Cardinality(U) <= Cardinality(S)
  BY FS_Subset, FS_CardinalityType
<1>2. 0 \in T
  <2> DEFINE g == [s \in SubsetsUpTo(S, 0) |-> 0]
  <2>1. \A s \in SubsetsUpTo(S, 0) : s = {}
    BY <1>1, FS_EmptySet DEF SubsetsUpTo
  <2>2. Sums(g, f, SubsetsUpTo(S, 0))
    BY <2>1 DEF Sums
  <2> QED
    BY <2>2
<1>3. ASSUME NEW n \in Nat, n \in T
      PROVE  n + 1 \in T
  <2>1. PICK g : Sums(g, f, SubsetsUpTo(S, n))
    BY <1>3
  <2> DEFINE h == [s \in SubsetsUpTo(S, n + 1) |->
                     IF s = {} THEN 0 ELSE f[Pick(s)] + g[s \ {Pick(s)}]]
  <2>2. ASSUME NEW s \in SubsetsUpTo(S, n + 1), s # {}
        PROVE  s \ {Pick(s)} \in SubsetsUpTo(S, n)
    <3>1. Cardinality(s \ {Pick(s)}) = Cardinality(s) - 1
      BY <1>1, <2>2, PickIsMember, FS_RemoveElement DEF SubsetsUpTo
    <3> QED
      BY <1>1, <3>1 DEF SubsetsUpTo
  <2>3. ASSUME NEW s \in SubsetsUpTo(S, n)
        PROVE  h[s] = g[s]
    <3>1. s \in SubsetsUpTo(S, n + 1)
      BY <1>1 DEF SubsetsUpTo
    <3>2. g[s] = IF s = {} THEN 0 ELSE f[Pick(s)] + g[s \ {Pick(s)}]
      BY <2>1 DEF Sums
    <3> QED
      BY <3>1, <3>2
  <2>4. \A s \in SubsetsUpTo(S, n + 1) : s # {} => h[s \ {Pick(s)}] = g[s \ {Pick(s)}]
    BY <2>2, <2>3
  <2>5. \A s \in SubsetsUpTo(S, n + 1) :
          h[s] = IF s = {} THEN 0 ELSE f[Pick(s)] + h[s \ {Pick(s)}]
    BY <2>4
  <2>6. h = [s \in SubsetsUpTo(S, n + 1) |-> h[s]]
    OBVIOUS
  <2> HIDE DEF h
  <2>7. Sums(h, f, SubsetsUpTo(S, n + 1))
    BY <2>5, <2>6 DEF Sums
  <2> QED
    BY <2>7
<1> HIDE DEF T
<1>4. Nat \subseteq T
  BY <1>2, <1>3, NaturalsClosed
<1>5. Cardinality(S) \in T
  BY <1>1, <1>4
<1>6. SubsetsUpTo(S, Cardinality(S)) = SUBSET S
  BY <1>1 DEF SubsetsUpTo
<1> QED
  BY <1>5, <1>6 DEF T

\* And they are the same, whatever set it was that they were looked up for.
LEMMA SumsAgree ==
  ASSUME NEW f, NEW S, IsFiniteSet(S), NEW U \in SUBSET S,
         NEW g, SumsUpTo(g, f, S), NEW h, SumsUpTo(h, f, U)
  PROVE  g[U] = h[U]
<1> DEFINE T == {n \in Nat : \A s \in SUBSET U : Cardinality(s) = n => g[s] = h[s]}
<1>1. \A s \in SUBSET U : IsFiniteSet(s) /\ Cardinality(s) \in Nat
  BY FS_Subset, FS_CardinalityType
<1>2. ASSUME NEW s \in SUBSET U
      PROVE  /\ g[s] = IF s = {} THEN 0 ELSE f[Pick(s)] + g[s \ {Pick(s)}]
             /\ h[s] = IF s = {} THEN 0 ELSE f[Pick(s)] + h[s \ {Pick(s)}]
  BY DEF Sums, SumsUpTo
<1>3. 0 \in T
  BY <1>1, <1>2, FS_EmptySet
<1>4. ASSUME NEW n \in Nat, n \in T
      PROVE  n + 1 \in T
  <2> SUFFICES ASSUME NEW s \in SUBSET U, Cardinality(s) = n + 1
               PROVE  g[s] = h[s]
    OBVIOUS
  <2>1. s # {}
    <3>1. Cardinality({}) = 0
      BY FS_EmptySet
    <3>2. Cardinality(s) # 0
      OBVIOUS
    <3> QED
      BY <3>1, <3>2, Zenon
  <2>2. Cardinality(s \ {Pick(s)}) = n
    BY <1>1, <2>1, PickIsMember, FS_RemoveElement
  <2>3. g[s \ {Pick(s)}] = h[s \ {Pick(s)}]
    BY <1>4, <2>2
  <2> QED
    BY <1>2, <2>1, <2>3
<1> HIDE DEF T
<1>5. Nat \subseteq T
  BY <1>3, <1>4, NaturalsClosed
<1>6. Cardinality(U) \in T
  BY <1>1, <1>5
<1> QED
  BY <1>6 DEF T

LEMMA SumsOverKnows ==
  ASSUME NEW f, NEW S, IsFiniteSet(S)
  PROVE  SumsUpTo(SumsOver(f, S), f, S)
BY SumsExist DEF SumsOver, SumsUpTo

\* A sum over nothing is 0; any other is a value and the sum over the rest.
LEMMA SumEquation ==
  ASSUME NEW f, NEW S, IsFiniteSet(S)
  PROVE  SumFunctionOnSet(f, S)
           = IF S = {} THEN 0
             ELSE f[Pick(S)] + SumFunctionOnSet(f, S \ {Pick(S)})
<1>1. PICK R : R = S \ {Pick(S)}
  OBVIOUS
<1>2. IsFiniteSet(R) /\ R \in SUBSET S
  BY <1>1, FS_RemoveElement
<1>3. SumsUpTo(SumsOver(f, S), f, S)
  BY SumsOverKnows
<1>4. SumsUpTo(SumsOver(f, R), f, R)
  BY <1>2, SumsOverKnows
<1>5. SumsOver(f, S)[S]
        = IF S = {} THEN 0 ELSE f[Pick(S)] + SumsOver(f, S)[R]
  BY <1>1, <1>3 DEF Sums, SumsUpTo
<1>6. SumsOver(f, S)[R] = SumsOver(f, R)[R]
  BY <1>2, <1>3, <1>4, SumsAgree
<1> QED
  BY <1>1, <1>5, <1>6, Unfolded

-----------------------------------------------------------------------------
(* What the proofs use. *)

THEOREM SumEmpty == \A f : SumFunctionOnSet(f, {}) = 0
BY SumEquation, FS_EmptySet

\* A sum of integers is one.
THEOREM SumInt ==
  ASSUME NEW f, NEW S, IsFiniteSet(S), \A x \in S : f[x] \in Int
  PROVE  SumFunctionOnSet(f, S) \in Int
<1> DEFINE F == {U \in SUBSET S : SumFunctionOnSet(f, U) \in Int}
<1>1. {} \in F
  BY SumEmpty
<1>2. ASSUME NEW U \in SUBSET S, U # {}, \A x \in U : U \ {x} \in F
      PROVE  U \in F
  <2>1. Pick(U) \in U
    BY <1>2, PickIsMember
  <2>2. SumFunctionOnSet(f, U \ {Pick(U)}) \in Int
    BY <1>2, <2>1
  <2>3. SumFunctionOnSet(f, U) = f[Pick(U)] + SumFunctionOnSet(f, U \ {Pick(U)})
    BY <1>2, FS_Subset, SumEquation
  <2> QED
    BY <2>1, <2>2, <2>3
<1> HIDE DEF F
<1>3. S \in F
  BY <1>1, <1>2, SubsetsClosed
<1> QED
  BY <1>3 DEF F

\* Any member may be taken out first.
THEOREM SumRemove ==
  ASSUME NEW f, NEW S, IsFiniteSet(S), \A x \in S : f[x] \in Int, NEW e \in S
  PROVE  SumFunctionOnSet(f, S) = f[e] + SumFunctionOnSet(f, S \ {e})
<1> DEFINE F == {U \in SUBSET S :
                  \A x \in U : SumFunctionOnSet(f, U) = f[x] + SumFunctionOnSet(f, U \ {x})}
<1>1. {} \in F
  OBVIOUS
<1>2. ASSUME NEW U \in SUBSET S, U # {}, \A x \in U : U \ {x} \in F
      PROVE  U \in F
  <2> SUFFICES ASSUME NEW x \in U
               PROVE  SumFunctionOnSet(f, U) = f[x] + SumFunctionOnSet(f, U \ {x})
    OBVIOUS
  <2>1. PICK p \in U : SumFunctionOnSet(f, U) = f[p] + SumFunctionOnSet(f, U \ {p})
    <3>1. IsFiniteSet(U)
      BY FS_Subset
    <3>2. SumFunctionOnSet(f, U) = f[Pick(U)] + SumFunctionOnSet(f, U \ {Pick(U)})
      BY <1>2, <3>1, SumEquation
    <3> QED
      BY <1>2, <3>2, PickIsMember, Zenon
  <2>2. CASE x = p
    BY <2>1, <2>2
  <2>3. CASE x # p
    <3>1. PICK R : R = (U \ {p}) \ {x}
      OBVIOUS
    <3>2. R = (U \ {x}) \ {p}
      BY <3>1
    <3>3. SumFunctionOnSet(f, U \ {p}) = f[x] + SumFunctionOnSet(f, R)
      BY <1>2, <2>3, <3>1
    <3>4. SumFunctionOnSet(f, U \ {x}) = f[p] + SumFunctionOnSet(f, R)
      BY <1>2, <2>3, <3>2
    <3>5. SumFunctionOnSet(f, R) \in Int
      BY <3>1, FS_Subset, SumInt
    <3>6. f[x] \in Int /\ f[p] \in Int
      OBVIOUS
    <3> QED
      BY <2>1, <3>3, <3>4, <3>5, <3>6
  <2> QED
    BY <2>2, <2>3
<1> HIDE DEF F
<1>3. S \in F
  BY <1>1, <1>2, SubsetsClosed
<1> QED
  BY <1>3 DEF F

\* Functions that agree have the same sum.
THEOREM SumSame ==
  ASSUME NEW f, NEW g, NEW S, IsFiniteSet(S),
         \A x \in S : f[x] \in Int /\ g[x] = f[x]
  PROVE  SumFunctionOnSet(g, S) = SumFunctionOnSet(f, S)
<1> DEFINE F == {U \in SUBSET S : SumFunctionOnSet(g, U) = SumFunctionOnSet(f, U)}
<1>1. {} \in F
  BY SumEmpty
<1>2. ASSUME NEW U \in SUBSET S, U # {}, \A x \in U : U \ {x} \in F
      PROVE  U \in F
  <2>1. PICK p : p \in U
    BY <1>2
  <2>2. IsFiniteSet(U)
    BY FS_Subset
  <2>3. SumFunctionOnSet(g, U \ {p}) = SumFunctionOnSet(f, U \ {p})
    BY <1>2, <2>1
  <2>4. SumFunctionOnSet(f, U) = f[p] + SumFunctionOnSet(f, U \ {p})
    BY <2>1, <2>2, SumRemove
  <2>5. SumFunctionOnSet(g, U) = g[p] + SumFunctionOnSet(g, U \ {p})
    BY <2>1, <2>2, SumRemove
  <2> QED
    BY <2>1, <2>3, <2>4, <2>5
<1> HIDE DEF F
<1>3. S \in F
  BY <1>1, <1>2, SubsetsClosed
<1> QED
  BY <1>3 DEF F

\* A change of one value changes the sum by as much.
THEOREM SumChange ==
  ASSUME NEW f, NEW g, NEW S, IsFiniteSet(S), NEW e \in S,
         \A x \in S : f[x] \in Int /\ g[x] \in Int,
         \A x \in S \ {e} : g[x] = f[x]
  PROVE  SumFunctionOnSet(g, S) = SumFunctionOnSet(f, S) + g[e] - f[e]
<1>1. IsFiniteSet(S \ {e})
  BY FS_Subset
<1>2. SumFunctionOnSet(g, S \ {e}) = SumFunctionOnSet(f, S \ {e})
  BY <1>1, SumSame
<1>3. SumFunctionOnSet(f, S) = f[e] + SumFunctionOnSet(f, S \ {e})
  BY SumRemove
<1>4. SumFunctionOnSet(g, S) = g[e] + SumFunctionOnSet(g, S \ {e})
  BY SumRemove
<1>5. SumFunctionOnSet(f, S \ {e}) \in Int
  BY <1>1, SumInt
<1>6. f[e] \in Int /\ g[e] \in Int
  OBVIOUS
<1> QED
  BY <1>2, <1>3, <1>4, <1>5, <1>6

\* A new member adds its value.
THEOREM SumAdd ==
  ASSUME NEW f, NEW g, NEW S, IsFiniteSet(S), NEW e, e \notin S, g[e] \in Int,
         \A x \in S : f[x] \in Int /\ g[x] = f[x]
  PROVE  SumFunctionOnSet(g, S \cup {e}) = SumFunctionOnSet(f, S) + g[e]
<1>1. IsFiniteSet(S \cup {e})
  BY FS_AddElement
<1>2. (S \cup {e}) \ {e} = S
  OBVIOUS
<1>3. \A x \in S \cup {e} : g[x] \in Int
  OBVIOUS
<1>4. SumFunctionOnSet(g, S \cup {e}) = g[e] + SumFunctionOnSet(g, S)
  BY <1>1, <1>2, <1>3, SumRemove
<1>5. SumFunctionOnSet(g, S) = SumFunctionOnSet(f, S)
  BY SumSame
<1>6. SumFunctionOnSet(f, S) \in Int
  BY SumInt
<1> QED
  BY <1>4, <1>5, <1>6

\* A sum of natural numbers is one, and no less than any of them.
THEOREM SumNat ==
  ASSUME NEW f, NEW S, IsFiniteSet(S), \A x \in S : f[x] \in Nat
  PROVE  /\ SumFunctionOnSet(f, S) \in Nat
         /\ \A e \in S : f[e] <= SumFunctionOnSet(f, S)
<1> DEFINE F == {U \in SUBSET S : SumFunctionOnSet(f, U) \in Nat}
<1>1. {} \in F
  BY SumEmpty
<1>2. ASSUME NEW U \in SUBSET S, \A x \in U : U \ {x} \in F, NEW e \in U
      PROVE  /\ SumFunctionOnSet(f, U) \in Nat
             /\ f[e] <= SumFunctionOnSet(f, U)
  <2>1. IsFiniteSet(U) /\ \A x \in U : f[x] \in Int
    BY FS_Subset
  <2>2. SumFunctionOnSet(f, U) = f[e] + SumFunctionOnSet(f, U \ {e})
    BY <2>1, SumRemove
  <2>3. SumFunctionOnSet(f, U \ {e}) \in Nat
    BY <1>2
  <2>4. f[e] \in Nat
    OBVIOUS
  <2> QED
    BY <2>2, <2>3, <2>4
<1>3. ASSUME NEW U \in SUBSET S, U # {}, \A x \in U : U \ {x} \in F
      PROVE  U \in F
  BY <1>2, <1>3
<1> HIDE DEF F
<1>4. \A U \in SUBSET S : U \in F
  <2> SUFFICES ASSUME NEW U \in SUBSET S PROVE U \in F
    OBVIOUS
  <2>1. IsFiniteSet(U)
    BY FS_Subset
  <2>2. \A V \in SUBSET U : V # {} /\ (\A x \in V : V \ {x} \in F) => V \in F
    BY <1>3
  <2> QED
    BY <1>1, <2>1, <2>2, SubsetsClosed
<1> QED
  BY <1>2, <1>4 DEF F

\* Nothing adds up to nothing.
THEOREM SumZero ==
  ASSUME NEW f, NEW S, IsFiniteSet(S), \A x \in S : f[x] = 0
  PROVE  SumFunctionOnSet(f, S) = 0
<1> DEFINE F == {U \in SUBSET S : SumFunctionOnSet(f, U) = 0}
<1>1. {} \in F
  BY SumEmpty
<1>2. ASSUME NEW U \in SUBSET S, U # {}, \A x \in U : U \ {x} \in F
      PROVE  U \in F
  <2>1. IsFiniteSet(U)
    BY FS_Subset
  <2>2. PICK p \in U : SumFunctionOnSet(f, U) = f[p] + SumFunctionOnSet(f, U \ {p})
    <3>1. PICK p : p \in U
      BY <1>2
    <3>2. SumFunctionOnSet(f, U) = f[p] + SumFunctionOnSet(f, U \ {p})
      BY <2>1, <3>1, SumRemove
    <3> QED
      BY <3>1, <3>2, Zenon
  <2> QED
    BY <1>2, <2>2
<1> HIDE DEF F
<1>3. S \in F
  BY <1>1, <1>2, SubsetsClosed
<1> QED
  BY <1>3 DEF F
=============================================================================
