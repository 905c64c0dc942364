------------------------------ MODULE SumLemmas ------------------------------
(***************************************************************************)
(* Sums of a function's values over a finite set (SumFunctionOnSet of the  *)
(* community modules), and the induction they need: over the natural       *)
(* numbers and over finite sets, stated of sets instead of predicates.     *)
(***************************************************************************)
EXTENDS Integers, FiniteSets, Functions, FiniteSetTheorems, TLAPS

-----------------------------------------------------------------------------
(* Induction *)

(* A gap in S would let the successor map a set of n + 1 numbers into one  *)
(* of n.                                                                   *)
LEMMA NatSetInduction ==
  ASSUME NEW S \in SUBSET Nat, 0 \in S, \A n \in S : n + 1 \in S
  PROVE  S = Nat
<1> SUFFICES ASSUME NEW n \in Nat, n \notin S PROVE FALSE
  OBVIOUS
<1> DEFINE A == S \cap 0 .. n
           B == A \ {0}
           next == [x \in A |-> x + 1]
<1>1. IsFiniteSet(A) /\ IsFiniteSet(B)
  <2>1. IsFiniteSet(0 .. n) BY FS_Interval
  <2>2. A \in SUBSET (0 .. n) /\ B \in SUBSET (0 .. n) OBVIOUS
  <2> HIDE DEF A, B
  <2> QED BY <2>1, <2>2, FS_Subset
<1>2. 0 \in A OBVIOUS
<1>3. Cardinality(B) < Cardinality(A)
  <2>1. B = A \ {0} OBVIOUS
  <2> HIDE DEF A, B
  <2> QED BY <1>1, <1>2, <2>1, FS_RemoveElement, FS_CardinalityType
<1>4. next \in [A -> B] OBVIOUS
<1>5. \E x, y \in A : x # y /\ next[x] = next[y]
  <2> HIDE DEF A, B, next
  <2> QED BY <1>1, <1>3, <1>4, FS_PigeonHole
<1> QED BY <1>5

LEMMA FiniteSetInduction ==
  ASSUME NEW S, IsFiniteSet(S), NEW P \in SUBSET (SUBSET S),
         \A T \in SUBSET S :
           (\A U \in SUBSET T : U # T => U \in P) => T \in P
  PROVE  P = SUBSET S
<1> DEFINE small(n) == {T \in SUBSET S : Cardinality(T) <= n}
           N == {n \in Nat : small(n) \subseteq P}
<1>1. \A T \in SUBSET S : IsFiniteSet(T) /\ Cardinality(T) \in Nat
  BY FS_Subset, FS_CardinalityType
<1>2. \A T \in SUBSET S : \A U \in SUBSET T :
        U # T => Cardinality(U) < Cardinality(T)
  BY <1>1, FS_Subset
<1>3. 0 \in N
  <2> SUFFICES ASSUME NEW T \in SUBSET S, Cardinality(T) <= 0
               PROVE  T \in P
    OBVIOUS
  <2>1. \A U \in SUBSET T : U = T BY <1>1, <1>2
  <2> QED BY <2>1
<1>4. ASSUME NEW n \in N PROVE n + 1 \in N
  <2> SUFFICES ASSUME NEW T \in SUBSET S, Cardinality(T) <= n + 1
               PROVE  T \in P
    OBVIOUS
  <2>1. ASSUME NEW U \in SUBSET T, U # T PROVE U \in P
    BY <1>1, <1>2, <2>1
  <2> QED BY <2>1
<1>5. N = Nat
  <2> HIDE DEF N
  <2>1. N \in SUBSET Nat BY DEF N
  <2> QED BY <1>3, <1>4, <2>1, NatSetInduction
<1> QED
  <2>1. ASSUME NEW T \in SUBSET S PROVE T \in P
    <3>1. Cardinality(T) \in N BY <1>1, <1>5
    <3> QED BY <1>1, <3>1
  <2> QED BY <2>1

Chosen(s) == CHOOSE x \in s : TRUE

(* it computes what g makes of b, taking one element of S after another.   *)
Folds(it, g, b, S) ==
  it = [s \in SUBSET S |->
          IF s = {} THEN b ELSE g[<<it[s \ {Chosen(s)}], Chosen(s)>>]]

(* A fold over a finite set exists.                                        *)
LEMMA FoldExists ==
  ASSUME NEW S, IsFiniteSet(S), NEW b, NEW g
  PROVE  \E it : Folds(it, g, b, S)
<1> DEFINE small(n) == {T \in SUBSET S : Cardinality(T) <= n}
           step(it, n) ==
             [s \in small(n) |->
                IF s = {} THEN b ELSE g[<<it[s \ {Chosen(s)}], Chosen(s)>>]]
           N == {n \in Nat : \E it : it = step(it, n)}
<1>1. \A T \in SUBSET S : IsFiniteSet(T) /\ Cardinality(T) \in Nat
  BY FS_Subset, FS_CardinalityType
<1>2. \A s \in SUBSET S : s # {} =>
        /\ Chosen(s) \in s /\ s \ {Chosen(s)} \in SUBSET S
        /\ Cardinality(s \ {Chosen(s)}) = Cardinality(s) - 1
  BY <1>1, FS_RemoveElement DEF Chosen
<1>3. \A s \in SUBSET S : Cardinality(s) = 0 => s = {}
  BY <1>1, FS_EmptySet
<1>4. 0 \in N
  <2> DEFINE it == [s \in small(0) |-> b]
  <2>1. \A s \in small(0) : s = {} BY <1>1, <1>3
  <2>2. it = step(it, 0) BY <2>1
  <2> QED BY <2>2
<1>5. ASSUME NEW n \in N PROVE n + 1 \in N
  <2>1. PICK it : it = step(it, n) BY <1>5
  <2> DEFINE jt == step(it, n + 1)
  <2>2. n \in Nat BY <1>5
  <2>3. \A s \in small(n + 1) : s # {} => s \ {Chosen(s)} \in small(n)
    BY <1>1, <1>2, <2>2
  <2>4. small(n) \subseteq small(n + 1) BY <1>1, <2>2
  <2>5. \A s \in small(n) : jt[s] = it[s]
    BY <2>1, <2>4
  <2>6. jt = step(jt, n + 1)
    <3> SUFFICES \A s \in small(n + 1) : s # {} =>
                   it[s \ {Chosen(s)}] = jt[s \ {Chosen(s)}]
      OBVIOUS
    <3> QED BY <2>3, <2>5
  <2>7. \E kt : kt = step(kt, n + 1)
    <3> HIDE DEF jt, step
    <3> QED BY <2>6
  <2>8. n + 1 \in Nat BY <2>2
  <2> HIDE DEF step, small
  <2> QED BY <2>7, <2>8, Zenon
<1>6. N = Nat
  <2>1. N \in SUBSET Nat OBVIOUS
  <2> HIDE DEF N
  <2> QED BY <1>4, <1>5, <2>1, NatSetInduction
<1>7. small(Cardinality(S)) = SUBSET S BY <1>1, FS_Subset
<1>8. Cardinality(S) \in N BY <1>1, <1>6
<1>9. PICK it : it = step(it, Cardinality(S)) BY <1>8
<1>10. Folds(it, g, b, S) BY <1>7, <1>9 DEF Folds
<1> QED BY <1>10

-----------------------------------------------------------------------------
(* The sum over a set, by an element that CHOOSE takes out.                *)

(* it computes the sums of f over all subsets of S.                        *)
Sums(it, f, S) ==
  it = [s \in SUBSET S |->
          IF s = {} THEN 0 ELSE f[Chosen(s)] + it[s \ {Chosen(s)}]]

LEMMA SumIs ==
  ASSUME NEW S, NEW f
  PROVE  SumFunctionOnSet(f, S) = (CHOOSE it : Sums(it, f, S))[S]
BY DEF SumFunctionOnSet, FoldFunctionOnSet, MapThenFoldSet, Sums, Chosen

LEMMA SumsExist ==
  ASSUME NEW S, IsFiniteSet(S), NEW f
  PROVE  Sums(CHOOSE it : Sums(it, f, S), f, S)
<1> DEFINE small(n) == {T \in SUBSET S : Cardinality(T) <= n}
           step(it, n) ==
             [s \in small(n) |->
                IF s = {} THEN 0 ELSE f[Chosen(s)] + it[s \ {Chosen(s)}]]
           N == {n \in Nat : \E it : it = step(it, n)}
<1>1. \A T \in SUBSET S : IsFiniteSet(T) /\ Cardinality(T) \in Nat
  BY FS_Subset, FS_CardinalityType
<1>2. \A s \in SUBSET S : s # {} =>
        /\ Chosen(s) \in s /\ s \ {Chosen(s)} \in SUBSET S
        /\ Cardinality(s \ {Chosen(s)}) = Cardinality(s) - 1
  BY <1>1, FS_RemoveElement DEF Chosen
<1>3. \A s \in SUBSET S : Cardinality(s) = 0 => s = {}
  BY <1>1, FS_EmptySet
<1>4. 0 \in N
  <2> DEFINE it == [s \in small(0) |-> 0]
  <2>1. \A s \in small(0) : s = {} BY <1>1, <1>3
  <2>2. it = step(it, 0) BY <2>1
  <2> QED BY <2>2
<1>5. ASSUME NEW n \in N PROVE n + 1 \in N
  <2>1. PICK it : it = step(it, n) BY <1>5
  <2> DEFINE jt == step(it, n + 1)
  <2>2. n \in Nat BY <1>5
  <2>3. \A s \in small(n + 1) : s # {} => s \ {Chosen(s)} \in small(n)
    BY <1>1, <1>2, <2>2
  <2>4. small(n) \subseteq small(n + 1) BY <1>1, <2>2
  <2>5. \A s \in small(n) : jt[s] = it[s]
    BY <2>1, <2>4
  <2>6. jt = step(jt, n + 1)
    <3> SUFFICES \A s \in small(n + 1) : s # {} =>
                   it[s \ {Chosen(s)}] = jt[s \ {Chosen(s)}]
      OBVIOUS
    <3> QED BY <2>3, <2>5
  <2>7. \E kt : kt = step(kt, n + 1)
    <3> HIDE DEF jt, step
    <3> QED BY <2>6
  <2>8. n + 1 \in Nat BY <2>2
  <2> HIDE DEF step, small
  <2> QED BY <2>7, <2>8, Zenon
<1>6. N = Nat
  <2>1. N \in SUBSET Nat OBVIOUS
  <2> HIDE DEF N
  <2> QED BY <1>4, <1>5, <2>1, NatSetInduction
<1>7. small(Cardinality(S)) = SUBSET S BY <1>1, FS_Subset
<1>8. Cardinality(S) \in N BY <1>1, <1>6
<1>9. PICK it : it = step(it, Cardinality(S)) BY <1>8
<1>10. Sums(it, f, S) BY <1>7, <1>9 DEF Sums
<1> QED BY <1>10

(* What a sum is, by whichever element is taken out first.                 *)
LEMMA SumEmpty == ASSUME NEW f PROVE SumFunctionOnSet(f, {}) = 0
<1>1. IsFiniteSet({}) BY FS_EmptySet
<1>2. Sums(CHOOSE it : Sums(it, f, {}), f, {}) BY <1>1, SumsExist
<1> QED BY <1>2, SumIs DEF Sums

LEMMA SumsAgree ==
  ASSUME NEW S, IsFiniteSet(S), NEW f, NEW it, Sums(it, f, S),
         NEW T \in SUBSET S
  PROVE  it[T] = SumFunctionOnSet(f, T)
<1>1. IsFiniteSet(T) BY FS_Subset
<1>2. PICK jt : Sums(jt, f, T) /\ jt[T] = SumFunctionOnSet(f, T)
  BY <1>1, SumsExist, SumIs
<1> DEFINE P == {U \in SUBSET T : it[U] = jt[U]}
<1>3. ASSUME NEW U \in SUBSET T,
             \A V \in SUBSET U : V # U => V \in P
      PROVE  U \in P
  <2>1. U \in SUBSET S OBVIOUS
  <2>2. CASE U = {} BY <2>2, <2>1, <1>2 DEF Sums
  <2>3. CASE U # {}
    <3>1. Chosen(U) \in U BY <2>3 DEF Chosen
    <3>2. U \ {Chosen(U)} \in P BY <1>3, <3>1
    <3> QED BY <2>3, <2>1, <3>2, <1>2 DEF Sums
  <2> QED BY <2>2, <2>3
<1>4. P = SUBSET T
  <2>1. P \in SUBSET (SUBSET T) OBVIOUS
  <2> HIDE DEF P
  <2> QED BY <1>1, <1>3, <2>1, FiniteSetInduction
<1> QED BY <1>2, <1>4

LEMMA SumTakesChosen ==
  ASSUME NEW S, IsFiniteSet(S), S # {}, NEW f
  PROVE  /\ Chosen(S) \in S
         /\ SumFunctionOnSet(f, S) =
              f[Chosen(S)] + SumFunctionOnSet(f, S \ {Chosen(S)})
<1>1. Chosen(S) \in S BY DEF Chosen
<1>2. PICK it : Sums(it, f, S) BY SumsExist
<1>3. it[S] = f[Chosen(S)] + it[S \ {Chosen(S)}] BY <1>2 DEF Sums
<1>4. /\ it[S] = SumFunctionOnSet(f, S)
      /\ it[S \ {Chosen(S)}] = SumFunctionOnSet(f, S \ {Chosen(S)})
  BY <1>2, SumsAgree
<1> QED BY <1>1, <1>3, <1>4

LEMMA SumType ==
  ASSUME NEW S, IsFiniteSet(S), NEW f, \A x \in S : f[x] \in Int
  PROVE  SumFunctionOnSet(f, S) \in Int
<1> DEFINE P == {T \in SUBSET S : SumFunctionOnSet(f, T) \in Int}
<1>1. ASSUME NEW T \in SUBSET S, \A U \in SUBSET T : U # T => U \in P
      PROVE  T \in P
  <2>1. CASE T = {} BY <2>1, SumEmpty
  <2>2. CASE T # {}
    <3>1. IsFiniteSet(T) BY FS_Subset
    <3>2. /\ Chosen(T) \in T
          /\ SumFunctionOnSet(f, T) =
               f[Chosen(T)] + SumFunctionOnSet(f, T \ {Chosen(T)})
      BY <2>2, <3>1, SumTakesChosen
    <3>3. T \ {Chosen(T)} \in P BY <1>1, <3>2
    <3> QED BY <3>2, <3>3
  <2> QED BY <2>1, <2>2
<1>2. P = SUBSET S
  <2>1. P \in SUBSET (SUBSET S) OBVIOUS
  <2> HIDE DEF P
  <2> QED BY <1>1, <2>1, FiniteSetInduction
<1> QED BY <1>2

LEMMA SumNat ==
  ASSUME NEW S, IsFiniteSet(S), NEW f, \A x \in S : f[x] \in Nat
  PROVE  SumFunctionOnSet(f, S) \in Nat
<1> DEFINE P == {T \in SUBSET S : SumFunctionOnSet(f, T) \in Nat}
<1>1. ASSUME NEW T \in SUBSET S, \A U \in SUBSET T : U # T => U \in P
      PROVE  T \in P
  <2>1. CASE T = {} BY <2>1, SumEmpty
  <2>2. CASE T # {}
    <3>1. IsFiniteSet(T) BY FS_Subset
    <3>2. /\ Chosen(T) \in T
          /\ SumFunctionOnSet(f, T) =
               f[Chosen(T)] + SumFunctionOnSet(f, T \ {Chosen(T)})
      BY <2>2, <3>1, SumTakesChosen
    <3>3. T \ {Chosen(T)} \in P BY <1>1, <3>2
    <3> QED BY <3>2, <3>3
  <2> QED BY <2>1, <2>2
<1>2. P = SUBSET S
  <2>1. P \in SUBSET (SUBSET S) OBVIOUS
  <2> HIDE DEF P
  <2> QED BY <1>1, <2>1, FiniteSetInduction
<1> QED BY <1>2

LEMMA SumTakes ==
  ASSUME NEW S, IsFiniteSet(S), NEW f, \A x \in S : f[x] \in Int,
         NEW x \in S
  PROVE  SumFunctionOnSet(f, S) = f[x] + SumFunctionOnSet(f, S \ {x})
<1> DEFINE Sum(T) == SumFunctionOnSet(f, T)
           P == {T \in SUBSET S :
                   \A y \in T : Sum(T) = f[y] + Sum(T \ {y})}
<1>1. \A T \in SUBSET S : IsFiniteSet(T) /\ Sum(T) \in Int
  BY FS_Subset, SumType
<1>2. ASSUME NEW T \in SUBSET S, \A U \in SUBSET T : U # T => U \in P
      PROVE  T \in P
  <2> SUFFICES ASSUME NEW y \in T
               PROVE  Sum(T) = f[y] + Sum(T \ {y})
    OBVIOUS
  <2> DEFINE c == Chosen(T)
  <2>1. c \in T /\ Sum(T) = f[c] + Sum(T \ {c})
    BY <1>1, SumTakesChosen
  <2>2. CASE y # c
    <3>1. T \ {c} \in P /\ T \ {y} \in P BY <1>2, <2>1
    <3>2. Sum(T \ {c}) = f[y] + Sum((T \ {c}) \ {y}) BY <2>2, <3>1
    <3>3. Sum(T \ {y}) = f[c] + Sum((T \ {y}) \ {c}) BY <2>1, <2>2, <3>1
    <3>4. (T \ {c}) \ {y} = (T \ {y}) \ {c} OBVIOUS
    <3>5. Sum((T \ {y}) \ {c}) \in Int BY <1>1
    <3>6. f[c] \in Int /\ f[y] \in Int BY <2>1
    <3>7. \A a, b, d \in Int : a + (b + d) = b + (a + d) OBVIOUS
    <3> DEFINE rest == Sum((T \ {y}) \ {c})
    <3>8. Sum(T) = f[c] + (f[y] + rest) BY <2>1, <3>2, <3>4
    <3>9. f[c] + (f[y] + rest) = f[y] + (f[c] + rest)
      <4> HIDE DEF c, Sum
      <4> QED BY <3>5, <3>6, <3>7
    <3>10. f[c] + rest = Sum(T \ {y}) BY <3>3
    <3> HIDE DEF c, Sum, rest
    <3> QED BY <3>8, <3>9, <3>10
  <2>3. CASE y = c
    <3> HIDE DEF Sum
    <3> QED BY <2>1, <2>3
  <2> QED BY <2>2, <2>3
<1>3. P = SUBSET S
  <2>1. P \in SUBSET (SUBSET S) OBVIOUS
  <2> HIDE DEF P
  <2> QED BY <1>2, <2>1, FiniteSetInduction
<1> QED BY <1>3

-----------------------------------------------------------------------------
(* Sums of different functions, and over different sets.                   *)

LEMMA SumSingle ==
  ASSUME NEW f, NEW x, f[x] \in Int
  PROVE  SumFunctionOnSet(f, {x}) = f[x]
<1>1. IsFiniteSet({x}) /\ {x} \ {x} = {} BY FS_Singleton
<1>2. SumFunctionOnSet(f, {x}) = f[x] + SumFunctionOnSet(f, {x} \ {x})
  <2>1. x \in {x} /\ \A y \in {x} : f[y] \in Int OBVIOUS
  <2> QED BY <1>1, <2>1, SumTakes
<1> QED BY <1>1, <1>2, SumEmpty

LEMMA SumPlus ==
  ASSUME NEW S, IsFiniteSet(S), NEW f, NEW g, NEW h,
         \A x \in S : f[x] \in Int /\ g[x] \in Int /\ h[x] = f[x] + g[x]
  PROVE  SumFunctionOnSet(h, S) =
           SumFunctionOnSet(f, S) + SumFunctionOnSet(g, S)
<1> DEFINE Sum(k, T) == SumFunctionOnSet(k, T)
           P == {T \in SUBSET S : Sum(h, T) = Sum(f, T) + Sum(g, T)}
<1>1. ASSUME NEW T \in SUBSET S, \A U \in SUBSET T : U # T => U \in P
      PROVE  T \in P
  <2>1. CASE T = {} BY <2>1, SumEmpty
  <2>2. CASE T # {}
    <3>1. PICK x \in T : TRUE BY <2>2
    <3>2. IsFiniteSet(T) /\ IsFiniteSet(T \ {x}) BY FS_Subset
    <3>3. \A y \in T : f[y] \in Int /\ g[y] \in Int /\ h[y] \in Int
      OBVIOUS
    <3>4. /\ Sum(h, T) = h[x] + Sum(h, T \ {x})
          /\ Sum(f, T) = f[x] + Sum(f, T \ {x})
          /\ Sum(g, T) = g[x] + Sum(g, T \ {x})
      BY <3>1, <3>2, <3>3, SumTakes
    <3>5. Sum(f, T \ {x}) \in Int /\ Sum(g, T \ {x}) \in Int
      BY <3>2, <3>3, SumType
    <3>6. Sum(h, T \ {x}) = Sum(f, T \ {x}) + Sum(g, T \ {x})
      BY <1>1, <3>1
    <3>7. f[x] \in Int /\ g[x] \in Int /\ h[x] = f[x] + g[x] BY <3>1
    <3>8. \A a, b, c, d \in Int : (a + b) + (c + d) = (a + c) + (b + d)
      OBVIOUS
    <3>9. Sum(h, T) = Sum(f, T) + Sum(g, T)
      <4> HIDE DEF Sum
      <4> QED BY <3>4, <3>5, <3>6, <3>7, <3>8
    <3> QED BY <3>9
  <2> QED BY <2>1, <2>2
<1>2. P = SUBSET S
  <2>1. P \in SUBSET (SUBSET S) OBVIOUS
  <2> HIDE DEF P
  <2> QED BY <1>1, <2>1, FiniteSetInduction
<1> QED BY <1>2

LEMMA SumZero ==
  ASSUME NEW S, IsFiniteSet(S), NEW f, \A x \in S : f[x] = 0
  PROVE  SumFunctionOnSet(f, S) = 0
<1> DEFINE sum == SumFunctionOnSet(f, S)
<1>1. \A x \in S : f[x] \in Int /\ f[x] = f[x] + f[x] OBVIOUS
<1>2. sum = sum + sum BY <1>1, SumPlus
<1>3. sum \in Int BY <1>1, SumType
<1> HIDE DEF sum
<1>4. sum = 0 BY <1>2, <1>3
<1> QED BY <1>4 DEF sum

LEMMA SumSame ==
  ASSUME NEW S, IsFiniteSet(S), NEW f, NEW g,
         \A x \in S : f[x] \in Int /\ g[x] = f[x]
  PROVE  SumFunctionOnSet(g, S) = SumFunctionOnSet(f, S)
<1> DEFINE zero == [x \in S |-> 0]
<1>1. \A x \in S : zero[x] \in Int /\ zero[x] = 0 /\ g[x] = f[x] + zero[x]
  OBVIOUS
<1> HIDE DEF zero
<1>2. SumFunctionOnSet(g, S) =
        SumFunctionOnSet(f, S) + SumFunctionOnSet(zero, S)
  BY <1>1, SumPlus
<1>3. SumFunctionOnSet(zero, S) = 0 BY <1>1, SumZero
<1>4. SumFunctionOnSet(f, S) \in Int BY SumType
<1> QED BY <1>2, <1>3, <1>4

(* The functions differ at one place.                                      *)
LEMMA SumChanges ==
  ASSUME NEW S, IsFiniteSet(S), NEW f, NEW g, NEW x \in S,
         \A y \in S : f[y] \in Int /\ g[y] \in Int,
         \A y \in S \ {x} : g[y] = f[y]
  PROVE  SumFunctionOnSet(g, S) = SumFunctionOnSet(f, S) + (g[x] - f[x])
<1> DEFINE rest == S \ {x}
<1>1. IsFiniteSet(rest) BY FS_Subset
<1>2. SumFunctionOnSet(g, rest) = SumFunctionOnSet(f, rest)
  BY <1>1, SumSame
<1>3. /\ SumFunctionOnSet(f, S) = f[x] + SumFunctionOnSet(f, rest)
      /\ SumFunctionOnSet(g, S) = g[x] + SumFunctionOnSet(g, rest)
  BY SumTakes
<1>4. SumFunctionOnSet(f, rest) \in Int BY <1>1, SumType
<1> HIDE DEF rest
<1> QED BY <1>2, <1>3, <1>4

LEMMA SumAdds ==
  ASSUME NEW S, IsFiniteSet(S), NEW f, NEW x, x \notin S,
         \A y \in S \cup {x} : f[y] \in Int
  PROVE  SumFunctionOnSet(f, S \cup {x}) = f[x] + SumFunctionOnSet(f, S)
<1> DEFINE more == S \cup {x}
<1>1. IsFiniteSet(more) /\ more \ {x} = S /\ x \in more
  BY FS_AddElement
<1> HIDE DEF more
<1>2. \A y \in more : f[y] \in Int BY DEF more
<1>3. SumFunctionOnSet(f, more) = f[x] + SumFunctionOnSet(f, more \ {x})
  BY <1>1, <1>2, SumTakes
<1> QED BY <1>1, <1>3 DEF more

(* The sum over R is that of the sums over its parts, which key tells      *)
(* apart.                                                                  *)
LEMMA SumOfParts ==
  ASSUME NEW R, IsFiniteSet(R), NEW T, IsFiniteSet(T), NEW f, NEW key,
         \A r \in R : f[r] \in Int /\ key[r] \in T
  PROVE  SumFunctionOnSet(
           [t \in T |-> SumFunctionOnSet(f, {r \in R : key[r] = t})], T)
           = SumFunctionOnSet(f, R)
<1> DEFINE part(U, t) == {r \in U : key[r] = t}
           parts(U) == [t \in T |-> SumFunctionOnSet(f, part(U, t))]
           P == {U \in SUBSET R :
                   SumFunctionOnSet(parts(U), T) = SumFunctionOnSet(f, U)}
<1>1. \A U \in SUBSET R : IsFiniteSet(U) BY FS_Subset
<1>2. \A U \in SUBSET R : \A t \in T :
        part(U, t) \in SUBSET R /\ parts(U)[t] \in Int
  BY <1>1, SumType
<1>3. ASSUME NEW U \in SUBSET R, \A V \in SUBSET U : V # U => V \in P
      PROVE  U \in P
  <2>1. CASE U = {}
    <3>1. \A t \in T : parts(U)[t] = 0
      <4>1. \A t \in T : part(U, t) = {} BY <2>1
      <4> HIDE DEF part
      <4> QED BY <4>1, SumEmpty
    <3>2. SumFunctionOnSet(parts(U), T) = 0
      <4> HIDE DEF parts
      <4> QED BY <3>1, SumZero
    <3> QED BY <2>1, <3>2, SumEmpty
  <2>2. CASE U # {}
    <3>1. PICK x \in U : TRUE BY <2>2
    <3> DEFINE V == U \ {x}
               t == key[x]
    <3>2. /\ V \in SUBSET R /\ V \in SUBSET U /\ V # U
          /\ t \in T /\ f[x] \in Int
          /\ \A r \in U : f[r] \in Int
      BY <3>1
    <3>3. SumFunctionOnSet(parts(V), T) = SumFunctionOnSet(f, V)
      BY <1>3, <3>2
    <3>4. parts(U)[t] = f[x] + parts(V)[t]
      <4>1. x \in part(U, t) /\ part(U, t) \ {x} = part(V, t)
        BY <3>1
      <4>2. IsFiniteSet(part(U, t)) BY <1>1, <1>2, <3>2
      <4>3. \A r \in part(U, t) : f[r] \in Int BY <3>2
      <4> HIDE DEF part
      <4>4. SumFunctionOnSet(f, part(U, t)) =
              f[x] + SumFunctionOnSet(f, part(U, t) \ {x})
        BY <4>1, <4>2, <4>3, SumTakes
      <4> QED BY <3>2, <4>1, <4>4
    <3>5. \A u \in T \ {t} : parts(U)[u] = parts(V)[u]
      <4>1. \A u \in T \ {t} : part(U, u) = part(V, u) BY <3>1
      <4> HIDE DEF part
      <4> QED BY <4>1
    <3>6. \A u \in T : parts(U)[u] \in Int /\ parts(V)[u] \in Int
      BY <1>2, <3>2
    <3>7. SumFunctionOnSet(parts(U), T) =
            SumFunctionOnSet(parts(V), T) + (parts(U)[t] - parts(V)[t])
      <4> HIDE DEF parts, V, t
      <4> QED BY <3>2, <3>5, <3>6, SumChanges
    <3>8. SumFunctionOnSet(f, U) = f[x] + SumFunctionOnSet(f, V)
      BY <1>1, <3>1, <3>2, SumTakes
    <3>9. SumFunctionOnSet(f, V) \in Int BY <1>1, <3>2, SumType
    <3>10. parts(V)[t] \in Int BY <3>2, <3>6
    <3>11. SumFunctionOnSet(parts(U), T) = SumFunctionOnSet(f, U)
      <4> HIDE DEF parts, V, t
      <4> QED BY <3>2, <3>3, <3>4, <3>7, <3>8, <3>9, <3>10
    <3> QED BY <3>11
  <2> QED BY <2>1, <2>2
<1>4. P = SUBSET R
  <2>1. P \in SUBSET (SUBSET R) OBVIOUS
  <2> HIDE DEF P
  <2> QED BY <1>3, <2>1, FiniteSetInduction
<1> QED BY <1>4
=============================================================================
