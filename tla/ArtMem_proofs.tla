--------------------------- MODULE ArtMem_proofs ---------------------------
(***************************************************************************)
(* A pool from which blocks of one size are taken, as timeMemPool, for     *)
(* every such size and every length of the pool that leaves a rest behind  *)
(* its blocks.                                                             *)
(***************************************************************************)
EXTENDS ArtMem, Integers, FiniteSetTheorems, WellFoundedInduction, TLAPS

----------------------------------------------------------------------------
(* Induction over the numbers, by way of the smallest counterexample.       *)

LEMMA Smallest ==
  ASSUME NEW T \in SUBSET Nat, T # {}
  PROVE  \E n \in T : \A k \in T : n <= k
  <1> DEFINE R == {p \in Nat \X Nat : p[1] < p[2]}
  <1>1. IsWellFoundedOn(R, Nat)
    BY NatLessThanWellFounded DEF OpToRel
  <1>2. \E x \in T : \A y \in T : ~ (<<y, x>> \in R)
    BY <1>1, WFMin
  <1>3. ASSUME NEW x \in Nat, NEW y \in Nat, y < x PROVE <<y, x>> \in R
    BY <1>3
  <1> HIDE DEF R
  <1>4. PICK x \in T : \A y \in T : ~ (<<y, x>> \in R)
    BY <1>2
  <1>5. ASSUME NEW y \in T PROVE x <= y
    <2>1. x \in Nat /\ y \in Nat /\ ~(y < x)
      BY <1>3, <1>4
    <2> QED BY <2>1
  <1> QED BY <1>4, <1>5

LEMMA Induct ==
  ASSUME NEW T, 0 \in T, \A n \in Nat : n \in T => n + 1 \in T
  PROVE  Nat \subseteq T
  <1> SUFFICES ASSUME NEW x \in Nat, x \notin T PROVE FALSE
    OBVIOUS
  <1>1. PICK n \in Nat \ T : \A k \in Nat \ T : n <= k
    BY Smallest
  <1>2. n # 0 /\ n - 1 \in Nat
    BY <1>1
  <1>3. n - 1 \in T
    BY <1>1, <1>2
  <1> QED BY <1>1, <1>2, <1>3

LEMMA Largest ==
  ASSUME NEW T \in SUBSET Nat, T # {}, NEW bound \in Nat, \A k \in T : k <= bound
  PROVE  \E n \in T : \A k \in T : k <= n
  <1> DEFINE U == {d \in Nat : d <= bound /\ bound - d \in T}
  <1>1. PICK t \in T : TRUE
    OBVIOUS
  <1>2. bound - t \in U
    <2>1. t \in Nat /\ t <= bound
      OBVIOUS
    <2>2. bound - t \in Nat /\ bound - t <= bound /\ bound - (bound - t) = t
      BY <2>1
    <2> QED BY <2>2
  <1>3. PICK d \in U : \A e \in U : d <= e
    <2> HIDE DEF U
    <2>1. U \in SUBSET Nat
      BY DEF U
    <2> QED BY <1>2, <2>1, Smallest
  <1>4. ASSUME NEW k \in T PROVE k <= bound - d
    <2>1. k \in Nat /\ k <= bound
      OBVIOUS
    <2>2. bound - k \in Nat /\ bound - k <= bound /\ bound - (bound - k) = k
      BY <2>1
    <2>3. d <= bound - k /\ d \in Nat
      BY <1>3, <2>2
    <2> QED BY <2>1, <2>3
  <1> QED BY <1>3, <1>4

(* What is started from x and carried on by f is a function.                *)
Iteration(g, n, x, f) == \A k \in 0..n : g[k] = IF k = 0 THEN x ELSE f[g[k - 1]]

LEMMA Iterates ==
  ASSUME NEW n \in Nat, NEW S, NEW x \in S, NEW f \in [S -> S]
  PROVE  \E g \in [0..n -> S] : Iteration(g, n, x, f)
  <1> DEFINE T == {m \in Nat : \E g \in [0..m -> S] :
                     \A k \in 0..m : g[k] = IF k = 0 THEN x ELSE f[g[k - 1]]}
  <1>1. 0 \in T
    <2> DEFINE g == [k \in 0..0 |-> x]
    <2>1. g \in [0..0 -> S] /\ \A k \in 0..0 : g[k] = IF k = 0 THEN x ELSE f[g[k - 1]]
      OBVIOUS
    <2> QED BY <2>1
  <1>2. ASSUME NEW m \in Nat, m \in T PROVE m + 1 \in T
    <2>1. PICK g \in [0..m -> S] : \A k \in 0..m : g[k] = IF k = 0 THEN x ELSE f[g[k - 1]]
      BY <1>2
    <2> DEFINE h == [k \in 0..(m + 1) |-> IF k = m + 1 THEN f[g[m]] ELSE g[k]]
    <2>2. m \in 0..m /\ g[m] \in S /\ f[g[m]] \in S
      BY <2>1
    <2>3. h \in [0..(m + 1) -> S]
      BY <2>1, <2>2
    <2>4. h[m + 1] = f[g[m]] /\ \A k \in 0..m : h[k] = g[k]
      OBVIOUS
    <2> HIDE DEF h
    <2>5. ASSUME NEW k \in 0..(m + 1) PROVE h[k] = IF k = 0 THEN x ELSE f[h[k - 1]]
      <3>1. CASE k = m + 1
        BY <2>2, <2>4, <3>1
      <3>2. CASE k \in 0..m
        <4>1. k # 0 => k - 1 \in 0..m
          BY <3>2
        <4> QED BY <2>1, <2>4, <3>2, <4>1
      <3> QED BY <3>1, <3>2
    <2> QED BY <2>3, <2>5
  <1> HIDE DEF T
  <1>3. n \in T
    BY <1>1, <1>2, Induct
  <1> QED BY <1>3 DEF T, Iteration

----------------------------------------------------------------------------
(* The sum of the sizes of some blocks.                                     *)

SumOfSizes(m, S) ==
  MapThenFoldSet(LAMBDA x, y : x + y, 0, LAMBDA b : m[b].size,
                 LAMBDA T : CHOOSE b \in T : TRUE, S)

(* The sizes of the subsets of S, each chosen element first. *)
Sums(m, S, g) ==
  \A s \in SUBSET S :
    g[s] = IF s = {} THEN 0
           ELSE m[CHOOSE b \in s : TRUE].size + g[s \ {CHOOSE b \in s : TRUE}]

LEMMA SumsExist ==
  ASSUME NEW S, IsFiniteSet(S), NEW m, \A b \in S : m[b].size \in Nat
  PROVE  \E g \in [SUBSET S -> Nat] : Sums(m, S, g)
  <1> DEFINE Sub(n) == {s \in SUBSET S : Cardinality(s) <= n}
             Rule(g, s) == g[s] = IF s = {} THEN 0
                           ELSE m[CHOOSE b \in s : TRUE].size + g[s \ {CHOOSE b \in s : TRUE}]
             T == {n \in Nat : \E g \in [Sub(n) -> Nat] : \A s \in Sub(n) : Rule(g, s)}
  <1>0. \A s \in SUBSET S : IsFiniteSet(s) /\ Cardinality(s) \in Nat
    BY FS_Subset, FS_CardinalityType
  <1>1. 0 \in T
    <2>1. Sub(0) = {{}}
      <3>1. \A s \in Sub(0) : s = {}
        BY <1>0, FS_EmptySet
      <3>2. {} \in Sub(0)
        BY FS_EmptySet
      <3> QED BY <3>1, <3>2
    <2> DEFINE g == [s \in Sub(0) |-> 0]
    <2>2. g \in [Sub(0) -> Nat] /\ \A s \in Sub(0) : Rule(g, s)
      BY <2>1
    <2> QED BY <2>2
  <1>2. ASSUME NEW n \in Nat, n \in T PROVE n + 1 \in T
    <2>1. PICK g \in [Sub(n) -> Nat] : \A s \in Sub(n) : Rule(g, s)
      BY <1>2
    <2> DEFINE Value(s) == IF s = {} THEN 0
                           ELSE m[CHOOSE b \in s : TRUE].size + g[s \ {CHOOSE b \in s : TRUE}]
               h == [s \in Sub(n + 1) |-> Value(s)]
    <2>2. ASSUME NEW s \in Sub(n + 1), s # {}, NEW c \in s
          PROVE  s \ {c} \in Sub(n) /\ s \ {c} \in Sub(n + 1)
      <3>1. IsFiniteSet(s) /\ Cardinality(s) \in Nat /\ Cardinality(s) <= n + 1
        BY <1>0
      <3>2. Cardinality(s \ {c}) = Cardinality(s) - 1
        BY <2>2, <3>1, FS_RemoveElement
      <3> QED BY <3>1, <3>2
    <2>3. ASSUME NEW s \in Sub(n + 1) PROVE Value(s) \in Nat
      <3>1. CASE s = {}
        BY <3>1
      <3>2. CASE s # {}
        <4>1. PICK c : c = CHOOSE b \in s : TRUE
          OBVIOUS
        <4>2. c \in s
          BY <3>2, <4>1
        <4>3. g[s \ {c}] \in Nat /\ m[c].size \in Nat
          <5>1. s \ {c} \in Sub(n)
            BY <2>2, <3>2, <4>2
          <5>2. c \in S
            BY <4>2
          <5> HIDE DEF Sub
          <5> QED BY <2>1, <5>1, <5>2
        <4>4. Value(s) = m[c].size + g[s \ {c}]
          BY <3>2, <4>1
        <4> HIDE DEF Value
        <4> QED BY <4>3, <4>4
      <3> QED BY <3>1, <3>2
    <2>4. \A s \in Sub(n) : s \in Sub(n + 1) /\ h[s] = g[s]
      <3>1. \A s \in Sub(n) : s \in Sub(n + 1)
        BY <1>0
      <3>2. \A s \in Sub(n) : Value(s) = g[s]
        BY <2>1
      <3> HIDE DEF Sub, Value
      <3> QED BY <3>1, <3>2
    <2>5. ASSUME NEW s \in Sub(n + 1) PROVE Rule(h, s)
      <3>1. h[s] = Value(s)
        OBVIOUS
      <3>2. CASE s = {}
        BY <3>1, <3>2
      <3>3. CASE s # {}
        <4>1. PICK c : c = CHOOSE b \in s : TRUE
          OBVIOUS
        <4>2. c \in s
          BY <3>3, <4>1
        <4>3. s \ {c} \in Sub(n)
          BY <2>2, <3>3, <4>2
        <4>4. h[s \ {c}] = g[s \ {c}]
          BY <2>4, <4>3
        <4>5. h[s] = m[c].size + g[s \ {c}]
          BY <3>1, <3>3, <4>1
        <4> HIDE DEF h
        <4> QED BY <3>3, <4>1, <4>4, <4>5
      <3> QED BY <3>2, <3>3
    <2>6. h \in [Sub(n + 1) -> Nat]
      <3> HIDE DEF Sub, Value
      <3> QED BY <2>3
    <2> HIDE DEF h, Sub, Rule
    <2> QED BY <2>5, <2>6
  <1>3. Cardinality(S) \in T
    <2> HIDE DEF T
    <2> QED BY <1>1, <1>2, Induct, FS_CardinalityType
  <1>4. Sub(Cardinality(S)) = SUBSET S
    BY FS_Subset
  <1> QED BY <1>3, <1>4 DEF Sums

LEMMA SumsAgree ==
  ASSUME NEW S, IsFiniteSet(S), NEW m, NEW g, Sums(m, S, g),
         NEW R \in SUBSET S, NEW u, NEW h, Sums(u, R, h), \A b \in R : u[b].size = m[b].size
  PROVE  h[R] = g[R]
  <1> DEFINE T == {n \in Nat : \A s \in SUBSET R : Cardinality(s) <= n => h[s] = g[s]}
  <1>0. \A s \in SUBSET R : IsFiniteSet(s) /\ Cardinality(s) \in Nat
    BY FS_Subset, FS_CardinalityType
  <1>1. 0 \in T
    <2> SUFFICES ASSUME NEW s \in SUBSET R, Cardinality(s) <= 0 PROVE h[s] = g[s]
      OBVIOUS
    <2>1. s = {}
      BY <1>0, FS_EmptySet
    <2> QED BY <2>1 DEF Sums
  <1>2. ASSUME NEW n \in Nat, n \in T PROVE n + 1 \in T
    <2> SUFFICES ASSUME NEW s \in SUBSET R, Cardinality(s) <= n + 1 PROVE h[s] = g[s]
      OBVIOUS
    <2>1. CASE s = {}
      BY <2>1 DEF Sums
    <2>2. CASE s # {}
      <3>1. PICK c : c = CHOOSE b \in s : TRUE
        OBVIOUS
      <3>2. c \in s
        BY <2>2, <3>1
      <3>3. Cardinality(s \ {c}) = Cardinality(s) - 1
        BY <1>0, <3>2, FS_RemoveElement
      <3>4. h[s \ {c}] = g[s \ {c}]
        <4>1. Cardinality(s \ {c}) <= n /\ s \ {c} \in SUBSET R
          BY <1>0, <3>3
        <4> QED BY <1>2, <4>1
      <3>5. h[s] = u[c].size + h[s \ {c}] /\ g[s] = m[c].size + g[s \ {c}]
        <4>1. s \in SUBSET S
          OBVIOUS
        <4> QED BY <2>2, <3>1, <4>1 DEF Sums
      <3> QED BY <3>2, <3>4, <3>5
    <2> QED BY <2>1, <2>2
  <1>3. Cardinality(R) \in T
    <2> HIDE DEF T
    <2> QED BY <1>0, <1>1, <1>2, Induct
  <1> QED BY <1>3

Takes(m, S, g) == \A s \in SUBSET S : \A x \in s : g[s] = m[x].size + g[s \ {x}]

LEMMA SumsTake ==
  ASSUME NEW S, IsFiniteSet(S), NEW m, \A b \in S : m[b].size \in Nat,
         NEW g, g \in [SUBSET S -> Nat], Sums(m, S, g)
  PROVE  Takes(m, S, g)
  <1> DEFINE T == {n \in Nat : \A s \in SUBSET S : Cardinality(s) <= n =>
                                 \A x \in s : g[s] = m[x].size + g[s \ {x}]}
  <1>0. \A s \in SUBSET S : IsFiniteSet(s) /\ Cardinality(s) \in Nat /\ g[s] \in Nat
    BY FS_Subset, FS_CardinalityType
  <1>1. 0 \in T
    <2>1. \A s \in SUBSET S : Cardinality(s) <= 0 => s = {}
      BY <1>0, FS_EmptySet
    <2> QED BY <2>1
  <1>2. ASSUME NEW n \in Nat, n \in T PROVE n + 1 \in T
    <2> SUFFICES ASSUME NEW s \in SUBSET S, Cardinality(s) <= n + 1, NEW x \in s
                 PROVE  g[s] = m[x].size + g[s \ {x}]
      OBVIOUS
    <2>1. PICK c : c = CHOOSE b \in s : TRUE
      OBVIOUS
    <2>2. c \in s
      BY <2>1
    <2>3. g[s] = m[c].size + g[s \ {c}]
      BY <2>1, <2>2 DEF Sums
    <2>4. CASE c = x
      BY <2>3, <2>4
    <2>5. CASE c # x
      <3>1. /\ Cardinality(s \ {c}) = Cardinality(s) - 1 /\ Cardinality(s \ {x}) = Cardinality(s) - 1
        BY <1>0, <2>2, FS_RemoveElement
      <3>2. /\ s \ {c} \in SUBSET S /\ s \ {x} \in SUBSET S /\ x \in s \ {c} /\ c \in s \ {x}
            /\ Cardinality(s \ {c}) <= n /\ Cardinality(s \ {x}) <= n
        BY <1>0, <2>2, <2>5, <3>1
      <3>3. /\ g[s \ {c}] = m[x].size + g[(s \ {c}) \ {x}]
            /\ g[s \ {x}] = m[c].size + g[(s \ {x}) \ {c}]
        BY <1>2, <3>2
      <3>4. (s \ {c}) \ {x} = (s \ {x}) \ {c} /\ (s \ {x}) \ {c} \in SUBSET S
        OBVIOUS
      <3>5. g[(s \ {x}) \ {c}] \in Nat /\ m[x].size \in Nat /\ m[c].size \in Nat
        BY <1>0, <2>2, <3>4
      <3> DEFINE r == g[(s \ {x}) \ {c}]
      <3>6. /\ g[s] = m[c].size + (m[x].size + r) /\ g[s \ {x}] = m[c].size + r
            /\ r \in Nat /\ m[x].size \in Nat /\ m[c].size \in Nat
        BY <2>3, <3>3, <3>4, <3>5
      <3> HIDE DEF r
      <3> QED BY <3>6
    <2> QED BY <2>4, <2>5
  <1> HIDE DEF T
  <1>3. \A n \in Nat : n \in T
    BY <1>1, <1>2, Induct
  <1> QED
    <2> SUFFICES ASSUME NEW s \in SUBSET S, NEW x \in s PROVE g[s] = m[x].size + g[s \ {x}]
      BY DEF Takes
    <2>1. Cardinality(s) \in Nat /\ Cardinality(s) \in T
      BY <1>0, <1>3
    <2> QED BY <2>1 DEF T

LEMMA SumIsSums ==
  ASSUME NEW S, IsFiniteSet(S), NEW m, \A b \in S : m[b].size \in Nat
  PROVE  \E g \in [SUBSET S -> Nat] : Sums(m, S, g) /\ SumOfSizes(m, S) = g[S]
  <1> DEFINE Body(g) == [s \in SUBSET S |-> IF s = {} THEN 0
                           ELSE LET b == CHOOSE b \in s : TRUE IN m[b].size + g[s \ {b}]]
             it == CHOOSE g : g = Body(g)
  <1>1. SumOfSizes(m, S) = it[S]
    BY DEF SumOfSizes, MapThenFoldSet
  <1>2. PICK g \in [SUBSET S -> Nat] : Sums(m, S, g)
    BY SumsExist
  <1>3. g = Body(g)
    BY <1>2 DEF Sums
  <1>4. it = Body(it)
    <2> HIDE DEF Body
    <2> QED BY <1>3
  <1> HIDE DEF it
  <1>5. Sums(m, S, it)
    <2> SUFFICES ASSUME NEW s \in SUBSET S
                 PROVE  it[s] = IF s = {} THEN 0
                                ELSE m[CHOOSE b \in s : TRUE].size + it[s \ {CHOOSE b \in s : TRUE}]
      BY DEF Sums
    <2>1. it[s] = Body(it)[s]
      <3> HIDE DEF Body
      <3> QED BY <1>4
    <2> QED BY <2>1
  <1>6. it[S] = g[S]
    BY <1>2, <1>5, SumsAgree
  <1> QED BY <1>1, <1>2, <1>6

(* The sum without one of the blocks, and the sum when other blocks change. *)
LEMMA SumFacts ==
  ASSUME NEW S, IsFiniteSet(S), NEW m, \A b \in S : m[b].size \in Nat
  PROVE  /\ SumOfSizes(m, S) \in Nat
         /\ S = {} => SumOfSizes(m, S) = 0
         /\ \A x \in S : SumOfSizes(m, S) = m[x].size + SumOfSizes(m, S \ {x})
         /\ \A u : (\A b \in S : u[b].size = m[b].size) => SumOfSizes(u, S) = SumOfSizes(m, S)
  <1>1. PICK g \in [SUBSET S -> Nat] : Sums(m, S, g) /\ SumOfSizes(m, S) = g[S]
    BY SumIsSums
  <1>2. SumOfSizes(m, S) \in Nat
    BY <1>1
  <1>3. S = {} => SumOfSizes(m, S) = 0
    BY <1>1 DEF Sums
  <1>4. ASSUME NEW x \in S PROVE SumOfSizes(m, S) = m[x].size + SumOfSizes(m, S \ {x})
    <2>1. IsFiniteSet(S \ {x})
      BY FS_RemoveElement
    <2>2. PICK h \in [SUBSET (S \ {x}) -> Nat] : Sums(m, S \ {x}, h) /\ SumOfSizes(m, S \ {x}) = h[S \ {x}]
      BY <2>1, SumIsSums
    <2>3. S \ {x} \in SUBSET S
      OBVIOUS
    <2>4. h[S \ {x}] = g[S \ {x}]
      BY <1>1, <2>2, <2>3, SumsAgree
    <2>5. g[S] = m[x].size + g[S \ {x}]
      <3>1. Takes(m, S, g)
        BY <1>1, SumsTake
      <3> QED BY <3>1 DEF Takes
    <2> QED BY <1>1, <2>2, <2>4, <2>5
  <1>5. ASSUME NEW u, \A b \in S : u[b].size = m[b].size
        PROVE  SumOfSizes(u, S) = SumOfSizes(m, S)
    <2>1. PICK h \in [SUBSET S -> Nat] : Sums(u, S, h) /\ SumOfSizes(u, S) = h[S]
      BY <1>5, SumIsSums
    <2>2. h[S] = g[S]
      BY <1>1, <1>5, <2>1, SumsAgree
    <2> QED BY <1>1, <2>1, <2>2
  <1> QED BY <1>2, <1>3, <1>4, <1>5

----------------------------------------------------------------------------
(* The free list: n blocks, of which o gives the k-th.                      *)

Mem == [Addr -> [pNext : Addr \cup {NULL}, pPrev : Addr \cup {NULL},
                 size : 0..Total, used : BOOLEAN]]

Entry(n, o, k) == IF k \in 1..n THEN o[k] ELSE NULL
Listed(n, o) == {o[k] : k \in 1..n}

Linked(m, first, n, o) ==
  /\ n \in Nat /\ o \in [1..n -> Addr]
  /\ \A j, k \in 1..n : o[j] = o[k] => j = k
  /\ first = Entry(n, o, 1)
  /\ \A k \in 1..n : /\ m[o[k]].pNext = Entry(n, o, k + 1)
                     /\ m[o[k]].pPrev = Entry(n, o, k - 1)

(* What a write through a pointer changes and what it leaves. *)
WroteNext(u, m, b, to) ==
  /\ u \in Mem
  /\ \A a \in Addr : u[a].pNext = (IF a = b THEN to ELSE m[a].pNext) /\ u[a].pPrev = m[a].pPrev
  /\ \A a \in Addr : u[a].size = m[a].size
  /\ \A a \in Addr : u[a].used = m[a].used

WrotePrev(u, m, b, to) ==
  /\ u \in Mem
  /\ \A a \in Addr : u[a].pPrev = (IF a = b THEN to ELSE m[a].pPrev) /\ u[a].pNext = m[a].pNext
  /\ \A a \in Addr : u[a].size = m[a].size
  /\ \A a \in Addr : u[a].used = m[a].used

LEMMA Written ==
  ASSUME NEW m \in Mem, NEW b \in Addr \cup {NULL}, NEW to \in Addr \cup {NULL}
  PROVE  WroteNext(SetNext(m, b, to), m, b, to) /\ WrotePrev(SetPrev(m, b, to), m, b, to)
  <1>1. CASE b = NULL
    BY <1>1 DEF SetNext, SetPrev, Addr, NULL, Mem, WroteNext, WrotePrev
  <1>2. CASE b \in Addr
    <2>1. b # NULL
      BY <1>2 DEF Addr, NULL
    <2>2. SetNext(m, b, to) = [m EXCEPT ![b].pNext = to] /\ SetPrev(m, b, to) = [m EXCEPT ![b].pPrev = to]
      BY <2>1 DEF SetNext, SetPrev
    <2>3. m[b] \in [pNext : Addr \cup {NULL}, pPrev : Addr \cup {NULL}, size : 0..Total, used : BOOLEAN]
      BY <1>2 DEF Mem
    <2>4. /\ [m[b] EXCEPT !.pNext = to] \in [pNext : Addr \cup {NULL}, pPrev : Addr \cup {NULL}, size : 0..Total, used : BOOLEAN]
          /\ [m[b] EXCEPT !.pPrev = to] \in [pNext : Addr \cup {NULL}, pPrev : Addr \cup {NULL}, size : 0..Total, used : BOOLEAN]
      BY <2>3
    <2>5. SetNext(m, b, to) \in Mem /\ SetPrev(m, b, to) \in Mem
      BY <1>2, <2>2, <2>4 DEF Mem
    <2> QED BY <1>2, <2>2, <2>3, <2>5 DEF Mem, WroteNext, WrotePrev
  <1> QED BY <1>1, <1>2

(* A block takes the place of the one it was cut from or merged with. *)
LEMMA Replaced ==
  ASSUME NEW m, NEW first, NEW n, NEW o, Linked(m, first, n, o),
         NEW i \in 1..n, NEW x \in Addr, x \notin Listed(n, o) \ {o[i]},
         NEW u, u[x].pNext = Entry(n, o, i + 1), u[x].pPrev = Entry(n, o, i - 1),
         \A k \in (1..n) \ {i} :
           /\ u[o[k]].pNext = IF k = i - 1 THEN x ELSE m[o[k]].pNext
           /\ u[o[k]].pPrev = IF k = i + 1 THEN x ELSE m[o[k]].pPrev
  PROVE  \E q : /\ Linked(u, IF i = 1 THEN x ELSE first, n, q)
                /\ Listed(n, q) = (Listed(n, o) \ {o[i]}) \cup {x}
  <1> DEFINE q == [k \in 1..n |-> IF k = i THEN x ELSE o[k]]
  <1>0. n \in Nat /\ o \in [1..n -> Addr] /\ i \in Nat
    BY DEF Linked
  <1>1. q \in [1..n -> Addr]
    BY <1>0
  <1>2. \A k \in 1..n : q[k] = IF k = i THEN x ELSE o[k]
    OBVIOUS
  <1> HIDE DEF q
  <1>3. \A k \in 1..n : k # i => o[k] # x
    <2> SUFFICES ASSUME NEW k \in 1..n, k # i PROVE o[k] # x
      OBVIOUS
    <2>1. o[k] # o[i]
      BY DEF Linked
    <2> QED BY <2>1 DEF Listed
  <1>4. \A j, k \in 1..n : q[j] = q[k] => j = k
    BY <1>2, <1>3 DEF Linked
  <1>5. \A k \in Int : Entry(n, q, k) = IF k = i THEN x ELSE Entry(n, o, k)
    BY <1>2 DEF Entry
  <1>6. (IF i = 1 THEN x ELSE first) = Entry(n, q, 1)
    BY <1>5 DEF Linked
  <1>7. ASSUME NEW k \in 1..n
        PROVE  u[q[k]].pNext = Entry(n, q, k + 1) /\ u[q[k]].pPrev = Entry(n, q, k - 1)
    <2>1. k + 1 \in Int /\ k - 1 \in Int /\ (k + 1 = i <=> k = i - 1) /\ (k - 1 = i <=> k = i + 1)
      BY <1>0
    <2>2. CASE k = i
      BY <1>2, <1>5, <2>1, <2>2
    <2>3. CASE k # i
      BY <1>2, <1>5, <2>1, <2>3 DEF Linked
    <2> QED BY <2>2, <2>3
  <1>8. Listed(n, q) = (Listed(n, o) \ {o[i]}) \cup {x}
    <2>1. \A k \in 1..n : k # i => o[k] # o[i]
      BY DEF Linked
    <2> QED BY <1>2, <2>1 DEF Listed
  <1>9. Linked(u, IF i = 1 THEN x ELSE first, n, q)
    BY <1>0, <1>1, <1>4, <1>6, <1>7 DEF Linked
  <1> QED BY <1>8, <1>9

(* A block leaves the list. *)
LEMMA Removed ==
  ASSUME NEW m, NEW first, NEW n, NEW o, Linked(m, first, n, o), NEW i \in 1..n, NEW u,
         \A k \in (1..n) \ {i} :
           /\ u[o[k]].pNext = IF k = i - 1 THEN Entry(n, o, i + 1) ELSE m[o[k]].pNext
           /\ u[o[k]].pPrev = IF k = i + 1 THEN Entry(n, o, i - 1) ELSE m[o[k]].pPrev
  PROVE  \E q : /\ Linked(u, IF i = 1 THEN Entry(n, o, 2) ELSE first, n - 1, q)
                /\ Listed(n - 1, q) = Listed(n, o) \ {o[i]}
  <1> DEFINE Old(k) == IF k < i THEN k ELSE k + 1
             q == [k \in 1..(n - 1) |-> o[Old(k)]]
  <1>0. n \in Nat /\ o \in [1..n -> Addr] /\ i \in Nat /\ n - 1 \in Nat /\ i >= 1 /\ i <= n
    BY DEF Linked
  <1>1. \A k \in 1..(n - 1) : Old(k) \in 1..n /\ Old(k) # i
    BY <1>0
  <1>2. \A j, k \in 1..(n - 1) : Old(j) = Old(k) => j = k
    BY <1>0
  <1>3. \A j \in 1..n : j # i => \E k \in 1..(n - 1) : j = Old(k)
    <2> SUFFICES ASSUME NEW j \in 1..n, j # i PROVE \E k \in 1..(n - 1) : j = Old(k)
      OBVIOUS
    <2>1. CASE j < i
      <3>1. j \in 1..(n - 1) /\ j = Old(j)
        BY <1>0, <2>1
      <3> QED BY <3>1
    <2>2. CASE j > i
      <3>1. j - 1 \in 1..(n - 1) /\ j = Old(j - 1)
        BY <1>0, <2>2
      <3> QED BY <3>1
    <2> QED BY <1>0, <2>1, <2>2
  <1>4. \A k \in 1..(n - 1) : q[k] = o[Old(k)]
    OBVIOUS
  <1>5. q \in [1..(n - 1) -> Addr]
    <2> HIDE DEF Old
    <2> QED BY <1>0, <1>1
  <1> HIDE DEF q
  <1>6. \A j, k \in 1..(n - 1) : q[j] = q[k] => j = k
    <2> HIDE DEF Old
    <2> QED BY <1>1, <1>2, <1>4 DEF Linked
  <1>7. \A k \in 0..n : Entry(n - 1, q, k) = Entry(n, o, IF k < i THEN k ELSE k + 1)
    BY <1>0, <1>4 DEF Entry
  <1>8. (IF i = 1 THEN Entry(n, o, 2) ELSE first) = Entry(n - 1, q, 1)
    BY <1>0, <1>7 DEF Linked
  <1>9. ASSUME NEW k \in 1..(n - 1)
        PROVE  u[q[k]].pNext = Entry(n - 1, q, k + 1) /\ u[q[k]].pPrev = Entry(n - 1, q, k - 1)
    <2>1. q[k] = o[Old(k)] /\ Old(k) \in (1..n) \ {i}
      BY <1>1, <1>4
    <2>2. /\ u[q[k]].pNext = IF Old(k) = i - 1 THEN Entry(n, o, i + 1) ELSE Entry(n, o, Old(k) + 1)
          /\ u[q[k]].pPrev = IF Old(k) = i + 1 THEN Entry(n, o, i - 1) ELSE Entry(n, o, Old(k) - 1)
      <3> HIDE DEF Old
      <3> QED BY <2>1 DEF Linked
    <2>3. /\ k + 1 \in 0..n /\ k - 1 \in 0..n /\ k \in Nat
      BY <1>0
    <2>4. CASE k < i
      <3>1. Old(k) = k
        BY <2>4
      <3>2. Entry(n - 1, q, k - 1) = Entry(n, o, k - 1) /\ k # i + 1
        BY <1>0, <1>7, <2>3, <2>4
      <3>3. CASE k = i - 1
        <4>1. Entry(n - 1, q, k + 1) = Entry(n, o, i + 1)
          BY <1>0, <1>7, <2>3, <3>3
        <4> QED BY <2>2, <3>1, <3>2, <3>3, <4>1
      <3>4. CASE k # i - 1
        <4>1. Entry(n - 1, q, k + 1) = Entry(n, o, k + 1)
          BY <1>0, <1>7, <2>3, <2>4, <3>4
        <4> QED BY <2>2, <3>1, <3>2, <3>4, <4>1
      <3> QED BY <3>3, <3>4
    <2>5. CASE k >= i
      <3>1. Old(k) = k + 1 /\ Old(k) + 1 = k + 2 /\ Old(k) - 1 = k /\ k + 1 # i - 1
        BY <1>0, <2>3, <2>5
      <3>2. Entry(n - 1, q, k + 1) = Entry(n, o, k + 2)
        BY <1>0, <1>7, <2>3, <2>5
      <3>3. CASE k = i
        <4>1. Entry(n - 1, q, k - 1) = Entry(n, o, i - 1) /\ k + 1 = i + 1
          BY <1>0, <1>7, <2>3, <3>3
        <4> QED BY <2>2, <3>1, <3>2, <4>1
      <3>4. CASE k # i
        <4>1. Entry(n - 1, q, k - 1) = Entry(n, o, k) /\ k + 1 # i + 1
          BY <1>0, <1>7, <2>3, <2>5, <3>4
        <4> QED BY <2>2, <3>1, <3>2, <4>1
      <3> QED BY <3>3, <3>4
    <2> QED BY <1>0, <2>3, <2>4, <2>5
  <1>10. Listed(n - 1, q) = Listed(n, o) \ {o[i]}
    <2> HIDE DEF Old
    <2>1. \A k \in 1..(n - 1) : o[Old(k)] \in Listed(n, o) \ {o[i]}
      BY <1>1 DEF Linked, Listed
    <2>2. \A j \in 1..n : o[j] # o[i] => \E k \in 1..(n - 1) : o[j] = q[k]
      BY <1>3, <1>4
    <2> QED BY <1>4, <2>1, <2>2 DEF Listed
  <1>11. Linked(u, IF i = 1 THEN Entry(n, o, 2) ELSE first, n - 1, q)
    BY <1>0, <1>5, <1>6, <1>8, <1>9 DEF Linked
  <1> QED BY <1>10, <1>11

(* A block becomes the first. *)
LEMMA Prepended ==
  ASSUME NEW m, NEW first, NEW n, NEW o, Linked(m, first, n, o),
         NEW x \in Addr, x \notin Listed(n, o),
         NEW u, u[x].pNext = first, u[x].pPrev = NULL,
         \A k \in 1..n : /\ u[o[k]].pNext = m[o[k]].pNext
                         /\ u[o[k]].pPrev = IF k = 1 THEN x ELSE m[o[k]].pPrev
  PROVE  \E q : Linked(u, x, n + 1, q) /\ Listed(n + 1, q) = Listed(n, o) \cup {x}
  <1> DEFINE q == [k \in 1..(n + 1) |-> IF k = 1 THEN x ELSE o[k - 1]]
  <1>0. n \in Nat /\ o \in [1..n -> Addr] /\ n + 1 \in Nat
    BY DEF Linked
  <1>1. \A k \in 1..(n + 1) : k # 1 => k - 1 \in 1..n
    BY <1>0
  <1>2. \A k \in 1..(n + 1) : q[k] = IF k = 1 THEN x ELSE o[k - 1]
    OBVIOUS
  <1>3. q \in [1..(n + 1) -> Addr]
    BY <1>0, <1>1
  <1> HIDE DEF q
  <1>4. \A k \in 1..n : o[k] # x
    BY DEF Listed
  <1>5. \A j, k \in 1..(n + 1) : q[j] = q[k] => j = k
    <2> SUFFICES ASSUME NEW j \in 1..(n + 1), NEW k \in 1..(n + 1), q[j] = q[k] PROVE j = k
      OBVIOUS
    <2>1. CASE j # 1 /\ k # 1
      <3>1. j - 1 \in 1..n /\ k - 1 \in 1..n /\ o[j - 1] = o[k - 1]
        BY <1>1, <1>2, <2>1
      <3>2. j - 1 = k - 1
        BY <3>1 DEF Linked
      <3> QED BY <1>0, <3>2
    <2>2. CASE j = 1 \/ k = 1
      BY <1>1, <1>2, <1>4, <2>2
    <2> QED BY <2>1, <2>2
  <1>6. Entry(n + 1, q, 0) = NULL /\ Entry(n + 1, q, 1) = x
    BY <1>0, <1>2 DEF Entry
  <1>7. \A k \in 1..(n + 1) : Entry(n + 1, q, k + 1) = Entry(n, o, k)
    BY <1>0, <1>2 DEF Entry
  <1>8. ASSUME NEW k \in 1..(n + 1)
        PROVE  u[q[k]].pNext = Entry(n + 1, q, k + 1) /\ u[q[k]].pPrev = Entry(n + 1, q, k - 1)
    <2>1. CASE k = 1
      <3>1. q[k] = x /\ k - 1 = 0 /\ Entry(n + 1, q, k + 1) = Entry(n, o, 1)
        BY <1>2, <1>7, <2>1
      <3>2. first = Entry(n, o, 1)
        BY DEF Linked
      <3> QED BY <1>6, <3>1, <3>2
    <2>2. CASE k # 1
      <3>1. k - 1 \in 1..n /\ q[k] = o[k - 1] /\ k - 1 + 1 = k
        BY <1>0, <1>1, <1>2, <2>2
      <3>2. u[q[k]].pNext = Entry(n + 1, q, k + 1)
        BY <1>7, <3>1 DEF Linked
      <3>5. u[o[k - 1]].pPrev = IF k - 1 = 1 THEN x ELSE m[o[k - 1]].pPrev
        BY <3>1
      <3>3. CASE k - 1 = 1
        BY <1>6, <3>1, <3>2, <3>3, <3>5
      <3>4. CASE k - 1 # 1
        <4>1. k - 2 \in 1..n /\ k - 1 \in 1..(n + 1) /\ k - 1 - 1 = k - 2 /\ k - 2 + 1 = k - 1 /\ k - 2 \in 1..(n + 1)
          BY <1>0, <3>1, <3>4
        <4>2. Entry(n + 1, q, k - 1) = Entry(n, o, k - 2)
          BY <1>7, <4>1
        <4>3. m[o[k - 1]].pPrev = Entry(n, o, k - 1 - 1)
          BY <3>1 DEF Linked
        <4>4. u[q[k]].pPrev = Entry(n + 1, q, k - 1)
          BY <3>1, <3>4, <3>5, <4>1, <4>2, <4>3
        <4> QED BY <3>2, <4>4
      <3> QED BY <3>2, <3>3, <3>4
    <2> QED BY <2>1, <2>2
  <1>9. Listed(n + 1, q) = Listed(n, o) \cup {x}
    <2>1. \A k \in 1..n : k + 1 \in 1..(n + 1) /\ k + 1 # 1 /\ k + 1 - 1 = k
      BY <1>0
    <2>2. \A k \in 1..n : q[k + 1] = o[k]
      BY <1>2, <2>1
    <2>3. 1 \in 1..(n + 1) /\ q[1] = x
      BY <1>0, <1>2
    <2>4. ASSUME NEW k \in 1..(n + 1) PROVE q[k] \in Listed(n, o) \cup {x}
      BY <1>1, <1>2 DEF Listed
    <2>5. ASSUME NEW y \in Listed(n, o) \cup {x} PROVE \E k \in 1..(n + 1) : y = q[k]
      BY <2>1, <2>2, <2>3 DEF Listed
    <2> QED BY <2>4, <2>5 DEF Listed
  <1>10. Linked(u, x, n + 1, q)
    BY <1>0, <1>3, <1>5, <1>6, <1>8 DEF Linked
  <1> QED BY <1>9, <1>10

----------------------------------------------------------------------------
(* The places where a block of a pool of one size may begin.                *)

OneSize(s) == Sizes = {s} /\ Total % (HeadSize + s) > HeadSize

Width(s) == HeadSize + s
At(s, i) == i * Width(s) + 1
Slot(s, b) == \E i \in Nat : b = At(s, i)
Whole(s) == Total \div Width(s)

LEMMA Widths ==
  ASSUME NEW s, OneSize(s)
  PROVE  /\ s \in Nat \ {0} /\ Width(s) \in Nat /\ Width(s) = HeadSize + s /\ HeadSize \in Nat \ {0}
         /\ Total \in Nat
  BY PoolAssumption DEF OneSize, Width

LEMMA AtFacts ==
  ASSUME NEW s, OneSize(s)
  PROVE  /\ At(s, 0) = 1
         /\ \A i \in Nat : At(s, i) \in Nat /\ At(s, i) >= 1 /\ At(s, i + 1) = At(s, i) + Width(s)
         /\ \A i, j \in Nat : i < j => At(s, i) + Width(s) <= At(s, j)
  <1> DEFINE w == Width(s)
  <1>1. w \in Nat
    BY Widths
  <1> HIDE DEF w
  <1>2. \A i \in Nat : i * w \in Nat /\ (i + 1) * w = i * w + w
    BY <1>1
  <1>3. 0 * w = 0
    BY <1>1
  <1>4. ASSUME NEW i \in Nat, NEW j \in Nat, i < j PROVE i * w + w <= j * w
    <2>1. j - (i + 1) \in Nat /\ j = i + 1 + (j - (i + 1))
      BY <1>4
    <2>2. PICK d \in Nat : j = i + 1 + d
      BY <2>1
    <2>3. j * w = i * w + w + d * w /\ d * w \in Nat /\ i * w \in Nat
      BY <1>1, <2>2
    <2> QED BY <1>1, <2>3
  <1>5. \A i \in Nat : At(s, i) = i * w + 1
    BY DEF At, w
  <1> QED
    <2>1. At(s, 0) = 1
      BY <1>3, <1>5
    <2>2. ASSUME NEW i \in Nat PROVE At(s, i) \in Nat /\ At(s, i) >= 1 /\ At(s, i + 1) = At(s, i) + w
      <3>1. At(s, i) = i * w + 1 /\ At(s, i + 1) = (i + 1) * w + 1
        BY <1>5
      <3>2. i * w \in Nat /\ (i + 1) * w = i * w + w
        BY <1>2
      <3> DEFINE y == i * w
      <3>3. At(s, i) = y + 1 /\ At(s, i + 1) = y + w + 1 /\ y \in Nat
        BY <3>1, <3>2
      <3> HIDE DEF y
      <3> QED BY <1>1, <3>3
    <2>3. ASSUME NEW i \in Nat, NEW j \in Nat, i < j PROVE At(s, i) + w <= At(s, j)
      <3>1. i * w \in Nat /\ j * w \in Nat /\ i * w + w <= j * w
        BY <1>2, <1>4, <2>3
      <3> QED BY <1>1, <1>5, <3>1
    <2> QED BY <2>1, <2>2, <2>3 DEF w

(* The rest of the pool is longer than a header and shorter than a slot. *)
LEMMA WholeFacts ==
  ASSUME NEW s, OneSize(s)
  PROVE  /\ Whole(s) \in 0..Total
         /\ \A i \in Nat : IF i < Whole(s) THEN At(s, i) + Width(s) + HeadSize <= Total
                           ELSE At(s, i) + Width(s) > Total + 1
  <1> DEFINE w == Width(s)
             q == Total \div w
             r == Total % w
  <1>1. w \in Nat /\ w > HeadSize /\ HeadSize \in Nat \ {0} /\ Total \in Nat
    BY Widths
  <1>2. r > HeadSize
    BY DEF OneSize, Width
  <1>3. q \in Nat /\ r \in Nat /\ r < w /\ Total = q * w + r
    <2> HIDE DEF w
    <2> QED BY <1>1
  <1>4. q <= Total
    <2> HIDE DEF w, q, r
    <2>1. q * w \in Nat /\ q * w >= q
      BY <1>1, <1>3
    <2> QED BY <1>1, <1>3, <2>1
  <1>5. ASSUME NEW i \in Nat, i < q PROVE At(s, i) + w + HeadSize <= Total
    <2>1. At(s, i) + w <= At(s, q) /\ At(s, i) \in Nat /\ At(s, q) = q * w + 1
      BY <1>3, <1>5, AtFacts DEF At
    <2> HIDE DEF w, q, r
    <2> QED BY <1>1, <1>2, <1>3, <2>1
  <1>6. ASSUME NEW i \in Nat, ~(i < q) PROVE At(s, i) + w > Total + 1
    <2>1. At(s, q) + w <= At(s, i) + w /\ At(s, i) \in Nat /\ At(s, q) = q * w + 1 /\ At(s, q) \in Nat
      <3>1. i = q \/ q < i
        BY <1>3, <1>6
      <3>2. At(s, q) \in Nat /\ At(s, i) \in Nat /\ (q < i => At(s, q) + w <= At(s, i))
        BY <1>3, AtFacts
      <3>3. At(s, q) = q * w + 1
        BY DEF At
      <3> HIDE DEF w, q
      <3> QED BY <1>1, <3>1, <3>2, <3>3
    <2> HIDE DEF w, q, r
    <2>2. q * w \in Nat
      BY <1>1, <1>3
    <2> QED BY <1>1, <1>3, <2>1, <2>2
  <1>7. q = Whole(s) /\ w = Width(s)
    BY DEF Whole
  <1> HIDE DEF w, q, r
  <1>8. Whole(s) \in 0..Total
    BY <1>1, <1>3, <1>4, <1>7
  <1>9. \A i \in Nat : IF i < Whole(s) THEN At(s, i) + Width(s) + HeadSize <= Total
                        ELSE At(s, i) + Width(s) > Total + 1
    BY <1>5, <1>6, <1>7
  <1> QED BY <1>8, <1>9

LEMMA SlotFacts ==
  ASSUME NEW s, OneSize(s)
  PROVE  /\ Slot(s, 1)
         /\ \A b : Slot(s, b) => /\ b \in Nat /\ b >= 1 /\ Slot(s, b + Width(s))
                                 /\ b + Width(s) # Total + 1
                                 /\ b + Width(s) <= Total + 1 => b + Width(s) + HeadSize <= Total
         /\ \A b, c : Slot(s, b) /\ Slot(s, c) /\ b < c =>
              /\ b + Width(s) <= c
              /\ c <= b + Width(s) + HeadSize => c = b + Width(s)
  <1>1. Slot(s, 1)
    BY AtFacts DEF Slot
  <1>2. ASSUME NEW b, Slot(s, b)
        PROVE  /\ b \in Nat /\ b >= 1 /\ Slot(s, b + Width(s))
               /\ b + Width(s) # Total + 1
               /\ b + Width(s) <= Total + 1 => b + Width(s) + HeadSize <= Total
    <2>1. PICK i \in Nat : b = At(s, i)
      BY <1>2 DEF Slot
    <2>2. b \in Nat /\ b >= 1 /\ At(s, i + 1) = b + Width(s) /\ i + 1 \in Nat
      BY <2>1, AtFacts
    <2>3. Slot(s, b + Width(s))
      BY <2>2 DEF Slot
    <2>4. b + Width(s) + HeadSize <= Total \/ b + Width(s) > Total + 1
      BY <2>1, WholeFacts
    <2> QED BY <2>2, <2>3, <2>4, Widths
  <1>3. ASSUME NEW b, NEW c, Slot(s, b), Slot(s, c), b < c
        PROVE  /\ b + Width(s) <= c
               /\ c <= b + Width(s) + HeadSize => c = b + Width(s)
    <2>1. PICK i \in Nat : b = At(s, i)
      BY <1>3 DEF Slot
    <2>2. PICK j \in Nat : c = At(s, j)
      BY <1>3 DEF Slot
    <2>3. b \in Nat /\ c \in Nat /\ (i < j => b + Width(s) <= c) /\ (j < i => c + Width(s) <= b) /\ (i = j => b = c)
      BY <2>1, <2>2, AtFacts
    <2>4. Width(s) \in Nat /\ HeadSize \in Nat /\ Width(s) > HeadSize
      BY Widths
    <2>5. i < j
      BY <1>3, <2>3, <2>4
    <2>6. b + Width(s) = At(s, i + 1) /\ i + 1 \in Nat
      BY <2>1, AtFacts
    <2>7. i + 1 = j \/ i + 1 < j
      BY <2>5
    <2>8. i + 1 < j => b + Width(s) + Width(s) <= c
      BY <2>2, <2>6, AtFacts
    <2>9. i + 1 = j => c = b + Width(s)
      BY <2>2, <2>6
    <2> QED BY <2>3, <2>4, <2>5, <2>7, <2>8, <2>9
  <1> QED BY <1>1, <1>2, <1>3

----------------------------------------------------------------------------
(* The blocks of the pool: each begins on a slot and reaches to the next    *)
(* one or to the end, and the ones in use have the size that is asked for.  *)

End(m, b) == b + HeadSize + m[b].size

Tiled(s, m, starts) ==
  /\ starts \subseteq Addr /\ 1 \in starts
  /\ \A b \in starts : Slot(s, b)
  /\ \A b \in starts : End(m, b) \in starts \cup {Total + 1}
  /\ \A b, c \in starts : b < c => End(m, b) <= c
  /\ \A b \in starts : m[b].used => m[b].size = s

LEMMA MemFacts ==
  ASSUME NEW m \in Mem, NEW a \in Addr
  PROVE  /\ m[a].pNext \in Addr \cup {NULL} /\ m[a].pPrev \in Addr \cup {NULL}
         /\ m[a].size \in Nat /\ m[a].size <= Total
         /\ m[a].used \in BOOLEAN
         /\ a \in Nat /\ a >= 1 /\ a <= Total /\ a # NULL
  <1>1. m[a] \in [pNext : Addr \cup {NULL}, pPrev : Addr \cup {NULL}, size : 0..Total, used : BOOLEAN]
    BY DEF Mem
  <1>2. a \in Nat /\ a >= 1 /\ a <= Total /\ a # NULL
    BY DEF Addr, NULL
  <1>3. Total \in Nat
    BY PoolAssumption
  <1> QED BY <1>1, <1>2, <1>3

(* A block in use is followed by another, never by the end of the pool. *)
LEMMA UsedFacts ==
  ASSUME NEW s, OneSize(s), NEW m \in Mem, NEW starts, Tiled(s, m, starts),
         NEW b \in starts, m[b].used
  PROVE  /\ m[b].size = s /\ End(m, b) = b + Width(s)
         /\ End(m, b) \in starts /\ End(m, b) <= Total /\ b < End(m, b)
  <1>1. b \in Addr /\ Slot(s, b) /\ m[b].size = s
    BY DEF Tiled
  <1>2. End(m, b) = b + Width(s)
    BY <1>1, Widths, MemFacts DEF End
  <1>3. End(m, b) # Total + 1
    BY <1>1, <1>2, SlotFacts
  <1>4. End(m, b) \in starts
    BY <1>3 DEF Tiled
  <1>5. End(m, b) \in Addr
    BY <1>4 DEF Tiled
  <1> QED BY <1>1, <1>2, <1>4, <1>5, Widths, MemFacts

(* A free block has the size of the request or leaves a block behind it. *)
LEMMA FreeFacts ==
  ASSUME NEW s, OneSize(s), NEW m \in Mem, NEW starts, Tiled(s, m, starts),
         NEW b \in starts, m[b].size >= s
  PROVE  /\ m[b].size <= HeadSize + s => m[b].size = s
         /\ m[b].size > HeadSize + s =>
              LET rest == b + Width(s)
              IN  /\ rest \in Addr /\ rest \notin starts /\ Slot(s, rest)
                  /\ m[b].size - s - HeadSize \in Nat
                  /\ m[b].size - s - HeadSize <= Total
                  /\ rest + HeadSize + (m[b].size - s - HeadSize) = End(m, b)
                  /\ rest < End(m, b) /\ b < rest
                  /\ \A c \in starts : b < c => rest < c
  <1>0. /\ b \in Addr /\ Slot(s, b) /\ Slot(s, b + Width(s)) /\ b \in Nat /\ b >= 1
        /\ b + Width(s) # Total + 1
        /\ b + Width(s) <= Total + 1 => b + Width(s) + HeadSize <= Total
    BY SlotFacts DEF Tiled
  <1>1. /\ Width(s) = HeadSize + s /\ s \in Nat /\ HeadSize \in Nat \ {0} /\ Total \in Nat
        /\ m[b].size \in Nat /\ m[b].size <= Total
    BY <1>0, Widths, MemFacts
  <1>2. End(m, b) = b + HeadSize + m[b].size
    BY DEF End
  <1>3. End(m, b) \in starts \cup {Total + 1}
    BY DEF Tiled
  <1>4. ASSUME m[b].size <= HeadSize + s PROVE m[b].size = s
    <2>1. End(m, b) <= b + Width(s) + HeadSize /\ b + Width(s) <= End(m, b) /\ b < End(m, b)
      BY <1>0, <1>1, <1>2, <1>4
    <2>2. End(m, b) # Total + 1
      BY <1>0, <1>1, <2>1
    <2>3. Slot(s, End(m, b))
      BY <1>3, <2>2 DEF Tiled
    <2>4. End(m, b) = b + Width(s)
      BY <1>0, <2>1, <2>3, SlotFacts
    <2> QED BY <1>0, <1>1, <1>2, <2>4
  <1>5. ASSUME m[b].size > HeadSize + s
        PROVE  LET rest == b + Width(s)
               IN  /\ rest \in Addr /\ rest \notin starts /\ Slot(s, rest)
                   /\ m[b].size - s - HeadSize \in Nat
                   /\ m[b].size - s - HeadSize <= Total
                   /\ rest + HeadSize + (m[b].size - s - HeadSize) = End(m, b)
                   /\ rest < End(m, b) /\ b < rest
                   /\ \A c \in starts : b < c => rest < c
    <2>1. /\ m[b].size - s - HeadSize \in Nat /\ m[b].size - s - HeadSize <= Total
          /\ b + Width(s) + HeadSize + (m[b].size - s - HeadSize) = End(m, b)
          /\ b + Width(s) < End(m, b) /\ b < b + Width(s)
      BY <1>0, <1>1, <1>2, <1>5
    <2>2. End(m, b) \in Nat /\ End(m, b) <= Total + 1
      <3>1. End(m, b) \in Addr \/ End(m, b) = Total + 1
        BY <1>3 DEF Tiled
      <3> QED BY <1>1, <3>1 DEF Addr
    <2>3. b + Width(s) \in Addr
      BY <1>0, <1>1, <2>1, <2>2 DEF Addr
    <2>4. \A c \in starts : b < c => End(m, b) <= c /\ c \in Nat
      BY DEF Tiled, Addr
    <2>5. \A c \in starts : b < c => b + Width(s) < c
      BY <1>0, <1>1, <2>1, <2>2, <2>4
    <2>6. b + Width(s) \notin starts
      BY <1>0, <1>1, <2>1, <2>5
    <2> QED BY <1>0, <2>1, <2>3, <2>5, <2>6
  <1> QED BY <1>4, <1>5

(* The same blocks, when no size changes. *)
LEMMA SameTiled ==
  ASSUME NEW s, NEW m, NEW starts, Tiled(s, m, starts), NEW u,
         \A b \in starts : u[b].size = m[b].size,
         \A b \in starts : u[b].used => m[b].size = s
  PROVE  Tiled(s, u, starts)
  BY DEF Tiled, End

(* A block is cut in two. *)
LEMMA CutTiled ==
  ASSUME NEW s, OneSize(s), NEW m \in Mem, NEW starts, Tiled(s, m, starts),
         NEW b \in starts, m[b].size > HeadSize + s, NEW u,
         u[b].size = s, u[b + Width(s)].size = m[b].size - s - HeadSize, ~u[b + Width(s)].used,
         \A c \in starts \ {b} : u[c].size = m[c].size,
         \A c \in starts \ {b} : u[c].used => m[c].used
  PROVE  Tiled(s, u, starts \cup {b + Width(s)})
  <1>0. m[b].size >= s /\ b \in Nat /\ Width(s) = HeadSize + s /\ s \in Nat /\ HeadSize \in Nat /\ b \in Addr
    <2>1. b \in Addr
      BY DEF Tiled
    <2> QED BY <2>1, MemFacts, Widths
  <1> DEFINE rest == b + Width(s)
  <1>1. /\ rest \in Addr /\ rest \notin starts /\ Slot(s, rest)
        /\ rest + HeadSize + (m[b].size - s - HeadSize) = End(m, b)
        /\ rest < End(m, b) /\ b < rest
        /\ \A c \in starts : b < c => rest < c
    BY <1>0, FreeFacts
  <1>2. End(u, b) = rest /\ End(u, rest) = End(m, b)
    BY <1>0, <1>1 DEF End
  <1> HIDE DEF rest
  <1>3. \A c \in starts \ {b} : End(u, c) = End(m, c)
    BY DEF End
  <1>4. \A c \in starts : c \in Nat /\ Slot(s, c) /\ c \in Addr
    BY DEF Tiled, Addr
  <1>5. \A c \in starts \cup {rest} : End(u, c) \in (starts \cup {rest}) \cup {Total + 1}
    BY <1>2, <1>3 DEF Tiled
  <1>6. ASSUME NEW c \in starts \cup {rest}, NEW d \in starts \cup {rest}, c < d PROVE End(u, c) <= d
    <2>1. rest \in Nat /\ End(m, b) \in Nat
      <3>1. rest \in Nat
        BY <1>1 DEF Addr
      <3>2. m[b].size \in Nat
        BY <1>0, MemFacts
      <3> QED BY <1>0, <3>1, <3>2 DEF End
    <2>2. CASE c = rest
      <3>1. d \in starts /\ b < d
        BY <1>0, <1>1, <1>4, <1>6, <2>1, <2>2
      <3> QED BY <1>2, <2>2, <3>1 DEF Tiled
    <2>3. CASE c = b
      <3>1. d = rest \/ rest < d
        BY <1>1, <1>6, <2>3
      <3> QED BY <1>2, <1>4, <2>1, <2>3, <3>1
    <2>4. CASE c \in starts \ {b} /\ d \in starts
      BY <1>3, <1>6, <2>4 DEF Tiled
    <2>5. CASE c \in starts \ {b} /\ d = rest
      <3>1. c < b
        <4>1. ~(b < c)
          BY <1>1, <1>4, <1>6, <2>1, <2>5
        <4>2. b \in Nat /\ c \in Nat /\ c # b
          BY <1>0, <1>4, <2>5
        <4> QED BY <4>1, <4>2
      <3>2. End(m, c) <= b /\ End(m, c) \in Nat
        BY <2>5, <3>1, <1>4, Widths DEF Tiled
      <3> QED BY <1>0, <1>1, <1>3, <2>1, <2>5, <3>2
    <2> QED BY <2>2, <2>3, <2>4, <2>5
  <1>7. \A c \in starts \cup {rest} : u[c].used => u[c].size = s
    BY DEF Tiled, rest
  <1>8. starts \cup {rest} \subseteq Addr /\ 1 \in starts \cup {rest} /\ \A c \in starts \cup {rest} : Slot(s, c)
    BY <1>1 DEF Tiled
  <1> QED BY <1>5, <1>6, <1>7, <1>8 DEF Tiled, rest

(* A block is merged with the one behind it. *)
LEMMA MergedTiled ==
  ASSUME NEW s, OneSize(s), NEW m \in Mem, NEW starts, Tiled(s, m, starts),
         NEW b \in starts, NEW n \in starts, n = End(m, b), NEW u,
         u[b].size = m[b].size + m[n].size + HeadSize, ~u[b].used,
         \A c \in starts \ {b, n} : u[c].size = m[c].size,
         \A c \in starts \ {b, n} : u[c].used => m[c].used
  PROVE  Tiled(s, u, starts \ {n})
  <1>1. \A c \in starts : /\ c \in Nat /\ c >= 1 /\ m[c].size \in Nat /\ HeadSize \in Nat \ {0} /\ Slot(s, c)
                          /\ c \in Addr
    BY MemFacts, Widths DEF Tiled
  <1>2. b < n
    BY <1>1 DEF End
  <1>3. End(u, b) = End(m, n)
    BY <1>1 DEF End
  <1>4. \A c \in starts : c < End(m, c) /\ End(m, c) \in Nat
    BY <1>1 DEF End
  <1>5. \A c \in starts \ {b, n} : End(u, c) = End(m, c)
    BY DEF End
  <1>6. ASSUME NEW c \in starts \ {b, n} PROVE End(m, c) # n
    <2>1. c < b \/ b < c
      BY <1>1
    <2>2. c < b => End(m, c) <= b
      BY DEF Tiled
    <2>3. b < c => n <= c
      BY DEF Tiled
    <2> QED BY <1>1, <1>2, <1>4, <2>1, <2>2, <2>3
  <1>7. \A c \in starts \ {n} : End(u, c) \in (starts \ {n}) \cup {Total + 1}
    <2> SUFFICES ASSUME NEW c \in starts \ {n} PROVE End(u, c) \in (starts \ {n}) \cup {Total + 1}
      OBVIOUS
    <2>1. CASE c = b
      <3>1. End(m, n) # n
        BY <1>1, <1>4
      <3> QED BY <1>3, <2>1, <3>1 DEF Tiled
    <2>2. CASE c # b
      BY <1>5, <1>6, <2>2 DEF Tiled
    <2> QED BY <2>1, <2>2
  <1>8. ASSUME NEW c \in starts \ {n}, NEW d \in starts \ {n}, c < d PROVE End(u, c) <= d
    <2>1. CASE c = b
      <3>1. n <= d /\ n # d
        BY <1>8, <2>1 DEF Tiled
      <3>2. n < d
        BY <1>1, <3>1
      <3> QED BY <1>3, <2>1, <3>2 DEF Tiled
    <2>2. CASE c # b
      BY <1>5, <1>8, <2>2 DEF Tiled
    <2> QED BY <2>1, <2>2
  <1>9. 1 \in starts \ {n}
    BY <1>1, <1>2 DEF Tiled
  <1>10. \A c \in starts \ {n} : u[c].used => u[c].size = s
    BY DEF Tiled
  <1> QED BY <1>1, <1>7, <1>8, <1>9, <1>10 DEF Tiled

----------------------------------------------------------------------------
(* What holds of a pool: m is the memory, first the head of its free list,  *)
(* f the free size, l the blocks in use and k how many times one was given. *)

Block(s, b) == [at |-> b, size |-> s]
BlocksAt(s, S) == {Block(s, b) : b \in S}
Free(m, starts) == {b \in starts : ~m[b].used}
Taken(m, starts) == {b \in starts : m[b].used}

Sound(s, starts, n, o, m, first, f, l, k) ==
  /\ m \in Mem
  /\ Tiled(s, m, starts)
  /\ Linked(m, first, n, o)
  /\ Listed(n, o) = Free(m, starts)
  /\ l = BlocksAt(s, Taken(m, starts))
  /\ IsFiniteSet(l) /\ k = Cardinality(l)
  /\ f + Width(s) * k + HeadSize * n = Total
  /\ f = SumOfSizes(m, Listed(n, o))

SameSizes(u, m, S) == \A c \in S : u[c].size = m[c].size

LEMMA AddrFinite ==
  ASSUME NEW E \in SUBSET Addr
  PROVE  IsFiniteSet(E)
  <1>1. IsFiniteSet(1..Total)
    BY PoolAssumption, FS_Interval
  <1> QED BY <1>1, FS_Subset DEF Addr

LEMMA SumTaken ==
  ASSUME NEW m \in Mem, NEW u \in Mem, NEW E \in SUBSET Addr, NEW x \in E,
         SameSizes(u, m, E \ {x})
  PROVE  /\ SumOfSizes(u, E \ {x}) \in Nat
         /\ SumOfSizes(m, E) = m[x].size + SumOfSizes(u, E \ {x})
  <1>1. IsFiniteSet(E) /\ IsFiniteSet(E \ {x})
    BY AddrFinite
  <1>2. (\A c \in E : m[c].size \in Nat) /\ (\A c \in E \ {x} : m[c].size \in Nat) /\ (\A c \in E \ {x} : u[c].size \in Nat)
    BY MemFacts
  <1>3. SumOfSizes(m, E) = m[x].size + SumOfSizes(m, E \ {x})
    BY <1>1, <1>2, SumFacts
  <1>4. SumOfSizes(u, E \ {x}) = SumOfSizes(m, E \ {x})
    BY <1>1, <1>2, SumFacts DEF SameSizes
  <1>5. SumOfSizes(m, E \ {x}) \in Nat
    BY <1>1, <1>2, SumFacts
  <1> QED BY <1>3, <1>4, <1>5

LEMMA SumAdded ==
  ASSUME NEW m \in Mem, NEW u \in Mem, NEW E \in SUBSET Addr, NEW y \in Addr \ E,
         SameSizes(u, m, E)
  PROVE  SumOfSizes(u, E \cup {y}) = u[y].size + SumOfSizes(m, E)
  <1>1. (E \cup {y}) \ {y} = E /\ E \cup {y} \in SUBSET Addr /\ y \in E \cup {y}
    OBVIOUS
  <1>2. SameSizes(m, u, (E \cup {y}) \ {y})
    BY DEF SameSizes
  <1>3. SumOfSizes(u, E \cup {y}) = u[y].size + SumOfSizes(m, (E \cup {y}) \ {y})
    BY <1>1, <1>2, SumTaken
  <1> QED BY <1>1, <1>3

LEMMA SoundFacts ==
  ASSUME NEW s, OneSize(s), NEW starts, NEW n, NEW o, NEW m, NEW first, NEW f, NEW l, NEW k,
         Sound(s, starts, n, o, m, first, f, l, k)
  PROVE  /\ starts \subseteq Addr /\ Listed(n, o) \subseteq starts /\ Listed(n, o) \subseteq Addr
         /\ n \in Nat /\ k \in Nat /\ f \in Nat /\ f <= Total
         /\ Width(s) * k \in Nat /\ Width(s) * (k + 1) = Width(s) * k + Width(s)
         /\ k >= 1 => Width(s) * (k - 1) = Width(s) * k - Width(s)
         /\ HeadSize * n \in Nat /\ HeadSize * (n + 1) = HeadSize * n + HeadSize
         /\ HeadSize * (n - 1) = HeadSize * n - HeadSize
         /\ \A b \in starts : m[b].used => Block(s, b) \in l
         /\ \A b \in starts : ~m[b].used => Block(s, b) \notin l
  <1>1. starts \subseteq Addr /\ Listed(n, o) \subseteq starts /\ Listed(n, o) \subseteq Addr
    BY DEF Sound, Tiled, Free
  <1>2. n \in Nat /\ k \in Nat
    BY FS_CardinalityType DEF Sound, Linked
  <1>3. f \in Nat
    <2>1. IsFiniteSet(Listed(n, o))
      BY <1>1, AddrFinite
    <2>2. \A b \in Listed(n, o) : m[b].size \in Nat
      BY <1>1, MemFacts DEF Sound
    <2> QED BY <2>1, <2>2, SumFacts DEF Sound
  <1>4. Width(s) \in Nat /\ HeadSize \in Nat
    BY Widths
  <1>5. Width(s) * k \in Nat /\ Width(s) * (k + 1) = Width(s) * k + Width(s)
        /\ Width(s) * (k - 1) = Width(s) * k - Width(s)
    <2> DEFINE w == Width(s)
    <2> HIDE DEF w
    <2>1. w \in Nat
      BY <1>4 DEF w
    <2>2. w * k \in Nat /\ w * (k + 1) = w * k + w /\ w * (k - 1) = w * k - w
      BY <1>2, <2>1
    <2> QED BY <2>2 DEF w
  <1>6. /\ HeadSize * n \in Nat /\ HeadSize * (n + 1) = HeadSize * n + HeadSize
        /\ HeadSize * (n - 1) = HeadSize * n - HeadSize
    BY <1>2, <1>4
  <1>7. f <= Total
    <2>1. f + Width(s) * k + HeadSize * n = Total
      BY DEF Sound
    <2> QED BY <1>3, <1>5, <1>6, <2>1
  <1>8. \A b \in starts : m[b].used => Block(s, b) \in l
    BY DEF Sound, Taken, BlocksAt
  <1>9. \A b \in starts : ~m[b].used => Block(s, b) \notin l
    <2>1. \A b, c : Block(s, b) = Block(s, c) => b = c
      BY DEF Block
    <2> HIDE DEF Block
    <2> QED BY <2>1 DEF Sound, Taken, BlocksAt
  <1> QED BY <1>1, <1>2, <1>3, <1>5, <1>6, <1>7, <1>8, <1>9

(* One more block in use. *)
LEMMA MoreTaken ==
  ASSUME NEW s, OneSize(s), NEW starts, NEW n, NEW o, NEW m, NEW first, NEW f, NEW l, NEW k,
         Sound(s, starts, n, o, m, first, f, l, k), NEW b \in Free(m, starts)
  PROVE  /\ l \cup {Block(s, b)} = BlocksAt(s, Taken(m, starts) \cup {b})
         /\ IsFiniteSet(l \cup {Block(s, b)})
         /\ k + 1 = Cardinality(l \cup {Block(s, b)})
  <1>1. l = BlocksAt(s, Taken(m, starts)) /\ IsFiniteSet(l) /\ k = Cardinality(l)
    BY DEF Sound
  <1>2. Block(s, b) \notin l
    BY SoundFacts DEF Free
  <1> HIDE DEF Block
  <1> QED BY <1>1, <1>2, FS_AddElement DEF BlocksAt

(* One block less. *)
LEMMA LessTaken ==
  ASSUME NEW s, OneSize(s), NEW starts, NEW n, NEW o, NEW m, NEW first, NEW f, NEW l, NEW k,
         Sound(s, starts, n, o, m, first, f, l, k), NEW b \in starts, m[b].used
  PROVE  /\ l \ {Block(s, b)} = BlocksAt(s, Taken(m, starts) \ {b})
         /\ IsFiniteSet(l \ {Block(s, b)})
         /\ k - 1 = Cardinality(l \ {Block(s, b)}) /\ k >= 1
  <1>1. l = BlocksAt(s, Taken(m, starts)) /\ IsFiniteSet(l) /\ k = Cardinality(l)
    BY DEF Sound
  <1>2. Block(s, b) \in l
    BY SoundFacts
  <1>3. \A c, d : Block(s, c) = Block(s, d) => c = d
    BY DEF Block
  <1> HIDE DEF Block
  <1>4. l \ {Block(s, b)} = BlocksAt(s, Taken(m, starts) \ {b})
    BY <1>1, <1>3 DEF BlocksAt
  <1>5. Cardinality(l \ {Block(s, b)}) = k - 1 /\ IsFiniteSet(l \ {Block(s, b)}) /\ k \in Nat
        /\ Cardinality(l \ {Block(s, b)}) \in Nat
    BY <1>1, <1>2, FS_RemoveElement, FS_CardinalityType
  <1>6. k - 1 = Cardinality(l \ {Block(s, b)}) /\ k >= 1
    <2> DEFINE x == Cardinality(l \ {Block(s, b)})
    <2>1. x = k - 1 /\ k \in Nat /\ x \in Nat
      BY <1>5
    <2> HIDE DEF x
    <2>2. k - 1 = x /\ k >= 1
      BY <2>1
    <2> QED BY <2>2 DEF x
  <1> QED BY <1>4, <1>5, <1>6

(* The links and the blocks of the list: an entry tells its place. *)
LEMMA EntryFacts ==
  ASSUME NEW m, NEW first, NEW n, NEW o, Linked(m, first, n, o)
  PROVE  /\ \A k \in Int : Entry(n, o, k) \in Listed(n, o) \cup {NULL}
         /\ \A i \in 1..n, k \in Int : o[i] = Entry(n, o, k) <=> k = i
         /\ \A i \in 1..n : o[i] \in Addr /\ o[i] \in Listed(n, o)
         /\ \A i \in 1..n : m[o[i]].pPrev = NULL <=> i = 1
  <1>0. n \in Nat /\ o \in [1..n -> Addr]
    BY DEF Linked
  <1>1. \A i \in 1..n : o[i] \in Addr /\ o[i] \in Listed(n, o) /\ o[i] # NULL
    BY <1>0 DEF Listed, Addr, NULL
  <1>2. \A k \in Int : Entry(n, o, k) \in Listed(n, o) \cup {NULL}
    BY DEF Entry, Listed
  <1>3. \A i \in 1..n, k \in Int : o[i] = Entry(n, o, k) <=> k = i
    BY <1>1 DEF Entry, Linked
  <1>4. \A i \in 1..n : m[o[i]].pPrev = NULL <=> i = 1
    <2> SUFFICES ASSUME NEW i \in 1..n PROVE m[o[i]].pPrev = NULL <=> i = 1
      OBVIOUS
    <2>1. m[o[i]].pPrev = Entry(n, o, i - 1) /\ i \in Nat /\ n \in Nat
      BY <1>0 DEF Linked
    <2>2. CASE i = 1
      BY <2>1, <2>2 DEF Entry
    <2>3. CASE i # 1
      <3>1. i - 1 \in 1..n
        BY <2>1, <2>3
      <3> QED BY <1>1, <2>1, <2>3, <3>1 DEF Entry
    <2> QED BY <2>2, <2>3
  <1> QED BY <1>1, <1>2, <1>3, <1>4

(* Two writes, one through each link of a block. *)
WroteBoth(u, c, x, to, y, fro) ==
  /\ u \in Mem
  /\ \A a \in Addr : /\ u[a].pNext = IF a = x THEN to ELSE c[a].pNext
                     /\ u[a].pPrev = IF a = y THEN fro ELSE c[a].pPrev
  /\ \A a \in Addr : u[a].size = c[a].size
  /\ \A a \in Addr : u[a].used = c[a].used

LEMMA WrittenBoth ==
  ASSUME NEW c \in Mem, NEW x \in Addr \cup {NULL}, NEW y \in Addr \cup {NULL},
         NEW to \in Addr \cup {NULL}, NEW fro \in Addr \cup {NULL},
         NEW u, u = SetPrev(SetNext(c, x, to), y, fro)
  PROVE  WroteBoth(u, c, x, to, y, fro)
  <1>1. PICK d : d = SetNext(c, x, to)
    OBVIOUS
  <1>2. WroteNext(d, c, x, to)
    BY <1>1, Written
  <1>3. d \in Mem
    BY <1>2 DEF WroteNext
  <1>4. WrotePrev(u, d, y, fro)
    BY <1>1, <1>3, Written
  <1>5. \A a \in Addr : u[a].used = c[a].used
    BY <1>2, <1>4 DEF WroteNext, WrotePrev
  <1>6. \A a \in Addr : u[a].size = c[a].size
    BY <1>2, <1>4 DEF WroteNext, WrotePrev
  <1>7. \A a \in Addr : /\ u[a].pNext = IF a = x THEN to ELSE c[a].pNext
                        /\ u[a].pPrev = IF a = y THEN fro ELSE c[a].pPrev
    BY <1>2, <1>4 DEF WroteNext, WrotePrev
  <1>8. u \in Mem
    BY <1>4 DEF WrotePrev
  <1> QED BY <1>5, <1>6, <1>7, <1>8 DEF WroteBoth

----------------------------------------------------------------------------
(* What the writes of a step come to, by the blocks they concern.           *)

(* A block takes the place of another in the list, ... *)
TakesPlace(u, m, old, new) ==
  /\ u[new].pNext = m[old].pNext /\ u[new].pPrev = m[old].pPrev
  /\ \A a \in Addr \ {old, new} :
       /\ u[a].pNext = IF a = m[old].pPrev THEN new ELSE m[a].pNext
       /\ u[a].pPrev = IF a = m[old].pNext THEN new ELSE m[a].pPrev

(* ... leaves it, ... *)
Leaves(u, m, old) ==
  \A a \in Addr \ {old} :
    /\ u[a].pNext = IF a = m[old].pPrev THEN m[old].pNext ELSE m[a].pNext
    /\ u[a].pPrev = IF a = m[old].pNext THEN m[old].pPrev ELSE m[a].pPrev

(* ... or becomes its first. *)
Heads(u, m, first, new) ==
  /\ u[new].pNext = first /\ u[new].pPrev = NULL
  /\ \A a \in Addr \ {new} : /\ u[a].pNext = m[a].pNext
                             /\ u[a].pPrev = IF a = first THEN new ELSE m[a].pPrev

(* The other blocks keep what they are. *)
Keeps(u, m, changed) ==
  /\ \A a \in Addr \ changed : u[a].size = m[a].size
  /\ \A a \in Addr \ changed : u[a].used = m[a].used

(* The four steps. *)
JoinedSize(m, b, next) == m[b].size + m[next].size + HeadSize

IsCut(u, m, b, rest, size, left) ==
  /\ u \in Mem /\ TakesPlace(u, m, b, rest) /\ Keeps(u, m, {b, rest})
  /\ u[b].size = size /\ u[b].used /\ u[rest].size = left /\ ~u[rest].used

IsTaken(u, m, b) ==
  /\ u \in Mem /\ Leaves(u, m, b) /\ Keeps(u, m, {b})
  /\ u[b].size = m[b].size /\ u[b].used

IsMerged(u, m, b, next, size) ==
  /\ u \in Mem /\ TakesPlace(u, m, next, b) /\ Keeps(u, m, {next, b})
  /\ u[b].size = size /\ ~u[b].used

IsFirst(u, m, b, first) ==
  /\ u \in Mem /\ Heads(u, m, first, b) /\ Keeps(u, m, {b})
  /\ u[b].size = m[b].size /\ ~u[b].used

LEMMA TakesPlaceLinked ==
  ASSUME NEW m, NEW first, NEW n, NEW o, Linked(m, first, n, o),
         NEW old \in Listed(n, o), NEW new \in Addr, new \notin Listed(n, o),
         NEW u, TakesPlace(u, m, old, new)
  PROVE  \E q : /\ Linked(u, IF m[old].pPrev = NULL THEN new ELSE first, n, q)
                /\ Listed(n, q) = (Listed(n, o) \ {old}) \cup {new}
  <1>1. PICK i \in 1..n : old = o[i]
    BY DEF Listed
  <1>2. /\ m[old].pPrev = Entry(n, o, i - 1) /\ m[old].pNext = Entry(n, o, i + 1)
        /\ i - 1 \in Int /\ i + 1 \in Int
    BY <1>1 DEF Linked
  <1>3. m[old].pPrev = NULL <=> i = 1
    BY <1>1, EntryFacts
  <1>4. u[new].pNext = Entry(n, o, i + 1) /\ u[new].pPrev = Entry(n, o, i - 1)
    BY <1>2 DEF TakesPlace
  <1>5. ASSUME NEW k \in (1..n) \ {i}
        PROVE  /\ u[o[k]].pNext = IF k = i - 1 THEN new ELSE m[o[k]].pNext
               /\ u[o[k]].pPrev = IF k = i + 1 THEN new ELSE m[o[k]].pPrev
    <2>1. o[k] \in Addr /\ o[k] \in Listed(n, o)
      BY EntryFacts
    <2>2. o[k] # old
      BY <1>1 DEF Linked
    <2>3. (o[k] = m[old].pPrev <=> k = i - 1) /\ (o[k] = m[old].pNext <=> k = i + 1)
      BY <1>2, EntryFacts
    <2>4. o[k] \in Addr \ {old, new}
      BY <2>1, <2>2
    <2> QED BY <2>3, <2>4 DEF TakesPlace
  <1>6. new \notin Listed(n, o) \ {o[i]}
    OBVIOUS
  <1>7. \E q : /\ Linked(u, IF i = 1 THEN new ELSE first, n, q)
               /\ Listed(n, q) = (Listed(n, o) \ {o[i]}) \cup {new}
    BY <1>4, <1>5, <1>6, Replaced
  <1> QED BY <1>1, <1>3, <1>7

LEMMA LeavesLinked ==
  ASSUME NEW m, NEW first, NEW n, NEW o, Linked(m, first, n, o),
         NEW old \in Listed(n, o), NEW u, Leaves(u, m, old)
  PROVE  \E q : /\ Linked(u, IF m[old].pPrev = NULL THEN m[old].pNext ELSE first, n - 1, q)
                /\ Listed(n - 1, q) = Listed(n, o) \ {old}
  <1>1. PICK i \in 1..n : old = o[i]
    BY DEF Listed
  <1>2. /\ m[old].pPrev = Entry(n, o, i - 1) /\ m[old].pNext = Entry(n, o, i + 1)
        /\ i - 1 \in Int /\ i + 1 \in Int
    BY <1>1 DEF Linked
  <1>3. m[old].pPrev = NULL <=> i = 1
    BY <1>1, EntryFacts
  <1>4. ASSUME NEW k \in (1..n) \ {i}
        PROVE  /\ u[o[k]].pNext = IF k = i - 1 THEN Entry(n, o, i + 1) ELSE m[o[k]].pNext
               /\ u[o[k]].pPrev = IF k = i + 1 THEN Entry(n, o, i - 1) ELSE m[o[k]].pPrev
    <2>1. o[k] \in Addr
      BY EntryFacts
    <2>2. o[k] # old
      BY <1>1 DEF Linked
    <2>3. (o[k] = m[old].pPrev <=> k = i - 1) /\ (o[k] = m[old].pNext <=> k = i + 1)
      BY <1>2, EntryFacts
    <2>4. o[k] \in Addr \ {old}
      BY <2>1, <2>2
    <2> QED BY <1>2, <2>3, <2>4 DEF Leaves
  <1>5. \E q : /\ Linked(u, IF i = 1 THEN Entry(n, o, 2) ELSE first, n - 1, q)
               /\ Listed(n - 1, q) = Listed(n, o) \ {o[i]}
    BY <1>4, Removed
  <1>6. i = 1 => m[old].pNext = Entry(n, o, 2)
    BY <1>2
  <1> QED BY <1>1, <1>3, <1>5, <1>6

LEMMA HeadsLinked ==
  ASSUME NEW m, NEW first, NEW n, NEW o, Linked(m, first, n, o),
         NEW new \in Addr, new \notin Listed(n, o), NEW u, Heads(u, m, first, new)
  PROVE  \E q : Linked(u, new, n + 1, q) /\ Listed(n + 1, q) = Listed(n, o) \cup {new}
  <1>1. u[new].pNext = first /\ u[new].pPrev = NULL
    BY DEF Heads
  <1>2. first = Entry(n, o, 1)
    BY DEF Linked
  <1>3. ASSUME NEW k \in 1..n
        PROVE  /\ u[o[k]].pNext = m[o[k]].pNext
               /\ u[o[k]].pPrev = IF k = 1 THEN new ELSE m[o[k]].pPrev
    <2>1. o[k] \in Addr \ {new}
      BY EntryFacts
    <2>2. o[k] = first <=> k = 1
      BY <1>2, EntryFacts
    <2> QED BY <2>1, <2>2 DEF Heads
  <1> QED BY <1>1, <1>3, Prepended

SumsMoved(m, u, E, x, y) ==
  /\ SumOfSizes(u, E \ {x}) \in Nat
  /\ SumOfSizes(m, E) = m[x].size + SumOfSizes(u, E \ {x})
  /\ SumOfSizes(u, (E \ {x}) \cup {y}) = u[y].size + SumOfSizes(u, E \ {x})

LEMMA SumMoved ==
  ASSUME NEW m \in Mem, NEW u \in Mem, NEW E \in SUBSET Addr, NEW x \in E,
         NEW y \in Addr, y \notin E \ {x}, Keeps(u, m, {x, y})
  PROVE  SumsMoved(m, u, E, x, y)
  <1>1. SameSizes(u, m, E \ {x}) /\ SameSizes(u, u, E \ {x})
    BY DEF Keeps, SameSizes
  <1>2. E \ {x} \in SUBSET Addr /\ y \in Addr \ (E \ {x})
    OBVIOUS
  <1>3. SumOfSizes(u, E \ {x}) \in Nat /\ SumOfSizes(m, E) = m[x].size + SumOfSizes(u, E \ {x})
    BY <1>1, SumTaken
  <1>4. SumOfSizes(u, (E \ {x}) \cup {y}) = u[y].size + SumOfSizes(u, E \ {x})
    BY <1>1, <1>2, SumAdded
  <1> QED BY <1>3, <1>4 DEF SumsMoved

----------------------------------------------------------------------------
(* The steps of a pool.                                                     *)

Divisible(s, m, b) == m[b].size > HeadSize + s
RestAt(s, b) == b + Width(s)
SizeBehind(s, m, b) == m[b].size - s - HeadSize

LEMMA CutSound ==
  ASSUME NEW s, OneSize(s), NEW starts, NEW n, NEW o, NEW m, NEW first, NEW f, NEW l, NEW k,
         Sound(s, starts, n, o, m, first, f, l, k),
         NEW b \in Listed(n, o), Divisible(s, m, b), NEW rest, rest = RestAt(s, b),
         NEW u \in Mem, TakesPlace(u, m, b, rest), Keeps(u, m, {b, rest}),
         u[b].size = s, u[b].used, u[rest].size = SizeBehind(s, m, b), ~u[rest].used
  PROVE  \E starts2, n2, o2 :
           Sound(s, starts2, n2, o2, u, IF m[b].pPrev = NULL THEN rest ELSE first,
                 f - (s + HeadSize), l \cup {Block(s, b)}, k + 1)
  <1>1. /\ m \in Mem /\ Tiled(s, m, starts) /\ Linked(m, first, n, o)
        /\ Listed(n, o) = Free(m, starts) /\ f = SumOfSizes(m, Listed(n, o))
        /\ starts \subseteq Addr
    BY DEF Sound, Tiled
  <1>2. b \in starts /\ ~m[b].used /\ b \in Addr
    BY <1>1 DEF Free
  <1>3. /\ b \in Nat /\ m[b].size \in Nat /\ s \in Nat /\ HeadSize \in Nat /\ Width(s) = HeadSize + s
        /\ m[b].size >= s
    BY <1>1, <1>2, MemFacts, Widths DEF Divisible
  <1>4. rest \in Addr /\ rest \notin starts /\ b < rest
    BY <1>1, <1>2, <1>3, FreeFacts DEF RestAt, Divisible
  <1>5. rest \notin Listed(n, o) /\ Listed(n, o) \subseteq Addr
    BY <1>1, <1>4 DEF Free
  <1>6. PICK q : /\ Linked(u, IF m[b].pPrev = NULL THEN rest ELSE first, n, q)
                 /\ Listed(n, q) = (Listed(n, o) \ {b}) \cup {rest}
    BY <1>1, <1>4, <1>5, TakesPlaceLinked
  <1>7. \A a \in starts \ {b} : u[a].size = m[a].size
    BY <1>1, <1>4 DEF Keeps
  <1>8. \A a \in starts \ {b} : u[a].used = m[a].used
    BY <1>1, <1>4 DEF Keeps
  <1> DEFINE S == starts \cup {rest}
  <1>9. Tiled(s, u, S)
    BY <1>1, <1>2, <1>7, <1>8, CutTiled DEF RestAt, SizeBehind, Divisible
  <1>10. Listed(n, q) = Free(u, S)
    BY <1>1, <1>2, <1>4, <1>6, <1>8 DEF Free
  <1>11. Taken(u, S) = Taken(m, starts) \cup {b}
    BY <1>2, <1>4, <1>8 DEF Taken
  <1>12. /\ l \cup {Block(s, b)} = BlocksAt(s, Taken(u, S))
         /\ IsFiniteSet(l \cup {Block(s, b)})
         /\ k + 1 = Cardinality(l \cup {Block(s, b)})
    <2> HIDE DEF S
    <2>1. /\ l \cup {Block(s, b)} = BlocksAt(s, Taken(m, starts) \cup {b})
          /\ IsFiniteSet(l \cup {Block(s, b)})
          /\ k + 1 = Cardinality(l \cup {Block(s, b)})
      <3>1. b \in Free(m, starts)
        BY <1>1
      <3> QED BY <3>1, MoreTaken
    <2> QED BY <1>11, <2>1
  <1>13. f - (s + HeadSize) = SumOfSizes(u, Listed(n, q))
    <2> DEFINE E == Listed(n, o)
    <2>1. E \in SUBSET Addr /\ b \in E /\ rest \notin E \ {b} /\ rest \in Addr /\ m \in Mem
      BY <1>1, <1>4, <1>5
    <2> HIDE DEF E
    <2>2. SumsMoved(m, u, E, b, rest)
      BY <2>1, SumMoved
    <2>3. f = SumOfSizes(m, E) /\ Listed(n, q) = (E \ {b}) \cup {rest}
      BY <1>1, <1>6 DEF E
    <2> QED BY <1>3, <2>2, <2>3 DEF SizeBehind, SumsMoved
  <1>14. f - (s + HeadSize) + Width(s) * (k + 1) + HeadSize * n = Total
    <2>1. /\ f \in Nat /\ Width(s) * k \in Nat /\ HeadSize * n \in Nat
          /\ Width(s) * (k + 1) = Width(s) * k + Width(s)
      BY SoundFacts
    <2>2. f + Width(s) * k + HeadSize * n = Total
      BY DEF Sound
    <2> QED BY <1>3, <2>1, <2>2
  <1>15. Sound(s, S, n, q, u, IF m[b].pPrev = NULL THEN rest ELSE first,
               f - (s + HeadSize), l \cup {Block(s, b)}, k + 1)
    <2> HIDE DEF S
    <2> QED BY <1>6, <1>9, <1>10, <1>12, <1>13, <1>14 DEF Sound
  <1> QED BY <1>15

LEMMA WholeSound ==
  ASSUME NEW s, OneSize(s), NEW starts, NEW n, NEW o, NEW m, NEW first, NEW f, NEW l, NEW k,
         Sound(s, starts, n, o, m, first, f, l, k),
         NEW b \in Listed(n, o), m[b].size = s,
         NEW u \in Mem, Leaves(u, m, b), Keeps(u, m, {b}), u[b].size = s, u[b].used
  PROVE  \E starts2, n2, o2 :
           Sound(s, starts2, n2, o2, u, IF m[b].pPrev = NULL THEN m[b].pNext ELSE first,
                 f - s, l \cup {Block(s, b)}, k + 1)
  <1>1. /\ m \in Mem /\ Tiled(s, m, starts) /\ Linked(m, first, n, o)
        /\ Listed(n, o) = Free(m, starts) /\ f = SumOfSizes(m, Listed(n, o))
        /\ starts \subseteq Addr
    BY DEF Sound, Tiled
  <1>2. b \in starts /\ ~m[b].used /\ b \in Addr
    BY <1>1 DEF Free
  <1>3. s \in Nat /\ HeadSize \in Nat /\ Width(s) = HeadSize + s
    BY Widths
  <1>4. Listed(n, o) \subseteq Addr
    BY <1>1 DEF Free
  <1>5. PICK q : /\ Linked(u, IF m[b].pPrev = NULL THEN m[b].pNext ELSE first, n - 1, q)
                 /\ Listed(n - 1, q) = Listed(n, o) \ {b}
    BY <1>1, LeavesLinked
  <1>6. \A a \in starts : u[a].size = m[a].size
    BY <1>1 DEF Keeps
  <1>7. \A a \in starts \ {b} : u[a].used = m[a].used
    BY <1>1 DEF Keeps
  <1>8. Tiled(s, u, starts)
    <2>1. \A a \in starts : u[a].used => m[a].size = s
      BY <1>1, <1>7 DEF Tiled
    <2> QED BY <1>1, <1>6, <2>1, SameTiled
  <1>9. Listed(n - 1, q) = Free(u, starts)
    BY <1>1, <1>2, <1>5, <1>7 DEF Free
  <1>10. Taken(u, starts) = Taken(m, starts) \cup {b}
    BY <1>2, <1>7 DEF Taken
  <1>11. /\ l \cup {Block(s, b)} = BlocksAt(s, Taken(u, starts))
         /\ IsFiniteSet(l \cup {Block(s, b)})
         /\ k + 1 = Cardinality(l \cup {Block(s, b)})
    BY <1>1, <1>10, MoreTaken
  <1>12. f - s = SumOfSizes(u, Listed(n - 1, q))
    <2> DEFINE E == Listed(n, o)
    <2>1. E \in SUBSET Addr /\ b \in E /\ SameSizes(u, m, E \ {b})
      BY <1>1, <1>4, <1>6 DEF Free, SameSizes
    <2> HIDE DEF E
    <2>2. /\ SumOfSizes(u, E \ {b}) \in Nat
          /\ SumOfSizes(m, E) = m[b].size + SumOfSizes(u, E \ {b})
      BY <1>1, <2>1, SumTaken
    <2>3. f = SumOfSizes(m, E) /\ Listed(n - 1, q) = E \ {b}
      BY <1>1, <1>5 DEF E
    <2>4. f = s + SumOfSizes(u, Listed(n - 1, q)) /\ SumOfSizes(u, Listed(n - 1, q)) \in Nat
      BY <2>2, <2>3
    <2> QED BY <1>3, <2>4
  <1>13. f - s + Width(s) * (k + 1) + HeadSize * (n - 1) = Total
    <2>1. /\ f \in Nat /\ Width(s) * k \in Nat /\ HeadSize * n \in Nat
          /\ Width(s) * (k + 1) = Width(s) * k + Width(s)
          /\ HeadSize * (n - 1) = HeadSize * n - HeadSize
      BY SoundFacts
    <2>2. f + Width(s) * k + HeadSize * n = Total
      BY DEF Sound
    <2> QED BY <1>3, <2>1, <2>2
  <1>14. Sound(s, starts, n - 1, q, u, IF m[b].pPrev = NULL THEN m[b].pNext ELSE first,
               f - s, l \cup {Block(s, b)}, k + 1)
    BY <1>5, <1>8, <1>9, <1>11, <1>12, <1>13 DEF Sound
  <1> QED BY <1>14

LEMMA MergeSound ==
  ASSUME NEW s, OneSize(s), NEW starts, NEW n, NEW o, NEW m, NEW first, NEW f, NEW l, NEW k,
         Sound(s, starts, n, o, m, first, f, l, k),
         NEW b \in starts, m[b].used, NEW next, next = End(m, b), ~m[next].used,
         NEW u \in Mem, TakesPlace(u, m, next, b), Keeps(u, m, {next, b}),
         u[b].size = m[b].size + m[next].size + HeadSize, ~u[b].used
  PROVE  \E starts2, n2, o2 :
           Sound(s, starts2, n2, o2, u, IF m[next].pPrev = NULL THEN b ELSE first,
                 f + m[b].size + HeadSize, l \ {Block(s, b)}, k - 1)
  <1>1. /\ m \in Mem /\ Tiled(s, m, starts) /\ Linked(m, first, n, o)
        /\ Listed(n, o) = Free(m, starts) /\ f = SumOfSizes(m, Listed(n, o))
        /\ starts \subseteq Addr
    BY DEF Sound, Tiled
  <1>2. b \in Addr /\ b \notin Listed(n, o) /\ m[b].size = s
    BY <1>1, UsedFacts DEF Free
  <1>3. next \in starts /\ next \in Addr /\ next \in Listed(n, o) /\ b # next
    BY <1>1, <1>2, UsedFacts, MemFacts DEF Free
  <1>4. /\ s \in Nat /\ HeadSize \in Nat /\ Width(s) = HeadSize + s /\ m[next].size \in Nat
        /\ Listed(n, o) \subseteq Addr
    BY <1>1, <1>3, MemFacts, Widths DEF Free
  <1>5. PICK q : /\ Linked(u, IF m[next].pPrev = NULL THEN b ELSE first, n, q)
                 /\ Listed(n, q) = (Listed(n, o) \ {next}) \cup {b}
    BY <1>1, <1>2, <1>3, TakesPlaceLinked
  <1>6. \A a \in starts \ {b, next} : u[a].size = m[a].size
    BY <1>1 DEF Keeps
  <1>7. \A a \in starts \ {b, next} : u[a].used = m[a].used
    BY <1>1 DEF Keeps
  <1> DEFINE S == starts \ {next}
  <1>8. Tiled(s, u, S)
    BY <1>1, <1>3, <1>6, <1>7, MergedTiled
  <1>9. Listed(n, q) = Free(u, S)
    BY <1>1, <1>3, <1>5, <1>7 DEF Free
  <1>10. Taken(u, S) = Taken(m, starts) \ {b}
    BY <1>1, <1>3, <1>7 DEF Taken
  <1>11. /\ l \ {Block(s, b)} = BlocksAt(s, Taken(u, S))
         /\ IsFiniteSet(l \ {Block(s, b)})
         /\ k - 1 = Cardinality(l \ {Block(s, b)}) /\ k >= 1
    <2> HIDE DEF S
    <2>1. /\ l \ {Block(s, b)} = BlocksAt(s, Taken(m, starts) \ {b})
          /\ IsFiniteSet(l \ {Block(s, b)})
          /\ k - 1 = Cardinality(l \ {Block(s, b)}) /\ k >= 1
      BY LessTaken
    <2> QED BY <1>10, <2>1
  <1>12. f + m[b].size + HeadSize = SumOfSizes(u, Listed(n, q))
    <2> DEFINE E == Listed(n, o)
    <2>1. E \in SUBSET Addr /\ next \in E /\ b \notin E \ {next} /\ b \in Addr /\ m \in Mem
      BY <1>1, <1>2, <1>3, <1>4
    <2> HIDE DEF E
    <2>2. SumsMoved(m, u, E, next, b)
      BY <2>1, SumMoved
    <2>3. f = SumOfSizes(m, E) /\ Listed(n, q) = (E \ {next}) \cup {b}
      BY <1>1, <1>5 DEF E
    <2> QED BY <1>2, <1>4, <2>2, <2>3 DEF SumsMoved
  <1>13. f + m[b].size + HeadSize + Width(s) * (k - 1) + HeadSize * n = Total
    <2>1. /\ f \in Nat /\ Width(s) * k \in Nat /\ HeadSize * n \in Nat
          /\ Width(s) * (k - 1) = Width(s) * k - Width(s)
      BY <1>11, SoundFacts
    <2>2. f + Width(s) * k + HeadSize * n = Total
      BY DEF Sound
    <2> QED BY <1>2, <1>4, <2>1, <2>2
  <1>14. Sound(s, S, n, q, u, IF m[next].pPrev = NULL THEN b ELSE first,
               f + m[b].size + HeadSize, l \ {Block(s, b)}, k - 1)
    <2> HIDE DEF S
    <2> QED BY <1>5, <1>8, <1>9, <1>11, <1>12, <1>13 DEF Sound
  <1> QED BY <1>14

LEMMA FirstSound ==
  ASSUME NEW s, OneSize(s), NEW starts, NEW n, NEW o, NEW m, NEW first, NEW f, NEW l, NEW k,
         Sound(s, starts, n, o, m, first, f, l, k),
         NEW b \in starts, m[b].used,
         NEW u \in Mem, Heads(u, m, first, b), Keeps(u, m, {b}), u[b].size = m[b].size, ~u[b].used
  PROVE  \E starts2, n2, o2 :
           Sound(s, starts2, n2, o2, u, b, f + m[b].size, l \ {Block(s, b)}, k - 1)
  <1>1. /\ m \in Mem /\ Tiled(s, m, starts) /\ Linked(m, first, n, o)
        /\ Listed(n, o) = Free(m, starts) /\ f = SumOfSizes(m, Listed(n, o))
        /\ starts \subseteq Addr
    BY DEF Sound, Tiled
  <1>2. b \in Addr /\ b \notin Listed(n, o) /\ m[b].size = s
    BY <1>1, UsedFacts DEF Free
  <1>3. s \in Nat /\ HeadSize \in Nat /\ Width(s) = HeadSize + s
    BY Widths
  <1>4. Listed(n, o) \subseteq Addr
    BY <1>1 DEF Free
  <1>5. PICK q : Linked(u, b, n + 1, q) /\ Listed(n + 1, q) = Listed(n, o) \cup {b}
    BY <1>1, <1>2, HeadsLinked
  <1>6. \A a \in starts : u[a].size = m[a].size
    BY <1>1 DEF Keeps
  <1>7. \A a \in starts \ {b} : u[a].used = m[a].used
    BY <1>1 DEF Keeps
  <1>8. Tiled(s, u, starts)
    <2>1. \A a \in starts : u[a].used => m[a].size = s
      BY <1>1, <1>7 DEF Tiled
    <2> QED BY <1>1, <1>6, <2>1, SameTiled
  <1>9. Listed(n + 1, q) = Free(u, starts)
    BY <1>1, <1>5, <1>7 DEF Free
  <1>10. Taken(u, starts) = Taken(m, starts) \ {b}
    BY <1>7 DEF Taken
  <1>11. /\ l \ {Block(s, b)} = BlocksAt(s, Taken(u, starts))
         /\ IsFiniteSet(l \ {Block(s, b)})
         /\ k - 1 = Cardinality(l \ {Block(s, b)}) /\ k >= 1
    BY <1>10, LessTaken
  <1>12. f + m[b].size = SumOfSizes(u, Listed(n + 1, q))
    <2> DEFINE E == Listed(n, o)
    <2>1. E \in SUBSET Addr /\ b \in Addr \ E /\ SameSizes(u, m, E)
      BY <1>1, <1>2, <1>4, <1>6 DEF Free, SameSizes
    <2> HIDE DEF E
    <2>2. SumOfSizes(u, E \cup {b}) = u[b].size + SumOfSizes(m, E)
      BY <1>1, <2>1, SumAdded
    <2>3. f = SumOfSizes(m, E) /\ Listed(n + 1, q) = E \cup {b} /\ f \in Nat
      BY <1>1, <1>5, SoundFacts DEF E
    <2>4. SumOfSizes(u, Listed(n + 1, q)) = m[b].size + f
      BY <2>2, <2>3
    <2> QED BY <1>2, <1>3, <2>3, <2>4
  <1>13. f + m[b].size + Width(s) * (k - 1) + HeadSize * (n + 1) = Total
    <2>1. /\ f \in Nat /\ Width(s) * k \in Nat /\ HeadSize * n \in Nat
          /\ Width(s) * (k - 1) = Width(s) * k - Width(s)
          /\ HeadSize * (n + 1) = HeadSize * n + HeadSize
      BY <1>11, SoundFacts
    <2>2. f + Width(s) * k + HeadSize * n = Total
      BY DEF Sound
    <2> QED BY <1>2, <1>3, <2>1, <2>2
  <1>14. Sound(s, starts, n + 1, q, u, b, f + m[b].size, l \ {Block(s, b)}, k - 1)
    BY <1>5, <1>8, <1>9, <1>11, <1>12, <1>13 DEF Sound
  <1> QED BY <1>14

----------------------------------------------------------------------------
(* The writes of getMem and putMem are these steps.                         *)

BlockHead == [pNext : Addr \cup {NULL}, pPrev : Addr \cup {NULL}, size : 0..Total, used : BOOLEAN]

(* The header of b is written, or those of b and the rest behind it. *)
Rewrote(c, m, b, next, prev, size) ==
  /\ c \in Mem
  /\ c[b].pNext = next /\ c[b].pPrev = prev /\ c[b].size = size
  /\ \A a \in Addr \ {b} : c[a] = m[a]

RewroteTwo(c, m, b, rest, size, left) ==
  /\ c \in Mem
  /\ c[b].size = size
  /\ c[rest].pNext = m[b].pNext /\ c[rest].pPrev = m[b].pPrev /\ c[rest].size = left
  /\ \A a \in Addr \ {b, rest} : c[a] = m[a]

RewroteTaken(c, m, b) == Rewrote(c, m, b, m[b].pNext, m[b].pPrev, m[b].size) /\ c[b].used
RewroteFree(c, m, b, next, prev, size) == Rewrote(c, m, b, next, prev, size) /\ ~c[b].used
RewroteCut(c, m, b, rest, size, left) ==
  RewroteTwo(c, m, b, rest, size, left) /\ c[b].used /\ ~c[rest].used

LEMMA CutHeads ==
  ASSUME NEW m \in Mem, NEW b \in Addr, NEW rest \in Addr, rest # b,
         NEW size \in 0..Total, NEW left \in 0..Total,
         NEW c, c = [m EXCEPT ![b] = [m[b] EXCEPT !.used = TRUE, !.size = size],
                              ![rest] = Header(m[b].pNext, m[b].pPrev, left, FALSE)]
  PROVE  RewroteCut(c, m, b, rest, size, left)
  <1> DEFINE x == [m[b] EXCEPT !.used = TRUE, !.size = size]
             y == Header(m[b].pNext, m[b].pPrev, left, FALSE)
  <1>1. m \in [Addr -> BlockHead] /\ m[b] \in BlockHead
    BY DEF Mem, BlockHead
  <1>2. m[b].pPrev \in Addr \cup {NULL} /\ m[b].pNext \in Addr \cup {NULL}
    BY <1>1 DEF BlockHead
  <1>3. x \in BlockHead /\ x.size = size /\ x.used = TRUE
    BY <1>1 DEF BlockHead
  <1>4. /\ y \in BlockHead /\ y.pNext = m[b].pNext /\ y.pPrev = m[b].pPrev /\ y.size = left /\ y.used = FALSE
    BY <1>2 DEF BlockHead, Header
  <1>5. c = [m EXCEPT ![b] = x, ![rest] = y]
    OBVIOUS
  <1> HIDE DEF x, y
  <1>6. /\ c \in [Addr -> BlockHead] /\ c[b] = x /\ c[rest] = y
        /\ \A a \in Addr \ {b, rest} : c[a] = m[a]
    BY <1>1, <1>3, <1>4, <1>5
  <1>7. c \in Mem
    BY <1>6 DEF Mem, BlockHead
  <1>8. c[b].used /\ ~c[rest].used
    BY <1>3, <1>4, <1>6
  <1>9. RewroteTwo(c, m, b, rest, size, left)
    BY <1>3, <1>4, <1>6, <1>7 DEF RewroteTwo
  <1> QED BY <1>8, <1>9 DEF RewroteCut

LEMMA CutMemory ==
  ASSUME NEW m \in Mem, NEW b \in Addr, NEW rest \in Addr, rest # b,
         rest # m[b].pPrev, rest # m[b].pNext, NEW size, NEW left,
         NEW c, RewroteCut(c, m, b, rest, size, left),
         NEW u, u = SetPrev(SetNext(c, m[b].pPrev, rest), m[b].pNext, rest)
  PROVE  IsCut(u, m, b, rest, size, left)
  <1>0. RewroteTwo(c, m, b, rest, size, left)
    BY DEF RewroteCut
  <1>1. m[b].pPrev \in Addr \cup {NULL} /\ m[b].pNext \in Addr \cup {NULL}
    BY MemFacts
  <1>2. c \in Mem
    BY <1>0 DEF RewroteTwo
  <1>3. WroteBoth(u, c, m[b].pPrev, rest, m[b].pNext, rest)
    BY <1>1, <1>2, WrittenBoth
  <1>4. TakesPlace(u, m, b, rest)
    BY <1>0, <1>3 DEF TakesPlace, RewroteTwo, WroteBoth
  <1>5. Keeps(u, m, {b, rest})
    BY <1>0, <1>3 DEF Keeps, RewroteTwo, WroteBoth
  <1>6. u[b].size = size /\ u[rest].size = left /\ u \in Mem
    BY <1>0, <1>3 DEF RewroteTwo, WroteBoth
  <1>7. u[b].used /\ ~u[rest].used
    BY <1>3 DEF WroteBoth, RewroteCut
  <1> QED BY <1>4, <1>5, <1>6, <1>7 DEF IsCut

LEMMA WholeHead ==
  ASSUME NEW m \in Mem, NEW b \in Addr, NEW c, c = [m EXCEPT ![b].used = TRUE]
  PROVE  RewroteTaken(c, m, b)
  <1>1. m \in [Addr -> BlockHead] /\ m[b] \in BlockHead
    BY DEF Mem, BlockHead
  <1>2. /\ c \in [Addr -> BlockHead] /\ c[b] = [m[b] EXCEPT !.used = TRUE]
        /\ \A a \in Addr \ {b} : c[a] = m[a]
    BY <1>1 DEF BlockHead
  <1>3. /\ c[b].size = m[b].size /\ c[b].pNext = m[b].pNext /\ c[b].pPrev = m[b].pPrev /\ c \in Mem
    BY <1>1, <1>2 DEF Mem, BlockHead
  <1>4. c[b].used
    BY <1>1, <1>2 DEF BlockHead
  <1> QED BY <1>2, <1>3, <1>4 DEF Rewrote, RewroteTaken

LEMMA WholeMemory ==
  ASSUME NEW m \in Mem, NEW b \in Addr,
         NEW c, RewroteTaken(c, m, b),
         NEW u, u = SetPrev(IF m[b].pPrev = NULL THEN SetPrev(c, m[b].pNext, NULL)
                            ELSE SetNext(c, m[b].pPrev, m[b].pNext),
                            m[b].pNext, m[b].pPrev)
  PROVE  IsTaken(u, m, b)
  <1>0. Rewrote(c, m, b, m[b].pNext, m[b].pPrev, m[b].size)
    BY DEF RewroteTaken
  <1>1. m[b].pPrev \in Addr \cup {NULL} /\ m[b].pNext \in Addr \cup {NULL} /\ NULL \in Addr \cup {NULL}
    BY MemFacts
  <1>2. c \in Mem
    BY <1>0 DEF Rewrote
  <1>3. WroteBoth(u, c, m[b].pPrev, m[b].pNext, m[b].pNext, m[b].pPrev)
    <2>1. CASE m[b].pPrev = NULL
      <3>1. PICK d : d = SetPrev(c, m[b].pNext, NULL)
        OBVIOUS
      <3>2. WrotePrev(d, c, m[b].pNext, NULL)
        BY <1>1, <1>2, <3>1, Written
      <3>3. d \in Mem /\ u = SetPrev(d, m[b].pNext, NULL)
        BY <2>1, <3>1, <3>2 DEF WrotePrev
      <3>4. WrotePrev(u, d, m[b].pNext, NULL)
        BY <1>1, <3>3, Written
      <3>5. \A a \in Addr : a # NULL
        BY DEF Addr, NULL
      <3>6. \A a \in Addr : u[a].used = c[a].used
        BY <3>2, <3>4 DEF WrotePrev
      <3>7. \A a \in Addr : u[a].size = c[a].size
        BY <3>2, <3>4 DEF WrotePrev
      <3>8. \A a \in Addr : u[a].pNext = c[a].pNext /\ u[a].pPrev = IF a = m[b].pNext THEN NULL ELSE c[a].pPrev
        BY <3>2, <3>4 DEF WrotePrev
      <3>9. u \in Mem
        BY <3>4 DEF WrotePrev
      <3> QED BY <2>1, <3>5, <3>6, <3>7, <3>8, <3>9 DEF WroteBoth
    <2>2. CASE m[b].pPrev # NULL
      <3>1. u = SetPrev(SetNext(c, m[b].pPrev, m[b].pNext), m[b].pNext, m[b].pPrev)
        BY <2>2
      <3> QED BY <1>1, <1>2, <3>1, WrittenBoth
    <2> QED BY <2>1, <2>2
  <1>4. Leaves(u, m, b)
    BY <1>0, <1>3 DEF Leaves, Rewrote, WroteBoth
  <1>5. Keeps(u, m, {b})
    BY <1>0, <1>3 DEF Keeps, Rewrote, WroteBoth
  <1>6. u[b].size = m[b].size /\ u \in Mem
    BY <1>0, <1>3 DEF Rewrote, WroteBoth
  <1>7. u[b].used
    BY <1>3 DEF WroteBoth, RewroteTaken
  <1> QED BY <1>4, <1>5, <1>6, <1>7 DEF IsTaken

(* The header of a block that is given back. *)
LEMMA FreedHead ==
  ASSUME NEW m \in Mem, NEW b \in Addr, NEW c1, c1 = [m EXCEPT ![b].used = FALSE]
  PROVE  Rewrote(c1, m, b, m[b].pNext, m[b].pPrev, m[b].size) /\ ~c1[b].used
  <1>1. m \in [Addr -> BlockHead] /\ m[b] \in BlockHead
    BY DEF Mem, BlockHead
  <1>2. /\ c1 \in [Addr -> BlockHead] /\ c1[b] = [m[b] EXCEPT !.used = FALSE]
        /\ \A a \in Addr \ {b} : c1[a] = m[a]
    BY <1>1 DEF BlockHead
  <1>3. /\ c1[b].size = m[b].size /\ c1[b].pNext = m[b].pNext /\ c1[b].pPrev = m[b].pPrev /\ c1 \in Mem
    BY <1>1, <1>2 DEF Mem, BlockHead
  <1>4. ~c1[b].used
    BY <1>1, <1>2 DEF BlockHead
  <1> QED BY <1>2, <1>3, <1>4 DEF Rewrote

LEMMA LinkedHead ==
  ASSUME NEW m \in Mem, NEW b \in Addr, ~m[b].used,
         NEW next \in Addr \cup {NULL}, NEW prev \in Addr \cup {NULL},
         NEW c2, c2 = [m EXCEPT ![b].pNext = next, ![b].pPrev = prev]
  PROVE  Rewrote(c2, m, b, next, prev, m[b].size) /\ ~c2[b].used
  <1> DEFINE c1 == [m EXCEPT ![b].pNext = next]
  <1>1. m \in [Addr -> BlockHead] /\ m[b] \in BlockHead
    BY DEF Mem, BlockHead
  <1>2. /\ c1 \in [Addr -> BlockHead] /\ c1[b] = [m[b] EXCEPT !.pNext = next]
        /\ \A a \in Addr \ {b} : c1[a] = m[a]
    BY <1>1 DEF BlockHead
  <1>3. c2 = [c1 EXCEPT ![b].pPrev = prev]
    OBVIOUS
  <1> HIDE DEF c1
  <1>4. c1[b] \in BlockHead /\ c1[b].size = m[b].size /\ c1[b].pNext = next
    BY <1>1, <1>2 DEF BlockHead
  <1>5. ~c1[b].used
    BY <1>1, <1>2 DEF BlockHead
  <1>6. /\ c2 \in [Addr -> BlockHead] /\ c2[b] = [c1[b] EXCEPT !.pPrev = prev]
        /\ \A a \in Addr \ {b} : c2[a] = c1[a]
    BY <1>2, <1>3, <1>4 DEF BlockHead
  <1>7. c2[b].size = m[b].size /\ c2[b].pNext = next /\ c2[b].pPrev = prev
    BY <1>4, <1>6 DEF BlockHead
  <1>8. ~c2[b].used
    BY <1>4, <1>5, <1>6 DEF BlockHead
  <1>9. c2 \in Mem
    BY <1>6 DEF Mem, BlockHead
  <1> QED BY <1>2, <1>6, <1>7, <1>8, <1>9 DEF Rewrote

LEMMA SizedHead ==
  ASSUME NEW m \in Mem, NEW b \in Addr, ~m[b].used, NEW size \in 0..Total,
         NEW c3, c3 = [m EXCEPT ![b].size = size]
  PROVE  Rewrote(c3, m, b, m[b].pNext, m[b].pPrev, size) /\ ~c3[b].used
  <1>1. m \in [Addr -> BlockHead] /\ m[b] \in BlockHead
    BY DEF Mem, BlockHead
  <1>2. /\ c3 \in [Addr -> BlockHead] /\ c3[b] = [m[b] EXCEPT !.size = size]
        /\ \A a \in Addr \ {b} : c3[a] = m[a]
    BY <1>1 DEF BlockHead
  <1>3. /\ c3[b].size = size /\ c3[b].pNext = m[b].pNext /\ c3[b].pPrev = m[b].pPrev /\ c3 \in Mem
    BY <1>1, <1>2 DEF Mem, BlockHead
  <1>4. ~c3[b].used
    BY <1>1, <1>2 DEF BlockHead
  <1> QED BY <1>2, <1>3, <1>4 DEF Rewrote

LEMMA MergeHead ==
  ASSUME NEW m \in Mem, NEW b \in Addr, NEW next \in Addr \cup {NULL}, NEW prev \in Addr \cup {NULL},
         NEW x, NEW y, m[b].size + x + y \in 0..Total,
         NEW c, c = [[m EXCEPT ![b].used = FALSE] EXCEPT
                       ![b].pNext = next, ![b].pPrev = prev, ![b].size = @ + x + y]
  PROVE  RewroteFree(c, m, b, next, prev, m[b].size + x + y)
  <1> DEFINE c1 == [m EXCEPT ![b].used = FALSE]
             c2 == [c1 EXCEPT ![b].pNext = next, ![b].pPrev = prev]
             c3 == [c2 EXCEPT ![b].size = @ + x + y]
  <1>1. c = c3
    OBVIOUS
  <1>2. Rewrote(c1, m, b, m[b].pNext, m[b].pPrev, m[b].size) /\ ~c1[b].used
    <2> DEFINE d == c1
    <2>1. d = [m EXCEPT ![b].used = FALSE]
      OBVIOUS
    <2> HIDE DEF d
    <2>2. Rewrote(d, m, b, m[b].pNext, m[b].pPrev, m[b].size) /\ ~d[b].used
      BY <2>1, FreedHead
    <2> QED BY <2>2 DEF d
  <1> HIDE DEF c1
  <1>3. c1 \in Mem
    BY <1>2 DEF Rewrote
  <1>4. Rewrote(c2, c1, b, next, prev, c1[b].size) /\ ~c2[b].used
    <2> DEFINE d == c2
    <2>1. d = [c1 EXCEPT ![b].pNext = next, ![b].pPrev = prev]
      OBVIOUS
    <2> HIDE DEF d
    <2>2. Rewrote(d, c1, b, next, prev, c1[b].size) /\ ~d[b].used
      BY <1>2, <1>3, <2>1, LinkedHead
    <2> QED BY <2>2 DEF d
  <1> HIDE DEF c2
  <1>5. c2 \in Mem /\ c2[b].size = m[b].size
    BY <1>2, <1>4 DEF Rewrote
  <1>6. c3 = [c2 EXCEPT ![b].size = m[b].size + x + y]
    BY <1>5
  <1> HIDE DEF c3
  <1>7. Rewrote(c3, c2, b, c2[b].pNext, c2[b].pPrev, m[b].size + x + y) /\ ~c3[b].used
    BY <1>4, <1>5, <1>6, SizedHead
  <1>8. Rewrote(c3, m, b, next, prev, m[b].size + x + y)
    BY <1>2, <1>4, <1>7 DEF Rewrote
  <1> QED BY <1>1, <1>7, <1>8 DEF RewroteFree

LEMMA MergeMemory ==
  ASSUME NEW m \in Mem, NEW b \in Addr, NEW next \in Addr, next # b,
         b # m[next].pPrev, b # m[next].pNext, NEW size,
         NEW c, RewroteFree(c, m, b, m[next].pNext, m[next].pPrev, size),
         NEW u, u = SetPrev(SetNext(c, m[next].pPrev, b), m[next].pNext, b)
  PROVE  IsMerged(u, m, b, next, size)
  <1>0. Rewrote(c, m, b, m[next].pNext, m[next].pPrev, size)
    BY DEF RewroteFree
  <1>1. m[next].pPrev \in Addr \cup {NULL} /\ m[next].pNext \in Addr \cup {NULL}
    BY MemFacts
  <1>2. c \in Mem
    BY <1>0 DEF Rewrote
  <1>3. WroteBoth(u, c, m[next].pPrev, b, m[next].pNext, b)
    BY <1>1, <1>2, WrittenBoth
  <1>4. TakesPlace(u, m, next, b)
    BY <1>0, <1>3 DEF TakesPlace, Rewrote, WroteBoth
  <1>5. Keeps(u, m, {next, b})
    BY <1>0, <1>3 DEF Keeps, Rewrote, WroteBoth
  <1>6. u[b].size = size /\ u \in Mem
    BY <1>0, <1>3 DEF Rewrote, WroteBoth
  <1>7. ~u[b].used
    BY <1>3 DEF WroteBoth, RewroteFree
  <1> QED BY <1>4, <1>5, <1>6, <1>7 DEF IsMerged

LEMMA FirstHead ==
  ASSUME NEW m \in Mem, NEW b \in Addr, NEW next \in Addr \cup {NULL}, NEW prev \in Addr \cup {NULL},
         NEW c, c = [[m EXCEPT ![b].used = FALSE] EXCEPT ![b].pNext = next, ![b].pPrev = prev]
  PROVE  RewroteFree(c, m, b, next, prev, m[b].size)
  <1>0. PICK e : e = c
    OBVIOUS
  <1>1. PICK d : d = [m EXCEPT ![b].used = FALSE]
    OBVIOUS
  <1>2. Rewrote(d, m, b, m[b].pNext, m[b].pPrev, m[b].size) /\ ~d[b].used
    BY <1>1, FreedHead
  <1>3. d \in Mem /\ d[b].size = m[b].size
    BY <1>2 DEF Rewrote
  <1>4. e = [d EXCEPT ![b].pNext = next, ![b].pPrev = prev]
    BY <1>0, <1>1
  <1>5. Rewrote(e, d, b, next, prev, d[b].size) /\ ~e[b].used
    <2>1. ~d[b].used
      BY <1>2
    <2> QED BY <1>3, <1>4, <2>1, LinkedHead
  <1>6. Rewrote(e, m, b, next, prev, m[b].size)
    BY <1>2, <1>5 DEF Rewrote
  <1> QED BY <1>0, <1>5, <1>6 DEF RewroteFree

LEMMA FirstMemory ==
  ASSUME NEW m \in Mem, NEW b \in Addr, NEW first \in Addr \cup {NULL}, first # b,
         NEW c, RewroteFree(c, m, b, first, NULL, m[b].size),
         NEW u, u = SetPrev(c, first, b)
  PROVE  IsFirst(u, m, b, first)
  <1>0. Rewrote(c, m, b, first, NULL, m[b].size)
    BY DEF RewroteFree
  <1>1. c \in Mem
    BY <1>0 DEF Rewrote
  <1>2. WrotePrev(u, c, first, b)
    BY <1>1, Written
  <1>3. Heads(u, m, first, b)
    BY <1>0, <1>2 DEF Heads, Rewrote, WrotePrev
  <1>4. Keeps(u, m, {b})
    BY <1>0, <1>2 DEF Keeps, Rewrote, WrotePrev
  <1>5. u[b].size = m[b].size /\ u \in Mem
    BY <1>0, <1>2 DEF Rewrote, WrotePrev
  <1>6. ~u[b].used
    BY <1>2 DEF WrotePrev, RewroteFree
  <1> QED BY <1>3, <1>4, <1>5, <1>6 DEF IsFirst

----------------------------------------------------------------------------
(* The invariant: some row of blocks and some list describe the pool.       *)

SoundNow(s, starts, n, o) == Sound(s, starts, n, o, mem, pfree, freeSize, live, out)
Inv(s) == \E starts, n, o : SoundNow(s, starts, n, o)

(* The list of the model is the list of the invariant. *)
LEMMA NthIs ==
  ASSUME NEW n, NEW o, Linked(mem, pfree, n, o)
  PROVE  \A k \in 0..Total : Nth[k] = Entry(n, o, k + 1)
  <1> DEFINE Body(g) == [k \in 0..Total |-> IF k = 0 THEN pfree ELSE After(g[k - 1])]
             it == CHOOSE g : g = Body(g)
             h == [k \in 0..Total |-> Entry(n, o, k + 1)]
  <1>0. n \in Nat /\ o \in [1..n -> Addr] /\ Total \in Nat
    BY PoolAssumption DEF Linked
  <1>1. ASSUME NEW k \in 0..Total
        PROVE  Entry(n, o, k + 1) = IF k = 0 THEN pfree ELSE After(h[k - 1])
    <2>1. CASE k = 0
      <3>1. k + 1 = 1 /\ pfree = Entry(n, o, 1)
        BY <2>1 DEF Linked
      <3> QED BY <2>1, <3>1
    <2>2. CASE k # 0
      <3>1. k - 1 \in 0..Total /\ k - 1 + 1 = k /\ k \in Nat
        BY <1>0, <2>2
      <3>2. h[k - 1] = Entry(n, o, k)
        BY <3>1
      <3> HIDE DEF h
      <3>3. CASE k \in 1..n
        <4>1. Entry(n, o, k) = o[k] /\ o[k] \in Addr /\ o[k] # NULL
          BY <1>0, <3>3 DEF Entry, Addr, NULL
        <4>2. mem[o[k]].pNext = Entry(n, o, k + 1)
          BY <3>3 DEF Linked
        <4> QED BY <2>2, <3>2, <4>1, <4>2 DEF After
      <3>4. CASE k \notin 1..n
        <4>1. Entry(n, o, k) = NULL
          BY <3>4 DEF Entry
        <4>2. Entry(n, o, k + 1) = NULL
          BY <1>0, <2>2, <3>1, <3>4 DEF Entry
        <4> QED BY <2>2, <3>2, <4>1, <4>2 DEF After
      <3> QED BY <3>3, <3>4
    <2> QED BY <2>1, <2>2
  <1>2. h = Body(h)
    <2> HIDE DEF h
    <2>1. \A k \in 0..Total : Entry(n, o, k + 1) = IF k = 0 THEN pfree ELSE After(h[k - 1])
      BY <1>1
    <2>2. h = [k \in 0..Total |-> Entry(n, o, k + 1)]
      BY DEF h
    <2> QED BY <2>1, <2>2
  <1>3. Nth = it
    BY DEF Nth
  <1>4. it = Body(it)
    <2> HIDE DEF Body, h
    <2> QED BY <1>2
  <1> HIDE DEF it
  <1> DEFINE T == {k \in Nat : k <= Total => it[k] = h[k]}
  <1>5. \A k \in 0..Total : it[k] = Body(it)[k] /\ h[k] = Body(h)[k]
    <2> HIDE DEF Body, h
    <2> QED BY <1>2, <1>4
  <1>6. \A k \in 0..Total : /\ it[k] = IF k = 0 THEN pfree ELSE After(it[k - 1])
                            /\ h[k] = IF k = 0 THEN pfree ELSE After(h[k - 1])
    <2> HIDE DEF h
    <2> QED BY <1>5
  <1>7. \A k \in 0..Total : h[k] = Entry(n, o, k + 1)
    OBVIOUS
  <1> HIDE DEF h
  <1>8. 0 \in T
    <2>1. 0 \in 0..Total
      BY <1>0
    <2> QED BY <1>6, <2>1
  <1>9. ASSUME NEW k \in Nat, k \in T PROVE k + 1 \in T
    <2> SUFFICES ASSUME k + 1 <= Total PROVE it[k + 1] = h[k + 1]
      OBVIOUS
    <2>1. k + 1 \in 0..Total /\ k + 1 # 0 /\ k + 1 - 1 = k /\ k <= Total
      BY <1>0
    <2>2. it[k] = h[k]
      BY <1>9, <2>1
    <2>3. it[k + 1] = After(it[k]) /\ h[k + 1] = After(h[k])
      BY <1>6, <2>1
    <2> QED BY <2>2, <2>3
  <1>10. Nat \subseteq T
    <2> HIDE DEF T
    <2> QED BY <1>8, <1>9, Induct
  <1> QED BY <1>0, <1>3, <1>7, <1>10

LEMMA FreeListIs ==
  ASSUME NEW s, OneSize(s), NEW starts, NEW n, NEW o, SoundNow(s, starts, n, o)
  PROVE  FreeList = Listed(n, o)
  <1>1. Linked(mem, pfree, n, o) /\ n \in Nat /\ o \in [1..n -> Addr]
    BY DEF SoundNow, Sound, Linked
  <1>2. \A k \in 0..Total : Nth[k] = Entry(n, o, k + 1)
    BY <1>1, NthIs
  <1>3. n <= Total
    <2>1. /\ freeSize \in Nat /\ Width(s) * out \in Nat /\ HeadSize * n \in Nat
          /\ freeSize + Width(s) * out + HeadSize * n = Total
      <3>1. freeSize + Width(s) * out + HeadSize * n = Total
        BY DEF SoundNow, Sound
      <3> QED BY <3>1, SoundFacts DEF SoundNow
    <2>2. HeadSize \in Nat \ {0} /\ Total \in Nat
      BY PoolAssumption
    <2>3. HeadSize * n >= n
      BY <1>1, <2>2
    <2> DEFINE x == Width(s) * out
               y == HeadSize * n
    <2>4. x \in Nat /\ y \in Nat /\ y >= n /\ freeSize + x + y = Total
      BY <2>1, <2>3
    <2> HIDE DEF x, y
    <2> QED BY <1>1, <2>1, <2>2, <2>4
  <1>4. \A i \in 1..n : o[i] \in Addr /\ o[i] # NULL
    BY <1>1 DEF Addr, NULL
  <1>5. FreeList \subseteq Listed(n, o)
    <2> SUFFICES ASSUME NEW k \in 0..Total, Nth[k] # NULL PROVE Nth[k] \in Listed(n, o)
      BY DEF FreeList
    <2> QED BY <1>2 DEF Entry, Listed
  <1>6. Listed(n, o) \subseteq FreeList
    <2> SUFFICES ASSUME NEW i \in 1..n PROVE o[i] \in FreeList
      BY DEF Listed
    <2>1. i - 1 \in 0..Total /\ i - 1 + 1 = i
      BY <1>1, <1>3, PoolAssumption
    <2>2. Nth[i - 1] = o[i]
      BY <1>2, <2>1 DEF Entry
    <2> QED BY <1>4, <2>1, <2>2 DEF FreeList
  <1> QED BY <1>5, <1>6

LEMMA InitSound ==
  ASSUME NEW s, OneSize(s), Init
  PROVE  Inv(s)
  <1> DEFINE o == [k \in 1..1 |-> 1]
  <1>0. HeadSize \in Nat /\ Total \in Nat /\ Total > HeadSize /\ Total - HeadSize \in 0..Total /\ 1 \in Addr
    BY PoolAssumption DEF Addr
  <1>1. /\ mem \in [Addr -> BlockHead]
        /\ mem[1] = Header(NULL, NULL, Total - HeadSize, FALSE)
    <2>1. Header(NULL, NULL, Total - HeadSize, FALSE) \in BlockHead /\ Header(NULL, NULL, 0, FALSE) \in BlockHead
      BY <1>0 DEF Header, BlockHead
    <2> DEFINE x == Header(NULL, NULL, Total - HeadSize, FALSE)
               y == Header(NULL, NULL, 0, FALSE)
    <2>2. mem = [a \in Addr |-> IF a = 1 THEN x ELSE y]
      BY DEF Init
    <2> HIDE DEF x, y
    <2> QED BY <1>0, <2>1, <2>2 DEF x, y
  <1>2. mem \in Mem
    BY <1>1 DEF Mem, BlockHead
  <1>3. mem[1].pNext = NULL /\ mem[1].pPrev = NULL /\ mem[1].size = Total - HeadSize
    BY <1>1 DEF Header
  <1>4. ~mem[1].used
    BY <1>1 DEF Header
  <1>5. Tiled(s, mem, {1})
    <2>1. End(mem, 1) = Total + 1
      BY <1>0, <1>3 DEF End
    <2>2. Slot(s, 1)
      BY SlotFacts
    <2> QED BY <1>0, <1>4, <2>1, <2>2 DEF Tiled
  <1>6. Linked(mem, pfree, 1, o)
    <2>1. pfree = 1
      BY DEF Init
    <2> QED BY <1>0, <1>3, <2>1 DEF Linked, Entry
  <1>7. Listed(1, o) = {1}
    BY DEF Listed
  <1>8. Free(mem, {1}) = {1} /\ Taken(mem, {1}) = {}
    BY <1>4 DEF Free, Taken
  <1>9. live = {} /\ out = 0 /\ freeSize = Total - HeadSize
    BY DEF Init
  <1>10. live = BlocksAt(s, Taken(mem, {1})) /\ IsFiniteSet(live) /\ out = Cardinality(live)
    BY <1>8, <1>9, FS_EmptySet DEF BlocksAt
  <1>11. freeSize + Width(s) * out + HeadSize * 1 = Total
    <2>1. Width(s) \in Nat
      BY Widths
    <2>2. Width(s) * out = 0
      BY <1>9, <2>1
    <2> QED BY <1>0, <1>9, <2>2
  <1>12. freeSize = SumOfSizes(mem, {1})
    <2>1. IsFiniteSet({1}) /\ IsFiniteSet({})
      BY FS_EmptySet, FS_AddElement
    <2>2. \A b \in {1} : mem[b].size \in Nat
      BY <1>0, <1>3
    <2>3. SumOfSizes(mem, {1}) = mem[1].size + SumOfSizes(mem, {1} \ {1})
      BY <2>1, <2>2, SumFacts
    <2>4. {1} \ {1} = {}
      OBVIOUS
    <2>5. SumOfSizes(mem, {}) = 0
      BY <2>1, SumFacts
    <2> QED BY <1>0, <1>3, <1>9, <2>3, <2>4, <2>5
  <1> HIDE DEF o
  <1>13. SoundNow(s, {1}, 1, o)
    BY <1>2, <1>5, <1>6, <1>7, <1>8, <1>10, <1>11, <1>12 DEF SoundNow, Sound
  <1> QED BY <1>13 DEF Inv

----------------------------------------------------------------------------
(* The steps of a pool, by what they write. *)

LEMMA CutStep ==
  ASSUME NEW s, OneSize(s), NEW starts, NEW n, NEW o, NEW m, NEW first, NEW f, NEW l, NEW k,
         Sound(s, starts, n, o, m, first, f, l, k),
         NEW b \in Listed(n, o), Divisible(s, m, b), NEW rest, rest = RestAt(s, b),
         NEW u, IsCut(u, m, b, rest, s, SizeBehind(s, m, b))
  PROVE  \E starts2, n2, o2 :
           Sound(s, starts2, n2, o2, u, IF m[b].pPrev = NULL THEN rest ELSE first,
                 f - (s + HeadSize), l \cup {Block(s, b)}, k + 1)
  <1>1. /\ u \in Mem /\ TakesPlace(u, m, b, rest) /\ Keeps(u, m, {b, rest})
        /\ u[b].size = s /\ u[b].used /\ u[rest].size = SizeBehind(s, m, b) /\ ~u[rest].used
    BY DEF IsCut
  <1> QED BY <1>1, CutSound

LEMMA WholeStep ==
  ASSUME NEW s, OneSize(s), NEW starts, NEW n, NEW o, NEW m, NEW first, NEW f, NEW l, NEW k,
         Sound(s, starts, n, o, m, first, f, l, k),
         NEW b \in Listed(n, o), m[b].size = s,
         NEW u, IsTaken(u, m, b)
  PROVE  \E starts2, n2, o2 :
           Sound(s, starts2, n2, o2, u, IF m[b].pPrev = NULL THEN m[b].pNext ELSE first,
                 f - s, l \cup {Block(s, b)}, k + 1)
  <1>1. u \in Mem /\ Leaves(u, m, b) /\ Keeps(u, m, {b}) /\ u[b].size = s /\ u[b].used
    BY DEF IsTaken
  <1> QED BY <1>1, WholeSound

LEMMA MergeStep ==
  ASSUME NEW s, OneSize(s), NEW starts, NEW n, NEW o, NEW m, NEW first, NEW f, NEW l, NEW k,
         Sound(s, starts, n, o, m, first, f, l, k),
         NEW b \in starts, m[b].used, NEW next, next = End(m, b), ~m[next].used,
         NEW u, IsMerged(u, m, b, next, JoinedSize(m, b, next))
  PROVE  \E starts2, n2, o2 :
           Sound(s, starts2, n2, o2, u, IF m[next].pPrev = NULL THEN b ELSE first,
                 f + m[b].size + HeadSize, l \ {Block(s, b)}, k - 1)
  <1>1. /\ u \in Mem /\ TakesPlace(u, m, next, b) /\ Keeps(u, m, {next, b})
        /\ u[b].size = m[b].size + m[next].size + HeadSize /\ ~u[b].used
    BY DEF IsMerged, JoinedSize
  <1> QED BY <1>1, MergeSound

LEMMA FirstStep ==
  ASSUME NEW s, OneSize(s), NEW starts, NEW n, NEW o, NEW m, NEW first, NEW f, NEW l, NEW k,
         Sound(s, starts, n, o, m, first, f, l, k),
         NEW b \in starts, m[b].used,
         NEW u, IsFirst(u, m, b, first)
  PROVE  \E starts2, n2, o2 :
           Sound(s, starts2, n2, o2, u, b, f + m[b].size, l \ {Block(s, b)}, k - 1)
  <1>1. u \in Mem /\ Heads(u, m, first, b) /\ Keeps(u, m, {b}) /\ u[b].size = m[b].size /\ ~u[b].used
    BY DEF IsFirst
  <1> QED BY <1>1, FirstSound

LEMMA SoundNowFacts ==
  ASSUME NEW s, OneSize(s), NEW starts, NEW n, NEW o, SoundNow(s, starts, n, o)
  PROVE  /\ Sound(s, starts, n, o, mem, pfree, freeSize, live, out)
         /\ mem \in Mem /\ Tiled(s, mem, starts) /\ Linked(mem, pfree, n, o)
         /\ Listed(n, o) = Free(mem, starts) /\ starts \subseteq Addr
         /\ FreeList = Listed(n, o)
         /\ \A b \in Listed(n, o) : /\ mem[b].pNext \in Listed(n, o) \cup {NULL}
                                    /\ mem[b].pPrev \in Listed(n, o) \cup {NULL}
         /\ pfree \in Listed(n, o) \cup {NULL}
  <1>1. /\ Sound(s, starts, n, o, mem, pfree, freeSize, live, out)
        /\ mem \in Mem /\ Tiled(s, mem, starts) /\ Linked(mem, pfree, n, o)
        /\ Listed(n, o) = Free(mem, starts) /\ starts \subseteq Addr
    BY DEF SoundNow, Sound, Tiled
  <1>2. FreeList = Listed(n, o)
    BY FreeListIs
  <1>3. \A k \in Int : Entry(n, o, k) \in Listed(n, o) \cup {NULL}
    BY <1>1, EntryFacts
  <1>4. pfree \in Listed(n, o) \cup {NULL}
    BY <1>1, <1>3 DEF Linked
  <1>5. ASSUME NEW b \in Listed(n, o)
        PROVE  /\ mem[b].pNext \in Listed(n, o) \cup {NULL}
               /\ mem[b].pPrev \in Listed(n, o) \cup {NULL}
    <2>1. PICK i \in 1..n : b = o[i]
      BY DEF Listed
    <2>2. i + 1 \in Int /\ i - 1 \in Int
      BY <1>1 DEF Linked
    <2> QED BY <1>1, <1>3, <2>1, <2>2 DEF Linked
  <1> QED BY <1>1, <1>2, <1>4, <1>5

LEMMA GetFrontSound ==
  ASSUME NEW s, OneSize(s), NEW starts, NEW n, NEW o, SoundNow(s, starts, n, o),
         NEW b \in Listed(n, o), mem[b].size >= s, GetFront(b, s),
         live' = live \cup {Block(s, b)}, out' = out + 1
  PROVE  Inv(s)'
  <1>1. /\ Sound(s, starts, n, o, mem, pfree, freeSize, live, out)
        /\ mem \in Mem /\ Tiled(s, mem, starts)
        /\ Listed(n, o) = Free(mem, starts) /\ starts \subseteq Addr
    BY SoundNowFacts
  <1>2. b \in starts /\ b \in Addr
    BY <1>1 DEF Free
  <1>3. mem[b].pNext \in Listed(n, o) \cup {NULL} /\ mem[b].pPrev \in Listed(n, o) \cup {NULL}
    BY SoundNowFacts
  <1>4. Divisible(s, mem, b)
    BY DEF GetFront, Divisible
  <1>5. PICK rest : rest = RestAt(s, b)
    OBVIOUS
  <1>6. PICK left : left = SizeBehind(s, mem, b)
    OBVIOUS
  <1>7. rest \in Addr /\ rest \notin starts /\ left \in 0..Total /\ rest # b
    <2>1. mem[b].size > HeadSize + s /\ rest = b + Width(s) /\ left = mem[b].size - s - HeadSize
      BY <1>4, <1>5, <1>6 DEF Divisible, RestAt, SizeBehind
    <2> QED BY <1>1, <1>2, <2>1, FreeFacts
  <1>8. rest # mem[b].pNext /\ rest # mem[b].pPrev
    BY <1>1, <1>3, <1>7 DEF Free, Addr, NULL
  <1>9. s \in 0..Total
    BY <1>1, <1>2, MemFacts, Widths
  <1>10. b + HeadSize + s = rest
    BY <1>2, <1>5, Widths DEF RestAt, Addr
  <1>11. PICK c : c = [mem EXCEPT ![b] = [mem[b] EXCEPT !.used = TRUE, !.size = s],
                                  ![rest] = Header(mem[b].pNext, mem[b].pPrev, left, FALSE)]
    OBVIOUS
  <1>12. PICK u : u = mem'
    OBVIOUS
  <1>13. /\ u = SetPrev(SetNext(c, mem[b].pPrev, rest), mem[b].pNext, rest)
         /\ pfree' = IF mem[b].pPrev = NULL THEN rest ELSE pfree
         /\ freeSize' = freeSize - (s + HeadSize)
    BY <1>6, <1>10, <1>11, <1>12 DEF GetFront, SizeBehind
  <1>14. RewroteCut(c, mem, b, rest, s, left)
    BY <1>1, <1>2, <1>7, <1>9, <1>11, CutHeads
  <1>15. IsCut(u, mem, b, rest, s, left)
    BY <1>1, <1>2, <1>7, <1>8, <1>13, <1>14, CutMemory
  <1>16. \E starts2, n2, o2 :
           Sound(s, starts2, n2, o2, u, IF mem[b].pPrev = NULL THEN rest ELSE pfree,
                 freeSize - (s + HeadSize), live \cup {Block(s, b)}, out + 1)
    BY <1>1, <1>4, <1>5, <1>6, <1>15, CutStep
  <1>17. \E starts2, n2, o2 : Sound(s, starts2, n2, o2, mem', pfree', freeSize', live', out')
    BY <1>12, <1>13, <1>16
  <1> QED BY <1>17 DEF Inv, SoundNow

LEMMA GetWholeSound ==
  ASSUME NEW s, OneSize(s), NEW starts, NEW n, NEW o, SoundNow(s, starts, n, o),
         NEW b \in Listed(n, o), mem[b].size >= s, GetWhole(b, s),
         live' = live \cup {Block(s, b)}, out' = out + 1
  PROVE  Inv(s)'
  <1>1. /\ Sound(s, starts, n, o, mem, pfree, freeSize, live, out)
        /\ mem \in Mem /\ Tiled(s, mem, starts) /\ Linked(mem, pfree, n, o)
        /\ Listed(n, o) = Free(mem, starts) /\ starts \subseteq Addr
    BY SoundNowFacts
  <1>2. b \in starts /\ b \in Addr
    BY <1>1 DEF Free
  <1>3. mem[b].size = s
    <2>1. mem[b].size <= HeadSize + s
      BY DEF GetWhole
    <2> QED BY <1>1, <1>2, <2>1, FreeFacts
  <1>4. mem[b].pPrev = NULL => pfree = b
    <2>1. PICK i \in 1..n : b = o[i]
      BY DEF Listed
    <2>2. mem[b].pPrev = NULL => i = 1
      BY <1>1, <2>1, EntryFacts
    <2>3. i = 1 => pfree = b
      BY <1>1, <2>1 DEF Linked, Entry
    <2> QED BY <2>2, <2>3
  <1>5. PICK c : c = [mem EXCEPT ![b].used = TRUE]
    OBVIOUS
  <1>6. RewroteTaken(c, mem, b)
    BY <1>1, <1>2, <1>5, WholeHead
  <1>7. mem[b].pPrev = NULL => c[pfree].pNext = mem[b].pNext
    BY <1>4, <1>6 DEF Rewrote, RewroteTaken
  <1>8. PICK u : u = mem'
    OBVIOUS
  <1>9. /\ u = SetPrev(IF mem[b].pPrev = NULL THEN SetPrev(c, mem[b].pNext, NULL)
                       ELSE SetNext(c, mem[b].pPrev, mem[b].pNext),
                       mem[b].pNext, mem[b].pPrev)
        /\ pfree' = IF mem[b].pPrev = NULL THEN mem[b].pNext ELSE pfree
        /\ freeSize' = freeSize - s
    BY <1>3, <1>5, <1>7, <1>8 DEF GetWhole
  <1>10. IsTaken(u, mem, b)
    BY <1>1, <1>2, <1>6, <1>9, WholeMemory
  <1>11. \E starts2, n2, o2 :
           Sound(s, starts2, n2, o2, u, IF mem[b].pPrev = NULL THEN mem[b].pNext ELSE pfree,
                 freeSize - s, live \cup {Block(s, b)}, out + 1)
    BY <1>1, <1>3, <1>10, WholeStep
  <1>12. \E starts2, n2, o2 : Sound(s, starts2, n2, o2, mem', pfree', freeSize', live', out')
    BY <1>8, <1>9, <1>11
  <1> QED BY <1>12 DEF Inv, SoundNow

LEMMA PutMergeSound ==
  ASSUME NEW s, OneSize(s), NEW starts, NEW n, NEW o, SoundNow(s, starts, n, o),
         NEW b \in starts, mem[b].used, PutMerge(b),
         live' = live \ {Block(s, b)}, out' = out - 1
  PROVE  Inv(s)'
  <1>1. /\ Sound(s, starts, n, o, mem, pfree, freeSize, live, out)
        /\ mem \in Mem /\ Tiled(s, mem, starts)
        /\ Listed(n, o) = Free(mem, starts) /\ starts \subseteq Addr
    BY SoundNowFacts
  <1>2. PICK next : next = End(mem, b)
    OBVIOUS
  <1>3. Behind(b) = next
    BY <1>2 DEF Behind, End
  <1>4. ~mem[next].used
    BY <1>3 DEF PutMerge
  <1>5. next \in starts /\ next \in Addr /\ b \in Addr /\ next # b
    <2>1. next \in starts /\ b < next
      BY <1>1, <1>2, UsedFacts
    <2>2. b \in Addr /\ next \in Addr
      BY <1>1, <2>1
    <2>3. b \in Nat
      BY <2>2 DEF Addr
    <2> QED BY <2>1, <2>2, <2>3
  <1>6. next \in Listed(n, o) /\ b \notin Listed(n, o)
    BY <1>1, <1>4, <1>5 DEF Free
  <1>7. mem[next].pNext \in Listed(n, o) \cup {NULL} /\ mem[next].pPrev \in Listed(n, o) \cup {NULL}
    BY <1>6, SoundNowFacts
  <1>8. b # mem[next].pNext /\ b # mem[next].pPrev
    BY <1>5, <1>6, <1>7 DEF Addr, NULL
  <1>9. mem[next].pNext \in Addr \cup {NULL} /\ mem[next].pPrev \in Addr \cup {NULL}
    BY <1>1, <1>7 DEF Free
  <1>10. mem[b].size + mem[next].size + HeadSize \in 0..Total
    <2>1. End(mem, next) \in starts \cup {Total + 1}
      BY <1>1, <1>5 DEF Tiled
    <2>2. End(mem, next) <= Total + 1
      <3>1. End(mem, next) \in Addr \/ End(mem, next) = Total + 1
        BY <1>1, <2>1
      <3> QED BY <3>1, PoolAssumption DEF Addr
    <2>3. /\ mem[b].size \in Nat /\ mem[next].size \in Nat /\ HeadSize \in Nat /\ Total \in Nat
          /\ b \in Nat /\ b >= 1
      BY <1>1, <1>5, MemFacts, PoolAssumption
    <2>4. b + HeadSize + mem[b].size + HeadSize + mem[next].size <= Total + 1
      BY <1>2, <2>2 DEF End
    <2> DEFINE x == mem[b].size
               y == mem[next].size
    <2>5. x \in Nat /\ y \in Nat /\ b + HeadSize + x + HeadSize + y <= Total + 1
      BY <2>3, <2>4
    <2> HIDE DEF x, y
    <2>6. x + y + HeadSize \in 0..Total
      BY <2>3, <2>5
    <2> QED BY <2>6 DEF x, y
  <1>11. PICK c : c = [Freed(b) EXCEPT ![b].pNext = mem[next].pNext, ![b].pPrev = mem[next].pPrev,
                                       ![b].size = @ + mem[next].size + HeadSize]
    OBVIOUS
  <1>12. RewroteFree(c, mem, b, mem[next].pNext, mem[next].pPrev, mem[b].size + mem[next].size + HeadSize)
    BY <1>1, <1>5, <1>9, <1>10, <1>11, MergeHead DEF Freed
  <1>13. PICK u : u = mem'
    OBVIOUS
  <1>14. /\ u = SetPrev(SetNext(c, mem[next].pPrev, b), mem[next].pNext, b)
         /\ pfree' = IF mem[next].pPrev = NULL THEN b ELSE pfree
         /\ freeSize' = freeSize + mem[b].size + HeadSize
    BY <1>3, <1>11, <1>13 DEF PutMerge
  <1>15. IsMerged(u, mem, b, next, JoinedSize(mem, b, next))
    BY <1>1, <1>5, <1>8, <1>12, <1>14, MergeMemory DEF JoinedSize
  <1>16. \E starts2, n2, o2 :
           Sound(s, starts2, n2, o2, u, IF mem[next].pPrev = NULL THEN b ELSE pfree,
                 freeSize + mem[b].size + HeadSize, live \ {Block(s, b)}, out - 1)
    BY <1>1, <1>2, <1>4, <1>15, MergeStep
  <1>17. \E starts2, n2, o2 : Sound(s, starts2, n2, o2, mem', pfree', freeSize', live', out')
    BY <1>13, <1>14, <1>16
  <1> QED BY <1>17 DEF Inv, SoundNow

LEMMA PutFirstSound ==
  ASSUME NEW s, OneSize(s), NEW starts, NEW n, NEW o, SoundNow(s, starts, n, o),
         NEW b \in starts, mem[b].used, PutFirst(b),
         live' = live \ {Block(s, b)}, out' = out - 1
  PROVE  Inv(s)'
  <1>1. /\ Sound(s, starts, n, o, mem, pfree, freeSize, live, out)
        /\ mem \in Mem /\ Listed(n, o) = Free(mem, starts) /\ starts \subseteq Addr
        /\ pfree \in Listed(n, o) \cup {NULL}
    BY SoundNowFacts
  <1>2. b \in Addr /\ b # NULL /\ b \notin Listed(n, o)
    BY <1>1 DEF Free, Addr, NULL
  <1>3. pfree \in Addr \cup {NULL} /\ pfree # b
    BY <1>1, <1>2 DEF Free
  <1>4. PICK c : c = [Freed(b) EXCEPT ![b].pNext = pfree, ![b].pPrev = NULL]
    OBVIOUS
  <1>5. RewroteFree(c, mem, b, pfree, NULL, mem[b].size)
    BY <1>1, <1>2, <1>3, <1>4, FirstHead DEF Freed
  <1>6. PICK u : u = mem'
    OBVIOUS
  <1>7. u = SetPrev(c, pfree, b) /\ pfree' = b /\ freeSize' = freeSize + mem[b].size
    BY <1>4, <1>6 DEF PutFirst
  <1>8. IsFirst(u, mem, b, pfree)
    BY <1>1, <1>2, <1>3, <1>5, <1>7, FirstMemory
  <1>9. \E starts2, n2, o2 :
          Sound(s, starts2, n2, o2, u, b, freeSize + mem[b].size, live \ {Block(s, b)}, out - 1)
    BY <1>1, <1>8, FirstStep
  <1>10. \E starts2, n2, o2 : Sound(s, starts2, n2, o2, mem', pfree', freeSize', live', out')
    BY <1>6, <1>7, <1>9
  <1> QED BY <1>10 DEF Inv, SoundNow

(* The block that is given back is one in use, and never the last. *)
LEMMA PutFacts ==
  ASSUME NEW s, OneSize(s), NEW starts, NEW n, NEW o, SoundNow(s, starts, n, o),
         NEW block \in live
  PROVE  /\ block.at \in starts /\ mem[block.at].used /\ block = Block(s, block.at)
         /\ ~PutLast(block.at)
  <1>1. /\ mem \in Mem /\ Tiled(s, mem, starts) /\ live = BlocksAt(s, Taken(mem, starts))
    BY DEF SoundNow, Sound
  <1>2. PICK b \in Taken(mem, starts) : block = Block(s, b)
    BY <1>1 DEF BlocksAt
  <1>3. block.at = b
    BY <1>2 DEF Block
  <1>4. b \in starts /\ mem[b].used
    BY DEF Taken
  <1>5. ~PutLast(b)
    <2>1. End(mem, b) <= Total /\ End(mem, b) \in Addr
      BY <1>1, <1>4, UsedFacts DEF Tiled
    <2>2. Behind(b) = End(mem, b)
      BY DEF Behind, End
    <2>3. ~(Behind(b) > Total)
      BY <2>1, <2>2, PoolAssumption DEF Addr
    <2> QED BY <2>3 DEF PutLast
  <1> QED BY <1>2, <1>3, <1>4, <1>5

LEMMA NextSound ==
  ASSUME NEW s, OneSize(s), Inv(s), [Next]_vars
  PROVE  Inv(s)'
  <1>1. PICK starts, n, o : SoundNow(s, starts, n, o)
    BY DEF Inv
  <1>2. ASSUME NEW size \in Sizes, Get(size) PROVE Inv(s)'
    <2>1. size = s
      BY DEF OneSize
    <2>2. PICK b \in FreeList : /\ FirstFit(b, size)
                                /\ GetFront(b, size) \/ GetWhole(b, size)
                                /\ live' = live \cup {[at |-> b, size |-> size]}
                                /\ out' = out + 1
      BY <1>2 DEF Get
    <2>3. mem[b].size >= s /\ b \in Listed(n, o)
      BY <1>1, <2>1, <2>2, SoundNowFacts DEF FirstFit, Fits
    <2>4. live' = live \cup {Block(s, b)}
      BY <2>1, <2>2 DEF Block
    <2>5. CASE GetFront(b, s)
      BY <1>1, <2>2, <2>3, <2>4, <2>5, GetFrontSound
    <2>6. CASE GetWhole(b, s)
      BY <1>1, <2>2, <2>3, <2>4, <2>6, GetWholeSound
    <2> QED BY <2>1, <2>2, <2>5, <2>6
  <1>3. ASSUME NEW block \in live, Put(block) PROVE Inv(s)'
    <2>1. /\ block.at \in starts /\ mem[block.at].used /\ block = Block(s, block.at)
          /\ ~PutLast(block.at)
      BY <1>1, PutFacts
    <2>2. live' = live \ {Block(s, block.at)} /\ out' = out - 1
      BY <1>3, <2>1 DEF Put
    <2>3. PutMerge(block.at) \/ PutFirst(block.at)
      BY <1>3, <2>1 DEF Put
    <2>4. CASE PutMerge(block.at)
      BY <1>1, <2>1, <2>2, <2>4, PutMergeSound
    <2>5. CASE PutFirst(block.at)
      BY <1>1, <2>1, <2>2, <2>5, PutFirstSound
    <2> QED BY <2>3, <2>4, <2>5
  <1>4. CASE UNCHANGED vars
    BY <1>1, <1>4 DEF vars, Inv, SoundNow
  <1> QED BY <1>2, <1>3, <1>4 DEF Next

----------------------------------------------------------------------------
(* What follows from the invariant.                                         *)

LEMMA TypeFollows ==
  ASSUME NEW s, OneSize(s), Inv(s)
  PROVE  TypeOK
  <1>1. PICK starts, n, o : SoundNow(s, starts, n, o)
    BY DEF Inv
  <1>2. /\ Sound(s, starts, n, o, mem, pfree, freeSize, live, out)
        /\ mem \in Mem /\ Listed(n, o) = Free(mem, starts) /\ starts \subseteq Addr
        /\ pfree \in Listed(n, o) \cup {NULL}
    BY <1>1, SoundNowFacts
  <1>3. pfree \in Addr \cup {NULL}
    BY <1>2 DEF Free
  <1>4. freeSize \in 0..Total /\ out \in 0..Total
    <2>1. /\ n \in Nat /\ out \in Nat /\ freeSize \in Nat /\ freeSize <= Total
          /\ Width(s) * out \in Nat /\ HeadSize * n \in Nat
      BY <1>2, SoundFacts
    <2>2. freeSize + Width(s) * out + HeadSize * n = Total
      BY <1>2 DEF Sound
    <2>3. Width(s) \in Nat \ {0} /\ Total \in Nat
      BY Widths
    <2> DEFINE w == Width(s)
    <2> HIDE DEF w
    <2>4. w \in Nat \ {0}
      BY <2>3 DEF w
    <2>5. w * out >= out
      BY <2>1, <2>4
    <2> DEFINE x == w * out
               y == HeadSize * n
    <2>6. x \in Nat /\ y \in Nat /\ x >= out /\ freeSize + x + y = Total
      BY <2>1, <2>2, <2>5 DEF w
    <2> HIDE DEF x, y
    <2> QED BY <2>1, <2>3, <2>6
  <1>5. live \subseteq [at : Addr, size : Sizes]
    <2>1. s \in Sizes
      BY DEF OneSize
    <2> QED BY <1>2, <2>1 DEF Sound, BlocksAt, Block, Taken
  <1> QED BY <1>2, <1>3, <1>4, <1>5 DEF TypeOK, Mem

LEMMA FreeSizeFollows ==
  ASSUME NEW s, OneSize(s), Inv(s)
  PROVE  FreeSizeExact
  <1>1. PICK starts, n, o : SoundNow(s, starts, n, o)
    BY DEF Inv
  <1>2. freeSize = SumOfSizes(mem, FreeList)
    BY <1>1, SoundNowFacts DEF Sound
  <1> QED BY <1>2 DEF FreeSizeExact, SumOfSizes

(* The row follows the sizes. *)
LEMMA RowIs ==
  ASSUME mem \in Mem
  PROVE  /\ \A k \in 0..Total : Row[k] = IF k = 0 THEN 1 ELSE Neighbour(Row[k - 1])
         /\ \A k \in 0..Total : Row[k] \in Nat
  <1> DEFINE Body(g) == [k \in 0..Total |-> IF k = 0 THEN 1 ELSE Neighbour(g[k - 1])]
             it == CHOOSE g : g = Body(g)
             f == [b \in Nat |-> Neighbour(b)]
  <1>0. Total \in Nat
    BY PoolAssumption
  <1>1. f \in [Nat -> Nat]
    <2> SUFFICES ASSUME NEW b \in Nat PROVE Neighbour(b) \in Nat
      OBVIOUS
    <2>1. CASE b \in Addr
      <3>1. mem[b].size \in Nat /\ HeadSize \in Nat
        BY <2>1, MemFacts, PoolAssumption
      <3> QED BY <2>1, <3>1 DEF Neighbour, Behind
    <2>2. CASE b \notin Addr
      BY <2>2 DEF Neighbour
    <2> QED BY <2>1, <2>2
  <1>2. \A b \in Nat : f[b] = Neighbour(b)
    OBVIOUS
  <1> HIDE DEF f
  <1>3. PICK g \in [0..Total -> Nat] : \A k \in 0..Total : g[k] = IF k = 0 THEN 1 ELSE f[g[k - 1]]
    <2>1. 1 \in Nat
      OBVIOUS
    <2>2. PICK h \in [0..Total -> Nat] : Iteration(h, Total, 1, f)
      BY <1>0, <1>1, <2>1, Iterates
    <2> QED BY <2>2 DEF Iteration
  <1>4. \A k \in 0..Total : g[k] = IF k = 0 THEN 1 ELSE Neighbour(g[k - 1])
    <2> SUFFICES ASSUME NEW k \in 0..Total PROVE g[k] = IF k = 0 THEN 1 ELSE Neighbour(g[k - 1])
      OBVIOUS
    <2>1. k # 0 => k - 1 \in 0..Total
      BY <1>0
    <2> QED BY <1>2, <1>3, <2>1
  <1>5. g = Body(g)
    BY <1>3, <1>4
  <1>6. Row = it
    BY DEF Row
  <1>7. it = Body(it)
    <2> HIDE DEF Body
    <2> QED BY <1>5
  <1> HIDE DEF it
  <1>8. \A k \in 0..Total : it[k] = Body(it)[k]
    <2> HIDE DEF Body
    <2> QED BY <1>7
  <1>9. \A k \in 0..Total : it[k] = IF k = 0 THEN 1 ELSE Neighbour(it[k - 1])
    BY <1>8
  <1> DEFINE T == {k \in Nat : k <= Total => it[k] = g[k]}
  <1>10. 0 \in T
    <2>1. 0 \in 0..Total
      BY <1>0
    <2> QED BY <1>4, <1>9, <2>1
  <1>11. ASSUME NEW k \in Nat, k \in T PROVE k + 1 \in T
    <2> SUFFICES ASSUME k + 1 <= Total PROVE it[k + 1] = g[k + 1]
      OBVIOUS
    <2>1. k + 1 \in 0..Total /\ k + 1 # 0 /\ k + 1 - 1 = k /\ k <= Total
      BY <1>0
    <2>2. it[k] = g[k]
      BY <1>11, <2>1
    <2> QED BY <1>4, <1>9, <2>1, <2>2
  <1>12. Nat \subseteq T
    <2> HIDE DEF T
    <2> QED BY <1>10, <1>11, Induct
  <1>13. \A k \in 0..Total : it[k] \in Nat
    BY <1>0, <1>3, <1>12
  <1> QED BY <1>6, <1>9, <1>13

(* It passes every block on its way to the end of the pool. *)
LEMMA BlocksAre ==
  ASSUME NEW s, OneSize(s), NEW starts, mem \in Mem, Tiled(s, mem, starts)
  PROVE  Row[Total] = Total + 1 /\ Blocks = starts
  <1>0. /\ Total \in Nat /\ HeadSize \in Nat \ {0}
        /\ starts \subseteq Addr /\ 1 \in starts
    BY PoolAssumption DEF Tiled
  <1>1. /\ \A k \in 0..Total : Row[k] = IF k = 0 THEN 1 ELSE Neighbour(Row[k - 1])
        /\ \A k \in 0..Total : Row[k] \in Nat
    BY RowIs
  <1>2. \A b \in starts : /\ Neighbour(b) = End(mem, b) /\ b < End(mem, b) /\ b \in Nat
                          /\ End(mem, b) \in starts \cup {Total + 1} /\ End(mem, b) \in Nat
    <2> SUFFICES ASSUME NEW b \in starts
                 PROVE  /\ Neighbour(b) = End(mem, b) /\ b < End(mem, b) /\ b \in Nat
                        /\ End(mem, b) \in starts \cup {Total + 1} /\ End(mem, b) \in Nat
      OBVIOUS
    <2>1. b \in Addr /\ mem[b].size \in Nat /\ b \in Nat
      BY <1>0, MemFacts
    <2>2. Neighbour(b) = End(mem, b)
      BY <2>1 DEF Neighbour, Behind, End
    <2>3. b < End(mem, b) /\ End(mem, b) \in Nat
      BY <1>0, <2>1 DEF End
    <2> QED BY <2>1, <2>2, <2>3 DEF Tiled
  <1>3. Neighbour(Total + 1) = Total + 1
    BY <1>0 DEF Neighbour, Addr
  <1> DEFINE T == {k \in Nat : k <= Total => Row[k] \in starts \cup {Total + 1} /\ Row[k] >= k + 1}
  <1>4. 0 \in T
    <2>1. Row[0] = 1
      BY <1>0, <1>1
    <2> QED BY <1>0, <2>1
  <1>5. ASSUME NEW k \in Nat, k \in T PROVE k + 1 \in T
    <2> SUFFICES ASSUME k + 1 <= Total
                 PROVE  Row[k + 1] \in starts \cup {Total + 1} /\ Row[k + 1] >= k + 1 + 1
      OBVIOUS
    <2>1. k + 1 \in 0..Total /\ k \in 0..Total /\ k + 1 # 0 /\ k + 1 - 1 = k
      BY <1>0
    <2>2. Row[k + 1] = Neighbour(Row[k]) /\ Row[k] \in Nat
      BY <1>1, <2>1
    <2>3. Row[k] \in starts \cup {Total + 1} /\ Row[k] >= k + 1
      BY <1>5, <2>1
    <2>4. CASE Row[k] \in starts
      <3>1. /\ Row[k + 1] = End(mem, Row[k]) /\ Row[k] < End(mem, Row[k])
            /\ End(mem, Row[k]) \in starts \cup {Total + 1} /\ End(mem, Row[k]) \in Nat
        BY <1>2, <2>2, <2>4
      <3> DEFINE x == Row[k]
                 y == End(mem, Row[k])
      <3>2. x \in Nat /\ y \in Nat /\ x < y /\ x >= k + 1
        BY <2>2, <2>3, <3>1
      <3> HIDE DEF x, y
      <3>3. y >= k + 1 + 1
        BY <3>2
      <3> QED BY <3>1, <3>3 DEF y
    <2>5. CASE Row[k] = Total + 1
      BY <1>0, <1>3, <2>2, <2>5
    <2> QED BY <2>3, <2>4, <2>5
  <1>6. \A k \in 0..Total : Row[k] \in starts \cup {Total + 1} /\ Row[k] >= k + 1
    <2>1. Nat \subseteq T
      <3> HIDE DEF T
      <3> QED BY <1>4, <1>5, Induct
    <2> QED BY <1>0, <2>1
  <1>7. Row[Total] = Total + 1
    <2>1. Total \in 0..Total
      BY <1>0
    <2>2. Row[Total] \in starts \cup {Total + 1} /\ Row[Total] >= Total + 1
      BY <1>6, <2>1
    <2>3. \A b \in starts : b \in Nat /\ b <= Total
      BY <1>0 DEF Addr
    <2> QED BY <1>0, <2>2, <2>3
  <1>8. Blocks \subseteq starts
    BY <1>0, <1>6 DEF Blocks, Addr
  <1>9. ASSUME NEW b \in starts PROVE b \in Blocks
    <2> DEFINE K == {k \in Nat : k <= Total /\ Row[k] <= b}
    <2>1. b \in Nat /\ b >= 1 /\ b <= Total /\ b \in Addr
      BY <1>0 DEF Addr
    <2>2. 0 \in K
      <3>1. Row[0] = 1
        BY <1>0, <1>1
      <3> QED BY <1>0, <2>1, <3>1
    <2>3. PICK k \in K : \A j \in K : j <= k
      <3>1. K \in SUBSET Nat /\ \A j \in K : j <= Total
        OBVIOUS
      <3> HIDE DEF K
      <3> QED BY <1>0, <2>2, <3>1, Largest
    <2>4. k \in Nat /\ k <= Total /\ Row[k] <= b /\ k \in 0..Total
      BY <1>0
    <2>5. Row[k] \in starts /\ Row[k] \in Nat
      BY <1>0, <1>1, <1>6, <2>1, <2>4
    <2>6. k < Total
      BY <1>0, <1>7, <2>1, <2>4
    <2>7. k + 1 \in 0..Total /\ k + 1 # 0 /\ k + 1 - 1 = k /\ k + 1 \in Nat /\ ~(k + 1 <= k)
      BY <1>0, <2>4, <2>6
    <2>8. k + 1 \notin K
      BY <2>3, <2>7
    <2>9. ~(Row[k + 1] <= b) /\ Row[k + 1] = End(mem, Row[k])
      BY <1>0, <1>1, <1>2, <2>5, <2>7, <2>8
    <2>10. Row[k] < b => End(mem, Row[k]) <= b
      BY <2>5 DEF Tiled
    <2>11. Row[k] = b
      BY <2>1, <2>4, <2>5, <2>9, <2>10
    <2> QED BY <2>1, <2>4, <2>11 DEF Blocks
  <1> QED BY <1>7, <1>8, <1>9

LEMMA RowFollows ==
  ASSUME NEW s, OneSize(s), Inv(s)
  PROVE  RowIsSound
  <1>1. PICK starts, n, o : SoundNow(s, starts, n, o)
    BY DEF Inv
  <1>2. /\ Sound(s, starts, n, o, mem, pfree, freeSize, live, out)
        /\ mem \in Mem /\ Tiled(s, mem, starts) /\ Linked(mem, pfree, n, o)
        /\ Listed(n, o) = Free(mem, starts) /\ FreeList = Listed(n, o)
    BY <1>1, SoundNowFacts
  <1>3. Row[Total] = Total + 1 /\ Blocks = starts
    BY <1>2, BlocksAre
  <1>4. {b \in Blocks : mem[b].used} = {block.at : block \in live}
    <2>1. live = {Block(s, b) : b \in {c \in starts : mem[c].used}}
      BY <1>2 DEF Sound, BlocksAt, Taken
    <2>2. \A b : Block(s, b).at = b
      BY DEF Block
    <2> HIDE DEF Block
    <2> QED BY <1>3, <2>1, <2>2
  <1>5. {b \in Blocks : ~mem[b].used} = FreeList
    BY <1>2, <1>3 DEF Free
  <1>6. pfree # NULL => mem[pfree].pPrev = NULL
    <2> SUFFICES ASSUME pfree # NULL PROVE mem[pfree].pPrev = NULL
      OBVIOUS
    <2>1. 1 \in 1..n /\ pfree = o[1]
      BY <1>2 DEF Linked, Entry
    <2> QED BY <1>2, <2>1, EntryFacts
  <1>7. ASSUME NEW b \in FreeList, mem[b].pNext # NULL PROVE mem[mem[b].pNext].pPrev = b
    <2>1. PICK i \in 1..n : b = o[i]
      BY <1>2 DEF Listed
    <2>2. i + 1 \in 1..n /\ mem[b].pNext = o[i + 1]
      BY <1>2, <1>7, <2>1 DEF Linked, Entry
    <2>3. mem[o[i + 1]].pPrev = Entry(n, o, i + 1 - 1) /\ i + 1 - 1 = i
      BY <1>2, <2>2 DEF Linked
    <2>4. Entry(n, o, i) = b
      BY <2>1 DEF Entry
    <2> QED BY <2>2, <2>3, <2>4
  <1> QED BY <1>3, <1>4, <1>5, <1>6, <1>7 DEF RowIsSound

(* The places at which a block in use begins. *)
Places(s) == 0 .. (Whole(s) - 1)
PlacesTaken(s, m, starts) == {i \in Places(s) : At(s, i) \in Taken(m, starts)}

LEMMA TakenPlace ==
  ASSUME NEW s, OneSize(s), NEW m \in Mem, NEW starts, Tiled(s, m, starts),
         NEW b \in Taken(m, starts)
  PROVE  \E i \in PlacesTaken(s, m, starts) : b = At(s, i)
  <1>1. b \in starts /\ m[b].used
    BY DEF Taken
  <1>2. PICK i \in Nat : b = At(s, i)
    BY <1>1 DEF Tiled, Slot
  <1>3. b + Width(s) <= Total
    BY <1>1, UsedFacts
  <1>4. b \in Nat /\ Width(s) \in Nat /\ Total \in Nat /\ Whole(s) \in Nat
    BY <1>2, AtFacts, Widths, WholeFacts
  <1>5. i < Whole(s)
    <2>1. ~(b + Width(s) > Total + 1)
      BY <1>3, <1>4
    <2> QED BY <1>2, <2>1, WholeFacts
  <1>6. i \in Places(s)
    BY <1>4, <1>5 DEF Places
  <1> QED BY <1>2, <1>6 DEF PlacesTaken

(* Blocks are in use at no more places than there are, and at fewer as long  *)
(* as a place is left.                                                       *)
LEMMA HowMany ==
  ASSUME NEW s, OneSize(s), NEW starts, NEW n, NEW o, NEW m, NEW first, NEW f, NEW l, NEW k,
         Sound(s, starts, n, o, m, first, f, l, k)
  PROVE  k < Whole(s) <=> \E i \in Places(s) : At(s, i) \notin Taken(m, starts)
  <1>1. /\ m \in Mem /\ Tiled(s, m, starts) /\ l = BlocksAt(s, Taken(m, starts))
        /\ k = Cardinality(l) /\ Whole(s) \in Nat
    BY WholeFacts DEF Sound
  <1> DEFINE P == PlacesTaken(s, m, starts)
             g == [i \in P |-> Block(s, At(s, i))]
  <1>2. IsFiniteSet(Places(s)) /\ Cardinality(Places(s)) = Whole(s)
    BY <1>1, FS_Interval DEF Places
  <1>3. /\ IsFiniteSet(P) /\ Cardinality(P) \in Nat /\ Cardinality(P) <= Whole(s)
        /\ Cardinality(P) = Whole(s) => P = Places(s)
    <2>1. P \in SUBSET Places(s)
      BY DEF PlacesTaken
    <2> HIDE DEF P
    <2> QED BY <1>2, <2>1, FS_Subset, FS_CardinalityType
  <1>4. g \in Surjection(P, l)
    <2>1. g \in [P -> l]
      BY <1>1 DEF PlacesTaken, BlocksAt
    <2>2. ASSUME NEW x \in l PROVE \E i \in P : g[i] = x
      <3>1. PICK b \in Taken(m, starts) : x = Block(s, b)
        BY <1>1 DEF BlocksAt
      <3>2. PICK i \in P : b = At(s, i)
        BY <1>1, TakenPlace
      <3> QED BY <3>1, <3>2
    <2> HIDE DEF g, P
    <2> QED BY <2>1, <2>2 DEF Surjection
  <1>5. g \in Injection(P, l)
    <2>1. g \in [P -> l] /\ DOMAIN g = P
      BY <1>4 DEF Surjection
    <2>2. ASSUME NEW i \in P, NEW j \in P, g[i] = g[j] PROVE i = j
      <3>1. At(s, i) = At(s, j)
        BY <2>2 DEF Block
      <3>2. i \in Nat /\ j \in Nat
        BY <1>1 DEF PlacesTaken, Places
      <3>3. /\ i < j => At(s, i) + Width(s) <= At(s, j)
            /\ j < i => At(s, j) + Width(s) <= At(s, i)
            /\ At(s, i) \in Nat /\ Width(s) \in Nat \ {0}
        <4>1. HeadSize + s \in Nat \ {0} /\ Width(s) = HeadSize + s
          BY Widths
        <4> QED BY <3>2, <4>1, AtFacts
      <3> QED BY <3>1, <3>2, <3>3
    <2> HIDE DEF g, P
    <2> QED BY <2>1, <2>2 DEF Injection, IsInjective
  <1>6. k = Cardinality(P)
    <2> HIDE DEF g, P
    <2> QED BY <1>1, <1>3, <1>4, <1>5, FS_Surjection
  <1>7. CASE P = Places(s)
    BY <1>1, <1>2, <1>6, <1>7 DEF PlacesTaken
  <1>8. CASE P # Places(s)
    <2>1. k < Whole(s)
      BY <1>1, <1>3, <1>6, <1>8
    <2>2. \E i \in Places(s) : At(s, i) \notin Taken(m, starts)
      BY <1>8 DEF PlacesTaken
    <2> QED BY <2>1, <2>2
  <1> QED BY <1>7, <1>8

(* The block around a place that is left is free and large enough. *)
LEMMA LeftFits ==
  ASSUME NEW s, OneSize(s), NEW m \in Mem, NEW starts, Tiled(s, m, starts),
         NEW i \in Places(s), At(s, i) \notin Taken(m, starts)
  PROVE  \E b \in Free(m, starts) : m[b].size >= s
  <1>1. PICK a : a = At(s, i)
    OBVIOUS
  <1>2. i \in Nat /\ i < Whole(s)
    BY WholeFacts DEF Places
  <1>3. Slot(s, a) /\ a \in Nat /\ a >= 1 /\ a + Width(s) + HeadSize <= Total
    BY <1>1, <1>2, AtFacts, WholeFacts DEF Slot
  <1>4. /\ Width(s) = HeadSize + s /\ s \in Nat \ {0} /\ HeadSize \in Nat \ {0} /\ Total \in Nat
        /\ Width(s) \in Nat
    BY Widths
  <1> DEFINE T == {c \in starts : c <= a}
  <1>5. PICK b \in T : \A c \in T : c <= b
    <2>1. T \in SUBSET Nat /\ T # {}
      <3>1. starts \subseteq Addr /\ 1 \in starts
        BY DEF Tiled
      <3>2. \A c \in starts : c \in Nat
        BY <3>1 DEF Addr
      <3>3. 1 \in T
        BY <1>3, <3>1
      <3> QED BY <3>2, <3>3
    <2>2. \A c \in T : c <= a
      OBVIOUS
    <2> HIDE DEF T
    <2> QED BY <1>3, <2>1, <2>2, Largest
  <1>6. b \in starts /\ b <= a /\ b \in Addr /\ Slot(s, b) /\ b \in Nat /\ m[b].size \in Nat
    BY MemFacts DEF Tiled
  <1>7. PICK e : e = End(m, b)
    OBVIOUS
  <1>8. e = b + HeadSize + m[b].size /\ e \in Nat /\ b < e
    BY <1>4, <1>6, <1>7 DEF End
  <1>9. a < e /\ b + Width(s) <= e
    <2>1. CASE e = Total + 1
      BY <1>3, <1>4, <1>6, <2>1
    <2>2. CASE e \in starts
      <3>1. a < e
        <4>1. e \in T => e <= b
          BY <1>5
        <4> QED BY <1>3, <1>6, <1>8, <2>2, <4>1
      <3>2. Slot(s, e)
        BY <2>2 DEF Tiled
      <3>3. a + Width(s) <= e
        BY <1>3, <3>1, <3>2, SlotFacts
      <3> QED BY <1>3, <1>4, <1>6, <1>8, <3>1, <3>3
    <2> QED BY <1>6, <1>7, <2>1, <2>2 DEF Tiled
  <1>10. ~m[b].used
    <2> SUFFICES ASSUME m[b].used PROVE FALSE
      OBVIOUS
    <2>1. e = b + Width(s)
      BY <1>6, <1>7, UsedFacts
    <2>2. b < a => b + Width(s) <= a
      BY <1>3, <1>6, SlotFacts
    <2>3. b = a
      BY <1>3, <1>4, <1>6, <1>9, <2>1, <2>2
    <2>4. b \in Taken(m, starts)
      BY <1>6 DEF Taken
    <2> QED BY <1>1, <2>3, <2>4
  <1>11. m[b].size >= s
    BY <1>4, <1>6, <1>8, <1>9
  <1> QED BY <1>6, <1>10, <1>11 DEF Free

(* A free block that is large enough begins at a place that is left. *)
LEMMA FittingLeft ==
  ASSUME NEW s, OneSize(s), NEW m \in Mem, NEW starts, Tiled(s, m, starts),
         NEW b \in Free(m, starts), m[b].size >= s
  PROVE  \E i \in Places(s) : At(s, i) \notin Taken(m, starts)
  <1>1. b \in starts /\ ~m[b].used /\ b \in Addr
    BY DEF Free, Tiled
  <1>2. PICK i \in Nat : b = At(s, i)
    BY <1>1 DEF Tiled, Slot
  <1>3. /\ Width(s) = HeadSize + s /\ s \in Nat /\ HeadSize \in Nat /\ Total \in Nat
        /\ b \in Nat /\ m[b].size \in Nat /\ Whole(s) \in Nat
    BY <1>1, Widths, MemFacts, WholeFacts
  <1>4. b + Width(s) <= End(m, b)
    BY <1>3 DEF End
  <1>5. End(m, b) <= Total + 1
    <2>1. End(m, b) \in Addr \/ End(m, b) = Total + 1
      BY <1>1 DEF Tiled
    <2> QED BY <1>3, <2>1 DEF Addr
  <1>6. i < Whole(s)
    <2>1. ~(b + Width(s) > Total + 1)
      <3>1. End(m, b) \in Nat
        BY <1>3 DEF End
      <3> QED BY <1>3, <1>4, <1>5, <3>1
    <2> QED BY <1>2, <2>1, WholeFacts
  <1>7. i \in Places(s)
    BY <1>3, <1>6 DEF Places
  <1> QED BY <1>1, <1>2, <1>7 DEF Taken

LEMMA HasRoomFollows ==
  ASSUME NEW s, OneSize(s), Inv(s)
  PROVE  HasRoomExact
  <1>1. PICK starts, n, o : SoundNow(s, starts, n, o)
    BY DEF Inv
  <1>2. /\ Sound(s, starts, n, o, mem, pfree, freeSize, live, out)
        /\ mem \in Mem /\ Tiled(s, mem, starts) /\ FreeList = Free(mem, starts)
        /\ starts \subseteq Addr
    BY <1>1, SoundNowFacts
  <1>3. (\E b \in FreeList : mem[b].size >= s) <=> out < Whole(s)
    BY <1>2, HowMany, LeftFits, FittingLeft
  <1>4. \A b \in FreeList : Fits(b, s) <=> mem[b].size >= s
    BY <1>2 DEF Fits, Free, Addr, NULL
  <1> QED BY <1>3, <1>4 DEF HasRoomExact, OneSize, Whole, Width

----------------------------------------------------------------------------
(* Every step is one that PoolSpec allows.                                  *)

LEMMA UnitsAre ==
  ASSUME NEW s, OneSize(s), NEW b \in Nat
  PROVE  Pool!Units(Block(s, b)) = b .. (b + Width(s) - 1)
  BY Widths DEF Pool!Units, Block, Width

LEMMA GetPromised ==
  ASSUME NEW s, OneSize(s), NEW starts, NEW n, NEW o, SoundNow(s, starts, n, o),
         NEW b \in Listed(n, o), mem[b].size >= s
  PROVE  /\ Pool!Units(Block(s, b)) \subseteq 1..Total
         /\ \A c \in live : Pool!Units(Block(s, b)) \cap Pool!Units(c) = {}
  <1>1. /\ Sound(s, starts, n, o, mem, pfree, freeSize, live, out)
        /\ mem \in Mem /\ Tiled(s, mem, starts) /\ Listed(n, o) = Free(mem, starts)
        /\ starts \subseteq Addr /\ live = BlocksAt(s, Taken(mem, starts))
    BY SoundNowFacts DEF Sound
  <1>2. /\ b \in starts /\ b \in Addr /\ b \in Nat /\ b >= 1 /\ ~mem[b].used
        /\ mem[b].size \in Nat
    BY <1>1, MemFacts DEF Free
  <1>3. /\ Width(s) = HeadSize + s /\ s \in Nat \ {0} /\ HeadSize \in Nat \ {0} /\ Total \in Nat
        /\ Width(s) \in Nat
    BY Widths
  <1>4. PICK e : e = End(mem, b)
    OBVIOUS
  <1>5. b + Width(s) <= e /\ e <= Total + 1 /\ e \in Nat
    <2>1. e = b + HeadSize + mem[b].size
      BY <1>4 DEF End
    <2>2. e \in Addr \/ e = Total + 1
      BY <1>1, <1>2, <1>4 DEF Tiled
    <2> QED BY <1>2, <1>3, <2>1, <2>2 DEF Addr
  <1>6. PICK U : U = Pool!Units(Block(s, b))
    OBVIOUS
  <1>7. U = b .. (b + Width(s) - 1)
    BY <1>2, <1>6, UnitsAre
  <1>8. U \subseteq 1..Total
    BY <1>2, <1>3, <1>5, <1>7
  <1>9. ASSUME NEW x \in live PROVE U \cap Pool!Units(x) = {}
    <2>1. PICK c \in Taken(mem, starts) : x = Block(s, c)
      BY <1>1 DEF BlocksAt
    <2>2. c \in starts /\ mem[c].used /\ c \in Nat
      BY <1>1 DEF Taken, Addr
    <2>3. Pool!Units(x) = c .. (c + Width(s) - 1)
      BY <2>1, <2>2, UnitsAre
    <2>4. End(mem, c) = c + Width(s)
      BY <1>1, <2>2, UsedFacts
    <2>5. (c < b => c + Width(s) <= b) /\ (b < c => e <= c)
      BY <1>1, <1>2, <1>4, <2>2, <2>4 DEF Tiled
    <2>6. c # b
      BY <1>2, <2>2
    <2>7. c + Width(s) <= b \/ b + Width(s) <= c
      BY <1>2, <1>3, <1>5, <2>2, <2>5, <2>6
    <2> QED BY <1>2, <1>3, <1>7, <2>2, <2>3, <2>7
  <1> QED BY <1>6, <1>8, <1>9

LEMMA StepPromised ==
  ASSUME NEW s, OneSize(s), Inv(s), [Next]_vars
  PROVE  [Pool!Next]_<<live, out>>
  <1>1. PICK starts, n, o : SoundNow(s, starts, n, o)
    BY DEF Inv
  <1>2. ASSUME NEW size \in Sizes, Get(size) PROVE Pool!Next
    <2>1. size = s
      BY DEF OneSize
    <2>2. PICK b \in FreeList : /\ FirstFit(b, size)
                                /\ live' = live \cup {[at |-> b, size |-> size]}
                                /\ out' = out + 1
      BY <1>2 DEF Get
    <2>3. mem[b].size >= s /\ b \in Listed(n, o) /\ b \in 1..Total
      BY <1>1, <2>1, <2>2, SoundNowFacts DEF FirstFit, Fits, Free, Addr
    <2>4. /\ Pool!Units(Block(s, b)) \subseteq 1..Total
          /\ \A c \in live : Pool!Units(Block(s, b)) \cap Pool!Units(c) = {}
      BY <1>1, <2>3, GetPromised
    <2>5. Block(s, b) = [at |-> b, size |-> size]
      BY <2>1 DEF Block
    <2>6. Pool!Get(Block(s, b))
      BY <2>2, <2>4, <2>5 DEF Pool!Get
    <2> QED BY <2>3, <2>5, <2>6 DEF Pool!Next
  <1>3. ASSUME NEW block \in live, Put(block) PROVE Pool!Next
    <2>1. Pool!Put(block)
      BY <1>3 DEF Put, Pool!Put
    <2> QED BY <2>1 DEF Pool!Next
  <1>4. CASE UNCHANGED vars
    BY <1>4 DEF vars
  <1> QED BY <1>2, <1>3, <1>4 DEF Next

----------------------------------------------------------------------------
(* The theorems.                                                            *)

(* initMem builds a pool that is sound, and getMem and putMem keep it so. *)
THEOREM PoolSound ==
  ASSUME NEW s, OneSize(s)
  PROVE  Spec => []Inv(s)
  <1>1. Init => Inv(s)
    BY InitSound
  <1>2. Inv(s) /\ [Next]_vars => Inv(s)'
    BY NextSound
  <1> QED BY <1>1, <1>2, PTL DEF Spec

(* Every variable of the pool has its type: no address outside the pool is   *)
(* written into a link and no size is lost.                                  *)
THEOREM PoolTypeOK ==
  ASSUME NEW s, OneSize(s)
  PROVE  Spec => []TypeOK
  <1>1. Inv(s) => TypeOK
    BY TypeFollows
  <1> QED BY <1>1, PoolSound, PTL

(* The sizes lead from the start of the pool exactly to its end, over the    *)
(* blocks in use and those of the free list and no others, and the links     *)
(* between the free ones agree in both directions, after every getMem and    *)
(* putMem of a pool of any length.                                           *)
THEOREM PoolRowSound ==
  ASSUME NEW s, OneSize(s)
  PROVE  Spec => []RowIsSound
  <1>1. Inv(s) => RowIsSound
    BY RowFollows
  <1> QED BY <1>1, PoolSound, PTL

(* getFreeSize tells the sum of the sizes of the free blocks, however often  *)
(* headers were made by a cut and lost by a merge.                           *)
THEOREM PoolFreeSize ==
  ASSUME NEW s, OneSize(s)
  PROVE  Spec => []FreeSizeExact
  <1>1. Inv(s) => FreeSizeExact
    BY FreeSizeFollows
  <1> QED BY <1>1, PoolSound, PTL

(* getMem of a pool of one size fails only when as many blocks are in use as  *)
(* lie side by side in the pool: putMem merges a block with the one behind it *)
(* only, and that is enough.                                                  *)
THEOREM PoolHasRoom ==
  ASSUME NEW s, OneSize(s)
  PROVE  Spec => []HasRoomExact
  <1>1. Inv(s) => HasRoomExact
    BY HasRoomFollows
  <1> QED BY <1>1, PoolSound, PTL

(* The pool keeps the promise of PoolSpec: a block that getMem hands out lies *)
(* in the pool and shares no unit with one that is still in use.              *)
THEOREM PoolKeepsPromise ==
  ASSUME NEW s, OneSize(s)
  PROVE  Spec => KeepsPromise
  <1>1. Init => Pool!Init
    BY DEF Init, Pool!Init
  <1>2. Inv(s) /\ [Next]_vars => [Pool!Next]_<<live, out>>
    BY StepPromised
  <1> QED BY <1>1, <1>2, PoolSound, PTL DEF Spec, KeepsPromise, Pool!Spec

=============================================================================
