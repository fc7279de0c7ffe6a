---------------------------- MODULE LedgerLemmas ----------------------------
(***************************************************************************)
(* The lemmas that the proofs of the ledger rest on, for any universe of   *)
(* blocks.  First induction, recursion and sums over finite sets; then     *)
(* what a block means by its content, and what the visitors and the        *)
(* updates of the weight table compute; and how the tables' part of the    *)
(* inductive invariant (Base) survives a block that is added to all the    *)
(* tables (Added) and a head that is taken out of them (Removed).          *)
(*                                                                         *)
(* The provers cannot instantiate a theorem with an operator parameter, so *)
(* a predicate is a set here, and the body of a recursive definition is a  *)
(* function from an argument and the function being defined to a value.    *)
(***************************************************************************)
EXTENDS LedgerProperties, WellFoundedInduction, TLAPS

-----------------------------------------------------------------------------
(* Induction, recursion and sums *)

\* A set of numbers that holds 0 and the successor of each of its elements holds
\* them all.
LEMMA NatInductive ==
    ASSUME NEW C, 0 \in C, \A n \in Nat : n \in C => n + 1 \in C
    PROVE  Nat \subseteq C
<1> DEFINE T == Nat \ C
           R == OpToRel(<, Nat)
<1> SUFFICES ASSUME T # {} PROVE FALSE
  BY Zenon
<1>1. PICK n \in T : \A m \in T : <<m, n>> \notin R
  <2> IsWellFoundedOn(R, Nat)
    BY NatLessThanWellFounded, Zenon
  <2> HIDE DEF R
  <2> T \subseteq Nat
    BY Zenon
  <2> HIDE DEF T
  <2> QED
    BY WFMin, Zenon
<1>2. R = {p \in Nat \X Nat : p[1] < p[2]}
  BY Zenon DEF OpToRel
<1>3. n # 0 /\ n - 1 \in Nat
  OBVIOUS
<1>4. <<n - 1, n>> \in R
  <2> HIDE DEF R
  <2> QED
    BY <1>2, <1>3
<1>5. n - 1 \in C
  <2> HIDE DEF R
  <2> QED
    BY <1>1, <1>3, <1>4, Zenon
<1> QED
  BY <1>3, <1>5

\* The same with the hypothesis for all smaller numbers.
LEMMA NatCourseOfValues ==
    ASSUME NEW C, \A n \in Nat : (\A m \in Nat : m < n => m \in C) => n \in C
    PROVE  Nat \subseteq C
<1> DEFINE T == Nat \ C
           R == OpToRel(<, Nat)
<1> SUFFICES ASSUME T # {} PROVE FALSE
  BY Zenon
<1>1. PICK n \in T : \A m \in T : <<m, n>> \notin R
  <2> IsWellFoundedOn(R, Nat)
    BY NatLessThanWellFounded, Zenon
  <2> HIDE DEF R
  <2> T \subseteq Nat
    BY Zenon
  <2> HIDE DEF T
  <2> QED
    BY WFMin, Zenon
<1>2. R = {p \in Nat \X Nat : p[1] < p[2]}
  BY Zenon DEF OpToRel
<1>3. \A m \in T : ~(m < n)
  <2> HIDE DEF R
  <2> QED
    BY <1>1, <1>2, Zenon
<1> QED
  BY <1>3, Zenon

\* Induction over the subsets of a finite set, one element at a time.
LEMMA FiniteSetInductive ==
    ASSUME NEW S, IsFiniteSet(S), NEW C, {} \in C,
           \A T \in SUBSET S : \A x \in S \ T : T \in C => T \cup {x} \in C
    PROVE  S \in C /\ \A T \in SUBSET S : T \in C
<1>1. PICK seq \in Seq(S) : \A s \in S : \E n \in 1 .. Len(seq) : seq[n] = s
  BY Zenon DEF IsFiniteSet
<1> DEFINE First(n) == {s \in S : \E i \in 1 .. Len(seq) : i <= n /\ seq[i] = s}
           N == {n \in Nat : n <= Len(seq) => \A T \in SUBSET First(n) : T \in C}
<1>2. Len(seq) \in Nat /\ \A n \in Nat : n + 1 <= Len(seq) => seq[n + 1] \in S
  OBVIOUS
<1>3. 0 \in N
  <2>1. First(0) = {}
    OBVIOUS
  <2> HIDE DEF First
  <2> QED
    BY <2>1, Zenon
<1>4. ASSUME NEW n \in Nat, n \in N PROVE n + 1 \in N
  <2> SUFFICES ASSUME n + 1 <= Len(seq), NEW T \in SUBSET First(n + 1) PROVE T \in C
    OBVIOUS
  <2> DEFINE x == seq[n + 1]
             U == T \ {x}
  <2>1. x \in S /\ U \in SUBSET S /\ x \notin U
    BY <1>2, Zenon
  <2>2. U \in SUBSET First(n)
    BY <1>2
  <2>3. U \in C
    <3> HIDE DEF First, U
    <3> QED
      BY <1>2, <1>4, <2>2
  <2>4. T = U \/ T = U \cup {x}
    BY Zenon
  <2> HIDE DEF U, x
  <2> QED
    BY <2>1, <2>3, <2>4, Zenon
<1>5. Nat \subseteq N
  <2> HIDE DEF N
  <2> QED
    BY <1>3, <1>4, NatInductive, Zenon
<1>6. First(Len(seq)) = S
  BY <1>1, <1>2
<1> HIDE DEF First
<1>7. \A T \in SUBSET S : T \in C
  BY <1>2, <1>5, <1>6
<1> QED
  BY <1>7, Zenon

\* The empty set and one element are finite, and so are the subsets of a finite
\* set and a finite set with one more element.
LEMMA FiniteFacts ==
    /\ IsFiniteSet({}) /\ \A x : IsFiniteSet({x})
    /\ \A S : IsFiniteSet(S) => /\ \A T \in SUBSET S : IsFiniteSet(T)
                                /\ \A x : IsFiniteSet(S \cup {x})
<1>1. IsFiniteSet({})
  <2>1. << >> \in Seq({})
    OBVIOUS
  <2> QED
    BY <2>1, Zenon DEF IsFiniteSet
<1>2. ASSUME NEW S, IsFiniteSet(S), NEW x PROVE IsFiniteSet(S \cup {x})
  <2>1. PICK seq \in Seq(S) : \A s \in S : \E n \in 1 .. Len(seq) : seq[n] = s
    BY <1>2, Zenon DEF IsFiniteSet
  <2> DEFINE longer == Append(seq, x)
  <2>2. longer \in Seq(S \cup {x})
    OBVIOUS
  <2>3. Len(longer) = Len(seq) + 1 /\ longer[Len(seq) + 1] = x /\ \A n \in 1 .. Len(seq) : longer[n] = seq[n]
    OBVIOUS
  <2>4. ASSUME NEW s \in S \cup {x} PROVE \E n \in 1 .. Len(longer) : longer[n] = s
    <3> HIDE DEF longer
    <3>1. CASE s = x
      <4>1. Len(seq) + 1 \in 1 .. Len(longer)
        BY <2>3
      <4> QED
        BY <2>3, <3>1, <4>1, Zenon
    <3>2. CASE s \in S
      <4>1. PICK n \in 1 .. Len(seq) : seq[n] = s
        BY <2>1, <3>2, Zenon
      <4>2. n \in 1 .. Len(longer)
        BY <2>3
      <4> QED
        BY <2>3, <4>1, <4>2, Zenon
    <3> QED
      BY <3>1, <3>2, Zenon
  <2> HIDE DEF longer
  <2> QED
    BY <2>2, <2>4, Zenon DEF IsFiniteSet
<1>3. ASSUME NEW S, IsFiniteSet(S) PROVE \A T \in SUBSET S : IsFiniteSet(T)
  <2> DEFINE C == {T \in SUBSET S : IsFiniteSet(T)}
  <2>1. {} \in C
    BY <1>1, Zenon
  <2>2. ASSUME NEW T \in SUBSET S, NEW x \in S \ T, T \in C PROVE T \cup {x} \in C
    BY <1>2, <2>2, Zenon
  <2>3. \A T \in SUBSET S : T \in C
    <3> HIDE DEF C
    <3> QED
      BY <1>3, <2>1, <2>2, FiniteSetInductive, Zenon
  <2> QED
    BY <2>3, Zenon
<1>4. ASSUME NEW x PROVE IsFiniteSet({x})
  <2>1. {} \cup {x} = {x}
    BY Zenon
  <2> QED
    BY <1>1, <1>2, <2>1, Zenon
<1> QED
  BY <1>1, <1>2, <1>3, <1>4, Zenon

\* There is a function that satisfies the equation everywhere.
LEMMA RecursionExists ==
    \A D, V, rank, step :
        (/\ V # {}
         /\ Recurses(D, V, rank, step))
        => (\E f \in [D -> V] : \A q \in D : f[q] = step[<<q, f>>])
\* Two functions that satisfy the equation below rank n are the same there.
<1>RecursionUnique.
  ASSUME NEW D, NEW V, NEW rank, NEW step, Recurses(D, V, rank, step),
         NEW f \in [D -> V], NEW g \in [D -> V], NEW n \in Nat,
         \A q \in D : rank[q] < n => f[q] = step[<<q, f>>],
         \A q \in D : rank[q] < n => g[q] = step[<<q, g>>]
  PROVE  \A q \in D : rank[q] < n => f[q] = g[q]
  <2> USE <1>RecursionUnique
  <2> DEFINE C == {m \in Nat : \A q \in D : rank[q] = m /\ m < n => f[q] = g[q]}
  <2>0. rank \in [D -> Nat]
    BY Zenon DEF Recurses
  <2>1. ASSUME NEW m \in Nat, \A k \in Nat : k < m => k \in C PROVE m \in C
    <3> SUFFICES ASSUME NEW q \in D, rank[q] = m, m < n PROVE f[q] = g[q]
      BY Zenon
    <3>1. \A p \in D : rank[p] < rank[q] => f[p] = g[p]
      BY <2>0, <2>1
    <3>2. step[<<q, f>>] = step[<<q, g>>]
      BY <3>1, Zenon DEF Recurses
    <3> QED
      BY <3>2, Zenon
  <2>2. Nat \subseteq C
    <3> HIDE DEF C
    <3> QED
      BY <2>1, NatCourseOfValues, Zenon
  <2> QED
    BY <2>0, <2>2, Zenon
<1> SUFFICES
      ASSUME NEW D, NEW V, NEW rank, NEW step, V # {}, Recurses(D, V, rank, step)
      PROVE  \E f \in [D -> V] : \A q \in D : f[q] = step[<<q, f>>]
  OBVIOUS
<1> DEFINE Below(n, f) == \A q \in D : rank[q] < n => f[q] = step[<<q, f>>]
           C == {n \in Nat : \E f \in [D -> V] : Below(n, f)}
<1>0. rank \in [D -> Nat] /\ step \in [D \X [D -> V] -> V]
  BY Zenon DEF Recurses
<1>1. 0 \in C
  <2>1. PICK v \in V : TRUE
    BY Zenon
  <2>2. [q \in D |-> v] \in [D -> V]
    BY Zenon
  <2>3. Below(0, [q \in D |-> v])
    BY <1>0
  <2> HIDE DEF Below
  <2> QED
    BY <2>2, <2>3, Zenon
<1>2. ASSUME NEW n \in Nat, n \in C PROVE n + 1 \in C
  <2>1. PICK f \in [D -> V] : Below(n, f)
    BY <1>2, Zenon
  <2> DEFINE g == [q \in D |-> step[<<q, f>>]]
  <2>2. g \in [D -> V]
    BY <1>0, Zenon
  <2>3. ASSUME NEW q \in D, rank[q] < n + 1 PROVE g[q] = step[<<q, g>>]
    <3>1. \A p \in D : rank[p] < rank[q] => f[p] = g[p]
      BY <1>0, <2>1, <2>3
    <3>2. step[<<q, f>>] = step[<<q, g>>]
      <4> HIDE DEF g
      <4> QED
        BY <3>1, <2>2, Zenon DEF Recurses
    <3> QED
      BY <3>2, Zenon
  <2>4. Below(n + 1, g)
    BY <2>3, Zenon
  <2> HIDE DEF g, Below
  <2> QED
    BY <2>2, <2>4
<1>3. \A n \in Nat : \E f \in [D -> V] : Below(n, f)
  <2>1. Nat \subseteq C
    <3> HIDE DEF C
    <3> QED
      BY <1>1, <1>2, NatInductive, Zenon
  <2> HIDE DEF Below
  <2> QED
    BY <2>1, Zenon
<1> DEFINE G(n) == CHOOSE f \in [D -> V] : Below(n, f)
           F == [q \in D |-> G(rank[q] + 1)[q]]
<1>4. \A n \in Nat : G(n) \in [D -> V] /\ Below(n, G(n))
  <2> HIDE DEF Below
  <2> QED
    BY <1>3, Zenon
<1>5. \A q \in D : rank[q] + 1 \in Nat
  BY <1>0
<1>6. F \in [D -> V]
  <2> HIDE DEF G
  <2> QED
    BY <1>4, <1>5, Zenon
<1>7. ASSUME NEW q \in D PROVE F[q] = step[<<q, F>>]
  <2>1. ASSUME NEW p \in D, rank[p] < rank[q] PROVE F[p] = G(rank[q] + 1)[p]
    <3> DEFINE f == G(rank[p] + 1)
               g == G(rank[q] + 1)
    <3>1. f \in [D -> V] /\ g \in [D -> V] /\ Below(rank[p] + 1, f) /\ Below(rank[q] + 1, g)
      BY <1>4, <1>5, Zenon
    <3>2. F[p] = f[p]
      BY Zenon
    <3> HIDE DEF f, g, F, G
    <3>3. rank[p] \in Nat /\ rank[q] \in Nat /\ rank[p] + 1 \in Nat
      BY <1>0
    <3>4. \A x \in D : rank[x] < rank[p] + 1 => rank[x] < rank[q] + 1
      BY <1>0, <2>1, <3>3
    <3>5. \A x \in D : rank[x] < rank[p] + 1 => f[x] = step[<<x, f>>]
      BY <3>1, Zenon
    <3>6. \A x \in D : rank[x] < rank[p] + 1 => g[x] = step[<<x, g>>]
      BY <3>1, <3>4, Zenon
    <3>7. \A x \in D : rank[x] < rank[p] + 1 => f[x] = g[x]
      BY <3>1, <3>3, <3>5, <3>6, <1>RecursionUnique
    <3>8. f[p] = g[p]
      BY <3>7, <3>3
    <3> QED
      BY <3>2, <3>8, Zenon DEF g
  <2>2. F[q] = G(rank[q] + 1)[q] /\ G(rank[q] + 1) \in [D -> V] /\ Below(rank[q] + 1, G(rank[q] + 1))
    BY <1>4, <1>5, Zenon
  <2>3. G(rank[q] + 1)[q] = step[<<q, G(rank[q] + 1)>>]
    <3> HIDE DEF G, F
    <3> QED
      BY <1>0, <2>2, SMTT(30)
  <2> HIDE DEF G, F
  <2>4. step[<<q, G(rank[q] + 1)>>] = step[<<q, F>>]
    BY <1>6, <2>1, <2>2, Zenon DEF Recurses
  <2> QED
    BY <2>2, <2>3, <2>4, Zenon
<1> QED
  <2> HIDE DEF F
  <2> QED
    BY <1>6, <1>7, Zenon

-----------------------------------------------------------------------------
\* What sums are computed by: the empty sum is 0, and any element can be taken
\* out of the set.
LEMMA SumOnSet ==
    \A S, f :
        (/\ IsFiniteSet(S)
         /\ \A x \in S : f[x] \in Int)
        => (/\ SumFunctionOnSet(f, S) \in Int
            /\ SumFunctionOnSet(f, {}) = 0
            /\ \A x \in S : SumFunctionOnSet(f, S) = f[x] + SumFunctionOnSet(f, S \ {x}))
\* The subsets of a finite set have a rank that every element taken out lowers.
<1>Ranked.
  ASSUME NEW S, IsFiniteSet(S)
  PROVE  \E rank \in [SUBSET S -> Nat] : \A s \in SUBSET S : \A x \in s : rank[s \ {x}] < rank[s]
  <2> DEFINE Ranks(T, rank) == \A s \in SUBSET T : \A x \in s : rank[s \ {x}] < rank[s]
             C == {T \in SUBSET S : \E rank \in [SUBSET T -> Nat] : Ranks(T, rank)}
  <2>1. {} \in C
    <3>1. [s \in SUBSET {} |-> 0] \in [SUBSET {} -> Nat] /\ Ranks({}, [s \in SUBSET {} |-> 0])
      BY Zenon
    <3> HIDE DEF Ranks
    <3> QED
      BY <3>1, Zenon
  <2>2. ASSUME NEW T \in SUBSET S, NEW x \in S \ T, T \in C PROVE T \cup {x} \in C
    <3>1. PICK rank \in [SUBSET T -> Nat] : Ranks(T, rank)
      BY <2>2, Zenon
    <3> DEFINE more == [s \in SUBSET (T \cup {x}) |-> rank[s \ {x}] + (IF x \in s THEN 1 ELSE 0)]
    <3>2. \A s \in SUBSET (T \cup {x}) : s \ {x} \in SUBSET T /\ rank[s \ {x}] \in Nat
      BY Zenon
    <3>3. more \in [SUBSET (T \cup {x}) -> Nat]
      BY <3>2
    <3>4. ASSUME NEW s \in SUBSET (T \cup {x}), NEW y \in s PROVE more[s \ {y}] < more[s]
      <4>0. s \ {y} \in SUBSET (T \cup {x}) /\ rank[s \ {x}] \in Nat
        BY <3>2, Zenon
      <4>1. CASE y = x
        <5>1. (s \ {y}) \ {x} = s \ {x} /\ x \notin s \ {y} /\ x \in s
          BY <4>1, Zenon
        <5>2. more[s \ {y}] = rank[s \ {x}] + 0 /\ more[s] = rank[s \ {x}] + 1
          BY <4>0, <5>1, Zenon
        <5> QED
          BY <4>0, <5>2
      <4>2. CASE y # x
        <5>1. (s \ {y}) \ {x} = (s \ {x}) \ {y} /\ (x \in s \ {y} <=> x \in s) /\ y \in s \ {x}
          BY <4>2, Zenon
        <5>2. rank[(s \ {x}) \ {y}] < rank[s \ {x}] /\ rank[(s \ {x}) \ {y}] \in Nat
          <6>1. s \ {x} \in SUBSET T /\ (s \ {x}) \ {y} \in SUBSET T
            BY Zenon
          <6> QED
            BY <3>1, <5>1, <6>1, Zenon
        <5>3. more[s \ {y}] = rank[(s \ {x}) \ {y}] + (IF x \in s THEN 1 ELSE 0)
          BY <4>0, <5>1, Zenon
        <5> QED
          BY <4>0, <5>2, <5>3
      <4> QED
        BY <4>1, <4>2, Zenon
    <3>5. Ranks(T \cup {x}, more)
      BY <3>4, Zenon
    <3> HIDE DEF more, Ranks
    <3> QED
      BY <3>3, <3>5, Zenon
  <2>3. S \in C
    <3> HIDE DEF C
    <3> QED
      BY <1>Ranked, <2>1, <2>2, FiniteSetInductive, Zenon
  <2> QED
    BY <2>3, Zenon
\* The fold behind SumFunctionOnSet is that recursive function.
<1>SumIsIter.
  \A f, S : SumFunctionOnSet(f, S) = SumIter(f, S)[S]
    BY Zenon DEF SumFunctionOnSet, FoldFunctionOnSet, MapThenFoldSet, SumIter, Pick
\* The recursive function exists: it satisfies its own equation.
<1>SumIterEquation.
  ASSUME NEW S, IsFiniteSet(S), NEW f, \A x \in S : f[x] \in Int
  PROVE  /\ SumIter(f, S) \in [SUBSET S -> Int]
         /\ SumIter(f, S)[{}] = 0
         /\ \A s \in SUBSET S : s # {} =>
               SumIter(f, S)[s] = f[Pick(s)] + SumIter(f, S)[s \ {Pick(s)}]
  <2> USE <1>SumIterEquation
  <2> DEFINE D == SUBSET S
             Body(g, s) == IF s = {} THEN 0 ELSE f[Pick(s)] + g[s \ {Pick(s)}]
             step == [p \in D \X [D -> Int] |-> Body(p[2], p[1])]
  <2>1. \A s \in D : s # {} => Pick(s) \in s /\ s \ {Pick(s)} \in D
    BY Zenon DEF Pick
  <2>2. PICK rank \in [D -> Nat] : \A s \in D : \A x \in s : rank[s \ {x}] < rank[s]
    BY <1>Ranked, Zenon
  <2>3. \A s \in D : s # {} => rank[s \ {Pick(s)}] < rank[s]
    BY <2>1, <2>2, Zenon
  <2>5. \A g \in [D -> Int] : \A s \in D : Body(g, s) \in Int
    BY <2>1
  <2>6. step \in [D \X [D -> Int] -> Int]
    <3> HIDE DEF Body
    <3> QED
      BY <2>5, Zenon
  <2>7. ASSUME NEW s \in D, NEW g \in [D -> Int], NEW h \in [D -> Int],
               \A t \in D : rank[t] < rank[s] => g[t] = h[t]
        PROVE  step[<<s, g>>] = step[<<s, h>>]
    <3>1. step[<<s, g>>] = Body(g, s) /\ step[<<s, h>>] = Body(h, s)
      <4> HIDE DEF Body
      <4> QED
        BY Zenon
    <3>2. s # {} => g[s \ {Pick(s)}] = h[s \ {Pick(s)}]
      BY <2>1, <2>3, <2>7, Zenon
    <3>3. Body(g, s) = Body(h, s)
      BY <3>2, Zenon
    <3> HIDE DEF step, Body
    <3> QED
      BY <3>1, <3>3, Zenon
  <2>8. Recurses(D, Int, rank, step)
    <3> HIDE DEF step, D
    <3> QED
      BY <2>2, <2>6, <2>7, Zenon DEF Recurses
  <2>9. PICK g \in [D -> Int] : \A s \in D : g[s] = step[<<s, g>>]
    <3> HIDE DEF step, D
    <3> QED
      BY <2>8, RecursionExists
  <2>10. g = [s \in D |-> Body(g, s)]
    <3>1. \A s \in D : step[<<s, g>>] = Body(g, s)
      <4> HIDE DEF Body
      <4> QED
        BY Zenon
    <3>2. \A s \in D : g[s] = Body(g, s)
      <4> HIDE DEF Body, step
      <4> QED
        BY <2>9, <3>1, Zenon
    <3> HIDE DEF Body
    <3> QED
      BY <3>2, Zenon
  <2> DEFINE I == SumIter(f, S)
  <2>11. I = [s \in D |-> Body(I, s)]
    BY <2>10, Zenon DEF SumIter
  <2>12. \A s \in D : I[s] = Body(I, s)
    <3> HIDE DEF Body, I
    <3> QED
      BY <2>11, Zenon
  <2>13. DOMAIN I = D
    <3> HIDE DEF Body, I
    <3> QED
      BY <2>11, Zenon
  <2> HIDE DEF I
  <2>14. {} \in D /\ I[{}] = 0
    BY <2>12, Zenon
  <2>15. \A s \in D : s # {} => I[s] = f[Pick(s)] + I[s \ {Pick(s)}]
    BY <2>12, Zenon
  \* a function that satisfies the equation is integer valued
  <2>16. \A s \in D : I[s] \in Int
    <3> DEFINE C == {n \in Nat : \A s \in D : rank[s] = n => I[s] \in Int}
    <3>1. ASSUME NEW n \in Nat, \A m \in Nat : m < n => m \in C PROVE n \in C
      <4> SUFFICES ASSUME NEW s \in D, rank[s] = n PROVE I[s] \in Int
        BY Zenon
      <4>1. CASE s = {}
        BY <2>14, <4>1
      <4>2. CASE s # {}
        <5>1. I[s \ {Pick(s)}] \in Int
          BY <2>1, <2>2, <2>3, <3>1, <4>2, Zenon
        <5>2. f[Pick(s)] \in Int
          BY <2>1, <4>2, Zenon
        <5>3. I[s] = f[Pick(s)] + I[s \ {Pick(s)}]
          BY <2>15, <4>2, Zenon
        <5> QED
          BY <5>1, <5>2, <5>3
      <4> QED
        BY <4>1, <4>2, Zenon
    <3>2. Nat \subseteq C
      <4> HIDE DEF C
      <4> QED
        BY <3>1, NatCourseOfValues, Zenon
    <3> QED
      BY <2>2, <3>2, Zenon
  <2>17. I \in [D -> Int]
    <3>1. I = [s \in D |-> I[s]]
      <4> HIDE DEF Body
      <4> QED
        BY <2>11, <2>12, Zenon
    <3> QED
      BY <2>16, <3>1, Zenon
  <2> QED
    BY <2>14, <2>15, <2>17, Zenon DEF I
\* Any element can be taken out first.
<1>SumIterRemove.
  ASSUME NEW S, IsFiniteSet(S), NEW f, \A x \in S : f[x] \in Int
  PROVE  \A s \in SUBSET S : \A x \in s : SumIter(f, S)[s] = f[x] + SumIter(f, S)[s \ {x}]
  <2> USE <1>SumIterRemove
  <2> DEFINE I == SumIter(f, S)
  <2>1. I \in [SUBSET S -> Int] /\ \A s \in SUBSET S : s # {} => I[s] = f[Pick(s)] + I[s \ {Pick(s)}]
    BY <1>SumIterEquation, Zenon
  <2> HIDE DEF I
  <2>2. PICK rank \in [SUBSET S -> Nat] : \A s \in SUBSET S : \A x \in s : rank[s \ {x}] < rank[s]
    BY <1>Ranked, Zenon
  <2> DEFINE C == {n \in Nat : \A s \in SUBSET S : rank[s] = n => \A x \in s : I[s] = f[x] + I[s \ {x}]}
  <2>3. ASSUME NEW n \in Nat, \A m \in Nat : m < n => m \in C PROVE n \in C
    <3> SUFFICES ASSUME NEW s \in SUBSET S, rank[s] = n, NEW x \in s PROVE I[s] = f[x] + I[s \ {x}]
      BY Zenon
    <3> DEFINE c == Pick(s)
    <3>1. c \in s
      BY Zenon DEF Pick
    <3>2. I[s] = f[c] + I[s \ {c}]
      BY <2>1, Zenon
    <3> HIDE DEF c
    <3>3. CASE x = c
      BY <3>2, <3>3, Zenon
    <3>4. CASE x # c
      <4>1. \A y \in s : rank[s \ {y}] \in Nat /\ rank[s \ {y}] < n
        BY <2>2, Zenon
      <4>2. \A y \in s : rank[s \ {y}] \in C
        BY <2>3, <4>1, Zenon
      <4>3. I[s \ {c}] = f[x] + I[(s \ {c}) \ {x}]
        BY <3>1, <3>4, <4>1, <4>2, Zenon
      <4>4. I[s \ {x}] = f[c] + I[(s \ {x}) \ {c}]
        BY <3>1, <3>4, <4>1, <4>2, Zenon
      <4>5. (s \ {c}) \ {x} = (s \ {x}) \ {c}
        BY Zenon
      <4>6. f[x] \in Int /\ f[c] \in Int /\ I[(s \ {c}) \ {x}] \in Int
        BY <2>1, <3>1, Zenon
      <4>7. f[c] + (f[x] + I[(s \ {c}) \ {x}]) = f[x] + (f[c] + I[(s \ {c}) \ {x}])
        BY <4>6
      <4> QED
        BY <3>2, <4>3, <4>4, <4>5, <4>7, Zenon
    <3> QED
      BY <3>3, <3>4, Zenon
  <2>4. Nat \subseteq C
    <3> HIDE DEF C
    <3> QED
      BY <2>3, NatCourseOfValues, Zenon
  <2> QED
    BY <2>2, <2>4, Zenon DEF I
\* The sum over a set does not depend on the larger set it is seen in.
<1>SumIterSubset.
  ASSUME NEW S, IsFiniteSet(S), NEW f, \A x \in S : f[x] \in Int, NEW T \in SUBSET S
  PROVE  SumIter(f, T)[T] = SumIter(f, S)[T]
  <2> USE <1>SumIterSubset
  <2> DEFINE I == SumIter(f, S)
             J == SumIter(f, T)
             C == {s \in SUBSET T : J[s] = I[s]}
  <2>0. IsFiniteSet(T)
    BY FiniteFacts, Zenon
  <2>1. /\ I \in [SUBSET S -> Int] /\ I[{}] = 0
        /\ \A s \in SUBSET S : \A x \in s : I[s] = f[x] + I[s \ {x}]
    <3>1. I \in [SUBSET S -> Int] /\ I[{}] = 0
      BY <1>SumIterEquation, Zenon
    <3>2. ASSUME NEW s \in SUBSET S, NEW x \in s PROVE I[s] = f[x] + I[s \ {x}]
      BY <1>SumIterRemove
    <3> QED
      BY <3>1, <3>2, Zenon
  <2>2. /\ J \in [SUBSET T -> Int] /\ J[{}] = 0
        /\ \A s \in SUBSET T : \A x \in s : J[s] = f[x] + J[s \ {x}]
    <3>1. \A x \in T : f[x] \in Int
      BY Zenon
    <3>2. J \in [SUBSET T -> Int] /\ J[{}] = 0
      BY <2>0, <3>1, <1>SumIterEquation, Zenon
    <3>3. ASSUME NEW s \in SUBSET T, NEW x \in s PROVE J[s] = f[x] + J[s \ {x}]
      BY <2>0, <3>1, <1>SumIterRemove
    <3> QED
      BY <3>2, <3>3, Zenon
  <2> HIDE DEF I, J
  <2>3. {} \in C
    BY <2>1, <2>2, Zenon
  <2>4. ASSUME NEW s \in SUBSET T, NEW x \in T \ s, s \in C PROVE s \cup {x} \in C
    <3>1. (s \cup {x}) \ {x} = s
      BY Zenon
    <3>2. I[s \cup {x}] = f[x] + I[s]
      BY <2>1, <3>1, Zenon
    <3>3. J[s \cup {x}] = f[x] + J[s]
      BY <2>2, <3>1, Zenon
    <3> QED
      BY <2>4, <3>2, <3>3, Zenon
  <2>5. T \in C
    <3> HIDE DEF C
    <3> QED
      BY <2>0, <2>3, <2>4, FiniteSetInductive, Zenon
  <2> QED
    BY <2>5, Zenon DEF I, J
<1> SUFFICES
      ASSUME NEW S, IsFiniteSet(S), NEW f, \A x \in S : f[x] \in Int
      PROVE  /\ SumFunctionOnSet(f, S) \in Int
             /\ SumFunctionOnSet(f, {}) = 0
             /\ \A x \in S : SumFunctionOnSet(f, S) = f[x] + SumFunctionOnSet(f, S \ {x})
  BY Zenon
<1>1. SumIter(f, S) \in [SUBSET S -> Int]
  BY <1>SumIterEquation, Zenon
<1>2. SumIter(f, S)[{}] = 0
  BY <1>SumIterEquation, Zenon
<1>3. SumIter(f, {})[{}] = SumIter(f, S)[{}]
  BY <1>SumIterSubset, Zenon
<1>4. ASSUME NEW x \in S PROVE SumFunctionOnSet(f, S) = f[x] + SumFunctionOnSet(f, S \ {x})
  <2>1. SumIter(f, S)[S] = f[x] + SumIter(f, S)[S \ {x}]
    BY <1>SumIterRemove
  <2>2. SumIter(f, S \ {x})[S \ {x}] = SumIter(f, S)[S \ {x}]
    BY <1>SumIterSubset, Zenon
  <2> QED
    BY <2>1, <2>2, <1>SumIsIter, Zenon
<1> QED
  BY <1>1, <1>2, <1>3, <1>4, <1>SumIsIter, Zenon

\* Two functions that agree on a set have the same sum over it.
LEMMA SumAgree ==
    ASSUME NEW S, IsFiniteSet(S), NEW f, NEW g, \A x \in S : f[x] \in Int /\ g[x] = f[x]
    PROVE  SumFunctionOnSet(f, S) = SumFunctionOnSet(g, S)
<1> DEFINE C == {T \in SUBSET S : SumFunctionOnSet(f, T) = SumFunctionOnSet(g, T)}
<1>1. {} \in C
  BY SumOnSet, Zenon
<1>2. ASSUME NEW T \in SUBSET S, NEW x \in S \ T, T \in C PROVE T \cup {x} \in C
  <2>1. IsFiniteSet(T \cup {x}) /\ (T \cup {x}) \ {x} = T
    BY FiniteFacts, Zenon
  <2>2. SumFunctionOnSet(f, T \cup {x}) = f[x] + SumFunctionOnSet(f, T)
    BY <2>1, SumOnSet
  <2>3. SumFunctionOnSet(g, T \cup {x}) = g[x] + SumFunctionOnSet(g, T)
    BY <2>1, SumOnSet
  <2> QED
    BY <1>2, <2>2, <2>3, Zenon
<1>3. S \in C
  <2> HIDE DEF C
  <2> QED
    BY <1>1, <1>2, FiniteSetInductive, Zenon
<1> QED
  BY <1>3, Zenon

\* A table whose entry at x is added, changed or removed: the sum changes by the
\* difference of the entries.
LEMMA SumChange ==
    ASSUME NEW S, NEW T, NEW x, S \ {x} = T \ {x}, IsFiniteSet(S),
           NEW f \in [S -> Int], NEW g \in [T -> Int], \A y \in S \ {x} : g[y] = f[y]
    PROVE  /\ SumFunction(f) \in Int /\ SumFunction(g) \in Int /\ IsFiniteSet(T)
           /\ SumFunction(g) = SumFunction(f) - (IF x \in S THEN f[x] ELSE 0) + (IF x \in T THEN g[x] ELSE 0)
<1> DEFINE U == S \ {x}
<1>0. T = U \cup (IF x \in T THEN {x} ELSE {})
  BY Zenon
<1>1. IsFiniteSet(U) /\ IsFiniteSet(T)
  <2>1. IsFiniteSet(U)
    BY FiniteFacts, Zenon
  <2>2. IsFiniteSet(U \cup {x})
    BY <2>1, FiniteFacts, Zenon
  <2>3. T = U \/ T = U \cup {x}
    BY <1>0, Zenon
  <2> QED
    BY <2>1, <2>2, <2>3, Zenon
<1>2. SumFunctionOnSet(f, U) = SumFunctionOnSet(g, U) /\ SumFunctionOnSet(f, U) \in Int
  BY <1>1, SumAgree, SumOnSet, Zenon
<1>3. SumFunction(f) = SumFunctionOnSet(f, S) /\ SumFunction(g) = SumFunctionOnSet(g, T)
  BY Zenon DEF SumFunction
<1>4. SumFunctionOnSet(f, S) = SumFunctionOnSet(f, U) + (IF x \in S THEN f[x] ELSE 0)
  <2>1. CASE x \in S
    <3>1. SumFunctionOnSet(f, S) = f[x] + SumFunctionOnSet(f, U)
      BY <2>1, SumOnSet, Zenon
    <3>2. f[x] \in Int
      BY <2>1, Zenon
    <3> QED
      BY <1>2, <2>1, <3>1, <3>2
  <2>2. CASE x \notin S
    BY <1>2, <2>2
  <2> QED
    BY <2>1, <2>2, Zenon
<1>5. SumFunctionOnSet(g, T) = SumFunctionOnSet(g, U) + (IF x \in T THEN g[x] ELSE 0)
  <2>1. CASE x \in T
    <3>1. SumFunctionOnSet(g, T) = g[x] + SumFunctionOnSet(g, T \ {x})
      BY <1>1, <2>1, SumOnSet, Zenon
    <3>2. g[x] \in Int /\ T \ {x} = U
      BY <2>1, Zenon
    <3> HIDE DEF U
    <3>3. SumFunctionOnSet(g, T) = g[x] + SumFunctionOnSet(g, U)
      BY <3>1, <3>2, Zenon
    <3>4. SumFunctionOnSet(g, U) \in Int
      BY <1>2, Zenon
    <3> QED
      BY <2>1, <3>2, <3>3, <3>4
  <2>2. CASE x \notin T
    <3>1. T = U
      BY <2>2, Zenon
    <3> HIDE DEF U
    <3> QED
      BY <1>2, <2>2, <3>1
  <2> QED
    BY <2>1, <2>2, Zenon
<1>6. (IF x \in S THEN f[x] ELSE 0) \in Int /\ (IF x \in T THEN g[x] ELSE 0) \in Int
  OBVIOUS
<1> QED
  <2> HIDE DEF U
  <2> QED
    BY <1>1, <1>2, <1>3, <1>4, <1>5, <1>6

\* A sum of natural numbers is one, and no entry exceeds it.
LEMMA SumBounds ==
    ASSUME NEW S, IsFiniteSet(S), NEW f \in [S -> Nat]
    PROVE  SumFunction(f) \in Nat /\ \A x \in S : f[x] <= SumFunction(f)
<1> DEFINE C == {T \in SUBSET S : SumFunctionOnSet(f, T) \in Nat}
<1>0. \A T \in SUBSET S : IsFiniteSet(T)
  BY FiniteFacts, Zenon
<1>1. ASSUME NEW T \in SUBSET S PROVE T \in C
  <2>1. {} \in C
    <3>1. \A x \in S : f[x] \in Int
      OBVIOUS
    <3>2. SumFunctionOnSet(f, {}) = 0
      BY <3>1, SumOnSet, Zenon
    <3> QED
      BY <3>2
  <2>2. ASSUME NEW U \in SUBSET T, NEW x \in T \ U, U \in C PROVE U \cup {x} \in C
    <3>1. IsFiniteSet(U \cup {x}) /\ (U \cup {x}) \ {x} = U
      BY <1>0, Zenon
    <3>2. SumFunctionOnSet(f, U \cup {x}) = f[x] + SumFunctionOnSet(f, U)
      BY <3>1, SumOnSet
    <3> QED
      BY <2>2, <3>2
  <2> HIDE DEF C
  <2> QED
    BY <1>0, <2>1, <2>2, FiniteSetInductive, Zenon
<1>2. SumFunction(f) \in Nat
  BY <1>1, Zenon DEF SumFunction
<1>3. ASSUME NEW x \in S PROVE f[x] <= SumFunction(f)
  <2>1. SumFunctionOnSet(f, S) = f[x] + SumFunctionOnSet(f, S \ {x})
    BY SumOnSet
  <2>2. SumFunctionOnSet(f, S \ {x}) \in Nat
    BY <1>1, Zenon
  <2> QED
    BY <2>1, <2>2 DEF SumFunction
<1> QED
  BY <1>2, <1>3, Zenon

\* The number of elements is the sum of ones: it counts each element once.
LEMMA CountFacts ==
    /\ Cardinality({}) = 0 /\ \A x : Cardinality({x}) = 1
    /\ \A S : IsFiniteSet(S) =>
          /\ Cardinality(S) \in Nat
          /\ S # {} => Cardinality(S) # 0
          /\ \A x \in S : Cardinality(S \ {x}) = Cardinality(S) - 1
          /\ \A x : x \notin S => Cardinality(S \cup {x}) = Cardinality(S) + 1
<1> DEFINE one(T) == [x \in T |-> 1]
<1>1. ASSUME NEW T PROVE Cardinality(T) = SumFunctionOnSet(one(T), T)
  <2> DEFINE Counts(g) == [s \in SUBSET T |-> IF s = {} THEN 0 ELSE 1 + g[s \ {CHOOSE x : x \in s}]]
             Sums(g) == [s \in SUBSET T |-> IF s = {} THEN 0 ELSE one(T)[Pick(s)] + g[s \ {Pick(s)}]]
  <2>1. ASSUME NEW s \in SUBSET T, s # {} PROVE (CHOOSE x : x \in s) = Pick(s) /\ one(T)[Pick(s)] = 1
    <3>1. (CHOOSE x : x \in s) = Pick(s)
      BY Zenon DEF Pick
    <3>2. Pick(s) \in s
      BY <2>1, Zenon DEF Pick
    <3> QED
      BY <3>1, <3>2, Zenon
  <2>2. ASSUME NEW g PROVE Counts(g) = Sums(g)
    <3>1. ASSUME NEW s \in SUBSET T
          PROVE  (IF s = {} THEN 0 ELSE 1 + g[s \ {CHOOSE x : x \in s}])
                 = (IF s = {} THEN 0 ELSE one(T)[Pick(s)] + g[s \ {Pick(s)}])
      <4>1. s # {} => one(T)[Pick(s)] = 1 /\ (CHOOSE x : x \in s) = Pick(s)
        BY <2>1, Zenon
      <4>2. s # {} => 1 + g[s \ {CHOOSE x : x \in s}] = one(T)[Pick(s)] + g[s \ {Pick(s)}]
        <5> HIDE DEF one
        <5> QED
          BY <4>1, Zenon
      <4> HIDE DEF one
      <4> QED
        BY <4>2, Zenon
    <3> HIDE DEF one
    <3> QED
      BY <3>1, Zenon
  <2>3. Cardinality(T) = (CHOOSE g : g = Counts(g))[T]
    BY Zenon DEF Cardinality
  <2>4. SumFunctionOnSet(one(T), T) = (CHOOSE g : g = Sums(g))[T]
    <3> HIDE DEF one
    <3> QED
      BY Zenon DEF SumFunctionOnSet, FoldFunctionOnSet, MapThenFoldSet, Pick
  <2> HIDE DEF Counts, Sums
  <2>5. (CHOOSE g : g = Counts(g)) = (CHOOSE g : g = Sums(g))
    BY <2>2, Zenon
  <2> QED
    BY <2>3, <2>4, <2>5, Zenon
<1>2. ASSUME NEW T, IsFiniteSet(T)
      PROVE  /\ Cardinality(T) \in Int /\ Cardinality({}) = 0
             /\ \A x \in T : Cardinality(T) = 1 + Cardinality(T \ {x})
  <2>1. \A x \in T : one(T)[x] \in Int
    OBVIOUS
  <2>2. ASSUME NEW U \in SUBSET T PROVE Cardinality(U) = SumFunctionOnSet(one(T), U)
    <3>1. \A x \in U : one(T)[x] \in Int /\ one(U)[x] = one(T)[x]
      OBVIOUS
    <3>2. IsFiniteSet(U)
      BY <1>2, FiniteFacts, Zenon
    <3> HIDE DEF one
    <3> QED
      BY <1>1, <3>1, <3>2, SumAgree, Zenon
  <2>3. ASSUME NEW x \in T PROVE SumFunctionOnSet(one(T), T) = 1 + SumFunctionOnSet(one(T), T \ {x})
    <3>1. one(T)[x] = 1
      BY Zenon
    <3> HIDE DEF one
    <3>2. SumFunctionOnSet(one(T), T) = one(T)[x] + SumFunctionOnSet(one(T), T \ {x})
      BY <1>2, <2>1, SumOnSet, Zenon
    <3> QED
      BY <3>1, <3>2, Zenon
  <2>4. SumFunctionOnSet(one(T), T) \in Int /\ SumFunctionOnSet(one(T), {}) = 0
    <3> HIDE DEF one
    <3> QED
      BY <1>2, <2>1, SumOnSet, Zenon
  <2> HIDE DEF one
  <2> QED
    BY <2>2, <2>3, <2>4, Zenon
<1>3. ASSUME NEW S, IsFiniteSet(S) PROVE \A T \in SUBSET S : Cardinality(T) \in Nat
  <2> DEFINE C == {T \in SUBSET S : Cardinality(T) \in Nat}
  <2>1. {} \in C
    BY <1>2, <1>3
  <2>2. ASSUME NEW T \in SUBSET S, NEW x \in S \ T, T \in C PROVE T \cup {x} \in C
    <3>1. IsFiniteSet(T \cup {x}) /\ (T \cup {x}) \ {x} = T
      BY <1>3, FiniteFacts, Zenon
    <3>2. Cardinality(T \cup {x}) = 1 + Cardinality(T)
      BY <1>2, <3>1, Zenon
    <3> QED
      BY <2>2, <3>2
  <2>3. \A T \in SUBSET S : T \in C
    <3> HIDE DEF C
    <3> QED
      BY <1>3, <2>1, <2>2, FiniteSetInductive, Zenon
  <2> QED
    BY <2>3, Zenon
<1> HIDE DEF one
<1>4. ASSUME NEW S, IsFiniteSet(S), NEW x \in S PROVE Cardinality(S) # 0 /\ Cardinality(S \ {x}) = Cardinality(S) - 1
  <2>1. Cardinality(S) = 1 + Cardinality(S \ {x}) /\ Cardinality(S \ {x}) \in Nat
    BY <1>2, <1>3, <1>4, Zenon
  <2> QED
    BY <2>1
<1>5. ASSUME NEW S, IsFiniteSet(S), NEW x, x \notin S PROVE Cardinality(S \cup {x}) = Cardinality(S) + 1
  <2>1. IsFiniteSet(S \cup {x}) /\ (S \cup {x}) \ {x} = S
    BY <1>5, FiniteFacts, Zenon
  <2>2. Cardinality(S \cup {x}) = 1 + Cardinality(S) /\ Cardinality(S) \in Int
    BY <1>2, <1>5, <2>1, Zenon
  <2> QED
    BY <2>2
<1>6. Cardinality({}) = 0
  BY <1>2, FiniteFacts, Zenon
<1>7. ASSUME NEW x PROVE Cardinality({x}) = 1
  <2>1. {} \cup {x} = {x}
    OBVIOUS
  <2> QED
    BY <1>5, <1>6, <2>1, FiniteFacts
<1> QED
  BY <1>3, <1>4, <1>5, <1>6, <1>7, Zenon

\* What the assumptions say of the values a block holds.
LEMMA BlockFacts ==
    ASSUME NEW h \in Hash
    PROVE  /\ Block[h].type \in {"send", "receive", "open", "change", "state"}
           /\ Block[h].account \in Address /\ Block[h].previous \in Hash \cup {Zero}
           /\ Block[h].link \in Link /\ Block[h].representative \in Address
           /\ Block[h].balance \in Amount /\ Block[h].signer \in Address
           /\ Block[h].previous \in Link
           /\ Block[h].previous \in Hash => Age[Block[h].previous] < Age[h]
           /\ Block[h].link \in Hash => Age[Block[h].link] < Age[h]
           /\ Block[h].type = "open" => Block[h].previous = Zero
           /\ Age[h] \in Nat
           /\ h # Zero /\ h \notin Address /\ h \in Link
  BY LedgerValues, GenesisBlock, HashesAreNotCircular, Zenon DEF BlockContent, LegacyType, Link, Address

\* What the assumptions say of the constants.
LEMMA ValueFacts ==
    /\ MaxAmount \in Nat /\ MaxAmount > 0 /\ Amount = 0..MaxAmount
    /\ Modulus = MaxAmount + 1
    /\ Zero \notin Hash /\ Zero \notin Account /\ GenesisAccount \in Account /\ GenesisAccount \notin Hash
    /\ GenesisAccount # Zero /\ Zero \in Link /\ GenesisAccount \in Link
    /\ \A a \in Account : a \notin Hash /\ a \in Address
    /\ \A a \in Address : a \notin Hash
    /\ Genesis \in Hash /\ Hash \subseteq Link
  BY LedgerValues, GenesisBlock DEF Link, Address, Amount, Modulus

\* The blocks that a block names are older than it.
LEMMA NamedAreOlder ==
    ASSUME NEW h \in Hash, NEW x \in Named(h)
    PROVE  x \in Hash /\ Age[x] < Age[h]
  BY BlockFacts, ValueFacts, Zenon DEF Named, SourceOf

\* Reference satisfies the equation that defines it.
LEMMA ReferenceEquation ==
    /\ Reference \in [Question -> Int]
    /\ \A q \in Question : Reference[q] =
        (LET x == q[2]
             b == Block[x]
         IN  CASE x = GenesisAccount -> MaxAmount
               [] x \in Address \ {GenesisAccount} -> 0
               [] x \in Hash /\ q[1] = "balance" ->
                    (CASE b.type \in {"send", "state"} -> b.balance
                       [] b.type = "change" -> Reference[<<"balance", b.previous>>]
                       [] b.type \in {"receive", "open"} ->
                            Reference[<<"balance", b.previous>>] + Reference[<<"amount", b.link>>])
               [] x \in Hash /\ q[1] = "amount" ->
                    (CASE b.type \in {"send", "state"} -> Difference(Reference[<<"balance", b.previous>>], b.balance)
                       [] b.type \in {"receive", "open"} -> Reference[<<"amount", b.link>>]
                       [] b.type = "change" -> 0))
<1> DEFINE Body(r, q) ==
         LET x == q[2]
             b == Block[x]
         IN  CASE x = GenesisAccount -> MaxAmount
               [] x \in Address \ {GenesisAccount} -> 0
               [] x \in Hash /\ q[1] = "balance" ->
                    (CASE b.type \in {"send", "state"} -> b.balance
                       [] b.type = "change" -> r[<<"balance", b.previous>>]
                       [] b.type \in {"receive", "open"} ->
                            r[<<"balance", b.previous>>] + r[<<"amount", b.link>>])
               [] x \in Hash /\ q[1] = "amount" ->
                    (CASE b.type \in {"send", "state"} -> Difference(r[<<"balance", b.previous>>], b.balance)
                       [] b.type \in {"receive", "open"} -> r[<<"amount", b.link>>]
                       [] b.type = "change" -> 0)
           D == Question
           rank == [q \in D |-> IF q[2] \in Hash THEN Age[q[2]] + 1 ELSE 0]
           step == [p \in D \X [D -> Int] |-> Body(p[2], p[1])]
<1>1. \A q \in D : q[1] \in {"balance", "amount"} /\ q[2] \in Link
  BY Zenon DEF Question
<1>2. \A h \in Hash : /\ <<"balance", Block[h].previous>> \in D /\ <<"amount", Block[h].link>> \in D
                      /\ <<"amount", h>> \in D /\ <<"balance", h>> \in D
  BY BlockFacts, Zenon DEF Question
<1>3. rank \in [D -> Nat]
  BY <1>1, BlockFacts
<1>4. ASSUME NEW q \in D, q[2] \in Hash
      PROVE  /\ rank[<<"balance", Block[q[2]].previous>>] < rank[q]
             /\ rank[<<"amount", Block[q[2]].link>>] < rank[q]
  <2> DEFINE h == q[2]
  <2>1. h \in Hash
    BY <1>4, Zenon
  <2> HIDE DEF h
  <2>2. \A t \in {"balance", "amount"} : \A x \in Link : <<t, x>> \in D => rank[<<t, x>>] = IF x \in Hash THEN Age[x] + 1 ELSE 0
    <3> HIDE DEF D
    <3> QED
      BY Zenon
  <2>3. rank[q] = Age[h] + 1
    <3> HIDE DEF D
    <3> QED
      BY <2>1, Zenon DEF h
  <2> HIDE DEF rank, D
  <2>4. rank[<<"balance", Block[h].previous>>] = IF Block[h].previous \in Hash THEN Age[Block[h].previous] + 1 ELSE 0
    BY <1>2, <2>1, <2>2, BlockFacts, Zenon
  <2>5. rank[<<"amount", Block[h].link>>] = IF Block[h].link \in Hash THEN Age[Block[h].link] + 1 ELSE 0
    BY <1>2, <2>1, <2>2, BlockFacts, Zenon
  <2>6. rank[<<"balance", Block[h].previous>>] < rank[q] /\ rank[<<"amount", Block[h].link>>] < rank[q]
    BY <2>1, <2>3, <2>4, <2>5, BlockFacts
  <2> QED
    BY <2>6, Zenon DEF h
<1>5. ASSUME NEW r \in [D -> Int], NEW q \in D PROVE Body(r, q) \in Int
  <2>1. CASE q[2] \notin Hash
    BY <1>1, <2>1, ValueFacts DEF Link
  <2>2. CASE q[2] \in Hash
    <3>1. /\ r[<<"balance", Block[q[2]].previous>>] \in Int /\ r[<<"amount", Block[q[2]].link>>] \in Int
          /\ Block[q[2]].balance \in Int
      <4>1. Block[q[2]].balance \in Int
        BY <2>2, BlockFacts, ValueFacts
      <4>2. <<"balance", Block[q[2]].previous>> \in D /\ <<"amount", Block[q[2]].link>> \in D
        BY <1>2, <2>2, Zenon
      <4> HIDE DEF D
      <4> QED
        BY <4>1, <4>2, Zenon
    <3>2. Block[q[2]].type \in {"send", "receive", "open", "change", "state"}
      BY <2>2, BlockFacts, Zenon
    <3>3. q[2] # GenesisAccount /\ q[2] \notin Address
      BY <2>2, ValueFacts, Zenon
    <3> QED
      BY <1>1, <2>2, <3>1, <3>2, <3>3 DEF Difference
  <2> QED
    BY <2>1, <2>2, Zenon
<1>6. step \in [D \X [D -> Int] -> Int]
  <2> HIDE DEF Body
  <2> QED
    BY <1>5, Zenon
<1>7. ASSUME NEW q \in D, NEW f, NEW g, \A p \in D : rank[p] < rank[q] => f[p] = g[p]
      PROVE  Body(f, q) = Body(g, q)
  <2>1. CASE q[2] \notin Hash
    BY <1>1, <2>1, ValueFacts, Zenon DEF Link
  <2>2. CASE q[2] \in Hash
    <3>1. /\ f[<<"balance", Block[q[2]].previous>>] = g[<<"balance", Block[q[2]].previous>>]
          /\ f[<<"amount", Block[q[2]].link>>] = g[<<"amount", Block[q[2]].link>>]
      <4> HIDE DEF rank
      <4> QED
        BY <1>2, <1>4, <1>7, <2>2, Zenon
    <3>2. Block[q[2]].type \in {"send", "receive", "open", "change", "state"}
      BY <2>2, BlockFacts, Zenon
    <3>3. q[2] # GenesisAccount /\ q[2] \notin Address
      BY <2>2, ValueFacts, Zenon
    <3> QED
      BY <1>1, <2>2, <3>1, <3>2, <3>3, Zenon
  <2> QED
    BY <2>1, <2>2, Zenon
<1>8. Recurses(D, Int, rank, step)
  <2> HIDE DEF rank, step, D
  <2> QED
    <3>1. ASSUME NEW q \in D, NEW f \in [D -> Int], NEW g \in [D -> Int],
                 \A p \in D : rank[p] < rank[q] => f[p] = g[p]
          PROVE  step[<<q, f>>] = step[<<q, g>>]
      <4>1. step[<<q, f>>] = Body(f, q) /\ step[<<q, g>>] = Body(g, q)
        <5> HIDE DEF Body
        <5> QED
          BY Zenon DEF step
      <4>2. Body(f, q) = Body(g, q)
        <5> HIDE DEF Body
        <5> QED
          BY <1>7, <3>1, Zenon
      <4> HIDE DEF Body
      <4> QED
        BY <4>1, <4>2, Zenon
    <3> QED
      BY <1>3, <1>6, <3>1, Zenon DEF Recurses
<1>9. PICK g \in [D -> Int] : \A q \in D : g[q] = step[<<q, g>>]
  <2> HIDE DEF rank, step, D
  <2> QED
    BY <1>8, RecursionExists
<1>10. \A q \in D : g[q] = Body(g, q)
  <2>1. \A q \in D : step[<<q, g>>] = Body(g, q)
    <3> HIDE DEF Body, D
    <3> QED
      BY Zenon
  <2> HIDE DEF Body, step
  <2> QED
    BY <1>9, <2>1, Zenon
<1>11. g = [q \in D |-> Body(g, q)]
  <2> HIDE DEF Body
  <2> QED
    BY <1>10, Zenon
<1> DEFINE R == Reference
<1>12. R = [q \in D |-> Body(R, q)]
  BY <1>11 DEF Reference, Question
<1>13. \A q \in D : R[q] = Body(R, q)
  <2> HIDE DEF Body, R
  <2> QED
    BY <1>12, Zenon
<1>14. \A q \in D : R[q] = g[q]
  <2> DEFINE C == {n \in Nat : \A q \in D : rank[q] = n => R[q] = g[q]}
  <2> HIDE DEF R, D, rank, Body
  <2>1. ASSUME NEW n \in Nat, \A m \in Nat : m < n => m \in C PROVE n \in C
    <3> SUFFICES ASSUME NEW q \in D, rank[q] = n PROVE R[q] = g[q]
      BY Zenon
    <3>1. \A p \in D : rank[p] < rank[q] => R[p] = g[p]
      BY <1>3, <2>1, Zenon
    <3>2. Body(R, q) = Body(g, q)
      BY <1>7, <3>1, Zenon
    <3> QED
      BY <1>10, <1>13, <3>2, Zenon
  <2>2. Nat \subseteq C
    <3> HIDE DEF C
    <3> QED
      BY <2>1, NatCourseOfValues, Zenon
  <2> QED
    BY <1>3, <2>2, Zenon
<1>15. R \in [D -> Int]
  <2>1. R = [q \in D |-> R[q]]
    <3> HIDE DEF Body
    <3> QED
      BY <1>12, <1>13, Zenon
  <2> HIDE DEF R, D
  <2> QED
    BY <1>14, <2>1, Zenon
<1> QED
  BY <1>13, <1>15, Zenon

\* What a block means, by its type.
LEMMA MeaningFacts ==
    /\ BalanceAfter(Zero) = 0 /\ AmountOf(GenesisAccount) = MaxAmount
    /\ \A h \in Hash :
          /\ BalanceAfter(h) \in Int /\ AmountOf(h) \in Int
          /\ Block[h].type \in {"send", "state"} =>
                BalanceAfter(h) = Block[h].balance /\ AmountOf(h) = Difference(BalanceAfter(Block[h].previous), Block[h].balance)
          /\ Block[h].type = "change" => BalanceAfter(h) = BalanceAfter(Block[h].previous) /\ AmountOf(h) = 0
          /\ Block[h].type \in {"receive", "open"} =>
                BalanceAfter(h) = BalanceAfter(Block[h].previous) + AmountOf(Block[h].link) /\ AmountOf(h) = AmountOf(Block[h].link)
<1>1. \A x \in Link : <<"balance", x>> \in Question /\ <<"amount", x>> \in Question
  BY Zenon DEF Question
<1>2. BalanceAfter(Zero) = 0 /\ AmountOf(GenesisAccount) = MaxAmount
  <2>1. BalanceAfter(Zero) = 0
    BY <1>1, ReferenceEquation, ValueFacts, Zenon DEF BalanceAfter, Address
  <2>2. AmountOf(GenesisAccount) = MaxAmount
    BY <1>1, ReferenceEquation, ValueFacts, Zenon DEF AmountOf
  <2> QED
    BY <2>1, <2>2, Zenon
<1>3. ASSUME NEW h \in Hash
      PROVE  /\ BalanceAfter(h) \in Int /\ AmountOf(h) \in Int
             /\ BalanceAfter(h) =
                  (CASE Block[h].type \in {"send", "state"} -> Block[h].balance
                     [] Block[h].type = "change" -> BalanceAfter(Block[h].previous)
                     [] Block[h].type \in {"receive", "open"} -> BalanceAfter(Block[h].previous) + AmountOf(Block[h].link))
             /\ AmountOf(h) =
                  (CASE Block[h].type \in {"send", "state"} -> Difference(BalanceAfter(Block[h].previous), Block[h].balance)
                     [] Block[h].type \in {"receive", "open"} -> AmountOf(Block[h].link)
                     [] Block[h].type = "change" -> 0)
  <2>1. <<"balance", h>> \in Question /\ <<"amount", h>> \in Question
    BY <1>1, BlockFacts, Zenon
  <2>2. h # GenesisAccount /\ h \notin Address
    BY BlockFacts, ValueFacts, Zenon
  <2>3. Reference \in [Question -> Int]
    BY ReferenceEquation, Zenon
  <2>4. BalanceAfter(h) \in Int /\ AmountOf(h) \in Int
    BY <2>1, <2>3, Zenon DEF BalanceAfter, AmountOf
  <2>5. Reference[<<"balance", h>>] =
                  (CASE Block[h].type \in {"send", "state"} -> Block[h].balance
                     [] Block[h].type = "change" -> Reference[<<"balance", Block[h].previous>>]
                     [] Block[h].type \in {"receive", "open"} ->
                            Reference[<<"balance", Block[h].previous>>] + Reference[<<"amount", Block[h].link>>])
    BY <2>1, <2>2, ReferenceEquation, Zenon
  <2>6. Reference[<<"amount", h>>] =
                  (CASE Block[h].type \in {"send", "state"} -> Difference(Reference[<<"balance", Block[h].previous>>], Block[h].balance)
                     [] Block[h].type \in {"receive", "open"} -> Reference[<<"amount", Block[h].link>>]
                     [] Block[h].type = "change" -> 0)
    BY <2>1, <2>2, ReferenceEquation, Zenon
  <2> QED
    BY <2>4, <2>5, <2>6, Zenon DEF BalanceAfter, AmountOf
<1> QED
  BY <1>2, <1>3, Zenon

\* A block is a send or a receipt of a send, or neither.
LEMMA KindFacts ==
    ASSUME NEW h \in Hash
    PROVE  /\ SourceOf(h) # Zero => ~IsSend(h) /\ SourceOf(h) = Block[h].link /\ h # Genesis
           /\ SourceOf(Genesis) = Zero /\ ~IsSend(Genesis)
           /\ Block[h].type \in {"receive", "open"} => ~IsSend(h) /\ (h # Genesis => SourceOf(h) = Block[h].link)
           /\ Block[h].type \in {"send", "change"} => SourceOf(h) = Zero
           /\ Block[h].type = "send" => IsSend(h)
           /\ Block[h].type = "change" => ~IsSend(h)
           /\ Block[h].type = "state" => SourceOf(h) = IF IsSend(h) THEN Zero ELSE Block[h].link
<1>1. Block[Genesis].type = "open"
  BY GenesisBlock, Zenon
<1>2. Block[h].type = "state" => h # Genesis
  BY GenesisBlock, Zenon
<1> QED
  BY <1>1, <1>2, BlockFacts, Zenon DEF SourceOf, IsSend

\* The representative in force after a block.
LEMMA RepFacts ==
    /\ RepBlock[Zero] = Zero
    /\ \A h \in Hash : /\ RepBlock[h] \in Hash \cup {Zero}
                       /\ NamesRepresentative(h) => RepBlock[h] = h
                       /\ ~NamesRepresentative(h) => RepBlock[h] = RepBlock[Block[h].previous]
\* RepBlock satisfies the equation that defines it.
<1>RepBlockEquation.
  /\ RepBlock \in [Link -> Hash \cup {Zero}]
  /\ \A x \in Link : RepBlock[x] =
        IF x \notin Hash THEN Zero ELSE IF NamesRepresentative(x) THEN x ELSE RepBlock[Block[x].previous]
  <2> DEFINE Body(r, q) == IF q \notin Hash THEN Zero ELSE IF NamesRepresentative(q) THEN q ELSE r[Block[q].previous]
             D == Link
             V == Hash \cup {Zero}
             rank == [x \in D |-> IF x \in Hash THEN Age[x] + 1 ELSE 0]
             step == [p \in D \X [D -> V] |-> Body(p[2], p[1])]
  <2>3. rank \in [D -> Nat]
    BY BlockFacts
  <2>4. ASSUME NEW q \in Hash PROVE q \in D /\ Block[q].previous \in D /\ rank[Block[q].previous] < rank[q]
    <3> q \in D /\ Block[q].previous \in D
      BY BlockFacts, Zenon
    <3> HIDE DEF D
    <3> QED
      BY BlockFacts
  <2>5. ASSUME NEW r \in [D -> V], NEW q \in D PROVE Body(r, q) \in V
    BY <2>4, Zenon
  <2>6. step \in [D \X [D -> V] -> V]
    <3> HIDE DEF Body, V
    <3> QED
      BY <2>5, Zenon
  <2>7. ASSUME NEW q \in D, NEW f, NEW g, \A p \in D : rank[p] < rank[q] => f[p] = g[p]
        PROVE  Body(f, q) = Body(g, q)
    <3>1. q \in Hash => f[Block[q].previous] = g[Block[q].previous]
      <4> HIDE DEF rank, D
      <4> QED
        BY <2>4, <2>7, Zenon
    <3> QED
      BY <3>1, Zenon
  <2>8. Recurses(D, V, rank, step)
    <3>1. ASSUME NEW q \in D, NEW f \in [D -> V], NEW g \in [D -> V],
                 \A p \in D : rank[p] < rank[q] => f[p] = g[p]
          PROVE  step[<<q, f>>] = step[<<q, g>>]
      <4> HIDE DEF Body, V, D, rank
      <4>1. step[<<q, f>>] = Body(f, q) /\ step[<<q, g>>] = Body(g, q)
        BY Zenon
      <4>2. Body(f, q) = Body(g, q)
        BY <2>7, <3>1, Zenon
      <4> QED
        BY <4>1, <4>2, Zenon
    <3> HIDE DEF rank, step, D, V
    <3> QED
      BY <2>3, <2>6, <3>1, Zenon DEF Recurses
  <2>9. PICK g \in [D -> V] : \A q \in D : g[q] = step[<<q, g>>]
    <3>1. V # {}
      BY Zenon
    <3> HIDE DEF rank, step, D, V
    <3> QED
      BY <2>8, <3>1, RecursionExists
  <2>10. \A q \in D : g[q] = Body(g, q)
    <3>1. \A q \in D : step[<<q, g>>] = Body(g, q)
      <4> HIDE DEF Body, D, V
      <4> QED
        BY Zenon
    <3> HIDE DEF Body, step
    <3> QED
      BY <2>9, <3>1, Zenon
  <2>11. g = [q \in D |-> Body(g, q)]
    <3> HIDE DEF Body, V
    <3> QED
      BY <2>10, Zenon
  <2> DEFINE R == RepBlock
  <2>12. R = [q \in D |-> Body(R, q)]
    BY <2>11, Zenon DEF RepBlock
  <2>13. \A q \in D : R[q] = Body(R, q)
    <3> HIDE DEF Body, R
    <3> QED
      BY <2>12, Zenon
  <2>14. \A q \in D : R[q] = g[q]
    <3> DEFINE C == {n \in Nat : \A q \in D : rank[q] = n => R[q] = g[q]}
    <3> HIDE DEF R, D, rank, Body, V
    <3>1. ASSUME NEW n \in Nat, \A m \in Nat : m < n => m \in C PROVE n \in C
      <4> SUFFICES ASSUME NEW q \in D, rank[q] = n PROVE R[q] = g[q]
        BY Zenon
      <4>1. \A p \in D : rank[p] < rank[q] => R[p] = g[p]
        BY <2>3, <3>1, Zenon
      <4>2. Body(R, q) = Body(g, q)
        BY <2>7, <4>1, Zenon
      <4> QED
        BY <2>10, <2>13, <4>2, Zenon
    <3>2. Nat \subseteq C
      <4> HIDE DEF C
      <4> QED
        BY <3>1, NatCourseOfValues, Zenon
    <3> QED
      BY <2>3, <3>2, Zenon
  <2>15. R \in [D -> V]
    <3>1. R = [q \in D |-> R[q]]
      <4> HIDE DEF Body
      <4> QED
        BY <2>12, <2>13, Zenon
    <3> HIDE DEF R, D, V
    <3> QED
      BY <2>14, <3>1, Zenon
  <2> QED
    BY <2>13, <2>15, Zenon
<1> QED
  BY <1>RepBlockEquation, ValueFacts, Zenon

\* A block is an ancestor of itself and has the ancestors of what it names; no
\* other, and all of them are older.
LEMMA AncestorFacts ==
    \A h \in Hash :
        /\ Ancestors[h] \subseteq Hash /\ h \in Ancestors[h]
        /\ \A x \in Named(h) : Ancestors[x] \subseteq Ancestors[h]
        /\ \A y \in Ancestors[h] : y = h \/ \E x \in Named(h) : y \in Ancestors[x]
\* Ancestors satisfies the equation that defines it.
<1>AncestorsEquation.
  /\ Ancestors \in [Hash -> SUBSET Hash]
  /\ \A h \in Hash : Ancestors[h] = {h} \cup UNION {Ancestors[x] : x \in Named(h)}
  <2> DEFINE Body(r, q) == {q} \cup UNION {r[x] : x \in Named(q)}
             D == Hash
             V == SUBSET Hash
             rank == [x \in D |-> Age[x]]
             step == [p \in D \X [D -> V] |-> Body(p[2], p[1])]
  <2>3. rank \in [D -> Nat]
    BY BlockFacts, Zenon
  <2>4. ASSUME NEW q \in Hash, NEW x \in Named(q) PROVE x \in D /\ rank[x] < rank[q]
    BY NamedAreOlder, BlockFacts, Zenon
  <2>5. ASSUME NEW r \in [D -> V], NEW q \in D PROVE Body(r, q) \in V
    <3>1. \A x \in Named(q) : r[x] \in SUBSET Hash
      BY <2>4, Zenon
    <3> QED
      BY <3>1, Zenon
  <2>6. step \in [D \X [D -> V] -> V]
    <3> HIDE DEF Body, V
    <3> QED
      BY <2>5, Zenon
  <2>7. ASSUME NEW q \in D, NEW f, NEW g, \A p \in D : rank[p] < rank[q] => f[p] = g[p]
        PROVE  Body(f, q) = Body(g, q)
    <3>1. \A x \in Named(q) : f[x] = g[x]
      <4> HIDE DEF rank
      <4> QED
        BY <2>4, <2>7, Zenon
    <3> QED
      BY <3>1, Zenon
  <2>8. Recurses(D, V, rank, step)
    <3>1. ASSUME NEW q \in D, NEW f \in [D -> V], NEW g \in [D -> V],
                 \A p \in D : rank[p] < rank[q] => f[p] = g[p]
          PROVE  step[<<q, f>>] = step[<<q, g>>]
      <4> HIDE DEF Body, V, D, rank
      <4>1. step[<<q, f>>] = Body(f, q) /\ step[<<q, g>>] = Body(g, q)
        OBVIOUS
      <4>2. Body(f, q) = Body(g, q)
        BY <2>7, <3>1
      <4> QED
        BY <4>1, <4>2
    <3> HIDE DEF rank, step, D, V
    <3> QED
      BY <2>3, <2>6, <3>1, Zenon DEF Recurses
  <2>9. PICK g \in [D -> V] : \A q \in D : g[q] = step[<<q, g>>]
    <3>1. V # {}
      BY Zenon
    <3> HIDE DEF rank, step, D, V
    <3> QED
      BY <2>8, <3>1, RecursionExists
  <2>10. \A q \in D : g[q] = Body(g, q)
    <3>1. \A q \in D : step[<<q, g>>] = Body(g, q)
      <4> HIDE DEF Body, D, V
      <4> QED
        OBVIOUS
    <3> HIDE DEF Body, step
    <3> QED
      BY <2>9, <3>1, Zenon
  <2>11. g = [q \in D |-> Body(g, q)]
    <3> HIDE DEF Body, V
    <3> QED
      BY <2>10, Zenon
  <2> DEFINE R == Ancestors
  <2>12. R = [q \in D |-> Body(R, q)]
    BY <2>11, Zenon DEF Ancestors
  <2>13. \A q \in D : R[q] = Body(R, q)
    <3> HIDE DEF Body, R
    <3> QED
      BY <2>12, Zenon
  <2>14. \A q \in D : R[q] = g[q]
    <3> DEFINE C == {n \in Nat : \A q \in D : rank[q] = n => R[q] = g[q]}
    <3> HIDE DEF R, D, rank, Body, V
    <3>1. ASSUME NEW n \in Nat, \A m \in Nat : m < n => m \in C PROVE n \in C
      <4> SUFFICES ASSUME NEW q \in D, rank[q] = n PROVE R[q] = g[q]
        OBVIOUS
      <4>1. \A p \in D : rank[p] < rank[q] => R[p] = g[p]
        BY <2>3, <3>1
      <4>2. Body(R, q) = Body(g, q)
        BY <2>7, <4>1
      <4> QED
        BY <2>10, <2>13, <4>2
    <3>2. Nat \subseteq C
      <4> HIDE DEF C
      <4> QED
        BY <3>1, NatCourseOfValues
    <3> QED
      BY <2>3, <3>2
  <2>15. R \in [D -> V]
    <3>1. R = [q \in D |-> R[q]]
      <4> HIDE DEF Body
      <4> QED
        BY <2>12, <2>13, Zenon
    <3> HIDE DEF R, D, V
    <3> QED
      BY <2>14, <3>1
  <2> QED
    BY <2>13, <2>15, Zenon
<1> SUFFICES
      ASSUME NEW h \in Hash
      PROVE  /\ Ancestors[h] \subseteq Hash /\ h \in Ancestors[h]
             /\ \A x \in Named(h) : Ancestors[x] \subseteq Ancestors[h]
             /\ \A y \in Ancestors[h] : y = h \/ \E x \in Named(h) : y \in Ancestors[x]
  BY Zenon
<1> QED
  BY <1>AncestorsEquation

\* The ancestors of a block are not younger than it, and theirs are its too.
LEMMA AncestorsAreOlder ==
    \A h \in Hash : \A y \in Ancestors[h] : y \in Hash /\ Age[y] <= Age[h] /\ Ancestors[y] \subseteq Ancestors[h]
<1> DEFINE C == {n \in Nat : \A h \in Hash : Age[h] = n =>
                   \A y \in Ancestors[h] : y \in Hash /\ Age[y] <= Age[h] /\ Ancestors[y] \subseteq Ancestors[h]}
<1>1. ASSUME NEW n \in Nat, \A m \in Nat : m < n => m \in C PROVE n \in C
  <2> SUFFICES ASSUME NEW h \in Hash, Age[h] = n, NEW y \in Ancestors[h]
               PROVE  y \in Hash /\ Age[y] <= Age[h] /\ Ancestors[y] \subseteq Ancestors[h]
    BY Zenon
  <2>1. CASE y = h
    BY <2>1, BlockFacts
  <2>2. CASE y # h
    <3>1. PICK x \in Named(h) : y \in Ancestors[x]
      BY <2>2, AncestorFacts, Zenon
    <3>2. x \in Hash /\ Age[x] < Age[h] /\ Age[x] \in Nat
      BY NamedAreOlder, BlockFacts, Zenon
    <3>3. y \in Hash /\ Age[y] <= Age[x] /\ Ancestors[y] \subseteq Ancestors[x]
      BY <1>1, <3>1, <3>2, Zenon
    <3>4. Ancestors[x] \subseteq Ancestors[h]
      BY AncestorFacts, Zenon
    <3>5. Age[y] \in Nat
      BY <3>3, BlockFacts, Zenon
    <3> QED
      BY <3>2, <3>3, <3>4, <3>5
  <2> QED
    BY <2>1, <2>2, Zenon
<1>2. Nat \subseteq C
  <2> HIDE DEF C
  <2> QED
    BY <1>1, NatCourseOfValues, Zenon
<1> QED
  BY <1>2, BlockFacts, Zenon

-----------------------------------------------------------------------------
(* The representative in force *)
\* The representative block of a stored block is a stored block of its chain.
LEMMA RepStored ==
    ASSUME Tables, Linked
    PROVE  \A h \in DOMAIN blocks :
              /\ RepBlock[h] \in DOMAIN blocks /\ Block[RepBlock[h]].signer = Block[h].signer
              /\ NamesRepresentative(RepBlock[h]) /\ Age[RepBlock[h]] <= Age[h]
<1> DEFINE Good(h) == /\ RepBlock[h] \in DOMAIN blocks /\ Block[RepBlock[h]].signer = Block[h].signer
                      /\ NamesRepresentative(RepBlock[h]) /\ Age[RepBlock[h]] <= Age[h]
           C == {n \in Nat : \A h \in DOMAIN blocks : Age[h] = n => Good(h)}
<1>0. DOMAIN blocks \subseteq Hash
  BY Zenon DEF Tables
<1>1. ASSUME NEW n \in Nat, \A m \in Nat : m < n => m \in C PROVE n \in C
  <2> SUFFICES ASSUME NEW h \in DOMAIN blocks, Age[h] = n PROVE Good(h)
    BY Zenon
  <2>1. CASE NamesRepresentative(h)
    BY <1>0, <2>1, RepFacts, BlockFacts
  <2>2. CASE ~NamesRepresentative(h)
    <3> DEFINE p == Block[h].previous
    <3>1. Block[h].type \notin {"open", "state"}
      BY <2>2, Zenon DEF NamesRepresentative
    <3>2. p \in DOMAIN blocks /\ Block[p].signer = Block[h].signer
      BY <3>1, Zenon DEF Linked, BlockLinked
    <3>3. Age[p] < Age[h] /\ Age[p] \in Nat
      BY <1>0, <3>2, BlockFacts, Zenon
    <3>4. Good(p)
      BY <1>1, <3>2, <3>3, Zenon
    <3>5. RepBlock[h] = RepBlock[p]
      BY <1>0, <2>2, RepFacts, Zenon
    <3>6. Age[RepBlock[p]] \in Nat
      BY <1>0, <3>4, BlockFacts, Zenon
    <3> QED
      BY <3>2, <3>3, <3>4, <3>5, <3>6
  <2> QED
    BY <2>1, <2>2, Zenon
<1>2. Nat \subseteq C
  <2> HIDE DEF C
  <2> QED
    BY <1>1, NatCourseOfValues, Zenon
<1> QED
  BY <1>0, <1>2, BlockFacts, Zenon

-----------------------------------------------------------------------------
(* Heights and snapshots *)
\* The chain up to its head is the chain.
LEMMA HeadHeight ==
    ASSUME Owned, Ordered, NEW a \in DOMAIN accounts
    PROVE  Height(accounts[a].head) = accounts[a].block_count
<1> DEFINE h == accounts[a].head
<1>1. Block[h].signer = a /\ accounts[a].block_count = Cardinality(ChainOf(a))
  BY Zenon DEF Owned, AccountLinked
<1>2. {x \in DOMAIN blocks : Block[x].signer = Block[h].signer /\ Age[x] <= Age[h]} = ChainOf(a)
  BY <1>1, Zenon DEF ChainOf, Stored, Ordered
<1> QED
  BY <1>1, <1>2, Zenon DEF Height

\* The same for all accounts.
LEMMA HeadHeights ==
    Owned /\ Ordered => \A a \in DOMAIN accounts : Height(accounts[a].head) = accounts[a].block_count
  BY HeadHeight, Zenon

\* The parts of the invariant of the tables.
LEMMA BaseParts ==
    Base => Tables /\ Linked /\ Owned /\ Ordered /\ Meant /\ Settled /\ Headed /\ Snapshots /\ SupplyIsConserved
  BY Zenon DEF Base

-----------------------------------------------------------------------------
(* The supply *)
\* Balances and pending amounts are natural numbers, and so bounded by their sum.
LEMMA SupplyBounds ==
    ASSUME Tables, Meant, Settled
    PROVE  /\ Balances \in [DOMAIN accounts -> Nat] /\ Amounts \in [DOMAIN pending -> Nat]
           /\ SumFunction(Balances) \in Nat /\ SumFunction(Amounts) \in Nat
           /\ \A a \in DOMAIN accounts : accounts[a].balance <= SumFunction(Balances)
           /\ \A k \in DOMAIN pending : pending[k].amount <= SumFunction(Amounts)
<1>1. Balances \in [DOMAIN accounts -> Nat]
  BY ValueFacts DEF Balances, Tables
<1>2. Amounts \in [DOMAIN pending -> Nat]
  <2>1. \A k \in DOMAIN pending : pending[k].amount \in Nat
    BY ValueFacts DEF Settled, Meant, BlockMeans
  <2> QED
    BY <2>1, Zenon DEF Amounts
<1>3. SumFunction(Balances) \in Nat /\ \A a \in DOMAIN accounts : Balances[a] <= SumFunction(Balances)
  BY <1>1, SumBounds, Zenon DEF Tables
<1>4. SumFunction(Amounts) \in Nat /\ \A k \in DOMAIN pending : Amounts[k] <= SumFunction(Amounts)
  BY <1>2, SumBounds, Zenon DEF Settled
<1> QED
  BY <1>1, <1>2, <1>3, <1>4, Zenon DEF Balances, Amounts

\* Balances and pending amounts are functions to be summed.
LEMMA SupplyTyped ==
    Tables /\ Meant /\ Settled => Balances \in [DOMAIN accounts -> Int] /\ Amounts \in [DOMAIN pending -> Int]
  BY SupplyBounds

\* balance() and amount() of a stored block are what its history implies, with
\* the shortcuts through block_info and in 128 bit arithmetic.
LEMMA VisitorIsRight ==
        (/\ Tables
         /\ Linked
         /\ Meant
         /\ Snapshots)
        => (/\ \A x \in DOMAIN blocks : balance(x) = BalanceAfter(x) /\ amount(x) = AmountOf(x)
            /\ balance(Zero) = 0 /\ amount(GenesisAccount) = MaxAmount)
\* The shape of the arguments on which balance() and amount() of a stored block
\* call each other: a stored block, or the genesis account, or nothing.
<1>VisitorArguments.
  ASSUME Tables, Linked, Meant, NEW h \in DOMAIN blocks
  PROVE  /\ Block[h].previous \in DOMAIN blocks \cup {Zero}
         /\ Block[h].type \in {"receive", "change", "send"} => Block[h].previous \in DOMAIN blocks
         /\ Block[h].type = "receive" => Block[h].link \in DOMAIN blocks
         /\ Block[h].type = "open" =>
               Block[h].previous = Zero /\ Block[h].link \in DOMAIN blocks \cup {GenesisAccount}
  <2> USE <1>VisitorArguments
  <2>1. BlockLinked(h) /\ BlockMeans(h) /\ h \in Hash
    BY Zenon DEF Tables, Linked, Meant
  <2>2. Block[h].previous \in DOMAIN blocks \cup {Zero}
    BY <2>1, Zenon DEF BlockLinked
  <2>3. Block[h].type \in {"receive", "change", "send"} => Block[h].previous \in DOMAIN blocks
    BY <2>1, Zenon DEF BlockLinked
  <2>4. Block[Genesis].type = "open" /\ Block[Genesis].link = GenesisAccount
    BY GenesisBlock, Zenon
  <2>5. ASSUME Block[h].type \in {"receive", "open"}, h # Genesis PROVE Block[h].link \in DOMAIN blocks
    <3>1. SourceOf(h) = Block[h].link
      BY <2>1, <2>5, KindFacts, Zenon
    <3> QED
      BY <2>1, <2>5, <3>1, Zenon DEF BlockMeans
  <2> QED
    BY <2>1, <2>2, <2>3, <2>4, <2>5, BlockFacts, Zenon
<1> SUFFICES
      ASSUME Tables, Linked, Meant, Snapshots
      PROVE  /\ \A x \in DOMAIN blocks : balance(x) = BalanceAfter(x) /\ amount(x) = AmountOf(x)
             /\ balance(Zero) = 0 /\ amount(GenesisAccount) = MaxAmount
  BY Zenon
<1> DEFINE D == Question
           Body(f, q) ==
             LET x == q[2]
                 b == Block[x]
             IN  CASE x = GenesisAccount -> MaxAmount
                   [] x # GenesisAccount /\ ~block_exists(x) -> 0
                   [] block_exists(x) /\ q[1] = "balance" ->
                        (CASE b.type \in {"send", "state"} -> b.balance
                           [] b.type \in {"receive", "change"} /\ x \in DOMAIN block_info ->
                                block_info[x].balance
                           [] b.type = "change" /\ x \notin DOMAIN block_info ->
                                f[<<"balance", b.previous>>]
                           [] b.type = "receive" /\ x \notin DOMAIN block_info ->
                                (f[<<"amount", b.link>>] + f[<<"balance", b.previous>>]) % Modulus
                           [] b.type = "open" -> f[<<"amount", b.link>>])
                   [] block_exists(x) /\ q[1] = "amount" ->
                        (CASE b.type \in {"send", "state"} ->
                                Difference(b.balance, f[<<"balance", b.previous>>])
                           [] b.type \in {"receive", "open"} -> f[<<"amount", b.link>>]
                           [] b.type = "change" -> 0)
           w == [q \in D |-> IF q[2] \in DOMAIN blocks \cup {GenesisAccount} THEN Reference[q] ELSE 0]
           rank == [q \in D |-> IF q[2] \in Hash THEN Age[q[2]] + 1 ELSE 0]
<1>0. /\ DOMAIN blocks \subseteq Hash /\ Hash \subseteq Link /\ GenesisAccount \notin DOMAIN blocks /\ Zero \notin DOMAIN blocks
      /\ Zero \in Link /\ GenesisAccount \in Link /\ GenesisAccount # Zero /\ Zero \notin Hash /\ GenesisAccount \notin Hash
  BY ValueFacts, Zenon DEF Tables
<1>1. rank \in [D -> Nat]
  BY BlockFacts
<1>2. \A x \in Link : /\ <<"balance", x>> \in D /\ <<"amount", x>> \in D
                      /\ <<"balance", x>>[2] = x /\ <<"amount", x>>[2] = x
                      /\ <<"balance", x>>[1] = "balance" /\ <<"amount", x>>[1] = "amount"
  BY Zenon DEF Question
<1>3. /\ \A x \in DOMAIN blocks : w[<<"balance", x>>] = BalanceAfter(x) /\ w[<<"amount", x>>] = AmountOf(x)
      /\ w[<<"balance", Zero>>] = 0 /\ w[<<"amount", GenesisAccount>>] = MaxAmount
  <2>1. Reference[<<"amount", GenesisAccount>>] = MaxAmount
    BY MeaningFacts, Zenon DEF AmountOf
  <2> HIDE DEF D
  <2> QED
    BY <1>0, <1>2, <2>1, Zenon DEF BalanceAfter, AmountOf
<1>4. \A h \in Hash : rank[<<"balance", h>>] = Age[h] + 1 /\ rank[<<"amount", h>>] = Age[h] + 1 /\ Age[h] \in Nat
  <2>1. \A h \in Hash : Age[h] \in Nat /\ h \in Link
    BY BlockFacts, Zenon
  <2> HIDE DEF D
  <2> QED
    BY <1>2, <2>1, Zenon
<1>5. rank[<<"balance", Zero>>] = 0 /\ rank[<<"amount", GenesisAccount>>] = 0
  <2> HIDE DEF D
  <2> QED
    BY <1>0, <1>2, Zenon
<1>6. ASSUME NEW f, NEW q \in D, \A p \in D : rank[p] < rank[q] => f[p] = w[p]
      PROVE  Body(f, q) = w[q]
  <2>1. PICK k \in {"balance", "amount"}, x \in Link : q = <<k, x>>
    BY DEF Question
  <2>2. CASE x \notin DOMAIN blocks
    <3>1. CASE x = GenesisAccount
      <4>1. Reference[q] = MaxAmount
        BY <1>0, <2>1, <3>1, ReferenceEquation, Zenon DEF Question
      <4> HIDE DEF D
      <4> QED
        BY <1>0, <2>1, <3>1, <4>1, Zenon DEF block_exists
    <3>2. CASE x # GenesisAccount
      <4> HIDE DEF D
      <4> QED
        BY <2>1, <2>2, <3>2, Zenon DEF block_exists
    <3> QED
      BY <3>1, <3>2, Zenon
  <2>3. CASE x \in DOMAIN blocks
    <3> DEFINE p == Block[x].previous
               s == Block[x].link
    <3>1. /\ x \in Hash /\ x # GenesisAccount /\ x # Zero /\ BlockMeans(x)
          /\ Block[x].type \in {"send", "receive", "open", "change", "state"}
      BY <1>0, <2>3, BlockFacts, Zenon DEF Meant
    <3>2. /\ p \in DOMAIN blocks \cup {Zero}
          /\ Block[x].type \in {"receive", "change", "send"} => p \in DOMAIN blocks
          /\ Block[x].type = "receive" => s \in DOMAIN blocks
          /\ Block[x].type = "open" => p = Zero /\ s \in DOMAIN blocks \cup {GenesisAccount}
      BY <2>3, <1>VisitorArguments, Zenon
    <3>3. p \in DOMAIN blocks => Age[p] < Age[x]
      BY <1>0, <3>1, BlockFacts, Zenon
    <3>4. s \in DOMAIN blocks => Age[s] < Age[x]
      BY <1>0, <3>1, BlockFacts, Zenon
    <3>5. rank[q] = Age[x] + 1 /\ Age[x] \in Nat
      <4> HIDE DEF rank
      <4> QED
        BY <1>4, <2>1, <3>1, Zenon
    <3>6. f[<<"balance", p>>] = BalanceAfter(p)
      <4>1. CASE p = Zero
        <5> HIDE DEF w, rank, D, Body
        <5>0. <<"balance", Zero>> \in D /\ rank[<<"balance", Zero>>] < rank[q]
          <6>1. <<"balance", Zero>> \in D
            BY <1>0, <1>2, Zenon
          <6>2. rank[<<"balance", Zero>>] < rank[q]
            BY <1>5, <3>5
          <6> QED
            BY <6>1, <6>2, Zenon
        <5>1. f[<<"balance", p>>] = w[<<"balance", Zero>>]
          BY <1>6, <4>1, <5>0, Zenon
        <5> QED
          BY <1>3, <4>1, <5>1, MeaningFacts, Zenon
      <4>2. CASE p # Zero
        <5>1. p \in DOMAIN blocks /\ p \in Hash /\ p \in Link
          BY <1>0, <3>2, <4>2, Zenon
        <5>2. rank[<<"balance", p>>] < rank[q] /\ <<"balance", p>> \in D
          <6> HIDE DEF w, rank, D, Body
          <6>1. <<"balance", p>> \in D
            BY <1>2, <5>1, Zenon
          <6>2. rank[<<"balance", p>>] = Age[p] + 1 /\ Age[p] \in Nat
            BY <1>4, <5>1, Zenon
          <6>3. rank[<<"balance", p>>] < rank[q]
            <7> HIDE DEF p
            <7> QED
              BY <3>3, <3>5, <5>1, <6>2
          <6> QED
            BY <6>1, <6>3, Zenon
        <5> HIDE DEF w, rank, D, Body
        <5> QED
          BY <1>3, <1>6, <5>1, <5>2, Zenon
      <4> QED
        BY <4>1, <4>2, Zenon
    <3>7. Block[x].type \in {"receive", "open"} => f[<<"amount", s>>] = AmountOf(s)
      <4>1. CASE s = GenesisAccount
        <5> HIDE DEF w, rank, D, Body
        <5>0. <<"amount", GenesisAccount>> \in D /\ rank[<<"amount", GenesisAccount>>] < rank[q]
          <6>1. <<"amount", GenesisAccount>> \in D
            BY <1>0, <1>2, Zenon
          <6>2. rank[<<"amount", GenesisAccount>>] < rank[q]
            BY <1>5, <3>5
          <6> QED
            BY <6>1, <6>2, Zenon
        <5>1. f[<<"amount", s>>] = w[<<"amount", GenesisAccount>>]
          BY <1>6, <4>1, <5>0, Zenon
        <5> QED
          BY <1>3, <4>1, <5>1, MeaningFacts, Zenon
      <4>2. CASE s # GenesisAccount /\ Block[x].type \in {"receive", "open"}
        <5>1. s \in DOMAIN blocks /\ s \in Hash /\ s \in Link
          BY <1>0, <3>2, <4>2, Zenon
        <5>2. rank[<<"amount", s>>] < rank[q] /\ <<"amount", s>> \in D
          <6> HIDE DEF w, rank, D, Body
          <6>1. <<"amount", s>> \in D
            BY <1>2, <5>1, Zenon
          <6>2. rank[<<"amount", s>>] = Age[s] + 1 /\ Age[s] \in Nat
            BY <1>4, <5>1, Zenon
          <6>3. rank[<<"amount", s>>] < rank[q]
            <7> HIDE DEF s
            <7> QED
              BY <3>4, <3>5, <5>1, <6>2
          <6> QED
            BY <6>1, <6>3, Zenon
        <5> HIDE DEF w, rank, D, Body
        <5> QED
          BY <1>3, <1>6, <5>1, <5>2, Zenon
      <4> QED
        BY <4>1, <4>2, Zenon
    <3>8. BalanceAfter(p) \in Int /\ BalanceAfter(x) \in Amount /\ Block[x].balance \in Int
      <4>1. p = Zero \/ p \in Hash
        BY <1>0, <3>2, Zenon
      <4> QED
        BY <3>1, <4>1, MeaningFacts, BlockFacts, ValueFacts DEF BlockMeans
    <3>9. x \in DOMAIN block_info => block_info[x].balance = BalanceAfter(x)
      BY DEF Snapshots, Info
    <3>10. CASE k = "balance"
      <4>1. w[q] = BalanceAfter(x)
        <5> HIDE DEF w
        <5> QED
          BY <1>3, <2>1, <2>3, <3>10, Zenon
      <4>2. /\ Block[x].type \in {"send", "state"} => BalanceAfter(x) = Block[x].balance
            /\ Block[x].type = "change" => BalanceAfter(x) = BalanceAfter(p)
            /\ Block[x].type \in {"receive", "open"} => BalanceAfter(x) = BalanceAfter(p) + AmountOf(s)
        BY <3>1, MeaningFacts, Zenon
      <4>3. Body(f, q) = CASE Block[x].type \in {"send", "state"} -> Block[x].balance
                           [] Block[x].type \in {"receive", "change"} /\ x \in DOMAIN block_info ->
                                block_info[x].balance
                           [] Block[x].type = "change" /\ x \notin DOMAIN block_info ->
                                f[<<"balance", p>>]
                           [] Block[x].type = "receive" /\ x \notin DOMAIN block_info ->
                                (f[<<"amount", s>>] + f[<<"balance", p>>]) % Modulus
                           [] Block[x].type = "open" -> f[<<"amount", s>>]
        BY <2>1, <2>3, <3>1, <3>10, Zenon DEF block_exists
      <4>4. CASE Block[x].type \in {"send", "state"}
        BY <4>1, <4>2, <4>3, <4>4, Zenon
      <4>5. CASE Block[x].type \in {"receive", "change"} /\ x \in DOMAIN block_info
        <5>1. Body(f, q) = block_info[x].balance
          BY <4>3, <4>5, Zenon
        <5> QED
          BY <3>9, <4>1, <4>5, <5>1, Zenon
      <4>6. CASE Block[x].type = "change" /\ x \notin DOMAIN block_info
        BY <3>6, <4>1, <4>2, <4>3, <4>6, Zenon
      <4>7. CASE Block[x].type = "receive" /\ x \notin DOMAIN block_info
        <5>1. s \in Hash
          BY <1>0, <3>2, <4>7, Zenon
        <5>2. AmountOf(s) \in Int
          BY <5>1, MeaningFacts, Zenon
        <5>3. (AmountOf(s) + BalanceAfter(p)) % Modulus = BalanceAfter(x)
          <6>1. AmountOf(s) + BalanceAfter(p) = BalanceAfter(x)
            BY <3>8, <4>2, <4>7, <5>2
          <6> QED
            BY <3>8, <6>1, ValueFacts
        <5>4. Body(f, q) = (f[<<"amount", s>>] + f[<<"balance", p>>]) % Modulus
          BY <4>3, <4>7, Zenon
        <5> HIDE DEF Body, w
        <5> QED
          BY <3>6, <3>7, <4>1, <4>7, <5>3, <5>4, Zenon
      <4>8. CASE Block[x].type = "open"
        <5>1. BalanceAfter(p) = 0 /\ AmountOf(s) \in Int
          BY <1>0, <3>2, <4>8, MeaningFacts, ValueFacts
        <5>2. BalanceAfter(x) = AmountOf(s)
          BY <4>2, <4>8, <5>1
        <5> QED
          BY <3>7, <4>1, <4>3, <4>8, <5>2, Zenon
      <4> HIDE DEF Body, w
      <4> QED
        BY <3>1, <4>4, <4>5, <4>6, <4>7, <4>8, Zenon
    <3>11. CASE k = "amount"
      <4>1. w[q] = AmountOf(x)
        <5> HIDE DEF w
        <5> QED
          BY <1>3, <2>1, <2>3, <3>11, Zenon
      <4>2. /\ Block[x].type \in {"send", "state"} => AmountOf(x) = Difference(BalanceAfter(p), Block[x].balance)
            /\ Block[x].type \in {"receive", "open"} => AmountOf(x) = AmountOf(s)
            /\ Block[x].type = "change" => AmountOf(x) = 0
        BY <3>1, MeaningFacts, Zenon
      <4>3. Body(f, q) = CASE Block[x].type \in {"send", "state"} ->
                                Difference(Block[x].balance, f[<<"balance", p>>])
                           [] Block[x].type \in {"receive", "open"} -> f[<<"amount", s>>]
                           [] Block[x].type = "change" -> 0
        BY <2>1, <2>3, <3>1, <3>11, Zenon DEF block_exists
      <4>4. Difference(Block[x].balance, BalanceAfter(p)) = Difference(BalanceAfter(p), Block[x].balance)
        BY <3>8 DEF Difference
      <4> HIDE DEF w, Body
      <4> QED
        BY <3>1, <3>6, <3>7, <4>1, <4>2, <4>3, <4>4, Zenon
    <3> QED
      BY <3>10, <3>11, Zenon
  <2> QED
    BY <2>2, <2>3, Zenon
<1>7. w = [q \in D |-> Body(w, q)]
  <2>1. \A q \in D : Body(w, q) = w[q]
    <3> HIDE DEF Body, rank, w, D
    <3> QED
      BY <1>6, Zenon
  <2>2. w = [q \in D |-> w[q]]
    BY Zenon
  <2> HIDE DEF Body, w, D
  <2> QED
    BY <2>1, <2>2, Zenon
<1> DEFINE R == visitor
<1>8. R = [q \in D |-> Body(R, q)]
  BY <1>7 DEF visitor, Question
<1>9. \A q \in D : R[q] = Body(R, q)
  <2> HIDE DEF Body, R
  <2> QED
    BY <1>8, Zenon
<1>10. \A q \in D : R[q] = w[q]
  <2> DEFINE C == {n \in Nat : \A q \in D : rank[q] = n => R[q] = w[q]}
  <2> HIDE DEF R, D, rank, Body, w
  <2>1. ASSUME NEW n \in Nat, \A m \in Nat : m < n => m \in C PROVE n \in C
    <3> SUFFICES ASSUME NEW q \in D, rank[q] = n PROVE R[q] = w[q]
      BY Zenon
    <3>1. \A p \in D : rank[p] < rank[q] => R[p] = w[p]
      BY <1>1, <2>1, Zenon
    <3> QED
      BY <1>6, <1>9, <3>1, Zenon
  <2>2. Nat \subseteq C
    <3> HIDE DEF C
    <3> QED
      BY <2>1, NatCourseOfValues, Zenon
  <2> QED
    BY <1>1, <2>2, Zenon
<1> HIDE DEF w
<1> QED
  BY <1>0, <1>2, <1>3, <1>10, Zenon DEF balance, amount

-----------------------------------------------------------------------------
(* The visitors of rollback *)
\* The walks give what the history implies.
LEMMA WalkFacts ==
        (/\ Base)
        => (/\ \A x \in DOMAIN blocks : /\ representative(x) = RepBlock[x] /\ account(x) = Block[x].signer
                                        /\ balance(x) = BalanceAfter(x) /\ amount(x) = AmountOf(x)
            /\ balance(Zero) = 0)
\* representative() of a stored block is the last block of its chain, up to it,
\* that names one.
<1>RepresentativeIsRight.
  ASSUME Tables, Linked, NEW x \in DOMAIN blocks
  PROVE  representative(x) = RepBlock[x]
  <2> USE <1>RepresentativeIsRight
  <2> DEFINE D == Link
             Body(f, h) == CASE ~block_exists(h) -> Zero
                             [] block_exists(h) /\ Block[h].type \in {"open", "change", "state"} -> h
                             [] block_exists(h) /\ Block[h].type \in {"send", "receive"} -> f[Block[h].previous]
             w == [h \in D |-> IF h \in DOMAIN blocks THEN RepBlock[h] ELSE Zero]
             rank == [h \in D |-> IF h \in Hash THEN Age[h] + 1 ELSE 0]
  <2>0. DOMAIN blocks \subseteq Hash /\ Hash \subseteq D
    BY BlockFacts, Zenon DEF Tables
  <2>1. rank \in [D -> Nat]
    BY BlockFacts
  <2>2. ASSUME NEW f, NEW h \in D, \A p \in D : rank[p] < rank[h] => f[p] = w[p]
        PROVE  Body(f, h) = w[h]
    <3>1. CASE h \notin DOMAIN blocks
      BY <3>1, Zenon DEF block_exists
    <3>2. CASE h \in DOMAIN blocks /\ NamesRepresentative(h)
      BY <2>0, <3>2, RepFacts, Zenon DEF block_exists, NamesRepresentative
    <3>3. CASE h \in DOMAIN blocks /\ ~NamesRepresentative(h)
      <4> DEFINE p == Block[h].previous
      <4>1. h \in Hash /\ Block[h].type \in {"send", "receive"}
        BY <2>0, <3>3, BlockFacts, Zenon DEF NamesRepresentative
      <4>2. p \in DOMAIN blocks /\ p \in D
        BY <2>0, <3>3, <4>1, Zenon DEF Linked, BlockLinked
      <4>3. rank[p] < rank[h]
        BY <2>0, <4>1, <4>2, BlockFacts
      <4>4. Body(f, h) = f[p]
        BY <3>3, <4>1, Zenon DEF block_exists
      <4>5. w[h] = RepBlock[p] /\ w[p] = RepBlock[p]
        BY <3>3, <4>1, <4>2, RepFacts, Zenon
      <4> HIDE DEF w, rank, D, Body
      <4> QED
        BY <2>2, <4>2, <4>3, <4>4, <4>5, Zenon
    <3> QED
      BY <3>1, <3>2, <3>3, Zenon
  <2>3. w = [h \in D |-> Body(w, h)]
    <3>1. \A h \in D : Body(w, h) = w[h]
      <4> HIDE DEF Body, rank, w, D
      <4> QED
        BY <2>2, Zenon
    <3>2. w = [h \in D |-> w[h]]
      BY Zenon
    <3> HIDE DEF Body, w, D
    <3> QED
      BY <3>1, <3>2, Zenon
  <2> DEFINE R == representative_visitor
  <2>4. R = [h \in D |-> Body(R, h)]
    BY <2>3 DEF representative_visitor
  <2>5. \A h \in D : R[h] = Body(R, h)
    <3> HIDE DEF Body, R
    <3> QED
      BY <2>4, Zenon
  <2>6. \A h \in D : R[h] = w[h]
    <3> DEFINE C == {n \in Nat : \A h \in D : rank[h] = n => R[h] = w[h]}
    <3> HIDE DEF R, D, rank, Body, w
    <3>1. ASSUME NEW n \in Nat, \A m \in Nat : m < n => m \in C PROVE n \in C
      <4> SUFFICES ASSUME NEW h \in D, rank[h] = n PROVE R[h] = w[h]
        BY Zenon
      <4>1. \A p \in D : rank[p] < rank[h] => R[p] = w[p]
        BY <2>1, <3>1, Zenon
      <4> QED
        BY <2>2, <2>5, <4>1, Zenon
    <3>2. Nat \subseteq C
      <4> HIDE DEF C
      <4> QED
        BY <3>1, NatCourseOfValues, Zenon
    <3> QED
      BY <2>1, <3>2, Zenon
  <2> QED
    BY <2>0, <2>6, Zenon DEF representative
\* account() of a stored block is the account that signed it.
<1>AccountIsRight.
  \A h \in DOMAIN blocks :
      (/\ Tables
       /\ Linked
       /\ Ordered
       /\ Headed
       /\ Snapshots)
      => (account(h) = Block[h].signer)
  \* A finite set with a rank has an element of the highest rank.
  <2>FiniteSetMaximum.
    ASSUME NEW S, IsFiniteSet(S), S # {}, NEW rank \in [S -> Int]
    PROVE  \E x \in S : \A y \in S : rank[y] <= rank[x]
    <3> USE <2>FiniteSetMaximum
    <3> DEFINE C == {T \in SUBSET S : T # {} => \E x \in T : \A y \in T : rank[y] <= rank[x]}
    <3>1. {} \in C
      BY Zenon
    <3>2. ASSUME NEW T \in SUBSET S, NEW x \in S \ T, T \in C PROVE T \cup {x} \in C
      <4>1. CASE T = {}
        BY <4>1
      <4>2. CASE T # {}
        <5>1. PICK m \in T : \A y \in T : rank[y] <= rank[m]
          BY <3>2, <4>2, Zenon
        <5>2. CASE rank[x] <= rank[m]
          BY <5>1, <5>2, Zenon
        <5>3. CASE ~(rank[x] <= rank[m])
          <6>1. \A y \in T \cup {x} : rank[y] <= rank[x]
            BY <5>1, <5>3
          <6> QED
            BY <6>1, Zenon
        <5> QED
          BY <5>2, <5>3, Zenon
      <4> QED
        BY <4>1, <4>2, Zenon
    <3>3. S \in C
      <4> HIDE DEF C
      <4> QED
        BY <3>1, <3>2, FiniteSetInductive, Zenon
    <3> QED
      BY <3>3, Zenon
  <2> SUFFICES
        ASSUME Tables, Linked, Ordered, Headed, Snapshots, NEW h \in DOMAIN blocks
        PROVE  account(h) = Block[h].signer
    BY Zenon
  <2> DEFINE Body(f, x) ==
               LET next == block_successor(x)
               IN  CASE Block[x].type = "state" -> Block[x].account
                     [] Block[x].type # "state" /\ next = Zero -> frontier_get(x)
                     [] Block[x].type # "state" /\ next # Zero ->
                          IF next \in DOMAIN block_info /\ Block[next].type # "state"
                          THEN block_info[next].account
                          ELSE f[next]
             w == [x \in Hash |-> IF x \in DOMAIN blocks THEN Block[x].signer
                                  ELSE IF Block[x].type = "state" THEN Block[x].account ELSE frontier_get(x)]
  <2>1. ASSUME NEW x \in Hash \ DOMAIN blocks, NEW f PROVE Body(f, x) = w[x]
    BY Zenon DEF block_successor
  <2>2. ASSUME NEW x \in DOMAIN blocks, NEW f, blocks[x] # Zero => f[blocks[x]] = w[blocks[x]]
        PROVE  Body(f, x) = w[x]
    <3>1. BlockLinked(x) /\ x \in Hash
      BY Zenon DEF Linked, Tables
    <3>2. w[x] = Block[x].signer
      BY <3>1, Zenon
    <3>3. CASE Block[x].type = "state"
      BY <3>1, <3>2, <3>3, Zenon DEF BlockLinked
    <3>4. CASE Block[x].type # "state" /\ blocks[x] = Zero
      BY <3>2, <3>4, Zenon DEF Headed, Legacy, frontier_get, block_successor
    <3>5. CASE Block[x].type # "state" /\ blocks[x] # Zero
      <4> DEFINE n == blocks[x]
      <4>1. n \in DOMAIN blocks /\ Block[n].previous = x /\ BlockLinked(n) /\ n \in Hash
        BY <3>1, <3>5, Zenon DEF BlockLinked, Linked, Tables
      <4>2. Block[n].signer = Block[x].signer
        <5>1. x # Zero
          BY <3>1, ValueFacts, Zenon
        <5> QED
          BY <4>1, <5>1, Zenon DEF BlockLinked
      <4>3. n \in DOMAIN block_info => block_info[n].account = Block[n].signer
        BY DEF Snapshots, Info
      <4>4. f[n] = Block[n].signer
        BY <2>2, <3>5, <4>1, Zenon
      <4>5. Body(f, x) = IF n \in DOMAIN block_info /\ Block[n].type # "state" THEN block_info[n].account ELSE f[n]
        BY <3>5, Zenon DEF block_successor
      <4> HIDE DEF Body, w
      <4> QED
        BY <3>2, <4>2, <4>3, <4>4, <4>5, Zenon
    <3> QED
      BY <3>3, <3>4, <3>5, Zenon
  <2>3. w = [x \in Hash |-> Body(w, x)]
    <3>1. \A x \in Hash : Body(w, x) = w[x]
      <4> HIDE DEF Body, w
      <4> QED
        BY <2>1, <2>2, Zenon
    <3>2. w = [x \in Hash |-> w[x]]
      BY Zenon
    <3> HIDE DEF Body, w
    <3> QED
      BY <3>1, <3>2, Zenon
  <2> DEFINE R == account_walk
  <2>4. R = [x \in Hash |-> Body(R, x)]
    BY <2>3 DEF account_walk
  <2>5. \A x \in Hash : R[x] = Body(R, x)
    <3> HIDE DEF Body, R
    <3> QED
      BY <2>4, Zenon
  <2>6. \A x \in DOMAIN blocks : R[x] = w[x]
    <3> DEFINE B == {x \in DOMAIN blocks : R[x] # w[x]}
               rank == [x \in B |-> Age[x]]
    <3> HIDE DEF R, w, Body
    <3> SUFFICES ASSUME B # {} PROVE FALSE
      BY Zenon
    <3>0. \A x \in DOMAIN blocks : x \in Hash /\ Age[x] \in Nat
      BY BlockFacts, Zenon DEF Tables
    <3>1. IsFiniteSet(B)
      BY FiniteFacts, Zenon DEF Tables
    <3>2. rank \in [B -> Int]
      BY <3>0
    <3>3. PICK x \in B : \A y \in B : rank[y] <= rank[x]
      <4> HIDE DEF B, rank
      <4> QED
        BY <3>1, <3>2, <2>FiniteSetMaximum, Zenon
    <3>4. x \in DOMAIN blocks /\ R[x] # w[x] /\ x \in Hash
      BY <3>0, Zenon
    <3>5. ASSUME blocks[x] # Zero PROVE R[blocks[x]] = w[blocks[x]]
      <4>1. blocks[x] \in DOMAIN blocks /\ Block[blocks[x]].previous = x
        BY <3>4, <3>5, Zenon DEF Linked, BlockLinked
      <4>2. Age[x] < Age[blocks[x]]
        BY <3>0, <4>1, <3>4, BlockFacts, Zenon
      <4>3. ~(Age[blocks[x]] <= Age[x])
        BY <3>0, <3>4, <4>1, <4>2
      <4> QED
        BY <3>3, <4>1, <4>3, Zenon
    <3>6. Body(R, x) = w[x]
      BY <2>2, <3>4, <3>5, Zenon
    <3> QED
      BY <2>5, <3>4, <3>6, Zenon
  <2>7. h \in Hash
    BY Zenon DEF Tables
  <2> QED
    BY <2>6, <2>7, Zenon DEF account
<1> SUFFICES
      ASSUME Base
      PROVE  /\ \A x \in DOMAIN blocks : /\ representative(x) = RepBlock[x] /\ account(x) = Block[x].signer
                                         /\ balance(x) = BalanceAfter(x) /\ amount(x) = AmountOf(x)
             /\ balance(Zero) = 0
  BY Zenon
<1>1. Tables /\ Linked /\ Ordered /\ Meant /\ Headed /\ Snapshots
  BY Zenon DEF Base
<1>2. \A x \in DOMAIN blocks : representative(x) = RepBlock[x]
  BY <1>1, <1>RepresentativeIsRight, Zenon
<1>3. \A x \in DOMAIN blocks : account(x) = Block[x].signer
  BY <1>1, <1>AccountIsRight, Zenon
<1>4. (\A x \in DOMAIN blocks : balance(x) = BalanceAfter(x) /\ amount(x) = AmountOf(x)) /\ balance(Zero) = 0
  BY <1>1, VisitorIsRight, Zenon
<1> QED
  BY <1>2, <1>3, <1>4, Zenon

-----------------------------------------------------------------------------
(* Weights, modulo 2^128 *)
\* Equality modulo 2^128 is reflexive.
LEMMA SameSelf == ASSUME NEW x \in Int, NEW y \in Int, x = y PROVE Same(x, y)
<1>1. 0 \in Int /\ 0 * Modulus = 0
  BY ValueFacts
<1> QED
  BY <1>1 DEF Same

\* It is a congruence for addition.
LEMMA SameAdd ==
    ASSUME NEW x \in Int, NEW y \in Int, NEW z \in Int, NEW d \in Int, Same(x, y + d), Same(y, z)
    PROVE  Same(x, z + d)
<1>1. PICK k \in Int : x = y + d + k * Modulus
  BY Zenon DEF Same
<1>2. PICK j \in Int : y = z + j * Modulus
  BY Zenon DEF Same
<1>3. Modulus \in Int
  BY ValueFacts
<1>4. (k + j) * Modulus = k * Modulus + j * Modulus /\ k * Modulus \in Int /\ j * Modulus \in Int
  BY <1>3
<1>5. x = z + d + (k + j) * Modulus
  BY <1>1, <1>2, <1>4
<1>6. k + j \in Int
  OBVIOUS
<1> QED
  BY <1>5, <1>6, Zenon DEF Same

\* Wrapping changes a number by a multiple of 2^128 and makes it an amount.
LEMMA WrapsOnce ==
    ASSUME NEW x \in Nat, x < 2 * Modulus
    PROVE  x % Modulus \in Amount /\ Same(x % Modulus, x)
<1>1. Modulus \in Nat /\ Modulus > 0 /\ Amount = 0..(Modulus - 1)
  BY ValueFacts
<1>2. CASE x < Modulus
  <2>1. x % Modulus = x
    BY <1>1, <1>2
  <2> QED
    BY <1>1, <1>2, <2>1, SameSelf
<1>3. CASE ~(x < Modulus)
  <2>1. x % Modulus = x - Modulus
    BY <1>1, <1>3
  <2>2. x - Modulus = x + (-1) * Modulus /\ x - Modulus \in Amount
    BY <1>1, <1>3
  <2> QED
    BY <2>1, <2>2 DEF Same
<1> QED
  BY <1>2, <1>3, Zenon

\* representation_add adds an amount to one representative, modulo 2^128.
LEMMA WeightAdds ==
    ASSUME NEW weights \in [Address -> Amount], NEW s \in Hash, NEW n \in Amount
    PROVE  /\ representation_add(weights, s, n) \in [Address -> Amount]
           /\ \A r \in Address : Same(representation_add(weights, s, n)[r], weights[r] + Weight(s, r, n))
<1> DEFINE rep == Block[s].representative
           v == representation_add(weights, s, n)
<1>1. rep \in Address
  BY BlockFacts, Zenon
<1>2. /\ v[rep] = (weights[rep] + n) % Modulus
      /\ \A r \in Address \ {rep} : v[r] = weights[r]
      /\ v = [r \in Address |-> IF r = rep THEN (weights[rep] + n) % Modulus ELSE weights[r]]
  BY <1>1, Zenon DEF representation_add
<1>3. (weights[rep] + n) % Modulus \in Amount /\ Same((weights[rep] + n) % Modulus, weights[rep] + n)
  <2>1. weights[rep] \in Amount
    BY <1>1, Zenon
  <2>2. weights[rep] + n \in Nat /\ weights[rep] + n < 2 * Modulus
    BY <2>1, ValueFacts
  <2> QED
    BY <2>2, WrapsOnce, Zenon
<1>4. ASSUME NEW r \in Address \ {rep} PROVE Same(v[r], weights[r] + Weight(s, r, n))
  <2>1. weights[r] \in Int
    BY ValueFacts
  <2> QED
    BY <1>2, <2>1, SameSelf DEF Weight
<1>5. Same(v[rep], weights[rep] + Weight(s, rep, n))
  BY <1>2, <1>3, Zenon DEF Weight
<1>6. v \in [Address -> Amount]
  BY <1>2, <1>3, Zenon
<1> HIDE DEF rep
<1> QED
  BY <1>4, <1>5, <1>6, Zenon

\* representation_add of a negated amount takes it away, modulo 2^128.
LEMMA WeightTakes ==
    \A weights \in [Address -> Amount] : \A s \in Hash : \A n \in Amount :
        /\ representation_add(weights, s, Negate(n)) \in [Address -> Amount]
        /\ \A r \in Address : Same(representation_add(weights, s, Negate(n))[r], weights[r] - Weight(s, r, n))
\* It is transitive.
<1>SameTrans.
  ASSUME NEW x \in Int, NEW y \in Int, NEW z \in Int, Same(x, y), Same(y, z)
  PROVE  Same(x, z)
  <2> USE <1>SameTrans
  <2>1. Same(x, y + 0) /\ z + 0 = z
    OBVIOUS
  <2>2. Same(x, z + 0)
    BY <2>1, SameAdd
  <2> QED
    BY <2>1, <2>2, Zenon
<1> SUFFICES
      ASSUME NEW weights \in [Address -> Amount], NEW s \in Hash, NEW n \in Amount
      PROVE  /\ representation_add(weights, s, Negate(n)) \in [Address -> Amount]
             /\ \A r \in Address : Same(representation_add(weights, s, Negate(n))[r], weights[r] - Weight(s, r, n))
  BY Zenon
<1>1. /\ Modulus \in Nat /\ Modulus > 0 /\ Amount = 0..(Modulus - 1) /\ n \in Int
      /\ Modulus - n \in Nat /\ Modulus - n < 2 * Modulus
  BY ValueFacts
<1>2. Negate(n) \in Amount /\ Same(Negate(n), Modulus - n)
  BY <1>1, WrapsOnce, Zenon DEF Negate
<1>3. Negate(n) \in Int
  BY <1>1, <1>2
<1>4. Same(Modulus - n, -n)
  <2>1. Modulus - n = -n + 1 * Modulus
    BY <1>1
  <2> QED
    BY <2>1 DEF Same
<1>5. Same(Negate(n), -n)
  <2>1. -n \in Int /\ Modulus - n \in Int
    BY <1>1
  <2> QED
    BY <1>2, <1>3, <1>4, <2>1, <1>SameTrans, Zenon
<1> DEFINE v == representation_add(weights, s, Negate(n))
<1>6. v \in [Address -> Amount] /\ \A r \in Address : Same(v[r], weights[r] + Weight(s, r, Negate(n)))
  BY <1>2, WeightAdds, Zenon
<1> HIDE DEF v
<1>7. ASSUME NEW r \in Address PROVE Same(v[r], weights[r] - Weight(s, r, n))
  <2>1. weights[r] \in Int /\ v[r] \in Int
    BY <1>6, ValueFacts
  <2>2. Same(v[r], weights[r] + Weight(s, r, Negate(n)))
    BY <1>6, Zenon
  <2>3. CASE Block[s].representative # r
    <3>1. weights[r] + Weight(s, r, Negate(n)) = weights[r] - Weight(s, r, n)
      BY <2>1, <2>3 DEF Weight
    <3> QED
      BY <2>2, <3>1, Zenon
  <2>4. CASE Block[s].representative = r
    <3>1. Weight(s, r, Negate(n)) = Negate(n) /\ Weight(s, r, n) = n
      BY <2>4, Zenon DEF Weight
    <3>2. Same(v[r], Negate(n) + weights[r])
      <4>1. weights[r] + Negate(n) = Negate(n) + weights[r]
        BY <1>3, <2>1
      <4> QED
        BY <2>2, <3>1, <4>1, Zenon
    <3>3. Same(v[r], -n + weights[r])
      <4>1. -n \in Int
        BY <1>1
      <4> QED
        BY <1>3, <1>5, <2>1, <3>2, <4>1, SameAdd, Zenon
    <3>4. -n + weights[r] = weights[r] - n
      BY <1>1, <2>1
    <3> QED
      BY <3>1, <3>3, <3>4, Zenon
  <2> QED
    BY <2>3, <2>4, Zenon
<1> QED
  BY <1>6, <1>7, Zenon DEF v

\* What an account delegates is a number.
LEMMA ShareIsInt == ASSUME NEW x \in Hash \cup {Zero}, NEW r PROVE ShareAt(x, r) \in Int
  BY MeaningFacts DEF ShareAt

\* The block up to which an account has been counted is a block, or none.
LEMMA WeighedHeadTyped == Tables => \A a \in DOMAIN accounts : WeighedHead(a) \in Hash \cup {Zero}
<1> SUFFICES ASSUME Tables, NEW a \in DOMAIN accounts PROVE WeighedHead(a) \in Hash \cup {Zero}
  BY Zenon
<1>1. accounts[a].head \in Hash
  BY Zenon DEF Tables
<1> QED
  BY <1>1, BlockFacts, Zenon DEF WeighedHead

\* The same after a step.
LEMMA WeighedHeadTypedNext == Tables' => (\A a \in DOMAIN accounts : WeighedHead(a) \in Hash \cup {Zero})'
  BY WeighedHeadTyped, PTL

\* When one account is counted up to another block than before, and the
\* representation table has changed by the difference, the table is right
\* again.
LEMMA WeightsFollow ==
    ASSUME Tables, Tables', Weighed, NEW a, NEW x, NEW y, WeightMoves(x, y),
           DOMAIN accounts \ {a} = DOMAIN accounts' \ {a},
           \A c \in DOMAIN accounts \ {a} : WeighedHead(c)' = WeighedHead(c),
           x = IF a \in DOMAIN accounts THEN WeighedHead(a) ELSE Zero,
           y = IF a \in DOMAIN accounts' THEN WeighedHead(a)' ELSE Zero
    PROVE  Weighed'
<1>0. (\A c \in DOMAIN accounts : WeighedHead(c) \in Hash \cup {Zero})'
  BY WeighedHeadTypedNext, Zenon
<1>1. \A c \in DOMAIN accounts : WeighedHead(c) \in Hash \cup {Zero}
  BY WeighedHeadTyped, Zenon
<1>2. ASSUME NEW r \in Address PROVE Same(representation'[r], SumFunction(Shares(r)'))
  <2> DEFINE f == Shares(r)
             g == Shares(r)'
  <2>1. f \in [DOMAIN accounts -> Int]
    BY <1>1, ShareIsInt, Zenon DEF Shares
  <2>2. g = [c \in DOMAIN accounts' |-> ShareAt(WeighedHead(c)', r)]
    BY Zenon DEF Shares, ShareAt
  <2>3. \A c \in DOMAIN accounts' : WeighedHead(c)' \in Hash \cup {Zero}
    BY <1>0, Zenon
  <2> HIDE DEF g
  <2>4. g \in [DOMAIN accounts' -> Int]
    BY <2>2, <2>3, ShareIsInt, Zenon
  <2>5. f = [c \in DOMAIN accounts |-> ShareAt(WeighedHead(c), r)]
    BY Zenon DEF Shares
  <2>6. \A c \in DOMAIN accounts \ {a} : g[c] = f[c]
    BY <2>2, <2>5, Zenon
  <2>7. IsFiniteSet(DOMAIN accounts)
    BY Zenon DEF Tables
  <2>8. ShareAt(Zero, r) = 0
    BY Zenon DEF ShareAt
  <2>9. /\ (IF a \in DOMAIN accounts THEN f[a] ELSE 0) = ShareAt(x, r)
        /\ (IF a \in DOMAIN accounts' THEN g[a] ELSE 0) = ShareAt(y, r)
    BY <2>2, <2>5, <2>8, Zenon
  <2> HIDE DEF f
  <2>10. /\ SumFunction(f) \in Int /\ SumFunction(g) \in Int
         /\ SumFunction(g) = SumFunction(f) - (IF a \in DOMAIN accounts THEN f[a] ELSE 0)
                               + (IF a \in DOMAIN accounts' THEN g[a] ELSE 0)
    BY <2>1, <2>4, <2>6, <2>7, SumChange
  <2>11. ShareAt(x, r) \in Int /\ ShareAt(y, r) \in Int
    <3>1. x \in Hash \cup {Zero}
      BY <1>1, Zenon
    <3>2. y \in Hash \cup {Zero}
      BY <2>3, Zenon
    <3> QED
      BY <3>1, <3>2, ShareIsInt, Zenon
  <2>12. SumFunction(g) = SumFunction(f) + (ShareAt(y, r) - ShareAt(x, r)) /\ ShareAt(y, r) - ShareAt(x, r) \in Int
    BY <2>9, <2>10, <2>11
  <2>13. Same(representation[r], SumFunction(f)) /\ representation[r] \in Int
    BY ValueFacts DEF Weighed, f
  <2>14. Same(representation'[r], representation[r] + (ShareAt(y, r) - ShareAt(x, r))) /\ representation'[r] \in Int
    BY ValueFacts DEF WeightMoves
  <2>15. Same(representation'[r], SumFunction(f) + (ShareAt(y, r) - ShareAt(x, r)))
    BY <2>10, <2>12, <2>13, <2>14, SameAdd, Zenon
  <2> QED
    BY <2>12, <2>15, Zenon DEF g
<1> QED
  BY <1>2, Zenon DEF Weighed, WeightMoves, Same

\* Two blocks with one representative differ by their balances.
LEMMA ShareDiffers ==
    ASSUME NEW x \in Hash \cup {Zero}, NEW y \in Hash \cup {Zero}, NEW s, NEW r,
           x # Zero => RepBlock[x] = s, y # Zero => RepBlock[y] = s
    PROVE  ShareAt(y, r) - ShareAt(x, r) = Weight(s, r, BalanceAfter(y) - BalanceAfter(x))
<1>1. BalanceAfter(Zero) = 0 /\ BalanceAfter(x) \in Int /\ BalanceAfter(y) \in Int
  BY MeaningFacts
<1> QED
  BY <1>1 DEF ShareAt, Weight

\* Adding the difference of two balances to a representative moves the weight.
LEMMA WeightGiven ==
    ASSUME representation \in [Address -> Amount], NEW x \in Hash \cup {Zero}, NEW y \in Hash \cup {Zero}, NEW s \in Hash,
           x # Zero => RepBlock[x] = s, y # Zero => RepBlock[y] = s, BalanceAfter(y) - BalanceAfter(x) \in Amount,
           representation' = representation_add(representation, s, BalanceAfter(y) - BalanceAfter(x))
    PROVE  WeightMoves(x, y)
<1> DEFINE n == BalanceAfter(y) - BalanceAfter(x)
<1>1. \A r : ShareAt(y, r) - ShareAt(x, r) = Weight(s, r, n)
  BY ShareDiffers, Zenon
<1>2. /\ representation_add(representation, s, n) \in [Address -> Amount]
      /\ \A r \in Address : Same(representation_add(representation, s, n)[r], representation[r] + Weight(s, r, n))
  BY WeightAdds, Zenon
<1> QED
  BY <1>1, <1>2, Zenon DEF WeightMoves

\* So does taking it away.
LEMMA WeightTaken ==
    ASSUME representation \in [Address -> Amount], NEW x \in Hash \cup {Zero}, NEW y \in Hash \cup {Zero}, NEW s \in Hash,
           x # Zero => RepBlock[x] = s, y # Zero => RepBlock[y] = s, BalanceAfter(x) - BalanceAfter(y) \in Amount,
           representation' = representation_add(representation, s, Negate(BalanceAfter(x) - BalanceAfter(y)))
    PROVE  WeightMoves(x, y)
<1> DEFINE n == BalanceAfter(x) - BalanceAfter(y)
<1>1. \A r : ShareAt(x, r) - ShareAt(y, r) = Weight(s, r, n)
  BY ShareDiffers, Zenon
<1>2. /\ representation' \in [Address -> Amount]
      /\ \A r \in Address : Same(representation'[r], representation[r] - Weight(s, r, n))
  BY WeightTakes, Zenon
<1>3. ASSUME NEW r \in Address PROVE representation[r] - Weight(s, r, n) = representation[r] + (ShareAt(y, r) - ShareAt(x, r))
  <2>1. ShareAt(x, r) \in Int /\ ShareAt(y, r) \in Int /\ representation[r] \in Int
    BY ShareIsInt, ValueFacts
  <2> HIDE DEF n
  <2> QED
    BY <1>1, <2>1
<1> HIDE DEF n
<1> QED
  BY <1>2, <1>3, Zenon DEF WeightMoves

\* The weight is taken from the representative of x and given to that of y.
LEMMA WeightTakenGiven ==
    ASSUME representation \in [Address -> Amount], NEW x \in Hash \cup {Zero}, NEW y \in Hash \cup {Zero},
           x # Zero => RepBlock[x] \in Hash, y # Zero => RepBlock[y] \in Hash,
           BalanceAfter(x) \in Amount, BalanceAfter(y) \in Amount, NEW w,
           w = IF x = Zero THEN representation ELSE representation_add(representation, RepBlock[x], Negate(BalanceAfter(x))),
           representation' = IF y = Zero THEN w ELSE representation_add(w, RepBlock[y], BalanceAfter(y))
    PROVE  WeightMoves(x, y)
<1>1. \A r : /\ x # Zero => ShareAt(x, r) = Weight(RepBlock[x], r, BalanceAfter(x))
             /\ y # Zero => ShareAt(y, r) = Weight(RepBlock[y], r, BalanceAfter(y))
             /\ ShareAt(Zero, r) = 0
  BY Zenon DEF ShareAt, Weight
<1>2. \A r : ShareAt(x, r) \in Int /\ ShareAt(y, r) \in Int
  BY ShareIsInt, Zenon
<1>3. w \in [Address -> Amount] /\ \A r \in Address : Same(w[r], representation[r] - ShareAt(x, r))
  <2>1. CASE x = Zero
    <3>1. \A r \in Address : representation[r] \in Int
      BY ValueFacts
    <3> QED
      BY <1>1, <2>1, <3>1, SameSelf
  <2>2. CASE x # Zero
    BY <1>1, <2>2, WeightTakes, Zenon
  <2> QED
    BY <2>1, <2>2, Zenon
<1>4. representation' \in [Address -> Amount] /\ \A r \in Address : Same(representation'[r], w[r] + ShareAt(y, r))
  <2>1. CASE y = Zero
    <3>1. \A r \in Address : w[r] \in Int
      BY <1>3, ValueFacts
    <3> QED
      BY <1>1, <1>3, <2>1, <3>1, SameSelf
  <2>2. CASE y # Zero
    BY <1>1, <1>3, <2>2, WeightAdds, Zenon
  <2> QED
    BY <2>1, <2>2, Zenon
<1>5. ASSUME NEW r \in Address PROVE Same(representation'[r], representation[r] + (ShareAt(y, r) - ShareAt(x, r)))
  <2>1. representation'[r] \in Int /\ w[r] \in Int /\ representation[r] \in Int
    BY <1>3, <1>4, ValueFacts
  <2>2. representation[r] - ShareAt(x, r) \in Int
    BY <1>2, <2>1
  <2>3. Same(representation'[r], (representation[r] - ShareAt(x, r)) + ShareAt(y, r))
    BY <1>2, <1>3, <1>4, <2>1, <2>2, SameAdd, ZenonT(40)
  <2>4. (representation[r] - ShareAt(x, r)) + ShareAt(y, r) = representation[r] + (ShareAt(y, r) - ShareAt(x, r))
    BY <1>2, <2>1
  <2> QED
    BY <2>3, <2>4, Zenon
<1> QED
  BY <1>4, <1>5, Zenon DEF WeightMoves

\* The weight is given to the representative of y and taken from that of x.
LEMMA WeightGivenTaken ==
    ASSUME representation \in [Address -> Amount], NEW x \in Hash, NEW y \in Hash,
           RepBlock[x] \in Hash, RepBlock[y] \in Hash,
           BalanceAfter(x) \in Amount, BalanceAfter(y) \in Amount, NEW w,
           w = representation_add(representation, RepBlock[y], BalanceAfter(y)),
           representation' = representation_add(w, RepBlock[x], Negate(BalanceAfter(x)))
    PROVE  WeightMoves(x, y)
<1>1. \A r : /\ ShareAt(x, r) = Weight(RepBlock[x], r, BalanceAfter(x))
             /\ ShareAt(y, r) = Weight(RepBlock[y], r, BalanceAfter(y))
  BY ValueFacts, Zenon DEF ShareAt, Weight
<1>2. \A r : ShareAt(x, r) \in Int /\ ShareAt(y, r) \in Int
  BY ShareIsInt, Zenon
<1>3. w \in [Address -> Amount] /\ \A r \in Address : Same(w[r], representation[r] + ShareAt(y, r))
  BY <1>1, WeightAdds, Zenon
<1>4. representation' \in [Address -> Amount] /\ \A r \in Address : Same(representation'[r], w[r] - ShareAt(x, r))
  BY <1>1, <1>3, WeightTakes, Zenon
<1>5. ASSUME NEW r \in Address PROVE Same(representation'[r], representation[r] + (ShareAt(y, r) - ShareAt(x, r)))
  <2>1. representation'[r] \in Int /\ w[r] \in Int /\ representation[r] \in Int
    BY <1>3, <1>4, ValueFacts
  <2>2. representation[r] + ShareAt(y, r) \in Int /\ -ShareAt(x, r) \in Int
        /\ w[r] - ShareAt(x, r) = w[r] + (-ShareAt(x, r))
    BY <1>2, <2>1
  <2>3. Same(representation'[r], w[r] + (-ShareAt(x, r))) /\ Same(w[r], representation[r] + ShareAt(y, r))
    BY <1>3, <1>4, <2>2, Zenon
  <2>4. Same(representation'[r], (representation[r] + ShareAt(y, r)) + (-ShareAt(x, r)))
    BY <2>1, <2>2, <2>3, SameAdd, ZenonT(40)
  <2>5. (representation[r] + ShareAt(y, r)) + (-ShareAt(x, r)) = representation[r] + (ShareAt(y, r) - ShareAt(x, r))
    BY <1>2, <2>1
  <2> QED
    BY <2>4, <2>5, Zenon
<1> QED
  BY <1>4, <1>5, Zenon DEF WeightMoves

\* Adding a block to every table keeps the tables in agreement.
LEMMA AddsKeepsBase ==
    \A h :
        (/\ Base
         /\ Adds(h))
        => (Base' /\ Added(h))
\* What process writes, entry by entry.
<1>AddFacts.
  ASSUME Tables, Linked, Owned, NEW h, AddsBlock(h)
  PROVE  Added(h)
  <2> USE <1>AddFacts
  <2>1. \A x \in DOMAIN blocks : x \in Hash /\ x # h /\ x # Zero
    BY ValueFacts, Zenon DEF AddsBlock, Tables
  <2>2. Block[h].previous # Zero =>
                   /\ Block[h].previous \in DOMAIN blocks /\ Block[Block[h].previous].signer = Block[h].signer
                   /\ blocks[Block[h].previous] = Zero
    BY Zenon DEF AddsBlock, Owned, AccountLinked
  <2>3. Block[h].previous = Zero => \A x \in DOMAIN blocks : Block[x].signer # Block[h].signer
    BY Zenon DEF AddsBlock, Linked, BlockLinked
  <2>4. /\ DOMAIN accounts' = DOMAIN accounts \cup {Block[h].signer}
        /\ accounts'[Block[h].signer] = NewRecord(h)
        /\ \A a \in DOMAIN accounts \ {Block[h].signer} : accounts'[a] = accounts[a]
    BY Zenon DEF AddsBlock, Put
  <2>5. /\ DOMAIN blocks' = DOMAIN blocks \cup {h}
        /\ blocks'[h] = Zero
        /\ \A x \in DOMAIN blocks : blocks'[x] = IF x = Block[h].previous THEN h ELSE blocks[x]
    BY <2>1, Zenon DEF AddsBlock
  <2> QED
    BY <2>1, <2>2, <2>3, <2>4, <2>5, ValueFacts, Zenon DEF Added, AddsBlock
\* A new block leaves the tables well formed.
<1>AddTables.
  ASSUME Tables, Linked, Owned, NEW h, AddsBlock(h)
  PROVE  Tables'
  <2> USE <1>AddTables
  <2>0. Added(h)
    BY <1>AddFacts, Zenon
  <2>1. IsFiniteSet(DOMAIN blocks') /\ DOMAIN blocks' \subseteq Hash /\ Genesis \in DOMAIN blocks'
    BY <2>0, FiniteFacts, Zenon DEF Tables, Added
  <2>2. blocks' \in [DOMAIN blocks' -> Hash \cup {Zero}]
    BY Zenon DEF Tables, AddsBlock
  <2>3. IsFiniteSet(DOMAIN accounts') /\ DOMAIN accounts' \subseteq Account
    <3>1. DOMAIN accounts' = DOMAIN accounts \cup {Block[h].signer} /\ Block[h].signer \in Account
      BY <2>0, Zenon DEF Added
    <3>2. IsFiniteSet(DOMAIN accounts) /\ DOMAIN accounts \subseteq Account
      BY Zenon DEF Tables
    <3>3. IsFiniteSet(DOMAIN accounts \cup {Block[h].signer})
      BY <3>2, FiniteFacts, Zenon
    <3> QED
      BY <3>1, <3>2, <3>3, Zenon
  <2> DEFINE R == [head : Hash, rep_block : Hash, open_block : Hash, balance : Amount, block_count : Nat]
  <2>4. NewRecord(h) \in R
    <3>1. RepBlock[h] \in Hash
      <4>1. CASE NamesRepresentative(h)
        BY <4>1, RepFacts, Zenon DEF AddsBlock
      <4>2. CASE ~NamesRepresentative(h)
        <5>1. Block[h].previous # Zero
          BY <4>2, Zenon DEF AddsBlock, NamesRepresentative
        <5>2. Block[h].previous \in DOMAIN blocks
          BY <2>0, <5>1, Zenon DEF Added
        <5> QED
          BY <4>2, <5>2, RepStored, RepFacts, Zenon DEF AddsBlock, Tables
      <4> QED
        BY <4>1, <4>2, Zenon
    <3>2. Block[h].previous # Zero => accounts[Block[h].signer] \in R
      BY Zenon DEF AddsBlock, Tables
    <3> QED
      BY <3>1, <3>2 DEF NewRecord, AddsBlock
  <2>5. accounts' \in [DOMAIN accounts' -> R]
    <3>1. \A a \in DOMAIN accounts : accounts[a] \in R
      BY Zenon DEF Tables
    <3> HIDE DEF R
    <3> QED
      BY <2>4, <3>1, Zenon DEF AddsBlock, Put
  <2> QED
    BY <2>1, <2>2, <2>3, <2>5, Zenon DEF Tables
\* A new block extends a chain or opens one.
<1>AddLinked.
  ASSUME Tables, Linked, Owned, NEW h, Added(h)
  PROVE  Linked'
  <2> USE <1>AddLinked
  <2> DEFINE a == Block[h].signer
             p == Block[h].previous
  <2>1. ASSUME NEW x \in DOMAIN blocks PROVE BlockLinked(x)'
    <3>1. BlockLinked(x) /\ x \in Hash /\ x # h
      BY Zenon DEF Added, Linked
    <3>2. Block[x].signer \in DOMAIN accounts'
      BY <3>1, Zenon DEF Added, BlockLinked
    <3>3. Block[x].previous = Zero => accounts'[Block[x].signer].open_block = x
      <4> SUFFICES ASSUME Block[x].previous = Zero PROVE accounts'[Block[x].signer].open_block = x
        BY Zenon
      <4>1. accounts[Block[x].signer].open_block = x /\ Block[x].signer \in DOMAIN accounts
        BY <3>1, Zenon DEF BlockLinked
      <4>2. CASE Block[x].signer = a
        <5>1. p # Zero
          BY <4>2, Zenon DEF Added
        <5> QED
          BY <4>1, <4>2, <5>1 DEF Added, NewRecord
      <4>3. CASE Block[x].signer # a
        BY <4>1, <4>3, Zenon DEF Added
      <4> QED
        BY <4>2, <4>3, Zenon
    <3>4. Block[x].previous # Zero => Block[x].previous \in DOMAIN blocks' /\ blocks'[Block[x].previous] = x
      <4> SUFFICES ASSUME Block[x].previous # Zero
                   PROVE  Block[x].previous \in DOMAIN blocks' /\ blocks'[Block[x].previous] = x
        BY Zenon
      <4>1. Block[x].previous \in DOMAIN blocks /\ blocks[Block[x].previous] = x
        BY <3>1, Zenon DEF BlockLinked
      <4>2. Block[x].previous # p
        <5>1. x # Zero
          BY Zenon DEF Added
        <5> QED
          BY <4>1, <5>1, Zenon DEF Added
      <4> QED
        BY <4>1, <4>2, Zenon DEF Added
    <3>5. blocks'[x] = Zero => accounts'[Block[x].signer].head = x
      <4> SUFFICES ASSUME blocks'[x] = Zero PROVE accounts'[Block[x].signer].head = x
        BY Zenon
      <4>1. x # p /\ blocks[x] = Zero
        BY ValueFacts, Zenon DEF Added
      <4>2. accounts[Block[x].signer].head = x /\ Block[x].signer \in DOMAIN accounts
        BY <3>1, <4>1, Zenon DEF BlockLinked
      <4>3. Block[x].signer # a
        BY <4>1, <4>2, Zenon DEF Added
      <4> QED
        BY <4>2, <4>3, Zenon DEF Added
    <3>6. blocks'[x] # Zero => blocks'[x] \in DOMAIN blocks' /\ Block[blocks'[x]].previous = x
      BY <3>1, Zenon DEF Added, BlockLinked
    <3> QED
      BY <3>1, <3>2, <3>3, <3>4, <3>5, <3>6, Zenon DEF BlockLinked
  <2>2. BlockLinked(h)'
    BY DEF Added, BlockLinked, NewRecord
  <2> QED
    BY <2>1, <2>2, Zenon DEF Added, Linked
\* The account record that change_latest writes describes the longer chain.
<1>AddOwned.
  ASSUME Tables, Linked, Owned, NEW h, Added(h)
  PROVE  Owned'
  <2> USE <1>AddOwned
  <2> DEFINE a == Block[h].signer
             p == Block[h].previous
  <2>1. ASSUME NEW x \in DOMAIN accounts, x # a PROVE AccountLinked(x)'
    <3>1. AccountLinked(x)
      BY Zenon DEF Owned
    <3>2. accounts'[x] = accounts[x]
      BY <2>1, Zenon DEF Added
    <3>3. ChainOf(x)' = ChainOf(x)
      BY <2>1, Zenon DEF Added, ChainOf, Stored
    <3>4. accounts[x].head # p
      BY <2>1, <3>1, Zenon DEF Added, AccountLinked
    <3>5. /\ accounts'[x].head \in DOMAIN blocks' /\ blocks'[accounts'[x].head] = Zero
          /\ accounts'[x].open_block \in DOMAIN blocks'
      BY <3>1, <3>2, <3>4 DEF Added, AccountLinked
    <3> QED
      BY <3>1, <3>2, <3>3, <3>5, Zenon DEF AccountLinked
  <2>2. AccountLinked(a)'
    <3>1. accounts'[a] = NewRecord(h)
      BY Zenon DEF Added
    <3>2. accounts'[a].head = h /\ accounts'[a].rep_block = RepBlock[h] /\ accounts'[a].balance = BalanceAfter(h)
      BY <3>1 DEF NewRecord
    <3>3. h \in DOMAIN blocks' /\ blocks'[h] = Zero
      BY Zenon DEF Added
    <3>4. /\ accounts'[a].open_block \in DOMAIN blocks' /\ Block[accounts'[a].open_block].signer = a
          /\ Block[accounts'[a].open_block].previous = Zero
      <4>1. CASE p = Zero
        BY <3>1, <3>3, <4>1 DEF NewRecord
      <4>2. CASE p # Zero
        <5>1. a \in DOMAIN accounts
          BY <4>2, Zenon DEF Added
        <5>2. AccountLinked(a)
          BY <5>1, Zenon DEF Owned
        <5>3. accounts'[a].open_block = accounts[a].open_block
          BY <3>1, <4>2 DEF NewRecord
        <5> QED
          BY <5>2, <5>3, Zenon DEF AccountLinked, Added
      <4> QED
        BY <4>1, <4>2, Zenon
    <3>5. accounts'[a].block_count = Cardinality(ChainOf(a)')
      <4>1. ChainOf(a)' = ChainOf(a) \cup {h} /\ h \notin ChainOf(a)
        BY Zenon DEF Added, ChainOf, Stored
      <4>2. IsFiniteSet(ChainOf(a))
        <5>1. ChainOf(a) \subseteq DOMAIN blocks /\ IsFiniteSet(DOMAIN blocks)
          BY Zenon DEF ChainOf, Stored, Tables
        <5> QED
          BY <5>1, FiniteFacts, Zenon
      <4>3. Cardinality(ChainOf(a)') = Cardinality(ChainOf(a)) + 1
        <5>1. Cardinality(ChainOf(a) \cup {h}) = Cardinality(ChainOf(a)) + 1
          BY <4>1, <4>2, CountFacts, Zenon
        <5> QED
          BY <4>1, <5>1, Zenon
      <4>4. CASE p = Zero
        <5>1. ChainOf(a) = {}
          BY <4>4, Zenon DEF Added, ChainOf, Stored
        <5>2. Cardinality(ChainOf(a)) = 0
          BY <5>1, CountFacts, Zenon
        <5>3. accounts'[a].block_count = 1
          BY <3>1, <4>4 DEF NewRecord
        <5> QED
          BY <4>3, <5>2, <5>3
      <4>5. CASE p # Zero
        <5>1. accounts'[a].block_count = accounts[a].block_count + 1
          BY <3>1, <4>5 DEF NewRecord
        <5>2. accounts[a].block_count = Cardinality(ChainOf(a))
          BY <4>5, Zenon DEF Added, Owned, AccountLinked
        <5> QED
          BY <4>3, <5>1, <5>2, Zenon
      <4> QED
        BY <4>4, <4>5, Zenon
    <3> QED
      BY <3>2, <3>3, <3>4, <3>5, Zenon DEF AccountLinked
  <2> QED
    BY <2>1, <2>2, Zenon DEF Owned, Added
\* A new block is younger than the blocks of its chain.
<1>AddOrdered.
  ASSUME Tables, Linked, Owned, Ordered, NEW h, Added(h)
  PROVE  Ordered'
  <2> USE <1>AddOrdered
  <2> DEFINE a == Block[h].signer
             p == Block[h].previous
  <2>0. \A x \in DOMAIN blocks' : x \in Hash /\ Age[x] \in Nat
    BY BlockFacts, Zenon DEF Added
  <2>1. ASSUME NEW x \in DOMAIN blocks, Block[x].signer = a
        PROVE  p # Zero /\ Age[x] <= Age[p] /\ Age[p] < Age[h] /\ Age[x] < Age[h]
    <3>1. p # Zero /\ accounts[a].head = p /\ p \in DOMAIN blocks
      BY <2>1, Zenon DEF Added
    <3>2. Age[x] <= Age[p]
      BY <2>1, <3>1, Zenon DEF Ordered
    <3>3. Age[p] < Age[h]
      BY <3>1, BlockFacts, Zenon DEF Added
    <3>4. Age[x] \in Nat /\ Age[p] \in Nat /\ Age[h] \in Nat
      BY <2>0, <3>1, Zenon DEF Added
    <3> QED
      BY <3>1, <3>2, <3>3, <3>4
  <2>2. ASSUME NEW x \in DOMAIN blocks', NEW y \in DOMAIN blocks', Block[x].signer = Block[y].signer
        PROVE  /\ Age[x] = Age[y] => x = y
               /\ Age[x] < Age[y] => Block[y].previous # Zero /\ Age[x] <= Age[Block[y].previous]
    <3>1. CASE x # h /\ y # h
      BY <2>2, <3>1, Zenon DEF Ordered, Added
    <3>2. CASE x = h /\ y # h
      <4>1. Age[y] < Age[h] /\ Age[y] \in Nat /\ Age[h] \in Nat
        BY <2>0, <2>1, <2>2, <3>2, Zenon DEF Added
      <4> QED
        BY <3>2, <4>1
    <3>3. CASE x # h /\ y = h
      <4>1. p # Zero /\ Age[x] <= Age[p] /\ Age[x] < Age[h] /\ Age[x] \in Nat /\ Age[h] \in Nat
        BY <2>0, <2>1, <2>2, <3>3, Zenon DEF Added
      <4> QED
        BY <3>3, <4>1
    <3>4. CASE x = h /\ y = h
      BY <2>0, <3>4
    <3> QED
      BY <3>1, <3>2, <3>3, <3>4, Zenon
  <2>3. ASSUME NEW x \in DOMAIN blocks' PROVE Age[x] <= Age[accounts'[Block[x].signer].head]
    <3>1. CASE Block[x].signer = a
      <4>1. accounts'[a].head = h
        BY DEF Added, NewRecord
      <4>2. x = h \/ Age[x] < Age[h]
        BY <2>1, <3>1, Zenon DEF Added
      <4>3. Age[x] \in Nat /\ Age[h] \in Nat
        BY <2>0, Zenon DEF Added
      <4> QED
        BY <3>1, <4>1, <4>2, <4>3
    <3>2. CASE Block[x].signer # a
      <4>1. x \in DOMAIN blocks /\ Block[x].signer \in DOMAIN accounts
        BY <3>2 DEF Added, Linked, BlockLinked
      <4>2. accounts'[Block[x].signer] = accounts[Block[x].signer]
        BY <3>2, <4>1, Zenon DEF Added
      <4> QED
        BY <4>1, <4>2, Zenon DEF Ordered
    <3> QED
      BY <3>1, <3>2, Zenon
  <2> QED
    BY <2>2, <2>3, Zenon DEF Ordered
\* The send that a new block receives is stored and nobody has received it.
<1>SourceFacts.
  ASSUME Settled, NEW h \in Hash, AddsValue(h), SourceOf(h) # Zero
  PROVE  /\ SourceOf(h) \in DOMAIN blocks /\ IsSend(SourceOf(h)) /\ Block[SourceOf(h)].link = Block[h].signer
         /\ AmountOf(h) = AmountOf(SourceOf(h)) /\ Receipt(h) = Key(SourceOf(h))
         /\ \A r \in DOMAIN blocks : SourceOf(r) # SourceOf(h)
  <2> USE <1>SourceFacts
  <2>1. Receipt(h) \in DOMAIN pending /\ Receipt(h)[2] = SourceOf(h) /\ Receipt(h)[1] = Block[h].signer
    BY Zenon DEF AddsValue, Receipt
  <2>2. /\ SourceOf(h) \in DOMAIN blocks /\ Receipt(h) = Key(SourceOf(h)) /\ IsSend(SourceOf(h))
        /\ \A r \in DOMAIN blocks : SourceOf(r) # SourceOf(h)
        /\ pending[Receipt(h)] = [source |-> Block[SourceOf(h)].signer, amount |-> AmountOf(SourceOf(h))]
    BY <2>1 DEF Settled
  <2>3. Key(SourceOf(h))[1] = Block[SourceOf(h)].link
    BY Zenon DEF Key
  <2> QED
    BY <2>1, <2>2, <2>3 DEF AddsValue
\* A new block moves what its content says, and its source is a stored send.
<1>AddMeant.
  ASSUME Meant, Settled, NEW h, Added(h), AddsValue(h)
  PROVE  Meant'
  <2> USE <1>AddMeant
  <2>1. ASSUME NEW x \in DOMAIN blocks PROVE BlockMeans(x)'
    <3>1. BlockMeans(x)
      BY Zenon DEF Meant
    <3> QED
      BY <3>1, Zenon DEF BlockMeans, Added
  <2>2. BlockMeans(h)'
    <3>1. h \in Hash /\ BalanceAfter(h) \in Amount /\ DOMAIN blocks' = DOMAIN blocks \cup {h}
      BY Zenon DEF Added
    <3>2. SourceOf(h) # Zero =>
            /\ SourceOf(h) \in DOMAIN blocks /\ IsSend(SourceOf(h)) /\ Block[SourceOf(h)].link = Block[h].signer
            /\ AmountOf(h) = AmountOf(SourceOf(h))
      BY <3>1, <1>SourceFacts, Zenon
    <3> QED
      BY <3>1, <3>2, Zenon DEF BlockMeans, AddsValue
  <2> QED
    BY <2>1, <2>2, Zenon DEF Meant, Added
\* A new send is pending; the source of a new receipt is not, and has one
\* receiver.
<1>AddSettled.
  ASSUME Meant, Settled, NEW h, Added(h), AddsValue(h)
  PROVE  Settled'
  <2> USE <1>AddSettled
  <2>0. h \in Hash /\ h # Zero /\ h \notin DOMAIN blocks /\ DOMAIN blocks' = DOMAIN blocks \cup {h}
    BY Zenon DEF Added
  <2>1. \A r \in DOMAIN blocks' : SourceOf(r) # h
    <3>1. \A r \in DOMAIN blocks : SourceOf(r) # h
      BY <2>0, Zenon DEF Meant, BlockMeans
    <3>2. SourceOf(h) # h
      BY <2>0, <1>SourceFacts, Zenon
    <3> QED
      BY <2>0, <3>1, <3>2, Zenon
  <2>2. \A r, q \in DOMAIN blocks' : SourceOf(r) = SourceOf(q) /\ SourceOf(r) # Zero => r = q
    <3>1. SourceOf(h) # Zero => \A r \in DOMAIN blocks : SourceOf(r) # SourceOf(h)
      BY <2>0, <1>SourceFacts, Zenon
    <3> QED
      BY <2>0, <3>1, Zenon DEF Settled
  <2>3. \A s : Key(s)[2] = s
    BY Zenon DEF Key
  <2>4. \A k \in DOMAIN pending :
            /\ k[2] \in DOMAIN blocks /\ k = Key(k[2]) /\ IsSend(k[2])
            /\ \A r \in DOMAIN blocks : SourceOf(r) # k[2]
            /\ pending[k] = [source |-> Block[k[2]].signer, amount |-> AmountOf(k[2])]
    BY Zenon DEF Settled
  <2>5. \A s \in DOMAIN blocks : IsSend(s) /\ (\A r \in DOMAIN blocks : SourceOf(r) # s) => Key(s) \in DOMAIN pending
    BY Zenon DEF Settled
  <2> DEFINE Entries == \A k \in DOMAIN pending' :
                          /\ k[2] \in DOMAIN blocks' /\ k = Key(k[2]) /\ IsSend(k[2])
                          /\ \A r \in DOMAIN blocks' : SourceOf(r) # k[2]
                          /\ pending'[k] = [source |-> Block[k[2]].signer, amount |-> AmountOf(k[2])]
             Waiting == \A s \in DOMAIN blocks' :
                          IsSend(s) /\ (\A r \in DOMAIN blocks' : SourceOf(r) # s) => Key(s) \in DOMAIN pending'
             Table == pending' = [k \in DOMAIN pending' |-> pending'[k]] /\ IsFiniteSet(DOMAIN pending')
  <2>6. IsFiniteSet(DOMAIN pending) /\ pending = [k \in DOMAIN pending |-> pending[k]]
    BY Zenon DEF Settled
  <2>7. CASE IsSend(h)
    <3>1. pending' = Put(pending, Key(h), [source |-> Block[h].signer, amount |-> AmountOf(h)])
      BY <2>7, Zenon DEF AddsValue
    <3>2. /\ DOMAIN pending' = DOMAIN pending \cup {Key(h)} /\ Key(h) \notin DOMAIN pending
          /\ pending'[Key(h)] = [source |-> Block[h].signer, amount |-> AmountOf(h)]
          /\ \A k \in DOMAIN pending : pending'[k] = pending[k]
          /\ pending' = [k \in DOMAIN pending' |-> pending'[k]]
      BY <2>0, <2>3, <2>4, <3>1 DEF Put
    <3>3. SourceOf(h) = Zero
      BY <2>0, <2>7, KindFacts, Zenon
    <3>4. Entries
      <4>1. ASSUME NEW k \in DOMAIN pending PROVE \A r \in DOMAIN blocks' : SourceOf(r) # k[2]
        <5>1. k[2] \in DOMAIN blocks /\ \A r \in DOMAIN blocks : SourceOf(r) # k[2]
          BY <2>4, Zenon
        <5>2. k[2] # Zero
          BY <5>1, Zenon DEF Added
        <5> QED
          BY <2>0, <3>3, <5>1, <5>2, Zenon
      <4> QED
        BY <2>0, <2>1, <2>3, <2>4, <2>7, <3>2, <4>1, Zenon
    <3>5. Waiting
      BY <2>0, <2>5, <3>2, Zenon
    <3>6. Table
      BY <2>6, <3>2, FiniteFacts, Zenon
    <3> QED
      BY <2>2, <3>4, <3>5, <3>6, Zenon DEF Settled
  <2>8. CASE SourceOf(h) # Zero
    <3> DEFINE s == SourceOf(h)
    <3>1. pending' = Del(pending, Receipt(h)) /\ Receipt(h) \in DOMAIN pending
      BY <2>8, Zenon DEF AddsValue
    <3>2. s \in DOMAIN blocks /\ Receipt(h) = Key(s) /\ ~IsSend(h)
      BY <2>0, <2>8, <1>SourceFacts, KindFacts, Zenon
    <3>3. /\ DOMAIN pending' = DOMAIN pending \ {Key(s)}
          /\ \A k \in DOMAIN pending' : pending'[k] = pending[k]
          /\ pending' = [k \in DOMAIN pending' |-> pending'[k]]
      BY <3>1, <3>2, Zenon DEF Del
    <3>4. \A k \in DOMAIN pending' : k \in DOMAIN pending /\ k[2] # s
      BY <2>4, <3>3, Zenon
    <3>5. Entries
      BY <2>0, <2>4, <3>3, <3>4, Zenon
    <3>6. Waiting
      <4> SUFFICES ASSUME NEW x \in DOMAIN blocks', IsSend(x), \A r \in DOMAIN blocks' : SourceOf(r) # x
                   PROVE  Key(x) \in DOMAIN pending'
        BY Zenon
      <4>1. x \in DOMAIN blocks /\ x # s
        BY <2>0, <3>2, Zenon
      <4>2. Key(x) \in DOMAIN pending
        BY <2>0, <2>5, <4>1, Zenon
      <4> QED
        BY <2>3, <3>3, <4>1, <4>2
    <3>7. Table
      BY <2>6, <3>3, FiniteFacts, Zenon
    <3> QED
      BY <2>2, <3>5, <3>6, <3>7 DEF Settled
  <2>9. CASE ~IsSend(h) /\ SourceOf(h) = Zero
    <3>1. pending' = pending
      BY <2>9, Zenon DEF AddsValue
    <3>2. Entries
      <4>1. ASSUME NEW k \in DOMAIN pending PROVE \A r \in DOMAIN blocks' : SourceOf(r) # k[2]
        <5>1. k[2] \in DOMAIN blocks /\ \A r \in DOMAIN blocks : SourceOf(r) # k[2]
          BY <2>4
        <5>2. k[2] # Zero
          BY <5>1 DEF Added
        <5> QED
          BY <2>0, <2>9, <5>1, <5>2, Zenon
      <4> QED
        BY <2>0, <2>4, <3>1, <4>1, Zenon
    <3>3. Waiting
      BY <2>0, <2>5, <2>9, <3>1, Zenon
    <3>4. Table
      BY <2>6, <3>1, Zenon
    <3> QED
      BY <2>2, <3>2, <3>3, <3>4 DEF Settled
  <2> QED
    BY <2>7, <2>8, <2>9, Zenon
\* frontier_move follows the head to the new block.
<1>AddHeaded.
  ASSUME Headed, NEW h, Added(h), AddsHead(h)
  PROVE  Headed'
  <2> USE <1>AddHeaded
  <2> DEFINE p == Block[h].previous
             D == (DOMAIN frontiers \ {p}) \cup (IF Legacy(h) THEN {h} ELSE {})
  <2>1. DOMAIN frontiers' = D /\ (\A x \in D : frontiers'[x] = Block[x].signer) /\ frontiers' = [x \in DOMAIN frontiers' |-> frontiers'[x]]
    BY Zenon DEF AddsHead
  <2>2. ASSUME NEW x \in D PROVE x \in DOMAIN blocks' /\ blocks'[x] = Zero /\ Legacy(x)
    BY Zenon DEF Headed, Added
  <2>3. ASSUME NEW x \in DOMAIN blocks', blocks'[x] = Zero, Legacy(x) PROVE x \in D
    BY <2>3 DEF Headed, Added
  <2> HIDE DEF D
  <2> QED
    BY <2>1, <2>2, <2>3, Zenon DEF Headed
\* change_latest writes a block_info record at the right heights.
<1>AddSnapshots.
  \A h :
      (/\ Ordered
       /\ Owned'
       /\ Ordered'
       /\ Snapshots
       /\ Added(h)
       /\ AddsInfo(h))
      => (Snapshots')
  \* A new block is younger than all the blocks of its chain.
  <2>AddKeepsHeight.
    ASSUME Ordered, NEW h, Added(h), NEW x \in DOMAIN blocks
    PROVE  Height(x)' = Height(x)
    <3> USE <2>AddKeepsHeight
    <3>1. ASSUME Block[h].signer = Block[x].signer PROVE ~(Age[h] <= Age[x])
      <4>1. Block[h].previous # Zero /\ Block[h].previous \in DOMAIN blocks /\ accounts[Block[h].signer].head = Block[h].previous
        BY <3>1, Zenon DEF Added
      <4>2. Age[x] <= Age[Block[h].previous]
        BY <3>1, <4>1, Zenon DEF Ordered
      <4>3. Age[Block[h].previous] < Age[h] /\ Age[h] \in Nat /\ Age[x] \in Nat /\ Age[Block[h].previous] \in Nat
        BY <4>1, BlockFacts, Zenon DEF Added
      <4> QED
        BY <4>2, <4>3
    <3>2. {y \in DOMAIN blocks' : Block[y].signer = Block[x].signer /\ Age[y] <= Age[x]}
            = {y \in DOMAIN blocks : Block[y].signer = Block[x].signer /\ Age[y] <= Age[x]}
      BY <3>1, Zenon DEF Added
    <3> QED
      BY <3>2, Zenon DEF Height
  <2> SUFFICES
        ASSUME Ordered, Owned', Ordered', Snapshots, NEW h, Added(h), AddsInfo(h)
        PROVE  Snapshots'
    BY Zenon
  <2>1. Height(h)' = NewRecord(h).block_count
    <3>1. (\A a \in DOMAIN accounts : Height(accounts[a].head) = accounts[a].block_count)'
      BY HeadHeights, PTL
    <3> QED
      BY <3>1 DEF Added, NewRecord, Height
  <2>2. \A x \in DOMAIN blocks : Height(x)' = Height(x)
    BY <2>AddKeepsHeight, Zenon
  <2>3. h \in Hash /\ Block[h].signer \in Account /\ BalanceAfter(h) \in Amount /\ h \notin DOMAIN blocks
        /\ DOMAIN blocks' = DOMAIN blocks \cup {h}
    BY Zenon DEF Added
  <2> HIDE DEF Height
  <2>4. CASE Legacy(h) /\ NewRecord(h).block_count % BlockInfoMax = 0
    <3>1. /\ DOMAIN block_info' = DOMAIN block_info \cup {h} /\ block_info'[h] = Info(h)
          /\ \A x \in DOMAIN block_info \ {h} : block_info'[x] = block_info[x]
          /\ block_info' = [x \in DOMAIN block_info' |-> block_info'[x]]
      BY <2>4, Zenon DEF AddsInfo, Put
    <3>2. ASSUME NEW x \in DOMAIN block_info'
          PROVE  /\ x \in Hash /\ block_info'[x] = Info(x) /\ Block[x].signer \in Account /\ BalanceAfter(x) \in Amount
                 /\ x \notin DOMAIN blocks' => ~Legacy(x)
                 /\ x \in DOMAIN blocks' /\ Legacy(x) => Height(x)' % BlockInfoMax = 0
      BY <2>1, <2>2, <2>3, <2>4, <3>1, Zenon DEF Snapshots
    <3>3. ASSUME NEW x \in DOMAIN blocks', Legacy(x), Height(x)' % BlockInfoMax = 0 PROVE x \in DOMAIN block_info'
      BY <2>2, <2>3, <3>1, <3>3, Zenon DEF Snapshots
    <3> QED
      BY <3>1, <3>2, <3>3, Zenon DEF Snapshots, Info
  <2>5. CASE ~(Legacy(h) /\ NewRecord(h).block_count % BlockInfoMax = 0)
    <3>1. block_info' = block_info
      BY <2>5, Zenon DEF AddsInfo
    <3>2. ASSUME NEW x \in DOMAIN block_info
          PROVE  /\ x \in Hash /\ block_info[x] = Info(x) /\ Block[x].signer \in Account /\ BalanceAfter(x) \in Amount
                 /\ x \notin DOMAIN blocks' => ~Legacy(x)
                 /\ x \in DOMAIN blocks' /\ Legacy(x) => Height(x)' % BlockInfoMax = 0
      BY <2>2, <2>3, Zenon DEF Snapshots
    <3>3. ASSUME NEW x \in DOMAIN blocks', Legacy(x), Height(x)' % BlockInfoMax = 0 PROVE x \in DOMAIN block_info
      BY <2>1, <2>2, <2>3, <2>5, <3>3, Zenon DEF Snapshots
    <3> QED
      BY <3>1, <3>2, <3>3, Zenon DEF Snapshots, Info
  <2> QED
    BY <2>4, <2>5, Zenon
\* What a new block adds to the balance of its account, it takes from the
\* pending amounts, and the other way round.
<1>AddSupply.
  ASSUME Tables, Owned, Meant, Settled, Tables', Meant', Settled', SupplyIsConserved, NEW h, Added(h), AddsValue(h)
  PROVE  SupplyIsConserved'
  <2> USE <1>AddSupply
  <2> DEFINE a == Block[h].signer
             p == Block[h].previous
  <2>1. Balances \in [DOMAIN accounts -> Int] /\ Amounts \in [DOMAIN pending -> Int]
    BY SupplyBounds
  <2>2. (Balances \in [DOMAIN accounts -> Int] /\ Amounts \in [DOMAIN pending -> Int])'
    BY SupplyTyped, PTL
  <2>3. IsFiniteSet(DOMAIN accounts) /\ IsFiniteSet(DOMAIN pending)
    BY Zenon DEF Tables, Settled
  <2>4. /\ a \in DOMAIN accounts <=> p # Zero
        /\ a \in DOMAIN accounts => Balances[a] = BalanceAfter(p)
        /\ a \in DOMAIN accounts' /\ Balances'[a] = BalanceAfter(h)
        /\ DOMAIN accounts \ {a} = DOMAIN accounts' \ {a}
        /\ \A x \in DOMAIN accounts \ {a} : Balances'[x] = Balances[x]
    BY DEF Added, NewRecord, Balances, Owned, AccountLinked
  <2>5. BalanceAfter(Zero) = 0
    BY MeaningFacts, Zenon
  <2>6. /\ SumFunction(Balances) \in Int /\ SumFunction(Balances') \in Int
        /\ SumFunction(Balances') = SumFunction(Balances) - (IF a \in DOMAIN accounts THEN Balances[a] ELSE 0)
                                      + (IF a \in DOMAIN accounts' THEN Balances'[a] ELSE 0)
    BY <2>1, <2>2, <2>3, <2>4, SumChange
  <2>7. BalanceAfter(p) \in Int /\ BalanceAfter(h) \in Int
    BY <2>5, MeaningFacts, BlockFacts DEF Added
  <2>8. SumFunction(Balances') = SumFunction(Balances) - BalanceAfter(p) + BalanceAfter(h)
    BY <2>4, <2>5, <2>6, <2>7, Zenon
  <2>9. /\ SumFunction(Amounts) \in Int /\ SumFunction(Amounts') \in Int
        /\ BalanceAfter(h) - BalanceAfter(p) = SumFunction(Amounts) - SumFunction(Amounts')
    <3>0. h \in Hash /\ AmountOf(h) \in Int
      BY MeaningFacts, Zenon DEF Added
    <3>1. CASE IsSend(h)
      <4> DEFINE k == Key(h)
      <4>1. pending' = Put(pending, k, [source |-> Block[h].signer, amount |-> AmountOf(h)])
            /\ BalanceAfter(h) + AmountOf(h) = BalanceAfter(p)
        BY <3>1, Zenon DEF AddsValue
      <4>2. k \notin DOMAIN pending
        BY Zenon DEF Settled, Key, Added
      <4>3. /\ DOMAIN pending' = DOMAIN pending \cup {k} /\ Amounts'[k] = AmountOf(h)
            /\ \A x \in DOMAIN pending \ {k} : Amounts'[x] = Amounts[x]
        BY <4>1, <4>2, Zenon DEF Put, Amounts
      <4> HIDE DEF k
      <4>4. DOMAIN pending \ {k} = DOMAIN pending' \ {k} /\ k \in DOMAIN pending'
        BY <4>3, Zenon
      <4>5. /\ SumFunction(Amounts) \in Int /\ SumFunction(Amounts') \in Int
            /\ SumFunction(Amounts') = SumFunction(Amounts) - (IF k \in DOMAIN pending THEN Amounts[k] ELSE 0)
                                         + (IF k \in DOMAIN pending' THEN Amounts'[k] ELSE 0)
        BY <2>1, <2>2, <2>3, <4>3, <4>4, SumChange
      <4> QED
        BY <2>7, <3>0, <4>1, <4>2, <4>3, <4>4, <4>5
    <3>2. CASE SourceOf(h) # Zero
      <4> DEFINE k == Receipt(h)
      <4>1. /\ k \in DOMAIN pending /\ pending[k].amount = AmountOf(h) /\ pending' = Del(pending, k)
            /\ BalanceAfter(h) = BalanceAfter(p) + AmountOf(h)
        BY <3>2, Zenon DEF AddsValue
      <4>3. /\ DOMAIN pending' = DOMAIN pending \ {k} /\ Amounts[k] = AmountOf(h)
            /\ \A x \in DOMAIN pending \ {k} : Amounts'[x] = Amounts[x]
        BY <4>1, Zenon DEF Del, Amounts
      <4> HIDE DEF k
      <4>4. DOMAIN pending \ {k} = DOMAIN pending' \ {k} /\ k \notin DOMAIN pending'
        BY <4>3, Zenon
      <4>5. /\ SumFunction(Amounts) \in Int /\ SumFunction(Amounts') \in Int
            /\ SumFunction(Amounts') = SumFunction(Amounts) - (IF k \in DOMAIN pending THEN Amounts[k] ELSE 0)
                                         + (IF k \in DOMAIN pending' THEN Amounts'[k] ELSE 0)
        BY <2>1, <2>2, <2>3, <4>3, <4>4, SumChange
      <4> QED
        BY <2>7, <3>0, <4>1, <4>3, <4>4, <4>5
    <3>3. CASE ~IsSend(h) /\ SourceOf(h) = Zero
      <4>1. pending' = pending /\ BalanceAfter(h) = BalanceAfter(p)
        BY <3>3, Zenon DEF AddsValue
      <4>2. Amounts' = Amounts /\ SumFunction(Amounts) \in Int
        BY <4>1, SupplyBounds DEF Amounts
      <4> QED
        BY <2>7, <4>1, <4>2
    <3> QED
      BY <3>1, <3>2, <3>3, Zenon
  <2>10. SumFunction(Balances) + SumFunction(Amounts) = MaxAmount
    BY Zenon DEF SupplyIsConserved, Balances, Amounts
  <2>11. SumFunction(Balances') + SumFunction(Amounts') = MaxAmount
    BY <2>6, <2>7, <2>8, <2>9, <2>10, ValueFacts, SMTT(30)
  <2> QED
    BY <2>11, Zenon DEF SupplyIsConserved, Balances, Amounts
<1> SUFFICES
      ASSUME Base, NEW h, Adds(h)
      PROVE  Base' /\ Added(h)
  BY Zenon
<1>1. AddsBlock(h) /\ AddsValue(h) /\ AddsHead(h) /\ AddsInfo(h)
  BY Zenon DEF Adds
<1>2. Tables /\ Linked /\ Owned /\ Ordered /\ Meant /\ Settled /\ Headed /\ Snapshots /\ SupplyIsConserved
  BY Zenon DEF Base
<1>3. Added(h)
  BY <1>1, <1>2, <1>AddFacts, Zenon
<1>4. Tables'
  BY <1>1, <1>2, <1>AddTables, Zenon
<1>5. Linked' /\ Owned' /\ Ordered'
  BY <1>2, <1>3, <1>AddLinked, <1>AddOwned, <1>AddOrdered, Zenon
<1>6. Meant'
  BY <1>1, <1>2, <1>3, <1>AddMeant, Zenon
<1>7. Settled'
  BY <1>1, <1>2, <1>3, <1>AddSettled, Zenon
<1>8. Headed'
  BY <1>1, <1>2, <1>3, <1>AddHeaded, Zenon
<1>9. Snapshots'
  BY <1>1, <1>2, <1>3, <1>5, <1>AddSnapshots, Zenon
<1>10. SupplyIsConserved'
  BY <1>1, <1>2, <1>3, <1>4, <1>6, <1>7, <1>AddSupply, Zenon
<1> QED
  BY <1>3, <1>4, <1>5, <1>6, <1>7, <1>8, <1>9, <1>10, Zenon DEF Base

\* Taking a head out of every table keeps the tables in agreement.
LEMMA RemovesKeepsBase ==
    \A h :
        (/\ Base
         /\ Removes(h))
        => (Base' /\ Removed(h))
\* What a rollback visitor writes, entry by entry.
<1>RemoveFacts.
  ASSUME Tables, Linked, Owned, Ordered, NEW h, RemovesBlock(h)
  PROVE  Removed(h)
  <2> USE <1>RemoveFacts
  <2> DEFINE a == Block[h].signer
             p == Block[h].previous
  <2>1. h \in DOMAIN blocks /\ blocks[h] = Zero /\ h # Genesis /\ BlockLinked(h)
    BY Zenon DEF RemovesBlock, Linked
  <2>2. \A x \in DOMAIN blocks : x \in Hash /\ x # Zero /\ Age[x] \in Nat
    BY ValueFacts, BlockFacts, Zenon DEF Tables
  <2>3. a \in DOMAIN accounts /\ accounts[a].head = h
    BY <2>1, Zenon DEF BlockLinked
  <2>4. ASSUME p = Zero, NEW x \in DOMAIN blocks \ {h} PROVE Block[x].signer # a
    <3> SUFFICES ASSUME Block[x].signer = a PROVE FALSE
      BY Zenon
    <3>1. Age[x] <= Age[h]
      BY <2>3, Zenon DEF Ordered
    <3>2. Age[x] < Age[h]
      BY <2>1, <2>2, <3>1 DEF Ordered
    <3> QED
      BY <2>1, <2>4, <3>2, Zenon DEF Ordered
  <2>5. p # Zero => /\ p \in DOMAIN blocks /\ Block[p].signer = a /\ blocks[p] = h
                    /\ p # h
    BY <2>1, <2>2, Zenon DEF BlockLinked
  <2>6. p # Zero => accounts[a].open_block # h
    BY <2>3, Zenon DEF Owned, AccountLinked
  <2>7. \A x \in DOMAIN blocks : Block[x].previous # h
    BY <2>1, <2>2 DEF Linked, BlockLinked
  <2>8. \A x \in DOMAIN blocks : blocks[x] # Zero /\ blocks[x] = h => x = p
    BY Zenon DEF Linked, BlockLinked
  <2>9. /\ DOMAIN blocks' = DOMAIN blocks \ {h}
        /\ \A x \in DOMAIN blocks \ {h} : blocks'[x] = IF x = p THEN Zero ELSE blocks[x]
    BY Zenon DEF RemovesBlock
  <2>10. /\ DOMAIN accounts' = IF p = Zero THEN DOMAIN accounts \ {a} ELSE DOMAIN accounts
         /\ p # Zero => accounts'[a] = OldRecord(h)
         /\ \A x \in DOMAIN accounts \ {a} : accounts'[x] = accounts[x]
    BY <2>3, Zenon DEF RemovesBlock, Put, Del
  <2>11. \A r \in DOMAIN blocks : SourceOf(r) # h
    BY Zenon DEF RemovesBlock
  <2> QED
    BY <2>1, <2>2, <2>3, <2>4, <2>5, <2>6, <2>7, <2>8, <2>9, <2>10, <2>11, Zenon DEF Removed
\* Taking a head away leaves the tables well formed.
<1>RemoveTables.
  ASSUME Tables, Linked, Owned, Ordered, Meant, NEW h, RemovesBlock(h)
  PROVE  Tables'
  <2> USE <1>RemoveTables
  <2> DEFINE a == Block[h].signer
             p == Block[h].previous
             R == [head : Hash, rep_block : Hash, open_block : Hash, balance : Amount, block_count : Nat]
  <2>0. Removed(h)
    BY <1>RemoveFacts, Zenon
  <2>1. IsFiniteSet(DOMAIN blocks') /\ DOMAIN blocks' \subseteq Hash /\ Genesis \in DOMAIN blocks'
    <3>1. DOMAIN blocks' = DOMAIN blocks \ {h} /\ h # Genesis
      BY <2>0, Zenon DEF Removed
    <3> QED
      BY <3>1, FiniteFacts, Zenon DEF Tables
  <2>2. blocks' \in [DOMAIN blocks' -> Hash \cup {Zero}]
    BY Zenon DEF Tables, RemovesBlock
  <2>3. IsFiniteSet(DOMAIN accounts') /\ DOMAIN accounts' \subseteq Account
    <3>1. DOMAIN accounts' \subseteq DOMAIN accounts
      BY <2>0, Zenon DEF Removed
    <3> QED
      BY <3>1, FiniteFacts, Zenon DEF Tables
  <2>4. accounts' \in [DOMAIN accounts' -> R]
    <3>1. \A x \in DOMAIN accounts : accounts[x] \in R
      BY Zenon DEF Tables
    <3>2. CASE p = Zero
      BY <3>1, <3>2, Zenon DEF RemovesBlock, Del
    <3>3. CASE p # Zero
      <4>1. p \in DOMAIN blocks /\ a \in DOMAIN accounts
        BY <2>0, <3>3, Zenon DEF Removed
      <4>2. RepBlock[p] \in Hash /\ p \in Hash
        BY <4>1, RepStored, Zenon DEF Tables
      <4>3. BalanceAfter(p) \in Amount
        BY <4>1, Zenon DEF Meant, BlockMeans
      <4>4. accounts[a].block_count - 1 \in Nat
        <5>1. ChainOf(a) \in SUBSET DOMAIN blocks /\ h \in ChainOf(a) /\ IsFiniteSet(DOMAIN blocks)
          BY <2>0, Zenon DEF Removed, ChainOf, Stored, Tables
        <5>2. IsFiniteSet(ChainOf(a)) /\ ChainOf(a) # {}
          BY <5>1, FiniteFacts, Zenon
        <5>3. Cardinality(ChainOf(a)) \in Nat /\ Cardinality(ChainOf(a)) # 0
          BY <5>2, CountFacts, Zenon
        <5>4. accounts[a].block_count = Cardinality(ChainOf(a))
          BY <4>1, Zenon DEF Owned, AccountLinked
        <5> QED
          BY <5>3, <5>4
      <4>5. OldRecord(h) \in R
        BY <3>1, <4>1, <4>2, <4>3, <4>4, Zenon DEF OldRecord
      <4> HIDE DEF R
      <4> QED
        BY <3>1, <3>3, <4>5, Zenon DEF RemovesBlock, Put
    <3> QED
      BY <3>2, <3>3, Zenon
  <2> QED
    BY <2>1, <2>2, <2>3, <2>4, Zenon DEF Tables
\* The chain without its head is linked: the new head has no successor.
<1>RemoveLinked.
  ASSUME Tables, Linked, Owned, NEW h, Removed(h)
  PROVE  Linked'
  <2> USE <1>RemoveLinked
  <2> DEFINE a == Block[h].signer
             p == Block[h].previous
  <2>1. ASSUME NEW x \in DOMAIN blocks \ {h} PROVE BlockLinked(x)'
    <3>1. BlockLinked(x) /\ x \in Hash /\ x # h /\ Block[x].previous # h
      BY Zenon DEF Linked, Removed
    <3>2. p = Zero => Block[x].signer # a
      BY Zenon DEF Removed
    <3>3. Block[x].signer \in DOMAIN accounts'
      BY <3>1, <3>2, Zenon DEF BlockLinked, Removed
    <3>4. Block[x].previous = Zero => accounts'[Block[x].signer].open_block = x
      <4> SUFFICES ASSUME Block[x].previous = Zero PROVE accounts'[Block[x].signer].open_block = x
        BY Zenon
      <4>1. accounts[Block[x].signer].open_block = x /\ Block[x].signer \in DOMAIN accounts
        BY <3>1, Zenon DEF BlockLinked
      <4>2. CASE Block[x].signer = a
        BY <3>2, <4>1, <4>2 DEF Removed, OldRecord
      <4>3. CASE Block[x].signer # a
        BY <4>1, <4>3, Zenon DEF Removed
      <4> QED
        BY <4>2, <4>3, Zenon
    <3>5. Block[x].previous # Zero => Block[x].previous \in DOMAIN blocks' /\ blocks'[Block[x].previous] = x
      <4> SUFFICES ASSUME Block[x].previous # Zero
                   PROVE  Block[x].previous \in DOMAIN blocks' /\ blocks'[Block[x].previous] = x
        BY Zenon
      <4>1. Block[x].previous \in DOMAIN blocks /\ blocks[Block[x].previous] = x
        BY <3>1, Zenon DEF BlockLinked
      <4>2. Block[x].previous # p
        BY <3>1, <4>1, Zenon DEF Removed
      <4> QED
        BY <3>1, <4>1, <4>2, Zenon DEF Removed
    <3>6. blocks'[x] = Zero => accounts'[Block[x].signer].head = x
      <4> SUFFICES ASSUME blocks'[x] = Zero PROVE accounts'[Block[x].signer].head = x
        BY Zenon
      <4>1. CASE x = p
        BY <4>1 DEF Removed, OldRecord
      <4>2. CASE x # p
        <5>1. blocks[x] = Zero
          BY <4>2, Zenon DEF Removed
        <5>2. accounts[Block[x].signer].head = x /\ Block[x].signer \in DOMAIN accounts
          BY <3>1, <5>1, Zenon DEF BlockLinked
        <5>3. Block[x].signer # a
          BY <3>1, <5>2, Zenon DEF Removed
        <5> QED
          BY <5>2, <5>3, Zenon DEF Removed
      <4> QED
        BY <4>1, <4>2, Zenon
    <3>7. blocks'[x] # Zero => blocks'[x] \in DOMAIN blocks' /\ Block[blocks'[x]].previous = x
      BY <3>1, Zenon DEF BlockLinked, Removed
    <3> QED
      BY <3>1, <3>3, <3>4, <3>5, <3>6, <3>7, Zenon DEF BlockLinked
  <2> QED
    BY <2>1, Zenon DEF Linked, Removed
\* The account record that a rollback visitor writes describes the shorter
\* chain.
<1>RemoveOwned.
  ASSUME Tables, Linked, Owned, NEW h, Removed(h)
  PROVE  Owned'
  <2> USE <1>RemoveOwned
  <2> DEFINE a == Block[h].signer
             p == Block[h].previous
  <2>1. ASSUME NEW x \in DOMAIN accounts, x # a PROVE AccountLinked(x)'
    <3>1. AccountLinked(x)
      BY DEF Owned
    <3>2. accounts'[x] = accounts[x]
      BY <2>1, Zenon DEF Removed
    <3>3. ChainOf(x)' = ChainOf(x)
      BY <2>1, Zenon DEF Removed, ChainOf, Stored
    <3>4. accounts[x].head # p /\ accounts[x].head # h /\ accounts[x].open_block # h
      BY <2>1, <3>1, Zenon DEF Removed, AccountLinked
    <3>5. /\ accounts'[x].head \in DOMAIN blocks' /\ blocks'[accounts'[x].head] = Zero
          /\ accounts'[x].open_block \in DOMAIN blocks'
      BY <3>1, <3>2, <3>4, Zenon DEF Removed, AccountLinked
    <3> QED
      BY <3>1, <3>2, <3>3, <3>5 DEF AccountLinked
  <2>2. ASSUME p # Zero PROVE AccountLinked(a)'
    <3>1. accounts'[a] = OldRecord(h) /\ a \in DOMAIN accounts
      BY <2>2, Zenon DEF Removed
    <3>2. accounts'[a].head = p /\ accounts'[a].rep_block = RepBlock[p] /\ accounts'[a].balance = BalanceAfter(p)
      BY <3>1 DEF OldRecord
    <3>3. p \in DOMAIN blocks' /\ blocks'[p] = Zero /\ Block[p].signer = a
      BY <2>2, Zenon DEF Removed
    <3>4. AccountLinked(a)
      BY <3>1, Zenon DEF Owned
    <3>5. /\ accounts'[a].open_block \in DOMAIN blocks' /\ Block[accounts'[a].open_block].signer = a
          /\ Block[accounts'[a].open_block].previous = Zero
      <4>1. accounts'[a].open_block = accounts[a].open_block
        BY <3>1 DEF OldRecord
      <4> QED
        BY <2>2, <3>4, <4>1, Zenon DEF AccountLinked, Removed
    <3>6. accounts'[a].block_count = Cardinality(ChainOf(a)')
      <4>1. ChainOf(a)' = ChainOf(a) \ {h} /\ h \in ChainOf(a)
        BY Zenon DEF Removed, ChainOf, Stored
      <4>2. IsFiniteSet(ChainOf(a))
        <5>1. ChainOf(a) \subseteq DOMAIN blocks /\ IsFiniteSet(DOMAIN blocks)
          BY DEF ChainOf, Stored, Tables
        <5> QED
          BY <5>1, FiniteFacts
      <4>3. Cardinality(ChainOf(a) \ {h}) = Cardinality(ChainOf(a)) - 1
        BY <4>1, <4>2, CountFacts, Zenon
      <4>4. accounts'[a].block_count = accounts[a].block_count - 1
        BY <3>1 DEF OldRecord
      <4>5. accounts[a].block_count = Cardinality(ChainOf(a))
        BY <3>4, Zenon DEF AccountLinked
      <4> QED
        BY <4>1, <4>3, <4>4, <4>5, Zenon
    <3> QED
      BY <3>2, <3>3, <3>5, <3>6, Zenon DEF AccountLinked
  <2> QED
    BY <2>1, <2>2, Zenon DEF Owned, Removed
\* The chain without its head is in order.
<1>RemoveOrdered.
  ASSUME Tables, Linked, Owned, Ordered, NEW h, Removed(h)
  PROVE  Ordered'
  <2> USE <1>RemoveOrdered
  <2> DEFINE a == Block[h].signer
             p == Block[h].previous
  <2>0. \A x \in DOMAIN blocks : x \in Hash /\ Age[x] \in Nat
    BY BlockFacts, Zenon DEF Removed
  <2>1. ASSUME NEW x \in DOMAIN blocks', NEW y \in DOMAIN blocks', Block[x].signer = Block[y].signer
        PROVE  /\ Age[x] = Age[y] => x = y
               /\ Age[x] < Age[y] => Block[y].previous # Zero /\ Age[x] <= Age[Block[y].previous]
    BY <2>1, Zenon DEF Ordered, Removed
  <2>2. ASSUME NEW x \in DOMAIN blocks' PROVE Age[x] <= Age[accounts'[Block[x].signer].head]
    <3>0. x \in DOMAIN blocks /\ x # h
      BY Zenon DEF Removed
    <3>1. CASE Block[x].signer = a
      <4>1. p # Zero
        BY <3>0, <3>1, Zenon DEF Removed
      <4>2. accounts'[a].head = p
        BY <4>1 DEF Removed, OldRecord
      <4>3. Age[x] <= Age[h] /\ h \in DOMAIN blocks
        BY <3>0, <3>1, Zenon DEF Ordered, Removed
      <4>4. Age[x] < Age[h]
        BY <2>0, <3>0, <3>1, <4>3 DEF Ordered
      <4>5. Age[x] <= Age[p]
        BY <3>0, <3>1, <4>3, <4>4, Zenon DEF Ordered
      <4> QED
        BY <3>1, <4>2, <4>5, Zenon
    <3>2. CASE Block[x].signer # a
      <4>1. Block[x].signer \in DOMAIN accounts
        BY <3>0, Zenon DEF Linked, BlockLinked
      <4>2. accounts'[Block[x].signer] = accounts[Block[x].signer]
        BY <3>2, <4>1, Zenon DEF Removed
      <4> QED
        BY <3>0, <4>2, Zenon DEF Ordered
    <3> QED
      BY <3>1, <3>2
  <2> QED
    BY <2>1, <2>2 DEF Ordered
\* No stored block has the block that is taken away for its source.
<1>RemoveMeant.
  ASSUME Meant, NEW h, Removed(h)
  PROVE  Meant'
  <2> USE <1>RemoveMeant
  <2>1. ASSUME NEW x \in DOMAIN blocks \ {h} PROVE BlockMeans(x)'
    <3>1. BlockMeans(x)
      BY Zenon DEF Meant
    <3>2. SourceOf(x) # h
      BY Zenon DEF Removed
    <3> QED
      BY <3>1, <3>2, Zenon DEF BlockMeans, Removed
  <2> QED
    BY <2>1, Zenon DEF Meant, Removed
\* The send that a block receives is not in the pending table.
<1>ReceiptFacts.
  ASSUME Meant, Settled, NEW h \in DOMAIN blocks, SourceOf(h) # Zero
  PROVE  /\ SourceOf(h) \in DOMAIN blocks /\ IsSend(SourceOf(h)) /\ Receipt(h) = Key(SourceOf(h))
         /\ Receipt(h) \notin DOMAIN pending /\ AmountOf(h) = AmountOf(SourceOf(h))
  <2> USE <1>ReceiptFacts
  <2>1. /\ SourceOf(h) \in DOMAIN blocks /\ IsSend(SourceOf(h)) /\ Block[SourceOf(h)].link = Block[h].signer
        /\ AmountOf(h) = AmountOf(SourceOf(h))
    BY Zenon DEF Meant, BlockMeans
  <2>2. Receipt(h) = Key(SourceOf(h)) /\ Receipt(h)[2] = SourceOf(h)
    BY <2>1, Zenon DEF Receipt, Key
  <2>3. Receipt(h) \notin DOMAIN pending
    BY <2>2, Zenon DEF Settled
  <2> QED
    BY <2>1, <2>2, <2>3, Zenon
\* A send that goes is not pending any more; the source of a receipt that goes
\* is pending again.
<1>RemoveSettled.
  ASSUME Meant, Settled, NEW h, Removed(h), RemovesValue(h)
  PROVE  Settled'
  <2> USE <1>RemoveSettled
  <2>0. h \in Hash /\ h # Zero /\ h \in DOMAIN blocks /\ DOMAIN blocks' = DOMAIN blocks \ {h}
    BY Zenon DEF Removed
  <2>2. \A r, q \in DOMAIN blocks' : SourceOf(r) = SourceOf(q) /\ SourceOf(r) # Zero => r = q
    BY <2>0, Zenon DEF Settled
  <2>3. \A s : Key(s)[2] = s
    BY DEF Key
  <2>4. \A k \in DOMAIN pending :
            /\ k[2] \in DOMAIN blocks /\ k = Key(k[2]) /\ IsSend(k[2])
            /\ \A r \in DOMAIN blocks : SourceOf(r) # k[2]
            /\ pending[k] = [source |-> Block[k[2]].signer, amount |-> AmountOf(k[2])]
    BY DEF Settled
  <2>5. \A s \in DOMAIN blocks : IsSend(s) /\ (\A r \in DOMAIN blocks : SourceOf(r) # s) => Key(s) \in DOMAIN pending
    BY DEF Settled
  <2> DEFINE Entries == \A k \in DOMAIN pending' :
                          /\ k[2] \in DOMAIN blocks' /\ k = Key(k[2]) /\ IsSend(k[2])
                          /\ \A r \in DOMAIN blocks' : SourceOf(r) # k[2]
                          /\ pending'[k] = [source |-> Block[k[2]].signer, amount |-> AmountOf(k[2])]
             Waiting == \A s \in DOMAIN blocks' :
                          IsSend(s) /\ (\A r \in DOMAIN blocks' : SourceOf(r) # s) => Key(s) \in DOMAIN pending'
             Table == pending' = [k \in DOMAIN pending' |-> pending'[k]] /\ IsFiniteSet(DOMAIN pending')
  <2>6. IsFiniteSet(DOMAIN pending) /\ pending = [k \in DOMAIN pending |-> pending[k]]
    BY DEF Settled
  <2>7. CASE IsSend(h)
    <3>1. pending' = Del(pending, Key(h)) /\ SourceOf(h) = Zero
      BY <2>0, <2>7, KindFacts, Zenon DEF RemovesValue
    <3>2. /\ DOMAIN pending' = DOMAIN pending \ {Key(h)}
          /\ \A k \in DOMAIN pending' : pending'[k] = pending[k]
          /\ pending' = [k \in DOMAIN pending' |-> pending'[k]]
      BY <3>1, Zenon DEF Del
    <3>3. \A k \in DOMAIN pending' : k \in DOMAIN pending /\ k[2] # h
      BY <2>4, <3>2, Zenon
    <3>4. Entries
      BY <2>0, <2>4, <3>2, <3>3, Zenon
    <3>5. Waiting
      <4> SUFFICES ASSUME NEW x \in DOMAIN blocks', IsSend(x), \A r \in DOMAIN blocks' : SourceOf(r) # x
                   PROVE  Key(x) \in DOMAIN pending'
        OBVIOUS
      <4>1. x \in DOMAIN blocks /\ x # h /\ x # Zero
        BY <2>0, Zenon DEF Removed
      <4>2. \A r \in DOMAIN blocks : SourceOf(r) # x
        BY <2>0, <3>1, <4>1, Zenon
      <4>3. Key(x) \in DOMAIN pending
        BY <2>5, <4>1, <4>2, Zenon
      <4> QED
        BY <2>3, <3>2, <4>1, <4>3
    <3>6. Table
      BY <2>6, <3>2, FiniteFacts, Zenon
    <3> QED
      BY <2>2, <3>4, <3>5, <3>6 DEF Settled
  <2>8. CASE SourceOf(h) # Zero
    <3> DEFINE s == SourceOf(h)
               info == [source |-> Block[s].signer, amount |-> AmountOf(s)]
    <3>1. s \in DOMAIN blocks /\ IsSend(s) /\ Receipt(h) = Key(s) /\ Key(s) \notin DOMAIN pending /\ AmountOf(h) = AmountOf(s)
      BY <2>0, <2>8, <1>ReceiptFacts, Zenon
    <3>2. pending' = Put(pending, Key(s), info)
      BY <2>8, <3>1, Zenon DEF RemovesValue
    <3> HIDE DEF info
    <3>3. /\ DOMAIN pending' = DOMAIN pending \cup {Key(s)} /\ pending'[Key(s)] = info
          /\ \A k \in DOMAIN pending : pending'[k] = pending[k]
          /\ pending' = [k \in DOMAIN pending' |-> pending'[k]]
      BY <3>1, <3>2, Zenon DEF Put
    <3>4. ~IsSend(h) /\ s # h
      BY <2>0, <2>8, KindFacts, Zenon DEF Removed
    <3>5. ASSUME NEW k \in DOMAIN pending
          PROVE  /\ k[2] \in DOMAIN blocks' /\ k = Key(k[2]) /\ IsSend(k[2])
                 /\ \A r \in DOMAIN blocks' : SourceOf(r) # k[2]
                 /\ pending'[k] = [source |-> Block[k[2]].signer, amount |-> AmountOf(k[2])]
      BY <2>0, <2>4, <3>3, <3>4, Zenon
    <3>6. /\ Key(s)[2] \in DOMAIN blocks' /\ Key(s) = Key(Key(s)[2]) /\ IsSend(Key(s)[2])
          /\ \A r \in DOMAIN blocks' : SourceOf(r) # Key(s)[2]
          /\ pending'[Key(s)] = [source |-> Block[Key(s)[2]].signer, amount |-> AmountOf(Key(s)[2])]
      <4>1. \A r \in DOMAIN blocks' : SourceOf(r) # s
        BY <2>0, <2>8, Zenon DEF Settled
      <4> QED
        BY <2>0, <2>3, <3>1, <3>3, <3>4, <4>1, Zenon DEF info
    <3>7. Entries
      BY <3>3, <3>5, <3>6, Zenon
    <3>8. Waiting
      BY <2>0, <2>5, <3>3, Zenon
    <3>9. Table
      BY <2>6, <3>3, FiniteFacts, Zenon
    <3> QED
      BY <2>2, <3>7, <3>8, <3>9 DEF Settled
  <2>9. CASE ~IsSend(h) /\ SourceOf(h) = Zero
    <3>1. pending' = pending
      BY <2>9, Zenon DEF RemovesValue
    <3>2. Entries
      BY <2>0, <2>4, <2>9, <3>1, Zenon
    <3>3. Waiting
      <4> SUFFICES ASSUME NEW x \in DOMAIN blocks', IsSend(x), \A r \in DOMAIN blocks' : SourceOf(r) # x
                   PROVE  Key(x) \in DOMAIN pending
        BY <3>1, Zenon
      <4>1. x \in DOMAIN blocks /\ x # Zero
        BY <2>0, Zenon DEF Removed
      <4> QED
        BY <2>0, <2>5, <2>9, <4>1, Zenon
    <3>4. Table
      BY <2>6, <3>1
    <3> QED
      BY <2>2, <3>2, <3>3, <3>4 DEF Settled
  <2> QED
    BY <2>7, <2>8, <2>9
\* It follows it back.
<1>RemoveHeaded.
  ASSUME Headed, NEW h, Removed(h), RemovesHead(h)
  PROVE  Headed'
  <2> USE <1>RemoveHeaded
  <2> DEFINE p == Block[h].previous
             D == (DOMAIN frontiers \ {h}) \cup (IF p # Zero /\ Legacy(p) THEN {p} ELSE {})
  <2>1. DOMAIN frontiers' = D /\ (\A x \in D : frontiers'[x] = Block[x].signer) /\ frontiers' = [x \in DOMAIN frontiers' |-> frontiers'[x]]
    BY Zenon DEF RemovesHead
  <2>2. ASSUME NEW x \in D PROVE x \in DOMAIN blocks' /\ blocks'[x] = Zero /\ Legacy(x)
    BY Zenon DEF Headed, Removed
  <2>3. ASSUME NEW x \in DOMAIN blocks', blocks'[x] = Zero, Legacy(x) PROVE x \in D
    BY <2>3 DEF Headed, Removed
  <2> HIDE DEF D
  <2> QED
    BY <2>1, <2>2, <2>3 DEF Headed
\* A legacy block takes its block_info record along; the record of another
\* block stays right.
<1>RemoveSnapshots.
  \A h :
      (/\ Tables
       /\ Owned
       /\ Ordered
       /\ Owned'
       /\ Ordered'
       /\ Meant
       /\ Snapshots
       /\ Removed(h)
       /\ RemovesInfo(h))
      => (Snapshots')
  \* The head of a chain does not count in the height of the other blocks.
  <2>RemoveKeepsHeight.
    ASSUME Ordered, NEW h, Removed(h), NEW x \in DOMAIN blocks \ {h}
    PROVE  Height(x)' = Height(x)
    <3> USE <2>RemoveKeepsHeight
    <3>1. ASSUME Block[h].signer = Block[x].signer PROVE ~(Age[h] <= Age[x])
      <4>1. Age[x] <= Age[h] /\ Age[x] # Age[h]
        BY <3>1 DEF Ordered, Removed
      <4>2. Age[x] \in Nat /\ Age[h] \in Nat
        BY BlockFacts, Zenon DEF Removed
      <4> QED
        BY <4>1, <4>2
    <3>2. {y \in DOMAIN blocks' : Block[y].signer = Block[x].signer /\ Age[y] <= Age[x]}
            = {y \in DOMAIN blocks : Block[y].signer = Block[x].signer /\ Age[y] <= Age[x]}
      BY <3>1, Zenon DEF Removed
    <3> QED
      BY <3>2, Zenon DEF Height
  <2> SUFFICES
        ASSUME Tables, Owned, Ordered, Owned', Ordered', Meant, Snapshots, NEW h, Removed(h), RemovesInfo(h)
        PROVE  Snapshots'
    BY Zenon
  <2> DEFINE p == Block[h].previous
             n == accounts[Block[h].signer].block_count
  <2>1. Height(h) = n
    BY HeadHeight, Zenon DEF Removed
  <2>2. p # Zero => Height(p)' = n - 1
    <3>1. (\A a \in DOMAIN accounts : Height(accounts[a].head) = accounts[a].block_count)'
      BY HeadHeights, PTL
    <3> QED
      BY <3>1 DEF Removed, OldRecord, Height
  <2>3. \A x \in DOMAIN blocks \ {h} : Height(x)' = Height(x)
    BY <2>RemoveKeepsHeight, Zenon
  <2>4. /\ h \in Hash /\ h \in DOMAIN blocks /\ DOMAIN blocks' = DOMAIN blocks \ {h}
        /\ p # Zero => p \in DOMAIN blocks /\ p # h /\ p \in Hash
    BY Zenon DEF Removed, Tables
  <2>5. p # Zero => Block[p].signer \in Account /\ BalanceAfter(p) \in Amount
    BY <2>4, Zenon DEF Removed, Meant, BlockMeans, Tables
  <2>6. p = Zero => n % BlockInfoMax # 0
    <3> SUFFICES ASSUME p = Zero PROVE n % BlockInfoMax # 0
      BY Zenon
    <3>1. ChainOf(Block[h].signer) = {h}
      BY Zenon DEF Removed, ChainOf, Stored
    <3>2. AccountLinked(Block[h].signer)
      BY Zenon DEF Removed, Owned
    <3>4. n = Cardinality({h})
      BY <3>1, <3>2, Zenon DEF AccountLinked
    <3>3. n = 1
      BY <3>4, CountFacts, Zenon
    <3> QED
      BY <3>3, LedgerValues
  <2> DEFINE m == InfoBefore(h)
  <2>7. /\ \A x \in DOMAIN m : x \in DOMAIN block_info /\ m[x] = block_info[x]
        /\ \A x \in DOMAIN block_info \ {h} : x \in DOMAIN m
        /\ Legacy(h) => h \notin DOMAIN m
        /\ m = [x \in DOMAIN m |-> m[x]]
    <3>1. CASE Legacy(h) /\ p # Zero /\ n % BlockInfoMax = 0
      BY <3>1, Zenon DEF InfoBefore, Del
    <3>2. CASE ~(Legacy(h) /\ p # Zero /\ n % BlockInfoMax = 0)
      <4>1. m = block_info
        BY <3>2, Zenon DEF InfoBefore
      <4>2. ASSUME Legacy(h) PROVE h \notin DOMAIN block_info
        BY <2>1, <2>4, <2>6, <3>2, <4>2, Zenon DEF Snapshots
      <4> QED
        BY <4>1, <4>2, Zenon DEF Snapshots
    <3> QED
      BY <3>1, <3>2, Zenon
  <2>8. block_info' = IF p # Zero /\ (n - 1) % BlockInfoMax = 0 THEN Put(m, p, Info(p)) ELSE m
    BY Zenon DEF RemovesInfo
  <2>9. ASSUME NEW x \in DOMAIN m
        PROVE  /\ x \in Hash /\ m[x] = Info(x) /\ Block[x].signer \in Account /\ BalanceAfter(x) \in Amount
               /\ x \notin DOMAIN blocks' => ~Legacy(x)
               /\ x \in DOMAIN blocks' /\ Legacy(x) => Height(x)' % BlockInfoMax = 0
    BY <2>3, <2>4, <2>7, Zenon DEF Snapshots
  <2>10. ASSUME NEW x \in DOMAIN blocks', Legacy(x), Height(x)' % BlockInfoMax = 0 PROVE x \in DOMAIN m
    BY <2>3, <2>4, <2>7, <2>10, Zenon DEF Snapshots
  <2> HIDE DEF m, n
  <2>11. CASE p # Zero /\ (n - 1) % BlockInfoMax = 0
    <3>1. /\ DOMAIN block_info' = DOMAIN m \cup {p} /\ block_info'[p] = Info(p)
          /\ \A x \in DOMAIN m \ {p} : block_info'[x] = m[x]
          /\ block_info' = [x \in DOMAIN block_info' |-> block_info'[x]]
      BY <2>8, <2>11, Zenon DEF Put
    <3>2. ASSUME NEW x \in DOMAIN block_info'
          PROVE  /\ x \in Hash /\ block_info'[x] = Info(x) /\ Block[x].signer \in Account /\ BalanceAfter(x) \in Amount
                 /\ x \notin DOMAIN blocks' => ~Legacy(x)
                 /\ x \in DOMAIN blocks' /\ Legacy(x) => Height(x)' % BlockInfoMax = 0
      BY <2>2, <2>4, <2>5, <2>9, <2>11, <3>1, Zenon
    <3>3. ASSUME NEW x \in DOMAIN blocks', Legacy(x), Height(x)' % BlockInfoMax = 0 PROVE x \in DOMAIN block_info'
      BY <2>10, <3>1, <3>3, Zenon
    <3> QED
      BY <3>1, <3>2, <3>3, Zenon DEF Snapshots, Info
  <2>12. CASE ~(p # Zero /\ (n - 1) % BlockInfoMax = 0)
    <3>1. block_info' = m
      BY <2>8, <2>12, Zenon
    <3> QED
      BY <2>7, <2>9, <2>10, <3>1, Zenon DEF Snapshots, Info
  <2> QED
    BY <2>11, <2>12, Zenon
\* A rollback visitor gives back what the block moved.
<1>RemoveSupply.
  ASSUME Tables, Owned, Meant, Settled, Tables', Meant', Settled', SupplyIsConserved, NEW h, Removed(h), RemovesValue(h)
  PROVE  SupplyIsConserved'
  <2> USE <1>RemoveSupply
  <2> DEFINE a == Block[h].signer
             p == Block[h].previous
  <2>1. Balances \in [DOMAIN accounts -> Int] /\ Amounts \in [DOMAIN pending -> Int]
    BY SupplyBounds
  <2>2. (Balances \in [DOMAIN accounts -> Int] /\ Amounts \in [DOMAIN pending -> Int])'
    BY SupplyTyped, PTL
  <2>3. IsFiniteSet(DOMAIN accounts) /\ IsFiniteSet(DOMAIN pending)
    BY DEF Tables, Settled
  <2>4. /\ a \in DOMAIN accounts /\ Balances[a] = BalanceAfter(h)
        /\ a \in DOMAIN accounts' <=> p # Zero
        /\ a \in DOMAIN accounts' => Balances'[a] = BalanceAfter(p)
        /\ DOMAIN accounts \ {a} = DOMAIN accounts' \ {a}
        /\ \A x \in DOMAIN accounts \ {a} : Balances'[x] = Balances[x]
    BY DEF Removed, OldRecord, Balances, Owned, AccountLinked
  <2>5. BalanceAfter(Zero) = 0
    BY MeaningFacts
  <2>6. /\ SumFunction(Balances) \in Int /\ SumFunction(Balances') \in Int
        /\ SumFunction(Balances') = SumFunction(Balances) - (IF a \in DOMAIN accounts THEN Balances[a] ELSE 0)
                                      + (IF a \in DOMAIN accounts' THEN Balances'[a] ELSE 0)
    BY <2>1, <2>2, <2>3, <2>4, SumChange
  <2>7. BalanceAfter(p) \in Int /\ BalanceAfter(h) \in Int
    BY <2>5, MeaningFacts, BlockFacts DEF Removed
  <2>8. SumFunction(Balances') = SumFunction(Balances) - BalanceAfter(h) + BalanceAfter(p)
    BY <2>4, <2>5, <2>6, <2>7, Zenon
  <2>9. /\ SumFunction(Amounts) \in Int /\ SumFunction(Amounts') \in Int
        /\ BalanceAfter(p) - BalanceAfter(h) = SumFunction(Amounts) - SumFunction(Amounts')
    <3>0. h \in Hash /\ AmountOf(h) \in Int /\ BlockMeans(h) /\ h # Genesis
      BY MeaningFacts, Zenon DEF Removed, Meant
    <3>1. CASE IsSend(h)
      <4> DEFINE k == Key(h)
      <4>1. k \in DOMAIN pending /\ pending' = Del(pending, k) /\ BalanceAfter(h) + AmountOf(h) = BalanceAfter(p)
        BY <3>0, <3>1, Zenon DEF RemovesValue, BlockMeans
      <4>2. pending[k].amount = AmountOf(h)
        BY <4>1 DEF Settled, Key
      <4>3. /\ DOMAIN pending' = DOMAIN pending \ {k} /\ Amounts[k] = AmountOf(h)
            /\ \A x \in DOMAIN pending \ {k} : Amounts'[x] = Amounts[x]
        BY <4>1, <4>2, Zenon DEF Del, Amounts
      <4> HIDE DEF k
      <4>4. DOMAIN pending \ {k} = DOMAIN pending' \ {k} /\ k \notin DOMAIN pending'
        BY <4>3
      <4>5. /\ SumFunction(Amounts) \in Int /\ SumFunction(Amounts') \in Int
            /\ SumFunction(Amounts') = SumFunction(Amounts) - (IF k \in DOMAIN pending THEN Amounts[k] ELSE 0)
                                         + (IF k \in DOMAIN pending' THEN Amounts'[k] ELSE 0)
        BY <2>1, <2>2, <2>3, <4>3, <4>4, SumChange
      <4> QED
        BY <2>7, <3>0, <4>1, <4>3, <4>4, <4>5
    <3>2. CASE SourceOf(h) # Zero
      <4> DEFINE k == Receipt(h)
      <4>1. /\ k \notin DOMAIN pending /\ BalanceAfter(h) = BalanceAfter(p) + AmountOf(h)
        BY <3>0, <3>2, <1>ReceiptFacts, Zenon DEF BlockMeans, Removed
      <4>2. pending' = Put(pending, k, [source |-> Block[SourceOf(h)].signer, amount |-> AmountOf(h)])
        BY <3>2, Zenon DEF RemovesValue
      <4>3. /\ DOMAIN pending' = DOMAIN pending \cup {k} /\ Amounts'[k] = AmountOf(h)
            /\ \A x \in DOMAIN pending \ {k} : Amounts'[x] = Amounts[x]
        BY <4>1, <4>2, Zenon DEF Put, Amounts
      <4> HIDE DEF k
      <4>4. DOMAIN pending \ {k} = DOMAIN pending' \ {k} /\ k \in DOMAIN pending'
        BY <4>1, <4>3, Zenon
      <4>5. /\ SumFunction(Amounts) \in Int /\ SumFunction(Amounts') \in Int
            /\ SumFunction(Amounts') = SumFunction(Amounts) - (IF k \in DOMAIN pending THEN Amounts[k] ELSE 0)
                                         + (IF k \in DOMAIN pending' THEN Amounts'[k] ELSE 0)
        BY <2>1, <2>2, <2>3, <4>3, <4>4, SumChange
      <4> QED
        BY <2>7, <3>0, <4>1, <4>3, <4>4, <4>5
    <3>3. CASE ~IsSend(h) /\ SourceOf(h) = Zero
      <4>1. pending' = pending /\ BalanceAfter(h) = BalanceAfter(p)
        BY <3>0, <3>3, Zenon DEF RemovesValue, BlockMeans
      <4>2. Amounts' = Amounts /\ SumFunction(Amounts) \in Int
        BY <4>1, SupplyBounds DEF Amounts
      <4> QED
        BY <2>7, <4>1, <4>2
    <3> QED
      BY <3>1, <3>2, <3>3, Zenon
  <2>10. SumFunction(Balances) + SumFunction(Amounts) = MaxAmount
    BY DEF SupplyIsConserved, Balances, Amounts
  <2>11. SumFunction(Balances') + SumFunction(Amounts') = MaxAmount
    BY <2>6, <2>7, <2>8, <2>9, <2>10, ValueFacts, SMTT(30)
  <2> QED
    BY <2>11 DEF SupplyIsConserved, Balances, Amounts
<1> SUFFICES
      ASSUME Base, NEW h, Removes(h)
      PROVE  Base' /\ Removed(h)
  OBVIOUS
<1>1. RemovesBlock(h) /\ RemovesValue(h) /\ RemovesHead(h) /\ RemovesInfo(h)
  BY DEF Removes
<1>2. Tables /\ Linked /\ Owned /\ Ordered /\ Meant /\ Settled /\ Headed /\ Snapshots /\ SupplyIsConserved
  BY DEF Base
<1>3. Removed(h)
  BY <1>1, <1>2, <1>RemoveFacts, Zenon
<1>4. Tables'
  BY <1>1, <1>2, <1>RemoveTables, Zenon
<1>5. Linked' /\ Owned' /\ Ordered'
  BY <1>2, <1>3, <1>RemoveLinked, <1>RemoveOwned, <1>RemoveOrdered
<1>6. Meant'
  BY <1>2, <1>3, <1>RemoveMeant, Zenon
<1>7. Settled'
  BY <1>1, <1>2, <1>3, <1>RemoveSettled
<1>8. Headed'
  BY <1>1, <1>2, <1>3, <1>RemoveHeaded
<1>9. Snapshots'
  BY <1>1, <1>2, <1>3, <1>5, <1>RemoveSnapshots, Zenon
<1>10. SupplyIsConserved'
  BY <1>1, <1>2, <1>3, <1>4, <1>6, <1>7, <1>RemoveSupply
<1> QED
  BY <1>3, <1>4, <1>5, <1>6, <1>7, <1>8, <1>9, <1>10 DEF Base
=============================================================================
