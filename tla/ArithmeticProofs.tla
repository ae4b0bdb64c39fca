-------------------------- MODULE ArithmeticProofs --------------------------
(***************************************************************************)
(* What holds of the arithmetic by itself, in whatever state: of sums over *)
(* finite sets, which the counts of Stock, the charts of Reports and the   *)
(* bills of Till are made of, and of every printed line, every receipt and *)
(* every logo.                                                             *)
(*                                                                         *)
(* SumFunctionOnSet is recursive.  The induction its lemmas need is that a *)
(* set of counterexamples, were there any, would have a smallest member.   *)
(***************************************************************************)
EXTENDS Receipt, FiniteSetTheorems, TLAPS

-----------------------------------------------------------------------------
(* Sums.                                                                   *)

(* A set of naturals has a least one.                                      *)
LEMMA Least ==
    ASSUME NEW T, T \subseteq Nat, T # {}
    PROVE  \E m \in T : \A k \in T : m <= k
<1>1. PICK m \in T : \A k \in T : ~(<<k, m>> \in OpToRel(<, Nat))
  BY NatLessThanWellFounded, WFMin
<1>2. \A k \in T : ~(k < m)
  BY <1>1 DEF OpToRel
<1> QED BY <1>2

(* What is wrong of no subset without being wrong of that subset less some *)
(* element, is wrong of none: induction over finite sets, for a set of     *)
(* subsets rather than for a formula.                                      *)
LEMMA Smallest ==
    ASSUME NEW S, IsFiniteSet(S), NEW Bad, Bad \subseteq SUBSET S, Bad # {}
    PROVE  \E s \in Bad : \A x \in s : (s \ {x}) \notin Bad
<1> DEFINE sizes == {Cardinality(s) : s \in Bad}
<1>1. \A s \in Bad : IsFiniteSet(s) /\ Cardinality(s) \in Nat
  BY FS_Subset, FS_CardinalityType
<1>2. PICK s \in Bad : \A t \in Bad : Cardinality(s) <= Cardinality(t)
  <2>1. \E m \in sizes : \A k \in sizes : m <= k
    <3>1. sizes \subseteq Nat /\ sizes # {}
      BY <1>1
    <3> HIDE DEF sizes
    <3> QED BY <3>1, Least
  <2> QED BY <2>1
<1> HIDE DEF sizes
<1>3. ASSUME NEW x \in s, s \ {x} \in Bad PROVE FALSE
  <2>1. Cardinality(s \ {x}) = Cardinality(s) - 1
    BY <1>1, FS_RemoveElement
  <2>2. Cardinality(s) <= Cardinality(s \ {x})
    BY <1>2, <1>3
  <2> QED BY <1>1, <2>1, <2>2
<1> QED BY <1>3

(* The element a sum takes out first.                                      *)
Chosen(s) == CHOOSE x \in s : TRUE

SumsUp(g, f, S) ==
    g = [s \in SUBSET S |-> IF s = {} THEN 0 ELSE f[Chosen(s)] + g[s \ {Chosen(s)}]]

(* A finite set of which each element has a number.                        *)
Addable(f, S) == IsFiniteSet(S) /\ \A x \in S : f[x] \in Int

(* The recursive function behind SumFunctionOnSet.                         *)
LEMMA SumIs ==
    ASSUME NEW f, NEW S
    PROVE  SumFunctionOnSet(f, S) = (CHOOSE g : SumsUp(g, f, S))[S]
BY DEF SumFunctionOnSet, FoldFunctionOnSet, MapThenFoldSet, SumsUp, Chosen

(* There is such a function, of numbers.                                   *)
LEMMA SumsExist ==
    ASSUME NEW f, NEW S, Addable(f, S)
    PROVE  \E g : SumsUp(g, f, S) /\ g \in [SUBSET S -> Int]
<1> DEFINE Upto(n) == {s \in SUBSET S : Cardinality(s) <= n}
           Ok(g, n) == /\ g \in [Upto(n) -> Int]
                       /\ \A s \in Upto(n) :
                             g[s] = IF s = {} THEN 0 ELSE f[Chosen(s)] + g[s \ {Chosen(s)}]
           Bad == {n \in Nat : ~ \E g : Ok(g, n)}
<1>1. \A s \in SUBSET S : IsFiniteSet(s) /\ Cardinality(s) \in Nat
  BY FS_Subset, FS_CardinalityType DEF Addable
<1>2. \A s \in SUBSET S : s # {} => Chosen(s) \in s
  BY DEF Chosen
<1>3. \A s \in SUBSET S : s # {} =>
          /\ s \ {Chosen(s)} \in SUBSET S
          /\ Cardinality(s \ {Chosen(s)}) = Cardinality(s) - 1
  BY <1>1, <1>2, FS_RemoveElement
<1>4. \E g : Ok(g, 0)
  <2> DEFINE g == [s \in Upto(0) |-> 0]
  <2>1. \A s \in Upto(0) : s = {}
    BY <1>1, FS_EmptySet
  <2>2. Ok(g, 0)
    BY <2>1
  <2> QED BY <2>2
<1>5. ASSUME NEW n \in Nat, NEW g, Ok(g, n) PROVE \E h : Ok(h, n + 1)
  <2> DEFINE h == [s \in Upto(n + 1) |->
                      IF s = {} THEN 0 ELSE f[Chosen(s)] + g[s \ {Chosen(s)}]]
  <2>1. \A s \in Upto(n + 1) : s # {} => s \ {Chosen(s)} \in Upto(n)
    BY <1>1, <1>3
  <2>2. h \in [Upto(n + 1) -> Int]
    <3>1. \A s \in Upto(n + 1) : s # {} => f[Chosen(s)] \in Int
      BY <1>2 DEF Addable
    <3>2. \A s \in Upto(n + 1) : s # {} => g[s \ {Chosen(s)}] \in Int
      BY <1>5, <2>1
    <3> DEFINE val(s) == IF s = {} THEN 0 ELSE f[Chosen(s)] + g[s \ {Chosen(s)}]
    <3>3. \A s \in Upto(n + 1) : val(s) \in Int
      BY <3>1, <3>2
    <3>4. h = [s \in Upto(n + 1) |-> val(s)]
      OBVIOUS
    <3> HIDE DEF h, val, Upto
    <3> QED BY <3>3, <3>4
  <2>3. \A s \in Upto(n) : s \in Upto(n + 1) /\ h[s] = g[s]
    BY <1>1, <1>5
  <2>4. Ok(h, n + 1)
    <3> SUFFICES ASSUME NEW s \in Upto(n + 1), s # {}
                 PROVE  h[s] = f[Chosen(s)] + h[s \ {Chosen(s)}]
      BY <2>2
    <3> QED BY <2>1, <2>3
  <2> QED BY <2>4
<1>6. Bad = {}
  <2> SUFFICES ASSUME Bad # {} PROVE FALSE
    OBVIOUS
  <2>1. PICK m \in Bad : \A k \in Bad : m <= k
    <3> HIDE DEF Bad
    <3>1. Bad \subseteq Nat
      BY DEF Bad
    <3> QED BY <3>1, Least
  <2> HIDE DEF Ok
  <2>2. m \in Nat /\ m # 0
    BY <1>4, <2>1
  <2>3. m - 1 \in Nat /\ m - 1 \notin Bad
    <3> HIDE DEF Bad
    <3> QED BY <2>1, <2>2
  <2>4. PICK g : Ok(g, m - 1)
    BY <2>3
  <2>5. \E h : Ok(h, (m - 1) + 1)
    BY <1>5, <2>3, <2>4
  <2>6. (m - 1) + 1 = m
    BY <2>1
  <2> QED BY <2>1, <2>5, <2>6
<1>7. Upto(Cardinality(S)) = SUBSET S
  BY <1>1, FS_Subset
<1> DEFINE size == Cardinality(S)
<1>8. size \in Nat
  BY <1>1
<1>9. PICK g : Ok(g, size)
  <2> HIDE DEF Ok, size
  <2> QED BY <1>6, <1>8
<1>10. g \in [SUBSET S -> Int]
  BY <1>7, <1>9
<1>11. \A s \in SUBSET S :
          g[s] = IF s = {} THEN 0 ELSE f[Chosen(s)] + g[s \ {Chosen(s)}]
  BY <1>7, <1>9
<1>12. SumsUp(g, f, S)
  BY <1>10, <1>11 DEF SumsUp
<1> QED BY <1>10, <1>12

(* SumsUp of the same numbers are the same, whatever else they may sum.      *)
LEMMA SumsAgree ==
    ASSUME NEW f, NEW S, Addable(f, S), NEW T, S \subseteq T,
           NEW g, NEW e, NEW h, SumsUp(g, f, S), SumsUp(h, e, T),
           \A x \in S : f[x] = e[x]
    PROVE  g[S] = h[S]
<1> DEFINE Bad == {s \in SUBSET S : g[s] # h[s]}
<1>1. ASSUME NEW s \in Bad, \A x \in s : (s \ {x}) \notin Bad PROVE FALSE
  <2>1. g[s] = IF s = {} THEN 0 ELSE f[Chosen(s)] + g[s \ {Chosen(s)}]
    BY DEF SumsUp
  <2>2. h[s] = IF s = {} THEN 0 ELSE e[Chosen(s)] + h[s \ {Chosen(s)}]
    <3>1. s \in SUBSET T
      OBVIOUS
    <3> HIDE DEF Bad
    <3> QED BY <3>1 DEF SumsUp
  <2>3. s # {}
    BY <2>1, <2>2
  <2> DEFINE p == Chosen(s)
  <2>4. p \in s
    BY <2>3 DEF Chosen
  <2>5. s \ {p} \in SUBSET S /\ f[p] = e[p]
    BY <2>4
  <2>6. g[s \ {p}] = h[s \ {p}]
    BY <1>1, <2>4, <2>5
  <2> QED BY <2>1, <2>2, <2>3, <2>5, <2>6
<1>2. Bad = {}
  <2> SUFFICES ASSUME Bad # {} PROVE FALSE
    OBVIOUS
  <2>1. Bad \subseteq SUBSET S /\ IsFiniteSet(S)
    BY DEF Addable
  <2> HIDE DEF Bad
  <2>2. PICK s \in Bad : \A x \in s : (s \ {x}) \notin Bad
    BY <2>1, Smallest
  <2> QED BY <1>1, <2>2
<1>3. S \in SUBSET S
  OBVIOUS
<1> QED BY <1>2, <1>3

TellsSums(g, f, S) ==
    /\ g \in [SUBSET S -> Int]
    /\ SumsUp(g, f, S)
    /\ \A s \in SUBSET S : SumFunctionOnSet(f, s) = g[s]

(* All the sums of subsets of one set are told by one function.            *)
LEMMA SumChosen ==
    ASSUME NEW f, NEW S, Addable(f, S)
    PROVE  \E g : TellsSums(g, f, S)
<1>1. PICK g \in [SUBSET S -> Int] : SumsUp(g, f, S)
  BY SumsExist
<1>2. ASSUME NEW s \in SUBSET S PROVE SumFunctionOnSet(f, s) = g[s]
  <2>1. Addable(f, s)
    BY FS_Subset DEF Addable
  <2>2. \E h : SumsUp(h, f, s)
    BY <2>1, SumsExist
  <2> DEFINE chosen == CHOOSE h : SumsUp(h, f, s)
  <2>3. SumsUp(chosen, f, s)
    BY <2>2
  <2> HIDE DEF chosen
  <2>4. chosen[s] = g[s]
    <3>1. s \subseteq S /\ \A x \in s : f[x] = f[x]
      OBVIOUS
    <3>2. SumsUp(g, f, S)
      BY <1>1
    <3> HIDE DEF chosen
    <3> QED BY <2>1, <2>3, <3>1, <3>2, SumsAgree
  <2> QED BY <2>4, SumIs DEF chosen
<1> QED BY <1>1, <1>2 DEF TellsSums

(* Any element may be taken out first.                                     *)
LEMMA AnyFirst ==
    ASSUME NEW f, NEW S, Addable(f, S),
           NEW g, TellsSums(g, f, S)
    PROVE  \A x \in S : g[S] = f[x] + g[S \ {x}]
<1> DEFINE Bad == {s \in SUBSET S : ~ \A x \in s : g[s] = f[x] + g[s \ {x}]}
<1>1. \A s \in SUBSET S : s # {} =>
          Chosen(s) \in s /\ g[s] = f[Chosen(s)] + g[s \ {Chosen(s)}]
  BY DEF Chosen, SumsUp, TellsSums
<1>2. ASSUME NEW s \in Bad, \A x \in s : (s \ {x}) \notin Bad PROVE FALSE
  <2>1. PICK x \in s : g[s] # f[x] + g[s \ {x}]
    OBVIOUS
  <2> DEFINE p == Chosen(s)
  <2>2. p \in s /\ g[s] = f[p] + g[s \ {p}]
    BY <1>1
  <2> HIDE DEF p
  <2>3. p # x
    BY <2>1, <2>2
  <2>4. s \ {p} \in SUBSET S /\ s \ {x} \in SUBSET S
    OBVIOUS
  <2>5. g[s \ {p}] = f[x] + g[(s \ {p}) \ {x}]
    BY <1>2, <2>2, <2>3, <2>4
  <2>6. g[s \ {x}] = f[p] + g[(s \ {x}) \ {p}]
    BY <1>2, <2>2, <2>3, <2>4
  <2>7. (s \ {p}) \ {x} = (s \ {x}) \ {p} /\ (s \ {p}) \ {x} \in SUBSET S
    OBVIOUS
  <2>8. f[p] \in Int /\ f[x] \in Int /\ g[(s \ {p}) \ {x}] \in Int
    BY <2>2, <2>7 DEF Addable, TellsSums
  <2> DEFINE rest == g[(s \ {p}) \ {x}]
  <2>9. g[s \ {p}] = f[x] + rest /\ g[s \ {x}] = f[p] + rest
    BY <2>5, <2>6, <2>7
  <2>10. rest \in Int
    BY <2>8
  <2> HIDE DEF rest, Bad
  <2>11. f[p] + (f[x] + rest) = f[x] + (f[p] + rest)
    BY <2>8, <2>10
  <2> QED BY <2>1, <2>2, <2>9, <2>11
<1>3. Bad = {}
  <2> SUFFICES ASSUME Bad # {} PROVE FALSE
    OBVIOUS
  <2>1. Bad \subseteq SUBSET S /\ IsFiniteSet(S)
    BY DEF Addable
  <2> HIDE DEF Bad
  <2>2. PICK s \in Bad : \A x \in s : (s \ {x}) \notin Bad
    BY <2>1, Smallest
  <2> QED BY <1>2, <2>2
<1>4. S \in SUBSET S
  OBVIOUS
<1> QED BY <1>3, <1>4

(* What the later proofs use of a sum: that it is a number, that it is     *)
(* nothing of nothing, that any number may be added or taken out first,    *)
(* that it depends on the numbers alone.                                   *)
LEMMA SumIsInt ==
    ASSUME NEW f, NEW S, Addable(f, S)
    PROVE  SumFunctionOnSet(f, S) \in Int
<1>1. PICK g : TellsSums(g, f, S)
  BY SumChosen
<1>2. S \in SUBSET S
  OBVIOUS
<1> QED BY <1>1, <1>2 DEF TellsSums

LEMMA SumOfNone == \A f : SumFunctionOnSet(f, {}) = 0
<1> SUFFICES ASSUME NEW f PROVE SumFunctionOnSet(f, {}) = 0
  OBVIOUS
<1> DEFINE zero == [s \in SUBSET {} |-> 0]
           chosen == CHOOSE h : SumsUp(h, f, {})
<1>1. SumsUp(zero, f, {})
  BY DEF SumsUp
<1>2. SumsUp(chosen, f, {})
  BY <1>1
<1>3. chosen[{}] = 0
  <2> HIDE DEF chosen
  <2> QED BY <1>2 DEF SumsUp
<1> QED BY <1>3, SumIs

LEMMA SumWithout ==
    ASSUME NEW f, NEW S, Addable(f, S),
           NEW x \in S
    PROVE  SumFunctionOnSet(f, S) = f[x] + SumFunctionOnSet(f, S \ {x})
<1>1. PICK g : TellsSums(g, f, S)
  BY SumChosen
<1>2. \A y \in S : g[S] = f[y] + g[S \ {y}]
  BY <1>1, AnyFirst
<1> QED BY <1>1, <1>2 DEF TellsSums

LEMMA SumSame ==
    ASSUME NEW f, NEW S, Addable(f, S),
           NEW e, \A x \in S : f[x] = e[x]
    PROVE  SumFunctionOnSet(f, S) = SumFunctionOnSet(e, S)
<1>1. PICK g : TellsSums(g, f, S)
  BY SumChosen
<1>2. PICK h : TellsSums(h, e, S)
  <2>1. Addable(e, S)
    BY DEF Addable
  <2> QED BY <2>1, SumChosen
<1>3. g[S] = h[S]
  <2>1. SumsUp(g, f, S) /\ SumsUp(h, e, S) /\ S \subseteq S /\ S \in SUBSET S
    BY <1>1, <1>2 DEF TellsSums
  <2> QED BY <2>1, SumsAgree
<1> QED BY <1>1, <1>2, <1>3 DEF TellsSums

(* One more number.                                                        *)
LEMMA SumWith ==
    ASSUME NEW f, NEW S, Addable(f, S), NEW x, x \notin S, f[x] \in Int
    PROVE  /\ Addable(f, S \cup {x})
           /\ SumFunctionOnSet(f, S \cup {x}) = f[x] + SumFunctionOnSet(f, S)
<1>1. Addable(f, S \cup {x})
  BY FS_AddElement DEF Addable
<1>2. (S \cup {x}) \ {x} = S /\ x \in S \cup {x}
  OBVIOUS
<1> QED BY <1>1, <1>2, SumWithout

LEMMA SumIsNat ==
    ASSUME NEW f, NEW S, IsFiniteSet(S), \A x \in S : f[x] \in Nat
    PROVE  SumFunctionOnSet(f, S) \in Nat
<1> DEFINE Bad == {s \in SUBSET S : SumFunctionOnSet(f, s) \notin Nat}
<1>1. ASSUME NEW s \in Bad, \A x \in s : (s \ {x}) \notin Bad PROVE FALSE
  <2>1. Addable(f, s)
    BY FS_Subset DEF Addable
  <2>2. s # {}
    BY SumOfNone
  <2>3. PICK x \in s : TRUE
    BY <2>2
  <2>4. SumFunctionOnSet(f, s \ {x}) \in Nat
    BY <1>1
  <2>5. SumFunctionOnSet(f, s) = f[x] + SumFunctionOnSet(f, s \ {x})
    BY <2>1, SumWithout
  <2> QED BY <2>4, <2>5
<1>2. Bad = {}
  <2> SUFFICES ASSUME Bad # {} PROVE FALSE
    OBVIOUS
  <2>1. Bad \subseteq SUBSET S
    OBVIOUS
  <2> HIDE DEF Bad
  <2>2. PICK s \in Bad : \A x \in s : (s \ {x}) \notin Bad
    BY <2>1, Smallest
  <2> QED BY <1>1, <2>2
<1>3. S \in SUBSET S
  OBVIOUS
<1> QED BY <1>2, <1>3

LEMMA SumOfZeros ==
    ASSUME NEW f, NEW S, IsFiniteSet(S), \A x \in S : f[x] = 0
    PROVE  SumFunctionOnSet(f, S) = 0
<1> DEFINE Bad == {s \in SUBSET S : SumFunctionOnSet(f, s) # 0}
<1>1. ASSUME NEW s \in Bad, \A x \in s : (s \ {x}) \notin Bad PROVE FALSE
  <2>1. Addable(f, s)
    BY FS_Subset DEF Addable
  <2>2. s # {}
    BY SumOfNone
  <2>3. PICK x \in s : TRUE
    BY <2>2
  <2>4. SumFunctionOnSet(f, s \ {x}) = 0
    BY <1>1
  <2>5. SumFunctionOnSet(f, s) = f[x] + SumFunctionOnSet(f, s \ {x})
    BY <2>1, SumWithout
  <2> QED BY <2>4, <2>5
<1>2. Bad = {}
  <2> SUFFICES ASSUME Bad # {} PROVE FALSE
    OBVIOUS
  <2>1. Bad \subseteq SUBSET S
    OBVIOUS
  <2> HIDE DEF Bad
  <2>2. PICK s \in Bad : \A x \in s : (s \ {x}) \notin Bad
    BY <2>1, Smallest
  <2> QED BY <1>1, <2>2
<1>3. S \in SUBSET S
  OBVIOUS
<1> QED BY <1>2, <1>3

(* What the elements of s whose key is c come to.                          *)
Part(f, key, s, c) == SumFunctionOnSet(f, {x \in s : key[x] = c})
Parts(f, key, s, K) == [c \in K |-> Part(f, key, s, c)]

LEMMA PartsMove ==
    ASSUME NEW f, NEW S, Addable(f, S), NEW K, IsFiniteSet(K), NEW key,
           \A x \in S : key[x] \in K, NEW x \in S
    PROVE  SumFunctionOnSet(Parts(f, key, S, K), K) =
           f[x] + SumFunctionOnSet(Parts(f, key, S \ {x}, K), K)
<1> DEFINE k == key[x]
           rest == S \ {x}
           P(s, c) == {y \in s : key[y] = c}
           F == Parts(f, key, S, K)
           G == Parts(f, key, rest, K)
<1>1. \A s \in SUBSET S, c \in K : Addable(f, P(s, c))
  BY FS_Subset DEF Addable
<1>2. \A s \in SUBSET S, c \in K : Part(f, key, s, c) \in Int
  BY <1>1, SumIsInt DEF Part
<1>3. \A c \in K : F[c] = Part(f, key, S, c) /\ G[c] = Part(f, key, rest, c)
  BY DEF Parts
<1>4. Addable(F, K) /\ Addable(G, K)
  <2>1. rest \in SUBSET S /\ S \in SUBSET S
    OBVIOUS
  <2> HIDE DEF F, G, rest
  <2> QED BY <1>2, <1>3, <2>1 DEF Addable
<1>5. k \in K
  OBVIOUS
<1>6. \A c \in K \ {k} : F[c] = G[c]
  <2>1. \A c \in K \ {k} : P(S, c) = P(rest, c)
    OBVIOUS
  <2> HIDE DEF F, G, P, rest
  <2> QED BY <1>3, <2>1 DEF Part, P
<1>7. F[k] = f[x] + G[k]
  <2>1. x \in P(S, k) /\ P(S, k) \ {x} = P(rest, k)
    OBVIOUS
  <2>2. Addable(f, P(S, k))
    <3>1. S \in SUBSET S
      OBVIOUS
    <3> HIDE DEF P, k
    <3> QED BY <1>1, <1>5, <3>1
  <2>3. F[k] = SumFunctionOnSet(f, P(S, k)) /\ G[k] = SumFunctionOnSet(f, P(rest, k))
    BY <1>3, <1>5 DEF Part
  <2> HIDE DEF F, G, P, k, rest
  <2> QED BY <2>1, <2>2, <2>3, SumWithout
<1> HIDE DEF F, G, P, k, rest
<1>8. Addable(F, K \ {k}) /\ Addable(G, K \ {k})
  BY <1>4, FS_RemoveElement DEF Addable
<1>9. SumFunctionOnSet(F, K \ {k}) = SumFunctionOnSet(G, K \ {k})
  BY <1>6, <1>8, SumSame
<1>10. /\ SumFunctionOnSet(F, K) = F[k] + SumFunctionOnSet(F, K \ {k})
       /\ SumFunctionOnSet(G, K) = G[k] + SumFunctionOnSet(G, K \ {k})
  BY <1>4, <1>5, SumWithout
<1>11. f[x] \in Int /\ G[k] \in Int /\ SumFunctionOnSet(G, K \ {k}) \in Int
  BY <1>4, <1>5, <1>8, SumIsInt DEF Addable
<1>12. SumFunctionOnSet(F, K) = f[x] + SumFunctionOnSet(G, K)
  BY <1>7, <1>9, <1>10, <1>11
<1> QED BY <1>12 DEF F, G, rest

(* The parts come to the whole.                                            *)
LEMMA SumByParts ==
    ASSUME NEW f, NEW S, Addable(f, S), NEW K, IsFiniteSet(K), NEW key,
           \A x \in S : key[x] \in K
    PROVE  SumFunctionOnSet(Parts(f, key, S, K), K) = SumFunctionOnSet(f, S)
<1> DEFINE Bad == {s \in SUBSET S :
               SumFunctionOnSet(Parts(f, key, s, K), K) # SumFunctionOnSet(f, s)}
<1>1. ASSUME NEW s \in Bad, \A x \in s : (s \ {x}) \notin Bad PROVE FALSE
  <2>1. Addable(f, s) /\ \A x \in s : key[x] \in K
    BY FS_Subset DEF Addable
  <2>2. CASE s = {}
    <3>1. \A c \in K : Part(f, key, {}, c) = 0
      <4>1. \A c \in K : {x \in {} : key[x] = c} = {}
        OBVIOUS
      <4> QED BY <4>1, SumOfNone DEF Part
    <3>2. \A c \in K : Parts(f, key, {}, K)[c] = 0
      BY <3>1 DEF Parts
    <3>3. SumFunctionOnSet(Parts(f, key, {}, K), K) = 0
      BY <3>2, SumOfZeros
    <3> QED BY <2>2, <3>3, SumOfNone
  <2>3. CASE s # {}
    <3>1. PICK x \in s : TRUE
      BY <2>3
    <3>2. s \ {x} \in SUBSET S /\ (s \ {x}) \notin Bad
      BY <1>1
    <3>3. SumFunctionOnSet(Parts(f, key, s \ {x}, K), K) = SumFunctionOnSet(f, s \ {x})
      BY <3>2
    <3>4. SumFunctionOnSet(Parts(f, key, s, K), K) =
              f[x] + SumFunctionOnSet(Parts(f, key, s \ {x}, K), K)
      BY <2>1, PartsMove
    <3>5. SumFunctionOnSet(f, s) = f[x] + SumFunctionOnSet(f, s \ {x})
      BY <2>1, SumWithout
    <3> QED BY <3>3, <3>4, <3>5
  <2> QED BY <2>2, <2>3
<1>2. Bad = {}
  <2> SUFFICES ASSUME Bad # {} PROVE FALSE
    OBVIOUS
  <2>1. Bad \subseteq SUBSET S /\ IsFiniteSet(S)
    BY DEF Addable
  <2> HIDE DEF Bad
  <2>2. PICK s \in Bad : \A x \in s : (s \ {x}) \notin Bad
    BY <2>1, Smallest
  <2> QED BY <1>1, <2>2
<1>3. S \in SUBSET S
  OBVIOUS
<1> QED BY <1>2, <1>3

-----------------------------------------------------------------------------
(* Lines.                                                                  *)

(* An amount that is shorter than the paper is wide is printed whole, one  *)
(* space at least from its label, and ends at the edge (receipt.go         *)
(* leftRight).                                                             *)
THEOREM LineFits ==
    ASSUME NEW left \in Nat, NEW right \in Nat, NEW width \in Nat, right < width
    PROVE  LET line == LeftRight(left, right, width)
           IN  /\ line.right = right
               /\ line.left \in 0..left
               /\ line.pad >= 1
               /\ Length(line) = width
BY DEF LeftRight, Length, AtLeast, AtMost

(* A longer one is printed whole too: the label goes first, and the line   *)
(* runs over the edge.                                                     *)
THEOREM AmountNeverCut ==
    ASSUME NEW left \in Nat, NEW right \in Nat, NEW width \in Nat, right >= width
    PROVE  LET line == LeftRight(left, right, width)
           IN  /\ line.right = right
               /\ line.left = 0
               /\ Length(line) = right + 1
BY DEF LeftRight, Length, AtLeast, AtMost

-----------------------------------------------------------------------------
(* Receipts.                                                               *)

(* The amount of the one line that is about something.                     *)
LEMMA AmountOf ==
    ASSUME NEW lines, NEW line \in lines,
           \A other \in lines : other.what = line.what => other = line
    PROVE  Amount(lines, line.what) = line.amount
<1>1. {other \in lines : other.what = line.what} = {line}
  OBVIOUS
<1> QED BY <1>1 DEF Amount

LEMMA AmountOfNone ==
    ASSUME NEW lines, NEW what, \A line \in lines : line.what # what
    PROVE  Amount(lines, what) = 0
BY DEF Amount

(* A sale whose total is what ComputeTax makes of its subtotal and tax.    *)
Sound(sale) ==
    /\ sale.subtotal \in Nat /\ sale.tax \in Nat /\ sale.paid \in Int
    /\ sale.total = IF sale.mode = "inclusive" THEN sale.subtotal
                                               ELSE sale.subtotal + sale.tax
    /\ sale.change = sale.paid - sale.total

(* A line about something with the amount it should have.                  *)
Carries(lines, what, amount) == \E line \in lines : line.what = what /\ line.amount = amount
Lacks(lines, what) == \A line \in lines : line.what # what

(* Tax is printed as added to the items.                                   *)
Adds(sale) == sale.tax > 0 /\ sale.mode # "inclusive"

(* Lines among which each subject occurs once, with an amount of the sale, *)
(* and tax to be added occurs if there is any.                             *)
Complete(lines, sale) ==
    /\ Carries(lines, "total", sale.total)
    /\ Carries(lines, "paid", sale.paid)
    /\ Adds(sale) => Carries(lines, "tax", sale.tax)
    /\ ~Adds(sale) => Lacks(lines, "tax")
    /\ \/ Carries(lines, "change", sale.change)
       \/ sale.change = 0 /\ Lacks(lines, "change")
    /\ Carries(lines, "subtotal", sale.subtotal) \/ Lacks(lines, "subtotal")
    /\ \A line, other \in lines : line.what = other.what => line = other

LEMMA CompleteBalances ==
    ASSUME NEW sale, NEW lines, Sound(sale), Complete(lines, sale)
    PROVE  Balances(lines, sale.subtotal)
<1>1. \A what, amount : Carries(lines, what, amount) => Amount(lines, what) = amount
  BY AmountOf DEF Complete, Carries
<1>2. \A what : Lacks(lines, what) => Amount(lines, what) = 0
  BY AmountOfNone DEF Lacks
<1>3. Amount(lines, "total") = sale.total /\ Amount(lines, "paid") = sale.paid
  BY <1>1 DEF Complete
<1>4. Amount(lines, "tax") = IF sale.mode = "inclusive" THEN 0 ELSE sale.tax
  BY <1>1, <1>2 DEF Complete, Sound, Adds
<1>5. Amount(lines, "change") = sale.change
  BY <1>1, <1>2 DEF Complete
<1>6. Amount(lines, "subtotal") \in {0, sale.subtotal}
  BY <1>1, <1>2 DEF Complete
<1> QED BY <1>3, <1>4, <1>5, <1>6 DEF Balances, Sound

LEMMA LineIs ==
    \A what, label, amount :
        Line(what, label, amount).what = what /\ Line(what, label, amount).amount = amount
BY DEF Line

(* The receipt adds up, on paper and in the browser, whatever the sale     *)
(* (receipt.go moneyLines, app.js receiptHTML).                            *)
THEOREM ReceiptBalances ==
    ASSUME NEW sale, Sound(sale), sale.change \in Nat
    PROVE  /\ Balances(MoneyLines(sale), sale.subtotal)
           /\ Balances(BrowserLines(sale), sale.subtotal)
<1> DEFINE total == Line("total", 5, sale.total)
           paid == Line("paid", 4, sale.paid)
           change == Line("change", 6, sale.change)
           subtotal == Line("subtotal", 8, sale.subtotal)
           tax == Line("tax", VatLen(sale.rate), sale.tax)
           contained == Line("contained", 6 + VatLen(sale.rate), sale.tax)
<1>1. Complete(MoneyLines(sale), sale)
  <2> DEFINE ls == MoneyLines(sale)
  <2> SUFFICES Complete(ls, sale)
    OBVIOUS
  <2>1. /\ total.what = "total" /\ total.amount = sale.total
        /\ paid.what = "paid" /\ paid.amount = sale.paid
        /\ change.what = "change" /\ change.amount = sale.change
        /\ subtotal.what = "subtotal" /\ subtotal.amount = sale.subtotal
        /\ tax.what = "tax" /\ tax.amount = sale.tax
        /\ contained.what = "contained"
    BY LineIs
  <2> HIDE DEF ls
  <2>2. CASE sale.tax > 0 /\ sale.mode # "inclusive"
    <3>1. ls = {total, paid, change, subtotal, tax}
      BY <2>2 DEF ls, MoneyLines, When
    <3> HIDE DEF total, paid, change, subtotal, tax, contained
    <3>2. /\ Carries(ls, "total", sale.total)
          /\ Carries(ls, "paid", sale.paid)
          /\ Carries(ls, "change", sale.change)
          /\ Carries(ls, "subtotal", sale.subtotal)
          /\ Carries(ls, "tax", sale.tax)
      BY <2>1, <3>1 DEF Carries
    <3>3. \A line, other \in ls : line.what = other.what => line = other
      BY <2>1, <3>1
    <3>4. Adds(sale)
      BY <2>2 DEF Adds
    <3> QED BY <3>2, <3>3, <3>4 DEF Complete
  <2>3. CASE sale.tax > 0 /\ sale.mode = "inclusive"
    <3>1. ls = {total, paid, change, contained}
      BY <2>3 DEF ls, MoneyLines, When
    <3> HIDE DEF total, paid, change, subtotal, tax, contained
    <3>2. /\ Carries(ls, "total", sale.total)
          /\ Carries(ls, "paid", sale.paid)
          /\ Carries(ls, "change", sale.change)
      BY <2>1, <3>1 DEF Carries
    <3>3. Lacks(ls, "tax") /\ Lacks(ls, "subtotal")
      BY <2>1, <3>1 DEF Lacks
    <3>4. \A line, other \in ls : line.what = other.what => line = other
      BY <2>1, <3>1
    <3>5. ~Adds(sale)
      BY <2>3 DEF Adds
    <3> QED BY <3>2, <3>3, <3>4, <3>5 DEF Complete
  <2>4. CASE ~(sale.tax > 0)
    <3>1. ls = {total, paid, change}
      BY <2>4 DEF ls, MoneyLines, When
    <3> HIDE DEF total, paid, change, subtotal, tax, contained
    <3>2. /\ Carries(ls, "total", sale.total)
          /\ Carries(ls, "paid", sale.paid)
          /\ Carries(ls, "change", sale.change)
      BY <2>1, <3>1 DEF Carries
    <3>3. Lacks(ls, "tax") /\ Lacks(ls, "subtotal")
      BY <2>1, <3>1 DEF Lacks
    <3>4. \A line, other \in ls : line.what = other.what => line = other
      BY <2>1, <3>1
    <3>5. ~Adds(sale)
      BY <2>4 DEF Adds
    <3> QED BY <3>2, <3>3, <3>4, <3>5 DEF Complete
  <2> QED BY <2>2, <2>3, <2>4
<1>2. Complete(BrowserLines(sale), sale)
  <2> DEFINE ls == BrowserLines(sale)
             b_subtotal == Line("subtotal", 0, sale.subtotal)
             b_total == Line("total", 0, sale.total)
             b_paid == Line("paid", 0, sale.paid)
             b_tax == Line(IF sale.mode = "inclusive" THEN "contained" ELSE "tax", 0, sale.tax)
             b_change == Line("change", 0, sale.change)
             taxes == When(sale.tax > 0, {b_tax})
             changes == When(sale.change > 0, {b_change})
  <2>1. /\ b_total.what = "total" /\ b_total.amount = sale.total
        /\ b_paid.what = "paid" /\ b_paid.amount = sale.paid
        /\ b_change.what = "change" /\ b_change.amount = sale.change
        /\ b_subtotal.what = "subtotal" /\ b_subtotal.amount = sale.subtotal
        /\ b_tax.what = (IF sale.mode = "inclusive" THEN "contained" ELSE "tax")
        /\ b_tax.amount = sale.tax
    BY LineIs
  <2>2. ls = {b_subtotal, b_total, b_paid} \cup taxes \cup changes
    BY DEF BrowserLines
  <2>3. taxes = IF sale.tax > 0 THEN {b_tax} ELSE {}
    BY DEF When
  <2>4. \/ changes = {} /\ sale.change = 0
        \/ changes = {b_change}
    BY DEF When
  <2> HIDE DEF ls, b_total, b_paid, b_change, b_subtotal, b_tax, taxes, changes
  <2>5. /\ Carries(ls, "total", sale.total)
        /\ Carries(ls, "paid", sale.paid)
        /\ Carries(ls, "subtotal", sale.subtotal)
    BY <2>1, <2>2 DEF Carries
  <2>6. \/ Carries(ls, "change", sale.change)
        \/ sale.change = 0 /\ Lacks(ls, "change")
    <3>1. CASE changes = {b_change}
      <4>1. b_change \in ls
        BY <2>2, <3>1
      <4>2. Carries(ls, "change", sale.change)
        BY <2>1, <4>1 DEF Carries
      <4> QED BY <4>2
    <3>2. CASE changes = {} /\ sale.change = 0
      BY <2>1, <2>2, <2>3, <3>2 DEF Lacks
    <3> QED BY <2>4, <3>1, <3>2
  <2>7. /\ Adds(sale) => Carries(ls, "tax", sale.tax)
        /\ ~Adds(sale) => Lacks(ls, "tax")
    <3>1. CASE Adds(sale)
      BY <2>1, <2>2, <2>3, <3>1 DEF Carries, Adds
    <3>2. CASE ~Adds(sale)
      <4>1. \A line \in taxes : line.what # "tax"
        BY <2>1, <2>3, <3>2 DEF Adds
      <4>2. \A line \in changes : line.what # "tax"
        BY <2>1, <2>4
      <4>3. Lacks(ls, "tax")
        BY <2>1, <2>2, <4>1, <4>2 DEF Lacks
      <4> QED BY <3>2, <4>3
    <3> QED BY <3>1, <3>2
  <2>8. \A line, other \in ls : line.what = other.what => line = other
    <3>1. taxes \subseteq {b_tax} /\ changes \subseteq {b_change}
      BY <2>3, <2>4
    <3>2. ls \subseteq {b_subtotal, b_total, b_paid, b_tax, b_change}
      BY <2>2, <3>1
    <3>3. b_tax.what \in {"contained", "tax"}
      BY <2>1
    <3>4. \A line, other \in {b_subtotal, b_total, b_paid, b_tax, b_change} :
              line.what = other.what => line = other
      BY <2>1, <3>3
    <3> QED BY <3>2, <3>4
  <2> QED BY <2>5, <2>6, <2>7, <2>8 DEF Complete, ls
<1> QED BY <1>1, <1>2, CompleteBalances

-----------------------------------------------------------------------------
(* The logo.                                                               *)

LEMMA DivBounds ==
    ASSUME NEW a \in Nat, NEW b \in Nat \ {0}
    PROVE  /\ a \div b \in Nat
           /\ b * (a \div b) <= a
           /\ a < b * (a \div b) + b
OBVIOUS

LEMMA DivBelow ==
    ASSUME NEW dot \in Nat, NEW size \in Nat \ {0}, NEW dots \in Nat \ {0}, dot < dots
    PROVE  Sample(dot, size, dots) \in 0..(size - 1)
<1> DEFINE q == (dot * size) \div dots
<1>1. dot * size \in Nat
  OBVIOUS
<1>2. q \in Nat /\ dots * q <= dot * size
  BY <1>1, DivBounds
<1>3. dot * size <= (dots - 1) * size
  <2>1. (dots - 1) - dot \in Nat
    OBVIOUS
  <2>2. ((dots - 1) - dot) * size \in Nat
    BY <2>1
  <2> QED BY <2>2
<1>4. (dots - 1) * size = dots * size - size
  OBVIOUS
<1>5. ASSUME q >= size PROVE FALSE
  <2>1. q - size \in Nat
    BY <1>2, <1>5
  <2>2. dots * (q - size) \in Nat
    BY <2>1
  <2>3. dots * (q - size) = dots * q - dots * size
    BY <1>2
  <2> HIDE DEF q
  <2> QED BY <1>2, <1>3, <1>4, <2>2, <2>3
<1> QED BY <1>2, <1>5 DEF Sample

(* The widths a logo may have, in dots.                                    *)
Widths == {n \in 8..384 : n % 8 = 0}

LEMMA WholeBytesFit == \A dots \in 0..384 : WholeBytes(dots) \in Widths
<1> SUFFICES ASSUME NEW dots \in 0..384 PROVE WholeBytes(dots) \in Widths
  OBVIOUS
<1>1. /\ dots % 8 \in 0..7 /\ dots - (dots % 8) \in Nat
      /\ (dots - (dots % 8)) % 8 = 0
  OBVIOUS
<1> QED BY <1>1 DEF WholeBytes, AtLeast, Widths

(* Of an image that is w by h, as a result that is a by b.                 *)
OnPaper(size, w, h) ==
    /\ size.wide \in 8..384 /\ size.wide % 8 = 0
    /\ size.high \in 1..320
    /\ \A x \in 0..(size.wide - 1) : Sample(x, w, size.wide) \in 0..(w - 1)
    /\ \A y \in 0..(size.high - 1) : Sample(y, h, size.high) \in 0..(h - 1)

LEMMA SizeOnPaper ==
    ASSUME NEW w \in Nat \ {0}, NEW h \in Nat \ {0}
    PROVE  \A a \in Widths, b \in 1..320 : OnPaper([wide |-> a, high |-> b], w, h)
<1> SUFFICES ASSUME NEW a \in Widths, NEW b \in 1..320
             PROVE  OnPaper([wide |-> a, high |-> b], w, h)
  OBVIOUS
<1> USE DEF Widths
<1>1. \A x \in 0..(a - 1) : Sample(x, w, a) \in 0..(w - 1)
  BY DivBelow
<1>2. \A y \in 0..(b - 1) : Sample(y, h, b) \in 0..(h - 1)
  BY DivBelow
<1> QED BY <1>1, <1>2 DEF OnPaper

(* A logo of any size is printed within 384 by 320 dots, in whole bytes,   *)
(* and every dot is taken from inside the image (logo.go rasterFromImage). *)
THEOREM LogoOnPaper ==
    ASSUME NEW w \in Nat \ {0}, NEW h \in Nat \ {0}, NEW mm \in {58, 80}
    PROVE  OnPaper(LogoSize(w, h, mm), w, h)
<1> DEFINE capped == AtMost(AtMost(384, PaperDots(mm)), w)
           wide == WholeBytes(capped)
           high == (h * wide) \div w
<1>1. capped \in 0..384
  BY DEF AtMost, PaperDots
<1>2. wide \in Widths
  <2> HIDE DEF capped
  <2> QED BY <1>1, WholeBytesFit
<1> HIDE DEF capped, wide
<1>3. wide \in 8..384 /\ h * wide \in Nat
  BY <1>2 DEF Widths
<1>4. high \in Nat /\ w * high <= h * wide
  BY <1>3, DivBounds
<1>5. CASE high > 320
  <2> DEFINE narrow == (w * 320) \div h
  <2>1. narrow \in Nat /\ h * narrow <= w * 320
    <3>1. w * 320 \in Nat
      OBVIOUS
    <3> QED BY <3>1, DivBounds
  <2>2. narrow <= wide
    <3>1. SUFFICES ASSUME narrow > wide PROVE FALSE
      BY <1>3, <2>1
    <3>2. (high - 320) * w \in Nat /\ (narrow - wide) * h \in Nat
      BY <1>3, <1>4, <1>5, <2>1, <3>1
    <3>3. (high - 320) * w = w * high - w * 320
      BY <1>4
    <3>4. (narrow - wide) * h = h * narrow - h * wide
      BY <1>3, <2>1
    <3>5. (high - 320) * w > 0
      <4>1. (high - 321) * w \in Nat
        BY <1>4, <1>5
      <4>2. (high - 320) * w = (high - 321) * w + w
        BY <1>4
      <4> QED BY <4>1, <4>2
    <3> HIDE DEF high, narrow
    <3> QED BY <1>3, <1>4, <2>1, <3>2, <3>3, <3>4, <3>5
  <2>3. LogoSize(w, h, mm) = [wide |-> WholeBytes(narrow), high |-> 320]
    BY <1>5 DEF LogoSize, capped, wide
  <2> HIDE DEF narrow
  <2>4. narrow \in 0..384
    <3> HIDE DEF high
    <3> QED BY <1>3, <2>1, <2>2
  <2>5. WholeBytes(narrow) \in Widths
    BY <2>4, WholeBytesFit
  <2> DEFINE shrunk == WholeBytes(narrow)
             tallest == 320
  <2>6. tallest \in 1..320
    OBVIOUS
  <2>7. shrunk \in Widths
    BY <2>5
  <2>8. LogoSize(w, h, mm) = [wide |-> shrunk, high |-> tallest]
    BY <2>3
  <2> HIDE DEF shrunk, tallest, high
  <2>9. OnPaper([wide |-> shrunk, high |-> tallest], w, h)
    BY <2>6, <2>7, SizeOnPaper
  <2> QED BY <2>8, <2>9
<1>6. CASE high <= 320
  <2>1. LogoSize(w, h, mm) = [wide |-> wide, high |-> AtLeast(1, high)]
    BY <1>4, <1>6 DEF LogoSize, capped, wide
  <2> DEFINE kept == AtLeast(1, high)
  <2>2. kept \in 1..320
    BY <1>4, <1>6 DEF AtLeast
  <2>3. LogoSize(w, h, mm) = [wide |-> wide, high |-> kept]
    BY <2>1
  <2> HIDE DEF kept, high
  <2>4. OnPaper([wide |-> wide, high |-> kept], w, h)
    BY <1>2, <2>2, SizeOnPaper
  <2> QED BY <2>3, <2>4
<1> QED BY <1>4, <1>5, <1>6

=============================================================================
