-------------------------------- MODULE Sums --------------------------------
(***************************************************************************)
(* What SumFunctionOnSet of the community module Functions computes, for   *)
(* every function and every finite set.  The induction over finite sets is *)
(* stated of a set of sets, not of a predicate.                            *)
(***************************************************************************)
EXTENDS Integers, FiniteSets, Functions, FiniteSetTheorems, WellFoundedInduction, TLAPS

\* The element the sum takes out of a set first.
Taken(s) == CHOOSE x \in s : TRUE

\* g is the recursive function the sum of f over S is defined by.
Recurs(g, f, S) ==
  g = [s \in SUBSET S |-> IF s = {} THEN 0 ELSE f[Taken(s)] + g[s \ {Taken(s)}]]

SumOf(f, S) == CHOOSE g : Recurs(g, f, S)
-------------------------------------------------------------------------------
\* Induction over the subsets of a finite set.
LEMMA SubsetInduction ==
  ASSUME NEW S, IsFiniteSet(S), NEW T,
         {} \in T,
         \A s \in SUBSET S : s # {} /\ (\A x \in s : s \ {x} \in T) => s \in T
  PROVE  SUBSET S \subseteq T
  <1> SUFFICES ASSUME (SUBSET S) \ T # {} PROVE FALSE
    OBVIOUS
  <1> DEFINE Bad == (SUBSET S) \ T
  <1>1. Bad \subseteq FiniteSubsetsOf(S)
    BY FS_Subset DEF FiniteSubsetsOf
  <1>2. IsWellFoundedOn(StrictSubsetOrdering(S), FiniteSubsetsOf(S))
    BY FS_StrictSubsetOrderingWellFounded
  <1>3. PICK s \in Bad : \A t \in Bad : <<t, s>> \notin StrictSubsetOrdering(S)
    BY <1>1, <1>2, WFMin
  <1>4. ASSUME NEW x \in s PROVE s \ {x} \in T
    <2>1. s \ {x} \in SUBSET S /\ s \ {x} # s /\ s \in SUBSET S
      OBVIOUS
    <2>2. <<s \ {x}, s>> \in StrictSubsetOrdering(S)
      BY <2>1 DEF StrictSubsetOrdering
    <2> QED
      BY <1>3, <2>1, <2>2
  <1> QED
    BY <1>3, <1>4

LEMMA SumUnfolds ==
  ASSUME NEW f, NEW S
  PROVE  SumFunctionOnSet(f, S) = SumOf(f, S)[S]
  BY DEF SumFunctionOnSet, FoldFunctionOnSet, MapThenFoldSet, SumOf, Recurs, Taken

LEMMA TakenIsIn == \A s : s # {} => Taken(s) \in s
  BY DEF Taken

LEMMA RecursAt ==
  ASSUME NEW f, NEW S, NEW g, Recurs(g, f, S), NEW s \in SUBSET S
  PROVE  g[s] = IF s = {} THEN 0 ELSE f[Taken(s)] + g[s \ {Taken(s)}]
  BY DEF Recurs

\* The function of a set serves its subsets.
LEMMA RecursWithin ==
  ASSUME NEW f, NEW S, NEW g, Recurs(g, f, S), NEW s \in SUBSET S
  PROVE  Recurs([t \in SUBSET s |-> g[t]], f, s)
  <1> DEFINE h == [t \in SUBSET s |-> g[t]]
  <1>1. ASSUME NEW t \in SUBSET s
        PROVE  h[t] = IF t = {} THEN 0 ELSE f[Taken(t)] + h[t \ {Taken(t)}]
    BY RecursAt
  <1> HIDE DEF h
  <1>2. h = [t \in SUBSET s |-> h[t]]
    BY DEF h
  <1>3. h = [t \in SUBSET s |-> IF t = {} THEN 0 ELSE f[Taken(t)] + h[t \ {Taken(t)}]]
    BY <1>1, <1>2
  <1> QED
    BY <1>3 DEF Recurs, h

LEMMA RecursOnce ==
  ASSUME NEW f, NEW S, IsFiniteSet(S), NEW g, NEW h, Recurs(g, f, S), Recurs(h, f, S)
  PROVE  \A s \in SUBSET S : g[s] = h[s]
  <1> DEFINE T == {s \in SUBSET S : g[s] = h[s]}
  <1>1. {} \in T
    BY RecursAt
  <1>2. ASSUME NEW s \in SUBSET S, s # {}, \A x \in s : s \ {x} \in T PROVE s \in T
    <2>1. g[s \ {Taken(s)}] = h[s \ {Taken(s)}]
      BY <1>2, TakenIsIn
    <2> HIDE DEF T
    <2>2. g[s] = f[Taken(s)] + g[s \ {Taken(s)}]
      BY <1>2, RecursAt
    <2>3. h[s] = f[Taken(s)] + h[s \ {Taken(s)}]
      BY <1>2, RecursAt
    <2> QED
      BY <2>1, <2>2, <2>3 DEF T
  <1>3. SUBSET S \subseteq T
    <2> HIDE DEF T
    <2> QED BY <1>1, <1>2, SubsetInduction
  <1> QED
    BY <1>3

LEMMA RecursExists ==
  ASSUME NEW f, NEW S, IsFiniteSet(S)
  PROVE  \E g : Recurs(g, f, S)
  <1> DEFINE T == {s \in SUBSET S : \E g : Recurs(g, f, s)}
  <1>1. {} \in T
    <2>1. Recurs([s \in SUBSET {} |-> 0], f, {})
      BY DEF Recurs
    <2> QED BY <2>1
  <1>2. ASSUME NEW s \in SUBSET S, s # {}, \A x \in s : s \ {x} \in T PROVE s \in T
    <2> DEFINE h == [t \in SUBSET s |-> IF t = {} THEN 0
                       ELSE f[Taken(t)] + SumOf(f, t \ {Taken(t)})[t \ {Taken(t)}]]
    <2>1. ASSUME NEW u \in SUBSET s, u # s PROVE Recurs(SumOf(f, u), f, u)
      <3>1. PICK x \in s : u \subseteq s \ {x}
        BY <2>1
      <3>2. PICK g : Recurs(g, f, s \ {x})
        BY <1>2
      <3>3. \E k : Recurs(k, f, u)
        BY <3>1, <3>2, RecursWithin
      <3> QED
        BY <3>3 DEF SumOf
    <2>2. ASSUME NEW u \in SUBSET s, u # s, NEW v \in SUBSET u
          PROVE  SumOf(f, u)[v] = SumOf(f, v)[v]
      <3> DEFINE k == [t \in SUBSET v |-> SumOf(f, u)[t]]
      <3>1. Recurs(SumOf(f, u), f, u) /\ Recurs(SumOf(f, v), f, v)
        BY <2>1, <2>2
      <3>2. Recurs(k, f, v)
        BY <3>1, RecursWithin
      <3>3. IsFiniteSet(v)
        BY FS_Subset
      <3>4. k[v] = SumOf(f, v)[v]
        <4> HIDE DEF k
        <4> QED BY <3>1, <3>2, <3>3, RecursOnce
      <3> QED
        BY <3>4
    <2>3. ASSUME NEW u \in SUBSET s, u # s PROVE h[u] = SumOf(f, u)[u]
      <3>1. SumOf(f, u)[u] = IF u = {} THEN 0 ELSE f[Taken(u)] + SumOf(f, u)[u \ {Taken(u)}]
        BY <2>1, <2>3, RecursAt
      <3>2. u # {} => SumOf(f, u)[u \ {Taken(u)}] = SumOf(f, u \ {Taken(u)})[u \ {Taken(u)}]
        BY <2>2, <2>3
      <3> QED
        BY <3>1, <3>2
    <2>4. ASSUME NEW t \in SUBSET s
          PROVE  h[t] = IF t = {} THEN 0 ELSE f[Taken(t)] + h[t \ {Taken(t)}]
      <3>1. t # {} => t \ {Taken(t)} \in SUBSET s /\ t \ {Taken(t)} # s
        BY TakenIsIn
      <3> QED
        BY <2>3, <3>1
    <2> HIDE DEF h
    <2>5. h = [t \in SUBSET s |-> h[t]]
      BY DEF h
    <2>6. Recurs(h, f, s)
      BY <2>4, <2>5 DEF Recurs
    <2> QED
      BY <2>6
  <1>3. SUBSET S \subseteq T
    <2> HIDE DEF T
    <2> QED BY <1>1, <1>2, SubsetInduction
  <1> QED
    BY <1>3
-------------------------------------------------------------------------------
LEMMA SumOfEmpty == \A f : SumFunctionOnSet(f, {}) = 0
  <1> TAKE f
  <1>1. Recurs(SumOf(f, {}), f, {})
    BY RecursExists, FS_EmptySet DEF SumOf
  <1> QED
    BY <1>1, RecursAt, SumUnfolds

LEMMA SumTakes ==
  ASSUME NEW f, NEW S, IsFiniteSet(S), S # {}
  PROVE  SumFunctionOnSet(f, S) = f[Taken(S)] + SumFunctionOnSet(f, S \ {Taken(S)})
  <1> DEFINE R == S \ {Taken(S)}
             k == [t \in SUBSET R |-> SumOf(f, S)[t]]
  <1>1. IsFiniteSet(R) /\ R \in SUBSET S
    BY FS_Subset
  <1>2. Recurs(SumOf(f, S), f, S) /\ Recurs(SumOf(f, R), f, R)
    BY <1>1, RecursExists DEF SumOf
  <1>3. Recurs(k, f, R)
    BY <1>1, <1>2, RecursWithin
  <1>4. k[R] = SumOf(f, R)[R]
    <2> HIDE DEF k, R
    <2> QED BY <1>1, <1>2, <1>3, RecursOnce
  <1>5. SumOf(f, S)[S] = f[Taken(S)] + SumOf(f, S)[R]
    BY <1>2, RecursAt
  <1> QED
    BY <1>4, <1>5, SumUnfolds

LEMMA SumInt ==
  ASSUME NEW f, NEW S, IsFiniteSet(S), \A x \in S : f[x] \in Int
  PROVE  SumFunctionOnSet(f, S) \in Int
  <1> DEFINE T == {s \in SUBSET S : SumFunctionOnSet(f, s) \in Int}
  <1>1. {} \in T
    BY SumOfEmpty
  <1>2. ASSUME NEW s \in SUBSET S, s # {}, \A x \in s : s \ {x} \in T PROVE s \in T
    <2>1. SumFunctionOnSet(f, s) = f[Taken(s)] + SumFunctionOnSet(f, s \ {Taken(s)})
      BY <1>2, SumTakes, FS_Subset
    <2> QED
      BY <1>2, <2>1, TakenIsIn
  <1>3. SUBSET S \subseteq T
    <2> HIDE DEF T
    <2> QED BY <1>1, <1>2, SubsetInduction
  <1> QED
    BY <1>3

\* Any element can be taken out first.
LEMMA SumWithout ==
  ASSUME NEW f, NEW S, IsFiniteSet(S), \A x \in S : f[x] \in Int, NEW c \in S
  PROVE  SumFunctionOnSet(f, S) = f[c] + SumFunctionOnSet(f, S \ {c})
  <1> DEFINE Fits(s, x) == SumFunctionOnSet(f, s) = f[x] + SumFunctionOnSet(f, s \ {x})
             T == {s \in SUBSET S : \A x \in s : Fits(s, x)}
  <1>1. {} \in T
    OBVIOUS
  <1>2. ASSUME NEW s \in SUBSET S, s # {}, \A x \in s : s \ {x} \in T PROVE s \in T
    <2> SUFFICES ASSUME NEW x \in s PROVE Fits(s, x)
      OBVIOUS
    <2> DEFINE t == Taken(s)
    <2>1. t \in s /\ Fits(s, t)
      BY <1>2, SumTakes, TakenIsIn, FS_Subset
    <2>2. CASE x # t
      <3>1. Fits(s \ {t}, x) /\ Fits(s \ {x}, t)
        BY <1>2, <2>1, <2>2
      <3>2. (s \ {t}) \ {x} = (s \ {x}) \ {t}
        OBVIOUS
      <3>3. SumFunctionOnSet(f, (s \ {x}) \ {t}) \in Int
        BY SumInt, FS_Subset
      <3>4. f[x] \in Int /\ f[t] \in Int
        BY <2>1
      <3> HIDE DEF t
      <3>5. SumFunctionOnSet(f, s) = f[t] + (f[x] + SumFunctionOnSet(f, (s \ {x}) \ {t}))
        BY <2>1, <3>1, <3>2
      <3>6. SumFunctionOnSet(f, s \ {x}) = f[t] + SumFunctionOnSet(f, (s \ {x}) \ {t})
        BY <3>1
      <3> QED
        BY <3>3, <3>4, <3>5, <3>6
    <2> QED
      BY <2>1, <2>2
  <1>3. SUBSET S \subseteq T
    <2> HIDE DEF T
    <2> QED BY <1>1, <1>2, SubsetInduction
  <1> QED
    BY <1>3

\* A sum sees only what its function is on its set.
LEMMA SumSame ==
  ASSUME NEW f, NEW g, NEW S, IsFiniteSet(S), \A x \in S : f[x] = g[x]
  PROVE  SumFunctionOnSet(f, S) = SumFunctionOnSet(g, S)
  <1> DEFINE T == {s \in SUBSET S : SumFunctionOnSet(f, s) = SumFunctionOnSet(g, s)}
  <1>1. {} \in T
    BY SumOfEmpty
  <1>2. ASSUME NEW s \in SUBSET S, s # {}, \A x \in s : s \ {x} \in T PROVE s \in T
    <2>1. /\ SumFunctionOnSet(f, s) = f[Taken(s)] + SumFunctionOnSet(f, s \ {Taken(s)})
          /\ SumFunctionOnSet(g, s) = g[Taken(s)] + SumFunctionOnSet(g, s \ {Taken(s)})
      BY <1>2, SumTakes, FS_Subset
    <2> QED
      BY <1>2, <2>1, TakenIsIn
  <1>3. SUBSET S \subseteq T
    <2> HIDE DEF T
    <2> QED BY <1>1, <1>2, SubsetInduction
  <1> QED
    BY <1>3

\* Of natural numbers, a part sums to no more than the whole.
LEMMA SumOfPart ==
  ASSUME NEW f, NEW S, IsFiniteSet(S), \A x \in S : f[x] \in Nat, NEW R \in SUBSET S
  PROVE  0 <= SumFunctionOnSet(f, R) /\ SumFunctionOnSet(f, R) <= SumFunctionOnSet(f, S)
  <1> DEFINE Below(r, s) == 0 <= SumFunctionOnSet(f, r) /\ SumFunctionOnSet(f, r) <= SumFunctionOnSet(f, s)
             T == {s \in SUBSET S : \A r \in SUBSET s : Below(r, s)}
  <1>1. {} \in T
    BY SumOfEmpty
  <1>2. ASSUME NEW s \in SUBSET S, s # {}, \A x \in s : s \ {x} \in T PROVE s \in T
    <2>1. \A r \in SUBSET S : SumFunctionOnSet(f, r) \in Int
      BY SumInt, FS_Subset
    <2>2. ASSUME NEW x \in s
          PROVE  SumFunctionOnSet(f, s) = f[x] + SumFunctionOnSet(f, s \ {x})
      BY SumWithout, FS_Subset
    <2>3. ASSUME NEW r \in SUBSET s, r # s PROVE Below(r, s)
      <3>1. PICK x \in s : r \subseteq s \ {x}
        BY <2>3
      <3>2. Below(r, s \ {x})
        BY <1>2, <3>1
      <3> QED
        BY <2>1, <2>2, <3>2
    <2>4. Below(s, s)
      <3>1. PICK x : x \in s
        BY <1>2
      <3>2. Below(s \ {x}, s)
        BY <2>3, <3>1
      <3> QED
        BY <2>1, <3>2
    <2> QED
      BY <2>3, <2>4
  <1>3. SUBSET S \subseteq T
    <2> HIDE DEF T
    <2> QED BY <1>1, <1>2, SubsetInduction
  <1> QED
    BY <1>3

\* Moving an amount between two elements changes no sum over both.
LEMMA SumMoves ==
  ASSUME NEW f, NEW g, NEW S, IsFiniteSet(S), \A x \in S : f[x] \in Int,
         NEW a \in S, NEW b \in S, a # b, NEW n \in Int,
         g[a] = f[a] - n, g[b] = f[b] + n, \A x \in S \ {a, b} : g[x] = f[x]
  PROVE  SumFunctionOnSet(g, S) = SumFunctionOnSet(f, S)
  <1> DEFINE R == (S \ {a}) \ {b}
  <1>1. IsFiniteSet(S \ {a}) /\ IsFiniteSet(R) /\ b \in S \ {a}
    BY FS_Subset
  <1>2. \A x \in S : g[x] \in Int
    OBVIOUS
  <1>3. /\ SumFunctionOnSet(f, S) = f[a] + SumFunctionOnSet(f, S \ {a})
        /\ SumFunctionOnSet(g, S) = g[a] + SumFunctionOnSet(g, S \ {a})
    BY <1>2, SumWithout
  <1>4. /\ SumFunctionOnSet(f, S \ {a}) = f[b] + SumFunctionOnSet(f, R)
        /\ SumFunctionOnSet(g, S \ {a}) = g[b] + SumFunctionOnSet(g, R)
    BY <1>1, <1>2, SumWithout
  <1>5. SumFunctionOnSet(f, R) = SumFunctionOnSet(g, R) /\ SumFunctionOnSet(f, R) \in Int
    BY <1>1, SumSame, SumInt
  <1> HIDE DEF R
  <1> QED
    BY <1>3, <1>4, <1>5
=============================================================================
