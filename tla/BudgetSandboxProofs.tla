------------------------ MODULE BudgetSandboxProofs ------------------------
(***************************************************************************)
(* The adapter's cache and the sandboxes' totals, under any number of      *)
(* calls, sessions and starts, and any amounts.                            *)
(*                                                                         *)
(* A rejected start deletes whatever its session's entry holds by then.    *)
(* That this never leaves a rejected start behind, in this entry or in     *)
(* another, rests on CachedIsOwn: a session's entry only ever holds starts *)
(* made for that session.                                                  *)
(*                                                                         *)
(* It follows that a sandbox serves one session (Owners), and that while   *)
(* nothing fails a session has one start, where all of its scripts run.  A *)
(* total is the sum over the scripts that ran (Sums), and so are the sums  *)
(* of either breakdown.  Sums over finite sets are reasoned about without  *)
(* induction: of the sets a statement fails for, a minimal one is taken.   *)
(***************************************************************************)
EXTENDS BudgetSandbox, FiniteSetTheorems, WellFoundedInduction, TLAPS

-----------------------------------------------------------------------------
(* Sums over finite sets. *)

\* The order of the naturals, as a relation.
Below == {p \in Nat \X Nat : p[1] < p[2]}

\* A set of naturals has a least element.
LEMMA LeastNatural ==
    ASSUME NEW T, T \subseteq Nat, T # {}
    PROVE  \E m \in T : \A n \in T : m <= n
<1>1. IsWellFoundedOn(Below, Nat)
  BY NatLessThanWellFounded, Zenon DEF OpToRel, Below
<1>2. PICK m \in T : \A n \in T : <<n, m>> \notin Below
  BY <1>1, WFMin
<1>3. \A n \in T : m <= n
  <2> TAKE n \in T
  <2>1. n \in Nat /\ m \in Nat
    BY <1>2
  <2>2. ~(n < m)
    BY <1>2, <2>1 DEF Below
  <2> QED
    BY <2>1, <2>2
<1> QED
  BY <1>2, <1>3

\* Among subsets of a finite set there is one that contains no other.  It takes
\* the place of induction in what follows: of the sets a statement fails for, a
\* minimal one is looked at.
LEMMA MinimalSubset ==
    ASSUME NEW S, IsFiniteSet(S), NEW T, T \subseteq SUBSET S, T # {}
    PROVE  \E m \in T : \A n \in T : n \subseteq m => n = m
<1> DEFINE C == {Cardinality(t) : t \in T}
<1>1. \A t \in T : IsFiniteSet(t) /\ Cardinality(t) \in Nat
  BY FS_Subset, FS_CardinalityType
<1>2. PICK k \in C : \A n \in C : k <= n
  <2>1. C \subseteq Nat /\ C # {}
    BY <1>1
  <2> HIDE DEF C
  <2> QED
    BY <2>1, LeastNatural
<1>3. PICK m \in T : Cardinality(m) = k
  BY <1>2
<1>4. ASSUME NEW n \in T, n \subseteq m
      PROVE  n = m
  <2>1. Cardinality(n) <= Cardinality(m) /\ (Cardinality(n) = Cardinality(m) => n = m)
    BY <1>1, <1>4, FS_Subset
  <2>2. Cardinality(m) <= Cardinality(n)
    BY <1>2, <1>3
  <2> QED
    BY <1>1, <2>1, <2>2
<1> QED
  BY <1>4

\* The element SumFunctionOnSet takes from a set, and the function it defines:
\* the sum over each subset of S.
Taken(s) == CHOOSE x \in s : TRUE
IsSummer(g, f, S) ==
    g = [s \in SUBSET S |-> IF s = {} THEN 0 ELSE f[Taken(s)] + g[s \ {Taken(s)}]]

LEMMA SummerSteps ==
    ASSUME NEW f, NEW S, NEW g, IsSummer(g, f, S), NEW s \in SUBSET S
    PROVE  /\ s = {} => g[s] = 0
           /\ s # {} => Taken(s) \in s /\ g[s] = f[Taken(s)] + g[s \ {Taken(s)}]
<1>1. s # {} => Taken(s) \in s
  BY DEF Taken
<1>2. g[s] = IF s = {} THEN 0 ELSE f[Taken(s)] + g[s \ {Taken(s)}]
  BY Zenon DEF IsSummer
<1> QED
  BY <1>1, <1>2

LEMMA SummersAgree ==
    ASSUME NEW f, NEW S, IsFiniteSet(S), NEW g, IsSummer(g, f, S),
           NEW T \in SUBSET S, NEW h, IsSummer(h, f, T)
    PROVE  \A s \in SUBSET T : h[s] = g[s]
<1> DEFINE Bad == {s \in SUBSET T : h[s] # g[s]}
<1> SUFFICES ASSUME Bad # {} PROVE FALSE
  OBVIOUS
<1>1. PICK m \in Bad : \A n \in Bad : n \subseteq m => n = m
  <2>1. Bad \subseteq SUBSET S
    OBVIOUS
  <2> HIDE DEF Bad
  <2> QED
    BY <2>1, MinimalSubset
<1>2. m \in SUBSET T /\ m \in SUBSET S /\ h[m] # g[m]
  BY <1>1
<1>3. m # {} /\ Taken(m) \in m
  BY <1>2, SummerSteps
<1>4. h[m] = f[Taken(m)] + h[m \ {Taken(m)}]
  BY <1>2, <1>3, SummerSteps
<1>5. g[m] = f[Taken(m)] + g[m \ {Taken(m)}]
  BY <1>2, <1>3, SummerSteps
<1>6. h[m \ {Taken(m)}] = g[m \ {Taken(m)}]
  BY <1>1, <1>3
<1> QED
  BY <1>2, <1>4, <1>5, <1>6

LEMMA SummerExists ==
    ASSUME NEW f, NEW S, IsFiniteSet(S)
    PROVE  \E g : IsSummer(g, f, S)
<1> DEFINE Bad == {s \in SUBSET S : ~ \E g : IsSummer(g, f, s)}
<1> SUFFICES ASSUME Bad # {} PROVE FALSE
  BY Zenon
<1>1. PICK m \in Bad : \A n \in Bad : n \subseteq m => n = m
  <2>1. Bad \subseteq SUBSET S
    OBVIOUS
  <2> HIDE DEF Bad
  <2> QED
    BY <2>1, MinimalSubset
<1> DEFINE Of(s) == CHOOSE g : IsSummer(g, f, s)
           Total(s) == IF s = {} THEN 0
                       ELSE f[Taken(s)] + Of(s \ {Taken(s)})[s \ {Taken(s)}]
           g == [s \in SUBSET m |-> Total(s)]
<1>2. ASSUME NEW s \in SUBSET m, s # m
      PROVE  IsSummer(Of(s), f, s) /\ IsFiniteSet(s)
  <2>1. s \in SUBSET S /\ s \notin Bad
    BY <1>1, <1>2
  <2>2. \E h : IsSummer(h, f, s)
    BY <2>1
  <2>3. IsSummer(Of(s), f, s)
    BY <2>2, Zenon
  <2> QED
    BY <2>1, <2>3, FS_Subset
<1>3. ASSUME NEW s \in SUBSET m, s # m
      PROVE  Of(s)[s] = g[s]
  <2> HIDE DEF Of
  <2>1. IsSummer(Of(s), f, s) /\ IsFiniteSet(s)
    BY <1>2, <1>3
  <2>2. CASE s = {}
    BY <2>1, <2>2, SummerSteps
  <2>3. CASE s # {}
    <3> DEFINE r == s \ {Taken(s)}
    <3>1. Taken(s) \in s /\ Of(s)[s] = f[Taken(s)] + Of(s)[r]
      BY <2>1, <2>3, SummerSteps
    <3>2. r \in SUBSET m /\ r # m /\ r \in SUBSET s
      BY <3>1
    <3>3. IsSummer(Of(r), f, r)
      BY <1>2, <3>2
    <3>4. Of(r)[r] = Of(s)[r]
      <4> HIDE DEF r
      <4> QED
        BY <2>1, <3>2, <3>3, SummersAgree
    <3> QED
      BY <2>3, <3>1, <3>4
  <2> QED
    BY <2>2, <2>3
<1>4. ASSUME NEW s \in SUBSET m
      PROVE  g[s] = IF s = {} THEN 0 ELSE f[Taken(s)] + g[s \ {Taken(s)}]
  <2>1. g[s] = Total(s)
    OBVIOUS
  <2>2. s # {} => s \ {Taken(s)} \in SUBSET m /\ s \ {Taken(s)} # m
    BY DEF Taken
  <2>3. s # {} => Of(s \ {Taken(s)})[s \ {Taken(s)}] = g[s \ {Taken(s)}]
    BY <1>3, <2>2
  <2> HIDE DEF g, Of
  <2> QED
    BY <2>1, <2>3
<1>5. IsSummer(g, f, m)
  <2>1. g = [s \in SUBSET m |-> g[s]]
    OBVIOUS
  <2> HIDE DEF g
  <2> QED
    BY <1>4, <2>1, Zenon DEF IsSummer
<1> QED
  BY <1>1, <1>5

\* What SumFunctionOnSet(f, T) stands for, for every finite T.
LEMMA SumIsSummer ==
    ASSUME NEW f, NEW S, IsFiniteSet(S)
    PROVE  \E g : IsSummer(g, f, S) /\ \A T \in SUBSET S : SumFunctionOnSet(f, T) = g[T]
<1>1. PICK g : IsSummer(g, f, S)
  BY SummerExists
<1>2. ASSUME NEW T \in SUBSET S
      PROVE  SumFunctionOnSet(f, T) = g[T]
  <2> DEFINE h == CHOOSE g_1 : IsSummer(g_1, f, T)
  <2>1. SumFunctionOnSet(f, T) = h[T]
    BY Zenon DEF SumFunctionOnSet, FoldFunctionOnSet, MapThenFoldSet, IsSummer, Taken
  <2>2. \E g_1 : IsSummer(g_1, f, T)
    BY FS_Subset, SummerExists
  <2>3. IsSummer(h, f, T)
    BY <2>2, Zenon
  <2> HIDE DEF h
  <2>4. h[T] = g[T]
    BY <1>1, <2>3, SummersAgree
  <2> QED
    BY <2>1, <2>4
<1> QED
  BY <1>1, <1>2

LEMMA SumSteps ==
    ASSUME NEW f, NEW S, IsFiniteSet(S)
    PROVE  /\ S = {} => SumFunctionOnSet(f, S) = 0
           /\ S # {} => /\ Taken(S) \in S
                        /\ SumFunctionOnSet(f, S)
                              = f[Taken(S)] + SumFunctionOnSet(f, S \ {Taken(S)})
<1>1. PICK g : IsSummer(g, f, S) /\ \A T \in SUBSET S : SumFunctionOnSet(f, T) = g[T]
  BY SumIsSummer
<1>2. SumFunctionOnSet(f, S) = g[S] /\ SumFunctionOnSet(f, S \ {Taken(S)}) = g[S \ {Taken(S)}]
  BY <1>1
<1> QED
  BY <1>1, <1>2, SummerSteps

\* The empty sum.
LEMMA SumEmpty == ASSUME NEW f PROVE SumFunctionOnSet(f, {}) = 0
  BY SumSteps, FS_EmptySet

\* A sum of naturals is one.
LEMMA SumType ==
    ASSUME NEW f, NEW S, IsFiniteSet(S), \A x \in S : f[x] \in Nat
    PROVE  SumFunctionOnSet(f, S) \in Nat
<1> DEFINE Bad == {s \in SUBSET S : SumFunctionOnSet(f, s) \notin Nat}
<1> SUFFICES ASSUME Bad # {} PROVE FALSE
  BY Zenon
<1>1. PICK m \in Bad : \A n \in Bad : n \subseteq m => n = m
  <2>1. Bad \subseteq SUBSET S
    OBVIOUS
  <2> HIDE DEF Bad
  <2> QED
    BY <2>1, MinimalSubset
<1>2. m \in SUBSET S /\ IsFiniteSet(m) /\ SumFunctionOnSet(f, m) \notin Nat
  BY <1>1, FS_Subset
<1>3. /\ Taken(m) \in m
      /\ SumFunctionOnSet(f, m) = f[Taken(m)] + SumFunctionOnSet(f, m \ {Taken(m)})
  BY <1>2, SumSteps
<1>4. SumFunctionOnSet(f, m \ {Taken(m)}) \in Nat
  BY <1>1, <1>2, <1>3
<1> QED
  BY <1>2, <1>3, <1>4

\* Any element may be taken out first.
LEMMA SumRemove ==
    ASSUME NEW f, NEW S, IsFiniteSet(S), \A x \in S : f[x] \in Nat, NEW x \in S
    PROVE  SumFunctionOnSet(f, S) = f[x] + SumFunctionOnSet(f, S \ {x})
<1> DEFINE Sum(s) == SumFunctionOnSet(f, s)
           Bad == {s \in SUBSET S : \E z \in s : Sum(s) # f[z] + Sum(s \ {z})}
<1> SUFFICES ASSUME Bad # {} PROVE FALSE
  BY Zenon
<1>1. PICK m \in Bad : \A n \in Bad : n \subseteq m => n = m
  <2>1. Bad \subseteq SUBSET S
    OBVIOUS
  <2> HIDE DEF Bad
  <2> QED
    BY <2>1, MinimalSubset
<1>2. m \in SUBSET S /\ IsFiniteSet(m)
  BY <1>1, FS_Subset
<1>3. PICK z \in m : Sum(m) # f[z] + Sum(m \ {z})
  BY <1>1
<1>4. PICK y \in m : Sum(m) = f[y] + Sum(m \ {y})
  BY <1>2, SumSteps
<1> DEFINE r == m \ {y, z}
<1>5. y # z
  BY <1>3, <1>4
<1>6. Sum(m \ {y}) = f[z] + Sum(r)
  <2>1. m \ {y} \in SUBSET S /\ m \ {y} \notin Bad /\ z \in m \ {y}
    BY <1>1, <1>2, <1>4, <1>5
  <2>2. (m \ {y}) \ {z} = r
    OBVIOUS
  <2> QED
    BY <2>1, <2>2
<1>7. Sum(m \ {z}) = f[y] + Sum(r)
  <2>1. m \ {z} \in SUBSET S /\ m \ {z} \notin Bad /\ y \in m \ {z}
    BY <1>1, <1>2, <1>3, <1>5
  <2>2. (m \ {z}) \ {y} = r
    OBVIOUS
  <2> QED
    BY <2>1, <2>2
<1>8. Sum(r) \in Nat /\ f[y] \in Nat /\ f[z] \in Nat
  <2>1. r \in SUBSET S
    BY <1>2
  <2>2. IsFiniteSet(r)
    BY <2>1, FS_Subset
  <2>3. \A a \in r : f[a] \in Nat
    BY <2>1
  <2> HIDE DEF r
  <2> QED
    BY <1>2, <2>2, <2>3, SumType
<1> HIDE DEF Sum, r
<1> QED
  BY <1>3, <1>4, <1>6, <1>7, <1>8

\* An element that joins adds its own.
LEMMA SumAdd ==
    ASSUME NEW f, NEW S, IsFiniteSet(S), NEW x, x \notin S, f[x] \in Nat,
           \A y \in S : f[y] \in Nat
    PROVE  SumFunctionOnSet(f, S \cup {x}) = SumFunctionOnSet(f, S) + f[x]
<1> DEFINE Sum(s) == SumFunctionOnSet(f, s)
<1>1. IsFiniteSet(S \cup {x}) /\ (S \cup {x}) \ {x} = S
  BY FS_AddElement
<1>2. \A y \in S \cup {x} : f[y] \in Nat
  OBVIOUS
<1>3. Sum(S \cup {x}) = f[x] + Sum((S \cup {x}) \ {x})
  BY <1>1, <1>2, SumRemove
<1>4. Sum(S) \in Nat
  BY SumType
<1> HIDE DEF Sum
<1>5. Sum(S \cup {x}) = f[x] + Sum(S)
  BY <1>1, <1>3
<1>6. Sum(S \cup {x}) = Sum(S) + f[x]
  BY <1>4, <1>5
<1> QED
  BY <1>6 DEF Sum

\* The sum depends on nothing but the elements' values.
LEMMA SumSame ==
    ASSUME NEW f, NEW g, NEW S, IsFiniteSet(S), \A x \in S : f[x] = g[x]
    PROVE  SumFunctionOnSet(f, S) = SumFunctionOnSet(g, S)
<1> DEFINE Bad == {s \in SUBSET S : SumFunctionOnSet(f, s) # SumFunctionOnSet(g, s)}
<1> SUFFICES ASSUME Bad # {} PROVE FALSE
  BY Zenon
<1>1. PICK m \in Bad : \A n \in Bad : n \subseteq m => n = m
  <2>1. Bad \subseteq SUBSET S
    OBVIOUS
  <2> HIDE DEF Bad
  <2> QED
    BY <2>1, MinimalSubset
<1>2. /\ m \in SUBSET S /\ IsFiniteSet(m)
      /\ SumFunctionOnSet(f, m) # SumFunctionOnSet(g, m)
  BY <1>1, FS_Subset
<1> DEFINE r == m \ {Taken(m)}
<1>3. m # {}
  BY <1>2, SumSteps
<1>4. /\ Taken(m) \in m
      /\ SumFunctionOnSet(f, m) = f[Taken(m)] + SumFunctionOnSet(f, r)
  BY <1>2, <1>3, SumSteps
<1>5. SumFunctionOnSet(g, m) = g[Taken(m)] + SumFunctionOnSet(g, r)
  BY <1>2, <1>3, SumSteps
<1>6. SumFunctionOnSet(f, r) = SumFunctionOnSet(g, r)
  BY <1>1, <1>2, <1>4
<1>7. f[Taken(m)] = g[Taken(m)]
  BY <1>2, <1>4
<1> HIDE DEF r
<1> QED
  BY <1>2, <1>4, <1>5, <1>6, <1>7

\* What joins a set does not lower its sum.
LEMMA SumGrows ==
    ASSUME NEW f, NEW S, IsFiniteSet(S), \A x \in S : f[x] \in Nat, NEW T \in SUBSET S
    PROVE  SumFunctionOnSet(f, T) <= SumFunctionOnSet(f, S)
<1> DEFINE Sum(s) == SumFunctionOnSet(f, s)
           Bad == {s \in SUBSET S : T \subseteq s /\ ~(Sum(T) <= Sum(s))}
<1> SUFFICES ASSUME Bad # {} PROVE FALSE
  BY Zenon
<1>1. PICK m \in Bad : \A n \in Bad : n \subseteq m => n = m
  <2>1. Bad \subseteq SUBSET S
    OBVIOUS
  <2> HIDE DEF Bad
  <2> QED
    BY <2>1, MinimalSubset
<1>2. m \in SUBSET S /\ T \subseteq m /\ ~(Sum(T) <= Sum(m)) /\ IsFiniteSet(m)
  BY <1>1, FS_Subset
<1>3. \A s \in SUBSET S : Sum(s) \in Nat
  BY FS_Subset, SumType
<1>4. PICK x \in m : x \notin T
  BY <1>2, <1>3
<1>5. Sum(m) = f[x] + Sum(m \ {x})
  BY <1>2, SumRemove
<1>6. Sum(T) <= Sum(m \ {x})
  <2>1. m \ {x} \in SUBSET S /\ T \subseteq m \ {x} /\ m \ {x} \notin Bad
    BY <1>1, <1>2, <1>4
  <2> QED
    BY <2>1
<1>7. f[x] \in Nat /\ Sum(m) \in Nat /\ Sum(m \ {x}) \in Nat /\ Sum(T) \in Nat
  BY <1>2, <1>3
<1> HIDE DEF Sum
<1> QED
  BY <1>2, <1>5, <1>6, <1>7

-----------------------------------------------------------------------------
(* Breakdowns. *)

LEMMA FoldInType ==
    ASSUME NEW b, NEW keys, DOMAIN b \subseteq keys, b \in [DOMAIN b -> Nat],
           NEW key \in keys, NEW amount \in Nat
    PROVE  LET f == FoldIn(b, key, amount)
           IN  /\ DOMAIN f = DOMAIN b \cup {key} /\ DOMAIN f \subseteq keys
               /\ f \in [DOMAIN f -> Nat]
               /\ f[key] = (IF key \in DOMAIN b THEN b[key] ELSE 0) + amount
               /\ \A k \in DOMAIN b \ {key} : f[k] = b[k]
  BY DEF FoldIn

\* A script leaves the breakdowns of the other sandboxes alone.
LEMMA BreakdownStep ==
    ASSUME NEW by, NEW keys, AreBreakdowns(by, keys), NEW x \in Starts, NEW key \in keys,
           NEW amount \in Nat, NEW next, next = [by EXCEPT ![x] = FoldIn(@, key, amount)]
    PROVE  /\ AreBreakdowns(next, keys)
           /\ next[x] = FoldIn(by[x], key, amount)
           /\ \A y \in Starts \ {x} : next[y] = by[y]
<1> DEFINE f == FoldIn(by[x], key, amount)
<1>1. /\ by = [y \in Starts |-> by[y]]
      /\ \A y \in Starts : DOMAIN by[y] \subseteq keys /\ by[y] \in [DOMAIN by[y] -> Nat]
  BY DEF AreBreakdowns
<1>2. DOMAIN f \subseteq keys /\ f \in [DOMAIN f -> Nat]
  BY <1>1, FoldInType
<1> HIDE DEF f
<1>3. next = [y \in Starts |-> IF y = x THEN f ELSE by[y]]
  BY <1>1 DEF f
<1> QED
  BY <1>1, <1>2, <1>3 DEF AreBreakdowns, f

\* What is folded in is what the sum grows by, under a new key or an old one.
LEMMA FoldInSum ==
    ASSUME NEW b, b \in [DOMAIN b -> Nat], IsFiniteSet(DOMAIN b), NEW key, NEW amount \in Nat
    PROVE  /\ IsFiniteSet(DOMAIN FoldIn(b, key, amount))
           /\ SumFunction(FoldIn(b, key, amount)) = SumFunction(b) + amount
<1> DEFINE D == DOMAIN b
           f == FoldIn(b, key, amount)
           rest == D \ {key}
<1>1. /\ DOMAIN f = D \cup {key} /\ f \in [D \cup {key} -> Nat]
      /\ f[key] = (IF key \in D THEN b[key] ELSE 0) + amount
      /\ \A k \in rest : f[k] = b[k]
  BY DEF FoldIn
<1>2. IsFiniteSet(rest) /\ IsFiniteSet(D \cup {key}) /\ D \cup {key} = rest \cup {key}
  BY FS_AddElement, FS_RemoveElement
<1>3. \A k \in rest : f[k] \in Nat /\ b[k] \in Nat
  BY <1>1
<1> HIDE DEF f
<1>4. SumFunctionOnSet(f, rest \cup {key}) = SumFunctionOnSet(f, rest) + f[key]
  BY <1>1, <1>2, <1>3, SumAdd
<1>5. SumFunctionOnSet(f, rest) = SumFunctionOnSet(b, rest)
  BY <1>1, <1>2, SumSame
<1>6. SumFunctionOnSet(b, rest) \in Nat
  BY <1>2, <1>3, SumType
<1>7. SumFunctionOnSet(b, D) = SumFunctionOnSet(b, rest) + (IF key \in D THEN b[key] ELSE 0)
  <2>1. CASE key \in D
    <3>1. D = rest \cup {key} /\ b[key] \in Nat
      BY <2>1
    <3>2. SumFunctionOnSet(b, rest \cup {key}) = SumFunctionOnSet(b, rest) + b[key]
      BY <1>2, <1>3, <3>1, SumAdd
    <3> QED
      BY <2>1, <3>1, <3>2
  <2>2. CASE key \notin D
    <3>1. D = rest
      BY <2>2
    <3> QED
      BY <1>6, <2>2, <3>1
  <2> QED
    BY <2>1, <2>2
<1>8. (IF key \in D THEN b[key] ELSE 0) \in Nat
  OBVIOUS
<1>9. /\ SumFunction(f) = SumFunctionOnSet(f, rest \cup {key})
      /\ SumFunction(b) = SumFunctionOnSet(b, D)
  BY <1>1, <1>2 DEF SumFunction
<1> HIDE DEF rest, D
<1>10. SumFunction(f) = SumFunction(b) + amount
  BY <1>1, <1>4, <1>5, <1>6, <1>7, <1>8, <1>9
<1> QED
  BY <1>1, <1>2, <1>10 DEF f

-----------------------------------------------------------------------------
(* The cache. *)


\* A cached start was made for the session it is cached for.
CachedIsOwn ==
    \A s \in Sessions :
        cache[s] # NoStart => startedFor[cache[s]] = s /\ start[cache[s]] # "unused"

\* A start was made for some session.
StartsHaveSessions == \A x \in Starts : start[x] # "unused" => startedFor[x] \in Sessions

\* A call past its first await holds the start it found or made.
CallsHoldStarts ==
    \A c \in Calls : pc[c] \in {"starting", "executing"} => sandboxOf[c] \in Starts

\* A script was sent by a call that holds a start.
ScriptsHaveSandboxes ==
    \A c \in Calls :
        script[c] # "none" => sandboxOf[c] \in Starts /\ pc[c] \notin {"idle", "starting"}

\* Only a call that returned has a result.
ResultsAreFinal == \A c \in Calls : result[c] # "none" => pc[c] = "done"

IInv ==
    /\ TypeOK
    /\ CachedIsOwn
    /\ StartsHaveSessions
    /\ CallsHoldStarts
    /\ ScriptsHaveSandboxes
    /\ ResultsAreFinal
    /\ CacheNeverPoisoned

-----------------------------------------------------------------------------
LEMMA HoldFields ==
    ASSUME NEW c \in Calls
    PROVE  /\ SessionOf(c) \in Sessions
           /\ Hold[c].session \in Sessions
           /\ Hold[c].city \in Cities
           /\ Hold[c].category \in Categories
           /\ Hold[c].amount \in Nat
  BY HoldAssumption DEF HoldRecord, SessionOf

LEMMA InitIInv == Init => IInv
<1> SUFFICES ASSUME Init PROVE IInv
  OBVIOUS
<1>1. TypeOK
  <2>1. AreBreakdowns(byCity, Cities) /\ AreBreakdowns(byCategory, Categories)
    BY DEF Init, AreBreakdowns
  <2> QED
    BY <2>1 DEF Init, TypeOK, cache
<1>2. /\ CachedIsOwn /\ StartsHaveSessions /\ CallsHoldStarts
      /\ ScriptsHaveSandboxes /\ ResultsAreFinal /\ CacheNeverPoisoned
  BY NoStartAssumption DEF Init, CachedIsOwn, StartsHaveSessions, CallsHoldStarts,
     ScriptsHaveSandboxes, ResultsAreFinal, CacheNeverPoisoned, cache
<1> QED
  BY <1>1, <1>2 DEF IInv

LEMMA RecordHoldIInv ==
    ASSUME IInv, NEW c \in Calls, RecordHold(c)
    PROVE  IInv'
<1>1. PICK s \in Sessions : SessionOf(c) = s
  BY HoldFields
<1> USE <1>1 DEF IInv, RecordHold, adapterVars, budgetVars
<1>2. CASE Cached(s) # NoStart
  <2>1. /\ cache[s] \in Starts
        /\ sandboxOf' = [sandboxOf EXCEPT ![c] = cache[s]]
        /\ UNCHANGED <<sandboxSessionByRuntimeSession, start, startedFor>>
    BY <1>2 DEF Cached, TypeOK, cache
  <2>2. TypeOK'
    BY <2>1 DEF TypeOK, cache
  <2>3. CachedIsOwn' /\ StartsHaveSessions' /\ CacheNeverPoisoned'
    BY <2>1 DEF CachedIsOwn, StartsHaveSessions, CacheNeverPoisoned, cache
  <2>4. CallsHoldStarts' /\ ScriptsHaveSandboxes' /\ ResultsAreFinal'
    BY <2>1 DEF TypeOK, CallsHoldStarts, ScriptsHaveSandboxes, ResultsAreFinal
  <2> QED
    BY <2>2, <2>3, <2>4
<1>3. CASE Cached(s) = NoStart
  <2>1. PICK x \in Starts :
          /\ start[x] = "unused"
          /\ start' = [start EXCEPT ![x] = "pending"]
          /\ startedFor' = [startedFor EXCEPT ![x] = s]
          /\ sandboxOf' = [sandboxOf EXCEPT ![c] = x]
          /\ CachePut(s, x)
    BY <1>3
  <2>2. TypeOK'
    BY <2>1 DEF TypeOK, CachePut, cache
  <2>3. CachedIsOwn' /\ StartsHaveSessions' /\ CacheNeverPoisoned'
    <3>1. /\ startedFor'[x] = s /\ start'[x] = "pending" /\ cache'[s] = x
          /\ \A y \in Starts \ {x} : start'[y] = start[y] /\ startedFor'[y] = startedFor[y]
          /\ \A t \in Sessions \ {s} : cache'[t] = cache[t]
      BY <2>1 DEF TypeOK, CachePut, cache
    <3>2. \A t \in Sessions \ {s} : cache[t] # NoStart => cache[t] \in Starts \ {x}
      BY <2>1 DEF TypeOK, CachedIsOwn
    <3> QED
      BY <3>1, <3>2 DEF CachedIsOwn, StartsHaveSessions, CacheNeverPoisoned
  <2>4. CallsHoldStarts' /\ ScriptsHaveSandboxes' /\ ResultsAreFinal'
    BY <2>1 DEF TypeOK, CallsHoldStarts, ScriptsHaveSandboxes, ResultsAreFinal
  <2> QED
    BY <2>2, <2>3, <2>4
<1> QED
  BY <1>2, <1>3

\* The steps of one call after its first await.
CallStep(c) ==
    \/ StartUnavailable(c) \/ SendScript(c) \/ ScriptRuns(c) \/ ScriptRaises(c)
    \/ InvokeAnswered(c) \/ InvokeUnavailable(c)

LEMMA CallStepIInv ==
    ASSUME IInv, NEW c \in Calls, CallStep(c)
    PROVE  IInv'
<1>1. PICK s \in Sessions : SessionOf(c) = s
  BY HoldFields
<1> USE <1>1 DEF IInv, Return, adapterVars, budgetVars, cache
<1> DEFINE Rest == CallsHoldStarts /\ ScriptsHaveSandboxes /\ ResultsAreFinal
<1>2. CASE StartUnavailable(c)
  BY <1>2 DEF StartUnavailable, TypeOK, CachedIsOwn, StartsHaveSessions, CallsHoldStarts,
     ScriptsHaveSandboxes, ResultsAreFinal, CacheNeverPoisoned
<1>3. CASE SendScript(c)
  BY <1>3 DEF SendScript, TypeOK, CachedIsOwn, StartsHaveSessions, CallsHoldStarts,
     ScriptsHaveSandboxes, ResultsAreFinal, CacheNeverPoisoned
<1>4. CASE ScriptRuns(c)
  <2>1. TypeOK'
    <3>1. PICK x \in Starts : sandboxOf[c] = x
      BY <1>4 DEF ScriptRuns, ScriptsHaveSandboxes
    <3>2. runningTotal' \in [Starts -> Nat] /\ latestTotal' \in [Sessions -> Nat]
      BY <1>4, <3>1, HoldFields DEF ScriptRuns, TypeOK
    <3>3. AreBreakdowns(byCity', Cities)
      <4>1. AreBreakdowns(byCity, Cities)
        BY DEF TypeOK
      <4>2. byCity' = [byCity EXCEPT ![x] = FoldIn(@, Hold[c].city, Hold[c].amount)]
        BY <1>4, <3>1 DEF ScriptRuns
      <4> QED
        BY <4>1, <4>2, HoldFields, BreakdownStep
    <3>4. AreBreakdowns(byCategory', Categories)
      <4>1. AreBreakdowns(byCategory, Categories)
        BY DEF TypeOK
      <4>2. byCategory' = [byCategory EXCEPT ![x] = FoldIn(@, Hold[c].category, Hold[c].amount)]
        BY <1>4, <3>1 DEF ScriptRuns
      <4> QED
        BY <4>1, <4>2, HoldFields, BreakdownStep
    <3> QED
      BY <1>4, <3>2, <3>3, <3>4 DEF ScriptRuns, TypeOK
  <2>2. CachedIsOwn' /\ StartsHaveSessions' /\ CacheNeverPoisoned'
    BY <1>4 DEF ScriptRuns, CachedIsOwn, StartsHaveSessions,
       CacheNeverPoisoned
  <2>3. Rest'
    BY <1>4 DEF ScriptRuns, TypeOK, CallsHoldStarts, ScriptsHaveSandboxes, ResultsAreFinal
  <2> QED
    BY <2>1, <2>2, <2>3
<1>5. CASE ScriptRaises(c)
  BY <1>5 DEF ScriptRaises, TypeOK, CachedIsOwn, StartsHaveSessions, CallsHoldStarts,
     ScriptsHaveSandboxes, ResultsAreFinal, CacheNeverPoisoned
<1>6. CASE InvokeAnswered(c)
  BY <1>6 DEF InvokeAnswered, TypeOK, CachedIsOwn, StartsHaveSessions, CallsHoldStarts,
     ScriptsHaveSandboxes, ResultsAreFinal, CacheNeverPoisoned
<1>7. CASE InvokeUnavailable(c)
  <2>1. TypeOK'
    BY <1>7 DEF InvokeUnavailable, DropLost, CachePut, TypeOK
  <2>2. CachedIsOwn' /\ StartsHaveSessions' /\ CacheNeverPoisoned'
    BY <1>7 DEF InvokeUnavailable, DropLost, CachePut, TypeOK, CachedIsOwn, StartsHaveSessions,
       CacheNeverPoisoned
  <2>3. Rest'
    BY <1>7 DEF InvokeUnavailable, TypeOK, CallsHoldStarts, ScriptsHaveSandboxes,
       ResultsAreFinal
  <2> QED
    BY <2>1, <2>2, <2>3
<1> QED
  BY <1>2, <1>3, <1>4, <1>5, <1>6, <1>7 DEF CallStep

\* The steps of one start.
StartStep(x) == StartResolves(x) \/ StartRejects(x) \/ SandboxExpires(x)

LEMMA StartStepIInv ==
    ASSUME IInv, NEW x \in Starts, StartStep(x)
    PROVE  IInv'
<1> USE DEF IInv, adapterVars, budgetVars, cache
<1>1. UNCHANGED <<startedFor, pc, sandboxOf, script, result>>
  BY DEF StartStep, StartResolves, StartRejects, SandboxExpires
<1>2. CallsHoldStarts' /\ ScriptsHaveSandboxes' /\ ResultsAreFinal'
  BY <1>1 DEF CallsHoldStarts, ScriptsHaveSandboxes, ResultsAreFinal
<1>3. CASE StartRejects(x)
  <2>1. TypeOK'
    BY <1>3 DEF StartRejects, DropRejected, CachePut, TypeOK, StartsHaveSessions
  <2>2. CachedIsOwn' /\ StartsHaveSessions' /\ CacheNeverPoisoned'
    BY <1>3 DEF StartRejects, DropRejected, CachePut, TypeOK, CachedIsOwn, StartsHaveSessions,
       CacheNeverPoisoned
  <2> QED
    BY <1>2, <2>1, <2>2
<1>4. CASE StartResolves(x) \/ SandboxExpires(x)
  <2>1. TypeOK'
    BY <1>4 DEF StartResolves, SandboxExpires, TypeOK, StartsHaveSessions
  <2>2. CachedIsOwn' /\ StartsHaveSessions' /\ CacheNeverPoisoned'
    BY <1>4 DEF StartResolves, SandboxExpires, TypeOK, CachedIsOwn, StartsHaveSessions,
       CacheNeverPoisoned
  <2> QED
    BY <1>2, <2>1, <2>2
<1> QED
  BY <1>3, <1>4 DEF StartStep

LEMMA RecycleIInv ==
    ASSUME IInv, Recycle
    PROVE  IInv'
<1> USE DEF IInv, Recycle, adapterVars, budgetVars, cache
<1>1. TypeOK'
  BY DEF TypeOK
<1>2. CachedIsOwn' /\ StartsHaveSessions' /\ CacheNeverPoisoned'
  BY DEF CachedIsOwn, StartsHaveSessions,
       CacheNeverPoisoned
<1>3. CallsHoldStarts' /\ ScriptsHaveSandboxes' /\ ResultsAreFinal'
  BY DEF TypeOK, CallsHoldStarts, ScriptsHaveSandboxes, ResultsAreFinal
<1> QED
  BY <1>1, <1>2, <1>3

LEMMA NextIInv ==
    ASSUME IInv, [Next]_vars
    PROVE  IInv'
<1>1. CASE UNCHANGED vars
  BY <1>1 DEF vars, adapterVars, budgetVars, cache, IInv, TypeOK, CachedIsOwn,
     StartsHaveSessions, CallsHoldStarts, ScriptsHaveSandboxes, ResultsAreFinal, CacheNeverPoisoned
<1>2. CASE \E c \in Calls : CallStep(c)
  BY <1>2, CallStepIInv
<1>3. CASE \E x \in Starts : StartStep(x)
  BY <1>3, StartStepIInv
<1> QED
  BY <1>1, <1>2, <1>3, RecordHoldIInv, RecycleIInv DEF Next, CallStep, StartStep

LEMMA CacheInvariant == Spec => []IInv
  BY InitIInv, NextIInv, PTL DEF Spec

-----------------------------------------------------------------------------
(* The totals. *)

RanIn(x) == {c \in Calls : script[c] = "ran" /\ sandboxOf[c] = x}
Ran(s) == {c \in Calls : SessionOf(c) = s /\ script[c] = "ran"}

\* The start a call holds was made for the call's own session.
SandboxesAreOwn ==
    \A c \in Calls :
        sandboxOf[c] # NoStart =>
            /\ start[sandboxOf[c]] # "unused"
            /\ startedFor[sandboxOf[c]] = SessionOf(c)

\* While nothing fails, the only start ever made for a session is in the cache.
OneStartEach ==
    \A s \in Sessions \ disturbed, x \in Starts : startedFor[x] = s => cache[s] = x

\* So far, finitely many scripts ran.
FewRan == IsFiniteSet({c \in Calls : script[c] = "ran"})

\* A sandbox's total is the sum of what ran in it ...
TotalsAreSums == \A x \in Starts : runningTotal[x] = SumFunctionOnSet(Amount, RanIn(x))

\* ... and an undisturbed session's is the sum of what ran for it.
LatestAreSums ==
    \A s \in Sessions \ disturbed : latestTotal[s] = SumFunctionOnSet(Amount, Ran(s))

\* So are the breakdowns, entry by entry.
BreakdownsAreSums ==
    \A x \in Starts :
        /\ IsFiniteSet(DOMAIN byCity[x]) /\ IsFiniteSet(DOMAIN byCategory[x])
        /\ SumFunction(byCity[x]) = runningTotal[x]
        /\ SumFunction(byCategory[x]) = runningTotal[x]

Owners == SandboxesAreOwn /\ OneStartEach
Sums == FewRan /\ TotalsAreSums /\ LatestAreSums /\ BreakdownsAreSums

LEMMA InitSums == Init => Owners /\ Sums
<1> SUFFICES ASSUME Init PROVE Owners /\ Sums
  OBVIOUS
<1>1. Owners
  BY NoStartAssumption DEF Init, Owners, SandboxesAreOwn, OneStartEach
<1>2. /\ {c \in Calls : script[c] = "ran"} = {}
      /\ \A x : RanIn(x) = {} /\ Ran(x) = {}
  BY DEF Init, RanIn, Ran
<1>3. FewRan /\ TotalsAreSums /\ LatestAreSums
  BY <1>2, SumEmpty, FS_EmptySet DEF Init, FewRan, TotalsAreSums, LatestAreSums
<1>4. \A b : DOMAIN b = {} => IsFiniteSet(DOMAIN b) /\ SumFunction(b) = 0
  BY SumEmpty, FS_EmptySet DEF SumFunction
<1>5. BreakdownsAreSums
  <2>1. \A x \in Starts : /\ DOMAIN byCity[x] = {} /\ DOMAIN byCategory[x] = {}
                          /\ runningTotal[x] = 0
    BY DEF Init
  <2> QED
    BY <1>4, <2>1 DEF BreakdownsAreSums
<1> QED
  BY <1>1, <1>3, <1>5 DEF Sums

\* Steps that leave the scripts that ran and the totals alone.
LEMMA SumsStay ==
    ASSUME Sums, UNCHANGED budgetVars, UNCHANGED latestTotal, disturbed \subseteq disturbed',
           \A c \in Calls : script'[c] = "ran" <=> script[c] = "ran",
           \A c \in Calls : script[c] = "ran" => sandboxOf'[c] = sandboxOf[c]
    PROVE  Sums'
<1>1. /\ {c \in Calls : script'[c] = "ran"} = {c \in Calls : script[c] = "ran"}
      /\ \A x : RanIn(x)' = RanIn(x) /\ Ran(x)' = Ran(x)
  BY DEF RanIn, Ran
<1>2. FewRan'
  BY <1>1 DEF Sums, FewRan
<1>3. TotalsAreSums'
  BY <1>1 DEF Sums, TotalsAreSums, budgetVars
<1>4. LatestAreSums'
  BY <1>1 DEF Sums, LatestAreSums
<1>5. BreakdownsAreSums'
  BY DEF Sums, BreakdownsAreSums, budgetVars
<1> QED
  BY <1>2, <1>3, <1>4, <1>5 DEF Sums

LEMMA RecordHoldOwners ==
    ASSUME IInv, Owners, NEW c \in Calls, RecordHold(c)
    PROVE  Owners'
<1>1. PICK s \in Sessions : SessionOf(c) = s
  BY HoldFields
<1> USE <1>1 DEF RecordHold, adapterVars, budgetVars, cache
<1>2. CASE Cached(s) # NoStart
  <2>1. /\ cache[s] \in Starts /\ startedFor[cache[s]] = s /\ start[cache[s]] # "unused"
        /\ sandboxOf' = [sandboxOf EXCEPT ![c] = cache[s]]
        /\ UNCHANGED <<sandboxSessionByRuntimeSession, start, startedFor, disturbed>>
    BY <1>2 DEF IInv, CachedIsOwn, Cached, TypeOK
  <2> QED
    BY <2>1 DEF IInv, TypeOK, Owners, SandboxesAreOwn, OneStartEach
<1>3. CASE Cached(s) = NoStart
  <2>1. PICK x \in Starts :
          /\ start[x] = "unused"
          /\ start' = [start EXCEPT ![x] = "pending"]
          /\ startedFor' = [startedFor EXCEPT ![x] = s]
          /\ sandboxOf' = [sandboxOf EXCEPT ![c] = x]
          /\ CachePut(s, x)
    BY <1>3
  <2>2. /\ start'[x] = "pending" /\ startedFor'[x] = s /\ sandboxOf'[c] = x
        /\ \A d \in Calls \ {c} : sandboxOf'[d] = sandboxOf[d]
        /\ \A y \in Starts \ {x} : start'[y] = start[y] /\ startedFor'[y] = startedFor[y]
    BY <2>1 DEF IInv, TypeOK
  <2>3. \A d \in Calls : sandboxOf[d] # NoStart => sandboxOf[d] \in Starts \ {x}
    BY <2>1 DEF IInv, TypeOK, Owners, SandboxesAreOwn
  <2>4. SandboxesAreOwn'
    <3> HIDE DEF RecordHold
    <3> QED
      BY <1>1, <2>2, <2>3 DEF Owners, SandboxesAreOwn
  <2>5. OneStartEach'
    BY <1>3, <2>1, NoStartAssumption DEF IInv, TypeOK, Owners, OneStartEach, CachePut, Cached
  <2> QED
    BY <2>4, <2>5 DEF Owners
<1> QED
  BY <1>2, <1>3

\* Every other step leaves the owners as they are, or disturbs the session whose
\* entry it drops.
LEMMA OwnersStay ==
    ASSUME IInv, Owners, UNCHANGED <<startedFor, sandboxOf>>,
           \A x \in Starts : start[x] # "unused" => start'[x] # "unused",
           disturbed \subseteq disturbed',
           \A s \in Sessions \ disturbed' : cache'[s] = cache[s]
    PROVE  Owners'
<1>1. SandboxesAreOwn'
  BY DEF IInv, TypeOK, Owners, SandboxesAreOwn
<1>2. OneStartEach'
  BY DEF Owners, OneStartEach
<1> QED
  BY <1>1, <1>2 DEF Owners

LEMMA ScriptRunsSums ==
    ASSUME IInv, Owners, Sums, NEW c \in Calls, ScriptRuns(c)
    PROVE  Sums'
<1>1. PICK s \in Sessions : SessionOf(c) = s /\ Hold[c].session = s
  BY HoldFields DEF SessionOf
<1>2. PICK x \in Starts : sandboxOf[c] = x
  BY DEF ScriptRuns, IInv, ScriptsHaveSandboxes
<1>3. PICK n \in Nat : Hold[c].amount = n /\ Amount[c] = n
  BY HoldFields DEF Amount
<1>4. /\ script[c] = "sent" /\ script' = [script EXCEPT ![c] = "ran"]
      /\ runningTotal' = [runningTotal EXCEPT ![x] = @ + n]
      /\ byCity' = [byCity EXCEPT ![x] = FoldIn(@, Hold[c].city, n)]
      /\ byCategory' = [byCategory EXCEPT ![x] = FoldIn(@, Hold[c].category, n)]
      /\ latestTotal' = [latestTotal EXCEPT ![s] = runningTotal[x] + n]
      /\ UNCHANGED <<startedFor, sandboxOf, disturbed>>
  BY <1>1, <1>2, <1>3 DEF ScriptRuns, adapterVars
<1>5. \A d \in Calls : Amount[d] \in Nat
  BY HoldFields DEF Amount
<1> DEFINE R == {d \in Calls : script[d] = "ran"}
<1>6. {d \in Calls : script'[d] = "ran"} = R \cup {c}
  BY <1>4 DEF IInv, TypeOK
<1>7. FewRan'
  BY <1>6, FS_AddElement DEF Sums, FewRan
<1>8. TotalsAreSums'
  <2>1. /\ RanIn(x)' = RanIn(x) \cup {c} /\ c \notin RanIn(x)
        /\ \A y \in Starts \ {x} : RanIn(y)' = RanIn(y)
    BY <1>2, <1>4 DEF IInv, TypeOK, RanIn
  <2>2. IsFiniteSet(RanIn(x)) /\ RanIn(x) \subseteq Calls
    BY FS_Subset DEF Sums, FewRan, RanIn
  <2>3. SumFunctionOnSet(Amount, RanIn(x) \cup {c}) = SumFunctionOnSet(Amount, RanIn(x)) + n
    BY <1>3, <1>5, <2>1, <2>2, SumAdd
  <2> QED
    BY <1>4, <2>1, <2>3 DEF IInv, TypeOK, Sums, TotalsAreSums
<1>9. LatestAreSums'
  <2>1. \A t \in Sessions \ {s} : Ran(t)' = Ran(t) /\ latestTotal'[t] = latestTotal[t]
    BY <1>1, <1>4 DEF IInv, TypeOK, Ran
  <2>2. ASSUME s \notin disturbed
        PROVE  latestTotal'[s] = SumFunctionOnSet(Amount, Ran(s)')
    <3>1. Ran(s) = RanIn(x)
      <4>1. startedFor[x] = s
        BY <1>1, <1>2, NoStartAssumption DEF Owners, SandboxesAreOwn
      <4>2. \A d \in Ran(s) : sandboxOf[d] \in Starts /\ startedFor[sandboxOf[d]] = s
        BY NoStartAssumption DEF Ran, IInv, ScriptsHaveSandboxes, Owners, SandboxesAreOwn
      <4>3. \A y \in Starts : startedFor[y] = s => y = cache[s]
        BY <2>2 DEF Owners, OneStartEach
      <4>4. \A d \in Ran(s) : sandboxOf[d] = x
        BY <4>1, <4>2, <4>3
      <4>5. \A d \in RanIn(x) : SessionOf(d) = s
        BY <4>1, NoStartAssumption DEF RanIn, Owners, SandboxesAreOwn
      <4> QED
        BY <4>4, <4>5 DEF Ran, RanIn
    <3>2. Ran(s)' = Ran(s) \cup {c} /\ c \notin Ran(s)
      BY <1>1, <1>4 DEF IInv, TypeOK, Ran
    <3>3. IsFiniteSet(Ran(s)) /\ Ran(s) \subseteq Calls
      BY FS_Subset DEF Sums, FewRan, Ran
    <3>4. SumFunctionOnSet(Amount, Ran(s) \cup {c}) = SumFunctionOnSet(Amount, Ran(s)) + n
      BY <1>3, <1>5, <3>2, <3>3, SumAdd
    <3>5. runningTotal[x] = SumFunctionOnSet(Amount, Ran(s))
      BY <3>1 DEF Sums, TotalsAreSums
    <3> QED
      BY <1>4, <3>2, <3>4, <3>5 DEF IInv, TypeOK
  <2> QED
    BY <1>4, <2>1, <2>2 DEF Sums, LatestAreSums
<1>10. BreakdownsAreSums'
  <2>1. AreBreakdowns(byCity, Cities) /\ AreBreakdowns(byCategory, Categories)
    BY DEF IInv, TypeOK
  <2>2. /\ byCity'[x] = FoldIn(byCity[x], Hold[c].city, n)
        /\ \A y \in Starts \ {x} : byCity'[y] = byCity[y]
    <3>1. PICK key \in Cities : Hold[c].city = key
      BY HoldFields
    <3>2. byCity' = [byCity EXCEPT ![x] = FoldIn(@, key, n)]
      BY <1>4, <3>1
    <3>3. byCity'[x] = FoldIn(byCity[x], key, n)
      BY <2>1, <3>2 DEF AreBreakdowns
    <3>4. \A y \in Starts \ {x} : byCity'[y] = byCity[y]
      BY <2>1, <3>2, BreakdownStep
    <3> QED
      BY <3>1, <3>3, <3>4
  <2>3. /\ byCategory'[x] = FoldIn(byCategory[x], Hold[c].category, n)
        /\ \A y \in Starts \ {x} : byCategory'[y] = byCategory[y]
    <3>1. PICK key \in Categories : Hold[c].category = key
      BY HoldFields
    <3>2. byCategory' = [byCategory EXCEPT ![x] = FoldIn(@, key, n)]
      BY <1>4, <3>1
    <3>3. byCategory'[x] = FoldIn(byCategory[x], key, n)
      BY <2>1, <3>2 DEF AreBreakdowns
    <3>4. \A y \in Starts \ {x} : byCategory'[y] = byCategory[y]
      BY <2>1, <3>2, BreakdownStep
    <3> QED
      BY <3>1, <3>3, <3>4
  <2>4. /\ runningTotal'[x] = runningTotal[x] + n
        /\ \A y \in Starts \ {x} : runningTotal'[y] = runningTotal[y]
    BY <1>4 DEF IInv, TypeOK
  <2>5. /\ IsFiniteSet(DOMAIN byCity'[x])
        /\ SumFunction(byCity'[x]) = runningTotal'[x]
    <3>1. /\ byCity[x] \in [DOMAIN byCity[x] -> Nat]
          /\ IsFiniteSet(DOMAIN byCity[x]) /\ SumFunction(byCity[x]) = runningTotal[x]
      BY <2>1 DEF Sums, BreakdownsAreSums, AreBreakdowns
    <3> QED
      BY <2>2, <2>4, <3>1, FoldInSum
  <2>6. /\ IsFiniteSet(DOMAIN byCategory'[x])
        /\ SumFunction(byCategory'[x]) = runningTotal'[x]
    <3>1. /\ byCategory[x] \in [DOMAIN byCategory[x] -> Nat]
          /\ IsFiniteSet(DOMAIN byCategory[x]) /\ SumFunction(byCategory[x]) = runningTotal[x]
      BY <2>1 DEF Sums, BreakdownsAreSums, AreBreakdowns
    <3> QED
      BY <2>3, <2>4, <3>1, FoldInSum
  <2> QED
    BY <2>2, <2>3, <2>4, <2>5, <2>6 DEF Sums, BreakdownsAreSums
<1> QED
  BY <1>7, <1>8, <1>9, <1>10 DEF Sums

LEMMA OtherStepsSums ==
    ASSUME IInv, Sums, [Next]_vars, ~ \E c \in Calls : ScriptRuns(c)
    PROVE  Sums'
<1> USE DEF vars, adapterVars, budgetVars
<1>1. CASE UNCHANGED vars
  BY <1>1, SumsStay
<1>2. CASE \E c \in Calls : RecordHold(c)
  <2>1. PICK c \in Calls : RecordHold(c)
    BY <1>2
  <2>2. script[c] # "ran"
    BY <2>1 DEF RecordHold, IInv, ScriptsHaveSandboxes
  <2>3. /\ UNCHANGED <<script, budgetVars, latestTotal, disturbed>>
        /\ \A d \in Calls \ {c} : sandboxOf'[d] = sandboxOf[d]
    BY <2>1 DEF RecordHold, IInv, TypeOK
  <2> QED
    BY <2>2, <2>3, SumsStay
<1>3. CASE \E c \in Calls : StartUnavailable(c) \/ InvokeAnswered(c) \/ InvokeUnavailable(c)
  <2>1. UNCHANGED <<script, sandboxOf, budgetVars, latestTotal>> /\ disturbed \subseteq disturbed'
    BY <1>3 DEF StartUnavailable, InvokeAnswered, InvokeUnavailable
  <2> QED
    BY <2>1, SumsStay
<1>4. CASE \E c \in Calls : SendScript(c) \/ ScriptRaises(c)
  <2>1. PICK c \in Calls : SendScript(c) \/ ScriptRaises(c)
    BY <1>4
  <2>2. script[c] # "ran"
    BY <2>1 DEF SendScript, ScriptRaises, IInv, ScriptsHaveSandboxes
  <2>3. UNCHANGED <<sandboxOf, budgetVars, latestTotal, disturbed>>
    BY <2>1 DEF SendScript, ScriptRaises
  <2>4. \A d \in Calls : script'[d] = "ran" <=> script[d] = "ran"
    BY <2>1, <2>2 DEF SendScript, ScriptRaises, IInv, TypeOK
  <2> QED
    BY <2>3, <2>4, SumsStay
<1>5. CASE (\E x \in Starts : StartStep(x)) \/ Recycle
  <2>1. UNCHANGED <<script, sandboxOf, budgetVars, latestTotal>>
    BY <1>5 DEF StartStep, StartResolves, StartRejects, SandboxExpires, Recycle
  <2>2. disturbed \subseteq disturbed'
    BY <1>5 DEF StartStep, StartResolves, StartRejects, SandboxExpires, Recycle, IInv, TypeOK
  <2> QED
    BY <2>1, <2>2, SumsStay
<1> QED
  BY <1>1, <1>2, <1>3, <1>4, <1>5 DEF Next, StartStep

LEMMA OwnersStep ==
    ASSUME IInv, Owners, [Next]_vars
    PROVE  Owners'
<1> USE DEF vars, adapterVars, budgetVars, cache
<1>1. CASE UNCHANGED vars
  BY <1>1, OwnersStay
<1>2. CASE \E c \in Calls : RecordHold(c)
  BY <1>2, RecordHoldOwners
<1>3. CASE \E c \in Calls : CallStep(c)
  <2>1. PICK c \in Calls : CallStep(c)
    BY <1>3
  <2>2. UNCHANGED <<start, startedFor, sandboxOf>> /\ disturbed \subseteq disturbed'
    BY <2>1 DEF CallStep, StartUnavailable, SendScript, ScriptRuns, ScriptRaises, InvokeAnswered,
       InvokeUnavailable
  <2>3. \A s \in Sessions \ disturbed' : cache'[s] = cache[s]
    BY <2>1 DEF CallStep, StartUnavailable, SendScript, ScriptRuns, ScriptRaises, InvokeAnswered,
       InvokeUnavailable, DropLost, CachePut, IInv, TypeOK
  <2> QED
    BY <2>2, <2>3, OwnersStay
<1>4. CASE \E x \in Starts : StartStep(x)
  <2>1. PICK x \in Starts : StartStep(x)
    BY <1>4
  <2>2. /\ UNCHANGED <<startedFor, sandboxOf>>
        /\ \A y \in Starts : start[y] # "unused" => start'[y] # "unused"
        /\ disturbed \subseteq disturbed'
    BY <2>1 DEF StartStep, StartResolves, StartRejects, SandboxExpires, IInv, TypeOK
  <2>3. \A s \in Sessions \ disturbed' : cache'[s] = cache[s]
    BY <2>1 DEF StartStep, StartResolves, StartRejects, SandboxExpires, DropRejected, CachePut,
       IInv, TypeOK
  <2> QED
    BY <2>2, <2>3, OwnersStay
<1>5. CASE Recycle
  BY <1>5, OwnersStay DEF Recycle, IInv, TypeOK
<1> QED
  BY <1>1, <1>2, <1>3, <1>4, <1>5 DEF Next, CallStep, StartStep

LEMMA NextSums ==
    ASSUME IInv, Owners, Sums, [Next]_vars
    PROVE  Owners' /\ Sums'
  BY OwnersStep, ScriptRunsSums, OtherStepsSums

\* The inductive invariant of sandboxes and totals: a sandbox serves the session it
\* was started for, and its total is the sum over the scripts that ran in it.
THEOREM SumsInvariant == Spec => [](IInv /\ Owners /\ Sums)
  BY InitIInv, InitSums, NextIInv, NextSums, PTL DEF Spec

-----------------------------------------------------------------------------
\* The variables keep their types.
THEOREM TypeCorrect == Spec => []TypeOK
  BY CacheInvariant, PTL DEF IInv

\* No start that failed is ever found in the cache, so one failed start never
\* condemns the later holds of a session.
THEOREM CacheNeverPoisonedHolds == Spec => []CacheNeverPoisoned
  BY CacheInvariant, PTL DEF IInv

\* The hold that hears of a lost sandbox takes it out of the cache, and only
\* new starts ever enter.
THEOREM LostSandboxNotReusedHolds == Spec => LostSandboxNotReused
<1>1. IInv /\ [Next]_vars => [LetsLostSandboxGo]_vars
  <2> SUFFICES ASSUME IInv, Next PROVE LetsLostSandboxGo
    OBVIOUS
  <2> USE DEF IInv, Return, adapterVars, cache
  <2>1. ASSUME NEW c \in Calls,
               result[c] # "SandboxUnavailable", result'[c] = "SandboxUnavailable"
        PROVE  cache'[SessionOf(c)] # sandboxOf[c]
    <3>1. StartUnavailable(c) \/ InvokeUnavailable(c)
      BY <2>1 DEF Next, TypeOK, RecordHold, StartUnavailable, SendScript, ScriptRuns,
         ScriptRaises, InvokeAnswered, InvokeUnavailable, StartResolves, StartRejects,
         SandboxExpires, Recycle
    <3>2. sandboxOf[c] \in Starts /\ SessionOf(c) \in Sessions
      BY <3>1, HoldFields DEF StartUnavailable, InvokeUnavailable, CallsHoldStarts
    <3>3. CASE StartUnavailable(c)
      BY <3>2, <3>3, NoStartAssumption DEF StartUnavailable, CacheNeverPoisoned
    <3>4. CASE InvokeUnavailable(c)
      BY <3>2, <3>4, NoStartAssumption DEF InvokeUnavailable, DropLost, CachePut, TypeOK
    <3> QED
      BY <3>1, <3>3, <3>4
  <2>2. ASSUME NEW s \in Sessions, cache'[s] # cache[s], cache'[s] # NoStart
        PROVE  start[cache'[s]] = "unused"
    <3>1. PICK c \in Calls : RecordHold(c)
      BY <2>2 DEF Next, TypeOK, StartUnavailable, SendScript, ScriptRuns, ScriptRaises,
         InvokeAnswered, InvokeUnavailable, StartResolves, StartRejects, SandboxExpires,
         Recycle, DropLost, DropRejected, CachePut
    <3>2. PICK x \in Starts : start[x] = "unused" /\ CachePut(SessionOf(c), x)
      BY <2>2, <3>1 DEF RecordHold
    <3> QED
      BY <2>2, <3>2 DEF CachePut, TypeOK
  <2> QED
    BY <2>1, <2>2 DEF LetsLostSandboxGo
<1> QED
  BY <1>1, CacheInvariant, PTL DEF Spec, LostSandboxNotReused

\* As long as nothing fails, the concurrent holds of a session share one start,
\* and its total is the sum of every hold recorded for the session.
THEOREM UndisturbedTotalIsCompleteHolds == Spec => []UndisturbedTotalIsComplete
<1>1. IInv /\ Owners /\ Sums => UndisturbedTotalIsComplete
  <2> SUFFICES ASSUME IInv, Owners, Sums, NEW s \in Sessions \ disturbed
               PROVE  /\ Cardinality({x \in Starts : startedFor[x] = s}) <= 1
                      /\ latestTotal[s] = SumFunctionOnSet(Amount, Ran(s))
    BY DEF UndisturbedTotalIsComplete, Ran
  <2>1. {x \in Starts : startedFor[x] = s} \in SUBSET {cache[s]}
    BY DEF Owners, OneStartEach
  <2>2. IsFiniteSet({cache[s]}) /\ Cardinality({cache[s]}) = 1
    BY FS_Singleton
  <2>3. Cardinality({x \in Starts : startedFor[x] = s}) <= 1
    BY <2>1, <2>2, FS_Subset
  <2> QED
    BY <2>3 DEF Sums, LatestAreSums
<1> QED
  BY <1>1, SumsInvariant, PTL

\* In every sandbox, whatever ran or raised in it, the breakdowns by city and by
\* category account for exactly the running total.
THEOREM BreakdownsAddUpHolds == Spec => []BreakdownsAddUp
<1>1. Sums => BreakdownsAddUp
  BY DEF Sums, BreakdownsAreSums, BreakdownsAddUp
<1> QED
  BY <1>1, SumsInvariant, PTL
=============================================================================
