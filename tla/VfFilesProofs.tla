---------------------------- MODULE VfFilesProofs ----------------------------
(***************************************************************************)
(* Proofs about the VF configuration files, for any VFs and files.         *)
(*                                                                         *)
(* ConfigFiles: what VFd answered about a VF survives every crash and      *)
(* restart, for any number of drops and crashes, as long as file           *)
(* operations succeed, a base name is one VF's, and requests name the      *)
(* files that the documentation tells them to name.                        *)
(*                                                                         *)
(* Admission: the files that were accepted one by one are accepted again   *)
(* in whatever order a restart reads them, and the shares and registers    *)
(* of the NIC follow from the files in the table.  These are facts about   *)
(* sums over sets of files, which come first.                              *)
(***************************************************************************)
EXTENDS ConfigFiles, Admission, FiniteSetTheorems, TLAPS

(***************************************************************************)
(* Sums over finite sets.                                                  *)
(***************************************************************************)

\* Among some parts of a finite set one has no smaller one among them.
LEMMA SmallestPart ==
  ASSUME NEW S, IsFiniteSet(S), NEW Bad \in SUBSET SUBSET S, Bad # {}
  PROVE  \E T \in Bad :
           /\ IsFiniteSet(T)
           /\ \A U \in SUBSET T : U # T => U \notin Bad
<1> DEFINE R == StrictSubsetOrdering(S)
<1>1. IsWellFoundedOn(R, FiniteSubsetsOf(S))
  BY FS_StrictSubsetOrderingWellFounded
<1>2. Bad \subseteq FiniteSubsetsOf(S)
  BY FS_FiniteSubsetsOfFinite
<1> HIDE DEF R
<1>3. PICK T \in Bad : \A U \in Bad : ~(<<U, T>> \in R)
  BY <1>1, <1>2, WFMin
<1>4. ASSUME NEW U \in SUBSET T, U # T, U \in Bad PROVE FALSE
  <2>1. <<U, T>> \in R
    BY <1>4 DEF R, StrictSubsetOrdering
  <2>2. QED
    BY <1>3, <1>4, <2>1
<1>5. IsFiniteSet(T)
  BY <1>2 DEF FiniteSubsetsOf
<1>6. QED
  BY <1>3, <1>4, <1>5

\* g sums f over every part of S, by the recursion of the fold.
SumsUp(g, f, S) ==
  g = [s \in SUBSET S |->
         IF s = {} THEN 0
         ELSE f[CHOOSE x \in s : TRUE] + g[s \ {CHOOSE x \in s : TRUE}]]

\* For parts of at most n elements.
SumsUpTo(g, f, S, n) ==
  /\ g = [s \in SUBSET S |-> g[s]]
  /\ \A s \in SUBSET S :
       Cardinality(s) <= n =>
         g[s] = IF s = {} THEN 0
                ELSE f[CHOOSE x \in s : TRUE] + g[s \ {CHOOSE x \in s : TRUE}]

LEMMA SumsUpToNext ==
  ASSUME NEW S, IsFiniteSet(S), NEW f, NEW n \in Nat, NEW g, SumsUpTo(g, f, S, n)
  PROVE  \E h : SumsUpTo(h, f, S, n + 1)
<1> DEFINE c(s) == CHOOSE x \in s : TRUE
           h == [s \in SUBSET S |-> IF s = {} THEN 0 ELSE f[c(s)] + g[s \ {c(s)}]]
<1>1. ASSUME NEW s \in SUBSET S, Cardinality(s) <= n + 1, s # {}
      PROVE  h[s] = f[c(s)] + h[s \ {c(s)}]
  <2> DEFINE r == s \ {c(s)}
  <2>1. c(s) \in s
    BY <1>1
  <2>2. IsFiniteSet(s)
    BY FS_Subset
  <2>3. Cardinality(s) \in Nat /\ Cardinality(r) = Cardinality(s) - 1
    BY <2>1, <2>2, FS_RemoveElement, FS_CardinalityType
  <2>4. r \in SUBSET S /\ Cardinality(r) <= n
    BY <1>1, <2>3
  <2>5. g[r] = IF r = {} THEN 0 ELSE f[c(r)] + g[r \ {c(r)}]
    BY <2>4 DEF SumsUpTo
  <2>6. h[r] = g[r]
    BY <2>4, <2>5
  <2>7. h[s] = f[c(s)] + g[r]
    BY <1>1
  <2>8. QED
    BY <2>6, <2>7
<1>2. SumsUpTo(h, f, S, n + 1)
  <2>1. h = [s \in SUBSET S |-> h[s]]
    OBVIOUS
  <2>2. h[{}] = 0
    OBVIOUS
  <2> HIDE DEF h
  <2>3. QED
    BY <1>1, <2>1, <2>2 DEF SumsUpTo
<1>3. QED
  BY <1>2

LEMMA SumsUpToZero ==
  ASSUME NEW S, IsFiniteSet(S), NEW f
  PROVE  \E g : SumsUpTo(g, f, S, 0)
<1> DEFINE g == [s \in SUBSET S |-> 0]
<1>1. ASSUME NEW s \in SUBSET S, Cardinality(s) <= 0 PROVE s = {}
  BY <1>1, FS_Subset, FS_EmptySet, FS_CardinalityType
<1>2. SumsUpTo(g, f, S, 0)
  BY <1>1 DEF SumsUpTo
<1>3. QED
  BY <1>2

\* The recursion of a sum over a finite set has a solution.
LEMMA SumExists ==
  ASSUME NEW S, IsFiniteSet(S), NEW f
  PROVE  \E g : SumsUp(g, f, S)
<1> DEFINE Bad == {T \in SUBSET S : ~(\E g : SumsUpTo(g, f, S, Cardinality(T)))}
<1>1. Bad = {}
  <2> SUFFICES ASSUME Bad # {} PROVE FALSE
    OBVIOUS
  <2>1. PICK T \in Bad : IsFiniteSet(T) /\ \A U \in SUBSET T : U # T => U \notin Bad
    <3>1. Bad \in SUBSET SUBSET S
      OBVIOUS
    <3> HIDE DEF Bad
    <3>2. QED
      BY <3>1, SmallestPart
  <2>2. T # {}
    BY SumsUpToZero, FS_EmptySet
  <2>3. PICK x \in T : TRUE
    BY <2>2
  <2>4. T \ {x} \in SUBSET T /\ T \ {x} # T
    BY <2>3
  <2>5. \E g : SumsUpTo(g, f, S, Cardinality(T \ {x}))
    BY <2>1, <2>4
  <2>6. Cardinality(T \ {x}) \in Nat /\ Cardinality(T) = Cardinality(T \ {x}) + 1
    <3>1. IsFiniteSet(T \ {x}) /\ Cardinality(T \ {x}) = Cardinality(T) - 1
      BY <2>1, <2>3, FS_RemoveElement
    <3>2. Cardinality(T) \in Nat /\ Cardinality(T \ {x}) \in Nat
      BY <2>1, <3>1, FS_CardinalityType
    <3>3. QED
      BY <3>1, <3>2
  <2>7. \E g : SumsUpTo(g, f, S, Cardinality(T))
    BY <2>5, <2>6, SumsUpToNext
  <2>8. QED
    BY <2>7
<1>2. PICK g : SumsUpTo(g, f, S, Cardinality(S))
  BY <1>1
<1>3. \A s \in SUBSET S : Cardinality(s) <= Cardinality(S)
  BY FS_Subset
<1>4. \A s \in SUBSET S : 
         g[s] = IF s = {} THEN 0
                ELSE f[CHOOSE x \in s : TRUE] + g[s \ {CHOOSE x \in s : TRUE}]
  BY <1>2, <1>3 DEF SumsUpTo
<1>5. g = [s \in SUBSET S |-> g[s]]
  BY <1>2 DEF SumsUpTo
<1> HIDE DEF Bad
<1>6. SumsUp(g, f, S)
  BY <1>4, <1>5, Zenon DEF SumsUp
<1>7. QED
  BY <1>6

\* What a solution says of one part.
LEMMA SumsUpStep ==
  ASSUME NEW S, NEW f, NEW g, SumsUp(g, f, S), NEW T \in SUBSET S
  PROVE  /\ T = {} => g[T] = 0
         /\ T # {} => g[T] = f[CHOOSE x \in T : TRUE] + g[T \ {CHOOSE x \in T : TRUE}]
BY DEF SumsUp

LEMMA SumsAgree ==
  ASSUME NEW S, IsFiniteSet(S), NEW f, NEW g, SumsUp(g, f, S),
         NEW T \in SUBSET S, NEW h, SumsUp(h, f, T)
  PROVE  g[T] = h[T]
<1> DEFINE Bad == {U \in SUBSET T : g[U] # h[U]}
<1>1. Bad = {}
  <2> SUFFICES ASSUME Bad # {} PROVE FALSE
    OBVIOUS
  <2>1. PICK U \in Bad : \A V \in SUBSET U : V # U => V \notin Bad
    <3>1. Bad \in SUBSET SUBSET T /\ IsFiniteSet(T)
      BY FS_Subset
    <3> HIDE DEF Bad
    <3>2. QED
      BY <3>1, SmallestPart
  <2> DEFINE c == CHOOSE x \in U : TRUE
  <2>2. U \in SUBSET T /\ U \in SUBSET S /\ g[U] # h[U]
    BY <2>1
  <2>3. U # {}
    <3>1. ASSUME U = {} PROVE g[U] = 0 /\ h[U] = 0
      BY <2>2, <3>1, SumsUpStep
    <3>2. QED
      BY <2>2, <3>1
  <2>4. c \in U
    BY <2>3
  <2>5. U \ {c} \in SUBSET U /\ U \ {c} # U
    BY <2>4
  <2>6. g[U \ {c}] = h[U \ {c}]
    BY <2>1, <2>2, <2>5
  <2>7. g[U] = f[c] + g[U \ {c}]
    BY <2>2, <2>3 DEF SumsUp
  <2>8. h[U] = f[c] + h[U \ {c}]
    BY <2>2, <2>3 DEF SumsUp
  <2>9. QED
    BY <2>2, <2>6, <2>7, <2>8
<1>2. QED
  BY <1>1

\* The fold is that solution.
LEMMA SumIsSolution ==
  ASSUME NEW S, IsFiniteSet(S), NEW f
  PROVE  \E g : SumsUp(g, f, S) /\ SumFunctionOnSet(f, S) = g[S]
<1> DEFINE g == CHOOSE h : SumsUp(h, f, S)
<1>1. SumsUp(g, f, S)
  BY SumExists
<1>2. SumFunctionOnSet(f, S) = g[S]
  BY DEF SumFunctionOnSet, FoldFunctionOnSet, MapThenFoldSet, SumsUp
<1>3. QED
  BY <1>1, <1>2

\* A sum over no element, and over one element more than the rest.
LEMMA SumEmpty ==
  ASSUME NEW f
  PROVE  SumFunctionOnSet(f, {}) = 0
<1>1. PICK g : SumsUp(g, f, {}) /\ SumFunctionOnSet(f, {}) = g[{}]
  BY SumIsSolution, FS_EmptySet
<1>2. QED
  BY <1>1, SumsUpStep

LEMMA SumChosen ==
  ASSUME NEW S, IsFiniteSet(S), S # {}, NEW f
  PROVE  SumFunctionOnSet(f, S) =
           f[CHOOSE x \in S : TRUE] + SumFunctionOnSet(f, S \ {CHOOSE x \in S : TRUE})
<1> DEFINE c == CHOOSE x \in S : TRUE
           R == S \ {c}
<1>1. IsFiniteSet(R) /\ R \in SUBSET S
  BY FS_Subset
<1>2. PICK g : SumsUp(g, f, S) /\ SumFunctionOnSet(f, S) = g[S]
  BY SumIsSolution
<1>3. g[S] = f[c] + g[R]
  BY <1>2 DEF SumsUp
<1>4. PICK h : SumsUp(h, f, R) /\ SumFunctionOnSet(f, R) = h[R]
  BY <1>1, SumIsSolution
<1>5. g[R] = h[R]
  BY <1>1, <1>2, <1>4, SumsAgree
<1>6. QED
  BY <1>2, <1>3, <1>4, <1>5

\* A sum of numbers is a number, and any element may be taken out of it.
LEMMA SumInt ==
  ASSUME NEW S, IsFiniteSet(S), NEW f, \A x \in S : f[x] \in Int
  PROVE  SumFunctionOnSet(f, S) \in Int
<1> DEFINE Bad == {T \in SUBSET S : SumFunctionOnSet(f, T) \notin Int}
<1>1. Bad = {}
  <2> SUFFICES ASSUME Bad # {} PROVE FALSE
    OBVIOUS
  <2>1. PICK T \in Bad : IsFiniteSet(T) /\ \A U \in SUBSET T : U # T => U \notin Bad
    <3>1. Bad \in SUBSET SUBSET S
      OBVIOUS
    <3> HIDE DEF Bad
    <3>2. QED
      BY <3>1, SmallestPart
  <2> DEFINE c == CHOOSE x \in T : TRUE
  <2>2. T \in SUBSET S /\ SumFunctionOnSet(f, T) \notin Int
    BY <2>1
  <2>3. T # {}
    BY <2>2, SumEmpty
  <2>4. c \in T
    BY <2>3
  <2>5. T \ {c} \in SUBSET T /\ T \ {c} # T
    BY <2>4
  <2>6. SumFunctionOnSet(f, T \ {c}) \in Int
    BY <2>1, <2>2, <2>5
  <2>7. SumFunctionOnSet(f, T) = f[c] + SumFunctionOnSet(f, T \ {c})
    BY <2>1, <2>3, SumChosen
  <2>8. f[c] \in Int
    BY <2>2, <2>4
  <2> HIDE DEF c
  <2>9. QED
    BY <2>2, <2>6, <2>7, <2>8
<1>2. QED
  BY <1>1

LEMMA SumOut ==
  ASSUME NEW S, IsFiniteSet(S), NEW f, \A x \in S : f[x] \in Int, NEW y \in S
  PROVE  SumFunctionOnSet(f, S) = f[y] + SumFunctionOnSet(f, S \ {y})
<1> DEFINE Fits(T, x) == SumFunctionOnSet(f, T) = f[x] + SumFunctionOnSet(f, T \ {x})
           Bad == {T \in SUBSET S : \E x \in T : ~Fits(T, x)}
<1>1. Bad = {}
  <2> SUFFICES ASSUME Bad # {} PROVE FALSE
    OBVIOUS
  <2>1. PICK T \in Bad : IsFiniteSet(T) /\ \A U \in SUBSET T : U # T => U \notin Bad
    <3>1. Bad \in SUBSET SUBSET S
      OBVIOUS
    <3> HIDE DEF Bad
    <3>2. QED
      BY <3>1, SmallestPart
  <2>2. PICK x \in T : ~Fits(T, x)
    BY <2>1
  <2> DEFINE c == CHOOSE z \in T : TRUE
             Sm(U) == SumFunctionOnSet(f, U)
  <2>3. c \in T /\ T \in SUBSET S
    BY <2>1, <2>2
  <2>4. Sm(T) = f[c] + Sm(T \ {c})
    BY <2>1, <2>2, SumChosen
  <2>5. x # c
    BY <2>2, <2>4
  <2>6. T \ {c} \in SUBSET T /\ T \ {c} # T /\ x \in T \ {c}
    BY <2>3, <2>2, <2>5
  <2>7. T \ {x} \in SUBSET T /\ T \ {x} # T /\ c \in T \ {x}
    BY <2>3, <2>2, <2>5
  <2>8. Sm(T \ {c}) = f[x] + Sm((T \ {c}) \ {x})
    BY <2>1, <2>3, <2>6
  <2>9. Sm(T \ {x}) = f[c] + Sm((T \ {x}) \ {c})
    BY <2>1, <2>3, <2>7
  <2>10. (T \ {c}) \ {x} = (T \ {x}) \ {c}
    OBVIOUS
  <2>11. f[x] \in Int /\ f[c] \in Int /\ Sm((T \ {x}) \ {c}) \in Int
    <3>1. IsFiniteSet((T \ {x}) \ {c}) /\ (T \ {x}) \ {c} \subseteq S
      BY <2>1, <2>3, FS_Subset
    <3>2. QED
      BY <3>1, <2>3, <2>2, SumInt
  <2>12. PICK r \in Int, d \in Int, e \in Int :
            r = Sm((T \ {x}) \ {c}) /\ d = f[c] /\ e = f[x]
    BY <2>11
  <2>13. Sm(T \ {c}) = e + r
    BY <2>8, <2>10, <2>12
  <2>14. Sm(T \ {x}) = d + r
    BY <2>9, <2>12
  <2>15. Sm(T) = d + (e + r)
    BY <2>4, <2>12, <2>13
  <2>16. d + (e + r) = e + (d + r)
    OBVIOUS
  <2>17. QED
    BY <2>2, <2>12, <2>14, <2>15, <2>16
<1>2. QED
  BY <1>1

\* Of two functions that agree on a set the sums over it are the same.
LEMMA SumSame ==
  ASSUME NEW S, IsFiniteSet(S), NEW f, NEW g, \A x \in S : f[x] = g[x]
  PROVE  SumFunctionOnSet(f, S) = SumFunctionOnSet(g, S)
<1> DEFINE Bad == {T \in SUBSET S : SumFunctionOnSet(f, T) # SumFunctionOnSet(g, T)}
<1>1. Bad = {}
  <2> SUFFICES ASSUME Bad # {} PROVE FALSE
    OBVIOUS
  <2>1. PICK T \in Bad : IsFiniteSet(T) /\ \A U \in SUBSET T : U # T => U \notin Bad
    <3>1. Bad \in SUBSET SUBSET S
      OBVIOUS
    <3> HIDE DEF Bad
    <3>2. QED
      BY <3>1, SmallestPart
  <2> DEFINE c == CHOOSE x \in T : TRUE
  <2>2. T \in SUBSET S /\ SumFunctionOnSet(f, T) # SumFunctionOnSet(g, T)
    BY <2>1
  <2>3. T # {}
    BY <2>2, SumEmpty
  <2>4. c \in T
    BY <2>3
  <2>5. T \ {c} \in SUBSET T /\ T \ {c} # T
    BY <2>4
  <2>6. SumFunctionOnSet(f, T \ {c}) = SumFunctionOnSet(g, T \ {c})
    BY <2>1, <2>2, <2>5
  <2>7. SumFunctionOnSet(f, T) = f[c] + SumFunctionOnSet(f, T \ {c})
    BY <2>1, <2>3, SumChosen
  <2>8. SumFunctionOnSet(g, T) = g[c] + SumFunctionOnSet(g, T \ {c})
    BY <2>1, <2>3, SumChosen
  <2>9. f[c] = g[c]
    BY <2>2, <2>4
  <2>10. QED
    BY <2>2, <2>6, <2>7, <2>8, <2>9
<1>2. QED
  BY <1>1

\* Induction over the parts of a finite set, with the property as a set P of parts.
LEMMA PartInduction ==
  ASSUME NEW S, IsFiniteSet(S), NEW P, {} \in P,
         \A T \in SUBSET S : \A x \in T : T \ {x} \in P => T \in P
  PROVE  S \in P
<1> DEFINE Bad == (SUBSET S) \ P
<1>1. Bad = {}
  <2> SUFFICES ASSUME Bad # {} PROVE FALSE
    OBVIOUS
  <2>1. PICK T \in Bad : \A U \in SUBSET T : U # T => U \notin Bad
    <3>1. Bad \in SUBSET SUBSET S
      OBVIOUS
    <3> HIDE DEF Bad
    <3>2. QED
      BY <3>1, SmallestPart
  <2>2. PICK x \in T : TRUE
    BY <2>1
  <2>3. T \ {x} \in SUBSET T /\ T \ {x} # T
    BY <2>2
  <2>4. QED
    BY <2>1, <2>2, <2>3
<1>2. QED
  BY <1>1

LEMMA SumIn ==
  ASSUME NEW S, IsFiniteSet(S), NEW f, \A x \in S : f[x] \in Int,
         NEW y, y \notin S, f[y] \in Int
  PROVE  SumFunctionOnSet(f, S \cup {y}) = f[y] + SumFunctionOnSet(f, S)
<1>1. IsFiniteSet(S \cup {y}) /\ (S \cup {y}) \ {y} = S
  BY FS_AddElement
<1>2. QED
  BY <1>1, SumOut

\* A sum over a part, of no larger numbers, is no larger.
LEMMA SumLeq ==
  ASSUME NEW S, IsFiniteSet(S), NEW T \in SUBSET S, NEW f, NEW g,
         \A x \in T : f[x] \in Int, \A x \in S : g[x] \in Int,
         \A x \in T : f[x] <= g[x], \A x \in S \ T : 0 <= g[x]
  PROVE  SumFunctionOnSet(f, T) <= SumFunctionOnSet(g, S)
<1> DEFINE P == {U \in SUBSET S : SumFunctionOnSet(f, U \cap T) <= SumFunctionOnSet(g, U)}
<1>1. {} \in P
  <2>1. {} \cap T = {}
    OBVIOUS
  <2>2. SumFunctionOnSet(f, {}) = 0 /\ SumFunctionOnSet(g, {}) = 0
    BY SumEmpty
  <2>3. QED
    BY <2>1, <2>2
<1>2. ASSUME NEW U \in SUBSET S, NEW x \in U, U \ {x} \in P PROVE U \in P
  <2> DEFINE V == U \ {x}
  <2>1. IsFiniteSet(U) /\ IsFiniteSet(V) /\ IsFiniteSet(U \cap T) /\ IsFiniteSet(V \cap T)
    BY FS_Subset
  <2>2. SumFunctionOnSet(f, V \cap T) <= SumFunctionOnSet(g, V)
    BY <1>2
  <2>3. SumFunctionOnSet(g, U) = g[x] + SumFunctionOnSet(g, V)
    BY <2>1, SumOut
  <2>4. SumFunctionOnSet(f, V \cap T) \in Int /\ SumFunctionOnSet(g, V) \in Int /\ g[x] \in Int
    BY <2>1, SumInt
  <2>5. CASE x \in T
    <3>1. (U \cap T) \ {x} = V \cap T /\ x \in U \cap T
      BY <2>5
    <3>2. SumFunctionOnSet(f, U \cap T) = f[x] + SumFunctionOnSet(f, V \cap T)
      BY <2>1, <3>1, SumOut
    <3>3. f[x] \in Int /\ f[x] <= g[x]
      BY <2>5
    <3>4. SumFunctionOnSet(f, U \cap T) <= SumFunctionOnSet(g, U)
      BY <2>2, <2>3, <2>4, <3>2, <3>3
    <3>5. QED
      BY <3>4
  <2>6. CASE x \notin T
    <3>1. U \cap T = V \cap T
      BY <2>6
    <3>2. 0 <= g[x]
      BY <2>6
    <3>3. PICK a \in Int, b \in Int :
            a = SumFunctionOnSet(f, V \cap T) /\ b = SumFunctionOnSet(g, V)
      BY <2>4
    <3>4. a <= b /\ SumFunctionOnSet(f, U \cap T) = a
      BY <2>2, <3>1, <3>3
    <3>5. b <= g[x] + b
      BY <2>4, <3>2
    <3>6. SumFunctionOnSet(f, U \cap T) <= SumFunctionOnSet(g, U)
      BY <2>3, <2>4, <3>3, <3>4, <3>5
    <3>7. QED
      BY <3>6
  <2>7. QED
    BY <2>5, <2>6
<1>3. S \in P
  <2> HIDE DEF P
  <2>1. QED
    BY <1>1, <1>2, PartInduction
<1>4. S \cap T = T
  OBVIOUS
<1>5. QED
  BY <1>3, <1>4

\* A sum of numbers that are not negative is none.
LEMMA SumNat ==
  ASSUME NEW S, IsFiniteSet(S), NEW f, \A x \in S : f[x] \in Nat
  PROVE  SumFunctionOnSet(f, S) \in Nat
<1>1. SumFunctionOnSet(f, {}) <= SumFunctionOnSet(f, S)
  BY SumLeq
<1>2. SumFunctionOnSet(f, S) \in Int
  BY SumInt
<1>3. QED
  BY <1>1, <1>2, SumEmpty

\* Sums of sums and of multiples.
LEMMA SumPlus ==
  ASSUME NEW S, IsFiniteSet(S), NEW f, NEW g, NEW h,
         \A x \in S : f[x] \in Int /\ g[x] \in Int /\ h[x] = f[x] + g[x]
  PROVE  SumFunctionOnSet(h, S) = SumFunctionOnSet(f, S) + SumFunctionOnSet(g, S)
<1> DEFINE P == {U \in SUBSET S : SumFunctionOnSet(h, U) =
                                    SumFunctionOnSet(f, U) + SumFunctionOnSet(g, U)}
<1>1. {} \in P
  BY SumEmpty
<1>2. ASSUME NEW U \in SUBSET S, NEW x \in U, U \ {x} \in P PROVE U \in P
  <2> DEFINE V == U \ {x}
  <2>1. IsFiniteSet(U) /\ IsFiniteSet(V)
    BY FS_Subset
  <2>2. SumFunctionOnSet(f, V) \in Int /\ SumFunctionOnSet(g, V) \in Int
    BY <2>1, SumInt
  <2>3. f[x] \in Int /\ g[x] \in Int /\ h[x] = f[x] + g[x]
    OBVIOUS
  <2>4. /\ SumFunctionOnSet(f, U) = f[x] + SumFunctionOnSet(f, V)
        /\ SumFunctionOnSet(g, U) = g[x] + SumFunctionOnSet(g, V)
    BY <2>1, SumOut
  <2>5. SumFunctionOnSet(h, U) = h[x] + SumFunctionOnSet(h, V)
    <3>1. \A y \in U : h[y] \in Int
      OBVIOUS
    <3>2. QED
      BY <2>1, <3>1, SumOut
  <2>6. SumFunctionOnSet(h, V) = SumFunctionOnSet(f, V) + SumFunctionOnSet(g, V)
    BY <1>2
  <2>7. SumFunctionOnSet(h, U) = SumFunctionOnSet(f, U) + SumFunctionOnSet(g, U)
    BY <2>2, <2>3, <2>4, <2>5, <2>6
  <2>8. QED
    BY <2>7
<1>3. S \in P
  <2> HIDE DEF P
  <2>1. QED
    BY <1>1, <1>2, PartInduction
<1>4. QED
  BY <1>3

LEMMA SumTimes ==
  ASSUME NEW S, IsFiniteSet(S), NEW f, NEW h, NEW k \in Int,
         \A x \in S : f[x] \in Int /\ h[x] = k * f[x]
  PROVE  SumFunctionOnSet(h, S) = k * SumFunctionOnSet(f, S)
<1> DEFINE P == {U \in SUBSET S : SumFunctionOnSet(h, U) = k * SumFunctionOnSet(f, U)}
<1>1. {} \in P
  BY SumEmpty
<1>2. ASSUME NEW U \in SUBSET S, NEW x \in U, U \ {x} \in P PROVE U \in P
  <2> DEFINE V == U \ {x}
  <2>1. IsFiniteSet(U) /\ IsFiniteSet(V)
    BY FS_Subset
  <2>2. PICK r \in Int, d \in Int : r = SumFunctionOnSet(f, V) /\ d = f[x]
    BY <2>1, SumInt
  <2>3. h[x] = k * d
    BY <2>2
  <2>4. SumFunctionOnSet(f, U) = d + r
    BY <2>1, <2>2, SumOut
  <2>5. SumFunctionOnSet(h, U) = h[x] + SumFunctionOnSet(h, V)
    <3>1. \A y \in U : h[y] \in Int
      OBVIOUS
    <3>2. QED
      BY <2>1, <3>1, SumOut
  <2>6. SumFunctionOnSet(h, V) = k * r
    BY <1>2, <2>2
  <2>7. k * d + k * r = k * (d + r)
    OBVIOUS
  <2>8. QED
    BY <2>3, <2>4, <2>5, <2>6, <2>7
<1>3. S \in P
  <2> HIDE DEF P
  <2>1. QED
    BY <1>1, <1>2, PartInduction
<1>4. QED
  BY <1>3

\* A sum of ones counts the elements.
LEMMA SumOnes ==
  ASSUME NEW S, IsFiniteSet(S), NEW f, \A x \in S : f[x] = 1
  PROVE  SumFunctionOnSet(f, S) = Cardinality(S)
<1> DEFINE P == {U \in SUBSET S : SumFunctionOnSet(f, U) = Cardinality(U)}
<1>1. {} \in P
  BY SumEmpty, FS_EmptySet
<1>2. ASSUME NEW U \in SUBSET S, NEW x \in U, U \ {x} \in P PROVE U \in P
  <2> DEFINE V == U \ {x}
  <2>1. IsFiniteSet(U) /\ IsFiniteSet(V)
    BY FS_Subset
  <2>2. SumFunctionOnSet(f, U) = f[x] + SumFunctionOnSet(f, V)
    BY <2>1, SumOut
  <2>3. SumFunctionOnSet(f, V) = Cardinality(V)
    BY <1>2
  <2>4. Cardinality(V) = Cardinality(U) - 1 /\ Cardinality(U) \in Nat
    BY <2>1, FS_RemoveElement, FS_CardinalityType
  <2>5. SumFunctionOnSet(f, U) = Cardinality(U)
    BY <2>2, <2>3, <2>4
  <2>6. QED
    BY <2>5
<1>3. S \in P
  <2> HIDE DEF P
  <2>1. QED
    BY <1>1, <1>2, PartInduction
<1>4. QED
  BY <1>3

\* Elements that add nothing may be left out.
LEMMA SumOfPart ==
  ASSUME NEW S, IsFiniteSet(S), NEW T \in SUBSET S, NEW f,
         \A x \in S : f[x] \in Int, \A x \in S \ T : f[x] = 0
  PROVE  SumFunctionOnSet(f, S) = SumFunctionOnSet(f, T)
<1> DEFINE P == {U \in SUBSET S : SumFunctionOnSet(f, U) = SumFunctionOnSet(f, U \cap T)}
<1>1. {} \in P
  <2>1. {} \cap T = {}
    OBVIOUS
  <2>2. QED
    BY <2>1
<1>2. ASSUME NEW U \in SUBSET S, NEW x \in U, U \ {x} \in P PROVE U \in P
  <2> DEFINE V == U \ {x}
  <2>1. IsFiniteSet(U) /\ IsFiniteSet(V) /\ IsFiniteSet(U \cap T)
    BY FS_Subset
  <2>2. SumFunctionOnSet(f, U) = f[x] + SumFunctionOnSet(f, V)
    BY <2>1, SumOut
  <2>3. SumFunctionOnSet(f, V) = SumFunctionOnSet(f, V \cap T) /\ SumFunctionOnSet(f, V) \in Int
    BY <1>2, <2>1, SumInt
  <2>4. CASE x \in T
    <3>1. (U \cap T) \ {x} = V \cap T /\ x \in U \cap T
      BY <2>4
    <3>2. SumFunctionOnSet(f, U \cap T) = f[x] + SumFunctionOnSet(f, V \cap T)
      BY <2>1, <3>1, SumOut
    <3>3. QED
      BY <2>2, <2>3, <3>2
  <2>5. CASE x \notin T
    <3>1. U \cap T = V \cap T /\ f[x] = 0
      BY <2>5
    <3>2. SumFunctionOnSet(f, U) = SumFunctionOnSet(f, V)
      BY <2>2, <2>3, <3>1
    <3>3. SumFunctionOnSet(f, V) = SumFunctionOnSet(f, U \cap T)
      BY <2>3, <3>1
    <3>4. QED
      BY <3>2, <3>3
  <2>6. QED
    BY <2>4, <2>5
<1>3. S \in P
  <2> HIDE DEF P
  <2>1. QED
    BY <1>1, <1>2, PartInduction
<1>4. S \cap T = T
  OBVIOUS
<1>5. QED
  BY <1>3, <1>4

\* A sum may be taken over other names of the elements.
LEMMA SumThrough ==
  ASSUME NEW S, IsFiniteSet(S), NEW m,
         \A x, y \in S : m[x] = m[y] => x = y,
         NEW f, NEW g, \A x \in S : f[x] \in Int /\ g[m[x]] = f[x]
  PROVE  SumFunctionOnSet(f, S) = SumFunctionOnSet(g, {m[x] : x \in S})
<1> DEFINE Im(U) == {m[x] : x \in U}
           P == {U \in SUBSET S : /\ IsFiniteSet(Im(U))
                                  /\ SumFunctionOnSet(f, U) = SumFunctionOnSet(g, Im(U))}
<1>1. {} \in P
  <2>1. Im({}) = {}
    OBVIOUS
  <2> HIDE DEF Im
  <2>2. QED
    BY <2>1, SumEmpty, FS_EmptySet
<1>2. ASSUME NEW U \in SUBSET S, NEW x \in U, U \ {x} \in P PROVE U \in P
  <2> DEFINE V == U \ {x}
  <2>1. IsFiniteSet(U) /\ IsFiniteSet(V)
    BY FS_Subset
  <2>2. SumFunctionOnSet(f, U) = f[x] + SumFunctionOnSet(f, V)
    BY <2>1, SumOut
  <2>3. SumFunctionOnSet(f, V) = SumFunctionOnSet(g, Im(V)) /\ IsFiniteSet(Im(V))
    BY <1>2
  <2>4. Im(U) = Im(V) \cup {m[x]} /\ m[x] \notin Im(V)
    OBVIOUS
  <2>5. \A z \in Im(U) : g[z] \in Int
    OBVIOUS
  <2>6. g[m[x]] = f[x] /\ f[x] \in Int
    OBVIOUS
  <2> HIDE DEF Im
  <2>7. IsFiniteSet(Im(U))
    <3>1. IsFiniteSet(Im(V) \cup {m[x]})
      BY <2>3, FS_AddElement
    <3>2. QED
      BY <2>4, <3>1
  <2>8. \A z \in Im(V) : g[z] \in Int
    BY <2>4, <2>5
  <2>9. SumFunctionOnSet(g, Im(U)) = g[m[x]] + SumFunctionOnSet(g, Im(V))
    BY <2>3, <2>4, <2>6, <2>8, SumIn
  <2>10. QED
    BY <2>2, <2>3, <2>6, <2>7, <2>9
<1>3. S \in P
  <2> HIDE DEF P
  <2>1. QED
    BY <1>1, <1>2, PartInduction
<1>4. QED
  BY <1>3

\* A finite set of numbers that is not empty has a least and a greatest one.
LEMMA Extremes ==
  ASSUME NEW S \in SUBSET Int, IsFiniteSet(S), S # {}
  PROVE  /\ Min(S) \in S /\ \A y \in S : Min(S) <= y
         /\ Max(S) \in S /\ \A y \in S : y <= Max(S)
<1> DEFINE P == {U \in SUBSET S : U # {} =>
                   /\ \E x \in U : \A y \in U : x <= y
                   /\ \E x \in U : \A y \in U : y <= x}
<1>1. {} \in P
  OBVIOUS
<1>2. ASSUME NEW U \in SUBSET S, NEW x \in U, U \ {x} \in P PROVE U \in P
  <2> DEFINE V == U \ {x}
  <2>1. CASE V = {}
    <3>1. \A y \in U : y = x
      BY <2>1
    <3>2. QED
      BY <3>1
  <2>2. CASE V # {}
    <3>1. PICK a \in V : \A y \in V : a <= y
      BY <1>2, <2>2
    <3>2. PICK b \in V : \A y \in V : y <= b
      BY <1>2, <2>2
    <3>3. a \in Int /\ b \in Int /\ x \in Int /\ a \in U /\ b \in U
      OBVIOUS
    <3>4. \A y \in U : y \in Int /\ (y = x \/ (a <= y /\ y <= b))
      BY <3>1, <3>2
    <3>5. \E z \in U : \A y \in U : z <= y
      <4>1. CASE a <= x
        BY <3>3, <3>4, <4>1
      <4>2. CASE x < a
        BY <3>3, <3>4, <4>2
      <4>3. QED
        BY <3>3, <4>1, <4>2
    <3>6. \E z \in U : \A y \in U : y <= z
      <4>1. CASE x <= b
        BY <3>3, <3>4, <4>1
      <4>2. CASE b < x
        BY <3>3, <3>4, <4>2
      <4>3. QED
        BY <3>3, <4>1, <4>2
    <3>7. QED
      BY <3>5, <3>6
  <2>3. QED
    BY <2>1, <2>2
<1>3. S \in P
  <2> HIDE DEF P
  <2>1. QED
    BY <1>1, <1>2, PartInduction
<1>4. /\ \E x \in S : \A y \in S : x <= y
      /\ \E x \in S : \A y \in S : y <= x
  BY <1>3
<1>5. Min(S) \in S /\ \A y \in S : Min(S) <= y
  BY <1>4 DEF Min
<1>6. Max(S) \in S /\ \A y \in S : Max(S) >= y
  <2>1. \E x \in S : \A y \in S : x >= y
    BY <1>4
  <2>2. QED
    BY <2>1 DEF Max
<1>7. QED
  BY <1>5, <1>6

\* Numbers up to n are finitely many.
LEMMA NumbersUpTo ==
  ASSUME NEW n \in Nat, NEW S \in SUBSET (0 .. n)
  PROVE  S \in SUBSET Int /\ IsFiniteSet(S)
<1>1. n \in Int /\ 0 \in Int
  OBVIOUS
<1>2. IsFiniteSet(0 .. n)
  BY <1>1, FS_Interval
<1>3. IsFiniteSet(S)
  BY <1>2, FS_Subset
<1>4. QED
  BY <1>3

\* Induction over the numbers up to n, with the property as a set P of numbers.
LEMMA StepInduction ==
  ASSUME NEW n \in Nat, NEW P, 0 \in P, \A k \in 1 .. n : k - 1 \in P => k \in P
  PROVE  \A k \in 0 .. n : k \in P
<1> DEFINE Bad == {k \in 0 .. n : k \notin P}
<1>1. Bad = {}
  <2> SUFFICES ASSUME Bad # {} PROVE FALSE
    OBVIOUS
  <2>1. Bad \in SUBSET Int /\ IsFiniteSet(Bad)
    <3>1. Bad \in SUBSET (0 .. n)
      OBVIOUS
    <3> HIDE DEF Bad
    <3>2. QED
      BY <3>1, NumbersUpTo
  <2>2. PICK k \in Bad : \A y \in Bad : k <= y
    <3> HIDE DEF Bad
    <3>1. QED
      BY <2>1, Extremes
  <2>3. k \in 0 .. n /\ k \notin P
    BY <2>2
  <2>4. k \in 1 .. n /\ k - 1 \in 0 .. n /\ k - 1 < k
    BY <2>3
  <2>5. k - 1 \in P
    BY <2>2, <2>4
  <2>6. QED
    BY <2>3, <2>4, <2>5
<1>2. QED
  BY <1>1

-----------------------------------------------------------------------------
(***************************************************************************)
(* ConfigFiles: answers survive.                                           *)
(***************************************************************************)

\* Adds name files of the config directory, deletes those of the live directory.
Orderly ==
  /\ Outcomes = {"ok"}
  /\ Paths \subseteq {<<"add", "conf">>, <<"del", "live">>}
  /\ \A b \in Names : \A v, w \in VfsOf[b] : v = w

(***************************************************************************)
(* The inductive invariant.                                                *)
(***************************************************************************)

FileTypes ==
  /\ files \in [Dirs -> [Names -> Files]]
  /\ table \in [VfIds -> Owners \cup {NoOwner}]
  /\ told \in [VfIds -> {"unknown", "added", "deleted"}]
  /\ toLoad \subseteq Names
  /\ pc \in {"idle", "copy", "write", "unlink", "aside", "answer", "remove", "mark", "down", "boot"}
  /\ \A d \in Dirs, b \in Names : Readable(FileOf(d, b)) => FileOf(d, b).vf \in VfsOf[b]

\* The live file b is that of VF v.
IsOf(b, v) == Readable(FileOf("live", b)) /\ FileOf("live", b).vf = v
HasLive(v) == \E b \in Names : IsOf(b, v)

\* No VF has two live files, so a restart has no choice.
OneLive == \A b, c \in Names, v \in VfIds : IsOf(b, v) /\ IsOf(c, v) => b = c

\* What the request loop knows of the request it works on.
AddPhase ==
  /\ pc \in {"copy", "write", "unlink"} =>
       /\ req.op = "add" /\ req.ok /\ req.dir = "conf"
       /\ req.base \in Names /\ req.vf \in VfIds
       /\ told[req.vf] = "unknown"
       /\ Readable(FileOf("conf", req.base))
       /\ FileOf("conf", req.base).vf = req.vf /\ FileOf("conf", req.base).owner = table[req.vf]
  /\ pc \in {"copy", "write"} => ~HasLive(req.vf)
  /\ pc = "copy" => FileOf("live", req.base) = NoFile
  /\ pc = "write" => FileOf("live", req.base) = Broken
  /\ pc = "unlink" => FileOf("live", req.base) = FileOf("conf", req.base)
  /\ pc = "aside" => req.dir = "conf" /\ req.base \in Names /\ ~req.ok

DelPhase ==
  /\ pc \in {"remove", "mark"} =>
       /\ req.op = "del" /\ req.ok /\ req.dir = "live"
       /\ req.base \in Names /\ req.vf \in VfIds
       /\ told[req.vf] = "unknown"
  /\ pc = "remove" => IsOf(req.base, req.vf)
  /\ pc = "mark" => ~HasLive(req.vf)

AnswerPhase ==
  pc = "answer" /\ req.ok =>
    /\ req.op \in {"add", "del"} /\ req.vf \in VfIds
    /\ req.op = "add" => HasLive(req.vf)
    /\ req.op = "del" => table[req.vf] = NoOwner

\* While VFd runs the live files are those of the table, but for the request's.
LiveIsTable ==
  pc \notin {"down", "boot"} =>
    /\ \A b \in Names : FileOf("live", b) # NoFile =>
         \/ pc = "write" /\ b = req.base
         \/ Readable(FileOf("live", b)) /\ table[FileOf("live", b).vf] = FileOf("live", b).owner
    /\ \A v \in VfIds : table[v] # NoOwner =>
         HasLive(v) \/ (pc \in {"copy", "write", "mark"} /\ v = req.vf)

\* While it starts, those that have been loaded are.
BootPhase ==
  /\ pc = "down" => \A v \in VfIds : table[v] = NoOwner
  /\ pc = "boot" =>
       /\ \A b \in Names \ toLoad : FileOf("live", b) # NoFile =>
            Readable(FileOf("live", b)) /\ table[FileOf("live", b).vf] = FileOf("live", b).owner
       /\ \A v \in VfIds : table[v] # NoOwner => \E b \in Names \ toLoad : IsOf(b, v)

\* A VF reported as deleted has no file that a restart would find.
DeletedIsGone ==
  \A v \in VfIds : told[v] = "deleted" => table[v] = NoOwner /\ ~HasLive(v)

\* A VF reported as added has one, unless a restart has refused it.
AddedIsThere == \A v \in VfIds : told[v] = "added" /\ v \notin refused => HasLive(v)

FilesInv ==
  /\ FileTypes /\ OneLive
  /\ AddPhase /\ DelPhase /\ AnswerPhase
  /\ LiveIsTable /\ BootPhase
  /\ DeletedIsGone /\ AddedIsThere

(***************************************************************************)
(* Helpers.                                                                *)
(***************************************************************************)

LEMMA KindsOfFiles ==
  /\ ~Readable(NoFile) /\ ~Readable(Broken) /\ NoFile # Broken
  /\ NoOwner \notin Owners
  /\ \A f : Readable(f) => f \in Files /\ f.vf \in VfIds /\ f.owner \in Owners
BY FileNames DEF FileNames, Readable, Contents, Files

\* A file operation changes one file.
LEMMA PutChanges ==
  ASSUME FileTypes, NEW d \in Dirs, NEW b \in Names, NEW f \in Files, Put(d, b, f)
  PROVE  /\ files' \in [Dirs -> [Names -> Files]]
         /\ FileOf(d, b)' = f
         /\ \A e \in Dirs, c \in Names : e # d \/ c # b => FileOf(e, c)' = FileOf(e, c)
BY DEF FileTypes, Put, FileOf, Dirs

\* An operation on the config directory leaves the live files as they are.
LEMMA ConfKeepsLive ==
  ASSUME \A c \in Names : FileOf("live", c)' = FileOf("live", c)
  PROVE  /\ \A v : \A b \in Names : IsOf(b, v)' <=> IsOf(b, v)
         /\ \A v : HasLive(v)' <=> HasLive(v)
BY DEF IsOf, HasLive, Readable

LEMMA SameFiles ==
  ASSUME UNCHANGED files
  PROVE  \A d, b : FileOf(d, b)' = FileOf(d, b)
BY DEF FileOf

\* A live file is that of one VF.
LEMMA IsOfItsVf ==
  ASSUME FileTypes, NEW b \in Names, Readable(FileOf("live", b))
  PROVE  FileOf("live", b).vf \in VfIds /\ IsOf(b, FileOf("live", b).vf)
BY KindsOfFiles DEF IsOf

(***************************************************************************)
(* Every step keeps the invariant.                                         *)
(***************************************************************************)

LEMMA DropKeeps ==
  ASSUME FilesInv, NEW b \in Names, NEW f \in Contents \cup {Broken}, Drop(b, f)
  PROVE  FilesInv'
<1>1. /\ files' \in [Dirs -> [Names -> Files]]
      /\ FileOf("conf", b)' = f
      /\ \A e \in Dirs, c \in Names : e # "conf" \/ c # b => FileOf(e, c)' = FileOf(e, c)
  BY PutChanges DEF FilesInv, Drop, Dirs, Files
<1>2. \A c \in Names : FileOf("live", c)' = FileOf("live", c)
  BY <1>1 DEF Dirs
<1>3. /\ UNCHANGED <<table, pc, req, toLoad, told, refused>>
      /\ pc \in {"idle", "down"} \/ b # req.base
      /\ Readable(f) => f.vf \in VfsOf[b]
  BY DEF Drop
<1>4. FileTypes'
  BY <1>1, <1>3 DEF FilesInv, FileTypes, Readable
<1>5. AddPhase'
  BY <1>1, <1>2, <1>3, ConfKeepsLive DEF FilesInv, AddPhase, Dirs, Readable
<1>6. OneLive' /\ DelPhase' /\ AnswerPhase' /\ BootPhase' /\ DeletedIsGone' /\ AddedIsThere'
  BY <1>2, <1>3, ConfKeepsLive
  DEF FilesInv, FileTypes, OneLive, DelPhase, AnswerPhase, BootPhase, DeletedIsGone, AddedIsThere, Readable
<1>7. LiveIsTable'
  BY <1>2, <1>3, ConfKeepsLive DEF FilesInv, LiveIsTable, Readable
<1>8. QED
  BY <1>4, <1>5, <1>6, <1>7 DEF FilesInv

LEMMA AddAcceptedKeeps ==
  ASSUME Orderly, FilesInv, NEW d \in Dirs, NEW b \in Names, AddAccepted(d, b)
  PROVE  FilesInv'
<1> DEFINE f == FileOf(d, b)
<1>1. /\ pc = "idle" /\ pc' = "copy" /\ d = "conf" /\ Readable(f)
      /\ table[f.vf] = NoOwner /\ table' = [table EXCEPT ![f.vf] = f.owner]
      /\ told' = [told EXCEPT ![f.vf] = "unknown"]
      /\ req' = [op |-> "add", dir |-> d, base |-> b, vf |-> f.vf, ok |-> TRUE]
      /\ refused' = refused \ {f.vf} /\ UNCHANGED <<files, toLoad>>
  BY DEF AddAccepted, Goto, Orderly
<1>2. f.vf \in VfIds /\ f.owner \in Owners /\ f.vf \in VfsOf[b]
  BY <1>1, KindsOfFiles DEF FilesInv, FileTypes
<1>3. /\ \A v : \A c \in Names : IsOf(c, v)' <=> IsOf(c, v)
      /\ \A v : HasLive(v)' <=> HasLive(v)
      /\ \A e, c : FileOf(e, c)' = FileOf(e, c)
  BY <1>1, SameFiles, ConfKeepsLive
\* A live file would be that of a managed VF.
<1>4. \A c \in Names : FileOf("live", c) # NoFile =>
        /\ Readable(FileOf("live", c)) /\ FileOf("live", c).vf # f.vf
        /\ table[FileOf("live", c).vf] = FileOf("live", c).owner
  BY <1>1, KindsOfFiles DEF FilesInv, LiveIsTable
<1>5. ~HasLive(f.vf)
  BY <1>4, KindsOfFiles DEF HasLive, IsOf
<1>6. FileOf("live", b) = NoFile
  BY <1>2, <1>4 DEF Orderly, FilesInv, FileTypes, Dirs
<1>7. FileTypes'
  BY <1>1, <1>2, <1>3 DEF FilesInv, FileTypes, Readable
<1>8. AddPhase'
  BY <1>1, <1>2, <1>3, <1>5, <1>6 DEF FilesInv, AddPhase, FileTypes, Readable
<1>9. LiveIsTable'
  BY <1>1, <1>2, <1>3, <1>4, KindsOfFiles DEF FilesInv, LiveIsTable, FileTypes, Readable
<1>10. OneLive' /\ DelPhase' /\ AnswerPhase' /\ BootPhase'
  BY <1>1, <1>3 DEF FilesInv, OneLive, DelPhase, AnswerPhase, BootPhase
<1>11. DeletedIsGone' /\ AddedIsThere'
  BY <1>1, <1>2, <1>3 DEF FilesInv, DeletedIsGone, AddedIsThere, FileTypes
<1>12. QED
  BY <1>7, <1>8, <1>9, <1>10, <1>11 DEF FilesInv

LEMMA CopyKeeps ==
  ASSUME Orderly, FilesInv, CopyOpen \/ CopyWrite
  PROVE  FilesInv'
<1> DEFINE b == req.base
           v == req.vf
<1>1. /\ pc \in {"copy", "write"} /\ b \in Names /\ v \in VfIds /\ told[v] = "unknown"
      /\ req.op = "add" /\ req.ok /\ req.dir = "conf"
      /\ ~HasLive(v) /\ ~Readable(FileOf("live", b))
      /\ Readable(FileOf("conf", b))
      /\ FileOf("conf", b).vf = v /\ FileOf("conf", b).owner = table[v]
      /\ UNCHANGED <<table, req, toLoad, told, refused>>
  BY KindsOfFiles DEF CopyOpen, CopyWrite, FilesInv, AddPhase
<1>2. CASE CopyOpen
  <2>1. pc = "copy" /\ pc' = "write" /\ Put("live", b, Broken)
    BY <1>2 DEF CopyOpen, Orderly, Goto
  <2>2. /\ files' \in [Dirs -> [Names -> Files]]
        /\ FileOf("live", b)' = Broken
        /\ \A e \in Dirs, c \in Names : e # "live" \/ c # b => FileOf(e, c)' = FileOf(e, c)
    BY <1>1, <2>1, PutChanges DEF FilesInv, Dirs, Files
  <2>3. \A w : \A c \in Names : IsOf(c, w)' <=> IsOf(c, w)
    BY <1>1, <2>2, KindsOfFiles DEF IsOf, Dirs, Readable
  <2>4. \A w : HasLive(w)' <=> HasLive(w)
    BY <2>3 DEF HasLive
  <2>5. FileTypes'
    BY <1>1, <2>1, <2>2, KindsOfFiles DEF FilesInv, FileTypes, Readable
  <2>6. AddPhase'
    BY <1>1, <2>1, <2>2, <2>4 DEF AddPhase, Dirs, Readable
  <2>7. LiveIsTable'
    BY <1>1, <2>1, <2>2, <2>4 DEF FilesInv, LiveIsTable, Dirs, Readable
  <2>8. OneLive' /\ DelPhase' /\ AnswerPhase' /\ BootPhase' /\ DeletedIsGone' /\ AddedIsThere'
    BY <1>1, <2>1, <2>3, <2>4
    DEF FilesInv, OneLive, DelPhase, AnswerPhase, BootPhase, DeletedIsGone, AddedIsThere
  <2>9. QED
    BY <2>5, <2>6, <2>7, <2>8 DEF FilesInv
<1>3. CASE CopyWrite
  <2>1. pc = "write" /\ pc' = "unlink" /\ Put("live", b, FileOf("conf", b))
    BY <1>1, <1>3 DEF CopyWrite, Goto, Orderly
  <2>2. /\ files' \in [Dirs -> [Names -> Files]]
        /\ FileOf("live", b)' = FileOf("conf", b)
        /\ \A e \in Dirs, c \in Names : e # "live" \/ c # b => FileOf(e, c)' = FileOf(e, c)
    BY <1>1, <2>1, PutChanges, KindsOfFiles DEF FilesInv, Dirs
  <2>3. \A w : \A c \in Names : IsOf(c, w)' <=> IsOf(c, w) \/ (c = b /\ w = v)
    BY <1>1, <2>2 DEF IsOf, Dirs, Readable
  <2>4. \A w : HasLive(w)' <=> HasLive(w) \/ w = v
    BY <1>1, <2>3 DEF HasLive
  <2>5. FileTypes'
    BY <1>1, <2>1, <2>2, KindsOfFiles DEF FilesInv, FileTypes, Readable, Dirs
  <2>6. AddPhase'
    BY <1>1, <2>1, <2>2 DEF AddPhase, Dirs, Readable
  <2>7. LiveIsTable'
    BY <1>1, <2>1, <2>2, <2>4 DEF FilesInv, LiveIsTable, Dirs, Readable
  <2>8. OneLive'
    BY <1>1, <2>3 DEF FilesInv, OneLive, HasLive
  <2>9. DelPhase' /\ AnswerPhase' /\ BootPhase' /\ DeletedIsGone' /\ AddedIsThere'
    BY <1>1, <2>1, <2>4
    DEF FilesInv, DelPhase, AnswerPhase, BootPhase, DeletedIsGone, AddedIsThere
  <2>10. QED
    BY <2>5, <2>6, <2>7, <2>8, <2>9 DEF FilesInv
<1>4. QED
  BY <1>2, <1>3

\* The source of an add leaves the config directory.
LEMMA SourceGoes ==
  ASSUME Orderly, FilesInv, CopyUnlink \/ Aside
  PROVE  FilesInv'
<1> DEFINE b == req.base
<1>1. /\ b \in Names /\ req.dir = "conf" /\ pc' = "answer" /\ Put("conf", b, NoFile)
      /\ UNCHANGED <<table, req, toLoad, told, refused>>
      /\ pc \in {"unlink", "aside"}
  BY DEF CopyUnlink, Aside, Orderly, Goto, FilesInv, AddPhase
<1>2. /\ files' \in [Dirs -> [Names -> Files]]
      /\ FileOf("conf", b)' = NoFile
      /\ \A e \in Dirs, c \in Names : e # "conf" \/ c # b => FileOf(e, c)' = FileOf(e, c)
  BY <1>1, PutChanges DEF FilesInv, Dirs, Files
<1>3. \A c \in Names : FileOf("live", c)' = FileOf("live", c)
  BY <1>2 DEF Dirs
<1>4. /\ \A v : \A c \in Names : IsOf(c, v)' <=> IsOf(c, v)
      /\ \A v : HasLive(v)' <=> HasLive(v)
  BY <1>3, ConfKeepsLive
<1>5. FileTypes'
  BY <1>1, <1>2, KindsOfFiles DEF FilesInv, FileTypes, Readable
<1>6. req.ok => req.op = "add" /\ req.vf \in VfIds /\ HasLive(req.vf)
  BY <1>1 DEF FilesInv, AddPhase, HasLive, IsOf
<1>7. AddPhase' /\ DelPhase' /\ AnswerPhase' /\ BootPhase'
  BY <1>1, <1>4, <1>6 DEF AddPhase, DelPhase, AnswerPhase, BootPhase
<1>8. LiveIsTable'
  BY <1>1, <1>3, <1>4 DEF FilesInv, LiveIsTable, Readable
<1>9. OneLive' /\ DeletedIsGone' /\ AddedIsThere'
  BY <1>1, <1>4 DEF FilesInv, OneLive, DeletedIsGone, AddedIsThere
<1>10. QED
  BY <1>5, <1>7, <1>8, <1>9 DEF FilesInv

\* Requests that are turned down, and answers.
LEMMA NothingMoves ==
  ASSUME Orderly, FilesInv,
         \/ \E d \in Dirs, b \in Names : AddRejected(d, b) \/ DelUntouched(d, b)
         \/ Answer
  PROVE  FilesInv'
<1>1. UNCHANGED <<files, table, toLoad, refused>>
  BY DEF AddRejected, DelUntouched, Answer
<1>2. /\ \A e, c : FileOf(e, c)' = FileOf(e, c)
      /\ \A v : \A c \in Names : IsOf(c, v)' <=> IsOf(c, v)
      /\ \A v : HasLive(v)' <=> HasLive(v)
  BY <1>1, SameFiles, ConfKeepsLive
<1>3. CASE \E d \in Dirs, b \in Names : AddRejected(d, b) \/ DelUntouched(d, b)
  <2>1. /\ pc = "idle" /\ pc' \in {"aside", "answer"} /\ ~req'.ok /\ UNCHANGED told
        /\ pc' = "aside" => req'.dir = "conf" /\ req'.base \in Names
    BY <1>3 DEF AddRejected, DelUntouched, Goto, Orderly
  <2>2. FileTypes' /\ LiveIsTable'
    BY <1>1, <1>2, <2>1 DEF FilesInv, FileTypes, LiveIsTable, Readable
  <2>3. AddPhase' /\ DelPhase' /\ AnswerPhase' /\ BootPhase'
    BY <2>1 DEF AddPhase, DelPhase, AnswerPhase, BootPhase
  <2>4. OneLive' /\ DeletedIsGone' /\ AddedIsThere'
    BY <1>1, <1>2, <2>1 DEF FilesInv, OneLive, DeletedIsGone, AddedIsThere
  <2>5. QED
    BY <2>2, <2>3, <2>4 DEF FilesInv
<1>4. CASE Answer
  <2>1. /\ pc = "answer" /\ pc' = "idle" /\ UNCHANGED req
        /\ told' = IF ~req.ok THEN told
                   ELSE [told EXCEPT ![req.vf] = IF req.op = "add" THEN "added" ELSE "deleted"]
    BY <1>4 DEF Answer, Goto
  <2>2. FileTypes' /\ LiveIsTable'
    BY <1>1, <1>2, <2>1 DEF FilesInv, FileTypes, LiveIsTable, Readable
  <2>3. AddPhase' /\ DelPhase' /\ AnswerPhase' /\ BootPhase' /\ OneLive'
    BY <1>2, <2>1 DEF AddPhase, DelPhase, AnswerPhase, BootPhase, FilesInv, OneLive
  <2>4. CASE ~req.ok
    BY <1>1, <1>2, <2>1, <2>2, <2>3, <2>4 DEF FilesInv, DeletedIsGone, AddedIsThere
  <2>5. CASE req.ok
    <3>1. req.vf \in VfIds /\ (req.op = "add" => HasLive(req.vf)) /\ (req.op # "add" => table[req.vf] = NoOwner)
      BY <2>1, <2>5 DEF FilesInv, AnswerPhase
    <3>2. table[req.vf] = NoOwner => ~HasLive(req.vf)
      BY <2>1, <3>1, KindsOfFiles DEF FilesInv, LiveIsTable, HasLive, IsOf
    <3>3. DeletedIsGone' /\ AddedIsThere'
      BY <1>1, <1>2, <2>1, <2>5, <3>1, <3>2 DEF FilesInv, FileTypes, DeletedIsGone, AddedIsThere
    <3>4. QED
      BY <2>2, <2>3, <3>3 DEF FilesInv
  <2>6. QED
    BY <2>4, <2>5
<1>5. QED
  BY <1>3, <1>4

LEMMA DelFoundKeeps ==
  ASSUME Orderly, FilesInv, NEW d \in Dirs, NEW b \in Names, DelFound(d, b)
  PROVE  FilesInv'
<1> DEFINE f == FileOf("live", b)
<1>1. /\ pc = "idle" /\ pc' = "remove" /\ d = "live" /\ Readable(f)
      /\ UNCHANGED <<files, table, toLoad, refused>>
  BY DEF DelFound, Goto, Orderly
<1>2. f.vf \in VfIds /\ table[f.vf] = f.owner /\ f.owner \in Owners /\ IsOf(b, f.vf)
  BY <1>1, KindsOfFiles DEF FilesInv, LiveIsTable, IsOf
<1>3. /\ req' = [op |-> "del", dir |-> "live", base |-> b, vf |-> f.vf, ok |-> TRUE]
      /\ told' = [told EXCEPT ![f.vf] = "unknown"]
  BY <1>1, <1>2, KindsOfFiles DEF DelFound
<1>4. /\ \A e, c : FileOf(e, c)' = FileOf(e, c)
      /\ \A v : \A c \in Names : IsOf(c, v)' <=> IsOf(c, v)
      /\ \A v : HasLive(v)' <=> HasLive(v)
  BY <1>1, SameFiles, ConfKeepsLive
<1>5. FileTypes' /\ LiveIsTable'
  BY <1>1, <1>2, <1>3, <1>4 DEF FilesInv, FileTypes, LiveIsTable, Readable
<1>6. DelPhase'
  BY <1>1, <1>2, <1>3, <1>4 DEF DelPhase, FilesInv, FileTypes
<1>7. AddPhase' /\ AnswerPhase' /\ BootPhase' /\ OneLive'
  BY <1>1, <1>4 DEF AddPhase, AnswerPhase, BootPhase, FilesInv, OneLive
<1>8. DeletedIsGone' /\ AddedIsThere'
  BY <1>1, <1>2, <1>3, <1>4 DEF FilesInv, FileTypes, DeletedIsGone, AddedIsThere
<1>9. QED
  BY <1>5, <1>6, <1>7, <1>8 DEF FilesInv

LEMMA DelRemoveKeeps ==
  ASSUME Orderly, FilesInv, DelRemove
  PROVE  FilesInv'
<1> DEFINE b == req.base
           v == req.vf
<1>1. /\ pc = "remove" /\ req.op = "del" /\ req.ok /\ req.dir = "live"
      /\ b \in Names /\ v \in VfIds /\ told[v] = "unknown" /\ IsOf(b, v)
  BY DEF DelRemove, FilesInv, DelPhase
<1>2. pc' = "mark" /\ Put("live", b, NoFile) /\ UNCHANGED <<table, req, toLoad, told, refused>>
  BY <1>1 DEF DelRemove, Orderly, Goto
<1>3. /\ files' \in [Dirs -> [Names -> Files]]
      /\ FileOf("live", b)' = NoFile
      /\ \A e \in Dirs, c \in Names : e # "live" \/ c # b => FileOf(e, c)' = FileOf(e, c)
  BY <1>1, <1>2, PutChanges DEF FilesInv, Dirs, Files
<1>4. \A w : \A c \in Names : IsOf(c, w)' <=> IsOf(c, w) /\ c # b
  <2>1. ASSUME NEW w, NEW c \in Names, c = b
        PROVE  IsOf(c, w)' <=> IsOf(c, w) /\ c # b
    <3>1. FileOf("live", c)' = NoFile
      BY <1>2, <1>3, <2>1
    <3>2. ~Readable(FileOf("live", c))'
      BY <3>1, KindsOfFiles DEF Readable
    <3>3. QED
      BY <2>1, <3>2 DEF IsOf
  <2>2. ASSUME NEW w, NEW c \in Names, c # b
        PROVE  IsOf(c, w)' <=> IsOf(c, w) /\ c # b
    <3>1. FileOf("live", c)' = FileOf("live", c)
      BY <1>2, <1>3, <2>2 DEF Dirs
    <3>2. QED
      BY <2>2, <3>1 DEF IsOf, Readable
  <2>3. QED
    BY <2>1, <2>2
<1>5. \A w \in VfIds : HasLive(w)' <=> HasLive(w) /\ w # v
  <2>1. \A c \in Names : IsOf(c, v) => c = b
    BY <1>1 DEF FilesInv, OneLive
  <2>2. \A w : IsOf(b, w) => w = v
    BY <1>1 DEF IsOf
  <2>3. QED
    BY <1>4, <2>1, <2>2 DEF HasLive
<1>6. FileTypes'
  BY <1>2, <1>3, KindsOfFiles DEF FilesInv, FileTypes, Readable
<1>7. LiveIsTable'
  BY <1>1, <1>2, <1>3, <1>5 DEF FilesInv, LiveIsTable, Dirs, Readable
<1>8. AddPhase' /\ DelPhase' /\ AnswerPhase' /\ BootPhase' /\ OneLive'
  BY <1>1, <1>2, <1>4, <1>5 DEF AddPhase, DelPhase, AnswerPhase, BootPhase, FilesInv, OneLive
<1>9. DeletedIsGone' /\ AddedIsThere'
  BY <1>1, <1>2, <1>5 DEF FilesInv, DeletedIsGone, AddedIsThere
<1>10. QED
  BY <1>6, <1>7, <1>8, <1>9 DEF FilesInv

LEMMA DelMarkKeeps ==
  ASSUME FilesInv, DelMark
  PROVE  FilesInv'
<1> DEFINE v == req.vf
<1>1. /\ pc = "mark" /\ pc' = "answer" /\ req.op = "del" /\ req.ok
      /\ v \in VfIds /\ told[v] = "unknown" /\ ~HasLive(v)
      /\ table' = [table EXCEPT ![v] = NoOwner]
      /\ UNCHANGED <<files, req, toLoad, told, refused>>
  BY DEF DelMark, Goto, FilesInv, DelPhase
<1>2. /\ \A e, c : FileOf(e, c)' = FileOf(e, c)
      /\ \A w : \A c \in Names : IsOf(c, w)' <=> IsOf(c, w)
      /\ \A w : HasLive(w)' <=> HasLive(w)
  BY <1>1, SameFiles, ConfKeepsLive
<1>3. FileTypes'
  BY <1>1, <1>2 DEF FilesInv, FileTypes, Readable
<1>4. LiveIsTable'
  <2>1. \A c \in Names : Readable(FileOf("live", c)) => FileOf("live", c).vf # v
    BY <1>1 DEF HasLive, IsOf
  <2>2. QED
    BY <1>1, <1>2, <2>1, KindsOfFiles DEF FilesInv, LiveIsTable, FileTypes, Readable
<1>5. AddPhase' /\ DelPhase' /\ AnswerPhase' /\ BootPhase' /\ OneLive'
  BY <1>1, <1>2 DEF AddPhase, DelPhase, AnswerPhase, BootPhase, FilesInv, FileTypes, OneLive
<1>6. DeletedIsGone' /\ AddedIsThere'
  BY <1>1, <1>2 DEF FilesInv, FileTypes, DeletedIsGone, AddedIsThere
<1>7. QED
  BY <1>3, <1>4, <1>5, <1>6 DEF FilesInv

\* The table goes with a crash, the files stay; then the live directory is listed.
LEMMA CrashKeeps ==
  ASSUME FilesInv, Crash \/ Start
  PROVE  FilesInv'
<1>1. UNCHANGED <<files, req, told, refused>> /\ toLoad' \subseteq Names
  BY DEF Crash, Start
<1>2. /\ \A e, c : FileOf(e, c)' = FileOf(e, c)
      /\ \A v : \A c \in Names : IsOf(c, v)' <=> IsOf(c, v)
      /\ \A v : HasLive(v)' <=> HasLive(v)
  BY <1>1, SameFiles, ConfKeepsLive
<1>3. table' \in [VfIds -> Owners \cup {NoOwner}] /\ \A v \in VfIds : table'[v] = NoOwner
  BY DEF Crash, Start, FilesInv, FileTypes, BootPhase
<1>4. \/ pc' = "down"
      \/ pc' = "boot" /\ toLoad' = {b \in Names : FileOf("live", b) # NoFile}
  BY DEF Crash, Start, Goto
<1>5. FileTypes'
  BY <1>1, <1>2, <1>3, <1>4 DEF FilesInv, FileTypes, Readable
<1>6. BootPhase'
  BY <1>2, <1>3, <1>4 DEF BootPhase
<1>7. AddPhase' /\ DelPhase' /\ AnswerPhase' /\ LiveIsTable'
  BY <1>4 DEF AddPhase, DelPhase, AnswerPhase, LiveIsTable
<1>8. OneLive' /\ DeletedIsGone' /\ AddedIsThere'
  BY <1>1, <1>2, <1>3 DEF FilesInv, OneLive, DeletedIsGone, AddedIsThere
<1>9. QED
  BY <1>5, <1>6, <1>7, <1>8 DEF FilesInv

LEMMA BootFileKeeps ==
  ASSUME Orderly, FilesInv, NEW b \in Names, BootFile(b)
  PROVE  FilesInv'
<1> DEFINE f == FileOf("live", b)
<1>1. /\ pc = "boot" /\ b \in toLoad /\ toLoad' = toLoad \ {b}
      /\ UNCHANGED <<pc, req, told>>
  BY DEF BootFile
\* A readable file's VF is not managed yet: a file that was loaded before would be a
\* second one of the VF.
<1>2. Readable(f) => /\ f.vf \in VfIds /\ f.owner \in Owners /\ IsOf(b, f.vf)
                     /\ table[f.vf] = NoOwner
  <2> SUFFICES ASSUME Readable(f)
               PROVE  /\ f.vf \in VfIds /\ f.owner \in Owners /\ IsOf(b, f.vf)
                      /\ table[f.vf] = NoOwner
    OBVIOUS
  <2>1. f.vf \in VfIds /\ f.owner \in Owners /\ IsOf(b, f.vf)
    BY KindsOfFiles DEF IsOf
  <2>2. table[f.vf] = NoOwner
    BY <1>1, <2>1 DEF FilesInv, BootPhase, OneLive
  <2>3. QED
    BY <2>1, <2>2
<1>3. \/ /\ Readable(f) /\ table' = [table EXCEPT ![f.vf] = f.owner]
         /\ UNCHANGED <<files, refused>>
      \/ /\ Put("live", b, NoFile) /\ UNCHANGED table
         /\ refused' = IF Readable(f) THEN refused \cup {f.vf} ELSE refused
  BY <1>2 DEF BootFile, Orderly
<1>4. CASE Readable(f) /\ table' = [table EXCEPT ![f.vf] = f.owner] /\ UNCHANGED <<files, refused>>
  <2>1. /\ \A e, c : FileOf(e, c)' = FileOf(e, c)
        /\ \A v : \A c \in Names : IsOf(c, v)' <=> IsOf(c, v)
        /\ \A v : HasLive(v)' <=> HasLive(v)
    BY <1>4, SameFiles, ConfKeepsLive
  <2>2. FileTypes'
    BY <1>1, <1>2, <1>4, <2>1 DEF FilesInv, FileTypes, Readable
  <2>3. BootPhase'
    <3>1. \A c \in Names \ toLoad' : FileOf("live", c) # NoFile =>
            Readable(FileOf("live", c)) /\ table'[FileOf("live", c).vf] = FileOf("live", c).owner
      <4>1. ASSUME NEW c \in Names \ toLoad, FileOf("live", c) # NoFile
            PROVE  Readable(FileOf("live", c)) /\ table'[FileOf("live", c).vf] = FileOf("live", c).owner
        <5>1. Readable(FileOf("live", c)) /\ table[FileOf("live", c).vf] = FileOf("live", c).owner
          BY <1>1, <4>1 DEF FilesInv, BootPhase
        <5>2. FileOf("live", c).vf # f.vf
          BY <1>2, <1>4, <5>1, KindsOfFiles
        <5>3. QED
          BY <1>2, <1>4, <5>1, <5>2, KindsOfFiles DEF FilesInv, FileTypes
      <4>2. table'[f.vf] = f.owner
        BY <1>2, <1>4 DEF FilesInv, FileTypes
      <4>3. QED
        BY <1>1, <1>2, <1>4, <4>1, <4>2
    <3>2. \A v \in VfIds : table'[v] # NoOwner => \E c \in Names \ toLoad' : IsOf(c, v)
      BY <1>1, <1>2, <1>4 DEF FilesInv, FileTypes, BootPhase
    <3>3. QED
      BY <1>1, <2>1, <3>1, <3>2 DEF BootPhase, Readable
  <2>4. AddPhase' /\ DelPhase' /\ AnswerPhase' /\ LiveIsTable' /\ OneLive'
    BY <1>1, <2>1 DEF AddPhase, DelPhase, AnswerPhase, LiveIsTable, FilesInv, OneLive
  <2>5. DeletedIsGone' /\ AddedIsThere'
    BY <1>1, <1>2, <1>4, <2>1 DEF FilesInv, FileTypes, DeletedIsGone, AddedIsThere, HasLive
  <2>6. QED
    BY <2>2, <2>3, <2>4, <2>5 DEF FilesInv
<1>5. CASE /\ Put("live", b, NoFile) /\ UNCHANGED table
           /\ refused' = IF Readable(f) THEN refused \cup {f.vf} ELSE refused
  <2>1. /\ files' \in [Dirs -> [Names -> Files]]
        /\ FileOf("live", b)' = NoFile
        /\ \A e \in Dirs, c \in Names : e # "live" \/ c # b => FileOf(e, c)' = FileOf(e, c)
    BY <1>5, PutChanges DEF FilesInv, Dirs, Files
  <2>2. \A v : \A c \in Names : IsOf(c, v)' <=> IsOf(c, v) /\ c # b
    <3>1. ~Readable(FileOf("live", b))'
      BY <2>1, KindsOfFiles DEF Readable
    <3>2. \A c \in Names : c # b => FileOf("live", c)' = FileOf("live", c)
      BY <2>1 DEF Dirs
    <3>3. QED
      BY <3>1, <3>2 DEF IsOf, Readable
  <2>3. \A v : HasLive(v)' => HasLive(v)
    BY <2>2 DEF HasLive
  \* Only the VF of the file that goes loses one, and it is refused.
  <2>4. \A v \in VfIds : HasLive(v) /\ v \notin refused' => HasLive(v)'
    <3> SUFFICES ASSUME NEW v \in VfIds, HasLive(v), v \notin refused' PROVE HasLive(v)'
      OBVIOUS
    <3>1. PICK c \in Names : IsOf(c, v)
      BY DEF HasLive
    <3>2. c # b
      BY <1>5, <3>1 DEF IsOf
    <3>3. QED
      BY <2>2, <3>1, <3>2 DEF HasLive
  <2>5. FileTypes'
    BY <1>1, <1>5, <2>1, KindsOfFiles DEF FilesInv, FileTypes, Readable
  <2>6. BootPhase'
    <3>1. \A c \in Names \ toLoad' : FileOf("live", c)' # NoFile =>
            c \in Names \ toLoad /\ FileOf("live", c)' = FileOf("live", c)
      BY <1>1, <2>1 DEF Dirs
    <3>2. \A v \in VfIds : table'[v] # NoOwner => \E c \in Names \ toLoad' : IsOf(c, v)'
      BY <1>1, <1>5, <2>2 DEF FilesInv, BootPhase
    <3>3. QED
      BY <1>1, <1>5, <3>1, <3>2 DEF FilesInv, BootPhase, Readable
  <2>7. AddPhase' /\ DelPhase' /\ AnswerPhase' /\ LiveIsTable'
    BY <1>1 DEF AddPhase, DelPhase, AnswerPhase, LiveIsTable
  <2>8. OneLive'
    BY <2>2 DEF FilesInv, OneLive
  <2>9. DeletedIsGone' /\ AddedIsThere'
    <3>1. refused \subseteq refused'
      BY <1>5
    <3>2. QED
      BY <1>1, <1>5, <2>3, <2>4, <3>1 DEF FilesInv, DeletedIsGone, AddedIsThere
  <2>10. QED
    BY <2>5, <2>6, <2>7, <2>8, <2>9 DEF FilesInv
<1>6. QED
  BY <1>3, <1>4, <1>5

LEMMA BootDoneKeeps ==
  ASSUME FilesInv, BootDone
  PROVE  FilesInv'
<1>1. pc = "boot" /\ toLoad = {} /\ pc' = "idle" /\ UNCHANGED <<files, table, req, toLoad, told, refused>>
  BY DEF BootDone, Goto
<1>2. /\ \A e, c : FileOf(e, c)' = FileOf(e, c)
      /\ \A v : \A c \in Names : IsOf(c, v)' <=> IsOf(c, v)
      /\ \A v : HasLive(v)' <=> HasLive(v)
  BY <1>1, SameFiles, ConfKeepsLive
<1>3. LiveIsTable'
  BY <1>1, <1>2 DEF FilesInv, BootPhase, LiveIsTable, HasLive, Readable
<1>4. FileTypes'
  BY <1>1, <1>2 DEF FilesInv, FileTypes, Readable
<1>5. AddPhase' /\ DelPhase' /\ AnswerPhase' /\ BootPhase'
  BY <1>1 DEF AddPhase, DelPhase, AnswerPhase, BootPhase
<1>6. OneLive' /\ DeletedIsGone' /\ AddedIsThere'
  BY <1>1, <1>2 DEF FilesInv, OneLive, DeletedIsGone, AddedIsThere
<1>7. QED
  BY <1>3, <1>4, <1>5, <1>6 DEF FilesInv

LEMMA StutterKeeps ==
  ASSUME FilesInv, UNCHANGED fileVars
  PROVE  FilesInv'
BY DEF fileVars, FilesInv, FileTypes, OneLive, AddPhase, DelPhase, AnswerPhase, LiveIsTable, BootPhase,
       DeletedIsGone, AddedIsThere, HasLive, IsOf, FileOf, Readable

LEMMA FilesInvStep ==
  ASSUME Orderly, FilesInv, [FilesNext]_fileVars
  PROVE  FilesInv'
BY DropKeeps, AddAcceptedKeeps, CopyKeeps, SourceGoes, NothingMoves, DelFoundKeeps, DelRemoveKeeps,
   DelMarkKeeps, CrashKeeps, BootFileKeeps, BootDoneKeeps, StutterKeeps
DEF FilesNext

LEMMA FilesInvInit == FilesInit => FilesInv
<1> SUFFICES ASSUME FilesInit PROVE FilesInv
  OBVIOUS
<1>1. /\ \A d \in Dirs, b \in Names : FileOf(d, b) = NoFile
      /\ pc = "idle" /\ \A v \in VfIds : told[v] = "unknown" /\ table[v] = NoOwner
  BY DEF FilesInit, FileOf
<1>2. \A v : \A b \in Names : ~IsOf(b, v)
  BY <1>1, KindsOfFiles DEF IsOf, Dirs
<1>3. FileTypes
  BY <1>1, KindsOfFiles DEF FilesInit, FileTypes, Files
<1>4. QED
  BY <1>1, <1>2, <1>3
  DEF FilesInv, OneLive, AddPhase, DelPhase, AnswerPhase, LiveIsTable, BootPhase,
      DeletedIsGone, AddedIsThere, HasLive, Dirs

LEMMA FilesInvAlways ==
  ASSUME Orderly
  PROVE  FilesSpec => []FilesInv
<1>1. FilesInv /\ [FilesNext]_fileVars => FilesInv'
  BY FilesInvStep
<1>2. QED
  BY <1>1, FilesInvInit, PTL DEF FilesSpec

(***************************************************************************)
(* The theorems.                                                           *)
(***************************************************************************)

\* The file of a VF that was reported as added is whole and in the live directory at every
\* moment, also between the steps of cp_file for another VF, and should VFd die then, until
\* the vetting of vfd_add_vf refuses it at a restart.  RestartKeeps, below, says when it
\* does not.
THEOREM FilesAreKept ==
  ASSUME Orderly
  PROVE  FilesSpec => []NeverLost
<1>1. FilesInv => NeverLost
  BY DEF FilesInv, AddedIsThere, HasLive, IsOf, NeverLost
<1>2. QED
  BY <1>1, FilesInvAlways, PTL

\* What vfd_response said last of a VF is what a restarted VFd has of it, but for an added
\* VF whose file the vetting of vfd_add_vf has refused at a restart; a VF that was reported
\* as deleted is never taken up again.
THEOREM AnswersSurvive ==
  ASSUME Orderly
  PROVE  FilesSpec => []AnswerSurvives
<1>1. ASSUME FilesInv PROVE AnswerSurvives
  <2>1. ASSUME pc = "idle", NEW v \in VfIds, told[v] = "added", v \notin refused
        PROVE  table[v] # NoOwner
    <3>1. PICK b \in Names : IsOf(b, v)
      BY <1>1, <2>1 DEF FilesInv, AddedIsThere, HasLive
    <3>2. QED
      BY <1>1, <2>1, <3>1, KindsOfFiles DEF FilesInv, LiveIsTable, IsOf
  <2>2. QED
    BY <1>1, <2>1 DEF FilesInv, DeletedIsGone, AnswerSurvives
<1>2. QED
  BY <1>1, FilesInvAlways, PTL

\* Between requests the live directory holds one file of each managed VF, and nothing else:
\* vfd_add_all_vfs would build the same table from it.
THEOREM LiveIsWhatIsManaged ==
  ASSUME Orderly
  PROVE  FilesSpec => []LiveMatchesTable
<1>1. ASSUME FilesInv PROVE LiveMatchesTable
  <2>1. ASSUME pc = "idle", NEW v \in VfIds, table[v] # NoOwner
        PROVE  Cardinality({b \in Names : Readable(FileOf("live", b)) /\ FileOf("live", b).vf = v}) = 1
    <3>1. PICK b \in Names : IsOf(b, v)
      BY <1>1, <2>1 DEF FilesInv, LiveIsTable, HasLive
    <3>2. {c \in Names : Readable(FileOf("live", c)) /\ FileOf("live", c).vf = v} = {b}
      BY <1>1, <3>1 DEF FilesInv, OneLive, IsOf
    <3>3. QED
      BY <3>2, FS_Singleton
  <2>2. pc = "idle" => \A b \in Names : FileOf("live", b) # NoFile =>
          Readable(FileOf("live", b)) /\ table[FileOf("live", b).vf] = FileOf("live", b).owner
    BY <1>1 DEF FilesInv, LiveIsTable
  <2>3. QED
    BY <2>1, <2>2 DEF LiveMatchesTable
<1>2. QED
  BY <1>1, FilesInvAlways, PTL

-----------------------------------------------------------------------------
(***************************************************************************)
(* Quotients.                                                              *)
(***************************************************************************)

LEMMA Product ==
  ASSUME NEW a \in Nat, NEW b \in Nat, a <= b, NEW d \in Nat
  PROVE  a * d <= b * d
<1>1. PICK e \in Nat : b = a + e
  <2>1. b - a \in Nat /\ b = a + (b - a)
    OBVIOUS
  <2>2. QED
    BY <2>1
<1>2. (a + e) * d = a * d + e * d /\ e * d \in Nat /\ a * d \in Nat
  OBVIOUS
<1>3. QED
  BY <1>1, <1>2

\* The quotient of two numbers, and what it is bounded by.
LEMMA Quotient ==
  ASSUME NEW c \in Nat, NEW d \in Nat \ {0}
  PROVE  /\ c \div d \in Nat
         /\ (c \div d) * d <= c
         /\ c < (c \div d) * d + d
         /\ c < (c \div d + 1) * d
OBVIOUS

LEMMA QuotientAtLeast ==
  ASSUME NEW c \in Nat, NEW d \in Nat \ {0}, NEW k \in Nat
  PROVE  k <= c \div d <=> k * d <= c
<1> DEFINE q == c \div d
<1>1. q \in Nat /\ q * d <= c /\ c < (q + 1) * d
  BY Quotient
<1> HIDE DEF q
<1>2. k * d \in Nat /\ q * d \in Nat /\ (q + 1) * d \in Nat
  BY <1>1
<1>3. ASSUME k <= q PROVE k * d <= c
  BY <1>1, <1>2, <1>3, Product
<1>4. ASSUME k * d <= c PROVE k <= q
  <2>1. CASE q + 1 <= k
    <3>1. (q + 1) * d <= k * d
      BY <1>1, <2>1, Product
    <3>2. QED
      BY <1>1, <1>2, <1>4, <3>1
  <2>2. QED
    BY <1>1, <2>1
<1>5. QED
  BY <1>3, <1>4 DEF q

LEMMA QuotientMonotone ==
  ASSUME NEW a \in Nat, NEW b \in Nat \ {0}, NEW c \in Nat, NEW d \in Nat \ {0},
         a <= c, d <= b
  PROVE  a \div b <= c \div d
<1> DEFINE q == a \div b
<1>1. q \in Nat /\ q * b <= a
  BY Quotient
<1> HIDE DEF q
<1>2. d * q <= b * q
  BY <1>1, Product
<1>3. q * d = d * q /\ q * b = b * q /\ q * d \in Nat /\ q * b \in Nat
  BY <1>1
<1>4. q * d <= c
  BY <1>1, <1>2, <1>3
<1>5. q <= c \div d
  BY <1>1, <1>4, QuotientAtLeast
<1>6. QED
  BY <1>5 DEF q

(***************************************************************************)
(* The table and the files whose VFs are in it.                            *)
(***************************************************************************)

Slots == [num : Numbers \cup {NoVf}, cfg : Configs]

Owned(tb) == {tb[j].cfg : j \in Active(tb)}

TableFits(tb) ==
  /\ tb \in Seq(Slots)
  /\ \A j \in Active(tb) : tb[j].num = tb[j].cfg.vfid
  /\ \A i, j \in Active(tb) : tb[i].num = tb[j].num => i = j

LEMMA ActiveSlots ==
  ASSUME NEW tb, TableFits(tb)
  PROVE  /\ Active(tb) \in SUBSET (1 .. Len(tb)) /\ Len(tb) \in Nat
         /\ Active(tb) \in SUBSET Int
         /\ IsFiniteSet(Active(tb))
         /\ \A j \in Active(tb) : tb[j].num \in Numbers /\ tb[j].cfg \in Configs
         /\ \A i, j \in Active(tb) : tb[i].cfg = tb[j].cfg => i = j
<1>1. tb \in Seq(Slots) /\ DOMAIN tb = 1 .. Len(tb) /\ Len(tb) \in Nat
  BY DEF TableFits
<1>2. Active(tb) \in SUBSET (1 .. Len(tb))
  BY <1>1 DEF Active
<1>3. IsFiniteSet(Active(tb))
  <2>1. IsFiniteSet(1 .. Len(tb))
    BY <1>1, FS_Interval
  <2>2. QED
    BY <1>2, <2>1, FS_Subset
<1>4. ASSUME NEW j \in Active(tb) PROVE tb[j].num \in Numbers /\ tb[j].cfg \in Configs
  <2>1. tb[j] \in Slots /\ tb[j].num >= 0
    BY <1>1, <1>2 DEF Active
  <2>2. QED
    BY <2>1 DEF Slots, NoVf
<1>5. \A i, j \in Active(tb) : tb[i].cfg = tb[j].cfg => i = j
  BY DEF TableFits
<1>6. QED
  BY <1>1, <1>2, <1>3, <1>4, <1>5

LEMMA OwnedFiles ==
  ASSUME NEW tb, TableFits(tb)
  PROVE  /\ Owned(tb) \in SUBSET Configs
         /\ IsFiniteSet(Owned(tb))
         /\ \A c, d \in Owned(tb) : c.vfid = d.vfid => c = d
<1>1. Owned(tb) \in SUBSET Configs
  BY ActiveSlots DEF Owned
<1>2. IsFiniteSet(Owned(tb))
  <2> DEFINE m == [j \in Active(tb) |-> tb[j].cfg]
  <2>1. m \in Surjection(Active(tb), Owned(tb))
    BY DEF Surjection, Owned
  <2>2. QED
    BY <2>1, ActiveSlots, FS_Surjection
<1>3. \A c, d \in Owned(tb) : c.vfid = d.vfid => c = d
  BY DEF Owned, TableFits
<1>4. QED
  BY <1>1, <1>2, <1>3

\* What the loops over the table add up is a sum over the files.
LEMMA TotalOfFiles ==
  ASSUME NEW tb, TableFits(tb), NEW amount, \A c \in Configs : amount[c] \in Int
  PROVE  Total(tb, amount) = SumFunctionOnSet(amount, Owned(tb))
<1> DEFINE S == Active(tb)
           m == [j \in S |-> tb[j].cfg]
           f == [j \in S |-> amount[tb[j].cfg]]
<1>1. IsFiniteSet(S) /\ \A x, y \in S : m[x] = m[y] => x = y
  BY ActiveSlots
<1>2. \A x \in S : f[x] \in Int /\ amount[m[x]] = f[x]
  BY ActiveSlots
<1>3. {m[x] : x \in S} = Owned(tb)
  BY DEF Owned
<1>4. Total(tb, amount) = SumFunctionOnSet(f, S)
  BY DEF Total
<1> HIDE DEF S, m, f
<1>5. SumFunctionOnSet(f, S) = SumFunctionOnSet(amount, {m[x] : x \in S})
  BY <1>1, <1>2, SumThrough
<1>6. QED
  BY <1>3, <1>4, <1>5

\* The slot of a new VF: a hole or the one behind the last.
LEMMA FreeSlot ==
  ASSUME NEW tb, TableFits(tb)
  PROVE  /\ SlotFor(tb) \in 1 .. Len(tb) + 1
         /\ SlotFor(tb) \notin Active(tb)
<1> DEFINE holes == DOMAIN tb \ Active(tb)
<1>1. DOMAIN tb = 1 .. Len(tb) /\ Len(tb) \in Nat
  BY DEF TableFits
<1>2. CASE holes # {}
  <2>1. holes \in SUBSET Int /\ IsFiniteSet(holes)
    <3>1. IsFiniteSet(1 .. Len(tb))
      BY <1>1, FS_Interval
    <3>2. holes \in SUBSET (1 .. Len(tb))
      BY <1>1
    <3>3. QED
      BY <3>1, <3>2, FS_Subset
  <2>2. Min(holes) \in holes
    <3> HIDE DEF holes
    <3>1. QED
      BY <1>2, <2>1, Extremes
  <2>3. SlotFor(tb) = Min(holes)
    BY <1>2 DEF SlotFor
  <2>4. QED
    BY <1>1, <2>2, <2>3
<1>3. CASE holes = {}
  <2>1. SlotFor(tb) = Len(tb) + 1
    BY <1>3 DEF SlotFor
  <2>2. QED
    BY <1>1, <2>1, ActiveSlots
<1>4. QED
  BY <1>2, <1>3

\* A file that is added joins the files of the table.
LEMMA TableAfterAdd ==
  ASSUME NEW tb, TableFits(tb), NEW c \in Configs, InRange(c), NotDefined(tb, c)
  PROVE  /\ TableFits(Added(tb, c))
         /\ Owned(Added(tb, c)) = Owned(tb) \cup {c}
<1> DEFINE slot == [num |-> c.vfid, cfg |-> c]
           s == SlotFor(tb)
           new == Added(tb, c)
<1>1. s \in 1 .. Len(tb) + 1 /\ s \notin Active(tb) /\ s \in Nat
  BY FreeSlot, ActiveSlots
<1>2. slot \in Slots /\ c.vfid \in Numbers /\ c.vfid >= 0
  BY DEF Slots, InRange, Numbers
<1>3. tb \in Seq(Slots) /\ DOMAIN tb = 1 .. Len(tb) /\ Len(tb) \in Nat
  BY DEF TableFits
<1> HIDE DEF slot, s
<1>4. /\ new \in Seq(Slots)
      /\ DOMAIN new = DOMAIN tb \cup {s}
      /\ new[s] = slot
      /\ \A j \in DOMAIN tb : j # s => new[j] = tb[j]
  <2>1. CASE s > Len(tb)
    <3>1. new = Append(tb, slot) /\ s = Len(tb) + 1
      BY <1>1, <1>3, <2>1 DEF Added, slot, s
    <3>2. QED
      BY <1>2, <1>3, <3>1
  <2>2. CASE ~(s > Len(tb))
    <3>1. new = [tb EXCEPT ![s] = slot] /\ s \in 1 .. Len(tb)
      BY <1>1, <1>3, <2>2 DEF Added, slot, s
    <3>2. QED
      BY <1>2, <1>3, <3>1
  <2>3. QED
    BY <2>1, <2>2
<1>5. slot.num = c.vfid /\ slot.cfg = c
  BY DEF slot
<1>6. Active(new) = Active(tb) \cup {s}
  BY <1>1, <1>2, <1>4, <1>5 DEF Active
<1> HIDE DEF new
<1>7. \A j \in Active(tb) : j \in DOMAIN tb /\ j # s /\ new[j] = tb[j]
  BY <1>1, <1>4 DEF Active
<1>8. TableFits(new)
  <2>1. \A j \in Active(new) : new[j].num = new[j].cfg.vfid
    BY <1>4, <1>5, <1>6, <1>7 DEF TableFits
  <2>2. \A i, j \in Active(new) : new[i].num = new[j].num => i = j
    BY <1>4, <1>5, <1>6, <1>7 DEF TableFits, NotDefined
  <2>3. QED
    BY <1>4, <2>1, <2>2 DEF TableFits
<1>9. Owned(new) = Owned(tb) \cup {c}
  BY <1>4, <1>5, <1>6, <1>7 DEF Owned
<1>10. QED
  BY <1>8, <1>9 DEF new

\* The slot of a VF that is deleted becomes a hole.
LEMMA TableAfterDelete ==
  ASSUME NEW tb, TableFits(tb), NEW j \in Active(tb)
  PROVE  /\ TableFits([tb EXCEPT ![j].num = NoVf])
         /\ Owned([tb EXCEPT ![j].num = NoVf]) = Owned(tb) \ {tb[j].cfg}
<1> DEFINE new == [tb EXCEPT ![j].num = NoVf]
<1>1. tb \in Seq(Slots) /\ DOMAIN tb = 1 .. Len(tb) /\ j \in DOMAIN tb /\ tb[j] \in Slots
  BY DEF TableFits, Active
<1>2. /\ new \in Seq(Slots) /\ DOMAIN new = DOMAIN tb
      /\ new[j].num = NoVf /\ \A i \in DOMAIN tb : i # j => new[i] = tb[i]
  <2>1. [tb[j] EXCEPT !.num = NoVf] \in Slots
    BY <1>1 DEF Slots
  <2>2. QED
    BY <1>1, <2>1 DEF Slots
<1> HIDE DEF new
<1>3. Active(new) = Active(tb) \ {j}
  BY <1>1, <1>2 DEF Active, NoVf
<1>4. \A i \in Active(new) : i \in Active(tb) /\ i # j /\ new[i] = tb[i]
  BY <1>2, <1>3 DEF Active
<1>5. TableFits(new)
  BY <1>2, <1>4 DEF TableFits
<1>6. Owned(new) = Owned(tb) \ {tb[j].cfg}
  <2>1. \A i \in Active(tb) : tb[i].cfg = tb[j].cfg => i = j
    BY ActiveSlots
  <2>2. QED
    BY <1>3, <1>4, <2>1 DEF Owned
<1>7. QED
  BY <1>5, <1>6 DEF new

LEMMA EmptyTable == TableFits(<< >>) /\ Active(<< >>) = {} /\ Owned(<< >>) = {}
<1>1. << >> \in Seq(Slots) /\ DOMAIN << >> = {}
  OBVIOUS
<1>2. Active(<< >>) = {}
  BY <1>1 DEF Active
<1>3. QED
  BY <1>1, <1>2 DEF TableFits, Owned

(***************************************************************************)
(* Which sets of files a PF takes, in whatever order.                      *)
(***************************************************************************)

VlansOf == [c \in Configs |-> Len(c.vlans)]
ShareOf(t) == [c \in Configs |-> QShare(c, t)]

\* No share is more than ten times another one of its class, as the code divides.
EvenShares(L) ==
  \A t \in Tcs : \A c, d \in L :
    QShare(c, t) > 0 /\ QShare(d, t) > 0 => QShare(c, t) \div QShare(d, t) <= 10

Fits(L, oversub) ==
  /\ L \in SUBSET Configs /\ IsFiniteSet(L)
  /\ \A c, d \in L : c.vfid = d.vfid => c = d
  /\ \A c \in L : /\ InRange(c) /\ VlansValid(c) /\ CallbacksClean(c) /\ MirrorFits(c)
                  /\ Len(c.vlans) \in 1 .. MaxVlans
  /\ SumFunctionOnSet(VlansOf, L) <= MaxVlans
  /\ oversub \/ \A t \in Tcs : SumFunctionOnSet(ShareOf(t), L) <= 100
  /\ EvenShares(L)

LEMMA ShareRange ==
  ASSUME NEW c \in Configs, NEW t
  PROVE  QShare(c, t) \in 0 .. 255
<1>1. CASE t \in DOMAIN c.queues /\ c.queues[t] > 0
  <2>1. c.queues[t] \in Int
    BY <1>1, ConfigTypes
  <2>2. \A n \in Int : n % 256 \in 0 .. 255
    OBVIOUS
  <2>3. QED
    BY <1>1, <2>1, <2>2 DEF QShare
<1>2. CASE ~(t \in DOMAIN c.queues /\ c.queues[t] > 0)
  BY <1>2 DEF QShare
<1>3. QED
  BY <1>1, <1>2

LEMMA Amounts ==
  /\ \A c \in Configs : VlansOf[c] \in Nat
  /\ \A t : \A c \in Configs : ShareOf(t)[c] \in Nat
<1>1. ASSUME NEW c \in Configs PROVE VlansOf[c] \in Nat
  BY ConfigTypes DEF VlansOf
<1>2. ASSUME NEW t, NEW c \in Configs PROVE ShareOf(t)[c] \in Nat
  BY ShareRange DEF ShareOf
<1>3. QED
  BY <1>1, <1>2

LEMMA BytesFinite ==
  ASSUME NEW S \in SUBSET (0 .. 255)
  PROVE  IsFiniteSet(S)
<1>1. PICK n \in Nat : n = 255
  OBVIOUS
<1>2. S \in SUBSET Nat /\ \A s \in S : s <= n
  BY <1>1
<1>3. QED
  BY <1>2, FS_BoundedSetOfNaturals

\* check_qs_spread looks at the smallest and the largest share: that bounds every
\* quotient the new share takes part in.
LEMMA SpreadOfAll ==
  ASSUME NEW theirs \in SUBSET (0 .. 255), NEW mine \in 0 .. 255, mine # 0
  PROVE  Max({mine} \cup theirs) \div Min({mine} \cup (theirs \ {0})) <= 10 <=>
           \A x \in {mine} \cup theirs, y \in {mine} \cup (theirs \ {0}) : x \div y <= 10
<1> DEFINE X == {mine} \cup theirs
           Y == {mine} \cup (theirs \ {0})
           hi == Max(X)
           low == Min(Y)
<1>1. /\ X \in SUBSET (0 .. 255) /\ X \in SUBSET Int /\ IsFiniteSet(X) /\ X # {}
      /\ Y \in SUBSET (0 .. 255) /\ Y \in SUBSET Int /\ IsFiniteSet(Y) /\ Y # {}
  <2>1. X \in SUBSET (0 .. 255) /\ Y \in SUBSET (0 .. 255)
    OBVIOUS
  <2>2. X # {} /\ Y # {}
    OBVIOUS
  <2> HIDE DEF X, Y
  <2>3. IsFiniteSet(X) /\ IsFiniteSet(Y)
    BY <2>1, BytesFinite
  <2>4. X \in SUBSET Int /\ Y \in SUBSET Int
    BY <2>1
  <2>5. QED
    BY <2>1, <2>2, <2>3, <2>4
<1>2. \A x \in X : x \in Nat
  BY <1>1
<1>3. \A y \in Y : y \in Nat \ {0}
  OBVIOUS
<1> HIDE DEF X, Y
<1>4. hi \in X /\ low \in Y /\ (\A x \in X : x <= hi) /\ (\A y \in Y : low <= y)
  BY <1>1, Extremes
<1> HIDE DEF hi, low
<1>5. ASSUME hi \div low <= 10, NEW x \in X, NEW y \in Y PROVE x \div y <= 10
  <2>1. x \div y <= hi \div low
    BY <1>2, <1>3, <1>4, QuotientMonotone
  <2>2. x \div y \in Nat /\ hi \div low \in Nat
    BY <1>2, <1>3, <1>4, Quotient
  <2>3. QED
    BY <1>5, <2>1, <2>2
<1>6. hi \div low <= 10 <=> \A x \in X, y \in Y : x \div y <= 10
  BY <1>4, <1>5
<1>7. QED
  BY <1>6 DEF hi, low, X, Y

LEMMA SpreadOfFiles ==
  ASSUME NEW tb, TableFits(tb), NEW c \in Configs
  PROVE  SpreadFits(tb, c) <=>
           \A t \in Tcs : QShare(c, t) # 0 =>
             \A d, e \in Owned(tb) \cup {c} :
               QShare(e, t) # 0 => QShare(d, t) \div QShare(e, t) <= 10
<1> DEFINE theirs(t) == {QShare(tb[j].cfg, t) : j \in Active(tb)}
           X(t) == {QShare(c, t)} \cup theirs(t)
           Y(t) == {QShare(c, t)} \cup (theirs(t) \ {0})
           Checked(t) == Max(X(t)) \div Min(Y(t)) <= 10
           Meant(t) == \A d, e \in Owned(tb) \cup {c} :
                         QShare(e, t) # 0 => QShare(d, t) \div QShare(e, t) <= 10
<1>1. ASSUME NEW t \in Tcs, QShare(c, t) # 0 PROVE Checked(t) <=> Meant(t)
  <2>1. theirs(t) = {QShare(d, t) : d \in Owned(tb)}
    BY DEF Owned
  <2>2. QShare(c, t) \in 0 .. 255 /\ theirs(t) \in SUBSET (0 .. 255)
    BY <2>1, ShareRange, OwnedFiles
  <2>3. Checked(t) <=> \A x \in X(t), y \in Y(t) : x \div y <= 10
    <3>1. PICK S \in SUBSET (0 .. 255), m \in 0 .. 255 : S = theirs(t) /\ m = QShare(c, t)
      BY <2>2
    <3>2. Max({m} \cup S) \div Min({m} \cup (S \ {0})) <= 10 <=>
            \A x \in {m} \cup S, y \in {m} \cup (S \ {0}) : x \div y <= 10
      <4>1. m # 0
        BY <1>1, <3>1
      <4>2. QED
        BY <4>1, SpreadOfAll
    <3>3. X(t) = {m} \cup S /\ Y(t) = {m} \cup (S \ {0})
      BY <3>1
    <3> HIDE DEF X, Y
    <3>4. QED
      BY <3>2, <3>3
  <2>4. X(t) = {QShare(d, t) : d \in Owned(tb) \cup {c}}
    BY <2>1
  <2>5. Y(t) = {QShare(d, t) : d \in {e \in Owned(tb) \cup {c} : QShare(e, t) # 0}}
    BY <1>1, <2>1
  <2> HIDE DEF X, Y, Checked
  <2>6. QED
    BY <2>3, <2>4, <2>5
<1>2. ASSUME NEW t \in Tcs, QShare(c, t) # 0
      PROVE  Min(Y(t)) # 0
  <2>1. QShare(c, t) \in 0 .. 255 /\ \A j \in Active(tb) : QShare(tb[j].cfg, t) \in 0 .. 255
    BY ShareRange, ActiveSlots
  <2>2. Y(t) \in SUBSET (1 .. 255) /\ Y(t) # {}
    BY <1>2, <2>1
  <2> HIDE DEF Y
  <2>3. Y(t) \in SUBSET (0 .. 255)
    BY <2>2
  <2>4. IsFiniteSet(Y(t)) /\ Y(t) \in SUBSET Int
    BY <2>3, BytesFinite
  <2>5. Min(Y(t)) \in Y(t)
    BY <2>2, <2>4, Extremes
  <2>6. QED
    BY <2>2, <2>5
<1>3. SpreadFits(tb, c) <=> \A t \in Tcs : QShare(c, t) # 0 => Checked(t)
  <2>1. SpreadFits(tb, c) <=>
          \A t \in Tcs : (IF QShare(c, t) = 0 THEN 0 ELSE Min(Y(t))) # 0 =>
             Max(X(t)) \div (IF QShare(c, t) = 0 THEN 0 ELSE Min(Y(t))) <= 10
    BY DEF SpreadFits
  <2> HIDE DEF X, Y
  <2>2. QED
    BY <1>2, <2>1 DEF Checked
<1> HIDE DEF Checked, Meant
<1>4. SpreadFits(tb, c) <=> \A t \in Tcs : QShare(c, t) # 0 => Meant(t)
  BY <1>1, <1>3
<1>5. QED
  BY <1>4 DEF Meant

\* A file that passes the vetting fits to those that have passed it.
LEMMA AcceptedFits ==
  ASSUME NEW tb, TableFits(tb), Fits(Owned(tb), port.oversub), port.oversub \in BOOLEAN,
         NEW c \in Configs, Admissible(tb, c)
  PROVE  Fits(Owned(tb) \cup {c}, port.oversub)
<1> DEFINE O == Owned(tb)
           L == O \cup {c}
<1>1. O \in SUBSET Configs /\ IsFiniteSet(O) /\ \A d \in O : d.vfid # c.vfid
  BY OwnedFiles DEF Admissible, NotDefined, Owned, TableFits
<1>2. L \in SUBSET Configs /\ IsFiniteSet(L) /\ c \notin O
  BY <1>1, FS_AddElement
<1> HIDE DEF O
<1>3. \A d, e \in L : d.vfid = e.vfid => d = e
  BY <1>1 DEF Fits, O
<1>4. \A d \in L : /\ InRange(d) /\ VlansValid(d) /\ CallbacksClean(d) /\ MirrorFits(d)
                   /\ Len(d.vlans) \in 1 .. MaxVlans
  BY DEF Fits, O, Admissible, VlansFit
<1>5. ASSUME NEW f, \A d \in Configs : f[d] \in Int
      PROVE  SumFunctionOnSet(f, L) = Total(tb, f) + f[c]
  <2>1. Total(tb, f) = SumFunctionOnSet(f, O)
    BY <1>5, TotalOfFiles DEF O
  <2>2. SumFunctionOnSet(f, L) = f[c] + SumFunctionOnSet(f, O)
    BY <1>1, <1>2, <1>5, SumIn
  <2>3. SumFunctionOnSet(f, O) \in Int
    BY <1>1, <1>5, SumInt
  <2>4. QED
    BY <1>5, <2>1, <2>2, <2>3
<1>7. SumFunctionOnSet(VlansOf, L) <= MaxVlans
  <2>1. SumFunctionOnSet(VlansOf, L) = Total(tb, VlansOf) + VlansOf[c]
    BY <1>5, Amounts
  <2>2. Total(tb, VlansOf) + VlansOf[c] <= MaxVlans
    BY DEF Admissible, VlansFit, VlansOf
  <2>3. QED
    BY <2>1, <2>2
<1>8. ASSUME ~port.oversub, NEW t \in Tcs PROVE SumFunctionOnSet(ShareOf(t), L) <= 100
  <2>1. SumFunctionOnSet(ShareOf(t), L) = Total(tb, ShareOf(t)) + ShareOf(t)[c]
    <3>1. \A d \in Configs : ShareOf(t)[d] \in Int
      BY Amounts
    <3> HIDE DEF L
    <3>2. QED
      BY <1>5, <3>1
  <2>2. Demand(tb, t) + QShare(c, t) <= 100
    BY <1>8 DEF Admissible, SharesFit
  <2>3. Demand(tb, t) = Total(tb, ShareOf(t)) /\ QShare(c, t) = ShareOf(t)[c]
    BY DEF Demand, ShareOf
  <2>4. QED
    BY <2>1, <2>2, <2>3
<1>9. EvenShares(L)
  <2> SUFFICES ASSUME NEW t \in Tcs, NEW d \in L, NEW e \in L,
                      QShare(d, t) > 0, QShare(e, t) > 0
               PROVE  QShare(d, t) \div QShare(e, t) <= 10
    BY DEF EvenShares
  <2>1. SpreadFits(tb, c)
    BY DEF Admissible
  <2>2. CASE QShare(c, t) # 0
    BY <2>1, <2>2, SpreadOfFiles DEF O
  <2>3. CASE QShare(c, t) = 0
    <3>1. d \in O /\ e \in O
      BY <2>3
    <3>2. QED
      BY <3>1 DEF Fits, EvenShares, O
  <2>4. QED
    BY <2>2, <2>3
<1>10. Fits(L, port.oversub)
  <2> HIDE DEF L
  <2>1. port.oversub \/ \A t \in Tcs : SumFunctionOnSet(ShareOf(t), L) <= 100
    BY <1>8
  <2>2. QED
    BY <1>2, <1>3, <1>4, <1>7, <1>9, <2>1 DEF Fits
<1>11. QED
  BY <1>10 DEF O

\* A part of files that fit fits.
LEMMA PartFits ==
  ASSUME NEW L, NEW oversub \in BOOLEAN, Fits(L, oversub), NEW M \in SUBSET L
  PROVE  Fits(M, oversub)
<1>1. M \in SUBSET Configs /\ L \in SUBSET Configs /\ IsFiniteSet(L) /\ IsFiniteSet(M)
  BY FS_Subset DEF Fits
<1>2. ASSUME NEW f, \A c \in Configs : f[c] \in Nat, NEW n \in Int,
             SumFunctionOnSet(f, L) <= n
      PROVE  SumFunctionOnSet(f, M) <= n
  <2>1. SumFunctionOnSet(f, M) <= SumFunctionOnSet(f, L)
    BY <1>1, <1>2, SumLeq
  <2>2. SumFunctionOnSet(f, M) \in Int /\ SumFunctionOnSet(f, L) \in Int
    BY <1>1, <1>2, SumInt
  <2>3. QED
    BY <1>2, <2>1, <2>2
<1>4. SumFunctionOnSet(VlansOf, M) <= MaxVlans
  BY <1>2, Amounts, AdmAssumption DEF Fits
<1>5. oversub \/ \A t \in Tcs : SumFunctionOnSet(ShareOf(t), M) <= 100
  BY <1>2, Amounts DEF Fits
<1>6. EvenShares(M)
  BY DEF Fits, EvenShares
<1>7. QED
  BY <1>1, <1>4, <1>5, <1>6 DEF Fits

\* Rounding adds at most half of the eight units between two floats below 1.0, and what
\* is at most eight units above 1.0 is rounded to it.
LEMMA RoundedUp ==
  ASSUME NEW x \in Nat, x <= One + 8
  PROVE  /\ Rounded(x) \in Nat
         /\ Rounded(x) <= x + 4
         /\ Rounded(x) <= One
<1> DEFINE units == {u \in {1, 2, 4, 8, 16, 32, 64} : -u * Mantissas < x /\ x < u * Mantissas}
           unit == Min(units)
           low == x \div unit
           up == 2 * (x % unit) > unit \/ (2 * (x % unit) = unit /\ low % 2 = 1)
<1>1. units \in SUBSET Int /\ IsFiniteSet(units)
  <2>1. units \in SUBSET (0 .. 64)
    OBVIOUS
  <2> HIDE DEF units
  <2>2. QED
    BY <2>1, NumbersUpTo
<1>2. /\ 16 \in units
      /\ x < One => 8 \in units
      /\ \A u \in units : u \in {1, 2, 4, 8, 16, 32, 64} /\ x < u * Mantissas
  BY DEF One, Mantissas
<1> HIDE DEF units
<1>3. unit \in units /\ \A u \in units : unit <= u
  BY <1>1, <1>2, Extremes
<1>4. Rounded(x) = unit * (IF up THEN low + 1 ELSE low)
  BY DEF Rounded, units
<1> HIDE DEF unit
<1>5. unit \in {1, 2, 4, 8, 16} /\ (x < One => unit \in {1, 2, 4, 8})
  BY <1>2, <1>3
<1>6. CASE unit = 1
  BY <1>2, <1>3, <1>4, <1>6 DEF One, Mantissas
<1>7. CASE unit = 2
  BY <1>2, <1>3, <1>4, <1>7 DEF One, Mantissas
<1>8. CASE unit = 4
  BY <1>2, <1>3, <1>4, <1>8 DEF One, Mantissas
<1>9. CASE unit = 8
  BY <1>2, <1>3, <1>4, <1>9 DEF One, Mantissas
<1>10. CASE unit = 16
  BY <1>2, <1>3, <1>4, <1>5, <1>10 DEF One, Mantissas
<1>11. QED
  BY <1>5, <1>6, <1>7, <1>8, <1>9, <1>10

\* What slot k makes of the sum of the slots before it.
RateStep(tb, k, before) ==
  IF tb[k].num < 0 THEN before ELSE Rounded(before + tb[k].cfg.minRate)

\* tot holds the sums of the first slots, up to slot m.
TotalsUpTo(tot, tb, m) ==
  /\ tot = [k \in 0 .. Len(tb) |-> tot[k]]
  /\ \A k \in 0 .. Len(tb) :
       k <= m => tot[k] = IF k = 0 THEN 0 ELSE RateStep(tb, k, tot[k - 1])

\* The recursion of the sum of the rates has a solution, which is the sum.
LEMMA TotalsExist ==
  ASSUME NEW tb, Len(tb) \in Nat
  PROVE  \E tot : TotalsUpTo(tot, tb, Len(tb)) /\ RateTotal(tb) = tot[Len(tb)]
<1> DEFINE n == Len(tb)
           P == {m \in 0 .. n : \E tot : TotalsUpTo(tot, tb, m)}
<1>1. 0 \in P
  <2> DEFINE zero == [k \in 0 .. n |-> 0]
  <2>1. zero = [k \in 0 .. n |-> zero[k]] /\ \A k \in 0 .. n : k <= 0 => k = 0
    OBVIOUS
  <2>2. \A k \in 0 .. n : zero[k] = 0
    OBVIOUS
  <2> HIDE DEF zero
  <2>3. TotalsUpTo(zero, tb, 0)
    BY <2>1, <2>2 DEF TotalsUpTo
  <2>4. QED
    BY <2>3
<1>2. ASSUME NEW m \in 1 .. n, m - 1 \in P PROVE m \in P
  <2>1. PICK old : TotalsUpTo(old, tb, m - 1)
    BY <1>2
  <2> DEFINE new == [k \in 0 .. n |-> IF k = 0 THEN 0 ELSE RateStep(tb, k, old[k - 1])]
  <2>2. new = [k \in 0 .. n |-> new[k]]
    OBVIOUS
  <2>3. \A k \in 0 .. n : new[k] = IF k = 0 THEN 0 ELSE RateStep(tb, k, old[k - 1])
    OBVIOUS
  <2> HIDE DEF new
  <2>4. ASSUME NEW k \in 0 .. n, k <= m, k # 0 PROVE new[k] = RateStep(tb, k, new[k - 1])
    <3>1. k - 1 \in 0 .. n /\ k - 1 <= m - 1
      BY <2>4
    <3>2. old[k - 1] = IF k - 1 = 0 THEN 0 ELSE RateStep(tb, k - 1, old[k - 1 - 1])
      BY <2>1, <3>1 DEF TotalsUpTo
    <3>3. old[k - 1] = new[k - 1]
      BY <2>3, <3>1, <3>2
    <3>4. QED
      BY <2>3, <2>4, <3>3
  <2>5. TotalsUpTo(new, tb, m)
    BY <2>2, <2>3, <2>4 DEF TotalsUpTo
  <2>6. QED
    BY <2>5
<1>3. \E tot : TotalsUpTo(tot, tb, n)
  <2>1. \A k \in 0 .. n : k \in P
    <3> HIDE DEF P
    <3>1. QED
      BY <1>1, <1>2, StepInduction
  <2>2. QED
    BY <2>1
<1> DEFINE Sums(f) ==
             f = [k \in 0 .. n |-> IF k = 0 THEN 0
                                    ELSE IF tb[k].num < 0 THEN f[k - 1]
                                    ELSE Rounded(f[k - 1] + tb[k].cfg.minRate)]
<1>4. \E f : Sums(f)
  <2>1. PICK f : TotalsUpTo(f, tb, n)
    BY <1>3
  <2>2. f = [k \in 0 .. n |-> f[k]]
    BY <2>1 DEF TotalsUpTo
  <2>3. \A k \in 0 .. n : f[k] = IF k = 0 THEN 0
                                  ELSE IF tb[k].num < 0 THEN f[k - 1]
                                  ELSE Rounded(f[k - 1] + tb[k].cfg.minRate)
    <3>1. ASSUME NEW k \in 0 .. n
          PROVE  f[k] = IF k = 0 THEN 0 ELSE RateStep(tb, k, f[k - 1])
      <4>1. k <= n
        OBVIOUS
      <4>2. QED
        BY <2>1, <4>1, Zenon DEF TotalsUpTo
    <3>2. QED
      BY <3>1, Zenon DEF RateStep
  <2>4. Sums(f)
    BY <2>2, <2>3, Zenon
  <2>5. QED
    BY <2>4
<1> DEFINE tot == CHOOSE f : Sums(f)
<1>5. Sums(tot)
  BY <1>4
<1>6. RateTotal(tb) = tot[n]
  BY DEF RateTotal
<1> HIDE DEF tot
<1>7. TotalsUpTo(tot, tb, n)
  <2>1. tot = [k \in 0 .. n |-> tot[k]]
    BY <1>5
  <2>2. \A k \in 0 .. n : tot[k] = IF k = 0 THEN 0 ELSE RateStep(tb, k, tot[k - 1])
    BY <1>5 DEF RateStep
  <2>3. QED
    BY <2>1, <2>2 DEF TotalsUpTo
<1>8. QED
  BY <1>6, <1>7

\* A file's rate and what its addition may be rounded up by.
CostOf == [c \in Configs |-> c.minRate + 4]

\* The sum of the rates is off by no more than the rounding of its additions.
LEMMA RateTotalBound ==
  ASSUME NEW tb, TableFits(tb), \A j \in Active(tb) : tb[j].cfg.minRate >= 0,
         Total(tb, CostOf) <= One + 8
  PROVE  RateTotal(tb) \in Nat /\ RateTotal(tb) <= Total(tb, CostOf)
<1> DEFINE n == Len(tb)
           A == Active(tb)
           cost == [j \in A |-> CostOf[tb[j].cfg]]
           upTo == [k \in 0 .. n |-> {j \in A : j <= k}]
           s == [k \in 0 .. n |-> SumFunctionOnSet(cost, upTo[k])]
<1>1. n \in Nat /\ A \in SUBSET (1 .. n) /\ A \in SUBSET Int /\ IsFiniteSet(A)
  BY ActiveSlots
<1>2. \A j \in A : tb[j].cfg.minRate \in Nat /\ cost[j] = tb[j].cfg.minRate + 4
  <2> SUFFICES ASSUME NEW j \in A
               PROVE  tb[j].cfg.minRate \in Nat /\ cost[j] = tb[j].cfg.minRate + 4
    OBVIOUS
  <2>1. tb[j].cfg \in Configs
    BY ActiveSlots
  <2>2. tb[j].cfg.minRate \in Int
    BY <2>1, ConfigTypes
  <2>3. QED
    BY <2>1, <2>2 DEF CostOf
<1>3. PICK tot : TotalsUpTo(tot, tb, n) /\ RateTotal(tb) = tot[n]
  BY <1>1, TotalsExist
<1>4. Total(tb, CostOf) = SumFunctionOnSet(cost, A)
  BY DEF Total
<1>5. \A k \in 1 .. n : k \in A <=> ~(tb[k].num < 0)
  <2>1. tb \in Seq(Slots) /\ DOMAIN tb = 1 .. n
    BY DEF TableFits
  <2>2. \A k \in 1 .. n : tb[k].num \in Int
    <3> SUFFICES ASSUME NEW k \in 1 .. n PROVE tb[k].num \in Int
      OBVIOUS
    <3>1. tb[k] \in Slots
      BY <2>1
    <3>2. QED
      BY <3>1 DEF Slots, Numbers, NoVf
  <2>3. QED
    BY <2>1, <2>2 DEF Active
<1> HIDE DEF n, A, cost
<1>6. \A j \in A : j \in Int /\ 1 <= j /\ j <= n
  BY <1>1
<1>7. 0 \in 0 .. n /\ n \in 0 .. n
  BY <1>1
<1>8. \A k \in 0 .. n : upTo[k] \in SUBSET A /\ IsFiniteSet(upTo[k])
  <2>1. \A k \in 0 .. n : upTo[k] \in SUBSET A
    OBVIOUS
  <2> HIDE DEF upTo
  <2>2. QED
    BY <1>1, <2>1, FS_Subset
<1>9. \A x \in A : cost[x] \in Int /\ 0 <= cost[x]
  BY <1>2
<1>10. \A k \in 0 .. n : s[k] = SumFunctionOnSet(cost, upTo[k])
  <2> HIDE DEF upTo
  <2>1. QED
    OBVIOUS
<1>11. upTo[0] = {}
  <2>1. upTo[0] = {j \in A : j <= 0}
    BY <1>7
  <2> HIDE DEF upTo
  <2>2. QED
    BY <1>6, <2>1
<1>12. \A k \in 1 .. n : k - 1 \in 0 .. n /\ k \in 0 .. n
  BY <1>1
<1>13. \A k \in 0 .. n : upTo[k] = {j \in A : j <= k}
  OBVIOUS
<1> HIDE DEF upTo, s
<1>14. ASSUME NEW k \in 1 .. n, k \in A
       PROVE  upTo[k] = upTo[k - 1] \cup {k} /\ k \notin upTo[k - 1]
  <2>1. upTo[k] = {j \in A : j <= k} /\ upTo[k - 1] = {j \in A : j <= k - 1}
    BY <1>12, <1>13
  <2>2. \A j \in A : j <= k <=> j <= k - 1 \/ j = k
    BY <1>1, <1>6
  <2>3. k <= k /\ ~(k <= k - 1)
    BY <1>14, <1>6
  <2>4. QED
    BY <1>14, <2>1, <2>2, <2>3
<1>15. ASSUME NEW k \in 1 .. n, k \notin A
       PROVE  upTo[k] = upTo[k - 1]
  <2>1. upTo[k] = {j \in A : j <= k} /\ upTo[k - 1] = {j \in A : j <= k - 1}
    BY <1>12, <1>13
  <2>2. \A j \in A : j <= k <=> j <= k - 1 \/ j = k
    BY <1>1, <1>6
  <2>3. QED
    BY <1>15, <2>1, <2>2
<1>16. s[0] = 0
  <2>1. 0 \in 0 .. n
    BY <1>1
  <2>2. QED
    BY <1>10, <1>11, <2>1, SumEmpty
<1>17. \A k \in 0 .. n : s[k] \in Int /\ s[k] <= SumFunctionOnSet(cost, A)
  <2> SUFFICES ASSUME NEW k \in 0 .. n
               PROVE  s[k] \in Int /\ s[k] <= SumFunctionOnSet(cost, A)
    OBVIOUS
  <2>1. upTo[k] \in SUBSET A /\ IsFiniteSet(upTo[k]) /\ s[k] = SumFunctionOnSet(cost, upTo[k])
    BY <1>8, <1>10
  <2>2. \A x \in upTo[k] : cost[x] \in Int
    BY <1>9, <2>1
  <2>3. SumFunctionOnSet(cost, upTo[k]) \in Int
    BY <2>1, <2>2, SumInt
  <2>4. SumFunctionOnSet(cost, upTo[k]) <= SumFunctionOnSet(cost, A)
    <3>1. PICK U \in SUBSET A : U = upTo[k]
      BY <2>1
    <3>2. /\ \A x \in U : cost[x] \in Int
          /\ \A x \in A : cost[x] \in Int
          /\ \A x \in U : cost[x] <= cost[x]
          /\ \A x \in A \ U : 0 <= cost[x]
      BY <1>9
    <3>3. SumFunctionOnSet(cost, U) <= SumFunctionOnSet(cost, A)
      BY <1>1, <3>2, SumLeq
    <3>4. QED
      BY <3>1, <3>3
  <2>5. QED
    BY <2>1, <2>3, <2>4
<1>18. \A k \in 1 .. n : s[k] = IF k \in A THEN cost[k] + s[k - 1] ELSE s[k - 1]
  <2> SUFFICES ASSUME NEW k \in 1 .. n
               PROVE  s[k] = IF k \in A THEN cost[k] + s[k - 1] ELSE s[k - 1]
    OBVIOUS
  <2>1. k - 1 \in 0 .. n /\ k \in 0 .. n
    BY <1>12
  <2>2. CASE k \in A
    <3>1. upTo[k] = upTo[k - 1] \cup {k} /\ k \notin upTo[k - 1]
      BY <1>14, <2>2
    <3>2. cost[k] \in Int
      BY <1>9, <2>2
    <3>3. IsFiniteSet(upTo[k - 1]) /\ \A x \in upTo[k - 1] : cost[x] \in Int
      BY <1>8, <1>9, <2>1
    <3>4. SumFunctionOnSet(cost, upTo[k - 1] \cup {k})
            = cost[k] + SumFunctionOnSet(cost, upTo[k - 1])
      BY <3>1, <3>3, <3>2, SumIn
    <3>5. QED
      BY <1>10, <2>1, <2>2, <3>1, <3>4
  <2>3. CASE k \notin A
    <3>1. upTo[k] = upTo[k - 1]
      BY <1>15, <2>3
    <3>2. QED
      BY <1>10, <2>1, <2>3, <3>1
  <2>4. QED
    BY <2>2, <2>3
<1>19. SumFunctionOnSet(cost, A) \in Int
  BY <1>1, <1>9, SumInt
<1> DEFINE P == {k \in 0 .. n : tot[k] \in Nat /\ tot[k] <= s[k]}
<1>20. 0 \in P
  <2>1. tot[0] = 0
    BY <1>1, <1>3 DEF TotalsUpTo
  <2>2. QED
    BY <1>1, <1>16, <2>1
<1>21. ASSUME NEW k \in 1 .. n, k - 1 \in P PROVE k \in P
  <2>1. tot[k - 1] \in Nat /\ tot[k - 1] <= s[k - 1] /\ k \in 0 .. n /\ k - 1 \in 0 .. n
    BY <1>21, <1>12
  <2>2. tot[k] = RateStep(tb, k, tot[k - 1])
    <3>1. k # 0
      BY <1>1
    <3>2. k <= n
      BY <1>1
    <3>3. QED
      BY <1>3, <2>1, <3>1, <3>2 DEF TotalsUpTo, n
  <2>3. s[k] \in Int /\ s[k - 1] \in Int /\ s[k] <= One + 8
    <3>1. s[k] <= SumFunctionOnSet(cost, A) /\ s[k] \in Int /\ s[k - 1] \in Int
      BY <1>17, <2>1
    <3>2. QED
      BY <1>4, <1>19, <3>1 DEF One
  <2>4. CASE k \in A
    <3>1. tb[k].cfg.minRate \in Nat /\ cost[k] = tb[k].cfg.minRate + 4
      BY <1>2, <2>4
    <3>2. s[k] = tb[k].cfg.minRate + 4 + s[k - 1]
      BY <1>18, <2>4, <3>1
    <3>3. PICK x \in Nat : x = tot[k - 1] + tb[k].cfg.minRate
      BY <2>1, <3>1
    <3>4. x + 4 <= s[k] /\ x <= One + 8
      <4>1. \A p, q, w \in Int : \A m \in Nat :
              p <= q /\ w <= One + 8 /\ w = m + 4 + q /\ x = p + m => x + 4 <= w /\ x <= One + 8
        BY DEF One
      <4>2. QED
        BY <2>1, <2>3, <3>1, <3>2, <3>3, <4>1
    <3>5. tot[k] = Rounded(x)
      BY <1>5, <2>2, <2>4, <3>3 DEF RateStep
    <3>6. Rounded(x) \in Nat /\ Rounded(x) <= x + 4
      BY <3>4, RoundedUp
    <3>7. tot[k] \in Nat /\ tot[k] <= s[k]
      BY <2>3, <3>3, <3>4, <3>5, <3>6
    <3>8. QED
      BY <2>1, <3>7
  <2>5. CASE k \notin A
    <3>1. s[k] = s[k - 1]
      BY <1>18, <2>5
    <3>2. tot[k] = tot[k - 1]
      BY <1>5, <2>2, <2>5 DEF RateStep
    <3>3. QED
      BY <2>1, <3>1, <3>2
  <2>6. QED
    BY <2>4, <2>5
<1>22. n \in P
  <2> HIDE DEF P
  <2>1. \A k \in 0 .. n : k \in P
    BY <1>1, <1>20, <1>21, StepInduction
  <2>2. QED
    BY <1>1, <2>1
<1>23. QED
  BY <1>3, <1>4, <1>17, <1>22, <1>19, <1>7

\* If the rates of some files leave room, those of a part of them fit in any order.
LEMMA RatesFit ==
  ASSUME NEW tb, TableFits(tb), NEW L \in SUBSET Configs, IsFiniteSet(L), RatesLeaveRoom(L),
         Owned(tb) \subseteq L, NEW c \in L, c \notin Owned(tb)
  PROVE  RateFits(tb, c)
<1> DEFINE O == Owned(tb)
           rate == [d \in Configs |-> d.minRate]
           M == O \cup {c}
<1>1. IsFiniteSet(O) /\ O \in SUBSET L /\ O \in SUBSET Configs /\ c \in Configs
  BY OwnedFiles
<1>2. \A d \in L : d.minRate \in Nat /\ CostOf[d] = rate[d] + 4 /\ rate[d] = d.minRate
  BY ConfigTypes DEF CostOf, RatesLeaveRoom
<1>3. SumFunctionOnSet(CostOf, L) <= One + 12
  <2> DEFINE one == [d \in L |-> 1]
             four == [d \in L |-> 4]
  <2>1. SumFunctionOnSet(one, L) = Cardinality(L)
    BY SumOnes
  <2>2. \A d \in L : one[d] \in Int /\ four[d] = 4 * one[d]
    OBVIOUS
  <2>3. \A d \in L : rate[d] \in Int /\ four[d] \in Int /\ CostOf[d] = rate[d] + four[d]
    BY <1>2
  <2> HIDE DEF one, four, rate
  <2>4. SumFunctionOnSet(four, L) = 4 * Cardinality(L)
    BY <2>1, <2>2, SumTimes
  <2>5. SumFunctionOnSet(CostOf, L) = SumFunctionOnSet(rate, L) + SumFunctionOnSet(four, L)
    BY <2>3, SumPlus
  <2>6. SumFunctionOnSet(rate, L) + 4 * Cardinality(L) <= One + 12
    BY DEF RatesLeaveRoom, rate
  <2>7. QED
    BY <2>4, <2>5, <2>6
<1> HIDE DEF O, rate
<1>4. M \in SUBSET L /\ IsFiniteSet(M) /\ c \notin O
  BY <1>1, FS_AddElement DEF O
<1>5. \A d \in L : CostOf[d] \in Int /\ CostOf[d] >= 4
  BY <1>2
<1>6. SumFunctionOnSet(CostOf, M) <= SumFunctionOnSet(CostOf, L)
  <2> HIDE DEF M
  <2>1. QED
    BY <1>4, <1>5, SumLeq
<1>7. SumFunctionOnSet(CostOf, M) = CostOf[c] + SumFunctionOnSet(CostOf, O)
  BY <1>1, <1>4, <1>5, SumIn
<1>8. SumFunctionOnSet(CostOf, O) \in Int /\ SumFunctionOnSet(CostOf, L) \in Int
  BY <1>1, <1>5, SumInt
<1>9. Total(tb, CostOf) = SumFunctionOnSet(CostOf, O)
  <2>1. \A d \in Configs : CostOf[d] \in Int
    BY ConfigTypes DEF CostOf
  <2>2. QED
    BY <2>1, TotalOfFiles DEF O
<1>10. CostOf[c] = c.minRate + 4 /\ c.minRate \in Nat
  BY <1>2
<1>11. Total(tb, CostOf) + c.minRate <= One + 8 /\ Total(tb, CostOf) \in Int
  BY <1>3, <1>6, <1>7, <1>8, <1>9, <1>10 DEF One
<1>12. RateTotal(tb) \in Nat /\ RateTotal(tb) <= Total(tb, CostOf)
  <2>1. \A j \in Active(tb) : tb[j].cfg.minRate >= 0
    BY <1>1, <1>2 DEF O, Owned
  <2>2. Total(tb, CostOf) <= One + 8
    BY <1>10, <1>11 DEF One
  <2>3. QED
    BY <2>1, <2>2, RateTotalBound
<1>13. PICK x \in Nat : x = RateTotal(tb) + c.minRate
  BY <1>10, <1>12
<1>14. x <= One + 8
  BY <1>10, <1>11, <1>12, <1>13 DEF One
<1>15. Rounded(x) <= One
  BY <1>14, RoundedUp
<1>16. QED
  BY <1>13, <1>15 DEF RateFits

\* Of files that fit each one is accepted when some of the others are in the table: no
\* check depends on the order if the rates leave room.
LEMMA FitsAccepted ==
  ASSUME NEW tb, TableFits(tb), port.oversub \in BOOLEAN,
         NEW L, Fits(L, port.oversub), RatesLeaveRoom(L), Owned(tb) \subseteq L,
         NEW c \in L, c \notin Owned(tb)
  PROVE  Admissible(tb, c)
<1> DEFINE O == Owned(tb)
           M == O \cup {c}
<1>1. Fits(M, port.oversub)
  <2>1. M \in SUBSET L
    OBVIOUS
  <2> HIDE DEF M
  <2>2. QED
    BY <2>1, PartFits
<1>2. O \in SUBSET Configs /\ IsFiniteSet(O) /\ c \in Configs
  BY OwnedFiles DEF Fits
<1> HIDE DEF O
<1>3. ASSUME NEW f, \A d \in Configs : f[d] \in Int
      PROVE  SumFunctionOnSet(f, M) = Total(tb, f) + f[c]
  <2>1. Total(tb, f) = SumFunctionOnSet(f, O)
    BY <1>3, TotalOfFiles DEF O
  <2>2. SumFunctionOnSet(f, M) = f[c] + SumFunctionOnSet(f, O)
    BY <1>2, <1>3, SumIn DEF O
  <2>3. SumFunctionOnSet(f, O) \in Int
    BY <1>2, <1>3, SumInt
  <2>4. QED
    BY <1>2, <1>3, <2>1, <2>2, <2>3
<1>4. NotDefined(tb, c)
  <2>1. \A j \in Active(tb) : tb[j].num = tb[j].cfg.vfid /\ tb[j].cfg \in L /\ tb[j].cfg # c
    BY DEF TableFits, Owned
  <2>2. \A d \in L : d.vfid = c.vfid => d = c
    BY DEF Fits
  <2>3. QED
    BY <2>1, <2>2 DEF NotDefined
<1>5. /\ InRange(c) /\ VlansValid(c) /\ CallbacksClean(c) /\ MirrorFits(c)
      /\ Len(c.vlans) \in 1 .. MaxVlans
  BY DEF Fits
<1>6. RateFits(tb, c)
  <2>1. L \in SUBSET Configs /\ IsFiniteSet(L)
    BY DEF Fits
  <2>2. QED
    BY <2>1, RatesFit
<1>7. VlansFit(tb, c)
  <2>1. SumFunctionOnSet(VlansOf, M) = Total(tb, VlansOf) + VlansOf[c]
    <3>1. \A d \in Configs : VlansOf[d] \in Int
      BY Amounts
    <3>2. QED
      BY <1>3, <3>1
  <2>2. SumFunctionOnSet(VlansOf, M) <= MaxVlans
    BY <1>1 DEF Fits
  <2>3. QED
    BY <1>2, <1>5, <2>1, <2>2 DEF VlansFit, VlansOf
<1>8. port.oversub \/ SharesFit(tb, c)
  <2> SUFFICES ASSUME ~port.oversub, NEW t \in Tcs
               PROVE  Demand(tb, t) + QShare(c, t) <= 100
    BY DEF SharesFit
  <2>1. SumFunctionOnSet(ShareOf(t), M) = Total(tb, ShareOf(t)) + ShareOf(t)[c]
    <3>1. \A d \in Configs : ShareOf(t)[d] \in Int
      BY Amounts
    <3>2. QED
      BY <1>3, <3>1
  <2>2. SumFunctionOnSet(ShareOf(t), M) <= 100
    BY <1>1 DEF Fits
  <2>3. Demand(tb, t) = Total(tb, ShareOf(t)) /\ QShare(c, t) = ShareOf(t)[c]
    BY <1>2 DEF Demand, ShareOf
  <2>4. QED
    BY <2>1, <2>2, <2>3
<1>9. SpreadFits(tb, c)
  <2>1. ASSUME NEW t \in Tcs, QShare(c, t) # 0, NEW d \in M, NEW e \in M, QShare(e, t) # 0
        PROVE  QShare(d, t) \div QShare(e, t) <= 10
    <3>1. d \in Configs /\ e \in Configs
      BY <1>1 DEF Fits
    <3>2. QShare(d, t) \in 0 .. 255 /\ QShare(e, t) \in 0 .. 255
      BY <3>1, ShareRange
    <3>3. CASE QShare(d, t) = 0
      <4>1. \A n \in 1 .. 255 : 0 \div n <= 10
        OBVIOUS
      <4>2. QED
        BY <2>1, <3>2, <3>3, <4>1
    <3>4. CASE QShare(d, t) # 0
      <4>1. QShare(d, t) > 0 /\ QShare(e, t) > 0
        BY <2>1, <3>2, <3>4
      <4>2. EvenShares(M)
        BY <1>1 DEF Fits
      <4>3. QED
        BY <2>1, <4>1, <4>2 DEF EvenShares
    <3>5. QED
      BY <3>3, <3>4
  <2>2. QED
    BY <1>2, <2>1, SpreadOfFiles DEF O
<1>10. QED
  BY <1>4, <1>5, <1>6, <1>7, <1>8, <1>9 DEF Admissible

(***************************************************************************)
(* A restart takes every file back.                                        *)
(***************************************************************************)

\* The PF is one of those described, and no two VFs of its table have the same number.
PortTable == port \in Ports /\ TableFits(slots)

LEMMA PortTableInit == Init => PortTable
BY EmptyTable DEF Init, PortTable

LEMMA PortTableNext ==
  ASSUME PortTable, [Next]_vars
  PROVE  PortTable'
<1> USE DEF PortTable
<1>1. ASSUME NEW c \in Configs, Admissible(slots, c), slots' = Added(slots, c), port' = port
      PROVE  PortTable'
  <2>1. TableFits(Added(slots, c))
    BY <1>1, TableAfterAdd DEF Admissible
  <2>2. QED
    BY <1>1, <2>1
<1>2. ASSUME NEW c \in Configs, RestoreFile(c) PROVE PortTable'
  <2>1. CASE Admissible(slots, c)
    BY <1>1, <1>2, <2>1 DEF RestoreFile
  <2>2. CASE ~Admissible(slots, c)
    <3>1. slots' = slots /\ port' = port
      BY <1>2, <2>2 DEF RestoreFile
    <3>2. QED
      BY <3>1
  <2>3. QED
    BY <2>1, <2>2
<1>3. ASSUME NEW c \in Configs, AddRequest(c) PROVE PortTable'
  BY <1>1, <1>3 DEF AddRequest
<1>4. ASSUME NEW c \in Configs, DeleteRequest(c) PROVE PortTable'
  <2>1. PICK j \in Active(slots) : slots' = [slots EXCEPT ![j].num = NoVf]
    BY <1>4 DEF DeleteRequest
  <2>2. TableFits(slots')
    BY <2>1, TableAfterDelete
  <2>3. QED
    BY <1>4, <2>2 DEF DeleteRequest
<1>5. CASE StartUp
  BY <1>5 DEF StartUp
<1>6. CASE Restart
  <2>1. TableFits(slots')
    BY <1>6, EmptyTable DEF Restart
  <2>2. QED
    BY <1>6, <2>1 DEF Restart
<1>7. CASE UNCHANGED vars
  BY <1>7 DEF vars
<1>8. QED
  BY <1>2, <1>3, <1>4, <1>5, <1>6, <1>7 DEF Next

\* The live files are those of the VFs in the table and, after a start, those not read
\* yet; as a set they fit on the PF.
LiveFits ==
  /\ PortTable
  /\ phase \in {"restoring", "running"}
  /\ Fits(live, port.oversub)
  /\ live = Owned(slots) \cup pending
  /\ Owned(slots) \cap pending = {}
  /\ phase = "running" => pending = {}

LEMMA LiveFitsInit == Init => LiveFits
<1> SUFFICES ASSUME Init PROVE LiveFits
  OBVIOUS
<1>1. TableFits(slots) /\ Owned(slots) = {}
  BY EmptyTable DEF Init
<1>2. \A f : SumFunctionOnSet(f, {}) = 0
  BY SumEmpty
<1>3. Fits({}, port.oversub)
  <2>1. IsFiniteSet({}) /\ 0 <= MaxVlans
    BY FS_EmptySet, AdmAssumption
  <2>2. /\ SumFunctionOnSet(VlansOf, {}) = 0
        /\ \A t \in Tcs : SumFunctionOnSet(ShareOf(t), {}) = 0
    BY <1>2
  <2>3. EvenShares({})
    BY DEF EvenShares
  <2>4. \A t \in Tcs : SumFunctionOnSet(ShareOf(t), {}) <= 100
    BY <2>2
  <2>5. SumFunctionOnSet(VlansOf, {}) <= MaxVlans
    BY <2>1, <2>2
  <2>6. QED
    BY <2>1, <2>3, <2>4, <2>5 DEF Fits
<1>4. QED
  BY <1>1, <1>3 DEF LiveFits, PortTable, Init

LEMMA RestoreAccepts ==
  ASSUME LiveFits, RatesLeaveRoom(live), NEW c \in pending
  PROVE  Admissible(slots, c)
<1>1. port.oversub \in BOOLEAN
  BY AdmAssumption DEF LiveFits, PortTable
<1>2. c \in live /\ c \notin Owned(slots) /\ Owned(slots) \subseteq live
  BY DEF LiveFits
<1>3. TableFits(slots) /\ Fits(live, port.oversub)
  BY DEF LiveFits, PortTable
<1>4. QED
  BY <1>1, <1>2, <1>3, FitsAccepted

LEMMA LiveFitsNext ==
  ASSUME LiveFits, [Next]_vars
  PROVE  LiveFits'
<1> USE DEF LiveFits, PortTable
<1>1. port.oversub \in BOOLEAN
  BY AdmAssumption
<1>2. ASSUME NEW c \in Configs, RestoreFile(c) PROVE LiveFits'
  <2>1. /\ c \in pending /\ pending' = pending \ {c}
        /\ port' = port /\ phase' = phase /\ phase = "restoring"
    BY <1>2 DEF RestoreFile
  <2>2. CASE Admissible(slots, c)
    <3>1. slots' = Added(slots, c) /\ live' = live
      BY <1>2, <2>2 DEF RestoreFile
    <3>2. TableFits(slots') /\ Owned(slots') = Owned(slots) \cup {c}
      BY <2>2, <3>1, TableAfterAdd DEF Admissible
    <3>3. live' = Owned(slots') \cup pending' /\ Owned(slots') \cap pending' = {}
      BY <2>1, <3>1, <3>2
    <3>4. Fits(live', port'.oversub)
      BY <2>1, <3>1
    <3>5. QED
      BY <2>1, <3>2, <3>3, <3>4
  <2>3. CASE ~Admissible(slots, c)
    <3>1. slots' = slots /\ live' = live \ {c}
      BY <1>2, <2>3 DEF RestoreFile
    <3>2. TableFits(slots') /\ Owned(slots') = Owned(slots)
      BY <3>1
    <3>3. live' = Owned(slots') \cup pending' /\ Owned(slots') \cap pending' = {}
      BY <2>1, <3>1, <3>2
    <3>4. Fits(live \ {c}, port.oversub)
      BY <1>1, PartFits
    <3>5. Fits(live', port'.oversub)
      BY <2>1, <3>1, <3>4
    <3>6. QED
      BY <2>1, <3>2, <3>3, <3>5
  <2>4. QED
    BY <2>2, <2>3
<1>3. ASSUME NEW c \in Configs, AddRequest(c) PROVE LiveFits'
  <2>1. Admissible(slots, c) /\ pending = {} /\ live = Owned(slots)
    BY <1>3 DEF AddRequest
  <2>2. /\ slots' = Added(slots, c) /\ live' = live \cup {c} /\ pending' = pending
        /\ port' = port /\ phase' = phase
    BY <1>3 DEF AddRequest
  <2>3. TableFits(slots') /\ Owned(slots') = Owned(slots) \cup {c}
    BY <2>1, <2>2, TableAfterAdd DEF Admissible
  <2>4. Fits(live \cup {c}, port.oversub)
    BY <1>1, <2>1, AcceptedFits
  <2>5. QED
    BY <2>1, <2>2, <2>3, <2>4
<1>4. ASSUME NEW c \in Configs, DeleteRequest(c) PROVE LiveFits'
  <2>1. PICK j \in Active(slots) :
          /\ slots[j].num = c.vfid /\ slots[j].cfg = c
          /\ slots' = [slots EXCEPT ![j].num = NoVf]
    BY <1>4 DEF DeleteRequest
  <2>2. /\ live' = live \ {c} /\ pending' = pending /\ port' = port
        /\ phase' = phase /\ phase = "running"
    BY <1>4 DEF DeleteRequest
  <2>3. TableFits(slots') /\ Owned(slots') = Owned(slots) \ {c}
    BY <2>1, TableAfterDelete
  <2>4. Fits(live \ {c}, port.oversub)
    BY <1>1, PartFits
  <2>5. QED
    BY <2>2, <2>3, <2>4
<1>5. CASE StartUp
  BY <1>5 DEF StartUp
<1>6. CASE Restart
  <2>1. TableFits(slots') /\ Owned(slots') = {}
    BY <1>6, EmptyTable DEF Restart
  <2>2. QED
    BY <1>6, <2>1 DEF Restart
<1>7. CASE UNCHANGED vars
  BY <1>7 DEF vars
<1>8. QED
  BY <1>2, <1>3, <1>4, <1>5, <1>6, <1>7 DEF Next

\* Property RestartKeepsAll: a restart refuses no file whose VF had been accepted unless
\* for the rates, in whatever order the directory lists the files, for any files, VFs and
\* kinds of PF (vfd_add_all_vfs).
THEOREM RestartKeeps == Spec => RestartKeepsAll
<1>1. Init => LiveFits
  BY LiveFitsInit
<1>2. LiveFits /\ [Next]_vars => LiveFits'
  BY LiveFitsNext
<1>3. LiveFits /\ [Next]_vars =>
        [phase = "restoring" /\ RatesLeaveRoom(live) => live' = live]_vars
  <2> SUFFICES ASSUME LiveFits, Next, phase = "restoring", RatesLeaveRoom(live)
               PROVE  live' = live
    BY DEF vars
  <2>1. ASSUME NEW c \in Configs, RestoreFile(c) PROVE live' = live
    BY <2>1, RestoreAccepts DEF RestoreFile
  <2>2. ASSUME NEW c \in Configs, AddRequest(c) PROVE FALSE
    BY <2>2 DEF AddRequest
  <2>3. ASSUME NEW c \in Configs, DeleteRequest(c) PROVE FALSE
    BY <2>3 DEF DeleteRequest
  <2>4. CASE StartUp
    BY <2>4 DEF StartUp
  <2>5. CASE Restart
    BY <2>5 DEF Restart
  <2>6. QED
    BY <2>1, <2>2, <2>3, <2>4, <2>5 DEF Next
<1>4. QED
  BY <1>1, <1>2, <1>3, PTL DEF Spec, RestartKeepsAll

(***************************************************************************)
(* The shares of a traffic class.                                          *)
(***************************************************************************)

\* Scaling cuts off at most one percent.
LEMMA ScaledShare ==
  ASSUME NEW tb, TableFits(tb), NEW t, NEW j \in Active(tb)
  PROVE  /\ Demand(tb, t) \in Nat
         /\ QShare(tb[j].cfg, t) \in Nat
         /\ Scaled(tb, t, j) \in Nat
         /\ Demand(tb, t) = 0 => Scaled(tb, t, j) = 0
         /\ Demand(tb, t) > 0 =>
              /\ Scaled(tb, t, j) * Demand(tb, t) <= QShare(tb[j].cfg, t) * 100
              /\ QShare(tb[j].cfg, t) * 100 <= Scaled(tb, t, j) * Demand(tb, t) + Demand(tb, t)
         /\ Demand(tb, t) = 100 => Scaled(tb, t, j) = QShare(tb[j].cfg, t)
<1> DEFINE d == Demand(tb, t)
           s == QShare(tb[j].cfg, t)
           below == IF <<s, d>> \in FallsBelow THEN 1 ELSE 0
<1>1. d \in Nat
  <2>1. d = SumFunctionOnSet(ShareOf(t), Owned(tb))
    <3>1. \A c \in Configs : ShareOf(t)[c] \in Int
      BY Amounts
    <3>2. d = Total(tb, ShareOf(t))
      BY DEF Demand, ShareOf
    <3>3. QED
      BY <3>1, <3>2, TotalOfFiles
  <2>2. IsFiniteSet(Owned(tb)) /\ \A c \in Owned(tb) : ShareOf(t)[c] \in Nat
    BY OwnedFiles, Amounts
  <2>3. QED
    BY <2>1, <2>2, SumNat
<1>2. s \in 0 .. 255
  BY ActiveSlots, ShareRange
<1>3. Scaled(tb, t, j) = IF d = 100 THEN s ELSE IF d = 0 THEN 0 ELSE (s * 100 - below) \div d
  BY DEF Scaled
<1>4. below \in {0, 1} /\ (below = 1 => s # 0)
  <2>1. ASSUME <<s, d>> \in FallsBelow PROVE s # 0
    <3>1. <<s, d>>[1] # 0
      BY <2>1, AdmAssumption
    <3>2. QED
      BY <3>1
  <2>2. QED
    BY <2>1
<1> HIDE DEF d, s, below
<1>5. CASE d = 100
  BY <1>2, <1>3, <1>5 DEF d, s
<1>6. CASE d = 0
  BY <1>2, <1>3, <1>6 DEF d, s
<1>7. CASE d # 100 /\ d # 0
  <2>1. s * 100 - below \in Nat /\ d \in Nat \ {0}
    BY <1>1, <1>2, <1>4, <1>7
  <2>2. PICK c \in Nat : c = s * 100 - below
    BY <2>1
  <2>3. c \div d \in Nat /\ (c \div d) * d <= c /\ c < (c \div d) * d + d
    BY <2>1, Quotient
  <2>4. Scaled(tb, t, j) = c \div d
    BY <1>3, <1>7, <2>2
  <2>5. s \in Nat /\ s * 100 = c + below
    BY <1>2, <1>4, <2>2
  <2>6. PICK e \in Nat : e = (c \div d) * d
    BY <2>1, <2>3
  <2>7. e <= s * 100 /\ s * 100 <= e + d
    BY <1>4, <2>1, <2>2, <2>3, <2>5, <2>6
  <2>8. QED
    BY <1>7, <2>1, <2>3, <2>4, <2>5, <2>6, <2>7 DEF d, s
<1>8. QED
  BY <1>5, <1>6, <1>7

\* The shares of a class: never more over 100 than there are VFs less one, and each at least
\* what its VF asked for and at most one percent more if somebody asked for any.
LEMMA SharesOfClass ==
  ASSUME NEW tb, TableFits(tb), NEW t
  PROVE  LET A == Active(tb)
             sh == [j \in A |-> Share(tb, t, j)]
             d == Demand(tb, t)
         IN  /\ \A j \in A : sh[j] \in Nat
             /\ A # {} => SumFunctionOnSet(sh, A) <= 99 + Cardinality(A)
             /\ d > 0 =>
                  \A j \in A : /\ sh[j] * d >= QShare(tb[j].cfg, t) * 100
                             /\ sh[j] * d <= QShare(tb[j].cfg, t) * 100 + d
             /\ d > 0 /\ A # {} => SumFunctionOnSet(sh, A) >= 100
<1> DEFINE A == Active(tb)
           n == Cardinality(A)
           d == Demand(tb, t)
           sc == [j \in A |-> Scaled(tb, t, j)]
           sh == [j \in A |-> Share(tb, t, j)]
           S == SumFunctionOnSet(sc, A)
           T == SumFunctionOnSet(sh, A)
           own == [j \in A |-> QShare(tb[j].cfg, t)]
           up == [j \in A |-> d * sc[j]]
           hundred == [j \in A |-> 100 * own[j]]
<1>1. IsFiniteSet(A) /\ n \in Nat
  BY ActiveSlots, FS_CardinalityType
<1>2. \A j \in A : sc[j] \in Nat /\ own[j] \in Nat
  BY ScaledShare
<1>3. S \in Nat /\ SumFunctionOnSet(own, A) \in Nat
  BY <1>1, <1>2, SumNat
<1>4. d = SumFunctionOnSet(own, A)
  <2>1. \A j \in A : [c \in Configs |-> QShare(c, t)][tb[j].cfg] = own[j]
    BY ActiveSlots
  <2>2. d = SumFunctionOnSet([j \in A |-> [c \in Configs |-> QShare(c, t)][tb[j].cfg]], A)
    BY DEF Demand, Total
  <2>3. [j \in A |-> [c \in Configs |-> QShare(c, t)][tb[j].cfg]] = own
    BY <2>1
  <2>4. QED
    BY <2>2, <2>3
<1>5. \A j \in A : sh[j] = IF S < 100 THEN sc[j] + 1 ELSE sc[j]
  <2> SUFFICES ASSUME NEW j \in A PROVE sh[j] = IF S < 100 THEN sc[j] + 1 ELSE sc[j]
    OBVIOUS
  <2>1. Short(tb, t) <=> S < 100
    BY DEF Short
  <2>2. sh[j] = sc[j] + (IF Short(tb, t) THEN 1 ELSE 0) /\ sc[j] \in Nat
    BY <1>2 DEF Share
  <2> HIDE DEF S, sc, sh
  <2>3. QED
    BY <2>1, <2>2
<1>6. d > 0 => \A j \in A : sc[j] * d <= own[j] * 100 /\ own[j] * 100 <= sc[j] * d + d
  BY ScaledShare
<1>7. d = 0 => \A j \in A : sc[j] = 0
  BY ScaledShare
<1>8. d \in Nat
  BY <1>3, <1>4
<1>9. \A j \in A : own[j] = QShare(tb[j].cfg, t)
  OBVIOUS
<1> HIDE DEF A, n, d, sc, sh, own
<1>10. \A j \in A : sh[j] \in Nat
  BY <1>2, <1>5
<1>11. \A j \in A : up[j] = d * sc[j] /\ up[j] \in Int
                    /\ hundred[j] = 100 * own[j] /\ hundred[j] \in Int
  BY <1>2, <1>8
<1>12. d > 0 => \A j \in A : up[j] <= hundred[j]
  <2> SUFFICES ASSUME d > 0, NEW j \in A PROVE up[j] <= hundred[j]
    OBVIOUS
  <2>1. sc[j] * d <= own[j] * 100 /\ sc[j] \in Nat /\ own[j] \in Nat
    BY <1>2, <1>6
  <2>2. sc[j] * d = d * sc[j] /\ own[j] * 100 = 100 * own[j]
    BY <1>8, <2>1
  <2> HIDE DEF up, hundred
  <2>3. QED
    BY <1>11, <2>1, <2>2
<1> HIDE DEF up, hundred
<1>13. SumFunctionOnSet(up, A) = d * S
  <2>1. \A j \in A : sc[j] \in Int /\ up[j] = d * sc[j]
    BY <1>2, <1>11
  <2>2. QED
    BY <1>1, <1>8, <2>1, SumTimes
<1>14. SumFunctionOnSet(hundred, A) = 100 * d
  <2>1. \A j \in A : own[j] \in Int /\ hundred[j] = 100 * own[j]
    BY <1>2, <1>11
  <2>2. SumFunctionOnSet(hundred, A) = 100 * SumFunctionOnSet(own, A)
    BY <1>1, <2>1, SumTimes
  <2>3. QED
    BY <1>4, <2>2
<1> HIDE DEF S
<1>15. ASSUME d > 0 PROVE S <= 100
  <2>1. SumFunctionOnSet(up, A) <= SumFunctionOnSet(hundred, A)
    <3>1. A \in SUBSET A /\ \A x \in A \ A : 0 <= hundred[x]
      OBVIOUS
    <3>2. QED
      BY <1>1, <1>11, <1>12, <1>15, <3>1, SumLeq
  <2>2. d * S <= 100 * d
    BY <1>13, <1>14, <2>1
  <2>3. CASE 101 <= S
    <3>1. 101 * d <= S * d
      BY <1>3, <1>8, <2>3, Product DEF S
    <3>2. S * d = d * S /\ 101 * d > 100 * d
      BY <1>3, <1>8, <1>15 DEF S
    <3>3. PICK a \in Int : a = d * S
      BY <1>3, <1>8 DEF S
    <3>4. QED
      BY <1>8, <2>2, <3>1, <3>2, <3>3
  <2>4. S \in Nat
    BY <1>3 DEF S
  <2>5. QED
    BY <2>3, <2>4
<1>16. ASSUME d = 0 PROVE S = 0
  <2>1. {} \in SUBSET A /\ (\A x \in A : sc[x] \in Int) /\ \A x \in A \ {} : sc[x] = 0
    BY <1>2, <1>7, <1>16
  <2>2. S = SumFunctionOnSet(sc, {})
    BY <1>1, <2>1, SumOfPart DEF S
  <2>3. QED
    BY <2>2, SumEmpty
\* A class that is not short was cut nowhere.
<1>17. ASSUME d > 0, ~(S < 100), NEW j \in A PROVE up[j] = hundred[j]
  <2> DEFINE R == A \ {j}
  <2>1. IsFiniteSet(R) /\ R \in SUBSET A
    BY <1>1, FS_Subset
  <2>2. /\ SumFunctionOnSet(up, A) = up[j] + SumFunctionOnSet(up, R)
        /\ SumFunctionOnSet(hundred, A) = hundred[j] + SumFunctionOnSet(hundred, R)
    BY <1>1, <1>11, <1>17, SumOut
  <2>3. SumFunctionOnSet(up, R) \in Int /\ SumFunctionOnSet(hundred, R) \in Int
    BY <1>11, <2>1, SumInt
  <2>4. SumFunctionOnSet(up, R) <= SumFunctionOnSet(hundred, R)
    <3>1. /\ R \in SUBSET R /\ \A x \in R \ R : 0 <= hundred[x]
          /\ \A x \in R : up[x] \in Int /\ hundred[x] \in Int /\ up[x] <= hundred[x]
      BY <1>11, <1>12, <1>17
    <3> HIDE DEF R
    <3>2. QED
      BY <2>1, <3>1, SumLeq
  <2>5. S = 100
    BY <1>3, <1>15, <1>17 DEF S
  <2>6. SumFunctionOnSet(up, A) = SumFunctionOnSet(hundred, A)
    BY <1>8, <1>13, <1>14, <2>5
  <2>7. up[j] <= hundred[j] /\ up[j] \in Int /\ hundred[j] \in Int
    BY <1>11, <1>12, <1>17
  <2> HIDE DEF R
  <2>8. QED
    BY <2>2, <2>3, <2>4, <2>6, <2>7
<1>18. ASSUME d > 0, NEW j \in A
       PROVE  sh[j] * d >= own[j] * 100 /\ sh[j] * d <= own[j] * 100 + d
  <2>1. sc[j] \in Nat /\ own[j] \in Nat
    BY <1>2
  <2>2. PICK a \in Nat : a = sc[j] * d
    BY <1>8, <2>1
  <2>3. a <= own[j] * 100 /\ own[j] * 100 <= a + d
    BY <1>6, <1>18, <2>2
  <2>4. CASE S < 100
    <3>1. sh[j] = sc[j] + 1
      BY <1>5, <2>4 DEF S
    <3>2. (sc[j] + 1) * d = sc[j] * d + d
      BY <1>8, <2>1
    <3>3. sh[j] * d = a + d
      BY <2>2, <3>1, <3>2
    <3>4. QED
      BY <1>8, <2>1, <2>2, <2>3, <3>3
  <2>5. CASE ~(S < 100)
    <3>1. sh[j] = sc[j]
      BY <1>5, <2>5 DEF S
    <3>2. d * sc[j] = 100 * own[j]
      BY <1>11, <1>17, <1>18, <2>5
    <3>3. d * sc[j] = sc[j] * d /\ 100 * own[j] = own[j] * 100
      BY <1>8, <2>1
    <3>4. sh[j] * d = a /\ a = own[j] * 100
      BY <2>2, <3>1, <3>2, <3>3
    <3>5. QED
      BY <1>8, <2>1, <2>2, <3>4
  <2>6. QED
    BY <2>4, <2>5
<1>19. ASSUME S < 100 PROVE T = S + n
  <2> DEFINE one == [j \in A |-> 1]
  <2>1. SumFunctionOnSet(one, A) = n
    BY <1>1, SumOnes DEF n
  <2>2. \A j \in A : sc[j] \in Int /\ one[j] \in Int /\ sh[j] = sc[j] + one[j]
    BY <1>2, <1>5, <1>19 DEF S
  <2> HIDE DEF one
  <2>3. SumFunctionOnSet(sh, A) = SumFunctionOnSet(sc, A) + SumFunctionOnSet(one, A)
    BY <1>1, <2>2, SumPlus
  <2>4. QED
    BY <2>1, <2>3 DEF S
<1>20. ASSUME ~(S < 100) PROVE T = S
  <2> DEFINE none == [j \in A |-> 0]
  <2>1. SumFunctionOnSet(none, A) = SumFunctionOnSet(none, {})
    <3>1. {} \in SUBSET A /\ (\A x \in A : none[x] \in Int) /\ \A x \in A \ {} : none[x] = 0
      OBVIOUS
    <3> HIDE DEF none
    <3>2. QED
      BY <1>1, <3>1, SumOfPart
  <2>2. \A j \in A : sc[j] \in Int /\ none[j] \in Int /\ sh[j] = sc[j] + none[j]
    BY <1>2, <1>5, <1>20 DEF S
  <2> HIDE DEF none
  <2>3. SumFunctionOnSet(sh, A) = SumFunctionOnSet(sc, A) + SumFunctionOnSet(none, A)
    BY <1>1, <2>2, SumPlus
  <2>4. SumFunctionOnSet(none, A) = 0
    BY <2>1, SumEmpty
  <2>5. QED
    BY <1>3, <2>3, <2>4 DEF S
<1>21. ASSUME A # {} PROVE T <= 99 + n
  <2>1. n \in Nat /\ n > 0 /\ S \in Nat
    BY <1>1, <1>3, <1>21, FS_EmptySet DEF n, S
  <2>2. S <= 100
    BY <1>8, <1>15, <1>16
  <2>3. QED
    BY <1>19, <1>20, <2>1, <2>2
<1>22. ASSUME d > 0, A # {} PROVE T >= 100
  <2>1. CASE ~(S < 100)
    BY <1>3, <1>20, <2>1 DEF S
  <2>2. CASE S < 100
    <3> DEFINE got == [j \in A |-> d * sh[j]]
    <3>1. \A j \in A : sh[j] \in Int /\ got[j] = d * sh[j]
      BY <1>10
    <3>2. \A j \in A : hundred[j] <= got[j] /\ got[j] \in Int
      <4> SUFFICES ASSUME NEW j \in A PROVE hundred[j] <= got[j] /\ got[j] \in Int
        OBVIOUS
      <4>1. sh[j] \in Nat /\ own[j] \in Nat
        BY <1>2, <1>10
      <4>2. sh[j] * d >= own[j] * 100
        BY <1>18, <1>22
      <4>3. PICK a \in Nat : a = d * sh[j]
        BY <1>8, <4>1
      <4>4. sh[j] * d = a /\ own[j] * 100 = 100 * own[j] /\ got[j] = a
        BY <1>8, <3>1, <4>1, <4>3
      <4> HIDE DEF got
      <4>5. hundred[j] = 100 * own[j]
        BY <1>11
      <4>6. QED
        BY <4>1, <4>2, <4>4, <4>5
    <3> HIDE DEF got
    <3>3. SumFunctionOnSet(got, A) = d * T
      BY <1>1, <1>8, <3>1, SumTimes
    <3>4. SumFunctionOnSet(hundred, A) <= SumFunctionOnSet(got, A)
      <4>1. A \in SUBSET A /\ \A x \in A \ A : 0 <= got[x]
        OBVIOUS
      <4>2. QED
        BY <1>1, <1>11, <3>2, <4>1, SumLeq
    <3>5. T \in Nat
      BY <1>1, <1>10, SumNat
    <3>6. 100 * d <= d * T
      BY <1>14, <3>3, <3>4
    <3> HIDE DEF T
    <3>7. CASE T <= 99
      <4>1. T * d <= 99 * d
        BY <1>8, <3>5, <3>7, Product
      <4>2. PICK a \in Nat : a = T * d
        BY <1>8, <3>5
      <4>3. d * T = a
        BY <1>8, <3>5, <4>2
      <4>4. QED
        BY <1>8, <1>22, <3>6, <4>1, <4>2, <4>3
    <3>8. QED
      BY <3>5, <3>7
  <2>3. QED
    BY <2>1, <2>2
<1>23. QED
  BY <1>9, <1>10, <1>18, <1>21, <1>22 DEF A, n, d, sh

(***************************************************************************)
(* The shares by queue.                                                    *)
(***************************************************************************)

\* Queue v * n + t is that of VF v and class t.
LEMMA QueueNumber ==
  ASSUME NEW n \in {4, 8}, NEW v \in Nat, NEW t \in 0 .. n - 1
  PROVE  /\ (v * n + t) \div n = v /\ (v * n + t) % n = t
         /\ v * n + t \in Nat
<1>1. CASE n = 4
  <2>1. (v * 4 + t) \div 4 = v /\ (v * 4 + t) % 4 = t
    BY <1>1
  <2>2. QED
    BY <1>1, <2>1
<1>2. CASE n = 8
  <2>1. (v * 8 + t) \div 8 = v /\ (v * 8 + t) % 8 = t
    BY <1>2
  <2>2. QED
    BY <1>2, <2>1
<1>3. QED
  BY <1>1, <1>2

LEMMA QueueOf ==
  ASSUME NEW n \in {4, 8}, NEW q \in Nat
  PROVE  /\ q \div n \in Nat /\ q % n \in 0 .. n - 1
         /\ q = (q \div n) * n + (q % n)
<1>1. CASE n = 4
  <2>1. /\ q \div 4 \in Nat /\ q % 4 \in 0 .. 3
        /\ q = (q \div 4) * 4 + (q % 4)
    OBVIOUS
  <2>2. QED
    BY <1>1, <2>1
<1>2. CASE n = 8
  <2>1. /\ q \div 8 \in Nat /\ q % 8 \in 0 .. 7
        /\ q = (q \div 8) * 8 + (q % 8)
    OBVIOUS
  <2>2. QED
    BY <1>2, <2>1
<1>3. QED
  BY <1>1, <1>2

LEMMA QueueExists ==
  ASSUME NEW p \in Ports, NEW v \in Numbers, NEW t \in 0 .. p.ntcs - 1
  PROVE  v * p.ntcs + t \in Queues
<1>1. p.ntcs \in {4, 8} /\ Nvfs * p.ntcs <= MaxQueues /\ Nvfs \in Nat /\ MaxQueues \in Nat
  BY AdmAssumption
<1>2. v \in Nat /\ v + 1 <= Nvfs
  BY <1>1 DEF Numbers
<1>3. CASE p.ntcs = 4
  BY <1>1, <1>2, <1>3 DEF Queues
<1>4. CASE p.ntcs = 8
  BY <1>1, <1>2, <1>4 DEF Queues
<1>5. QED
  BY <1>1, <1>3, <1>4

\* gen_port_qshares, queue by queue: that of a VF has its share, the others none.
LEMMA ShareOfQueue ==
  ASSUME NEW tb, TableFits(tb), port \in Ports
  PROVE  /\ \A q \in Queues : GenShares(tb)[q] \in Nat
         /\ \A q \in Queues :
              (\A j \in Active(tb) : tb[j].num # q \div port.ntcs) => GenShares(tb)[q] = 0
         /\ \A j \in Active(tb), t \in 0 .. port.ntcs - 1 :
              GenShares(tb)[tb[j].num * port.ntcs + t] = Share(tb, t, j)
<1> DEFINE owners(q) == {j \in Active(tb) : tb[j].num = q \div port.ntcs}
<1>1. port.ntcs \in {4, 8}
  BY AdmAssumption
<1>2. ASSUME NEW q \in Queues
      PROVE  GenShares(tb)[q] =
               IF owners(q) = {} THEN 0 ELSE Share(tb, q % port.ntcs, Max(owners(q)))
  BY DEF GenShares
<1>3. ASSUME NEW q \in Queues, NEW j \in Active(tb), tb[j].num = q \div port.ntcs
      PROVE  GenShares(tb)[q] = Share(tb, q % port.ntcs, j)
  <2>1. owners(q) = {j}
    BY <1>3 DEF TableFits
  <2>2. j \in Int
    BY ActiveSlots
  <2>3. Max({j}) = j
    BY <2>2 DEF Max
  <2>4. QED
    BY <1>2, <2>1, <2>3
<1>4. ASSUME NEW q \in Queues, \A j \in Active(tb) : tb[j].num # q \div port.ntcs
      PROVE  GenShares(tb)[q] = 0
  <2>1. owners(q) = {}
    BY <1>4
  <2>2. QED
    BY <1>2, <2>1
<1>5. ASSUME NEW q \in Queues PROVE GenShares(tb)[q] \in Nat
  <2>1. CASE \E j \in Active(tb) : tb[j].num = q \div port.ntcs
    <3>1. PICK j \in Active(tb) : tb[j].num = q \div port.ntcs
      BY <2>1
    <3>2. GenShares(tb)[q] = Share(tb, q % port.ntcs, j)
      BY <1>3, <3>1
    <3>3. Share(tb, q % port.ntcs, j) \in Nat
      BY SharesOfClass
    <3>4. QED
      BY <3>2, <3>3
  <2>2. CASE \A j \in Active(tb) : tb[j].num # q \div port.ntcs
    BY <1>4, <2>2
  <2>3. QED
    BY <2>1, <2>2
<1>6. ASSUME NEW j \in Active(tb), NEW t \in 0 .. port.ntcs - 1
      PROVE  GenShares(tb)[tb[j].num * port.ntcs + t] = Share(tb, t, j)
  <2> DEFINE q == tb[j].num * port.ntcs + t
  <2>1. tb[j].num \in Numbers /\ tb[j].num \in Nat
    BY ActiveSlots DEF Numbers
  <2>2. q \in Queues
    BY <2>1, QueueExists
  <2>3. q \div port.ntcs = tb[j].num /\ q % port.ntcs = t
    <3>1. PICK v \in Nat, n \in {4, 8} : v = tb[j].num /\ n = port.ntcs
      BY <1>1, <2>1
    <3>2. t \in 0 .. n - 1
      BY <3>1
    <3>3. (v * n + t) \div n = v /\ (v * n + t) % n = t
      BY <3>2, QueueNumber
    <3>4. QED
      BY <3>1, <3>3
  <2> HIDE DEF q
  <2>4. GenShares(tb)[q] = Share(tb, q % port.ntcs, j)
    BY <1>3, <2>2, <2>3
  <2>5. QED
    BY <2>3, <2>4 DEF q
<1>7. QED
  BY <1>4, <1>5, <1>6

\* The shares of the queues of a class are those of the VFs.
LEMMA SumOfQueues ==
  ASSUME NEW tb, TableFits(tb), port \in Ports, NEW t \in 0 .. port.ntcs - 1
  PROVE  SumFunctionOnSet(GenShares(tb), {q \in Queues : q % port.ntcs = t}) =
           SumFunctionOnSet([j \in Active(tb) |-> Share(tb, t, j)], Active(tb))
<1> DEFINE A == Active(tb)
           n == port.ntcs
           Qs == {q \in Queues : q % n = t}
           sh == GenShares(tb)
           m == [j \in A |-> tb[j].num * n + t]
           f == [j \in A |-> Share(tb, t, j)]
           Used == {m[j] : j \in A}
<1>1. n \in {4, 8} /\ MaxQueues \in Nat
  BY AdmAssumption
<1>2. IsFiniteSet(A) /\ \A j \in A : tb[j].num \in Numbers /\ tb[j].num \in Nat
  BY ActiveSlots DEF Numbers
<1>3. \A j \in A : m[j] \in Queues /\ m[j] \div n = tb[j].num /\ m[j] % n = t
  <2> SUFFICES ASSUME NEW j \in A
               PROVE  m[j] \in Queues /\ m[j] \div n = tb[j].num /\ m[j] % n = t
    OBVIOUS
  <2>1. m[j] \in Queues
    BY <1>2, QueueExists
  <2>2. m[j] \div n = tb[j].num /\ m[j] % n = t
    BY <1>1, <1>2, QueueNumber
  <2>3. QED
    BY <2>1, <2>2
<1>4. IsFiniteSet(Qs) /\ Used \in SUBSET Qs
  <2>1. IsFiniteSet(Queues)
    BY <1>1, FS_Interval DEF Queues
  <2>2. Qs \in SUBSET Queues
    OBVIOUS
  <2> HIDE DEF m
  <2>3. Used \in SUBSET Qs
    BY <1>3
  <2> HIDE DEF Qs
  <2>4. QED
    BY <2>1, <2>2, <2>3, FS_Subset
<1>5. \A q \in Qs : sh[q] \in Int
  BY ShareOfQueue
<1>6. \A q \in Qs \ Used : sh[q] = 0
  <2> SUFFICES ASSUME NEW q \in Qs \ Used PROVE sh[q] = 0
    OBVIOUS
  <2>1. q \in Queues /\ q % n = t /\ q \in Nat
    BY DEF Queues
  <2>2. ASSUME NEW j \in A, tb[j].num = q \div n PROVE FALSE
    <3>1. q = (q \div n) * n + (q % n)
      BY <1>1, <2>1, QueueOf
    <3>2. tb[j].num * n + t = q
      BY <2>1, <2>2, <3>1
    <3>3. m[j] = tb[j].num * n + t
      OBVIOUS
    <3> HIDE DEF m
    <3>4. q \in Used
      BY <3>2, <3>3
    <3>5. QED
      BY <3>4
  <2>3. QED
    BY <2>1, <2>2, ShareOfQueue
<1>7. \A j \in A : sh[m[j]] = f[j] /\ f[j] \in Int
  <2> SUFFICES ASSUME NEW j \in A PROVE sh[m[j]] = f[j] /\ f[j] \in Int
    OBVIOUS
  <2>1. sh[m[j]] = f[j]
    BY ShareOfQueue
  <2>2. Share(tb, t, j) \in Nat
    BY SharesOfClass
  <2>3. QED
    BY <2>1, <2>2
<1>8. \A i, j \in A : m[i] = m[j] => i = j
  <2> HIDE DEF m
  <2>1. QED
    BY <1>3 DEF TableFits
<1> HIDE DEF sh, m, f, A, Qs
<1>9. SumFunctionOnSet(f, A) = SumFunctionOnSet(sh, {m[x] : x \in A})
  BY <1>2, <1>7, <1>8, SumThrough
<1> HIDE DEF Used
<1>10. SumFunctionOnSet(sh, Qs) = SumFunctionOnSet(sh, Used)
  BY <1>4, <1>5, <1>6, SumOfPart
<1>11. QED
  BY <1>9, <1>10 DEF Used, sh, Qs, f, A

(***************************************************************************)
(* What the NIC holds.                                                     *)
(***************************************************************************)

\* Between requests the shares are those of the table, and the registers follow them.
Pushed ==
  /\ qshares = GenShares(slots)
  /\ port.nic # "mlx5" => credits = Credits(qshares)
  /\ port.nic = "mlx5" /\ port.ntcs = 8 =>
       \A j \in Active(slots), t \in Tcs :
         tcRate[slots[j].num][t] = (LinkSpeed * qshares[slots[j].num * 8 + t]) \div 100

NicFollows ==
  /\ phase = "running" /\ Active(slots) # {} => Pushed
  /\ port.nic = "mlx5" /\ port.ntcs # 8 => tcRate = [v \in Numbers |-> [t \in Tcs |-> 0]]

LEMMA PushFollows ==
  ASSUME PortTable, PortTable', NicFollows, UNCHANGED port, PushShares(slots')
  PROVE  NicFollows'
<1> DEFINE sh == GenShares(slots')
<1>1. qshares' = sh
  BY DEF PushShares
<1>2. GenShares(slots)' = sh
  BY DEF GenShares
<1>3. port.nic # "mlx5" => credits' = Credits(sh)
  BY <1>1 DEF PushShares
<1>4. Credits(qshares)' = Credits(qshares')
  BY DEF Credits
<1>5. ASSUME port.nic = "mlx5", port.ntcs = 8, NEW j \in Active(slots'), NEW t \in Tcs
      PROVE  tcRate'[slots'[j].num][t] = (LinkSpeed * sh[slots'[j].num * 8 + t]) \div 100
  <2>1. tcRate' = TcRates(slots', sh)
    BY <1>1, <1>5 DEF PushShares
  <2>2. slots'[j].num \in Numbers
    <3>1. PICK tb : tb = slots'
      OBVIOUS
    <3>2. TableFits(tb)
      BY <3>1 DEF PortTable
    <3>3. QED
      BY <3>1, <3>2, ActiveSlots
  <2> HIDE DEF sh
  <2>3. PICK v \in Numbers : v = slots'[j].num
    BY <2>2
  <2>4. TcRates(slots', sh)[v][t] = (LinkSpeed * sh[v * 8 + t]) \div 100
    <3>1. \E i \in Active(slots') : slots'[i].num = v
      BY <2>3
    <3>2. QED
      BY <3>1 DEF TcRates
  <2>5. QED
    BY <2>1, <2>3, <2>4
<1>6. port.nic = "mlx5" /\ port.ntcs # 8 => tcRate' = tcRate
  BY DEF PushShares
<1> HIDE DEF sh
<1>7. Pushed'
  BY <1>1, <1>2, <1>3, <1>4, <1>5 DEF Pushed
<1>8. QED
  BY <1>6, <1>7 DEF NicFollows

LEMMA NicFollowsInit == Init => NicFollows
BY DEF Init, NicFollows

LEMMA NicFollowsNext ==
  ASSUME PortTable, PortTable', NicFollows, [Next]_vars
  PROVE  NicFollows'
<1>1. ASSUME NEW c \in Configs, RestoreFile(c) PROVE NicFollows'
  BY <1>1 DEF RestoreFile, NicFollows
<1>2. ASSUME NEW c \in Configs, AddRequest(c) PROVE NicFollows'
  BY <1>2, PushFollows DEF AddRequest
<1>3. ASSUME NEW c \in Configs, DeleteRequest(c) PROVE NicFollows'
  BY <1>3, PushFollows DEF DeleteRequest
<1>4. CASE StartUp
  <2>1. CASE slots = << >>
    <3>1. Active(slots') = {}
      BY <1>4, <2>1, EmptyTable DEF StartUp
    <3>2. port' = port /\ tcRate' = tcRate
      BY <1>4, <2>1 DEF StartUp
    <3>3. QED
      BY <3>1, <3>2 DEF NicFollows
  <2>2. CASE slots # << >>
    <3>1. PushShares(slots) /\ slots' = slots /\ port' = port
      BY <1>4, <2>2 DEF StartUp
    <3>2. PushShares(slots')
      BY <3>1
    <3>3. QED
      BY <3>1, <3>2, PushFollows
  <2>3. QED
    BY <2>1, <2>2
<1>5. CASE Restart
  BY <1>5 DEF Restart, NicFollows
<1>6. CASE UNCHANGED vars
  <2>1. UNCHANGED <<port, phase, slots, qshares, credits, tcRate>>
    BY <1>6 DEF vars
  <2>2. GenShares(slots)' = GenShares(slots) /\ Credits(qshares)' = Credits(qshares)
    BY <2>1 DEF GenShares, Credits
  <2>3. Active(slots)' = Active(slots)
    BY <2>1
  <2>4. ASSUME Pushed PROVE Pushed'
    BY <2>1, <2>2, <2>3, <2>4 DEF Pushed
  <2>5. QED
    BY <2>1, <2>3, <2>4 DEF NicFollows
<1>7. QED
  BY <1>1, <1>2, <1>3, <1>4, <1>5, <1>6 DEF Next

\* What the invariants say of the shares.
LEMMA SharesAreFilled == PortTable /\ NicFollows => SharesFilled
<1> SUFFICES ASSUME PortTable, NicFollows, phase = "running", Active(slots) # {}
             PROVE  SharesFilled
  BY DEF SharesFilled
<1>1. port \in Ports /\ TableFits(slots)
  BY DEF PortTable
<1>2. qshares = GenShares(slots)
  BY DEF NicFollows, Pushed
<1>3. \A q \in Queues :
        (\A j \in Active(slots) : slots[j].num # q \div port.ntcs) => qshares[q] = 0
  BY <1>1, <1>2, ShareOfQueue
<1>4. ASSUME NEW t \in 0 .. port.ntcs - 1, Demand(slots, t) > 0
      PROVE  SumFunctionOnSet(qshares, {q \in Queues : q % port.ntcs = t})
               \in 100 .. 99 + Cardinality(Active(slots))
  <2> DEFINE A == Active(slots)
             sh == [j \in A |-> Share(slots, t, j)]
  <2>1. SumFunctionOnSet(GenShares(slots), {q \in Queues : q % port.ntcs = t}) =
          SumFunctionOnSet(sh, A)
    BY <1>1, SumOfQueues
  <2>2. /\ SumFunctionOnSet(sh, A) >= 100
        /\ SumFunctionOnSet(sh, A) <= 99 + Cardinality(A)
        /\ \A j \in A : sh[j] \in Int
    BY <1>1, <1>4, SharesOfClass
  <2>3. IsFiniteSet(A) /\ Cardinality(A) \in Nat
    BY <1>1, ActiveSlots, FS_CardinalityType
  <2> HIDE DEF A, sh
  <2>4. SumFunctionOnSet(sh, A) \in Int
    BY <2>2, <2>3, SumInt
  <2>5. SumFunctionOnSet(sh, A) \in 100 .. 99 + Cardinality(A)
    BY <2>2, <2>3, <2>4
  <2>6. QED
    BY <1>2, <2>1, <2>5 DEF A
<1>5. ASSUME NEW t \in 0 .. port.ntcs - 1, Demand(slots, t) > 0, NEW j \in Active(slots)
      PROVE  LET d == Demand(slots, t)
                 got == qshares[slots[j].num * port.ntcs + t]
                 exact == QShare(slots[j].cfg, t) * 100
             IN  got * d >= exact /\ got * d <= exact + d
  <2>1. qshares[slots[j].num * port.ntcs + t] = Share(slots, t, j)
    BY <1>1, <1>2, ShareOfQueue
  <2>2. /\ Share(slots, t, j) * Demand(slots, t) >= QShare(slots[j].cfg, t) * 100
        /\ Share(slots, t, j) * Demand(slots, t)
             <= QShare(slots[j].cfg, t) * 100 + Demand(slots, t)
    BY <1>1, <1>5, SharesOfClass
  <2>3. QED
    BY <2>1, <2>2
<1>6. QED
  BY <1>3, <1>4, <1>5 DEF SharesFilled

(***************************************************************************)
(* Credits of an ixgbe.                                                    *)
(***************************************************************************)

\* The smallest share of a class is one of its shares or 100, and at least 1.
LEMMA LowestShare ==
  ASSUME NEW sh, \A q \in Queues : sh[q] \in Nat, NEW t
  PROVE  /\ Lowest(sh, t) \in 1 .. 100
         /\ \A q \in Queues : q % 4 = t /\ sh[q] > 0 => Lowest(sh, t) <= sh[q]
<1> DEFINE Qs == {p \in Queues : p % 4 = t /\ sh[p] > 0}
           S == {100} \cup {sh[q] : q \in Qs}
<1>1. Qs \in SUBSET Queues /\ \A q \in Qs : sh[q] \in Nat /\ sh[q] > 0
  OBVIOUS
<1>2. S \in SUBSET Int /\ S # {} /\ 100 \in S /\ \A x \in S : x >= 1
  <2> HIDE DEF Qs
  <2>1. QED
    BY <1>1
<1>3. IsFiniteSet(S)
  <2>1. IsFiniteSet(Queues)
    BY AdmAssumption, FS_Interval DEF Queues
  <2>2. IsFiniteSet(Qs)
    BY <1>1, <2>1, FS_Subset
  <2> HIDE DEF Qs
  <2>3. IsFiniteSet({sh[q] : q \in Qs})
    <3> DEFINE m == [q \in Qs |-> sh[q]]
               T == {sh[q] : q \in Qs}
    <3>1. m \in Surjection(Qs, T)
      BY DEF Surjection
    <3> HIDE DEF m, T
    <3>2. IsFiniteSet(T)
      BY <2>2, <3>1, FS_Surjection
    <3>3. QED
      BY <3>2 DEF T
  <2>4. IsFiniteSet({sh[q] : q \in Qs} \cup {100})
    BY <2>3, FS_AddElement
  <2>5. S = {sh[q] : q \in Qs} \cup {100}
    OBVIOUS
  <2>6. QED
    BY <2>4, <2>5
<1>4. \A q \in Qs : sh[q] \in S
  OBVIOUS
<1>5. Lowest(sh, t) = Min(S)
  BY DEF Lowest
<1> HIDE DEF S
<1>6. Min(S) \in S /\ \A y \in S : Min(S) <= y
  BY <1>2, <1>3, Extremes
<1>7. Min(S) \in 1 .. 100
  <2>1. Min(S) \in Int /\ Min(S) >= 1 /\ Min(S) <= 100
    <3>1. Min(S) \in Int
      BY <1>2, <1>6
    <3>2. Min(S) >= 1 /\ Min(S) <= 100
      BY <1>2, <1>6
    <3>3. QED
      BY <3>1, <3>2
  <2>2. \A n \in Int : n >= 1 /\ n <= 100 => n \in 1 .. 100
    OBVIOUS
  <2>3. QED
    BY <2>1, <2>2
<1>8. \A q \in Queues : q % 4 = t /\ sh[q] > 0 => q \in Qs
  OBVIOUS
<1> HIDE DEF Qs
<1>9. \A q \in Queues : q % 4 = t /\ sh[q] > 0 => Min(S) <= sh[q]
  BY <1>4, <1>6, <1>8
<1>10. QED
  BY <1>5, <1>7, <1>9

\* ceil(share * mtu / 64 / lowest): credits for those with a share, for a whole frame at
\* least, no fewer for a larger share.
LEMMA CreditsFollow ==
  ASSUME NEW sh, \A q \in Queues : sh[q] \in Nat, NEW q \in Queues
  PROVE  /\ (Credits(sh)[q] > 0) = (sh[q] > 0)
         /\ sh[q] > 0 => Credits(sh)[q] * 64 >= MtuOf
         /\ \A p \in Queues :
              q % 4 = p % 4 /\ sh[q] <= sh[p] => Credits(sh)[q] <= Credits(sh)[p]
<1> DEFINE low == Lowest(sh, q % 4)
           d == 64 * low
           above(p) == IF <<sh[p], low>> \in EndsAbove THEN 1 ELSE 0
           top(p) == sh[p] * MtuOf + above(p) + d - 1
<1>1. low \in 1 .. 100 /\ (sh[q] > 0 => low <= sh[q])
  BY LowestShare
<1>2. MtuOf \in Nat /\ MtuOf >= 1536
  BY AdmAssumption DEF MtuOf
<1>3. ASSUME NEW p \in Queues, p % 4 = q % 4 PROVE Credits(sh)[p] = top(p) \div d
  BY <1>3 DEF Credits
<1> HIDE DEF low
<1>4. d \in Nat \ {0} /\ d = 64 * low /\ low \in Nat
  BY <1>1
<1>16. ASSUME NEW p \in Queues
       PROVE  above(p) \in {0, 1} /\ (sh[p] = 0 => above(p) = 0)
  <2>1. ASSUME <<sh[p], low>> \in EndsAbove PROVE sh[p] # 0
    <3>1. <<sh[p], low>>[1] # 0
      BY <2>1, AdmAssumption
    <3>2. QED
      BY <3>1
  <2>2. QED
    BY <2>1
<1>17. \A p, r \in Queues : sh[p] = sh[r] => above(p) = above(r)
  OBVIOUS
<1> HIDE DEF above
<1>5. ASSUME NEW p \in Queues
      PROVE  /\ sh[p] \in Nat /\ sh[p] * MtuOf \in Nat
             /\ top(p) \in Nat /\ top(p) = sh[p] * MtuOf + above(p) + (d - 1)
  <2>1. sh[p] \in Nat /\ sh[p] * MtuOf \in Nat
    BY <1>2
  <2>2. above(p) \in {0, 1}
    BY <1>16
  <2>3. QED
    BY <1>4, <2>1, <2>2
<1> HIDE DEF d, top
<1>6. PICK T \in Nat : T = top(q)
  BY <1>5
<1>7. PICK k \in Nat : k = Credits(sh)[q] /\ k = T \div d
  <2>1. Credits(sh)[q] = T \div d
    BY <1>3, <1>6
  <2>2. T \div d \in Nat
    BY <1>4, Quotient
  <2>3. QED
    BY <2>1, <2>2
<1>8. k * d <= T /\ T < k * d + d /\ k * d \in Nat
  <2>1. (T \div d) * d <= T /\ T < (T \div d) * d + d
    BY <1>4, Quotient
  <2>2. k * d \in Nat
    BY <1>4
  <2>3. QED
    BY <1>7, <2>1, <2>2
<1>9. ASSUME sh[q] = 0 PROVE ~(Credits(sh)[q] > 0)
  <2>1. sh[q] * MtuOf = 0
    BY <1>2, <1>9
  <2>2. T = d - 1
    BY <1>4, <1>5, <1>6, <1>9, <1>16, <2>1
  <2>3. ~(1 <= k)
    <3>1. 1 <= T \div d <=> 1 * d <= T
      BY <1>4, QuotientAtLeast
    <3>2. QED
      BY <1>4, <1>7, <2>2, <3>1
  <2>4. QED
    BY <1>7, <2>3
<1>10. ASSUME sh[q] > 0 PROVE Credits(sh)[q] > 0 /\ Credits(sh)[q] * 64 >= MtuOf
  <2>1. low * MtuOf <= sh[q] * MtuOf
    BY <1>1, <1>2, <1>4, <1>5, <1>10, Product
  <2>2. sh[q] * MtuOf < k * d + 1
    BY <1>4, <1>5, <1>8, <1>6, <1>16
  <2>3. low * MtuOf \in Nat /\ low * MtuOf <= k * d
    BY <1>2, <1>4, <1>5, <1>8, <2>1, <2>2
  <2>4. k * d = low * (k * 64)
    BY <1>4
  <2>5. MtuOf <= k * 64
    <3>1. CASE k * 64 + 1 <= MtuOf
      <4>1. (k * 64 + 1) * low <= MtuOf * low
        BY <1>2, <1>4, <3>1, Product
      <4>2. (k * 64 + 1) * low = low * (k * 64) + low /\ MtuOf * low = low * MtuOf
        BY <1>2, <1>4
      <4>3. QED
        BY <1>1, <1>2, <1>4, <2>3, <2>4, <4>1, <4>2
    <3>2. QED
      BY <1>2, <3>1
  <2>6. k > 0
    BY <1>2, <2>5
  <2>7. QED
    BY <1>2, <1>7, <2>5, <2>6
<1>11. ASSUME NEW p \in Queues, q % 4 = p % 4, sh[q] <= sh[p]
       PROVE  Credits(sh)[q] <= Credits(sh)[p]
  <2>2. PICK U \in Nat : U = top(p)
    BY <1>5
  <2>3. T \div d <= U \div d
    <3>1. T <= U
      <4>1. CASE sh[q] = sh[p]
        BY <1>4, <1>5, <1>6, <1>17, <2>2, <4>1
      <4>2. CASE sh[q] + 1 <= sh[p]
        <5>1. (sh[q] + 1) * MtuOf <= sh[p] * MtuOf
          <6>1. sh[q] + 1 \in Nat /\ sh[p] \in Nat /\ MtuOf \in Nat
            BY <1>2, <1>5
          <6>2. QED
            BY <4>2, <6>1, Product
        <5>2. (sh[q] + 1) * MtuOf = sh[q] * MtuOf + MtuOf
          BY <1>2, <1>5
        <5>3. PICK a \in Nat, b \in Nat : a = sh[q] * MtuOf /\ b = sh[p] * MtuOf
          BY <1>5
        <5>4. above(q) \in {0, 1} /\ above(p) \in {0, 1}
          BY <1>16
        <5>5. a + MtuOf <= b /\ T = a + above(q) + (d - 1) /\ U = b + above(p) + (d - 1)
          BY <1>5, <1>6, <2>2, <5>1, <5>2, <5>3
        <5>6. QED
          BY <1>2, <1>4, <5>3, <5>4, <5>5
      <4>3. sh[q] \in Nat /\ sh[p] \in Nat
        BY <1>5
      <4>4. QED
        BY <1>11, <4>1, <4>2, <4>3
    <3>2. QED
      BY <1>4, <3>1, QuotientMonotone
  <2>4. Credits(sh)[p] = U \div d
    BY <1>3, <1>11, <2>2
  <2>5. QED
    BY <1>7, <2>3, <2>4
<1>12. \A p \in Queues :
         q % 4 = p % 4 /\ sh[q] <= sh[p] => Credits(sh)[q] <= Credits(sh)[p]
  BY <1>11
<1>13. (Credits(sh)[q] > 0) = (sh[q] > 0)
  <2>1. sh[q] \in Nat
    BY <1>5
  <2>2. QED
    BY <1>9, <1>10, <2>1
<1>14. sh[q] > 0 => Credits(sh)[q] * 64 >= MtuOf
  BY <1>10
<1>15. QED
  BY <1>12, <1>13, <1>14

(***************************************************************************)
(* Rates of an mlx5.                                                       *)
(***************************************************************************)

\* Parts of the link, rounded down, come to no more than the shares they are of.
LEMMA RatesOfLink ==
  ASSUME NEW S, IsFiniteSet(S), NEW share, NEW rate, NEW k \in Nat,
         \A x \in S : share[x] \in Nat /\ rate[x] = (LinkSpeed * share[x]) \div 100,
         SumFunctionOnSet(share, S) <= k
  PROVE  SumFunctionOnSet(rate, S) * 100 <= LinkSpeed * k
<1> DEFINE total == [x \in S |-> 100 * rate[x]]
           exact == [x \in S |-> LinkSpeed * share[x]]
<1>1. LinkSpeed \in Nat
  BY AdmAssumption
<1>2. ASSUME NEW x \in S
      PROVE  rate[x] \in Nat /\ total[x] \in Int /\ exact[x] \in Int /\ total[x] <= exact[x]
  <2>1. PICK c \in Nat : c = LinkSpeed * share[x]
    BY <1>1
  <2>2. rate[x] = c \div 100
    BY <2>1
  <2>3. \A n \in Nat : n \div 100 \in Nat /\ 100 * (n \div 100) <= n
    OBVIOUS
  <2>4. c \div 100 \in Nat /\ 100 * (c \div 100) <= c
    BY <2>3
  <2>5. total[x] = 100 * (c \div 100) /\ exact[x] = c
    BY <2>1, <2>2
  <2> HIDE DEF total, exact
  <2>6. QED
    BY <2>2, <2>4, <2>5
<1>3. \A x \in S : rate[x] \in Int /\ total[x] = 100 * rate[x]
  BY <1>2
<1>4. \A x \in S : share[x] \in Int /\ exact[x] = LinkSpeed * share[x]
  OBVIOUS
<1> HIDE DEF total, exact
<1>5. SumFunctionOnSet(total, S) = 100 * SumFunctionOnSet(rate, S)
  BY <1>3, SumTimes
<1>6. SumFunctionOnSet(exact, S) = LinkSpeed * SumFunctionOnSet(share, S)
  BY <1>1, <1>4, SumTimes
<1>7. SumFunctionOnSet(total, S) <= SumFunctionOnSet(exact, S)
  <2>1. S \in SUBSET S /\ \A x \in S \ S : 0 <= exact[x]
    OBVIOUS
  <2>2. QED
    BY <1>2, <2>1, SumLeq
<1>8. PICK r \in Nat, s \in Nat :
        r = SumFunctionOnSet(rate, S) /\ s = SumFunctionOnSet(share, S)
  <2>1. SumFunctionOnSet(rate, S) \in Nat
    BY <1>2, SumNat
  <2>2. SumFunctionOnSet(share, S) \in Nat
    BY SumNat
  <2>3. QED
    BY <2>1, <2>2
<1>9. 100 * r <= LinkSpeed * s /\ s <= k
  BY <1>5, <1>6, <1>7, <1>8
<1>10. s * LinkSpeed <= k * LinkSpeed
  BY <1>1, <1>9, Product
<1>11. /\ s * LinkSpeed = LinkSpeed * s /\ LinkSpeed * s \in Nat
       /\ k * LinkSpeed = LinkSpeed * k /\ LinkSpeed * k \in Nat
  BY <1>1
<1>12. r * 100 <= LinkSpeed * k
  BY <1>8, <1>9, <1>10, <1>11
<1>13. QED
  BY <1>8, <1>12

\* A share that is at least s of d parts is a rate of at least that part of the link, less
\* what rounding cuts off.
LEMMA RateAtLeast ==
  ASSUME NEW g \in Nat, NEW d \in Nat \ {0}, NEW s \in Nat, g * d >= s * 100
  PROVE  ((LinkSpeed * g) \div 100 + 1) * d > LinkSpeed * s
<1>1. LinkSpeed \in Nat
  BY AdmAssumption
<1>2. PICK c \in Nat : c = LinkSpeed * g
  BY <1>1
<1>3. PICK q \in Nat : q = c \div 100 /\ c + 1 <= (q + 1) * 100
  <2>1. \A n \in Nat : n \div 100 \in Nat /\ n + 1 <= (n \div 100 + 1) * 100
    OBVIOUS
  <2>2. c \div 100 \in Nat /\ c + 1 <= (c \div 100 + 1) * 100
    BY <2>1
  <2>3. QED
    BY <2>2
<1>4. (c + 1) * d <= ((q + 1) * 100) * d
  <2>1. PICK a \in Nat : a = (q + 1) * 100
    BY <1>3
  <2>2. (c + 1) * d <= a * d
    BY <1>3, <2>1, Product
  <2>3. QED
    BY <2>1, <2>2
<1>5. PICK X \in Nat, Y \in Nat, Z \in Nat : X = (q + 1) * d /\ Y = LinkSpeed * s /\ Z = c * d
  BY <1>1
<1>6. ((q + 1) * 100) * d = 100 * X /\ (c + 1) * d = Z + d
  BY <1>5
<1>7. 100 * Y <= Z
  <2>1. PICK a \in Nat, b \in Nat : a = s * 100 /\ b = g * d
    OBVIOUS
  <2>2. a * LinkSpeed <= b * LinkSpeed
    BY <1>1, <2>1, Product
  <2>3. a * LinkSpeed = 100 * Y
    BY <1>1, <1>5, <2>1
  <2>4. b * LinkSpeed = Z
    <3>1. (g * d) * LinkSpeed = (LinkSpeed * g) * d
      BY <1>1
    <3>2. QED
      BY <1>2, <1>5, <2>1, <3>1
  <2>5. QED
    BY <2>2, <2>3, <2>4
<1>8. Z + d <= 100 * X
  BY <1>4, <1>6
<1>9. X > Y
  BY <1>5, <1>7, <1>8
<1>10. QED
  BY <1>2, <1>3, <1>5, <1>9

\* The invariants give what the properties say of the NIC.
LEMMA NicFollowsTheShares == PortTable /\ NicFollows => NicFollowsShares
<1> SUFFICES ASSUME PortTable, NicFollows, phase = "running", Active(slots) # {}
             PROVE  NicFollowsShares
  BY DEF NicFollowsShares
<1>1. port \in Ports /\ TableFits(slots)
  BY DEF PortTable
<1>2. Pushed
  BY DEF NicFollows
<1>3. qshares = GenShares(slots) /\ \A q \in Queues : qshares[q] \in Nat
  BY <1>1, <1>2, ShareOfQueue DEF Pushed
<1> DEFINE A == Active(slots)
           rates(t) == [j \in A |-> tcRate[slots[j].num][t]]
<1>4. IsFiniteSet(A) /\ \A j \in A : slots[j].num \in Numbers
  BY <1>1, ActiveSlots
<1>5. ASSUME port.nic = "mlx5", port.ntcs = 8, NEW t \in Tcs
      PROVE  /\ \A j \in A :
                  Demand(slots, t) > 0 =>
                    (tcRate[slots[j].num][t] + 1) * Demand(slots, t)
                      > LinkSpeed * QShare(slots[j].cfg, t)
             /\ SumFunctionOnSet(rates(t), A) * 100 <= LinkSpeed * (99 + Cardinality(A))
  <2> DEFINE share == [j \in A |-> Share(slots, t, j)]
  <2>1. ASSUME NEW j \in A
        PROVE  /\ share[j] \in Nat
               /\ tcRate[slots[j].num][t] = (LinkSpeed * share[j]) \div 100
               /\ rates(t)[j] = (LinkSpeed * share[j]) \div 100
    <3>1. t \in 0 .. port.ntcs - 1
      BY <1>5 DEF Tcs
    <3>2. qshares[slots[j].num * port.ntcs + t] = Share(slots, t, j)
      BY <1>1, <1>3, <3>1, ShareOfQueue
    <3>3. tcRate[slots[j].num][t] = (LinkSpeed * qshares[slots[j].num * 8 + t]) \div 100
      BY <1>2, <1>5 DEF Pushed
    <3>4. Share(slots, t, j) \in Nat
      BY <1>1, SharesOfClass
    <3>5. QED
      BY <1>5, <3>2, <3>3, <3>4
  <2>2. SumFunctionOnSet(share, A) <= 99 + Cardinality(A)
    BY <1>1, SharesOfClass
  <2>3. ASSUME NEW j \in A, Demand(slots, t) > 0
        PROVE  (tcRate[slots[j].num][t] + 1) * Demand(slots, t)
                 > LinkSpeed * QShare(slots[j].cfg, t)
    <3>1. Share(slots, t, j) * Demand(slots, t) >= QShare(slots[j].cfg, t) * 100
      BY <1>1, <2>3, SharesOfClass
    <3>2. Demand(slots, t) \in Nat /\ QShare(slots[j].cfg, t) \in Nat
      BY <1>1, ScaledShare
    <3>3. PICK g \in Nat : g = Share(slots, t, j)
      BY <2>1
    <3>4. PICK d \in Nat \ {0} : d = Demand(slots, t)
      BY <2>3, <3>2
    <3>5. PICK s \in Nat : s = QShare(slots[j].cfg, t)
      BY <3>2
    <3>6. ((LinkSpeed * g) \div 100 + 1) * d > LinkSpeed * s
      BY <3>1, <3>3, <3>4, <3>5, RateAtLeast
    <3>7. tcRate[slots[j].num][t] = (LinkSpeed * g) \div 100
      BY <2>1, <3>3
    <3>8. QED
      BY <3>4, <3>5, <3>6, <3>7
  <2>4. SumFunctionOnSet(rates(t), A) * 100 <= LinkSpeed * (99 + Cardinality(A))
    <3>1. \A j \in A : share[j] \in Nat /\ rates(t)[j] = (LinkSpeed * share[j]) \div 100
      BY <2>1
    <3>2. 99 + Cardinality(A) \in Nat
      BY <1>4, FS_CardinalityType
    <3> HIDE DEF share, rates, A
    <3>3. QED
      BY <1>4, <2>2, <3>1, <3>2, RatesOfLink
  <2>5. QED
    BY <2>3, <2>4
<1>6. ASSUME port.nic # "mlx5", NEW q \in Queues
      PROVE  /\ (credits[q] > 0) = (qshares[q] > 0)
             /\ qshares[q] > 0 => credits[q] * 64 >= MtuOf
             /\ \A p \in Queues :
                  q % 4 = p % 4 /\ qshares[q] <= qshares[p] => credits[q] <= credits[p]
  <2>1. credits = Credits(qshares)
    BY <1>2, <1>6 DEF Pushed
  <2>2. QED
    BY <1>3, <2>1, CreditsFollow
<1>7. QED
  BY <1>5, <1>6 DEF NicFollowsShares

LEMMA NicInvariant == Spec => [](PortTable /\ NicFollows)
<1>1. Init => PortTable /\ NicFollows
  BY PortTableInit, NicFollowsInit
<1>2. PortTable /\ NicFollows /\ [Next]_vars => PortTable' /\ NicFollows'
  BY PortTableNext, NicFollowsNext
<1>3. QED
  BY <1>1, <1>2, PTL DEF Spec

\* Property SharesFilled: between requests each VF has at least its part of every class
\* somebody asked for and at most one percent more, a class comes to 100 and less than its
\* number of VFs more, and queues of no VF have none, for any number of VFs, any files and
\* either number of classes (gen_port_qshares).
THEOREM SharesFill == Spec => []SharesFilled
BY NicInvariant, SharesAreFilled, PTL

\* Property NicFollowsShares: the credits of an ixgbe are there for every queue with a
\* share, enough for one frame and no fewer for a larger share (qos_set_credits); the
\* rates of an mlx5 give each VF its part of the link, and those of a class promise less
\* than one percent of it per VF too much (mlx5_set_vf_tcqos); for any MTU, speed, number
\* of VFs and files.
THEOREM RegistersFollow == Spec => []NicFollowsShares
BY NicInvariant, NicFollowsTheShares, PTL

=============================================================================
