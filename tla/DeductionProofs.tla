--------------------------- MODULE DeductionProofs ---------------------------
(***************************************************************************)
(* Facts about the pure operators of Deduction, for lists of any length:   *)
(* the comparator is a strict total order on distinct subscriptions and    *)
(* what prepare returns is determined by it; what one turn of the split    *)
(* and one write of a row do to a list; and what the whole of a split and  *)
(* of its write-back come to, which is the waterfall.                      *)
(***************************************************************************)
EXTENDS LadderOps, Waterfall, FiniteSetTheorems, SequenceTheorems, TLAPS

-----------------------------------------------------------------------------
(***************************************************************************)
(* Folds.  The library's induction theorems take the property as an        *)
(* operator; what replaces them is that a set of subsets of a finite set   *)
(* has a smallest member, so that a claim about all subsets is refuted by  *)
(* a smallest counterexample.  It shows that a fold of Folds.tla, which is *)
(* defined by CHOOSE, has a value at all, that a sum does not depend on    *)
(* the order CHOOSE picks, and that a left fold has a trace: a sequence of *)
(* intermediate values, each made from the one before.                     *)
(***************************************************************************)

\* A set of sets of members of S has one none of whose direct subsets is in it.
LEMMA SmallestSet ==
    ASSUME NEW S, IsFiniteSet(S), NEW Bad, Bad \subseteq SUBSET S, Bad # {}
    PROVE  \E T \in Bad : \A x \in T : T \ {x} \notin Bad
<1>1. Bad \subseteq FiniteSubsetsOf(S)
    BY FS_Subset DEF FiniteSubsetsOf
<1>2. PICK T \in Bad : \A U \in Bad : ~(<<U, T>> \in StrictSubsetOrdering(S))
    BY <1>1, FS_StrictSubsetOrderingWellFounded, WFMin
<1>3. ASSUME NEW x \in T PROVE T \ {x} \notin Bad
    BY <1>2 DEF StrictSubsetOrdering
<1>4. QED
    BY <1>3

\* g has the fold of every subset of T: the element picked last, on top of the rest.
Folding(g, T, V, base, h, pick) ==
    /\ g \in [SUBSET T -> V]
    /\ \A U \in SUBSET T :
          g[U] = IF U = {} THEN base ELSE h[<<g[U \ {pick[U]}], pick[U]>>]

\* Two foldings by the same picks agree on every set both are defined on.
LEMMA FoldUnique ==
    ASSUME NEW S, IsFiniteSet(S), NEW V, NEW base, NEW h,
           NEW pick, \A U \in SUBSET S : U # {} => pick[U] \in U,
           NEW T1 \in SUBSET S, NEW T2 \in SUBSET S, NEW g1, NEW g2,
           Folding(g1, T1, V, base, h, pick), Folding(g2, T2, V, base, h, pick),
           NEW U0, U0 \subseteq T1, U0 \subseteq T2
    PROVE  g1[U0] = g2[U0]
<1> DEFINE Bad == {U \in SUBSET S : U \subseteq T1 /\ U \subseteq T2 /\ g1[U] # g2[U]}
<1>1. SUFFICES ASSUME Bad # {} PROVE FALSE
    OBVIOUS
<1>2. PICK U \in Bad : \A x \in U : U \ {x} \notin Bad
    BY <1>1, SmallestSet
<1>3. CASE U = {}
    BY <1>2, <1>3 DEF Folding
<1>4. CASE U # {}
    <2>1. PICK x \in U : x = pick[U]
        BY <1>4
    <2>2. g1[U \ {x}] = g2[U \ {x}]
        BY <1>2
    <2>3. g1[U] = h[<<g1[U \ {x}], x>>] /\ g2[U] = h[<<g2[U \ {x}], x>>]
        BY <1>4, <2>1 DEF Folding
    <2>4. QED
        BY <2>2, <2>3
<1>5. QED
    BY <1>3, <1>4

\* Every finite set has a folding.
LEMMA FoldExists ==
    ASSUME NEW S, IsFiniteSet(S), NEW V, NEW base \in V, NEW h \in [V \X S -> V],
           NEW pick, \A T \in SUBSET S : T # {} => pick[T] \in T
    PROVE  \E g : Folding(g, S, V, base, h, pick)
<1> DEFINE Good(T, g) == Folding(g, T, V, base, h, pick)
           Bad == {T \in SUBSET S : ~ \E g : Good(T, g)}
<1>1. SUFFICES ASSUME Bad # {} PROVE FALSE
    OBVIOUS
<1>2. PICK T \in Bad : \A x \in T : T \ {x} \notin Bad
    BY <1>1, SmallestSet
<1> DEFINE part == [x \in T |-> CHOOSE g : Good(T \ {x}, g)]
<1>3. \A x \in T : Folding(part[x], T \ {x}, V, base, h, pick)
    BY <1>2
<1> DEFINE top == IF T = {} THEN base ELSE h[<<part[pick[T]][T \ {pick[T]}], pick[T]>>]
           lack(U) == CHOOSE x \in T : x \notin U
           g == [U \in SUBSET T |-> IF U = T THEN top ELSE part[lack(U)][U]]
<1> HIDE DEF part
<1>4. \A x \in T : \A U \in SUBSET (T \ {x}) : part[x][U] \in V
    <2> SUFFICES ASSUME NEW x \in T, NEW U \in SUBSET (T \ {x}) PROVE part[x][U] \in V
        OBVIOUS
    <2>1. part[x] \in [SUBSET (T \ {x}) -> V]
        BY <1>3 DEF Folding
    <2>2. QED
        BY <2>1
<1>5. top \in V
    <2>1. CASE T = {}
        BY <2>1
    <2>2. CASE T # {}
        <3>1. PICK x \in T : x = pick[T]
            BY <2>2
        <3>2. part[x][T \ {x}] \in V /\ x \in S
            BY <1>4
        <3>3. QED
            BY <2>2, <3>1, <3>2
    <2>3. QED
        BY <2>1, <2>2
<1>6. \A U \in SUBSET T : U # T => lack(U) \in T /\ U \subseteq T \ {lack(U)}
    OBVIOUS
<1> HIDE DEF lack
<1>7. \A U \in SUBSET T, x \in T : x \notin U => g[U] = part[x][U]
    <2> SUFFICES ASSUME NEW U \in SUBSET T, NEW x \in T, x \notin U PROVE g[U] = part[x][U]
        OBVIOUS
    <2>1. PICK y \in T : y = lack(U) /\ U \subseteq T \ {y}
        BY <1>6
    <2>2. PICK A \in SUBSET S : A = T \ {x} /\ Folding(part[x], A, V, base, h, pick)
        BY <1>3
    <2>3. PICK B \in SUBSET S : B = T \ {y} /\ Folding(part[y], B, V, base, h, pick)
        BY <1>3
    <2>4. U \subseteq A /\ U \subseteq B
        BY <2>1, <2>2, <2>3
    <2>5. part[y][U] = part[x][U]
        <3> HIDE DEF g, top
        <3> QED BY <2>2, <2>3, <2>4, FoldUnique
    <2>6. QED
        BY <2>1, <2>5
<1>8. g \in [SUBSET T -> V]
    BY <1>3, <1>4, <1>6 DEF Folding
<1>9. ASSUME NEW U \in SUBSET T
      PROVE  g[U] = IF U = {} THEN base ELSE h[<<g[U \ {pick[U]}], pick[U]>>]
    <2>1. CASE U = T /\ T = {}
        BY <2>1
    <2>2. CASE U = T /\ T # {}
        <3>1. pick[T] \in T /\ g[T \ {pick[T]}] = part[pick[T]][T \ {pick[T]}]
            BY <1>7, <2>2
        <3>2. QED
            BY <2>2, <3>1
    <2>3. CASE U # T
        <3>1. PICK x \in T : x \notin U
            BY <2>3
        <3>2. g[U] = part[x][U] /\ \A W \in SUBSET U : g[W] = part[x][W]
            BY <1>7, <3>1
        <3>3. Folding(part[x], T \ {x}, V, base, h, pick)
            BY <1>3
        <3>4. QED
            BY <3>1, <3>2, <3>3 DEF Folding
    <2>4. QED
        BY <2>1, <2>2, <2>3
<1>10. Good(T, g)
    BY <1>8, <1>9 DEF Folding
<1>11. QED
    BY <1>10

Sums(g, f, S) ==
    g = [s \in SUBSET S |-> IF s = {} THEN 0
                            ELSE f[CHOOSE x \in s : TRUE] + g[s \ {CHOOSE x \in s : TRUE}]]

\* The sums of f over the subsets of a finite set are such a folding.
LEMMA SumsExist ==
    ASSUME NEW S, IsFiniteSet(S), NEW f, \A x \in S : f[x] \in Nat
    PROVE  \E g : g \in [SUBSET S -> Nat] /\ Sums(g, f, S)
<1> DEFINE pick == [U \in SUBSET S |-> CHOOSE x \in U : TRUE]
           h == [w \in Nat \X S |-> f[w[2]] + w[1]]
<1>1. h \in [Nat \X S -> Nat]
    OBVIOUS
<1>2. \A U \in SUBSET S : U # {} => pick[U] \in U
    OBVIOUS
<1>3. \A n \in Nat, x \in S : h[<<n, x>>] = f[x] + n
    OBVIOUS
<1>4. \A U \in SUBSET S : pick[U] = CHOOSE x \in U : TRUE
    OBVIOUS
<1> HIDE DEF pick, h
<1>5. PICK g : Folding(g, S, Nat, 0, h, pick)
    BY <1>1, <1>2, FoldExists
<1>6. g \in [SUBSET S -> Nat]
    BY <1>5 DEF Folding
<1>7. ASSUME NEW U \in SUBSET S
      PROVE  g[U] = IF U = {} THEN 0
                     ELSE f[CHOOSE x \in U : TRUE] + g[U \ {CHOOSE x \in U : TRUE}]
    <2>1. CASE U = {}
        BY <1>5, <2>1 DEF Folding
    <2>2. CASE U # {}
        <3>1. PICK x \in U : x = pick[U]
            BY <1>2, <2>2
        <3>2. g[U] = h[<<g[U \ {x}], x>>]
            BY <1>5, <2>2, <3>1 DEF Folding
        <3>3. g[U \ {x}] \in Nat
            BY <1>6
        <3>4. g[U] = f[x] + g[U \ {x}]
            BY <1>3, <3>2, <3>3
        <3>5. QED
            BY <1>4, <2>2, <3>1, <3>4
    <2>3. QED
        BY <2>1, <2>2
<1>8. Sums(g, f, S)
    BY <1>6, <1>7 DEF Sums
<1>9. QED
    BY <1>6, <1>8

\* The sum the community module computes is taken from one of them.
LEMMA SumIs ==
    ASSUME NEW S, NEW f
    PROVE  SumFunctionOnSet(f, S) = (CHOOSE g : Sums(g, f, S))[S]
BY DEF SumFunctionOnSet, FoldFunctionOnSet, MapThenFoldSet, Sums

\* A sum is the sum without one member, and that member.
LEMMA SumStep ==
    ASSUME NEW S, IsFiniteSet(S), NEW f, \A x \in S : f[x] \in Nat
    PROVE  /\ SumFunctionOnSet(f, S) \in Nat
           /\ S = {} => SumFunctionOnSet(f, S) = 0
           /\ \A x : x = (CHOOSE y \in S : TRUE) /\ S # {} =>
                 x \in S /\ SumFunctionOnSet(f, S) = f[x] + SumFunctionOnSet(f, S \ {x})
<1> DEFINE G(T) == CHOOSE g : Sums(g, f, T)
           pick == [U \in SUBSET S |-> CHOOSE x \in U : TRUE]
<1>0. \A U \in SUBSET S : U # {} => pick[U] \in U
    OBVIOUS
<1>1. ASSUME NEW T \in SUBSET S
      PROVE  \E g : g \in [SUBSET T -> Nat] /\ Sums(g, f, T)
    <2>1. IsFiniteSet(T)
        BY FS_Subset
    <2>2. QED
        BY <2>1, SumsExist
<1>2. \A T \in SUBSET S : Sums(G(T), f, T)
    BY <1>1
<1>3. \A T \in SUBSET S : SumFunctionOnSet(f, T) = G(T)[T]
    BY SumIs
<1> HIDE DEF G
<1>4. ASSUME NEW T \in SUBSET S, NEW g, Sums(g, f, T), NEW U \in SUBSET T
      PROVE  g[U] = SumFunctionOnSet(f, U)
    <2> DEFINE Bad == {W \in SUBSET U : g[W] # G(U)[W]}
    <2>1. Sums(G(U), f, U)
        BY <1>2
    <2>2. IsFiniteSet(U)
        BY FS_Subset
    <2>3. ASSUME Bad # {} PROVE FALSE
        <3>1. PICK W \in Bad : \A x \in W : W \ {x} \notin Bad
            BY <2>2, <2>3, SmallestSet
        <3>2. CASE W = {}
            BY <1>4, <2>1, <3>1, <3>2 DEF Sums
        <3>3. CASE W # {}
            <4>1. PICK x \in W : x = CHOOSE y \in W : TRUE
                BY <3>3
            <4>2. g[W \ {x}] = G(U)[W \ {x}]
                BY <3>1
            <4>3. g[W] = f[x] + g[W \ {x}]
                BY <1>4, <3>3, <4>1 DEF Sums
            <4>4. G(U)[W] = f[x] + G(U)[W \ {x}]
                BY <2>1, <3>3, <4>1 DEF Sums
            <4>5. QED
                BY <3>1, <4>2, <4>3, <4>4
        <3>4. QED
            BY <3>2, <3>3
    <2>4. g[U] = G(U)[U]
        BY <2>3
    <2>5. QED
        BY <1>3, <2>4
<1>5. PICK g : g \in [SUBSET S -> Nat] /\ Sums(g, f, S)
    BY <1>1
<1>6. \A U \in SUBSET S : g[U] = SumFunctionOnSet(f, U)
    BY <1>4, <1>5
<1>7. g[S] \in Nat /\ g[S] = SumFunctionOnSet(f, S)
    BY <1>5, <1>6
<1>8. S = {} => g[S] = 0
    BY <1>5 DEF Sums
<1>9. ASSUME NEW x, x = (CHOOSE y \in S : TRUE), S # {}
      PROVE  x \in S /\ g[S] = f[x] + g[S \ {x}]
    BY <1>5, <1>9 DEF Sums
<1>10. \A x : g[S \ {x}] = SumFunctionOnSet(f, S \ {x})
    BY <1>6
<1>11. QED
    BY <1>7, <1>8, <1>9, <1>10

\* Any member may be taken out first.
LEMMA SumRemove ==
    ASSUME NEW S, IsFiniteSet(S), NEW f, \A x \in S : f[x] \in Nat, NEW x0 \in S
    PROVE  SumFunctionOnSet(f, S) = f[x0] + SumFunctionOnSet(f, S \ {x0})
<1> DEFINE F(T) == SumFunctionOnSet(f, T)
           Bad == {T \in SUBSET S : \E x \in T : F(T) # f[x] + F(T \ {x})}
<1>1. SUFFICES ASSUME Bad # {} PROVE FALSE
    OBVIOUS
<1>2. PICK T \in Bad : \A x \in T : T \ {x} \notin Bad
    BY <1>1, SmallestSet
<1>3. \A U \in SUBSET S : F(U) \in Nat
    <2> SUFFICES ASSUME NEW U \in SUBSET S PROVE F(U) \in Nat
        OBVIOUS
    <2>1. IsFiniteSet(U)
        BY FS_Subset
    <2>2. QED
        BY <2>1, SumStep
<1>4. \A U \in SUBSET S : U # {} =>
          \E c \in U : c = (CHOOSE y \in U : TRUE) /\ F(U) = f[c] + F(U \ {c})
    <2> SUFFICES ASSUME NEW U \in SUBSET S, U # {}
                 PROVE \E c \in U : c = (CHOOSE y \in U : TRUE) /\ F(U) = f[c] + F(U \ {c})
        OBVIOUS
    <2>1. IsFiniteSet(U)
        BY FS_Subset
    <2>2. PICK c \in U : c = CHOOSE y \in U : TRUE
        OBVIOUS
    <2>3. QED
        BY <2>1, <2>2, SumStep
<1> HIDE DEF F
<1>5. PICK x \in T : F(T) # f[x] + F(T \ {x})
    BY <1>2
<1>6. PICK c \in T : F(T) = f[c] + F(T \ {c})
    BY <1>4
<1>7. x # c
    BY <1>5, <1>6
<1>8. F(T \ {c}) = f[x] + F((T \ {c}) \ {x})
    BY <1>2, <1>7
<1>9. F(T \ {x}) = f[c] + F((T \ {x}) \ {c})
    BY <1>2, <1>7
<1>10. (T \ {x}) \ {c} = (T \ {c}) \ {x}
    OBVIOUS
<1>11. PICK a \in Nat, b \in Nat, r \in Nat :
          a = f[x] /\ b = f[c] /\ r = F((T \ {c}) \ {x})
    BY <1>3
<1>12. F(T) = b + (a + r) /\ F(T \ {x}) = b + r
    BY <1>6, <1>8, <1>9, <1>10, <1>11
<1>13. b + (a + r) = a + (b + r)
    OBVIOUS
<1>14. QED
    BY <1>5, <1>11, <1>12, <1>13

\* A sum of naturals is a natural.
LEMMA SumType ==
    ASSUME NEW S, IsFiniteSet(S), NEW f, \A x \in S : f[x] \in Nat
    PROVE  SumFunctionOnSet(f, S) \in Nat
BY SumStep

\* Nothing adds up to 0.
LEMMA SumEmpty == \A f : SumFunctionOnSet(f, {}) = 0
<1> SUFFICES ASSUME NEW f PROVE SumFunctionOnSet(f, {}) = 0
    OBVIOUS
<1>1. IsFiniteSet({}) /\ \A x \in {} : f[x] \in Nat
    BY FS_EmptySet
<1>2. QED
    BY <1>1, SumStep

\* A member more adds its value.
LEMMA SumAdd ==
    ASSUME NEW S, IsFiniteSet(S), NEW f, NEW x0, x0 \notin S,
           f[x0] \in Nat, \A x \in S : f[x] \in Nat
    PROVE  SumFunctionOnSet(f, S \cup {x0}) = f[x0] + SumFunctionOnSet(f, S)
<1> DEFINE T == S \cup {x0}
<1>1. T \ {x0} = S /\ x0 \in T
    OBVIOUS
<1>2. IsFiniteSet(T) /\ \A x \in T : f[x] \in Nat
    BY <1>1, FS_AddElement
<1>3. SumFunctionOnSet(f, T) = f[x0] + SumFunctionOnSet(f, T \ {x0})
    BY <1>1, <1>2, SumRemove
<1>4. QED
    BY <1>1, <1>3

\* The sum depends on the values only.
LEMMA SumSame ==
    ASSUME NEW S, IsFiniteSet(S), NEW f, NEW g, \A x \in S : f[x] \in Nat /\ g[x] = f[x]
    PROVE  SumFunctionOnSet(g, S) = SumFunctionOnSet(f, S)
<1> DEFINE F(T) == SumFunctionOnSet(f, T)
           G(T) == SumFunctionOnSet(g, T)
           Bad == {T \in SUBSET S : G(T) # F(T)}
<1>1. SUFFICES ASSUME Bad # {} PROVE FALSE
    OBVIOUS
<1>2. PICK T \in Bad : \A x \in T : T \ {x} \notin Bad
    BY <1>1, SmallestSet
<1>3. IsFiniteSet(T) /\ \A x \in T : f[x] \in Nat /\ g[x] \in Nat
    BY FS_Subset
<1>4. CASE T = {}
    BY <1>2, <1>4, SumEmpty
<1>5. CASE T # {}
    <2>1. PICK x : x \in T
        BY <1>5
    <2>2. F(T) = f[x] + F(T \ {x}) /\ G(T) = g[x] + G(T \ {x})
        BY <1>3, <2>1, SumRemove
    <2>3. F(T \ {x}) = G(T \ {x}) /\ f[x] = g[x]
        BY <1>2, <2>1
    <2>4. QED
        BY <1>2, <2>2, <2>3
<1>6. QED
    BY <1>4, <1>5

\* One value more or less.
LEMMA SumGrows ==
    ASSUME NEW S, IsFiniteSet(S), NEW f, NEW g, NEW x0 \in S, NEW n \in Nat,
           \A x \in S : f[x] \in Nat /\ g[x] = IF x = x0 THEN f[x] + n ELSE f[x]
    PROVE  SumFunctionOnSet(g, S) = SumFunctionOnSet(f, S) + n
<1>1. IsFiniteSet(S \ {x0})
    BY FS_Subset
<1>2. SumFunctionOnSet(g, S \ {x0}) = SumFunctionOnSet(f, S \ {x0})
    BY <1>1, SumSame
<1>3. PICK r \in Nat : r = SumFunctionOnSet(f, S \ {x0})
    BY <1>1, SumType
<1>4. SumFunctionOnSet(f, S) = f[x0] + r
    BY <1>3, SumRemove
<1>5. SumFunctionOnSet(g, S) = (f[x0] + n) + r
    <2>1. \A x \in S : g[x] \in Nat
        OBVIOUS
    <2>2. SumFunctionOnSet(g, S) = g[x0] + SumFunctionOnSet(g, S \ {x0})
        BY <2>1, SumRemove
    <2>3. QED
        BY <1>2, <1>3, <2>2
<1>6. f[x0] \in Nat
    OBVIOUS
<1>7. QED
    BY <1>3, <1>4, <1>5, <1>6

\* Sums are added member by member.
LEMMA SumPlus ==
    ASSUME NEW S, IsFiniteSet(S), NEW f, NEW g, NEW h,
           \A x \in S : f[x] \in Nat /\ g[x] \in Nat /\ h[x] = f[x] + g[x]
    PROVE  SumFunctionOnSet(h, S) = SumFunctionOnSet(f, S) + SumFunctionOnSet(g, S)
<1> DEFINE F(T) == SumFunctionOnSet(f, T)
           G(T) == SumFunctionOnSet(g, T)
           H(T) == SumFunctionOnSet(h, T)
           Bad == {T \in SUBSET S : H(T) # F(T) + G(T)}
<1>1. SUFFICES ASSUME Bad # {} PROVE FALSE
    OBVIOUS
<1>2. PICK T \in Bad : \A x \in T : T \ {x} \notin Bad
    BY <1>1, SmallestSet
<1>3. IsFiniteSet(T) /\ \A x \in T : f[x] \in Nat /\ g[x] \in Nat /\ h[x] \in Nat
    BY FS_Subset
<1>4. CASE T = {}
    BY <1>2, <1>4, SumEmpty
<1>5. CASE T # {}
    <2>1. PICK x \in T : TRUE
        BY <1>5
    <2>2. /\ F(T) = f[x] + F(T \ {x}) /\ G(T) = g[x] + G(T \ {x})
          /\ H(T) = h[x] + H(T \ {x})
        BY <1>3, <2>1, SumRemove
    <2>3. IsFiniteSet(T \ {x})
        BY <1>3, FS_Subset
    <2>4. PICK a \in Nat, b \in Nat : a = F(T \ {x}) /\ b = G(T \ {x})
        BY <1>3, <2>3, SumType
    <2>5. H(T \ {x}) = a + b
        BY <1>2, <2>1, <2>4
    <2>6. PICK c \in Nat, d \in Nat : c = f[x] /\ d = g[x] /\ h[x] = c + d
        BY <1>3
    <2>7. F(T) = c + a /\ G(T) = d + b /\ H(T) = (c + d) + (a + b)
        BY <2>2, <2>4, <2>5, <2>6
    <2>8. H(T) = F(T) + G(T)
        BY <2>7
    <2>9. QED
        BY <1>2, <2>8
<1>6. QED
    BY <1>4, <1>5

\* No member is more than the sum of naturals.
LEMMA SumMember ==
    ASSUME NEW S, IsFiniteSet(S), NEW f, \A x \in S : f[x] \in Nat, NEW x0 \in S
    PROVE  f[x0] <= SumFunctionOnSet(f, S)
<1>1. IsFiniteSet(S \ {x0})
    BY FS_Subset
<1>2. PICK r \in Nat : r = SumFunctionOnSet(f, S \ {x0})
    BY <1>1, SumType
<1>3. PICK a \in Nat : a = f[x0]
    OBVIOUS
<1>4. SumFunctionOnSet(f, S) = a + r
    BY <1>2, <1>3, SumRemove
<1>5. QED
    BY <1>3, <1>4

\* Nothing is added where everything is zero.
LEMMA SumZero ==
    ASSUME NEW S, IsFiniteSet(S), NEW f, \A x \in S : f[x] = 0
    PROVE  SumFunctionOnSet(f, S) = 0
<1> DEFINE F(T) == SumFunctionOnSet(f, T)
           Bad == {T \in SUBSET S : F(T) # 0}
<1>1. SUFFICES ASSUME Bad # {} PROVE FALSE
    OBVIOUS
<1>2. PICK T \in Bad : \A x \in T : T \ {x} \notin Bad
    BY <1>1, SmallestSet
<1>3. IsFiniteSet(T) /\ \A x \in T : f[x] \in Nat
    BY FS_Subset
<1>4. CASE T = {}
    BY <1>2, <1>4, SumEmpty
<1>5. CASE T # {}
    <2>1. PICK x \in T : TRUE
        BY <1>5
    <2>2. F(T) = f[x] + F(T \ {x})
        BY <1>3, <2>1, SumRemove
    <2>3. F(T \ {x}) = 0 /\ f[x] = 0
        BY <1>2, <2>1
    <2>4. QED
        BY <1>2, <2>2, <2>3
<1>6. QED
    BY <1>4, <1>5

\* Only one value counts.
LEMMA SumSingle ==
    ASSUME NEW S, IsFiniteSet(S), NEW f, NEW x0 \in S, f[x0] \in Nat,
           \A x \in S : x # x0 => f[x] = 0
    PROVE  SumFunctionOnSet(f, S) = f[x0]
<1>1. IsFiniteSet(S \ {x0})
    BY FS_Subset
<1>2. SumFunctionOnSet(f, S \ {x0}) = 0
    BY <1>1, SumZero
<1>3. \A x \in S : f[x] \in Nat
    OBVIOUS
<1>4. SumFunctionOnSet(f, S) = f[x0] + SumFunctionOnSet(f, S \ {x0})
    BY <1>3, SumRemove
<1>5. QED
    BY <1>2, <1>4

\* Adding up by key and then over the keys adds up everything.
LEMMA SumByKey ==
    ASSUME NEW K, IsFiniteSet(K), NEW O, IsFiniteSet(O), NEW c, \A k \in K : c[k] \in O,
           NEW f, \A k \in K : f[k] \in Nat
    PROVE  SumFunctionOnSet([o \in O |-> SumFunctionOnSet(f, {k \in K : c[k] = o})], O)
               = SumFunctionOnSet(f, K)
<1> DEFINE Part(T) == [o \in O |-> SumFunctionOnSet(f, {k \in T : c[k] = o})]
           Bad == {T \in SUBSET K : SumFunctionOnSet(Part(T), O) # SumFunctionOnSet(f, T)}
<1>1. SUFFICES ASSUME Bad # {} PROVE FALSE
    OBVIOUS
<1>2. PICK T \in Bad : \A x \in T : T \ {x} \notin Bad
    BY <1>1, SmallestSet
<1>3. IsFiniteSet(T) /\ \A k \in T : f[k] \in Nat /\ c[k] \in O
    BY FS_Subset
<1>4. CASE T = {}
    <2>1. \A o \in O : {k \in T : c[k] = o} = {}
        BY <1>4
    <2>2. \A o \in O : Part(T)[o] = 0
        BY <2>1, SumEmpty
    <2>3. SumFunctionOnSet(Part(T), O) = 0
        <3> HIDE DEF Part
        <3> QED  BY <2>2, SumZero
    <2>4. SumFunctionOnSet(f, T) = 0
        BY <1>4, SumEmpty
    <2>5. QED
        BY <1>2, <2>3, <2>4
<1>5. CASE T # {}
    <2>1. PICK x \in T : TRUE
        BY <1>5
    <2> DEFINE R == T \ {x}
    <2>2. IsFiniteSet(R) /\ R \in SUBSET K /\ R \notin Bad
        BY <1>2, <1>3, <2>1, FS_Subset
    <2>3. SumFunctionOnSet(f, T) = f[x] + SumFunctionOnSet(f, R)
        BY <1>3, <2>1, SumRemove
    <2>4. ASSUME NEW o \in O
          PROVE  /\ Part(R)[o] \in Nat
                 /\ Part(T)[o] = IF o = c[x] THEN Part(R)[o] + f[x] ELSE Part(R)[o]
        <3> DEFINE A == {k \in R : c[k] = o}
                   B == {k \in T : c[k] = o}
        <3>1. Part(R)[o] = SumFunctionOnSet(f, A) /\ Part(T)[o] = SumFunctionOnSet(f, B)
            OBVIOUS
        <3>2. IsFiniteSet(A) /\ (\A k \in A : f[k] \in Nat) /\ x \notin A
            BY <1>3, <2>2, FS_Subset
        <3>3. SumFunctionOnSet(f, A) \in Nat
            BY <3>2, SumType
        <3>4. B = IF o = c[x] THEN A \cup {x} ELSE A
            OBVIOUS
        <3> HIDE DEF A, B, Part
        <3>5. CASE o = c[x]
            <4>1. SumFunctionOnSet(f, A \cup {x}) = f[x] + SumFunctionOnSet(f, A)
                BY <1>3, <3>2, SumAdd
            <4>2. f[x] \in Nat
                BY <1>3
            <4>3. QED
                BY <3>1, <3>3, <3>4, <3>5, <4>1, <4>2
        <3>6. CASE o # c[x]
            BY <3>1, <3>3, <3>4, <3>6
        <3>7. QED
            BY <3>5, <3>6
    <2>5. c[x] \in O /\ f[x] \in Nat
        BY <1>3
    <2>6. SumFunctionOnSet(Part(T), O) = SumFunctionOnSet(Part(R), O) + f[x]
        <3>1. PICK n \in Nat, o0 \in O : n = f[x] /\ o0 = c[x]
            BY <2>5
        <3> DEFINE before == Part(R)
                   after == Part(T)
        <3>2. \A o \in O : /\ before[o] \in Nat
                          /\ after[o] = IF o = o0 THEN before[o] + n ELSE before[o]
            BY <2>4, <3>1
        <3> HIDE DEF before, after
        <3>3. SumFunctionOnSet(after, O) = SumFunctionOnSet(before, O) + n
            BY <3>2, SumGrows
        <3>4. QED
            BY <3>1, <3>3 DEF before, after
    <2>7. SumFunctionOnSet(Part(R), O) = SumFunctionOnSet(f, R)
        BY <2>2
    <2>8. PICK r \in Nat : r = SumFunctionOnSet(f, R)
        BY <1>3, <2>2, SumType
    <2>9. SumFunctionOnSet(Part(T), O) = SumFunctionOnSet(f, T)
        <3> HIDE DEF Part, R
        <3> QED  BY <2>3, <2>5, <2>6, <2>7, <2>8
    <2>10. QED
        BY <1>2, <2>9
<1>6. QED
    BY <1>4, <1>5

\* The least number a set of numbers up to n has.
LEMMA LeastNumber ==
    ASSUME NEW n \in Nat, NEW Bad \in SUBSET (0 .. n), Bad # {}
    PROVE  \E i \in Bad : \A j \in 0 .. i - 1 : j \notin Bad
<1> DEFINE Ivals == {1 .. i : i \in Bad}
<1>1. IsFiniteSet(1 .. n)
    BY FS_Interval
<1>2. Ivals \subseteq SUBSET (1 .. n) /\ Ivals # {}
    <2>1. \A i \in Bad : 1 .. i \subseteq 1 .. n
        OBVIOUS
    <2>2. QED
        BY <2>1
<1> HIDE DEF Ivals
<1>3. Ivals \subseteq FiniteSubsetsOf(1 .. n)
    BY <1>1, <1>2, FS_Subset DEF FiniteSubsetsOf
<1>4. PICK T \in Ivals : \A U \in Ivals : ~(<<U, T>> \in StrictSubsetOrdering(1 .. n))
    BY <1>2, <1>3, FS_StrictSubsetOrderingWellFounded, WFMin
<1>5. PICK i \in Bad : T = 1 .. i
    BY DEF Ivals
<1>6. ASSUME NEW j \in 0 .. i - 1, j \in Bad
      PROVE  FALSE
    <2>1. 1 .. j \in Ivals
        BY <1>6 DEF Ivals
    <2>2. 1 .. j \subseteq 1 .. i /\ 1 .. j # 1 .. i /\ 1 .. i \subseteq 1 .. n
        <3>1. i \in 0 .. n /\ i \in 1 .. i /\ i \notin 1 .. j
            OBVIOUS
        <3>2. QED
            BY <3>1
    <2>3. QED
        BY <1>4, <1>5, <2>1, <2>2 DEF StrictSubsetOrdering
<1>7. QED
    BY <1>6

\* A bounded set of naturals has a largest member, and it is the one chosen.
LEMMA MaxIs ==
    ASSUME NEW n \in Nat, NEW U \in SUBSET (1 .. n), U # {}
    PROVE  Max(U) \in U /\ \A x \in U : x <= Max(U)
<1> DEFINE Bounds == {k \in 0 .. n : \A x \in U : x <= k}
<1>1. n \in Bounds
    OBVIOUS
<1>2. PICK k \in Bounds : \A j \in 0 .. k - 1 : j \notin Bounds
    <2>1. Bounds \in SUBSET (0 .. n) /\ Bounds # {}
        BY <1>1
    <2> HIDE DEF Bounds
    <2>2. QED
        BY <2>1, LeastNumber
<1>3. k \in U
    <2> SUFFICES ASSUME k \notin U PROVE FALSE
        OBVIOUS
    <2>1. PICK y \in U : TRUE
        OBVIOUS
    <2>2. k \in 1 .. n
        BY <2>1
    <2>3. \A x \in U : x <= k - 1
        OBVIOUS
    <2>4. k - 1 \in Bounds
        BY <2>2, <2>3
    <2>5. QED
        BY <1>2, <2>2, <2>4
<1>4. \E x \in U : \A y \in U : x >= y
    BY <1>3
<1>5. Max(U) \in U /\ \A y \in U : Max(U) >= y
    BY <1>4 DEF Max
<1>6. QED
    BY <1>5

\* Of an interval, it is the upper end.
LEMMA MaxOfInterval ==
    ASSUME NEW n \in Nat, NEW i \in 1 .. n
    PROVE  Max(1 .. i) = i /\ (1 .. i) \ {i} = 1 .. i - 1 /\ 1 .. i # {}
<1>1. 1 .. i \in SUBSET (1 .. n) /\ i \in 1 .. i
    OBVIOUS
<1>2. PICK m \in 1 .. i : m = Max(1 .. i) /\ i <= m
    BY <1>1, MaxIs
<1>3. QED
    BY <1>2

\* The same with the positions 1 .. n, the last one on top.
LeftFolding(g, n, V, base, h) ==
    /\ g \in [SUBSET (1 .. n) -> V]
    /\ \A U \in SUBSET (1 .. n) :
          g[U] = IF U = {} THEN base ELSE h[<<g[U \ {Max(U)}], Max(U)>>]

\* A left fold over 1 .. n has a value for every set of positions.
LEMMA LeftFoldExists ==
    ASSUME NEW n \in Nat, NEW V, NEW base \in V, NEW h \in [V \X (1 .. n) -> V]
    PROVE  \E g : LeftFolding(g, n, V, base, h)
<1> DEFINE pick == [s \in SUBSET (1 .. n) |-> Max(s)]
<1>1. IsFiniteSet(1 .. n)
    BY FS_Interval
<1>2. \A s \in SUBSET (1 .. n) : pick[s] = Max(s)
    OBVIOUS
<1>3. \A s \in SUBSET (1 .. n) : s # {} => pick[s] \in s
    BY <1>2, MaxIs
<1> HIDE DEF pick
<1>4. PICK g : Folding(g, 1 .. n, V, base, h, pick)
    BY <1>1, <1>3, FoldExists
<1>5. LeftFolding(g, n, V, base, h)
    BY <1>2, <1>4 DEF Folding, LeftFolding
<1>6. QED
    BY <1>5

-----------------------------------------------------------------------------
(* The deduction order.                                                    *)

\* The comparator never puts a subscription before itself (quota.go:103-121).
LEMMA BeforeIrreflexive ==
    ASSUME NEW a \in SubQuota
    PROVE  ~Before(a, a)
BY DeductionAssumption DEF Before, ExpiresSooner, kindRank, SubQuota, Kinds, Times

\* Of two different subscriptions one comes first: there are no ties left for
\* the sort to break by arrival order (quota.go:76-79).
THEOREM BeforeTotal ==
    ASSUME NEW a \in SubQuota, NEW b \in SubQuota, a.ID # b.ID
    PROVE  Before(a, b) \/ Before(b, a)
BY DeductionAssumption DEF Before, ExpiresSooner, kindRank, SubQuota, Kinds, Times

\* The comparator is a strict weak ordering for every kind, known or not:
\* what quota.go:84-90 asks of it.
THEOREM BeforeTransitive ==
    ASSUME NEW a \in SubQuota, NEW b \in SubQuota, NEW c \in SubQuota,
           Before(a, b), Before(b, c)
    PROVE  Before(a, c)
<1> /\ kindRank(a.Kind) \in Int /\ kindRank(b.Kind) \in Int /\ kindRank(c.Kind) \in Int
    /\ a.ID \in Nat /\ b.ID \in Nat /\ c.ID \in Nat
    /\ a.ExpiredAt \in Nat \cup {NoTime}
    /\ b.ExpiredAt \in Nat \cup {NoTime}
    /\ c.ExpiredAt \in Nat \cup {NoTime}
    BY DEF kindRank, SubQuota, Kinds, Times
<1> /\ a.Kind \in Kinds /\ b.Kind \in Kinds /\ c.Kind \in Kinds
    BY DEF SubQuota
<1>1. CASE kindRank(a.Kind) < kindRank(b.Kind) \/ kindRank(b.Kind) < kindRank(c.Kind)
    BY <1>1 DEF Before
<1>2. CASE kindRank(a.Kind) = kindRank(b.Kind) /\ kindRank(b.Kind) = kindRank(c.Kind)
    <2>1. a.Kind = b.Kind /\ b.Kind = c.Kind
        BY <1>2 DEF kindRank, Kinds
    <2>2. QED
        BY <1>2, <2>1, DeductionAssumption DEF Before, ExpiresSooner
<1>3. QED
    BY <1>1, <1>2 DEF Before

-----------------------------------------------------------------------------
(* Lists.                                                                  *)

\* The indices prepare keeps form a finite set, so the sort has a list to
\* order (ladder.go:95-104).
LEMMA FirstOfIDFinite ==
    ASSUME NEW list \in Seq(SubQuota)
    PROVE  /\ FirstOfID(list) \subseteq 1 .. Len(list)
           /\ Cardinality(FirstOfID(list)) \in Nat
<1>1. FirstOfID(list) \subseteq 1 .. Len(list)
    BY DEF FirstOfID
<1>2. IsFiniteSet(1 .. Len(list))
    BY FS_Interval
<1>3. QED
    BY <1>1, <1>2, FS_Subset, FS_CardinalityType

\* What prepare returns is a list of the subscriptions it was given, one
\* entry per ID, in deduction order (ladder.go:88-105).
THEOREM PreparedInOrder ==
    ASSUME NEW list \in Seq(SubQuota), NEW out \in Prepared(list)
    PROVE  /\ out \in Seq(SubQuota)
           /\ InDeductionOrder(out)
           /\ \A k \in DOMAIN out : \E i \in DOMAIN list : out[k] = list[i]
<1> DEFINE I == FirstOfID(list)
           n == 1 .. Cardinality(I)
<1>1. I \subseteq 1 .. Len(list) /\ Cardinality(I) \in Nat
    BY FirstOfIDFinite
<1>2. PICK p \in [n -> I] :
          /\ \A i, j \in n : i < j => Precedes(list, p[i], p[j])
          /\ out = [k \in n |-> list[p[k]]]
    BY DEF Prepared, SortForDeduction
<1>3. /\ \A k \in n : out[k] = list[p[k]] /\ p[k] \in I /\ out[k] \in SubQuota
      /\ DOMAIN out = n
    BY <1>1, <1>2
<1>4. out \in Seq(SubQuota)
    BY <1>1, <1>3, <1>2
<1>5. ASSUME NEW i \in n, NEW j \in n, i < j
      PROVE  out[i].ID # out[j].ID /\ Before(out[i], out[j])
    <2>1. Precedes(list, p[i], p[j])
        BY <1>2, <1>5
    <2>2. p[i] \in I /\ p[j] \in I /\ p[i] \in Nat /\ p[j] \in Nat
        BY <1>1, <1>3
    <2>3. p[i] # p[j]
        BY <2>1, <2>2, <1>3, BeforeIrreflexive DEF Precedes
    <2>4. list[p[i]].ID # list[p[j]].ID
        BY <2>2, <2>3, <1>1 DEF FirstOfID
    <2>5. QED
        BY <2>1, <2>4, <1>3, BeforeTotal DEF Precedes
<1>6. QED
    BY <1>1, <1>3, <1>4, <1>5 DEF InDeductionOrder

\* A list that agrees with an ordered one on what the comparator reads is
\* ordered itself: counters, allowances and reset instants may change.
LEMMA OrderIgnoresCounters ==
    ASSUME NEW a \in Seq(SubQuota), NEW b \in Seq(SubQuota),
           InDeductionOrder(a),
           DOMAIN b = DOMAIN a,
           \A i \in DOMAIN a : /\ b[i].ID = a[i].ID
                               /\ b[i].Kind = a[i].Kind
                               /\ b[i].ExpiredAt = a[i].ExpiredAt
    PROVE  InDeductionOrder(b)
BY DEF InDeductionOrder, Before, ExpiresSooner, kindRank

-----------------------------------------------------------------------------
(* Splits.                                                                 *)

\* Available is never negative, and positive only as the gap between counter
\* and allowance (quota.go:50-55).
LEMMA AvailableBounds ==
    ASSUME NEW s \in SubQuota
    PROVE  /\ Available(s) \in Nat
           /\ Available(s) > 0 => s.UsedBytes + Available(s) = s.TransferBytes
BY DEF Available, SubQuota

\* add either extends the row an ID has or appends a row for a new one.
LEMMA AddRowResult ==
    ASSUME NEW rows \in Seq(LedgerRow), NEW id \in Nat, NEW amount \in Nat \ {0}
    PROVE  /\ AddRow(rows, id, amount) \in Seq(LedgerRow)
           /\ (\A k \in DOMAIN rows : rows[k].SubscriptionID # id) =>
                 AddRow(rows, id, amount) =
                    Append(rows, [SubscriptionID |-> id, Billed |-> amount])
<1>1. CASE \E i \in DOMAIN rows : rows[i].SubscriptionID = id
    <2> DEFINE merged == [i \in DOMAIN rows |->
                             IF rows[i].SubscriptionID = id
                             THEN [rows[i] EXCEPT !.Billed = @ + amount]
                             ELSE rows[i]]
    <2>1. \A i \in DOMAIN rows : rows[i] \in LedgerRow
        OBVIOUS
    <2>2. \A i \in DOMAIN rows : merged[i] \in LedgerRow
        BY <2>1 DEF LedgerRow
    <2>3. merged \in Seq(LedgerRow)
        BY <2>2
    <2>4. QED
        BY <1>1, <2>3 DEF AddRow
<1>2. CASE ~ \E i \in DOMAIN rows : rows[i].SubscriptionID = id
    <2>1. [SubscriptionID |-> id, Billed |-> amount] \in LedgerRow
        BY DEF LedgerRow
    <2>2. QED
        BY <1>2, <2>1 DEF AddRow
<1>3. QED
    BY <1>1, <1>2

\* One turn of the split takes no more than the subscription has and no more
\* than is left to place (quota.go:164-181).
LEMMA AbsorbResult ==
    ASSUME NEW before, before.rows \in Seq(LedgerRow), before.remaining \in Nat \ {0},
           before \in [remaining : Int, rows : Seq(LedgerRow)],
           NEW s \in SubQuota, NEW at
    PROVE  /\ Absorb(before, s, at) \in [remaining : Int, rows : Seq(LedgerRow)]
           /\ (\A k \in DOMAIN before.rows : before.rows[k].SubscriptionID # s.ID) =>
                 \/ Absorb(before, s, at).rows = before.rows
                 \/ \E take \in Nat \ {0} :
                       /\ take <= Available(s)
                       /\ Absorb(before, s, at).rows =
                            Append(before.rows, [SubscriptionID |-> s.ID,
                                                 Billed |-> take])
<1> DEFINE take == Lesser(Available(s), before.remaining)
           next == Absorb(before, s, at)
<1>1. CASE ActiveAt(s, at) /\ Available(s) > 0
    <2>1. take \in Nat \ {0} /\ take <= Available(s) /\ before.remaining - take \in Nat
        BY <1>1, AvailableBounds DEF Lesser
    <2>2. next = [remaining |-> before.remaining - take,
                  rows      |-> AddRow(before.rows, s.ID, take)]
        BY <1>1 DEF Absorb
    <2>3. s.ID \in Nat
        BY DEF SubQuota
    <2> HIDE DEF take, next
    <2>4. /\ next.remaining = before.remaining - take
          /\ next.rows = AddRow(before.rows, s.ID, take)
        BY <2>2
    <2>5. next \in [remaining : Int, rows : Seq(LedgerRow)]
        <3>1. AddRow(before.rows, s.ID, take) \in Seq(LedgerRow)
            BY <2>1, <2>3, AddRowResult
        <3>2. QED
            BY <2>1, <2>2, <3>1
    <2>6. ASSUME \A k \in DOMAIN before.rows : before.rows[k].SubscriptionID # s.ID
          PROVE  next.rows = Append(before.rows,
                                    [SubscriptionID |-> s.ID, Billed |-> take])
        BY <2>1, <2>3, <2>4, <2>6, AddRowResult
    <2>7. QED
        BY <2>1, <2>5, <2>6 DEF next
<1>2. CASE ~(ActiveAt(s, at) /\ Available(s) > 0)
    BY <1>2 DEF Absorb
<1>3. QED
    BY <1>1, <1>2

\* What is left over becomes a row of its own owner, the overflow sentinel.
LEMMA SpillResult ==
    ASSUME NEW split, split.rows \in Seq(LedgerRow), split.remaining \in Int
    PROVE  /\ Spill(split) \in Seq(LedgerRow)
           /\ (\A k \in DOMAIN split.rows :
                  split.rows[k].SubscriptionID # OverflowSubscriptionID) =>
                 \/ Spill(split) = split.rows
                 \/ \E n \in Nat \ {0} :
                       Spill(split) = Append(split.rows,
                           [SubscriptionID |-> OverflowSubscriptionID, Billed |-> n])
<1>1. CASE split.remaining > 0
    <2>1. split.remaining \in Nat \ {0} /\ OverflowSubscriptionID \in Nat
        BY <1>1 DEF OverflowSubscriptionID
    <2>2. Spill(split) = AddRow(split.rows, OverflowSubscriptionID, split.remaining)
        BY <1>1 DEF Spill
    <2>3. QED
        BY <2>1, <2>2, AddRowResult
<1>2. CASE ~(split.remaining > 0)
    BY <1>2 DEF Spill
<1>3. QED
    BY <1>1, <1>2

-----------------------------------------------------------------------------
(* What the operations do to a list.                                       *)

\* b is the list a with counters, allowances or periods changed in place.
SameEntries(a, b) ==
    /\ b \in Seq(SubQuota)
    /\ DOMAIN b = DOMAIN a
    /\ \A i \in DOMAIN a : /\ b[i].ID = a[i].ID
                           /\ b[i].Kind = a[i].Kind
                           /\ b[i].ExpiredAt = a[i].ExpiredAt

\* Changing counters, allowances or periods in place keeps a ladder ordered:
\* the comparator reads none of them (quota.go:103-121).
LEMMA SameEntriesKeepOrder ==
    ASSUME NEW a \in Seq(SubQuota), NEW b, SameEntries(a, b), InDeductionOrder(a)
    PROVE  InDeductionOrder(b)
BY OrderIgnoresCounters DEF SameEntries

\* AlignBucket maps instants to instants (reset.go:26-28).
LEMMA AligningAnInstant ==
    ASSUME NEW t \in Times
    PROVE  AlignBucket(t) \in Times
<1>1. t % BucketSize \in 0 .. BucketSize - 1 /\ t % BucketSize <= t
    BY DeductionAssumption DEF Times
<1>2. QED
    BY <1>1, DeductionAssumption DEF AlignBucket, Times

\* A rewritten list is a list of the same length.
LEMMA RewrittenList ==
    ASSUME NEW list \in Seq(SubQuota), NEW new,
           new = [i \in DOMAIN list |-> new[i]],
           \A i \in DOMAIN list : new[i] \in SubQuota
    PROVE  new \in Seq(SubQuota) /\ DOMAIN new = DOMAIN list
<1>1. DOMAIN list = 1 .. Len(list) /\ Len(list) \in Nat
    OBVIOUS
<1>2. QED
    BY <1>1

\* Writing a natural number into UsedBytes changes only the counter of a
\* subscription (quota.go:36).
LEMMA CounterWritten ==
    ASSUME NEW s \in SubQuota, NEW n \in Nat
    PROVE  LET t == [s EXCEPT !.UsedBytes = n]
           IN  /\ t \in SubQuota
               /\ t.ID = s.ID /\ t.Kind = s.Kind /\ t.ExpiredAt = s.ExpiredAt
               /\ t.TransferBytes = s.TransferBytes
               /\ t.UsedBytes = n
BY DEF SubQuota

\* Charging one row changes counters only, keeps every counter a natural
\* number, and moves that of the row's owner alone (ladder.go:188-201).
LEMMA ChargeResult ==
    ASSUME NEW list \in Seq(SubQuota), NEW row \in LedgerRow, NEW at \in Times
    PROVE  /\ SameEntries(list, Charge(list, row, at))
           /\ \A i \in DOMAIN list :
                 LET s == Charge(list, row, at)[i]
                 IN  /\ s.TransferBytes = list[i].TransferBytes
                     /\ \/ s.UsedBytes = list[i].UsedBytes
                        \/ /\ row.SubscriptionID # OverflowSubscriptionID
                           /\ list[i].ID = row.SubscriptionID
                           /\ s.UsedBytes = list[i].UsedBytes + row.Billed
<1>1. CASE row.SubscriptionID = OverflowSubscriptionID
    BY <1>1 DEF Charge, SameEntries
<1>2. CASE row.SubscriptionID # OverflowSubscriptionID
    <2> DEFINE new == Charge(list, row, at)
    <2>1. new = [i \in DOMAIN list |-> new[i]]
        BY <1>2 DEF Charge
    <2>2. ASSUME NEW i \in DOMAIN list
          PROVE  \/ new[i] = list[i]
                 \/ /\ list[i].ID = row.SubscriptionID
                    /\ new[i] = [list[i] EXCEPT !.UsedBytes = list[i].UsedBytes + row.Billed]
        BY <1>2, <2>2 DEF Charge, IsFirst
    <2> HIDE DEF new
    <2>3. ASSUME NEW i \in DOMAIN list
          PROVE  /\ new[i] \in SubQuota
                 /\ new[i].ID = list[i].ID
                 /\ new[i].Kind = list[i].Kind
                 /\ new[i].ExpiredAt = list[i].ExpiredAt
                 /\ new[i].TransferBytes = list[i].TransferBytes
                 /\ \/ new[i].UsedBytes = list[i].UsedBytes
                    \/ /\ list[i].ID = row.SubscriptionID
                       /\ new[i].UsedBytes = list[i].UsedBytes + row.Billed
        <3>1. list[i] \in SubQuota
            BY <2>3
        <3>2. list[i].UsedBytes + row.Billed \in Nat
            BY <3>1 DEF SubQuota, LedgerRow
        <3>3. CASE new[i] = list[i]
            BY <3>1, <3>3
        <3>4. CASE /\ list[i].ID = row.SubscriptionID
                   /\ new[i] = [list[i] EXCEPT !.UsedBytes = list[i].UsedBytes + row.Billed]
            BY <3>1, <3>2, <3>4, CounterWritten
        <3>5. QED
            BY <2>2, <2>3, <3>3, <3>4
    <2>4. new \in Seq(SubQuota) /\ DOMAIN new = DOMAIN list
        BY <2>1, <2>3, RewrittenList
    <2>5. QED
        BY <1>2, <2>3, <2>4 DEF SameEntries, new
<1>3. QED
    BY <1>1, <1>2

\* Reconcile's write changes counters only (ladder.go:211-217).
LEMMA OverwrittenResult ==
    ASSUME NEW list \in Seq(SubQuota), NEW id, NEW used \in Nat
    PROVE  SameEntries(list, Overwritten(list, id, used))
<1> DEFINE new == Overwritten(list, id, used)
<1>1. /\ new = [i \in DOMAIN list |-> new[i]]
      /\ \A i \in DOMAIN list :
            new[i] = list[i] \/ new[i] = [list[i] EXCEPT !.UsedBytes = used]
    BY DEF Overwritten
<1> HIDE DEF new
<1>2. ASSUME NEW i \in DOMAIN list
      PROVE  /\ new[i] \in SubQuota
             /\ new[i].ID = list[i].ID
             /\ new[i].Kind = list[i].Kind
             /\ new[i].ExpiredAt = list[i].ExpiredAt
    <2>1. list[i] \in SubQuota
        BY <1>2
    <2>2. CASE new[i] = list[i]
        BY <2>1, <2>2
    <2>3. CASE new[i] = [list[i] EXCEPT !.UsedBytes = used]
        BY <2>1, <2>3, CounterWritten
    <2>4. QED
        BY <1>1, <1>2, <2>2, <2>3
<1>3. new \in Seq(SubQuota) /\ DOMAIN new = DOMAIN list
    BY <1>1, <1>2, RewrittenList
<1>4. QED
    BY <1>2, <1>3 DEF SameEntries, new

\* Reset's write changes counters, epochs and reset instants only
\* (ladder.go:232-241).
LEMMA RolledOverResult ==
    ASSUME NEW list \in Seq(SubQuota), NEW id, NEW epoch \in Nat, NEW at \in Times
    PROVE  SameEntries(list, RolledOver(list, id, epoch, at))
<1> DEFINE new == RolledOver(list, id, epoch, at)
           instant == AlignBucket(at)
<1>1. instant \in Times
    BY AligningAnInstant
<1>2. /\ new = [i \in DOMAIN list |-> new[i]]
      /\ \A i \in DOMAIN list :
            \/ new[i] = list[i]
            \/ new[i] = [list[i] EXCEPT !.UsedBytes = 0,
                                        !.ResetEpoch = epoch,
                                        !.LastResetAt = instant]
    BY DEF RolledOver
<1> HIDE DEF new, instant
<1>3. ASSUME NEW i \in DOMAIN list
      PROVE  /\ new[i] \in SubQuota
             /\ new[i].ID = list[i].ID
             /\ new[i].Kind = list[i].Kind
             /\ new[i].ExpiredAt = list[i].ExpiredAt
    <2>1. list[i] \in SubQuota
        BY <1>3
    <2>2. CASE new[i] = list[i]
        BY <2>1, <2>2
    <2>3. CASE new[i] = [list[i] EXCEPT !.UsedBytes = 0,
                                        !.ResetEpoch = epoch,
                                        !.LastResetAt = instant]
        <3>1. PICK s \in SubQuota : s = list[i]
            BY <2>1
        <3>2. PICK t : t = new[i]
            OBVIOUS
        <3>3. t = [s EXCEPT !.UsedBytes = 0,
                            !.ResetEpoch = epoch,
                            !.LastResetAt = instant]
            BY <2>3, <3>1, <3>2
        <3>4. t \in SubQuota /\ t.ID = s.ID /\ t.Kind = s.Kind /\ t.ExpiredAt = s.ExpiredAt
            BY <1>1, <3>3 DEF SubQuota
        <3>5. QED
            BY <3>1, <3>2, <3>4
    <2>4. QED
        BY <1>2, <1>3, <2>2, <2>3
<1>4. new \in Seq(SubQuota) /\ DOMAIN new = DOMAIN list
    BY <1>2, <1>3, RewrittenList
<1>5. QED
    BY <1>3, <1>4 DEF SameEntries, new

\* Sync's carried-over counters change nothing but counters (ladder.go:79-84).
LEMMA KeepKnownResult ==
    ASSUME NEW next \in Seq(SubQuota), NEW old \in Seq(SubQuota),
           InDeductionOrder(old)
    PROVE  SameEntries(next, KeepKnown(next, old))
<1> DEFINE new == KeepKnown(next, old)
           LastWith(id, i) == /\ old[i].ID = id
                          /\ \A j \in DOMAIN old : j > i => old[j].ID # id
           known(id) == CHOOSE i \in DOMAIN old : LastWith(id, i)
<1>1. ASSUME NEW id, HasID(old, id)
      PROVE  known(id) \in DOMAIN old
    <2>1. PICK i \in DOMAIN old : old[i].ID = id
        BY <1>1 DEF HasID
    <2>2. \A j \in DOMAIN old : j > i => old[j].ID # old[i].ID
        BY <2>1 DEF InDeductionOrder
    <2>3. LastWith(id, i)
        BY <2>1, <2>2
    <2>4. QED
        BY <2>3
<1>2. /\ new = [i \in DOMAIN next |-> new[i]]
      /\ \A i \in DOMAIN next :
            \/ new[i] = next[i]
            \/ /\ HasID(old, next[i].ID)
               /\ new[i] = [next[i] EXCEPT !.UsedBytes = old[known(next[i].ID)].UsedBytes]
    BY DEF KeepKnown
<1> HIDE DEF new
<1>3. ASSUME NEW i \in DOMAIN next
      PROVE  /\ new[i] \in SubQuota
             /\ new[i].ID = next[i].ID
             /\ new[i].Kind = next[i].Kind
             /\ new[i].ExpiredAt = next[i].ExpiredAt
    <2>1. next[i] \in SubQuota
        BY <1>3
    <2>2. CASE new[i] = next[i]
        BY <2>1, <2>2
    <2>3. CASE /\ HasID(old, next[i].ID)
               /\ new[i] = [next[i] EXCEPT !.UsedBytes = old[known(next[i].ID)].UsedBytes]
        <3>1. known(next[i].ID) \in DOMAIN old
            BY <1>1, <2>3
        <3> HIDE DEF known
        <3>2. old[known(next[i].ID)] \in SubQuota
            BY <3>1
        <3>3. old[known(next[i].ID)].UsedBytes \in Nat
            BY <3>2 DEF SubQuota
        <3>4. QED
            BY <2>1, <2>3, <3>3, CounterWritten
    <2>4. QED
        BY <1>2, <1>3, <2>2, <2>3
<1>4. new \in Seq(SubQuota) /\ DOMAIN new = DOMAIN next
    BY <1>2, <1>3, RewrittenList
<1>5. QED
    BY <1>3, <1>4 DEF SameEntries, new

\* kept is next with the counters that old has.
Keeps(kept, next, old) ==
    /\ SameEntries(next, kept)
    /\ \A i \in DOMAIN next :
          /\ kept[i].TransferBytes = next[i].TransferBytes
          /\ kept[i].LastResetAt = next[i].LastResetAt
          /\ HasID(old, next[i].ID) =>
                \E j \in DOMAIN old : old[j].ID = next[i].ID /\ kept[i].UsedBytes = old[j].UsedBytes

\* Sync keeps the counter of every subscription the ladder knows
\* (ladder.go:214-228).
LEMMA KeepsKnown ==
    ASSUME NEW next \in Seq(SubQuota), NEW old \in Seq(SubQuota), InDeductionOrder(old)
    PROVE  Keeps(KeepKnown(next, old), next, old)
<1> DEFINE kept == KeepKnown(next, old)
           LastWith(id, i) == /\ old[i].ID = id
                              /\ \A j \in DOMAIN old : j > i => old[j].ID # id
           known(id) == CHOOSE i \in DOMAIN old : LastWith(id, i)
<1>1. SameEntries(next, kept)
    BY KeepKnownResult
<1>2. ASSUME NEW i \in DOMAIN next
      PROVE  kept[i] = IF HasID(old, next[i].ID)
                       THEN [next[i] EXCEPT !.UsedBytes = old[known(next[i].ID)].UsedBytes]
                       ELSE next[i]
    BY DEF KeepKnown
<1>3. ASSUME NEW id, HasID(old, id)
      PROVE  known(id) \in DOMAIN old /\ old[known(id)].ID = id
    <2>1. PICK i \in DOMAIN old : old[i].ID = id
        BY <1>3 DEF HasID
    <2>2. \A j \in DOMAIN old : j > i => old[j].ID # old[i].ID
        BY <2>1 DEF InDeductionOrder
    <2>3. LastWith(id, i)
        BY <2>1, <2>2
    <2>4. QED
        BY <2>3
<1> HIDE DEF kept, known
<1>4. ASSUME NEW i \in DOMAIN next
      PROVE  /\ kept[i].TransferBytes = next[i].TransferBytes
             /\ kept[i].LastResetAt = next[i].LastResetAt
             /\ HasID(old, next[i].ID) =>
                   \E j \in DOMAIN old : old[j].ID = next[i].ID /\ kept[i].UsedBytes = old[j].UsedBytes
    <2>1. PICK s \in SubQuota : s = next[i]
        OBVIOUS
    <2>2. CASE HasID(old, s.ID)
        <3>1. PICK j \in DOMAIN old : j = known(s.ID) /\ old[j].ID = s.ID
            BY <1>3, <2>2
        <3>2. kept[i] = [s EXCEPT !.UsedBytes = old[j].UsedBytes]
            BY <1>2, <2>1, <2>2, <3>1
        <3>3. /\ kept[i].TransferBytes = s.TransferBytes /\ kept[i].LastResetAt = s.LastResetAt
              /\ kept[i].UsedBytes = old[j].UsedBytes
            BY <3>2 DEF SubQuota
        <3>4. QED
            BY <2>1, <3>1, <3>3
    <2>3. CASE ~HasID(old, s.ID)
        BY <1>2, <2>1, <2>3
    <2>4. QED
        BY <2>2, <2>3
<1>5. QED
    BY <1>1, <1>4 DEF Keeps, kept

-----------------------------------------------------------------------------
(* The whole split, for lists of any length.                               *)

RowsDistinct(rows) ==
    \A i, j \in DOMAIN rows : rows[i].SubscriptionID = rows[j].SubscriptionID => i = j

RowOwners(rows) == {rows[i].SubscriptionID : i \in DOMAIN rows}

\* What rows bill to the owners in O together.
BilledAmong(rows, O) ==
    SumFunctionOnSet(BilledAt(rows), {k \in DOMAIN rows : rows[k].SubscriptionID \in O})

TotalBilled(rows) == SumFunctionOnSet(BilledAt(rows), DOMAIN rows)

\* The rows of any owners can be summed.
LEMMA BilledAmongIs ==
    ASSUME NEW rows \in Seq(LedgerRow), NEW O
    PROVE  /\ IsFiniteSet({k \in DOMAIN rows : rows[k].SubscriptionID \in O})
           /\ \A k \in DOMAIN rows : BilledAt(rows)[k] = rows[k].Billed
           /\ \A k \in DOMAIN rows : rows[k].Billed \in Nat \ {0} /\ rows[k].SubscriptionID \in Nat
           /\ BilledAmong(rows, O) \in Nat
           /\ \A id : BilledAmong(rows, {id}) = BilledTo(rows, id)
           /\ BilledAmong(rows, Nat) = TotalBilled(rows)
           /\ IsFiniteSet(DOMAIN rows)
<1> DEFINE K(P) == {k \in DOMAIN rows : rows[k].SubscriptionID \in P}
<1>1. IsFiniteSet(DOMAIN rows)
    BY FS_Interval
<1>2. IsFiniteSet(K(O))
    BY <1>1, FS_Subset
<1>3. \A k \in DOMAIN rows : BilledAt(rows)[k] = rows[k].Billed
    BY DEF BilledAt
<1>4. ASSUME NEW k \in DOMAIN rows
      PROVE  rows[k].Billed \in Nat \ {0} /\ rows[k].SubscriptionID \in Nat
    <2>1. rows[k] \in LedgerRow
        OBVIOUS
    <2>2. QED
        BY <2>1 DEF LedgerRow
<1>5. BilledAmong(rows, O) \in Nat
    <2>1. \A k \in K(O) : BilledAt(rows)[k] \in Nat
        BY <1>3, <1>4
    <2> HIDE DEF K
    <2>2. SumFunctionOnSet(BilledAt(rows), K(O)) \in Nat
        BY <1>2, <2>1, SumType
    <2>3. QED
        BY <2>2 DEF BilledAmong, K
<1>6. \A id : K({id}) = {k \in DOMAIN rows : rows[k].SubscriptionID = id}
    OBVIOUS
<1>7. \A id : BilledAmong(rows, {id}) = BilledTo(rows, id)
    BY <1>6 DEF BilledAmong, BilledTo
<1>8. K(Nat) = DOMAIN rows
    BY <1>4
<1>9. BilledAmong(rows, Nat) = TotalBilled(rows)
    BY <1>8 DEF BilledAmong, TotalBilled
<1>10. QED
    BY <1>1, <1>2, <1>3, <1>4, <1>5, <1>7, <1>9

\* next bills amount more than rows to the owner id, and the same to the others.
BillsMore(next, rows, id, amount) ==
    /\ next \in Seq(LedgerRow)
    /\ RowsDistinct(next)
    /\ RowOwners(next) \subseteq RowOwners(rows) \cup {id}
    /\ \A O : BilledAmong(next, O) = BilledAmong(rows, O) + IF id \in O THEN amount ELSE 0

\* add moves the sums of its own owner by its amount, and those of nobody else
\* (quota.go:153-162).
LEMMA AddRowBills ==
    ASSUME NEW rows \in Seq(LedgerRow), RowsDistinct(rows),
           NEW id \in Nat, NEW amount \in Nat \ {0}
    PROVE  BillsMore(AddRow(rows, id, amount), rows, id, amount)
<1> DEFINE next == AddRow(rows, id, amount)
           K(r, O) == {k \in DOMAIN r : r[k].SubscriptionID \in O}
<1>0. \A r, O : BilledAmong(r, O) = SumFunctionOnSet(BilledAt(r), K(r, O))
    BY DEF BilledAmong
<1>1. next \in Seq(LedgerRow)
    BY AddRowResult
<1>2. CASE \E i \in DOMAIN rows : rows[i].SubscriptionID = id
    <2>1. PICK i \in DOMAIN rows : rows[i].SubscriptionID = id
        BY <1>2
    <2>2. next = [k \in DOMAIN rows |->
                    IF rows[k].SubscriptionID = id
                    THEN [rows[k] EXCEPT !.Billed = @ + amount]
                    ELSE rows[k]]
        BY <1>2 DEF AddRow
    <2>3. DOMAIN next = DOMAIN rows
        BY <2>2
    <2>4. \A k \in DOMAIN rows : rows[k].SubscriptionID = id => k = i
        BY <2>1 DEF RowsDistinct
    <2>5. ASSUME NEW k \in DOMAIN rows
          PROVE  /\ next[k].SubscriptionID = rows[k].SubscriptionID
                 /\ next[k].Billed = IF k = i THEN rows[k].Billed + amount ELSE rows[k].Billed
        <3>1. rows[k] \in LedgerRow
            OBVIOUS
        <3>2. QED
            BY <2>1, <2>2, <2>4, <3>1 DEF LedgerRow
    <2> HIDE DEF next
    <2>6. RowsDistinct(next)
        BY <2>3, <2>5 DEF RowsDistinct
    <2>7. RowOwners(next) \subseteq RowOwners(rows) \cup {id}
        BY <2>1, <2>3, <2>5 DEF RowOwners
    <2>8. ASSUME NEW O
          PROVE  BilledAmong(next, O) = BilledAmong(rows, O) + IF id \in O THEN amount ELSE 0
        <3>1. K(next, O) = K(rows, O) /\ (i \in K(rows, O) <=> id \in O)
            BY <2>1, <2>3, <2>5
        <3>2. IsFiniteSet(K(rows, O)) /\ K(rows, O) \subseteq DOMAIN rows
            BY BilledAmongIs
        <3>3. \A k \in DOMAIN rows :
                  /\ BilledAt(rows)[k] \in Nat
                  /\ BilledAt(next)[k] = IF k = i THEN BilledAt(rows)[k] + amount
                                                  ELSE BilledAt(rows)[k]
            BY <1>1, <2>3, <2>5, BilledAmongIs
        <3> HIDE DEF K
        <3>4. PICK T, f, g : T = K(rows, O) /\ f = BilledAt(rows) /\ g = BilledAt(next)
            OBVIOUS
        <3>5. /\ BilledAmong(rows, O) = SumFunctionOnSet(f, T)
              /\ BilledAmong(next, O) = SumFunctionOnSet(g, T)
            BY <1>0, <3>1, <3>4
        <3>6. \A k \in T : f[k] \in Nat /\ g[k] = IF k = i THEN f[k] + amount ELSE f[k]
            BY <3>2, <3>3, <3>4
        <3>7. IsFiniteSet(T)
            BY <3>2, <3>4
        <3>8. CASE id \in O
            <4>1. i \in T /\ amount \in Nat
                BY <3>1, <3>4, <3>8
            <4>2. SumFunctionOnSet(g, T) = SumFunctionOnSet(f, T) + amount
                BY <3>6, <3>7, <4>1, SumGrows
            <4>3. QED
                BY <3>5, <3>8, <4>2
        <3>9. CASE id \notin O
            <4>1. \A k \in T : f[k] \in Nat /\ g[k] = f[k]
                BY <3>1, <3>4, <3>6, <3>9
            <4>2. SumFunctionOnSet(g, T) = SumFunctionOnSet(f, T)
                BY <3>7, <4>1, SumSame
            <4>3. SumFunctionOnSet(f, T) \in Nat
                BY <3>7, <4>1, SumType
            <4>4. QED
                BY <3>5, <3>9, <4>2, <4>3
        <3>10. QED
            BY <3>8, <3>9
    <2>9. QED
        BY <1>1, <2>6, <2>7, <2>8 DEF next, BillsMore
<1>3. CASE ~ \E i \in DOMAIN rows : rows[i].SubscriptionID = id
    <2> DEFINE row == [SubscriptionID |-> id, Billed |-> amount]
               n == Len(rows) + 1
    <2>1. next = Append(rows, row)
        BY <1>3 DEF AddRow
    <2>2. row \in LedgerRow
        BY DEF LedgerRow
    <2>3. /\ DOMAIN next = DOMAIN rows \cup {n} /\ n \notin DOMAIN rows /\ n \in Nat
          /\ next[n] = row /\ \A k \in DOMAIN rows : next[k] = rows[k]
        BY <2>1, <2>2, AppendProperties
    <2>4. row.SubscriptionID = id /\ row.Billed = amount
        OBVIOUS
    <2> HIDE DEF next, row, n
    <2>5. RowsDistinct(next)
        BY <1>3, <2>3, <2>4 DEF RowsDistinct
    <2>6. RowOwners(next) \subseteq RowOwners(rows) \cup {id}
        BY <2>3, <2>4 DEF RowOwners
    <2>7. ASSUME NEW O
          PROVE  BilledAmong(next, O) = BilledAmong(rows, O) + IF id \in O THEN amount ELSE 0
        <3>1. K(next, O) = IF id \in O THEN K(rows, O) \cup {n} ELSE K(rows, O)
            BY <2>3, <2>4
        <3>2. IsFiniteSet(K(rows, O)) /\ K(rows, O) \subseteq DOMAIN rows
            BY BilledAmongIs
        <3>3. /\ \A k \in DOMAIN rows : /\ BilledAt(rows)[k] \in Nat
                                        /\ BilledAt(next)[k] = BilledAt(rows)[k]
              /\ BilledAt(next)[n] = amount
            <4>1. \A k \in DOMAIN rows : BilledAt(rows)[k] = rows[k].Billed /\ rows[k].Billed \in Nat
                BY BilledAmongIs
            <4>2. \A k \in DOMAIN next : BilledAt(next)[k] = next[k].Billed
                BY <1>1, BilledAmongIs
            <4>3. QED
                BY <2>3, <2>4, <4>1, <4>2
        <3> HIDE DEF K
        <3>4. PICK T, f, g : T = K(rows, O) /\ f = BilledAt(rows) /\ g = BilledAt(next)
            OBVIOUS
        <3>5. /\ BilledAmong(rows, O) = SumFunctionOnSet(f, T)
              /\ BilledAmong(next, O) = SumFunctionOnSet(g, K(next, O))
            BY <1>0, <3>4
        <3>6. \A k \in T : f[k] \in Nat /\ g[k] = f[k]
            BY <3>2, <3>3, <3>4
        <3>7. IsFiniteSet(T) /\ n \notin T
            BY <2>3, <3>2, <3>4
        <3>8. PICK s \in Nat : s = SumFunctionOnSet(f, T) /\ s = SumFunctionOnSet(g, T)
            BY <3>6, <3>7, SumType, SumSame
        <3>9. CASE id \in O
            <4>1. g[n] = amount /\ amount \in Nat /\ \A k \in T : g[k] \in Nat
                BY <3>3, <3>4, <3>6
            <4>2. SumFunctionOnSet(g, T \cup {n}) = amount + s
                BY <3>7, <3>8, <4>1, SumAdd
            <4>3. QED
                BY <3>1, <3>4, <3>5, <3>8, <3>9, <4>2
        <3>10. CASE id \notin O
            BY <3>1, <3>4, <3>5, <3>8, <3>10
        <3>11. QED
            BY <3>9, <3>10
    <2>8. QED
        BY <1>1, <2>5, <2>6, <2>7 DEF next, BillsMore
<1>4. QED
    BY <1>2, <1>3

SplitState == [remaining : Nat, rows : Seq(LedgerRow)]

\* A turn takes what the subscription has room for, and no more than is left.
LEMMA TurnResult ==
    ASSUME NEW split \in SplitState, NEW s \in SubQuota, NEW at
    PROVE  /\ Room(s, at) \in Nat
           /\ Turn(split, s, at) \in SplitState
           /\ \E take \in Nat :
                 /\ take = Lesser(Room(s, at), split.remaining)
                 /\ Turn(split, s, at).remaining = split.remaining - take
                 /\ Turn(split, s, at).rows = IF take = 0 THEN split.rows
                                              ELSE AddRow(split.rows, s.ID, take)
<1>1. /\ split.remaining \in Nat /\ split.rows \in Seq(LedgerRow)
      /\ split = [remaining |-> split.remaining, rows |-> split.rows]
    BY DEF SplitState
<1>2. Room(s, at) \in Nat
    BY AvailableBounds DEF Room
<1>3. PICK take \in Nat : take = Lesser(Room(s, at), split.remaining)
    BY <1>1, <1>2 DEF Lesser
<1>4. take <= split.remaining
    BY <1>1, <1>2, <1>3 DEF Lesser
<1>5. CASE take = 0
    <2>1. Turn(split, s, at) = split
        BY <1>1, <1>2, <1>3, <1>5 DEF Turn, Absorb, Lesser, Room
    <2>2. QED
        BY <1>1, <1>2, <1>3, <1>5, <2>1
<1>6. CASE take # 0
    <2>1. ActiveAt(s, at) /\ Available(s) > 0 /\ Room(s, at) = Available(s) /\ split.remaining # 0
        BY <1>1, <1>2, <1>3, <1>6, AvailableBounds DEF Room, Lesser
    <2>2. Turn(split, s, at) = [remaining |-> split.remaining - take,
                                rows      |-> AddRow(split.rows, s.ID, take)]
        BY <1>3, <2>1 DEF Turn, Absorb
    <2>3. PICK rows \in Seq(LedgerRow) : rows = AddRow(split.rows, s.ID, take)
        <3>1. s.ID \in Nat /\ take \in Nat \ {0}
            BY <1>6 DEF SubQuota
        <3>2. QED
            BY <1>1, <3>1, AddRowResult
    <2>4. PICK rest \in Nat : rest = split.remaining - take
        BY <1>1, <1>4
    <2>5. Turn(split, s, at) = [remaining |-> rest, rows |-> rows]
        BY <2>2, <2>3, <2>4
    <2>6. Turn(split, s, at) \in SplitState
        BY <2>5 DEF SplitState
    <2>7. QED
        BY <1>2, <1>3, <1>6, <2>3, <2>4, <2>5, <2>6
<1>7. QED
    BY <1>5, <1>6

SplitFolds(g, billed, subs, at) ==
    g = [U \in SUBSET (DOMAIN subs) |->
            IF U = {} THEN Unsplit(billed)
            ELSE Turn(g[U \ {Max(U)}], subs[Max(U)], at)]

\* Attribute is a left fold of turns, and then the overflow.
LEMMA AttributeIsAFold ==
    ASSUME NEW billed \in Nat \ {0}, NEW subs, NEW at
    PROVE  Attribute(billed, subs, at)
               = Spill((CHOOSE g : SplitFolds(g, billed, subs, at))[DOMAIN subs])
<1>1. ~(billed <= 0)
    OBVIOUS
<1>2. QED
    BY <1>1 DEF Attribute, FoldLeft, MapThenFoldSet, SplitFolds, Turn

\* The loop of Attribute, turn by turn.
LEMMA SplitTrace ==
    ASSUME NEW billed \in Nat \ {0}, NEW subs \in Seq(SubQuota), NEW at
    PROVE  \E st \in [0 .. Len(subs) -> SplitState] :
              /\ st[0] = Unsplit(billed)
              /\ \A i \in 1 .. Len(subs) : st[i] = Turn(st[i - 1], subs[i], at)
              /\ Attribute(billed, subs, at) = Spill(st[Len(subs)])
<1> DEFINE n == Len(subs)
           base == Unsplit(billed)
           h == [w \in SplitState \X (1 .. n) |-> Turn(w[1], subs[w[2]], at)]
<1>1. n \in Nat /\ DOMAIN subs = 1 .. n /\ \A i \in 1 .. n : subs[i] \in SubQuota
    OBVIOUS
<1>2. base \in SplitState
    BY EmptySeq DEF Unsplit, SplitState
<1>3. h \in [SplitState \X (1 .. n) -> SplitState]
    BY <1>1, TurnResult
<1>4. \A x \in SplitState, i \in 1 .. n : h[<<x, i>>] = Turn(x, subs[i], at)
    OBVIOUS
<1> HIDE DEF n, h, base
<1>5. PICK g0 : LeftFolding(g0, n, SplitState, base, h)
    BY <1>1, <1>2, <1>3, LeftFoldExists
<1>6. SplitFolds(g0, billed, subs, at)
    <2>1. ASSUME NEW U \in SUBSET (1 .. n), U # {}
          PROVE  Max(U) \in 1 .. n /\ g0[U \ {Max(U)}] \in SplitState
        <3>1. Max(U) \in 1 .. n
            BY <1>1, <2>1, MaxIs
        <3>2. U \ {Max(U)} \in SUBSET (1 .. n)
            OBVIOUS
        <3>3. QED
            BY <1>5, <3>1, <3>2 DEF LeftFolding
    <2>2. \A U \in SUBSET (1 .. n) :
             g0[U] = IF U = {} THEN base ELSE Turn(g0[U \ {Max(U)}], subs[Max(U)], at)
        BY <1>4, <1>5, <2>1 DEF LeftFolding
    <2>3. g0 = [U \in SUBSET (1 .. n) |-> g0[U]]
        BY <1>5 DEF LeftFolding
    <2>4. QED
        BY <1>1, <2>2, <2>3 DEF SplitFolds, base
<1>7. PICK g : SplitFolds(g, billed, subs, at) /\ Attribute(billed, subs, at) = Spill(g[1 .. n])
    BY <1>1, <1>6, AttributeIsAFold
<1> DEFINE st == [i \in 0 .. n |-> g[1 .. i]]
<1>8. st[0] = base
    BY <1>1, <1>7 DEF SplitFolds, base
<1>9. ASSUME NEW i \in 1 .. n
      PROVE  st[i] = Turn(st[i - 1], subs[i], at)
    <2>1. Max(1 .. i) = i /\ (1 .. i) \ {i} = 1 .. i - 1 /\ 1 .. i # {}
        BY <1>1, MaxOfInterval
    <2>2. 1 .. i \in SUBSET (DOMAIN subs) /\ i \in 0 .. n /\ i - 1 \in 0 .. n
        BY <1>1
    <2>3. g[1 .. i] = Turn(g[(1 .. i) \ {Max(1 .. i)}], subs[Max(1 .. i)], at)
        BY <1>7, <2>1, <2>2 DEF SplitFolds
    <2>4. QED
        BY <2>1, <2>2, <2>3
<1>10. \A i \in 0 .. n : st[i] \in SplitState
    <2> DEFINE Bad == {i \in 0 .. n : st[i] \notin SplitState}
    <2>1. SUFFICES ASSUME Bad # {} PROVE FALSE
        OBVIOUS
    <2>2. PICK i \in Bad : \A j \in 0 .. i - 1 : j \notin Bad
        <3> HIDE DEF st
        <3> QED BY <1>1, <2>1, LeastNumber
    <2> HIDE DEF st
    <2>3. i # 0
        BY <1>2, <1>8, <2>2
    <2>4. i \in 1 .. n /\ i - 1 \in 0 .. n /\ i - 1 \in 0 .. i - 1
        BY <1>1, <2>3
    <2>5. st[i - 1] \in SplitState
        BY <2>2, <2>4
    <2>6. st[i] \in SplitState
        BY <1>1, <1>9, <2>4, <2>5, TurnResult
    <2>7. QED
        BY <2>2, <2>6
<1>11. st \in [0 .. n -> SplitState]
    BY <1>10
<1>12. Attribute(billed, subs, at) = Spill(st[n])
    BY <1>1, <1>7
<1>13. QED
    BY <1>8, <1>9, <1>11, <1>12 DEF n, base

\* What the overflow row adds.
LEMMA SpillBills ==
    ASSUME NEW split \in SplitState, RowsDistinct(split.rows)
    PROVE  BillsMore(Spill(split), split.rows, OverflowSubscriptionID, split.remaining)
<1>1. split.remaining \in Nat /\ split.rows \in Seq(LedgerRow) /\ OverflowSubscriptionID \in Nat
    BY DEF SplitState, OverflowSubscriptionID
<1>2. \A O : BilledAmong(split.rows, O) \in Nat
    BY <1>1, BilledAmongIs
<1>3. CASE split.remaining > 0
    <2>1. split.remaining \in Nat \ {0}
        BY <1>1, <1>3
    <2>2. Spill(split) = AddRow(split.rows, OverflowSubscriptionID, split.remaining)
        BY <1>3 DEF Spill
    <2>3. BillsMore(AddRow(split.rows, OverflowSubscriptionID, split.remaining),
                    split.rows, OverflowSubscriptionID, split.remaining)
        BY <1>1, <2>1, AddRowBills
    <2>4. QED
        BY <2>2, <2>3
<1>4. CASE split.remaining = 0
    <2>1. Spill(split) = split.rows
        BY <1>4 DEF Spill
    <2>2. QED
        BY <1>1, <1>2, <1>4, <2>1 DEF BillsMore
<1>5. QED
    BY <1>1, <1>3, <1>4

\* A turn bills its own subscription what that has room for, if so much is left.
TurnTo(next, split, s, at, take) ==
    /\ next = Turn(split, s, at)
    /\ take = Lesser(Room(s, at), split.remaining)
    /\ next.remaining = split.remaining - take
    /\ BillsMore(next.rows, split.rows, s.ID, take)

\* A turn bills what it takes to the subscription whose turn it is.
LEMMA TurnBills ==
    ASSUME NEW split \in SplitState, RowsDistinct(split.rows), NEW s \in SubQuota, NEW at
    PROVE  \E next \in SplitState, take \in Nat : TurnTo(next, split, s, at, take)
<1>1. PICK next \in SplitState, take \in Nat :
          /\ next = Turn(split, s, at)
          /\ take = Lesser(Room(s, at), split.remaining)
          /\ next.remaining = split.remaining - take
          /\ next.rows = IF take = 0 THEN split.rows ELSE AddRow(split.rows, s.ID, take)
    BY TurnResult
<1>2. split.rows \in Seq(LedgerRow) /\ s.ID \in Nat
    BY DEF SplitState, SubQuota
<1>3. \A O : BilledAmong(split.rows, O) \in Nat
    BY <1>2, BilledAmongIs
<1>4. CASE take = 0
    <2>1. BillsMore(next.rows, split.rows, s.ID, take)
        BY <1>1, <1>2, <1>3, <1>4 DEF BillsMore
    <2>2. QED
        BY <1>1, <2>1 DEF TurnTo
<1>5. CASE take # 0
    <2>1. take \in Nat \ {0} /\ next.rows = AddRow(split.rows, s.ID, take)
        BY <1>1, <1>5
    <2>2. BillsMore(next.rows, split.rows, s.ID, take)
        BY <1>2, <2>1, AddRowBills
    <2>3. QED
        BY <1>1, <2>2 DEF TurnTo
<1>6. QED
    BY <1>4, <1>5

\* The books of the loop after any number of turns: what is placed and what is
\* left make the batch, and only subscriptions already visited were billed.
SplitBooks(st, i, billed, subs) ==
    /\ RowsDistinct(st[i].rows)
    /\ RowOwners(st[i].rows) \subseteq {subs[j].ID : j \in 1 .. i}
    /\ BilledAmong(st[i].rows, Nat) + st[i].remaining = billed

\* No rows bill nothing.
LEMMA EmptyRows ==
    /\ <<>> \in Seq(LedgerRow)
    /\ RowsDistinct(<<>>)
    /\ RowOwners(<<>>) = {}
    /\ \A O : BilledAmong(<<>>, O) = 0
<1>1. <<>> \in Seq(LedgerRow) /\ RowsDistinct(<<>>) /\ RowOwners(<<>>) = {}
    BY EmptySeq DEF RowsDistinct, RowOwners
<1>2. ASSUME NEW O PROVE BilledAmong(<<>>, O) = 0
    <2>1. {k \in DOMAIN <<>> : <<>>[k].SubscriptionID \in O} = {}
        OBVIOUS
    <2>2. QED
        BY <2>1, SumEmpty DEF BilledAmong
<1>3. QED
    BY <1>1, <1>2

\* After every turn, what is billed and what remains are the batch.
LEMMA SplitKeepsBooks ==
    ASSUME NEW billed \in Nat \ {0}, NEW subs \in Seq(SubQuota), NEW at,
           NEW st \in [0 .. Len(subs) -> SplitState],
           st[0] = Unsplit(billed),
           \A i \in 1 .. Len(subs) : st[i] = Turn(st[i - 1], subs[i], at)
    PROVE  \A i \in 0 .. Len(subs) : SplitBooks(st, i, billed, subs)
<1> DEFINE Bad == {i \in 0 .. Len(subs) : ~SplitBooks(st, i, billed, subs)}
<1>1. SUFFICES ASSUME Bad # {} PROVE FALSE
    OBVIOUS
<1>2. Len(subs) \in Nat
    OBVIOUS
<1>3. PICK i \in Bad : \A j \in 0 .. i - 1 : j \notin Bad
    BY <1>1, <1>2, LeastNumber
<1>4. CASE i = 0
    <2>1. st[0].rows = <<>> /\ st[0].remaining = billed
        BY DEF Unsplit
    <2>2. SplitBooks(st, 0, billed, subs)
        BY <2>1, EmptyRows DEF SplitBooks
    <2>3. QED
        BY <1>3, <1>4, <2>2
<1>5. CASE i # 0
    <2>1. i \in 1 .. Len(subs) /\ i - 1 \in 0 .. Len(subs) /\ i - 1 \in 0 .. i - 1
        BY <1>2, <1>5
    <2>2. PICK split \in SplitState, s \in SubQuota : split = st[i - 1] /\ s = subs[i]
        BY <2>1
    <2>3. SplitBooks(st, i - 1, billed, subs)
        BY <1>3, <2>1
    <2>4. /\ RowsDistinct(split.rows)
          /\ RowOwners(split.rows) \subseteq {subs[j].ID : j \in 1 .. i - 1}
          /\ BilledAmong(split.rows, Nat) + split.remaining = billed
        BY <2>2, <2>3 DEF SplitBooks
    <2>5. PICK next \in SplitState, take \in Nat : next = st[i] /\ TurnTo(next, split, s, at, take)
        <3>1. st[i] = Turn(split, s, at)
            BY <2>1, <2>2
        <3>2. PICK next \in SplitState, take \in Nat : TurnTo(next, split, s, at, take)
            BY <2>4, TurnBills
        <3>3. QED
            BY <3>1, <3>2 DEF TurnTo
    <2>6. RowOwners(next.rows) \subseteq {subs[j].ID : j \in 1 .. i}
        <3>1. {subs[j].ID : j \in 1 .. i - 1} \subseteq {subs[j].ID : j \in 1 .. i}
            BY <2>1
        <3>2. s.ID \in {subs[j].ID : j \in 1 .. i}
            BY <2>1, <2>2
        <3>3. QED
            BY <2>4, <2>5, <3>1, <3>2 DEF TurnTo, BillsMore
    <2>7. BilledAmong(next.rows, Nat) + next.remaining = billed
        <3>1. s.ID \in Nat /\ split.remaining \in Nat /\ split.rows \in Seq(LedgerRow)
            BY DEF SubQuota, SplitState
        <3>2. BilledAmong(split.rows, Nat) \in Nat
            BY <3>1, BilledAmongIs
        <3>3. BilledAmong(next.rows, Nat) = BilledAmong(split.rows, Nat) + take
            BY <2>5, <3>1 DEF TurnTo, BillsMore
        <3>4. QED
            BY <2>4, <2>5, <3>1, <3>2, <3>3 DEF TurnTo
    <2>8. SplitBooks(st, i, billed, subs)
        BY <2>5, <2>6, <2>7 DEF SplitBooks, TurnTo, BillsMore
    <2>9. QED
        BY <1>3, <2>8
<1>6. QED
    BY <1>4, <1>5

\* rows is a split of the amount billed over subs.
IsSplitOf(rows, billed, subs) ==
    /\ rows \in Seq(LedgerRow)
    /\ RowsDistinct(rows)
    /\ RowOwners(rows) \subseteq {subs[i].ID : i \in DOMAIN subs} \cup {OverflowSubscriptionID}
    /\ TotalBilled(rows) = IF billed > 0 THEN billed ELSE 0

\* Attribute places exactly the bytes of the batch, none twice and none lost:
\* one row per owner, every owner a subscription of the list or the overflow
\* sentinel, the rows summing to what was billed (quota.go:140-183).
THEOREM SplitConserves ==
    ASSUME NEW billed \in Int, NEW subs \in Seq(SubQuota), NEW at
    PROVE  IsSplitOf(Attribute(billed, subs, at), billed, subs)
<1>1. CASE billed <= 0
    <2>1. Attribute(billed, subs, at) = <<>>
        BY <1>1 DEF Attribute
    <2>2. TotalBilled(<<>>) = 0
        BY EmptyRows, BilledAmongIs
    <2>3. QED
        BY <1>1, <2>1, <2>2, EmptyRows DEF IsSplitOf
<1>2. CASE billed > 0
    <2>1. billed \in Nat \ {0}
        BY <1>2
    <2>2. PICK st \in [0 .. Len(subs) -> SplitState] :
              /\ st[0] = Unsplit(billed)
              /\ \A i \in 1 .. Len(subs) : st[i] = Turn(st[i - 1], subs[i], at)
              /\ Attribute(billed, subs, at) = Spill(st[Len(subs)])
        BY <2>1, SplitTrace
    <2>3. PICK last \in SplitState : last = st[Len(subs)]
        OBVIOUS
    <2>4. SplitBooks(st, Len(subs), billed, subs)
        <3>1. \A i \in 0 .. Len(subs) : SplitBooks(st, i, billed, subs)
            BY <2>1, <2>2, SplitKeepsBooks
        <3>2. QED
            BY <3>1
    <2>5. /\ RowsDistinct(last.rows)
          /\ RowOwners(last.rows) \subseteq {subs[i].ID : i \in DOMAIN subs}
          /\ BilledAmong(last.rows, Nat) + last.remaining = billed
        BY <2>3, <2>4 DEF SplitBooks
    <2>6. PICK rows : rows = Spill(last)
        OBVIOUS
    <2>7. /\ rows \in Seq(LedgerRow)
          /\ RowsDistinct(rows)
          /\ RowOwners(rows) \subseteq RowOwners(last.rows) \cup {OverflowSubscriptionID}
          /\ BilledAmong(rows, Nat) = BilledAmong(last.rows, Nat)
                 + IF OverflowSubscriptionID \in Nat THEN last.remaining ELSE 0
        BY <2>5, <2>6, SpillBills DEF BillsMore
    <2>8. BilledAmong(rows, Nat) = billed
        BY <2>5, <2>7 DEF OverflowSubscriptionID
    <2>9. TotalBilled(rows) = billed
        BY <2>7, <2>8, BilledAmongIs
    <2>10. QED
        BY <1>2, <2>2, <2>3, <2>5, <2>6, <2>7, <2>9 DEF IsSplitOf
<1>3. QED
    BY <1>1, <1>2

\* What is poured away grows by the room of the entry passed.
LEMMA TakenBeforeIs ==
    ASSUME NEW list \in Seq(SubQuota), NEW at
    PROVE  /\ TakenBefore(list, at, 1) = 0
           /\ \A i \in 1 .. Len(list) + 1 : TakenBefore(list, at, i) \in Nat
           /\ \A i \in 1 .. Len(list) :
                 /\ Room(list[i], at) \in Nat
                 /\ TakenBefore(list, at, i + 1) = TakenBefore(list, at, i) + Room(list[i], at)
<1> DEFINE room == [j \in DOMAIN list |-> Room(list[j], at)]
           n == Len(list)
<1>1. n \in Nat /\ DOMAIN list = 1 .. n
    OBVIOUS
<1>2. ASSUME NEW j \in 1 .. n
      PROVE  room[j] = Room(list[j], at) /\ room[j] \in Nat
    <2>1. list[j] \in SubQuota
        OBVIOUS
    <2>2. QED
        BY <2>1, AvailableBounds DEF Room
<1>3. \A i : TakenBefore(list, at, i) = SumFunctionOnSet(room, 1 .. i - 1)
    BY DEF TakenBefore
<1> HIDE DEF room, n
<1>4. ASSUME NEW i \in 1 .. n + 1
      PROVE  /\ IsFiniteSet(1 .. i - 1)
             /\ \A j \in 1 .. i - 1 : room[j] \in Nat
    <2>1. IsFiniteSet(1 .. i - 1)
        BY <1>1, FS_Interval
    <2>2. 1 .. i - 1 \subseteq 1 .. n
        BY <1>1
    <2>3. QED
        BY <1>2, <2>1, <2>2
<1>5. TakenBefore(list, at, 1) = 0
    <2>1. 1 .. 1 - 1 = {}
        OBVIOUS
    <2>2. QED
        BY <1>3, <2>1, SumEmpty
<1>6. ASSUME NEW i \in 1 .. n + 1 PROVE TakenBefore(list, at, i) \in Nat
    BY <1>3, <1>4, SumType
<1>7. ASSUME NEW i \in 1 .. n
      PROVE  TakenBefore(list, at, i + 1) = TakenBefore(list, at, i) + Room(list[i], at)
    <2>1. i \in 1 .. n + 1 /\ i \notin 1 .. i - 1 /\ 1 .. (i + 1) - 1 = (1 .. i - 1) \cup {i}
        BY <1>1
    <2>2. PICK T : T = 1 .. i - 1 /\ IsFiniteSet(T) /\ i \notin T /\ \A j \in T : room[j] \in Nat
        BY <1>4, <2>1
    <2>3. SumFunctionOnSet(room, T \cup {i}) = room[i] + SumFunctionOnSet(room, T)
        BY <1>2, <2>2, SumAdd
    <2>4. SumFunctionOnSet(room, T) \in Nat
        BY <2>2, SumType
    <2>5. TakenBefore(list, at, i + 1) = SumFunctionOnSet(room, T \cup {i})
        BY <1>3, <2>1, <2>2
    <2>6. TakenBefore(list, at, i) = SumFunctionOnSet(room, T)
        BY <1>3, <2>2
    <2>7. PICK a \in Nat, b \in Nat : a = SumFunctionOnSet(room, T) /\ b = room[i]
        BY <1>2, <2>4
    <2>8. b = Room(list[i], at) /\ SumFunctionOnSet(room, T \cup {i}) = b + a
        BY <1>2, <2>3, <2>7
    <2>9. QED
        BY <2>5, <2>6, <2>7, <2>8
<1>8. QED
    BY <1>1, <1>2, <1>5, <1>6, <1>7 DEF n

DistinctIDs(list) == \A i, j \in DOMAIN list : list[i].ID = list[j].ID => i = j

\* Where the loop stands when it has visited i entries, told by the waterfall.
SplitPours(st, i, billed, subs, at) ==
    /\ RowsDistinct(st[i].rows)
    /\ RowOwners(st[i].rows) \subseteq {subs[j].ID : j \in 1 .. i}
    /\ st[i].remaining = IF billed > TakenBefore(subs, at, i + 1)
                         THEN billed - TakenBefore(subs, at, i + 1) ELSE 0
    /\ \A j \in 1 .. i : BilledAmong(st[i].rows, {subs[j].ID}) = Poured(billed, subs, at, j)

\* Nothing is billed to an owner without a row.
LEMMA NotAnOwner ==
    ASSUME NEW rows, NEW O, O \cap RowOwners(rows) = {}
    PROVE  BilledAmong(rows, O) = 0
<1>1. {k \in DOMAIN rows : rows[k].SubscriptionID \in O} = {}
    BY DEF RowOwners
<1>2. QED
    BY <1>1, SumEmpty DEF BilledAmong

\* After every turn, what is billed so far is what was poured so far.
LEMMA SplitKeepsPouring ==
    ASSUME NEW billed \in Nat \ {0}, NEW subs \in Seq(SubQuota), DistinctIDs(subs), NEW at,
           NEW st \in [0 .. Len(subs) -> SplitState],
           st[0] = Unsplit(billed),
           \A i \in 1 .. Len(subs) : st[i] = Turn(st[i - 1], subs[i], at)
    PROVE  \A i \in 0 .. Len(subs) : SplitPours(st, i, billed, subs, at)
<1> DEFINE Bad == {i \in 0 .. Len(subs) : ~SplitPours(st, i, billed, subs, at)}
<1>1. SUFFICES ASSUME Bad # {} PROVE FALSE
    OBVIOUS
<1>2. Len(subs) \in Nat
    OBVIOUS
<1>3. PICK i \in 0 .. Len(subs) : i \in Bad /\ \A j \in 0 .. i - 1 : j \notin Bad
    BY <1>1, <1>2, LeastNumber
<1>4. CASE i = 0
    <2>1. st[0].rows = <<>> /\ st[0].remaining = billed
        BY DEF Unsplit
    <2>2. TakenBefore(subs, at, 0 + 1) = 0
        BY TakenBeforeIs
    <2>3. SplitPours(st, 0, billed, subs, at)
        BY <2>1, <2>2, EmptyRows DEF SplitPours
    <2>4. QED
        BY <1>3, <1>4, <2>3
<1>5. CASE i # 0
    <2>1. i \in 1 .. Len(subs) /\ i - 1 \in 0 .. Len(subs) /\ i - 1 \in 0 .. i - 1
        BY <1>2, <1>5
    <2>2. PICK split \in SplitState, s \in SubQuota : split = st[i - 1] /\ s = subs[i]
        BY <2>1
    <2>3. SplitPours(st, i - 1, billed, subs, at)
        BY <1>3, <2>1
    <2> HIDE DEF Bad
    <2>4. PICK t \in Nat, r \in Nat :
              /\ t = TakenBefore(subs, at, i) /\ r = Room(s, at)
              /\ TakenBefore(subs, at, i + 1) = t + r
        <3>1. i \in 1 .. Len(subs) + 1
            BY <1>2, <2>1
        <3>2. /\ TakenBefore(subs, at, i) \in Nat /\ Room(subs[i], at) \in Nat
              /\ TakenBefore(subs, at, i + 1) = TakenBefore(subs, at, i) + Room(subs[i], at)
            BY <2>1, <3>1, TakenBeforeIs
        <3>3. QED
            BY <2>2, <3>2
    <2>5. /\ RowsDistinct(split.rows)
          /\ RowOwners(split.rows) \subseteq {subs[j].ID : j \in 1 .. i - 1}
          /\ split.remaining = IF billed > t THEN billed - t ELSE 0
          /\ \A j \in 1 .. i - 1 : BilledAmong(split.rows, {subs[j].ID}) = Poured(billed, subs, at, j)
        <3>1. (i - 1) + 1 = i
            BY <2>1
        <3>2. QED
            BY <2>2, <2>3, <2>4, <3>1 DEF SplitPours
    <2>6. PICK next \in SplitState, take \in Nat : next = st[i] /\ TurnTo(next, split, s, at, take)
        <3>1. st[i] = Turn(split, s, at)
            BY <2>1, <2>2
        <3>0. RowsDistinct(split.rows)
            BY <2>5
        <3>2. PICK next \in SplitState, take \in Nat : TurnTo(next, split, s, at, take)
            BY <3>0, TurnBills
        <3>3. QED
            BY <3>1, <3>2 DEF TurnTo
    <2>7. RowOwners(next.rows) \subseteq {subs[j].ID : j \in 1 .. i}
        <3>1. {subs[j].ID : j \in 1 .. i - 1} \subseteq {subs[j].ID : j \in 1 .. i}
            BY <2>1
        <3>2. s.ID \in {subs[j].ID : j \in 1 .. i}
            BY <2>1, <2>2
        <3>3. QED
            BY <2>5, <2>6, <3>1, <3>2 DEF TurnTo, BillsMore
    <2>8. next.remaining = IF billed > t + r THEN billed - (t + r) ELSE 0
        BY <2>4, <2>5, <2>6 DEF Lesser, TurnTo
    <2>9. take = Poured(billed, subs, at, i)
        BY <2>2, <2>4, <2>5, <2>6 DEF Poured, Lesser, TurnTo
    <2>10. ASSUME NEW j \in 1 .. i
           PROVE  BilledAmong(next.rows, {subs[j].ID}) = Poured(billed, subs, at, j)
        <3>1. split.rows \in Seq(LedgerRow)
            BY DEF SplitState
        <3>2. PICK O, id : id = subs[j].ID /\ O = {id}
            OBVIOUS
        <3>3. BilledAmong(split.rows, O) \in Nat
            BY <3>1, BilledAmongIs
        <3>4. BilledAmong(next.rows, O) = BilledAmong(split.rows, O) + IF s.ID \in O THEN take ELSE 0
            BY <2>6 DEF TurnTo, BillsMore
        <3>5. CASE j = i
            <4>1. O \cap RowOwners(split.rows) = {}
                <5>1. ASSUME NEW k \in 1 .. i - 1 PROVE subs[k].ID # id
                    <6>1. k \in DOMAIN subs /\ j \in DOMAIN subs /\ k # j
                        BY <1>2, <2>1, <3>5
                    <6>2. QED
                        BY <3>2, <6>1 DEF DistinctIDs
                <5>2. id \notin RowOwners(split.rows)
                    BY <2>5, <5>1
                <5>3. QED
                    BY <3>2, <5>2
            <4>2. BilledAmong(split.rows, O) = 0
                BY <4>1, NotAnOwner
            <4>3. s.ID \in O
                BY <2>2, <3>2, <3>5
            <4>4. QED
                BY <2>9, <3>2, <3>4, <3>5, <4>2, <4>3
        <3>6. CASE j # i
            <4>1. j \in 1 .. i - 1 /\ j \in DOMAIN subs /\ i \in DOMAIN subs
                BY <1>2, <2>1, <3>6
            <4>2. s.ID \notin O
                BY <2>2, <3>2, <3>6, <4>1 DEF DistinctIDs
            <4>3. QED
                BY <2>5, <3>2, <3>3, <3>4, <4>1, <4>2
        <3>7. QED
            BY <3>5, <3>6
    <2>11. SplitPours(st, i, billed, subs, at)
        BY <2>4, <2>6, <2>7, <2>8, <2>10 DEF SplitPours, TurnTo, BillsMore
    <2>12. QED
        BY <1>3, <2>11 DEF Bad
<1>6. QED
    BY <1>4, <1>5

\* rows is what the waterfall pours from list.
IsWaterfallOf(rows, billed, list, at) ==
    /\ \A i \in DOMAIN list : BilledTo(rows, list[i].ID) = Poured(billed, list, at, i)
    /\ BilledTo(rows, OverflowSubscriptionID) = Overflowing(billed, list, at)

\* The loop of Attribute computes the waterfall: each subscription is billed
\* what reaches it, up to what it has left, and only what runs past the last
\* one is overflow (quota.go:164-183).
THEOREM LoopPours ==
    ASSUME NEW billed \in Int, NEW subs \in Seq(SubQuota), DistinctIDs(subs), NEW at
    PROVE  IsWaterfallOf(Attribute(billed, subs, at), billed, subs, at)
<1> DEFINE n == Len(subs)
<1>1. n \in Nat /\ DOMAIN subs = 1 .. n
    OBVIOUS
<1>2. \A i \in 1 .. n + 1 : TakenBefore(subs, at, i) \in Nat
    BY TakenBeforeIs
<1>3. n + 1 \in 1 .. n + 1 /\ \A i \in 1 .. n : i \in 1 .. n + 1
    BY <1>1
<1>4. CASE billed <= 0
    <2>1. Attribute(billed, subs, at) = <<>>
        BY <1>4 DEF Attribute
    <2>2. \A id : BilledTo(<<>>, id) = 0
        BY EmptyRows, BilledAmongIs
    <2>3. \A i \in 1 .. n : Poured(billed, subs, at, i) = 0
        BY <1>2, <1>3, <1>4 DEF Poured
    <2>4. Overflowing(billed, subs, at) = 0
        BY <1>2, <1>3, <1>4 DEF Overflowing
    <2>5. QED
        BY <1>1, <2>1, <2>2, <2>3, <2>4 DEF IsWaterfallOf
<1>5. CASE billed > 0
    <2>1. billed \in Nat \ {0}
        BY <1>5
    <2>2. PICK st \in [0 .. Len(subs) -> SplitState] :
              /\ st[0] = Unsplit(billed)
              /\ \A i \in 1 .. Len(subs) : st[i] = Turn(st[i - 1], subs[i], at)
              /\ Attribute(billed, subs, at) = Spill(st[Len(subs)])
        BY <2>1, SplitTrace
    <2>3. PICK last \in SplitState : last = st[Len(subs)]
        OBVIOUS
    <2>4. SplitPours(st, Len(subs), billed, subs, at)
        <3>1. \A i \in 0 .. Len(subs) : SplitPours(st, i, billed, subs, at)
            BY <2>1, <2>2, SplitKeepsPouring
        <3>2. QED
            BY <3>1
    <2>5. /\ RowsDistinct(last.rows)
          /\ RowOwners(last.rows) \subseteq {subs[j].ID : j \in 1 .. n}
          /\ last.remaining = Overflowing(billed, subs, at)
          /\ \A j \in 1 .. n : BilledAmong(last.rows, {subs[j].ID}) = Poured(billed, subs, at, j)
        <3>1. TakenBefore(subs, at, n + 1) \in Nat
            BY <1>2, <1>3
        <3>2. QED
            BY <2>3, <2>4, <3>1 DEF SplitPours, Overflowing
    <2>6. PICK rows : rows = Spill(last) /\ rows = Attribute(billed, subs, at)
        BY <2>2, <2>3
    <2>7. BillsMore(rows, last.rows, OverflowSubscriptionID, last.remaining)
        BY <2>5, <2>6, SpillBills
    <2>8. rows \in Seq(LedgerRow) /\ last.rows \in Seq(LedgerRow) /\ last.remaining \in Nat
        BY <2>7 DEF BillsMore, SplitState
    <2>9. \A id : BilledAmong(rows, {id}) = BilledTo(rows, id) /\ BilledAmong(last.rows, {id}) \in Nat
        BY <2>8, BilledAmongIs
    <2>10. \A id : BilledTo(rows, id) = BilledAmong(last.rows, {id})
                      + IF OverflowSubscriptionID \in {id} THEN last.remaining ELSE 0
        BY <2>7, <2>9 DEF BillsMore
    <2>11. ASSUME NEW j \in 1 .. n PROVE subs[j].ID # OverflowSubscriptionID
        <3>1. subs[j] \in SubQuota
            BY <1>1
        <3>2. QED
            BY <3>1 DEF SubQuota
    <2>12. ASSUME NEW j \in 1 .. n
           PROVE  BilledTo(rows, subs[j].ID) = Poured(billed, subs, at, j)
        <3>1. PICK id : id = subs[j].ID /\ id # OverflowSubscriptionID
            BY <2>11
        <3>2. OverflowSubscriptionID \notin {id}
            BY <3>1
        <3>3. BilledTo(rows, id) = BilledAmong(last.rows, {id}) + 0
            BY <2>10, <3>2
        <3>4. BilledAmong(last.rows, {id}) \in Nat
            BY <2>9
        <3>5. BilledAmong(last.rows, {id}) = Poured(billed, subs, at, j)
            BY <2>5, <3>1
        <3>6. QED
            BY <3>1, <3>3, <3>4, <3>5
    <2>13. BilledTo(rows, OverflowSubscriptionID) = Overflowing(billed, subs, at)
        <3>1. {OverflowSubscriptionID} \cap RowOwners(last.rows) = {}
            BY <2>5, <2>11
        <3>2. BilledAmong(last.rows, {OverflowSubscriptionID}) = 0
            BY <3>1, NotAnOwner
        <3>3. QED
            BY <2>5, <2>8, <2>10, <3>2
    <2>14. QED
        BY <1>1, <2>6, <2>12, <2>13 DEF IsWaterfallOf
<1>6. QED
    BY <1>4, <1>5

-----------------------------------------------------------------------------
(* What a whole attribution does to the counters.                          *)

\* The first i rows, what they bill to id.
BilledUpTo(rows, id, i) ==
    SumFunctionOnSet(BilledAt(rows), {j \in 1 .. i : rows[j].SubscriptionID = id})

\* subs after the first i rows, with the counters moved that move.
Moved(subs, rows, moves, i) ==
    [k \in DOMAIN subs |->
        [subs[k] EXCEPT !.UsedBytes =
            @ + IF moves[k] THEN BilledUpTo(rows, subs[k].ID, i) ELSE 0]]

\* What rows bill to an owner grows row by row.
LEMMA BilledUpToIs ==
    ASSUME NEW rows \in Seq(LedgerRow), NEW id
    PROVE  /\ BilledUpTo(rows, id, 0) = 0
           /\ BilledUpTo(rows, id, Len(rows)) = BilledTo(rows, id)
           /\ \A i \in 0 .. Len(rows) : BilledUpTo(rows, id, i) \in Nat
           /\ \A i \in 1 .. Len(rows) :
                 BilledUpTo(rows, id, i) = BilledUpTo(rows, id, i - 1)
                     + IF rows[i].SubscriptionID = id THEN rows[i].Billed ELSE 0
<1> DEFINE K(i) == {j \in 1 .. i : rows[j].SubscriptionID = id}
           n == Len(rows)
<1>1. n \in Nat /\ DOMAIN rows = 1 .. n
    OBVIOUS
<1>2. \A j \in 1 .. n : BilledAt(rows)[j] = rows[j].Billed /\ rows[j].Billed \in Nat
    BY <1>1, BilledAmongIs
<1>3. \A i : BilledUpTo(rows, id, i) = SumFunctionOnSet(BilledAt(rows), K(i))
    BY DEF BilledUpTo
<1>4. K(0) = {}
    OBVIOUS
<1>5. BilledUpTo(rows, id, n) = BilledTo(rows, id)
    BY <1>1 DEF BilledUpTo, BilledTo
<1> HIDE DEF n
<1>6. ASSUME NEW i \in 0 .. n
      PROVE  /\ IsFiniteSet(K(i))
             /\ \A j \in K(i) : BilledAt(rows)[j] \in Nat
    <2>1. IsFiniteSet(1 .. i) /\ 1 .. i \subseteq 1 .. n
        BY <1>1, FS_Interval
    <2>2. QED
        BY <1>2, <2>1, FS_Subset
<1>7. ASSUME NEW i \in 1 .. n
      PROVE  K(i) = IF rows[i].SubscriptionID = id THEN K(i - 1) \cup {i} ELSE K(i - 1)
    <2>1. 1 .. i = (1 .. i - 1) \cup {i}
        BY <1>1
    <2>2. QED
        BY <2>1
<1>8. \A i \in 1 .. n : i \notin K(i - 1) /\ i - 1 \in 0 .. n
    BY <1>1
<1> HIDE DEF K
<1>9. BilledUpTo(rows, id, 0) = 0
    BY <1>3, <1>4, SumEmpty
<1>10. ASSUME NEW i \in 0 .. n PROVE BilledUpTo(rows, id, i) \in Nat
    BY <1>3, <1>6, SumType
<1>11. ASSUME NEW i \in 1 .. n
       PROVE  BilledUpTo(rows, id, i) = BilledUpTo(rows, id, i - 1)
                  + IF rows[i].SubscriptionID = id THEN rows[i].Billed ELSE 0
    <2>1. PICK T, f : T = K(i - 1) /\ f = BilledAt(rows)
        OBVIOUS
    <2>2. IsFiniteSet(T) /\ i \notin T /\ \A j \in T : f[j] \in Nat
        BY <1>6, <1>8, <2>1
    <2>3. f[i] = rows[i].Billed /\ f[i] \in Nat
        BY <1>2, <2>1
    <2>4. SumFunctionOnSet(f, T) \in Nat
        BY <2>2, SumType
    <2>5. SumFunctionOnSet(f, T \cup {i}) = f[i] + SumFunctionOnSet(f, T)
        BY <2>2, <2>3, SumAdd
    <2>6. BilledUpTo(rows, id, i - 1) = SumFunctionOnSet(f, T)
        BY <1>3, <2>1
    <2>7. BilledUpTo(rows, id, i) =
              SumFunctionOnSet(f, IF rows[i].SubscriptionID = id THEN T \cup {i} ELSE T)
        BY <1>3, <1>7, <2>1
    <2>8. PICK a \in Nat, b \in Nat : a = SumFunctionOnSet(f, T) /\ b = f[i]
        BY <2>3, <2>4
    <2>9. QED
        BY <2>3, <2>5, <2>6, <2>7, <2>8
<1>12. QED
    BY <1>5, <1>9, <1>10, <1>11 DEF n

\* The counters move row by row.
LEMMA MovedIs ==
    ASSUME NEW subs \in Seq(SubQuota), DistinctIDs(subs),
           NEW rows \in Seq(LedgerRow), NEW moves \in [DOMAIN subs -> BOOLEAN]
    PROVE  /\ Moved(subs, rows, moves, 0) = subs
           /\ \A i \in 0 .. Len(rows) :
                 LET list == Moved(subs, rows, moves, i)
                 IN  /\ list \in Seq(SubQuota) /\ DOMAIN list = DOMAIN subs
                     /\ DistinctIDs(list)
                     /\ \A k \in DOMAIN subs : /\ list[k].ID = subs[k].ID
                                               /\ list[k].LastResetAt = subs[k].LastResetAt
           /\ \A i \in 1 .. Len(rows) :
                 Moved(subs, rows, moves, i) =
                    [k \in DOMAIN subs |->
                        IF moves[k] /\ subs[k].ID = rows[i].SubscriptionID
                        THEN [Moved(subs, rows, moves, i - 1)[k] EXCEPT
                                 !.UsedBytes = @ + rows[i].Billed]
                        ELSE Moved(subs, rows, moves, i - 1)[k]]
<1> DEFINE more(i, k) == IF moves[k] THEN BilledUpTo(rows, subs[k].ID, i) ELSE 0
           M(i) == Moved(subs, rows, moves, i)
<1>1. \A k \in DOMAIN subs : subs[k] \in SubQuota
    OBVIOUS
<1>2. \A i \in 0 .. Len(rows), k \in DOMAIN subs : more(i, k) \in Nat
    BY BilledUpToIs
<1>3. \A i : M(i) = [k \in DOMAIN subs |-> [subs[k] EXCEPT !.UsedBytes = @ + more(i, k)]]
    BY DEF Moved
<1>4. \A k \in DOMAIN subs : more(0, k) = 0
    BY BilledUpToIs
<1>5. ASSUME NEW i \in 1 .. Len(rows), NEW k \in DOMAIN subs
      PROVE  more(i, k) = more(i - 1, k)
                + IF moves[k] /\ subs[k].ID = rows[i].SubscriptionID THEN rows[i].Billed ELSE 0
    <2>1. BilledUpTo(rows, subs[k].ID, i) = BilledUpTo(rows, subs[k].ID, i - 1)
              + IF rows[i].SubscriptionID = subs[k].ID THEN rows[i].Billed ELSE 0
        BY BilledUpToIs
    <2>2. QED
        BY <2>1
<1> HIDE DEF more, M
<1>6. ASSUME NEW i \in 0 .. Len(rows), NEW k \in DOMAIN subs
      PROVE  /\ M(i)[k] = [subs[k] EXCEPT !.UsedBytes = @ + more(i, k)]
             /\ M(i)[k] \in SubQuota
             /\ M(i)[k].ID = subs[k].ID
             /\ M(i)[k].LastResetAt = subs[k].LastResetAt
             /\ M(i)[k].UsedBytes = subs[k].UsedBytes + more(i, k)
    <2>1. PICK s \in SubQuota, n \in Nat : s = subs[k] /\ n = more(i, k)
        BY <1>1, <1>2
    <2>2. M(i)[k] = [s EXCEPT !.UsedBytes = @ + n]
        BY <1>3, <2>1
    <2>3. s.UsedBytes + n \in Nat
        BY <2>1 DEF SubQuota
    <2>4. QED
        BY <2>1, <2>2, <2>3 DEF SubQuota
<1>7. M(0) = subs
    <2>1. ASSUME NEW k \in DOMAIN subs PROVE [subs[k] EXCEPT !.UsedBytes = @ + more(0, k)] = subs[k]
        <3>1. subs[k].UsedBytes + 0 = subs[k].UsedBytes
            BY <1>1 DEF SubQuota
        <3>2. QED
            BY <1>1, <1>4, <3>1 DEF SubQuota
    <2>2. M(0) = [k \in DOMAIN subs |-> subs[k]]
        BY <1>3, <2>1
    <2>3. QED
        BY <2>2
<1>8. ASSUME NEW i \in 0 .. Len(rows)
      PROVE  M(i) \in Seq(SubQuota) /\ DOMAIN M(i) = DOMAIN subs
    <2>1. M(i) = [k \in DOMAIN subs |-> M(i)[k]]
        BY <1>3
    <2>2. QED
        BY <1>6, <2>1, RewrittenList
<1>9. ASSUME NEW i \in 0 .. Len(rows) PROVE DistinctIDs(M(i))
    BY <1>6, <1>8 DEF DistinctIDs
<1>10. ASSUME NEW i \in 1 .. Len(rows)
       PROVE  M(i) = [k \in DOMAIN subs |->
                        IF moves[k] /\ subs[k].ID = rows[i].SubscriptionID
                        THEN [M(i - 1)[k] EXCEPT !.UsedBytes = @ + rows[i].Billed]
                        ELSE M(i - 1)[k]]
    <2>1. i - 1 \in 0 .. Len(rows) /\ i \in 0 .. Len(rows)
        OBVIOUS
    <2>2. ASSUME NEW k \in DOMAIN subs
          PROVE  M(i)[k] = IF moves[k] /\ subs[k].ID = rows[i].SubscriptionID
                           THEN [M(i - 1)[k] EXCEPT !.UsedBytes = @ + rows[i].Billed]
                           ELSE M(i - 1)[k]
        <3>1. PICK s \in SubQuota, a \in Nat, b \in Nat, c \in Nat :
                  s = subs[k] /\ a = more(i - 1, k) /\ b = rows[i].Billed /\ c = more(i, k)
            <4>1. i \in DOMAIN rows
                OBVIOUS
            <4>2. rows[i].Billed \in Nat
                BY <4>1, BilledAmongIs
            <4>3. subs[k] \in SubQuota /\ more(i - 1, k) \in Nat /\ more(i, k) \in Nat
                BY <1>1, <1>2, <2>1
            <4>4. QED
                BY <4>2, <4>3
        <3>2. M(i)[k] = [s EXCEPT !.UsedBytes = @ + c] /\ M(i - 1)[k] = [s EXCEPT !.UsedBytes = @ + a]
            BY <1>6, <2>1, <3>1
        <3>3. c = a + IF moves[k] /\ subs[k].ID = rows[i].SubscriptionID THEN b ELSE 0
            BY <1>5, <3>1
        <3>4. s.UsedBytes \in Nat
            BY DEF SubQuota
        <3>5. CASE moves[k] /\ subs[k].ID = rows[i].SubscriptionID
            <4>1. s.UsedBytes + c = (s.UsedBytes + a) + b
                BY <3>3, <3>4, <3>5
            <4>2. [M(i - 1)[k] EXCEPT !.UsedBytes = @ + b] = [s EXCEPT !.UsedBytes = (@ + a) + b]
                BY <3>2 DEF SubQuota
            <4>3. QED
                BY <3>1, <3>2, <3>5, <4>1, <4>2
        <3>6. CASE ~(moves[k] /\ subs[k].ID = rows[i].SubscriptionID)
            BY <3>2, <3>3, <3>6
        <3>7. QED
            BY <3>5, <3>6
    <2>3. M(i) = [k \in DOMAIN subs |-> M(i)[k]]
        BY <1>3
    <2>4. QED
        BY <2>2, <2>3
<1>11. QED
    BY <1>6, <1>7, <1>8, <1>9, <1>10 DEF M

\* next is list after row has moved the counter of its own subscription.
ChargesOne(next, list, row, at) ==
    next = [k \in DOMAIN list |->
               IF /\ CountsTowardCurrentPeriod(at, list[k].LastResetAt)
                  /\ list[k].ID = row.SubscriptionID
               THEN [list[k] EXCEPT !.UsedBytes = @ + row.Billed] ELSE list[k]]

\* With one entry per ID, a row moves the counter of its own subscription.
LEMMA OneEntryCharged ==
    ASSUME NEW list \in Seq(SubQuota), DistinctIDs(list), NEW row \in LedgerRow, NEW at
    PROVE  /\ ApplyRow(list, row) =
                 [k \in DOMAIN list |->
                     IF list[k].ID = row.SubscriptionID
                     THEN [list[k] EXCEPT !.UsedBytes = @ + row.Billed] ELSE list[k]]
           /\ ChargesOne(Charge(list, row, at), list, row, at)
<1>1. ASSUME NEW k \in DOMAIN list
      PROVE  IsFirst(list, row.SubscriptionID, k) <=> list[k].ID = row.SubscriptionID
    <2>1. \A j \in 1 .. k - 1 : j \in DOMAIN list /\ j # k
        OBVIOUS
    <2>2. \A j \in 1 .. k - 1 : list[j].ID # list[k].ID
        BY <2>1 DEF DistinctIDs
    <2>3. QED
        BY <2>2 DEF IsFirst
<1>2. \A k \in DOMAIN list : list[k].ID # OverflowSubscriptionID
    <2>1. \A k \in DOMAIN list : list[k] \in SubQuota
        OBVIOUS
    <2>2. QED
        BY <2>1 DEF SubQuota
<1>3. CASE row.SubscriptionID = OverflowSubscriptionID
    <2>1. ApplyRow(list, row) = list /\ Charge(list, row, at) = list
        BY <1>3 DEF ApplyRow, Charge
    <2>2. list = [k \in DOMAIN list |-> list[k]]
        OBVIOUS
    <2>3. QED
        BY <1>2, <1>3, <2>1, <2>2 DEF ChargesOne
<1>4. CASE row.SubscriptionID # OverflowSubscriptionID
    BY <1>1, <1>4 DEF ApplyRow, Charge, ChargesOne
<1>5. QED
    BY <1>3, <1>4

\* The two writes keep a list a list.
LEMMA WritesKeepLists ==
    ASSUME NEW list \in Seq(SubQuota), NEW row \in LedgerRow, NEW at \in Times
    PROVE  ApplyRow(list, row) \in Seq(SubQuota) /\ Charge(list, row, at) \in Seq(SubQuota)
<1>1. Charge(list, row, at) \in Seq(SubQuota)
    BY ChargeResult DEF SameEntries
<1>2. CASE row.SubscriptionID = OverflowSubscriptionID
    BY <1>1, <1>2 DEF ApplyRow
<1>3. CASE row.SubscriptionID # OverflowSubscriptionID
    <2> DEFINE new == ApplyRow(list, row)
    <2>1. new = [k \in DOMAIN list |->
                    IF IsFirst(list, row.SubscriptionID, k)
                    THEN [list[k] EXCEPT !.UsedBytes = @ + row.Billed] ELSE list[k]]
        BY <1>3 DEF ApplyRow
    <2>2. new = [k \in DOMAIN list |-> new[k]]
        BY <2>1
    <2>3. ASSUME NEW k \in DOMAIN list PROVE new[k] \in SubQuota
        <3>1. list[k] \in SubQuota /\ row.Billed \in Nat
            BY DEF LedgerRow
        <3>2. list[k].UsedBytes + row.Billed \in Nat
            BY <3>1 DEF SubQuota
        <3>3. [list[k] EXCEPT !.UsedBytes = list[k].UsedBytes + row.Billed] \in SubQuota
            BY <3>1, <3>2, CounterWritten
        <3>4. QED
            BY <2>1, <3>1, <3>3
    <2> HIDE DEF new
    <2>4. new \in Seq(SubQuota)
        BY <2>2, <2>3, RewrittenList
    <2>5. QED
        BY <1>1, <2>4 DEF new
<1>4. QED
    BY <1>2, <1>3

ApplyFolds(g, subs, rows) ==
    g = [U \in SUBSET (DOMAIN rows) |->
            IF U = {} THEN subs ELSE ApplyRow(g[U \ {Max(U)}], rows[Max(U)])]

ChargeFolds(g, subs, rows, at) ==
    g = [U \in SUBSET (DOMAIN rows) |->
            IF U = {} THEN subs ELSE Charge(g[U \ {Max(U)}], rows[Max(U)], at)]

\* ApplyAttribution and Charged are left folds over the rows.
LEMMA WritesAreFolds ==
    ASSUME NEW subs, NEW rows, NEW at
    PROVE  /\ ApplyAttribution(subs, rows) = (CHOOSE g : ApplyFolds(g, subs, rows))[DOMAIN rows]
           /\ Charged(subs, rows, at) = (CHOOSE g : ChargeFolds(g, subs, rows, at))[DOMAIN rows]
BY DEF ApplyAttribution, Charged, FoldLeft, MapThenFoldSet, ApplyFolds, ChargeFolds

\* Both folds have a trace, every step of which is one row written.
LEMMA WriteFoldsExist ==
    ASSUME NEW subs \in Seq(SubQuota), NEW rows \in Seq(LedgerRow), NEW at \in Times
    PROVE  /\ \E g : ApplyFolds(g, subs, rows)
           /\ \E g : ChargeFolds(g, subs, rows, at)
<1> DEFINE V == Seq(SubQuota)
           n == Len(rows)
           h1 == [w \in V \X (1 .. n) |-> ApplyRow(w[1], rows[w[2]])]
           h2 == [w \in V \X (1 .. n) |-> Charge(w[1], rows[w[2]], at)]
<1>1. n \in Nat /\ DOMAIN rows = 1 .. n /\ \A i \in 1 .. n : rows[i] \in LedgerRow
    OBVIOUS
<1>2. h1 \in [V \X (1 .. n) -> V] /\ h2 \in [V \X (1 .. n) -> V]
    BY <1>1, WritesKeepLists
<1>3. \A x \in V, i \in 1 .. n : /\ h1[<<x, i>>] = ApplyRow(x, rows[i])
                                 /\ h2[<<x, i>>] = Charge(x, rows[i], at)
    OBVIOUS
<1>4. subs \in V
    OBVIOUS
<1>5. \A U \in SUBSET (1 .. n) : U # {} => Max(U) \in 1 .. n /\ U \ {Max(U)} \in SUBSET (1 .. n)
    BY <1>1, MaxIs
<1> HIDE DEF V, n, h1, h2
<1>6. PICK g : LeftFolding(g, n, V, subs, h1)
    BY <1>1, <1>2, <1>4, LeftFoldExists
<1>7. ApplyFolds(g, subs, rows)
    <2>1. g = [U \in SUBSET (1 .. n) |-> g[U]]
        BY <1>6 DEF LeftFolding
    <2>2. \A U \in SUBSET (1 .. n) : U # {} => g[U \ {Max(U)}] \in V
        BY <1>5, <1>6 DEF LeftFolding
    <2>3. \A U \in SUBSET (1 .. n) :
              g[U] = IF U = {} THEN subs ELSE ApplyRow(g[U \ {Max(U)}], rows[Max(U)])
        BY <1>3, <1>5, <1>6, <2>2 DEF LeftFolding
    <2>4. QED
        BY <1>1, <2>1, <2>3 DEF ApplyFolds
<1>8. PICK k : LeftFolding(k, n, V, subs, h2)
    BY <1>1, <1>2, <1>4, LeftFoldExists
<1>9. ChargeFolds(k, subs, rows, at)
    <2>1. k = [U \in SUBSET (1 .. n) |-> k[U]]
        BY <1>8 DEF LeftFolding
    <2>2. \A U \in SUBSET (1 .. n) : U # {} => k[U \ {Max(U)}] \in V
        BY <1>5, <1>8 DEF LeftFolding
    <2>3. \A U \in SUBSET (1 .. n) :
              k[U] = IF U = {} THEN subs ELSE Charge(k[U \ {Max(U)}], rows[Max(U)], at)
        BY <1>3, <1>5, <1>8, <2>2 DEF LeftFolding
    <2>4. QED
        BY <1>1, <2>1, <2>3 DEF ChargeFolds
<1>10. QED
    BY <1>7, <1>9

\* next is list after row has moved the counters that move.
RowMoves(next, list, subs, moves, row) ==
    next = [k \in DOMAIN subs |->
               IF moves[k] /\ subs[k].ID = row.SubscriptionID
               THEN [list[k] EXCEPT !.UsedBytes = @ + row.Billed]
               ELSE list[k]]

\* A sequence of lists, each made by the row of its turn, ends in every counter
\* moved by what the rows bill to its subscription.
LEMMA RowsAddUp ==
    ASSUME NEW subs \in Seq(SubQuota), DistinctIDs(subs),
           NEW rows \in Seq(LedgerRow), NEW moves \in [DOMAIN subs -> BOOLEAN], NEW g,
           g[{}] = subs,
           \A i \in 1 .. Len(rows), list \in Seq(SubQuota) :
              g[1 .. i - 1] = list /\ list = Moved(subs, rows, moves, i - 1) =>
                 RowMoves(g[1 .. i], list, subs, moves, rows[i])
    PROVE  g[DOMAIN rows] = Moved(subs, rows, moves, Len(rows))
<1> DEFINE n == Len(rows)
           M(i) == Moved(subs, rows, moves, i)
           Bad == {i \in 0 .. n : g[1 .. i] # M(i)}
<1>1. n \in Nat /\ DOMAIN rows = 1 .. n
    OBVIOUS
<1>2. SUFFICES ASSUME Bad # {} PROVE FALSE
    BY <1>1
<1> HIDE DEF n, M
<1>3. PICK i \in 0 .. n : i \in Bad /\ \A j \in 0 .. i - 1 : j \notin Bad
    BY <1>1, <1>2, LeastNumber
<1>4. CASE i = 0
    <2>1. M(0) = subs
        BY MovedIs DEF M
    <2>2. 1 .. 0 = {}
        OBVIOUS
    <2>3. QED
        BY <1>3, <1>4, <2>1, <2>2
<1>5. CASE i # 0
    <2>1. i \in 1 .. n /\ i - 1 \in 0 .. n /\ i - 1 \in 0 .. i - 1
        BY <1>1, <1>5
    <2>2. g[1 .. i - 1] = M(i - 1)
        BY <1>3, <2>1
    <2>3. M(i - 1) \in Seq(SubQuota)
        BY <2>1, MovedIs DEF M, n
    <2>4. RowMoves(g[1 .. i], M(i - 1), subs, moves, rows[i])
        BY <2>1, <2>2, <2>3 DEF M, n
    <2>5. RowMoves(M(i), M(i - 1), subs, moves, rows[i])
        BY <2>1, MovedIs DEF M, n, RowMoves
    <2>6. QED
        BY <1>3, <2>4, <2>5 DEF RowMoves
<1>6. QED
    BY <1>4, <1>5

\* ApplyAttribution and the ladder's charges, for lists and rows of any length:
\* each counter moves by the sum of the rows of its own subscription, and in
\* the ladder only if the bucket belongs to its current period (quota.go:207-219,
\* ladder.go:158-180).
THEOREM CountersFollowRows ==
    ASSUME NEW subs \in Seq(SubQuota), DistinctIDs(subs),
           NEW rows \in Seq(LedgerRow), NEW at \in Times
    PROVE  /\ ApplyAttribution(subs, rows) =
                 [k \in DOMAIN subs |->
                     [subs[k] EXCEPT !.UsedBytes = @ + BilledTo(rows, subs[k].ID)]]
           /\ Charged(subs, rows, at) =
                 [k \in DOMAIN subs |->
                     [subs[k] EXCEPT !.UsedBytes =
                         @ + IF CountsTowardCurrentPeriod(at, subs[k].LastResetAt)
                             THEN BilledTo(rows, subs[k].ID) ELSE 0]]
<1>1. ASSUME NEW i \in 1 .. Len(rows)
      PROVE  /\ 1 .. i \in SUBSET (DOMAIN rows) /\ 1 .. i # {}
             /\ Max(1 .. i) = i /\ (1 .. i) \ {i} = 1 .. i - 1
    BY MaxOfInterval
<1>2. PICK all \in [DOMAIN subs -> BOOLEAN] : \A k \in DOMAIN subs : all[k] = TRUE
    <2>1. [k \in DOMAIN subs |-> TRUE] \in [DOMAIN subs -> BOOLEAN]
        OBVIOUS
    <2>2. QED
        BY <2>1
<1>3. PICK current \in [DOMAIN subs -> BOOLEAN] :
          \A k \in DOMAIN subs : current[k] = CountsTowardCurrentPeriod(at, subs[k].LastResetAt)
    <2> DEFINE f == [k \in DOMAIN subs |-> CountsTowardCurrentPeriod(at, subs[k].LastResetAt)]
    <2>1. f \in [DOMAIN subs -> BOOLEAN]
        BY DEF CountsTowardCurrentPeriod
    <2>2. \A k \in DOMAIN subs : f[k] = CountsTowardCurrentPeriod(at, subs[k].LastResetAt)
        OBVIOUS
    <2> HIDE DEF f
    <2>3. QED
        BY <2>1, <2>2
<1>4. PICK g : ApplyFolds(g, subs, rows) /\ ApplyAttribution(subs, rows) = g[DOMAIN rows]
    BY WritesAreFolds, WriteFoldsExist
<1>5. PICK h : ChargeFolds(h, subs, rows, at) /\ Charged(subs, rows, at) = h[DOMAIN rows]
    BY WritesAreFolds, WriteFoldsExist
<1>6. g[DOMAIN rows] = Moved(subs, rows, all, Len(rows))
    <2>1. g[{}] = subs
        BY <1>4 DEF ApplyFolds
    <2>2. ASSUME NEW i \in 1 .. Len(rows), NEW list \in Seq(SubQuota),
                 g[1 .. i - 1] = list, list = Moved(subs, rows, all, i - 1)
          PROVE  RowMoves(g[1 .. i], list, subs, all, rows[i])
        <3>1. PICK U, W : /\ U \in SUBSET (DOMAIN rows) /\ U # {} /\ U = 1 .. i
                          /\ Max(U) = i /\ U \ {i} = W /\ W = 1 .. i - 1
            BY <1>1
        <3>2. g[U] = ApplyRow(g[U \ {Max(U)}], rows[Max(U)])
            BY <1>4, <3>1 DEF ApplyFolds
        <3>3. g[1 .. i] = ApplyRow(list, rows[i])
            BY <2>2, <3>1, <3>2
        <3>4. i - 1 \in 0 .. Len(rows) /\ rows[i] \in LedgerRow
            OBVIOUS
        <3>5. /\ DOMAIN list = DOMAIN subs /\ DistinctIDs(list)
              /\ \A k \in DOMAIN subs : list[k].ID = subs[k].ID
            BY <2>2, <3>4, MovedIs
        <3>6. ApplyRow(list, rows[i]) =
                 [k \in DOMAIN list |->
                     IF list[k].ID = rows[i].SubscriptionID
                     THEN [list[k] EXCEPT !.UsedBytes = @ + rows[i].Billed] ELSE list[k]]
            BY <3>4, <3>5, OneEntryCharged
        <3>7. QED
            BY <1>2, <1>3, <3>3, <3>5, <3>6 DEF RowMoves
    <2>3. QED
        BY <2>1, <2>2, RowsAddUp
<1>7. h[DOMAIN rows] = Moved(subs, rows, current, Len(rows))
    <2>1. h[{}] = subs
        BY <1>5 DEF ChargeFolds
    <2>2. ASSUME NEW i \in 1 .. Len(rows), NEW list \in Seq(SubQuota),
                 h[1 .. i - 1] = list, list = Moved(subs, rows, current, i - 1)
          PROVE  RowMoves(h[1 .. i], list, subs, current, rows[i])
        <3>1. PICK U, W : /\ U \in SUBSET (DOMAIN rows) /\ U # {} /\ U = 1 .. i
                          /\ Max(U) = i /\ U \ {i} = W /\ W = 1 .. i - 1
            BY <1>1
        <3>2. h[U] = Charge(h[U \ {Max(U)}], rows[Max(U)], at)
            BY <1>5, <3>1 DEF ChargeFolds
        <3>3. h[1 .. i] = Charge(list, rows[i], at)
            BY <2>2, <3>1, <3>2
        <3>4. i - 1 \in 0 .. Len(rows) /\ rows[i] \in LedgerRow
            OBVIOUS
        <3>5. /\ DOMAIN list = DOMAIN subs /\ DistinctIDs(list)
              /\ \A k \in DOMAIN subs : /\ list[k].ID = subs[k].ID
                                        /\ list[k].LastResetAt = subs[k].LastResetAt
            BY <2>2, <3>4, MovedIs
        <3>6. ChargesOne(Charge(list, rows[i], at), list, rows[i], at)
            BY <3>4, <3>5, OneEntryCharged
        <3>7. QED
            BY <1>3, <3>3, <3>5, <3>6 DEF RowMoves, ChargesOne
    <2>3. QED
        BY <2>1, <2>2, RowsAddUp
<1>8. \A id : BilledUpTo(rows, id, Len(rows)) = BilledTo(rows, id)
    BY BilledUpToIs
<1>9. Moved(subs, rows, all, Len(rows)) =
          [k \in DOMAIN subs |-> [subs[k] EXCEPT !.UsedBytes = @ + BilledTo(rows, subs[k].ID)]]
    BY <1>2, <1>8 DEF Moved
<1>10. Moved(subs, rows, current, Len(rows)) =
          [k \in DOMAIN subs |->
              [subs[k] EXCEPT !.UsedBytes =
                  @ + IF CountsTowardCurrentPeriod(at, subs[k].LastResetAt)
                      THEN BilledTo(rows, subs[k].ID) ELSE 0]]
    BY <1>3, <1>8 DEF Moved
<1>11. QED
    BY <1>4, <1>5, <1>6, <1>7, <1>9, <1>10

\* The ladder after one batch has been split over it.
AfterBatch(list, billed, at) == ApplyAttribution(list, Attribute(billed, list, at))

\* What reaches an entry, up to its room.
LEMMA PouredIs ==
    ASSUME NEW list \in Seq(SubQuota), NEW billed \in Int, NEW at, NEW k \in DOMAIN list
    PROVE  \E t \in Nat, r \in Nat, p \in Nat :
              /\ t = TakenBefore(list, at, k) /\ r = Room(list[k], at)
              /\ p = Poured(billed, list, at, k)
              /\ p = IF billed <= t THEN 0 ELSE IF r < billed - t THEN r ELSE billed - t
<1>1. k \in 1 .. Len(list) /\ k \in 1 .. Len(list) + 1
    OBVIOUS
<1>2. PICK t \in Nat, r \in Nat : t = TakenBefore(list, at, k) /\ r = Room(list[k], at)
    BY <1>1, TakenBeforeIs
<1>3. Poured(billed, list, at, k) = IF billed <= t THEN 0
                                    ELSE IF r < billed - t THEN r ELSE billed - t
    BY <1>2 DEF Poured, Lesser
<1>4. Poured(billed, list, at, k) \in Nat
    BY <1>3
<1>5. QED
    BY <1>2, <1>3, <1>4

\* next is list with every counter moved by what the waterfall pours into it.
IsAfterBatch(next, list, billed, at) ==
    /\ next \in Seq(SubQuota) /\ DOMAIN next = DOMAIN list /\ Len(next) = Len(list)
    /\ DistinctIDs(next)
    /\ next = [k \in DOMAIN list |->
                  [list[k] EXCEPT !.UsedBytes = @ + Poured(billed, list, at, k)]]
    /\ \A k \in DOMAIN list :
          /\ next[k].ID = list[k].ID
          /\ Room(next[k], at) = Room(list[k], at) - Poured(billed, list, at, k)

\* The ladder after a batch is a ladder of the same subscriptions, with as much
\* less room as was poured in.
LEMMA AfterBatchIs ==
    ASSUME NEW list \in Seq(SubQuota), DistinctIDs(list), NEW billed \in Int, NEW at \in Times
    PROVE  IsAfterBatch(AfterBatch(list, billed, at), list, billed, at)
<1> DEFINE next == AfterBatch(list, billed, at)
<1>1. next = [k \in DOMAIN list |->
                 [list[k] EXCEPT !.UsedBytes = @ + Poured(billed, list, at, k)]]
    <2>1. PICK rows : rows = Attribute(billed, list, at)
        OBVIOUS
    <2>2. rows \in Seq(LedgerRow)
        BY <2>1, SplitConserves DEF IsSplitOf
    <2>3. \A k \in DOMAIN list : BilledTo(rows, list[k].ID) = Poured(billed, list, at, k)
        BY <2>1, LoopPours DEF IsWaterfallOf
    <2>4. next = [k \in DOMAIN list |->
                     [list[k] EXCEPT !.UsedBytes = @ + BilledTo(rows, list[k].ID)]]
        BY <2>1, <2>2, CountersFollowRows DEF AfterBatch
    <2>5. QED
        BY <2>3, <2>4
<1> HIDE DEF next
<1>2. ASSUME NEW k \in DOMAIN list
      PROVE  /\ next[k] \in SubQuota
             /\ next[k].ID = list[k].ID
             /\ Room(next[k], at) = Room(list[k], at) - Poured(billed, list, at, k)
    <2>1. PICK t \in Nat, r \in Nat, p \in Nat :
              /\ t = TakenBefore(list, at, k) /\ r = Room(list[k], at)
              /\ p = Poured(billed, list, at, k)
              /\ p = IF billed <= t THEN 0 ELSE IF r < billed - t THEN r ELSE billed - t
        BY PouredIs
    <2>2. PICK s \in SubQuota : \E n \in Nat : s = list[k] /\ n = s.UsedBytes + p
        <3>1. list[k] \in SubQuota
            OBVIOUS
        <3>2. list[k].UsedBytes + p \in Nat
            BY <3>1 DEF SubQuota
        <3>3. QED
            BY <3>1, <3>2
    <2>3. PICK n \in Nat : s = list[k] /\ n = s.UsedBytes + p
        BY <2>2
    <2> DEFINE u == [s EXCEPT !.UsedBytes = n]
    <2>4. /\ u \in SubQuota /\ u.ID = s.ID /\ u.ExpiredAt = s.ExpiredAt
          /\ u.UsedBytes = n /\ u.TransferBytes = s.TransferBytes
        BY CounterWritten
    <2>5. next[k] = u
        BY <1>1, <1>2, <2>1, <2>3
    <2> HIDE DEF u
    <2>6. s.UsedBytes \in Nat /\ s.TransferBytes \in Nat
        BY DEF SubQuota
    <2>7. Room(u, at) = Room(s, at) - p
        <3>1. ActiveAt(u, at) <=> ActiveAt(s, at)
            BY <2>4 DEF ActiveAt
        <3>2. r = Room(s, at) /\ p <= r
            BY <2>1, <2>3
        <3>3. CASE ~ActiveAt(s, at)
            BY <3>1, <3>2, <3>3 DEF Room
        <3>4. CASE ActiveAt(s, at)
            <4>1. Room(s, at) = Available(s) /\ Room(u, at) = Available(u)
                BY <3>1, <3>4 DEF Room
            <4>2. PICK a \in Nat, b \in Nat : a = s.UsedBytes /\ b = s.TransferBytes /\ n = a + p
                BY <2>3, <2>6
            <4>3. /\ Available(s) = IF a >= b THEN 0 ELSE b - a
                  /\ Available(u) = IF n >= b THEN 0 ELSE b - n
                BY <2>4, <4>2 DEF Available
            <4>4. QED
                BY <3>2, <4>1, <4>2, <4>3
        <3>5. QED
            BY <3>3, <3>4
    <2>8. QED
        BY <2>1, <2>4, <2>7, <2>5, <2>3
<1>3. next = [k \in DOMAIN list |-> next[k]]
    BY <1>1
<1>4. next \in Seq(SubQuota) /\ DOMAIN next = DOMAIN list
    BY <1>2, <1>3, RewrittenList
<1>5. Len(next) = Len(list)
    BY <1>4
<1>6. DistinctIDs(next)
    BY <1>2, <1>4 DEF DistinctIDs
<1>7. QED
    BY <1>1, <1>2, <1>4, <1>5, <1>6 DEF IsAfterBatch, next

\* What a batch leaves above an entry is what it has not filled of it.
LEMMA TakenAfterBatch ==
    ASSUME NEW list \in Seq(SubQuota), DistinctIDs(list), NEW billed \in Nat, NEW at \in Times
    PROVE  \A i \in 1 .. Len(list) + 1 :
              TakenBefore(AfterBatch(list, billed, at), at, i) =
                 IF TakenBefore(list, at, i) <= billed THEN 0
                 ELSE TakenBefore(list, at, i) - billed
<1>1. PICK next \in Seq(SubQuota) :
          next = AfterBatch(list, billed, at) /\ IsAfterBatch(next, list, billed, at)
    <2>1. billed \in Int
        OBVIOUS
    <2>2. QED
        BY <2>1, AfterBatchIs DEF IsAfterBatch
<1> DEFINE n == Len(list)
           Left(i) == IF TakenBefore(list, at, i) <= billed THEN 0
                      ELSE TakenBefore(list, at, i) - billed
           Bad == {i \in 0 .. n : TakenBefore(next, at, i + 1) # Left(i + 1)}
<1>2. n \in Nat
    OBVIOUS
<1>3. \A i \in 1 .. n + 1 : TakenBefore(list, at, i) \in Nat /\ TakenBefore(next, at, i) \in Nat
    BY <1>1, TakenBeforeIs DEF IsAfterBatch
<1>4. TakenBefore(list, at, 1) = 0 /\ TakenBefore(next, at, 1) = 0
    BY TakenBeforeIs
<1>5. ASSUME NEW i \in 1 .. n
      PROVE  /\ TakenBefore(list, at, i + 1) = TakenBefore(list, at, i) + Room(list[i], at)
             /\ TakenBefore(next, at, i + 1) = TakenBefore(next, at, i) + Room(next[i], at)
    BY <1>1, TakenBeforeIs DEF IsAfterBatch
<1>6. ASSUME Bad # {} PROVE FALSE
    <2>1. PICK i \in 0 .. n : i \in Bad /\ \A j \in 0 .. i - 1 : j \notin Bad
        <3> HIDE DEF n, Left
        <3> QED BY <1>2, <1>6, LeastNumber
    <2>2. CASE i = 0
        BY <1>4, <2>1, <2>2
    <2>3. CASE i # 0
        <3>1. i \in 1 .. n /\ i - 1 \in 0 .. n /\ i - 1 \in 0 .. i - 1 /\ (i - 1) + 1 = i
              /\ i \in 1 .. n + 1
            BY <1>2, <2>3
        <3>2. TakenBefore(next, at, i) = Left(i)
            BY <2>1, <3>1
        <3>3. PICK t \in Nat, r \in Nat, p \in Nat :
                  /\ t = TakenBefore(list, at, i) /\ r = Room(list[i], at)
                  /\ p = Poured(billed, list, at, i)
                  /\ p = IF billed <= t THEN 0 ELSE IF r < billed - t THEN r ELSE billed - t
            <4>1. i \in DOMAIN list
                BY <3>1
            <4>2. billed \in Int
                OBVIOUS
            <4>3. QED
                BY <4>1, <4>2, PouredIs
        <3>4. TakenBefore(list, at, i + 1) = t + r
            BY <1>5, <3>1, <3>3
        <3>5. TakenBefore(next, at, i + 1) = (IF t <= billed THEN 0 ELSE t - billed) + (r - p)
            <4>1. Room(next[i], at) = r - p
                <5>1. i \in DOMAIN list
                    BY <3>1
                <5>2. Room(next[i], at) = Room(list[i], at) - Poured(billed, list, at, i)
                    BY <1>1, <5>1 DEF IsAfterBatch
                <5>3. QED
                    BY <3>3, <5>2
            <4>2. QED
                BY <1>5, <3>1, <3>2, <3>3, <4>1
        <3>6. QED
            BY <2>1, <3>3, <3>4, <3>5
    <2>4. QED
        BY <2>2, <2>3
<1>7. ASSUME NEW i \in 1 .. n + 1
      PROVE  TakenBefore(next, at, i) = Left(i)
    <2>1. i - 1 \in 0 .. n /\ (i - 1) + 1 = i
        BY <1>2
    <2>2. QED
        BY <1>6, <2>1
<1>8. QED
    BY <1>1, <1>7

\* Two batches of one bucket are owed by the same subscriptions as one batch of
\* their sum, and leave the same counters: how a flush cuts the traffic does
\* not matter (quota.go:140-183, 207-219).
THEOREM BatchesAddUp ==
    ASSUME NEW list \in Seq(SubQuota), DistinctIDs(list), NEW at \in Times,
           NEW b1 \in Nat, NEW b2 \in Nat
    PROVE  /\ \A id \in {list[k].ID : k \in DOMAIN list} \cup {OverflowSubscriptionID} :
                 BilledTo(Attribute(b1 + b2, list, at), id) =
                    BilledTo(Attribute(b1, list, at), id)
                       + BilledTo(Attribute(b2, AfterBatch(list, b1, at), at), id)
           /\ AfterBatch(list, b1 + b2, at) = AfterBatch(AfterBatch(list, b1, at), b2, at)
<1>0. b1 \in Int /\ b2 \in Int /\ b1 + b2 \in Int
    OBVIOUS
<1>1. PICK next \in Seq(SubQuota) :
          next = AfterBatch(list, b1, at) /\ IsAfterBatch(next, list, b1, at)
    BY <1>0, AfterBatchIs DEF IsAfterBatch
<1>1a. /\ DOMAIN next = DOMAIN list /\ Len(next) = Len(list) /\ DistinctIDs(next)
       /\ \A k \in DOMAIN list :
             /\ next[k].ID = list[k].ID
             /\ Room(next[k], at) = Room(list[k], at) - Poured(b1, list, at, k)
    BY <1>1 DEF IsAfterBatch
<1>2. ASSUME NEW k \in DOMAIN list
      PROVE  /\ Poured(b1, list, at, k) \in Nat /\ Poured(b2, next, at, k) \in Nat
             /\ Poured(b1 + b2, list, at, k) = Poured(b1, list, at, k) + Poured(b2, next, at, k)
    <2>1. k \in 1 .. Len(list) + 1 /\ k \in DOMAIN next
        BY <1>1a
    <2>2. PICK t \in Nat, r \in Nat, p \in Nat :
              /\ t = TakenBefore(list, at, k) /\ r = Room(list[k], at)
              /\ p = Poured(b1, list, at, k)
              /\ p = IF b1 <= t THEN 0 ELSE IF r < b1 - t THEN r ELSE b1 - t
        BY <1>0, PouredIs
    <2>3. PICK t2 \in Nat, r2 \in Nat, p2 \in Nat :
              /\ t2 = TakenBefore(next, at, k) /\ r2 = Room(next[k], at)
              /\ p2 = Poured(b2, next, at, k)
              /\ p2 = IF b2 <= t2 THEN 0 ELSE IF r2 < b2 - t2 THEN r2 ELSE b2 - t2
        BY <1>0, <2>1, PouredIs
    <2>4. t2 = IF t <= b1 THEN 0 ELSE t - b1
        BY <1>1, <2>1, <2>2, <2>3, TakenAfterBatch
    <2>5. r2 = r - p
        BY <1>1a, <2>2, <2>3
    <2>6. PICK q \in Nat : /\ q = Poured(b1 + b2, list, at, k)
                           /\ q = IF b1 + b2 <= t THEN 0
                                  ELSE IF r < (b1 + b2) - t THEN r ELSE (b1 + b2) - t
        <3>1. PICK t1 \in Nat, r1 \in Nat, q \in Nat :
                  /\ t1 = TakenBefore(list, at, k) /\ r1 = Room(list[k], at)
                  /\ q = Poured(b1 + b2, list, at, k)
                  /\ q = IF b1 + b2 <= t1 THEN 0
                         ELSE IF r1 < (b1 + b2) - t1 THEN r1 ELSE (b1 + b2) - t1
            BY <1>0, PouredIs
        <3>2. QED
            BY <2>2, <3>1
    <2>7. q = p + p2
        <3>1. CASE t <= b1 /\ r < b1 - t
            <4>1. p = r /\ t2 = 0 /\ r2 = 0 /\ p2 = 0
                BY <2>2, <2>3, <2>4, <2>5, <3>1
            <4>2. q = r
                BY <2>6, <3>1
            <4>3. QED
                BY <4>1, <4>2
        <3>2. CASE t <= b1 /\ ~(r < b1 - t)
            <4>1. p = b1 - t /\ t2 = 0 /\ r2 = r - (b1 - t)
                BY <2>2, <2>4, <2>5, <3>2
            <4>2. p2 = IF r2 < b2 THEN r2 ELSE b2
                BY <2>3, <4>1
            <4>3. q = IF r < (b1 + b2) - t THEN r ELSE (b1 + b2) - t
                BY <2>6, <3>2
            <4>4. QED
                BY <4>1, <4>2, <4>3, <3>2
        <3>3. CASE ~(t <= b1)
            <4>1. p = 0 /\ t2 = t - b1 /\ r2 = r
                BY <2>2, <2>4, <2>5, <3>3
            <4>2. QED
                BY <2>3, <2>6, <3>3, <4>1
        <3>4. QED
            BY <3>1, <3>2, <3>3
    <2>8. QED
        BY <2>2, <2>3, <2>6, <2>7
<1>3. Overflowing(b1 + b2, list, at) = Overflowing(b1, list, at) + Overflowing(b2, next, at)
    <2>1. Len(list) + 1 \in 1 .. Len(list) + 1
        OBVIOUS
    <2>2. PICK t \in Nat, t2 \in Nat :
              /\ t = TakenBefore(list, at, Len(list) + 1)
              /\ t2 = TakenBefore(next, at, Len(next) + 1)
        BY <1>1a, <2>1, TakenBeforeIs
    <2>3. t2 = IF t <= b1 THEN 0 ELSE t - b1
        BY <1>1, <1>1a, <2>1, <2>2, TakenAfterBatch
    <2>4. /\ Overflowing(b1 + b2, list, at) = IF (b1 + b2) - t <= 0 THEN 0 ELSE (b1 + b2) - t
          /\ Overflowing(b1, list, at) = IF b1 - t <= 0 THEN 0 ELSE b1 - t
          /\ Overflowing(b2, next, at) = IF b2 - t2 <= 0 THEN 0 ELSE b2 - t2
        BY <2>2 DEF Overflowing
    <2>5. QED
        BY <2>3, <2>4
<1>4. /\ IsWaterfallOf(Attribute(b1 + b2, list, at), b1 + b2, list, at)
      /\ IsWaterfallOf(Attribute(b1, list, at), b1, list, at)
      /\ IsWaterfallOf(Attribute(b2, next, at), b2, next, at)
    BY <1>0, <1>1a, LoopPours
<1>5. ASSUME NEW id \in {list[k].ID : k \in DOMAIN list} \cup {OverflowSubscriptionID}
      PROVE  BilledTo(Attribute(b1 + b2, list, at), id) =
                BilledTo(Attribute(b1, list, at), id) + BilledTo(Attribute(b2, next, at), id)
    <2>1. CASE id = OverflowSubscriptionID
        BY <1>3, <1>4, <2>1 DEF IsWaterfallOf
    <2>2. CASE id # OverflowSubscriptionID
        <3>1. PICK k \in DOMAIN list : id = list[k].ID
            BY <2>2
        <3>2. id = next[k].ID /\ k \in DOMAIN next
            BY <1>1a, <3>1
        <3>3. /\ BilledTo(Attribute(b1 + b2, list, at), id) = Poured(b1 + b2, list, at, k)
              /\ BilledTo(Attribute(b1, list, at), id) = Poured(b1, list, at, k)
              /\ BilledTo(Attribute(b2, next, at), id) = Poured(b2, next, at, k)
            BY <1>4, <3>1, <3>2 DEF IsWaterfallOf
        <3>4. QED
            BY <1>2, <3>3
    <2>3. QED
        BY <2>1, <2>2
<1>6. AfterBatch(list, b1 + b2, at) = AfterBatch(next, b2, at)
    <2>1. AfterBatch(list, b1 + b2, at) =
              [k \in DOMAIN list |->
                  [list[k] EXCEPT !.UsedBytes = @ + Poured(b1 + b2, list, at, k)]]
        BY <1>0, AfterBatchIs DEF IsAfterBatch
    <2>2. AfterBatch(next, b2, at) =
              [k \in DOMAIN list |->
                  [next[k] EXCEPT !.UsedBytes = @ + Poured(b2, next, at, k)]]
        <3>1. IsAfterBatch(AfterBatch(next, b2, at), next, b2, at)
            BY <1>0, <1>1a, AfterBatchIs
        <3>2. QED
            BY <1>1a, <3>1 DEF IsAfterBatch
    <2>3. ASSUME NEW k \in DOMAIN list
          PROVE  [list[k] EXCEPT !.UsedBytes = @ + Poured(b1 + b2, list, at, k)]
                    = [next[k] EXCEPT !.UsedBytes = @ + Poured(b2, next, at, k)]
        <3>1. PICK s \in SubQuota, p \in Nat, p2 \in Nat :
                  s = list[k] /\ p = Poured(b1, list, at, k) /\ p2 = Poured(b2, next, at, k)
            BY <1>2
        <3>2. Poured(b1 + b2, list, at, k) = p + p2 /\ next[k] = [s EXCEPT !.UsedBytes = @ + p]
            BY <1>1, <1>2, <3>1 DEF IsAfterBatch
        <3>3. s.UsedBytes + (p + p2) = (s.UsedBytes + p) + p2
            BY DEF SubQuota
        <3>4. [[s EXCEPT !.UsedBytes = @ + p] EXCEPT !.UsedBytes = @ + p2]
                  = [s EXCEPT !.UsedBytes = (@ + p) + p2]
            BY DEF SubQuota
        <3>5. QED
            BY <3>1, <3>2, <3>3, <3>4
    <2>4. QED
        BY <2>1, <2>2, <2>3
<1>7. QED
    BY <1>1, <1>5, <1>6

\* Once a byte has overflowed, the authorisation check admits the user through
\* no subscription, now or after more traffic of that bucket
\* (reset.go:99-107 against quota.go:164-183).
THEOREM OverflowMeansNobody ==
    ASSUME NEW list \in Seq(SubQuota), DistinctIDs(list), NEW at \in Times,
           NEW billed \in Int, NEW next, next = AfterBatch(list, billed, at)
    PROVE  /\ BilledTo(Attribute(billed, list, at), OverflowSubscriptionID) > 0 =>
                 \A k \in DOMAIN next : ~Entitled(next[k], at)
           /\ (\A k \in DOMAIN list : ~Entitled(list[k], at)) =>
                 \A k \in DOMAIN next : ~Entitled(next[k], at)
<1>1. /\ next \in Seq(SubQuota) /\ DOMAIN next = DOMAIN list
      /\ \A k \in DOMAIN list :
            Room(next[k], at) = Room(list[k], at) - Poured(billed, list, at, k)
    <2>1. IsAfterBatch(next, list, billed, at)
        BY AfterBatchIs
    <2>2. QED
        BY <2>1 DEF IsAfterBatch
<1>2. ASSUME NEW s \in SubQuota PROVE Entitled(s, at) <=> Room(s, at) # 0
    BY DEF Entitled, Room, Available, SubQuota
<1>3. ASSUME NEW k \in DOMAIN list
      PROVE  Poured(billed, list, at, k) \in Nat /\ Room(next[k], at) \in Nat /\ Room(list[k], at) \in Nat
    <2>1. Poured(billed, list, at, k) \in Nat /\ Room(list[k], at) \in Nat
        BY PouredIs
    <2>2. next[k] \in SubQuota
        BY <1>1
    <2>3. QED
        BY <2>1, <2>2, AvailableBounds DEF Room
<1>4. ASSUME BilledTo(Attribute(billed, list, at), OverflowSubscriptionID) > 0,
             NEW k \in DOMAIN list
      PROVE  Room(next[k], at) = 0
    <2> DEFINE n == Len(list)
               T(i) == TakenBefore(list, at, i)
    <2>1. n \in Nat /\ k \in 1 .. n
        OBVIOUS
    <2>2. \A i \in 1 .. n + 1 : T(i) \in Nat
        BY TakenBeforeIs
    <2>3. \A i \in 1 .. n : Room(list[i], at) \in Nat /\ T(i + 1) = T(i) + Room(list[i], at)
        BY TakenBeforeIs
    <2>4. billed > T(n + 1)
        <3>1. Overflowing(billed, list, at) > 0
            BY <1>4, LoopPours DEF IsWaterfallOf
        <3>2. T(n + 1) \in Nat
            BY <2>1, <2>2
        <3>3. QED
            BY <3>1, <3>2 DEF Overflowing
    <2>5. \A i \in 1 .. n + 1 : T(i) <= T(n + 1)
        <3> DEFINE Bad == {d \in 0 .. n : T(n + 1 - d) > T(n + 1)}
        <3> HIDE DEF T
        <3>1. ASSUME Bad # {} PROVE FALSE
            <4>1. PICK d \in 0 .. n : d \in Bad /\ \A j \in 0 .. d - 1 : j \notin Bad
                <5> HIDE DEF n
                <5> QED BY <2>1, <3>1, LeastNumber
            <4>2. CASE d = 0
                <5>1. T(n + 1) \in Nat /\ n + 1 - 0 = n + 1
                    BY <2>1, <2>2
                <5>2. QED
                    BY <4>1, <4>2, <5>1
            <4>3. CASE d # 0
                <5>1. PICK i \in 1 .. n : i = n + 1 - d /\ i + 1 = n + 1 - (d - 1)
                    <6>1. n + 1 - d \in 1 .. n /\ (n + 1 - d) + 1 = n + 1 - (d - 1)
                        BY <2>1, <4>3
                    <6>2. QED
                        BY <6>1
                <5>2. d - 1 \in 0 .. n /\ d - 1 \in 0 .. d - 1
                    BY <2>1, <4>3
                <5>3. PICK a \in Nat, b \in Nat, c \in Nat :
                          a = T(i) /\ b = T(i + 1) /\ c = T(n + 1)
                    BY <2>1, <2>2
                <5>4. ~(b > c)
                    BY <4>1, <5>1, <5>2, <5>3
                <5>5. a > c
                    BY <4>1, <5>1, <5>3
                <5>6. a <= b
                    BY <2>3, <5>3
                <5>7. QED
                    BY <5>4, <5>5, <5>6
            <4>4. QED
                BY <4>2, <4>3
        <3>2. ASSUME NEW i \in 1 .. n + 1 PROVE T(i) <= T(n + 1)
            <4>1. n + 1 - i \in 0 .. n /\ n + 1 - (n + 1 - i) = i
                BY <2>1
            <4>2. ~(T(i) > T(n + 1))
                BY <3>1, <4>1
            <4>3. T(i) \in Nat /\ T(n + 1) \in Nat
                BY <2>1, <2>2
            <4>4. QED
                BY <4>2, <4>3
        <3>3. QED
            BY <3>2
    <2>6. PICK t \in Nat, r \in Nat, all \in Nat :
              /\ t = T(k) /\ r = Room(list[k], at) /\ all = T(n + 1)
              /\ t + r <= all
        <3>1. k \in 1 .. n + 1 /\ k + 1 \in 1 .. n + 1 /\ n + 1 \in 1 .. n + 1
            BY <2>1
        <3>2. T(k) \in Nat /\ T(n + 1) \in Nat /\ T(k + 1) <= T(n + 1)
            BY <2>2, <2>5, <3>1
        <3>3. QED
            BY <2>1, <2>3, <3>2
    <2>7. PICK p \in Nat : /\ p = Poured(billed, list, at, k)
                           /\ p = IF billed <= t THEN 0 ELSE IF r < billed - t THEN r ELSE billed - t
        <3>1. PICK t1 \in Nat, r1 \in Nat, p \in Nat :
                  /\ t1 = TakenBefore(list, at, k) /\ r1 = Room(list[k], at)
                  /\ p = Poured(billed, list, at, k)
                  /\ p = IF billed <= t1 THEN 0 ELSE IF r1 < billed - t1 THEN r1 ELSE billed - t1
            BY PouredIs
        <3>2. QED
            BY <2>6, <3>1
    <2>8. p = r
        BY <2>4, <2>6, <2>7
    <2>9. QED
        <3>1. Room(next[k], at) = r - p
            BY <1>1, <2>6, <2>7
        <3>2. QED
            BY <2>8, <3>1
<1>5. ASSUME NEW k \in DOMAIN list, Room(list[k], at) = 0 PROVE Room(next[k], at) = 0
    BY <1>1, <1>3, <1>5
<1>6. \A k \in DOMAIN list : list[k] \in SubQuota /\ next[k] \in SubQuota
    BY <1>1
<1>7. QED
    BY <1>1, <1>2, <1>4, <1>5, <1>6

\* upTo[i] has the rows of the first i entries.
PouringRows(upTo, billed, list, at) ==
    upTo = [i \in 0 .. Len(list) |->
               IF i = 0 THEN <<>>
               ELSE upTo[i - 1] \o RowOf(list[i].ID, Poured(billed, list, at, i))]

\* PouredRows takes the last value of a function that pours.
LEMMA PouredRowsIs ==
    ASSUME NEW billed, NEW list, NEW at
    PROVE  PouredRows(billed, list, at) =
              (CHOOSE upTo : PouringRows(upTo, billed, list, at))[Len(list)]
BY DEF PouredRows, PouringRows

\* There is only one such function.
LEMMA PouringIsUnique ==
    ASSUME NEW billed, NEW list \in Seq(SubQuota), NEW at, NEW f, NEW g,
           PouringRows(f, billed, list, at), PouringRows(g, billed, list, at)
    PROVE  f[Len(list)] = g[Len(list)]
<1> DEFINE Bad == {i \in 0 .. Len(list) : f[i] # g[i]}
<1>1. Len(list) \in Nat
    OBVIOUS
<1>2. SUFFICES ASSUME Bad # {} PROVE FALSE
    BY <1>1
<1>3. PICK i \in 0 .. Len(list) : i \in Bad /\ \A j \in 0 .. i - 1 : j \notin Bad
    BY <1>1, <1>2, LeastNumber
<1>4. /\ f[i] = IF i = 0 THEN <<>>
                ELSE f[i - 1] \o RowOf(list[i].ID, Poured(billed, list, at, i))
      /\ g[i] = IF i = 0 THEN <<>>
                ELSE g[i - 1] \o RowOf(list[i].ID, Poured(billed, list, at, i))
    BY <1>3 DEF PouringRows
<1>5. CASE i = 0
    BY <1>3, <1>4, <1>5
<1>6. CASE i # 0
    <2>1. i - 1 \in 0 .. i - 1 /\ i - 1 \in 0 .. Len(list)
        BY <1>1, <1>3, <1>6
    <2>2. f[i - 1] = g[i - 1]
        BY <1>3, <2>1
    <2>3. QED
        BY <1>3, <1>4, <1>6, <2>2
<1>7. QED
    BY <1>5, <1>6

\* A row more, at the end, where nothing was billed to its owner before.
LEMMA RowAppended ==
    ASSUME NEW rows \in Seq(LedgerRow), NEW id \in Nat, id \notin RowOwners(rows), NEW n \in Nat
    PROVE  (IF n = 0 THEN rows ELSE AddRow(rows, id, n)) = rows \o RowOf(id, n)
<1>1. CASE n = 0
    <2>1. RowOf(id, n) = <<>>
        BY <1>1 DEF RowOf
    <2>2. rows \o <<>> = rows
        BY ConcatEmptySeq
    <2>3. QED
        BY <1>1, <2>1, <2>2
<1>2. CASE n # 0
    <2>1. PICK row \in LedgerRow : row = [SubscriptionID |-> id, Billed |-> n]
        BY <1>2 DEF LedgerRow
    <2>2. RowOf(id, n) = <<row>>
        BY <1>2, <2>1 DEF RowOf
    <2>3. \A k \in DOMAIN rows : rows[k].SubscriptionID # id
        BY DEF RowOwners
    <2>4. n \in Nat \ {0}
        BY <1>2
    <2>5. AddRow(rows, id, n) = Append(rows, row)
        BY <2>1, <2>3, <2>4, AddRowResult
    <2>6. Append(rows, row) = rows \o <<row>>
        BY AppendIsConcat
    <2>7. QED
        BY <1>2, <2>2, <2>5, <2>6
<1>3. QED
    BY <1>1, <1>2

\* The rows the loop has written after each turn are poured rows.
LEMMA LoopPoursRows ==
    ASSUME NEW billed \in Nat \ {0}, NEW subs \in Seq(SubQuota), DistinctIDs(subs), NEW at,
           NEW st \in [0 .. Len(subs) -> SplitState],
           st[0] = Unsplit(billed),
           \A i \in 1 .. Len(subs) : st[i] = Turn(st[i - 1], subs[i], at)
    PROVE  PouringRows([i \in 0 .. Len(subs) |-> st[i].rows], billed, subs, at)
<1> DEFINE upTo == [i \in 0 .. Len(subs) |-> st[i].rows]
<1>1. Len(subs) \in Nat
    OBVIOUS
<1>2. \A i \in 0 .. Len(subs) : SplitPours(st, i, billed, subs, at)
    BY SplitKeepsPouring
<1>3. ASSUME NEW i \in 0 .. Len(subs)
      PROVE  upTo[i] = IF i = 0 THEN <<>>
                       ELSE upTo[i - 1] \o RowOf(subs[i].ID, Poured(billed, subs, at, i))
    <2>1. CASE i = 0
        BY <2>1 DEF Unsplit
    <2>2. CASE i # 0
        <3>1. i \in 1 .. Len(subs) /\ i - 1 \in 0 .. Len(subs) /\ i \in 1 .. Len(subs) + 1
            BY <1>1, <2>2
        <3>2. PICK split \in SplitState, next \in SplitState :
                  split = st[i - 1] /\ next = st[i] /\ next = Turn(split, subs[i], at)
            BY <3>1
        <3>3. PICK s \in SubQuota : s = subs[i]
            BY <3>1
        <3>4. /\ RowOwners(split.rows) \subseteq {subs[j].ID : j \in 1 .. i - 1}
              /\ split.remaining = IF billed > TakenBefore(subs, at, i)
                                   THEN billed - TakenBefore(subs, at, i) ELSE 0
            <4>1. SplitPours(st, i - 1, billed, subs, at) /\ (i - 1) + 1 = i
                BY <1>2, <3>1
            <4>2. QED
                BY <3>2, <4>1 DEF SplitPours
        <3>5. PICK take \in Nat :
                  /\ take = Lesser(Room(s, at), split.remaining)
                  /\ next.rows = IF take = 0 THEN split.rows ELSE AddRow(split.rows, s.ID, take)
            BY <3>2, <3>3, TurnResult
        <3>6. take = Poured(billed, subs, at, i)
            <4>1. PICK t \in Nat, r \in Nat : t = TakenBefore(subs, at, i) /\ r = Room(s, at)
                BY <3>1, <3>3, TakenBeforeIs
            <4>2. QED
                BY <3>3, <3>4, <3>5, <4>1 DEF Poured, Lesser
        <3>7. s.ID \notin RowOwners(split.rows)
            <4>1. ASSUME NEW j \in 1 .. i - 1 PROVE subs[j].ID # s.ID
                <5>1. j \in DOMAIN subs /\ i \in DOMAIN subs /\ j # i
                    BY <1>1, <3>1
                <5>2. QED
                    BY <3>3, <5>1 DEF DistinctIDs
            <4>2. QED
                BY <3>4, <4>1
        <3>8. split.rows \in Seq(LedgerRow) /\ s.ID \in Nat
            BY DEF SplitState, SubQuota
        <3>9. next.rows = split.rows \o RowOf(s.ID, take)
            BY <3>5, <3>7, <3>8, RowAppended
        <3>10. QED
            BY <2>2, <3>1, <3>2, <3>3, <3>6, <3>9
    <2>3. QED
        BY <2>1, <2>2
<1> HIDE DEF upTo
<1>4. upTo = [i \in 0 .. Len(subs) |-> upTo[i]]
    BY DEF upTo
<1>5. upTo = [i \in 0 .. Len(subs) |->
                 IF i = 0 THEN <<>>
                 ELSE upTo[i - 1] \o RowOf(subs[i].ID, Poured(billed, subs, at, i))]
    BY <1>3, <1>4
<1>6. QED
    BY <1>5 DEF PouringRows, upTo

\* The loop of Attribute computes the waterfall, row by row and in the order
\* of the list, the overflow last (quota.go:164-183).
THEOREM LoopWritesTheWaterfall ==
    ASSUME NEW billed \in Int, NEW subs \in Seq(SubQuota), DistinctIDs(subs), NEW at
    PROVE  Attribute(billed, subs, at) = WaterfallRows(billed, subs, at)
<1>1. CASE billed <= 0
    BY <1>1 DEF Attribute, WaterfallRows
<1>2. CASE billed > 0
    <2>1. billed \in Nat \ {0} /\ Len(subs) \in Nat
        BY <1>2
    <2>2. PICK st \in [0 .. Len(subs) -> SplitState] :
              /\ st[0] = Unsplit(billed)
              /\ \A i \in 1 .. Len(subs) : st[i] = Turn(st[i - 1], subs[i], at)
              /\ Attribute(billed, subs, at) = Spill(st[Len(subs)])
        BY <2>1, SplitTrace
    <2>3. PICK last \in SplitState : last = st[Len(subs)]
        BY <2>1
    <2>4. last.rows = PouredRows(billed, subs, at)
        <3>1. PICK upTo : upTo = [i \in 0 .. Len(subs) |-> st[i].rows]
            OBVIOUS
        <3>2. PouringRows(upTo, billed, subs, at)
            BY <2>1, <2>2, <3>1, LoopPoursRows
        <3>3. PICK f : /\ PouringRows(f, billed, subs, at)
                       /\ PouredRows(billed, subs, at) = f[Len(subs)]
            BY <3>2, PouredRowsIs
        <3>4. upTo[Len(subs)] = f[Len(subs)]
            BY <3>2, <3>3, PouringIsUnique
        <3>5. QED
            BY <2>1, <2>3, <3>1, <3>3, <3>4
    <2>5. /\ RowOwners(last.rows) \subseteq {subs[j].ID : j \in 1 .. Len(subs)}
          /\ last.remaining = Overflowing(billed, subs, at)
        <3>1. SplitPours(st, Len(subs), billed, subs, at)
            <4>1. \A i \in 0 .. Len(subs) : SplitPours(st, i, billed, subs, at)
                BY <2>1, <2>2, SplitKeepsPouring
            <4>2. QED
                BY <2>1, <4>1
        <3>2. TakenBefore(subs, at, Len(subs) + 1) \in Nat
            BY <2>1, TakenBeforeIs
        <3>3. QED
            BY <2>1, <2>3, <3>1, <3>2 DEF SplitPours, Overflowing
    <2>6. OverflowSubscriptionID \notin RowOwners(last.rows)
        <3>1. ASSUME NEW j \in 1 .. Len(subs) PROVE subs[j].ID # OverflowSubscriptionID
            <4>1. subs[j] \in SubQuota
                OBVIOUS
            <4>2. QED
                BY <4>1 DEF SubQuota
        <3>2. QED
            BY <2>5, <3>1
    <2>7. last.rows \in Seq(LedgerRow) /\ last.remaining \in Nat /\ OverflowSubscriptionID \in Nat
        BY DEF SplitState, OverflowSubscriptionID
    <2>8. Spill(last) = last.rows \o RowOf(OverflowSubscriptionID, last.remaining)
        <3>1. PICK rows \in Seq(LedgerRow), n \in Nat : rows = last.rows /\ n = last.remaining
            BY <2>7
        <3>2. (IF n = 0 THEN rows ELSE AddRow(rows, OverflowSubscriptionID, n))
                  = rows \o RowOf(OverflowSubscriptionID, n)
            BY <2>6, <2>7, <3>1, RowAppended
        <3>3. Spill(last) = IF n > 0 THEN AddRow(rows, OverflowSubscriptionID, n) ELSE rows
            BY <3>1 DEF Spill
        <3>4. n > 0 <=> n # 0
            OBVIOUS
        <3>5. QED
            BY <3>1, <3>2, <3>3, <3>4
    <2>9. QED
        BY <1>2, <2>2, <2>3, <2>4, <2>5, <2>8 DEF WaterfallRows
<1>3. QED
    BY <1>1, <1>2

-----------------------------------------------------------------------------
(* What prepare returns is determined by what it is given.                 *)

\* p lists the entries of list at the indices I, each sooner than the next.
Sorting(p, list, I) ==
    /\ p \in [1 .. Cardinality(I) -> I]
    /\ \A i, j \in 1 .. Cardinality(I) : i < j => Before(list[p[i]], list[p[j]])

\* Entries without a repeated ID have a sorting: one more is inserted in front
\* of the first entry it precedes.
LEMMA InsertOne ==
    ASSUME NEW list \in Seq(SubQuota), NEW T \in SUBSET (DOMAIN list),
           \A x, y \in T : list[x].ID = list[y].ID => x = y,
           NEW x \in T, NEW p, Sorting(p, list, T \ {x})
    PROVE  \E q : Sorting(q, list, T)
<1> DEFINE U == T \ {x}
           m == Cardinality(U)
<1>1. /\ IsFiniteSet(T) /\ IsFiniteSet(U) /\ m \in Nat
      /\ Cardinality(T) = m + 1
    <2>1. DOMAIN list = 1 .. Len(list) /\ Len(list) \in Nat
        OBVIOUS
    <2>2. IsFiniteSet(DOMAIN list)
        BY <2>1, FS_Interval
    <2>3. IsFiniteSet(T) /\ IsFiniteSet(U)
        BY <2>2, FS_Subset
    <2>4. Cardinality(T) \in Nat /\ m \in Nat /\ m = Cardinality(T) - 1
        BY <2>3, FS_CardinalityType, FS_RemoveElement
    <2>5. QED
        BY <2>3, <2>4
<1>2. /\ p \in [1 .. m -> U]
      /\ \A i, j \in 1 .. m : i < j => Before(list[p[i]], list[p[j]])
    BY DEF Sorting
<1> HIDE DEF m
<1>3. PICK k \in 1 .. m + 1 :
          /\ k = m + 1 \/ Before(list[x], list[p[k]])
          /\ \A i \in 1 .. k - 1 : ~Before(list[x], list[p[i]])
    <2> DEFINE After == {i \in 1 .. m + 1 : i = m + 1 \/ Before(list[x], list[p[i]])}
    <2>1. After # {} /\ After \in SUBSET (0 .. m + 1) /\ m + 1 \in Nat
        <3>1. m + 1 \in After
            BY <1>1
        <3>2. After \in SUBSET (0 .. m + 1)
            BY <1>1
        <3> HIDE DEF After
        <3>3. QED
            BY <1>1, <3>1, <3>2
    <2> HIDE DEF After
    <2>2. PICK k \in After : \A j \in 0 .. k - 1 : j \notin After
        BY <2>1, LeastNumber
    <2>3. k \in 1 .. m + 1 /\ (k = m + 1 \/ Before(list[x], list[p[k]]))
        BY DEF After
    <2>4. \A i \in 1 .. k - 1 : ~Before(list[x], list[p[i]])
        BY <1>1, <2>2, <2>3 DEF After
    <2>5. QED
        BY <2>3, <2>4
<1> DEFINE q == [i \in 1 .. m + 1 |-> IF i < k THEN p[i] ELSE IF i = k THEN x ELSE p[i - 1]]
<1>4. \A i \in 1 .. m : p[i] \in T /\ p[i] # x
    BY <1>2
<1>5. q \in [1 .. m + 1 -> T]
    BY <1>1, <1>4
<1>6. \A y \in T : list[y] \in SubQuota
    OBVIOUS
<1>7. ASSUME NEW i \in 1 .. m + 1, NEW j \in 1 .. m + 1, i < j
      PROVE  Before(list[q[i]], list[q[j]])
    <2>1. CASE j < k
        <3>1. q[i] = p[i] /\ q[j] = p[j] /\ i \in 1 .. m /\ j \in 1 .. m
            BY <1>1, <1>7, <2>1
        <3>2. QED
            BY <1>2, <1>7, <3>1
    <2>2. CASE j = k
        <3>1. q[i] = p[i] /\ q[j] = x /\ i \in 1 .. m /\ i \in 1 .. k - 1
            BY <1>1, <1>7, <2>2
        <3>2. PICK y \in T : y = p[i] /\ y # x /\ ~Before(list[x], list[y])
            BY <1>3, <1>4, <3>1
        <3>3. list[y].ID # list[x].ID
            BY <3>2
        <3>4. Before(list[y], list[x])
            BY <1>6, <3>2, <3>3, BeforeTotal
        <3>5. QED
            BY <3>1, <3>2, <3>4
    <2>3. CASE k < j /\ i < k
        <3>1. /\ q[i] = p[i] /\ q[j] = p[j - 1]
              /\ i \in 1 .. m /\ j - 1 \in 1 .. m /\ i < j - 1
            BY <1>1, <1>7, <2>3
        <3>2. QED
            BY <1>2, <3>1
    <2>4. CASE k < j /\ i = k
        <3>1. q[i] = x /\ q[j] = p[j - 1] /\ k \in 1 .. m /\ j - 1 \in 1 .. m /\ k <= j - 1
            BY <1>1, <1>7, <2>4
        <3>2. Before(list[x], list[p[k]])
            BY <1>1, <1>3, <3>1
        <3>3. CASE j - 1 = k
            BY <3>1, <3>2, <3>3
        <3>4. CASE k < j - 1
            <4>1. Before(list[p[k]], list[p[j - 1]])
                BY <1>2, <3>1, <3>4
            <4>2. PICK a \in SubQuota, b \in SubQuota, c \in SubQuota :
                      a = list[x] /\ b = list[p[k]] /\ c = list[p[j - 1]]
                BY <1>4, <1>6, <3>1
            <4>3. Before(a, c)
                BY <3>2, <4>1, <4>2, BeforeTransitive
            <4>4. QED
                BY <3>1, <4>2, <4>3
        <3>5. QED
            BY <3>1, <3>3, <3>4
    <2>5. CASE k < j /\ k < i
        <3>1. /\ q[i] = p[i - 1] /\ q[j] = p[j - 1]
              /\ i - 1 \in 1 .. m /\ j - 1 \in 1 .. m /\ i - 1 < j - 1
            BY <1>1, <1>7, <2>5
        <3>2. QED
            BY <1>2, <3>1
    <2>6. QED
        BY <2>1, <2>2, <2>3, <2>4, <2>5
<1> HIDE DEF q
<1>8. QED
    BY <1>1, <1>5, <1>7 DEF Sorting

\* Any entries without a repeated ID can be sorted.
LEMMA SortingExists ==
    ASSUME NEW list \in Seq(SubQuota), NEW I \in SUBSET (DOMAIN list),
           \A x, y \in I : list[x].ID = list[y].ID => x = y
    PROVE  \E p : Sorting(p, list, I)
<1> DEFINE Bad == {T \in SUBSET I : ~ \E p : Sorting(p, list, T)}
<1>1. SUFFICES ASSUME Bad # {} PROVE FALSE
    OBVIOUS
<1>2. IsFiniteSet(I)
    <2>1. DOMAIN list = 1 .. Len(list) /\ Len(list) \in Nat
        OBVIOUS
    <2>2. IsFiniteSet(DOMAIN list)
        BY <2>1, FS_Interval
    <2>3. QED
        BY <2>2, FS_Subset
<1>3. PICK T \in Bad : \A x \in T : T \ {x} \notin Bad
    BY <1>1, <1>2, SmallestSet
<1>4. T # {}
    <2>1. SUFFICES ASSUME T = {} PROVE \E p : Sorting(p, list, {})
        BY <1>3
    <2>2. Cardinality({}) = 0 /\ 1 .. 0 = {}
        BY FS_EmptySet
    <2>3. PICK p : p = [i \in {} |-> 0]
        OBVIOUS
    <2>4. p \in [1 .. Cardinality({}) -> {}]
        BY <2>2, <2>3
    <2>5. \A i, j \in 1 .. Cardinality({}) : i < j => Before(list[p[i]], list[p[j]])
        BY <2>2
    <2>6. Sorting(p, list, {})
        BY <2>4, <2>5 DEF Sorting
    <2>7. QED
        BY <2>6
<1>5. PICK x \in T : TRUE
    BY <1>4
<1>6. PICK p : Sorting(p, list, T \ {x})
    BY <1>3, <1>5
<1>7. T \in SUBSET (DOMAIN list) /\ \A y, z \in T : list[y].ID = list[z].ID => y = z
    BY <1>3
<1>8. \E q : Sorting(q, list, T)
    BY <1>5, <1>6, <1>7, InsertOne
<1>9. QED
    BY <1>3, <1>8

\* Two lists of the same entries, both in deduction order, are one list.
LEMMA OneOrder ==
    ASSUME NEW a \in Seq(SubQuota), NEW b \in Seq(SubQuota),
           InDeductionOrder(a), InDeductionOrder(b),
           \A i \in DOMAIN a : \E j \in DOMAIN b : b[j] = a[i],
           \A i \in DOMAIN b : \E j \in DOMAIN a : a[j] = b[i]
    PROVE  a = b
<1> DEFINE n == Len(a)
           m == Len(b)
           Bad == {i \in 0 .. n : i # 0 /\ (i > m \/ a[i] # b[i])}
<1>1. n \in Nat /\ m \in Nat /\ DOMAIN a = 1 .. n /\ DOMAIN b = 1 .. m
    OBVIOUS
<1> HIDE DEF n, m
<1>2. CASE Bad = {}
    <2> HIDE DEF Bad
    <2>1. ASSUME NEW i \in 1 .. n PROVE i <= m /\ a[i] = b[i]
        <3>1. i \notin Bad
            BY <1>2
        <3>2. i \in 0 .. n /\ i # 0
            BY <1>1
        <3>3. QED
            BY <1>1, <3>1, <3>2 DEF Bad
    <2>2. n <= m
        BY <1>1, <2>1
    <2>3. ASSUME n < m PROVE FALSE
        <3>1. n + 1 \in DOMAIN b
            BY <1>1, <2>3
        <3>2. PICK j \in DOMAIN a : a[j] = b[n + 1]
            BY <3>1
        <3>3. j \in DOMAIN b /\ j < n + 1 /\ b[j] = b[n + 1]
            BY <1>1, <2>1, <2>3, <3>2
        <3>4. QED
            BY <3>1, <3>3 DEF InDeductionOrder
    <2>4. n = m
        BY <1>1, <2>2, <2>3
    <2>5. QED
        BY <1>1, <2>1, <2>4
<1>3. CASE Bad # {}
    <2>1. PICK i \in 0 .. n : i \in Bad /\ \A j \in 0 .. i - 1 : j \notin Bad
        BY <1>1, <1>3, LeastNumber
    <2>2. i \in DOMAIN a /\ (i > m \/ a[i] # b[i])
        BY <1>1, <2>1
    <2>3. ASSUME NEW j \in 1 .. i - 1 PROVE j \in DOMAIN a /\ j \in DOMAIN b /\ a[j] = b[j]
        BY <1>1, <2>1
    <2> HIDE DEF Bad
    <2>4. PICK j \in DOMAIN b : b[j] = a[i]
        BY <2>2
    <2>5. j > i
        <3>1. ASSUME j < i PROVE FALSE
            <4>1. j \in 1 .. i - 1
                BY <1>1, <3>1
            <4>2. j \in DOMAIN a /\ a[j] = a[i]
                BY <2>3, <2>4, <4>1
            <4>3. QED
                BY <2>2, <3>1, <4>2 DEF InDeductionOrder
        <3>2. ASSUME j = i PROVE FALSE
            BY <1>1, <2>2, <2>4, <3>2
        <3>3. QED
            BY <1>1, <3>1, <3>2
    <2>6. i \in DOMAIN b /\ a[i] # b[i]
        BY <1>1, <2>2, <2>5
    <2>7. PICK k \in DOMAIN a : a[k] = b[i]
        BY <2>6
    <2>8. k > i
        <3>1. ASSUME k < i PROVE FALSE
            <4>1. k \in 1 .. i - 1
                BY <1>1, <3>1
            <4>2. k \in DOMAIN b /\ b[k] = b[i]
                BY <2>3, <2>7, <4>1
            <4>3. QED
                BY <2>6, <3>1, <4>2 DEF InDeductionOrder
        <3>2. k # i
            BY <2>6, <2>7
        <3>3. QED
            BY <1>1, <3>1, <3>2
    <2>9. Before(a[i], a[k]) /\ Before(b[i], b[j])
        BY <2>2, <2>5, <2>6, <2>8 DEF InDeductionOrder
    <2>10. PICK s \in SubQuota, t \in SubQuota : s = a[i] /\ t = b[i]
        BY <2>2, <2>6
    <2>11. Before(s, t) /\ Before(t, s)
        BY <2>4, <2>7, <2>9, <2>10
    <2>12. Before(s, s)
        BY <2>11, BeforeTransitive
    <2>13. QED
        BY <2>12, BeforeIrreflexive
<1>4. QED
    BY <1>2, <1>3

\* A sort that may only put an entry where it precedes the later ones uses
\* every index once.
LEMMA SortUsesAll ==
    ASSUME NEW list \in Seq(SubQuota), NEW I \in SUBSET (DOMAIN list),
           NEW p \in [1 .. Cardinality(I) -> I],
           \A i, j \in 1 .. Cardinality(I) : i < j => Precedes(list, p[i], p[j])
    PROVE  \A x \in I : \E i \in 1 .. Cardinality(I) : p[i] = x
<1> DEFINE N == 1 .. Cardinality(I)
<1>1. IsFiniteSet(I) /\ Cardinality(I) \in Nat
    <2>1. DOMAIN list = 1 .. Len(list) /\ Len(list) \in Nat
        OBVIOUS
    <2>2. IsFiniteSet(DOMAIN list)
        BY <2>1, FS_Interval
    <2>3. IsFiniteSet(I)
        BY <2>2, FS_Subset
    <2>4. QED
        BY <2>3, FS_CardinalityType
<1>2. Cardinality(N) = Cardinality(I)
    BY <1>1, FS_Interval
<1>3. ASSUME NEW i \in N, NEW j \in N, p[i] = p[j], i < j PROVE FALSE
    <2>1. PICK x \in I : x = p[i] /\ x = p[j]
        BY <1>3
    <2>2. x \in Nat /\ list[x] \in SubQuota
        BY <2>1
    <2>3. Precedes(list, x, x)
        BY <1>3, <2>1
    <2>4. QED
        BY <2>2, <2>3, BeforeIrreflexive DEF Precedes
<1>4. \A i, j \in N : p[i] = p[j] => i = j
    BY <1>1, <1>3
<1> HIDE DEF N
<1>5. p \in [N -> I]
    BY DEF N
<1>6. p \in Injection(N, I)
    BY <1>4, <1>5 DEF Injection, IsInjective
<1>7. p \in Surjection(N, I)
    BY <1>1, <1>2, <1>6, FS_Injection
<1>8. \A x \in I : \E i \in N : p[i] = x
    BY <1>7 DEF Surjection
<1>9. QED
    BY <1>8 DEF N

\* prepare returns a list, and no entry that is the first of its ID is lost.
LEMMA PreparedHasAll ==
    ASSUME NEW list \in Seq(SubQuota), NEW out \in Prepared(list)
    PROVE  \A x \in FirstOfID(list) : \E k \in DOMAIN out : out[k] = list[x]
<1> DEFINE I == FirstOfID(list)
<1>1. I \in SUBSET (DOMAIN list)
    BY DEF FirstOfID
<1>2. PICK p \in [1 .. Cardinality(I) -> I] :
          /\ \A i, j \in 1 .. Cardinality(I) : i < j => Precedes(list, p[i], p[j])
          /\ out = [k \in 1 .. Cardinality(I) |-> list[p[k]]]
    BY DEF Prepared, SortForDeduction
<1> HIDE DEF I
<1>3. \A x \in I : \E i \in 1 .. Cardinality(I) : p[i] = x
    BY <1>1, <1>2, SortUsesAll
<1>4. ASSUME NEW x \in I PROVE \E k \in DOMAIN out : out[k] = list[x]
    <2>1. PICK i \in 1 .. Cardinality(I) : p[i] = x
        BY <1>3
    <2>2. i \in DOMAIN out /\ out[i] = list[x]
        BY <1>2, <2>1
    <2>3. QED
        BY <2>2
<1>5. QED
    BY <1>4 DEF I

\* And they are all prepare returns.
LEMMA PreparedHasOnly ==
    ASSUME NEW list, NEW out \in Prepared(list)
    PROVE  \A k \in DOMAIN out : \E x \in FirstOfID(list) : out[k] = list[x]
BY DEF Prepared, SortForDeduction

\* prepare always succeeds and leaves nothing open: whatever the rows, and in
\* spite of the sort not being given a total order of them, there is one list
\* it can return (ladder.go:88-93, quota.go:57-79).
THEOREM PreparedIsDetermined ==
    ASSUME NEW list \in Seq(SubQuota)
    PROVE  \E out : Prepared(list) = {out}
<1> DEFINE I == FirstOfID(list)
<1>1. I \in SUBSET (DOMAIN list)
    BY DEF FirstOfID
<1>2. ASSUME NEW x \in I, NEW y \in I, list[x].ID = list[y].ID PROVE x = y
    <2>1. x \in 1 .. Len(list) /\ y \in 1 .. Len(list)
        BY <1>1
    <2>2. ~(x < y) /\ ~(y < x)
        BY <1>2, <2>1 DEF FirstOfID
    <2>3. QED
        BY <2>1, <2>2
<1> HIDE DEF I
<1>3. PICK p : Sorting(p, list, I)
    BY <1>1, <1>2, SortingExists
<1>4. \E out : out \in Prepared(list)
    <2>1. p \in [1 .. Cardinality(I) -> I]
        BY <1>3 DEF Sorting
    <2>2. \A i, j \in 1 .. Cardinality(I) : i < j => Precedes(list, p[i], p[j])
        BY <1>3 DEF Sorting, Precedes
    <2>3. [k \in 1 .. Cardinality(I) |-> list[p[k]]] \in SortForDeduction(list, I)
        BY <2>1, <2>2 DEF SortForDeduction
    <2>4. QED
        BY <2>3 DEF Prepared, I
<1>5. PICK out : out \in Prepared(list)
    BY <1>4
<1>6. ASSUME NEW other \in Prepared(list) PROVE other = out
    <2>1. /\ out \in Seq(SubQuota) /\ InDeductionOrder(out)
          /\ other \in Seq(SubQuota) /\ InDeductionOrder(other)
        BY <1>5, PreparedInOrder
    <2>2. ASSUME NEW a \in Prepared(list), NEW b \in Prepared(list), NEW i \in DOMAIN a
          PROVE  \E j \in DOMAIN b : b[j] = a[i]
        <3>1. PICK x \in FirstOfID(list) : a[i] = list[x]
            BY PreparedHasOnly
        <3>2. PICK j \in DOMAIN b : b[j] = list[x]
            BY PreparedHasAll
        <3>3. QED
            BY <3>1, <3>2
    <2>3. QED
        BY <1>5, <2>1, <2>2, OneOrder
<1>7. QED
    BY <1>5, <1>6

\* Nor does it matter in which order the rows come (ladder.go:88-93).
THEOREM ArrivalOrderDoesNotMatter ==
    ASSUME NEW a \in Seq(SubQuota), NEW b \in Seq(SubQuota), DistinctIDs(a), DistinctIDs(b),
           \A i \in DOMAIN a : \E j \in DOMAIN b : b[j] = a[i],
           \A i \in DOMAIN b : \E j \in DOMAIN a : a[j] = b[i],
           NEW out \in Prepared(a)
    PROVE  Prepared(b) = {out}
<1>1. FirstOfID(a) = DOMAIN a /\ FirstOfID(b) = DOMAIN b
    <2>1. ASSUME NEW c \in Seq(SubQuota), DistinctIDs(c), NEW i \in DOMAIN c, NEW j \in 1 .. i - 1
          PROVE  c[j].ID # c[i].ID
        <3>1. j \in DOMAIN c /\ j # i
            OBVIOUS
        <3>2. QED
            BY <2>1, <3>1 DEF DistinctIDs
    <2>2. QED
        BY <2>1 DEF FirstOfID
<1>2. PICK only : Prepared(b) = {only}
    BY PreparedIsDetermined
<1>3. only \in Prepared(b)
    BY <1>2
<1>4. /\ out \in Seq(SubQuota) /\ InDeductionOrder(out)
      /\ only \in Seq(SubQuota) /\ InDeductionOrder(only)
    BY <1>3, PreparedInOrder
<1>5. ASSUME NEW i \in DOMAIN out PROVE \E j \in DOMAIN only : only[j] = out[i]
    <2>1. PICK x \in DOMAIN a : out[i] = a[x]
        BY <1>1, PreparedHasOnly
    <2>2. PICK y \in DOMAIN b : b[y] = a[x]
        OBVIOUS
    <2>3. PICK j \in DOMAIN only : only[j] = b[y]
        BY <1>1, <1>3, PreparedHasAll
    <2>4. QED
        BY <2>1, <2>2, <2>3
<1>6. ASSUME NEW i \in DOMAIN only PROVE \E j \in DOMAIN out : out[j] = only[i]
    <2>1. PICK x \in DOMAIN b : only[i] = b[x]
        BY <1>1, <1>3, PreparedHasOnly
    <2>2. PICK y \in DOMAIN a : a[y] = b[x]
        OBVIOUS
    <2>3. PICK j \in DOMAIN out : out[j] = a[y]
        BY <1>1, PreparedHasAll
    <2>4. QED
        BY <2>1, <2>2, <2>3
<1>7. out = only
    BY <1>4, <1>5, <1>6, OneOrder
<1>8. QED
    BY <1>2, <1>7

\* The locals of Attribute, turn by turn: st[n] is what they are after n turns.
SplitRun(st, billed, list, at) ==
    /\ st \in [0 .. Len(list) -> SplitState]
    /\ st[0] = Unsplit(billed)
    /\ \A i \in 1 .. Len(list) : st[i] = Turn(st[i - 1], list[i], at)
    /\ \A n \in 0 .. Len(list) : SplitAfter(billed, list, at, n) = st[n]
    /\ Attribute(billed, list, at) = Spill(st[Len(list)])

SplitRunTo(after, billed, list, at, n) ==
    after = [i \in 0 .. n |->
                IF i = 0 THEN Unsplit(billed) ELSE Turn(after[i - 1], list[i], at)]

\* SplitAfter follows the loop (quota.go:164-181).
LEMMA SplitRunExists ==
    ASSUME NEW billed \in Nat \ {0}, NEW list \in Seq(SubQuota), NEW at
    PROVE  \E st : SplitRun(st, billed, list, at)
<1>1. PICK st \in [0 .. Len(list) -> SplitState] :
         /\ st[0] = Unsplit(billed)
         /\ \A i \in 1 .. Len(list) : st[i] = Turn(st[i - 1], list[i], at)
         /\ Attribute(billed, list, at) = Spill(st[Len(list)])
    BY SplitTrace
<1>2. ASSUME NEW n \in 0 .. Len(list)
      PROVE  SplitAfter(billed, list, at, n) = st[n]
    <2> DEFINE cut == [i \in 0 .. n |-> st[i]]
               after == CHOOSE f : SplitRunTo(f, billed, list, at, n)
               Bad == {i \in 0 .. n : after[i] # st[i]}
    <2>1. SplitAfter(billed, list, at, n) = after[n]
        BY DEF SplitAfter, SplitRunTo
    <2>2. SplitRunTo(cut, billed, list, at, n)
        <3>1. \A i \in 0 .. n : cut[i] = IF i = 0 THEN Unsplit(billed)
                                         ELSE Turn(cut[i - 1], list[i], at)
            <4>1. SUFFICES ASSUME NEW i \in 0 .. n, i # 0
                           PROVE  st[i] = Turn(cut[i - 1], list[i], at)
                BY <1>1
            <4>2. i - 1 \in 0 .. n /\ i \in 1 .. Len(list)
                OBVIOUS
            <4>3. QED
                BY <1>1, <4>2
        <3> HIDE DEF cut
        <3>2. cut = [i \in 0 .. n |-> cut[i]]
            BY DEF cut
        <3>3. QED
            BY <3>1, <3>2 DEF SplitRunTo
    <2>3. SplitRunTo(after, billed, list, at, n)
        BY <2>2
    <2> HIDE DEF after, cut
    <2>4. \A i \in 0 .. n : after[i] = IF i = 0 THEN Unsplit(billed)
                                       ELSE Turn(after[i - 1], list[i], at)
        BY <2>3 DEF SplitRunTo
    <2>5. Bad = {}
        <3>1. SUFFICES ASSUME Bad # {} PROVE FALSE
            OBVIOUS
        <3>2. PICK i \in Bad : \A j \in 0 .. i - 1 : j \notin Bad
            <4>1. Bad \in SUBSET (0 .. n) /\ n \in Nat
                OBVIOUS
            <4> HIDE DEF Bad
            <4>2. QED
                BY <3>1, <4>1, LeastNumber
        <3>3. i # 0
            BY <1>1, <2>4, <3>2
        <3>4. i \in 1 .. Len(list) /\ i - 1 \in 0 .. n /\ i - 1 \in 0 .. i - 1
            BY <3>2, <3>3
        <3>5. after[i - 1] = st[i - 1]
            BY <3>2, <3>4
        <3>6. QED
            BY <1>1, <2>4, <3>2, <3>3, <3>4, <3>5
    <2>6. QED
        BY <2>1, <2>5
<1>3. QED
    BY <1>1, <1>2 DEF SplitRun

\* One more turn.
LEMMA SplitAfterTurn ==
    ASSUME NEW billed \in Nat \ {0}, NEW list \in Seq(SubQuota), NEW at,
           NEW n \in Nat, n + 1 <= Len(list)
    PROVE  SplitAfter(billed, list, at, n + 1) = Turn(SplitAfter(billed, list, at, n), list[n + 1], at)
<1>1. PICK st : SplitRun(st, billed, list, at)
    BY SplitRunExists
<1>2. n \in 0 .. Len(list) /\ n + 1 \in 1 .. Len(list) /\ n + 1 \in 0 .. Len(list) /\ n + 1 - 1 = n
    OBVIOUS
<1>3. st[n + 1] = Turn(st[n], list[n + 1], at)
    BY <1>1, <1>2 DEF SplitRun
<1>4. QED
    BY <1>1, <1>2, <1>3 DEF SplitRun

\* Before the first turn.
LEMMA SplitAfterNone ==
    ASSUME NEW billed \in Nat \ {0}, NEW list \in Seq(SubQuota), NEW at
    PROVE  SplitAfter(billed, list, at, 0) = Unsplit(billed)
<1>1. PICK st : SplitRun(st, billed, list, at)
    BY SplitRunExists
<1>2. 0 \in 0 .. Len(list)
    OBVIOUS
<1>3. QED
    BY <1>1, <1>2 DEF SplitRun

\* When the loop ends, by its last turn or because nothing is left to place,
\* its locals are the whole split.
LEMMA SplitAfterEnough ==
    ASSUME NEW billed \in Nat \ {0}, NEW list \in Seq(SubQuota), NEW at,
           NEW n \in 0 .. Len(list),
           n = Len(list) \/ ~(SplitAfter(billed, list, at, n).remaining > 0)
    PROVE  Spill(SplitAfter(billed, list, at, n)) = Attribute(billed, list, at)
<1>1. PICK st : SplitRun(st, billed, list, at)
    BY SplitRunExists
<1>2. SplitAfter(billed, list, at, n) = st[n] /\ st[n] \in SplitState
    BY <1>1 DEF SplitRun
<1>3. CASE n = Len(list)
    BY <1>1, <1>2, <1>3 DEF SplitRun
<1>4. CASE n # Len(list)
    <2>1. st[n].remaining = 0
        BY <1>2, <1>4 DEF SplitState
    <2> DEFINE Bad == {i \in 0 .. Len(list) : i >= n /\ st[i] # st[n]}
    <2>2. Bad = {}
        <3>1. SUFFICES ASSUME Bad # {} PROVE FALSE
            OBVIOUS
        <3>2. PICK i \in Bad : \A j \in 0 .. i - 1 : j \notin Bad
            <4>1. Bad \in SUBSET (0 .. Len(list)) /\ Len(list) \in Nat
                OBVIOUS
            <4> HIDE DEF Bad
            <4>2. QED
                BY <3>1, <4>1, LeastNumber
        <3>3. i # n
            BY <3>2
        <3>4. i \in 1 .. Len(list) /\ i - 1 \in 0 .. Len(list) /\ i - 1 >= n /\ i - 1 \in 0 .. i - 1
            BY <3>2, <3>3
        <3>5. st[i - 1] = st[n]
            BY <3>2, <3>4
        <3>6. st[i] = Turn(st[i - 1], list[i], at)
            BY <1>1, <3>4 DEF SplitRun
        <3>7. QED
            BY <2>1, <3>2, <3>5, <3>6 DEF Turn
    <2>3. Len(list) \in 0 .. Len(list) /\ Len(list) >= n
        OBVIOUS
    <2>4. st[Len(list)] = st[n]
        BY <2>2, <2>3
    <2>5. QED
        BY <1>1, <1>2, <2>4 DEF SplitRun
<1>5. QED
    BY <1>3, <1>4
=============================================================================
