--------------------------- MODULE CatalogProofs ----------------------------
(***************************************************************************)
(* Theorems of Catalog, for any documents, tags, titles and pages: that    *)
(* nothing is hidden, misnamed, or missed by a walk, and that facets and   *)
(* downloads agree with the feeds.                                         *)
(***************************************************************************)
EXTENDS Catalog, FiniteSetTheorems, SequenceTheorems, WellFoundedInduction, TLAPS

-----------------------------------------------------------------------------
(* Natural numbers.                                                         *)

LEMMA Smallest ==
  ASSUME NEW S \in SUBSET Nat, S # {}
  PROVE  \E m \in S : \A x \in S : m <= x
  <1>1. PICK m \in S : \A x \in S : ~(<<x, m>> \in OpToRel(<, Nat))
    BY NatLessThanWellFounded, WFMin
  <1>2. \A x \in S : ~(x < m)
    BY <1>1 DEF OpToRel
  <1>3. QED
    BY <1>2

\* By the least cardinality of a set without a bound.
LEMMA FiniteIsBounded ==
  ASSUME NEW S \in SUBSET Nat, IsFiniteSet(S)
  PROVE  \E k \in Nat : \A x \in S : x < k
  <1> DEFINE Bounded(T) == \E k \in Nat : \A x \in T : x < k
             Sizes == {n \in Nat : \E T \in SUBSET Nat :
                          IsFiniteSet(T) /\ Cardinality(T) = n /\ ~Bounded(T)}
  <1>1. ASSUME Sizes # {} PROVE FALSE
    <2>1. PICK n \in Sizes : \A m \in Sizes : n <= m
      BY <1>1, Smallest
    <2>2. PICK T \in SUBSET Nat : IsFiniteSet(T) /\ Cardinality(T) = n /\ ~Bounded(T)
      OBVIOUS
    <2>3. T # {}
      BY <2>2
    <2>4. PICK x \in T : TRUE
      BY <2>3
    <2>5. IsFiniteSet(T \ {x}) /\ Cardinality(T \ {x}) = n - 1
      BY <2>2, <2>4, FS_RemoveElement
    <2>6. n - 1 \in Nat
      BY <2>5, FS_CardinalityType
    <2>7. n - 1 \notin Sizes
      BY <2>1, <2>6
    <2>8. Bounded(T \ {x})
      BY <2>5, <2>6, <2>7
    <2>9. PICK k \in Nat : \A y \in T \ {x} : y < k
      BY <2>8
    <2>10. Bounded(T)
      <3>1. x \in Nat /\ k + x + 1 \in Nat /\ \A y \in T : y < k + x + 1
        BY <2>9
      <3>2. QED
        BY <3>1
    <2>11. QED
      BY <2>2, <2>10
  <1>2. Cardinality(S) \in Nat
    BY FS_CardinalityType
  <1>3. QED
    BY <1>1, <1>2

LEMMA MaxIs ==
  ASSUME NEW S \in SUBSET Nat, NEW d \in S, \A e \in S : e <= d
  PROVE  Max(S) = d
  <1>1. \A x \in S : (\A y \in S : x >= y) => x = d
    <2> SUFFICES ASSUME NEW x \in S, \A y \in S : x >= y PROVE x = d
      OBVIOUS
    <2>1. x \in Nat /\ d \in Nat /\ x >= d /\ x <= d
      OBVIOUS
    <2>2. QED
      BY <2>1
  <1>2. \A y \in S : d >= y
    OBVIOUS
  <1>3. QED
    BY <1>1, <1>2 DEF Max

LEMMA MaxOfFinite ==
  ASSUME NEW S \in SUBSET Nat, IsFiniteSet(S), S # {}
  PROVE  Max(S) \in S /\ \A e \in S : e <= Max(S)
  <1> DEFINE above == {k \in Nat : \A e \in S : e <= k}
  <1>1. PICK k \in Nat : \A e \in S : e < k
    BY FiniteIsBounded
  <1>2. k \in above
    BY <1>1
  <1>3. PICK m \in above : \A j \in above : m <= j
    BY <1>2, Smallest
  <1>4. m \in S
    <2> SUFFICES ASSUME m \notin S PROVE FALSE
      OBVIOUS
    <2>1. \A e \in S : e < m
      <3> SUFFICES ASSUME NEW e \in S PROVE e < m
        OBVIOUS
      <3>1. e \in Nat /\ m \in Nat /\ e <= m /\ e # m
        OBVIOUS
      <3>2. QED
        BY <3>1
    <2>2. PICK e \in S : TRUE
      OBVIOUS
    <2>3. e \in Nat /\ m \in Nat /\ e < m
      BY <2>1
    <2>4. m - 1 \in Nat
      BY <2>3
    <2>5. m - 1 \in above
      <3>1. \A x \in S : x <= m - 1
        <4> SUFFICES ASSUME NEW x \in S PROVE x <= m - 1
          OBVIOUS
        <4>1. x \in Nat /\ m \in Nat /\ x < m
          BY <2>1
        <4>2. QED
          BY <4>1
      <3>2. QED
        BY <3>1, <2>4
    <2>6. m <= m - 1
      BY <1>3, <2>5
    <2>7. QED
      BY <2>6, <2>3
  <1>5. \A e \in S : e <= m
    OBVIOUS
  <1>6. Max(S) = m
    BY <1>4, <1>5, MaxIs
  <1>7. QED
    BY <1>4, <1>5, <1>6

-----------------------------------------------------------------------------
(* File names.                                                              *)

\* What FileNames(ids) is meant to be.
Naming(name, ids) ==
    name = [d \in ids |-> IF BaseName[d] \in {name[e] : e \in {e \in ids : e < d}}
                            THEN Append(BaseName[d], d) ELSE BaseName[d]]

Below(ids, k) == {d \in ids : d < k}

\* One more document is named after those before it.
LEMMA NamingGoesOn ==
  ASSUME NEW ids \in SUBSET Nat, NEW k \in Nat, NEW f, Naming(f, Below(ids, k))
  PROVE  \E g : Naming(g, Below(ids, k + 1))
  <1> DEFINE last == IF BaseName[k] \in {f[e] : e \in Below(ids, k)}
                       THEN Append(BaseName[k], k) ELSE BaseName[k]
             g == [d \in Below(ids, k + 1) |-> IF d = k THEN last ELSE f[d]]
  <1>1. \A d \in Below(ids, k + 1) : d = k \/ d \in Below(ids, k)
    BY DEF Below
  <1>2. \A d \in Below(ids, k) : d \in Below(ids, k + 1) /\ d # k /\ g[d] = f[d]
    BY DEF Below
  <1>3. \A d \in Below(ids, k + 1) :
           {g[e] : e \in {e \in Below(ids, k + 1) : e < d}}
             = {f[e] : e \in {e \in Below(ids, k) : e < d}}
    <2> SUFFICES ASSUME NEW d \in Below(ids, k + 1)
                 PROVE  {g[e] : e \in {e \in Below(ids, k + 1) : e < d}}
                          = {f[e] : e \in {e \in Below(ids, k) : e < d}}
      OBVIOUS
    <2>1. {e \in Below(ids, k + 1) : e < d} = {e \in Below(ids, k) : e < d}
      <3>1. d \in Nat /\ d < k + 1
        BY DEF Below
      <3>2. \A e \in Nat : e < d => e < k /\ e < k + 1
        BY <3>1
      <3>3. \A e \in ids : e \in Nat
        OBVIOUS
      <3>4. QED
        BY <3>2, <3>3, Zenon DEF Below
    <2> HIDE DEF g
    <2>2. \A e \in {e \in Below(ids, k) : e < d} : g[e] = f[e]
      BY <1>2
    <2>3. QED
      BY <2>1, <2>2
  <1>4. \A d \in Below(ids, k + 1) :
           g[d] = IF BaseName[d] \in {g[e] : e \in {e \in Below(ids, k + 1) : e < d}}
                    THEN Append(BaseName[d], d) ELSE BaseName[d]
    <2> SUFFICES ASSUME NEW d \in Below(ids, k + 1)
                 PROVE  g[d] = IF BaseName[d] \in {f[e] : e \in {e \in Below(ids, k) : e < d}}
                                 THEN Append(BaseName[d], d) ELSE BaseName[d]
      BY <1>3, Zenon
    <2>1. CASE d = k
      <3>1. {e \in Below(ids, k) : e < k} = Below(ids, k)
        BY DEF Below
      <3>2. g[k] = last
        BY <2>1
      <3>3. QED
        BY <2>1, <3>1, <3>2, Zenon
    <2>2. CASE d # k
      <3>1. d \in Below(ids, k) /\ g[d] = f[d]
        BY <1>1, <1>2, <2>2
      <3>2. f[d] = IF BaseName[d] \in {f[e] : e \in {e \in Below(ids, k) : e < d}}
                     THEN Append(BaseName[d], d) ELSE BaseName[d]
        BY <3>1, Zenon DEF Naming
      <3>3. QED
        BY <3>1, <3>2
    <2>3. QED
      BY <2>1, <2>2
  <1>5. g = [d \in Below(ids, k + 1) |-> g[d]]
    OBVIOUS
  <1> HIDE DEF g
  <1>6. Naming(g, Below(ids, k + 1))
    BY <1>4, <1>5, Zenon DEF Naming
  <1>7. QED
    BY <1>6

LEMMA NamingBelow ==
  ASSUME NEW ids \in SUBSET Nat, NEW k \in Nat
  PROVE  \E f : Naming(f, Below(ids, k))
  <1> DEFINE bad == {j \in Nat : ~\E f : Naming(f, Below(ids, j))}
  <1>1. ASSUME bad # {} PROVE FALSE
    <2>1. PICK j \in bad : \A i \in bad : j <= i
      BY <1>1, Smallest
    <2>2. j # 0
      <3>1. Below(ids, 0) = {}
        <4>1. \A e \in ids : e \in Nat /\ ~(e < 0)
          OBVIOUS
        <4>2. QED
          BY <4>1, Zenon DEF Below
      <3>2. \A f : f = [d \in {} |-> 0] => Naming(f, Below(ids, 0))
        BY <3>1 DEF Naming
      <3>3. QED
        BY <3>2
    <2>3. j - 1 \in Nat /\ j - 1 \notin bad
      BY <2>1, <2>2
    <2>4. PICK f : Naming(f, Below(ids, j - 1))
      BY <2>3
    <2>5. \E g : Naming(g, Below(ids, (j - 1) + 1))
      BY <2>3, <2>4, NamingGoesOn
    <2>6. (j - 1) + 1 = j
      BY <2>3
    <2>7. QED
      BY <2>5, <2>6
  <1>2. QED
    BY <1>1

\* FileNames is what its recursive definition says.
LEMMA FileNamesIs ==
  ASSUME NEW ids \in SUBSET Nat, IsFiniteSet(ids)
  PROVE  Naming(FileNames(ids), ids)
  <1>1. PICK k \in Nat : \A d \in ids : d < k
    BY FiniteIsBounded
  <1>2. Below(ids, k) = ids
    BY <1>1 DEF Below
  <1>3. \E f : Naming(f, ids)
    BY <1>2, NamingBelow
  <1>4. FileNames(ids) = CHOOSE name : Naming(name, ids)
    BY DEF FileNames, Naming
  <1>5. QED
    BY <1>3, <1>4

\* A document has its title, if no earlier one has it for a name, or the title
\* with its id.
LEMMA NameOf ==
  ASSUME NEW ids \in SUBSET Docs, NEW d \in ids
  PROVE  \/ /\ FileNames(ids)[d] = BaseName[d]
            /\ \A e \in ids : e < d => FileNames(ids)[e] # BaseName[d]
         \/ FileNames(ids)[d] = Append(BaseName[d], d)
  <1>1. Naming(FileNames(ids), ids)
    <2>1. ids \in SUBSET Nat /\ IsFiniteSet(ids)
      BY CatalogAssumption, FS_Subset
    <2>2. QED
      BY <2>1, FileNamesIs
  <1>2. FileNames(ids)[d] =
           IF BaseName[d] \in {FileNames(ids)[e] : e \in {e \in ids : e < d}}
             THEN Append(BaseName[d], d) ELSE BaseName[d]
    BY <1>1, Zenon DEF Naming
  <1>3. QED
    BY <1>2

LEMMA Titles ==
  ASSUME NEW d \in Docs, NEW e \in Docs
  PROVE  /\ Append(BaseName[d], d) = Append(BaseName[e], e) => d = e
         /\ d \in Nat
  <1>1. BaseName[d] \in Seq(Nat) /\ BaseName[e] \in Seq(Nat) /\ d \in Nat /\ e \in Nat
    BY CatalogAssumption
  <1>2. QED
    BY <1>1, AppendInjective

\* Only a copy takes the name of an earlier document.
LEMMA LaterNamesakeHides ==
  ASSUME NEW ids \in SUBSET Docs, NEW d \in ids, NEW e \in ids, d < e,
         FileNames(ids)[d] = FileNames(ids)[e]
  PROVE  Hides(e, d)
  <1>1. FileNames(ids)[e] = Append(BaseName[e], e)
    BY NameOf
  <1>2. d # e
    BY CatalogAssumption
  <1>3. FileNames(ids)[d] = BaseName[d]
    BY <1>1, <1>2, NameOf, Titles
  <1>4. QED
    BY <1>1, <1>3 DEF Hides

LEMMA IndexIs ==
  ASSUME NEW ids \in SUBSET Docs
  PROVE  /\ DOMAIN Index(ids) = {FileNames(ids)[d] : d \in ids}
         /\ \A n \in DOMAIN Index(ids) :
               /\ Index(ids)[n] \in ids
               /\ FileNames(ids)[Index(ids)[n]] = n
               /\ \A e \in ids : FileNames(ids)[e] = n => e <= Index(ids)[n]
  <1> DEFINE name == FileNames(ids)
             same(n) == {d \in ids : name[d] = n}
  <1>1. Index(ids) = [n \in {name[d] : d \in ids} |-> Max(same(n))]
    BY DEF Index
  <1> HIDE DEF name
  <1>2. ASSUME NEW n \in {name[d] : d \in ids}
        PROVE  Max(same(n)) \in same(n) /\ \A e \in same(n) : e <= Max(same(n))
    <2>1. same(n) \in SUBSET Nat /\ IsFiniteSet(same(n)) /\ same(n) # {}
      BY <1>2, CatalogAssumption, FS_Subset
    <2>2. QED
      BY <2>1, MaxOfFinite
  <1>3. /\ DOMAIN Index(ids) = {name[d] : d \in ids}
        /\ \A n \in {name[d] : d \in ids} : Index(ids)[n] = Max(same(n))
    BY <1>1
  <1>4. QED
    BY <1>2, <1>3 DEF name

\* A name opens its own document, unless a copy of a later one has taken it.
LEMMA OwnName ==
  ASSUME NEW ids \in SUBSET Docs, NEW d \in ids, \A e \in ids : ~Hides(e, d)
  PROVE  /\ FileNames(ids)[d] \in DOMAIN Index(ids)
         /\ Index(ids)[FileNames(ids)[d]] = d
  <1> DEFINE n == FileNames(ids)[d]
             e == Index(ids)[n]
  <1>1. n \in DOMAIN Index(ids)
    <2>1. DOMAIN Index(ids) = {FileNames(ids)[x] : x \in ids}
      BY IndexIs
    <2>2. QED
      BY <2>1
  <1>2. e \in ids /\ FileNames(ids)[e] = n /\ d <= e
    BY <1>1, IndexIs
  <1>3. d \in Nat /\ e \in Nat
    BY <1>2, CatalogAssumption
  <1>4. ~(d < e)
    BY <1>2, LaterNamesakeHides
  <1>5. d = e
    BY <1>2, <1>3, <1>4
  <1>6. QED
    BY <1>1, <1>5

\* Documents that come later leave the names of those before as they were, by
\* the least one that they do not.
LEMMA NamesStay ==
  ASSUME NEW old \in SUBSET Docs, NEW new \in SUBSET Docs, OnlyLaterCame(old, new),
         NEW d \in old
  PROVE  FileNames(new)[d] = FileNames(old)[d]
  <1> DEFINE f == FileNames(old)
             g == FileNames(new)
             bad == {x \in old : g[x] # f[x]}
  <1>1. Naming(f, old) /\ Naming(g, new)
    <2>1. /\ old \in SUBSET Nat /\ IsFiniteSet(old)
          /\ new \in SUBSET Nat /\ IsFiniteSet(new)
      BY CatalogAssumption, FS_Subset
    <2>2. QED
      BY <2>1, FileNamesIs
  <1> HIDE DEF f, g
  <1>2. ASSUME bad # {} PROVE FALSE
    <2>1. bad \in SUBSET Nat
      BY CatalogAssumption
    <2>2. PICK x \in bad : \A y \in bad : x <= y
      BY <1>2, <2>1, Smallest
    <2>3. \A y \in old : y < x => g[y] = f[y]
      <3> SUFFICES ASSUME NEW y \in old, y < x, y \in bad PROVE FALSE
        OBVIOUS
      <3>1. x \in Nat /\ y \in Nat /\ x <= y /\ y < x
        BY <2>1, <2>2
      <3>2. QED
        BY <3>1
    <2>4. {e \in new : e < x} = {e \in old : e < x}
      <3>1. x \in old /\ old \subseteq new /\ \A e \in new \ old : x < e
        BY DEF OnlyLaterCame
      <3>2. \A e \in new \ old : ~(e < x)
        <4> SUFFICES ASSUME NEW e \in new \ old PROVE ~(e < x)
          OBVIOUS
        <4>1. e \in Nat /\ x \in Nat /\ x < e
          BY <2>1, <3>1, CatalogAssumption
        <4>2. QED
          BY <4>1
      <3>3. QED
        BY <3>1, <3>2
    <2>5. {g[e] : e \in {e \in new : e < x}} = {f[e] : e \in {e \in old : e < x}}
      BY <2>3, <2>4
    <2>6. g[x] = IF BaseName[x] \in {g[e] : e \in {e \in new : e < x}}
                   THEN Append(BaseName[x], x) ELSE BaseName[x]
      <3>1. x \in new
        BY DEF OnlyLaterCame
      <3>2. QED
        BY <1>1, <3>1, Zenon DEF Naming
    <2>7. f[x] = IF BaseName[x] \in {f[e] : e \in {e \in old : e < x}}
                   THEN Append(BaseName[x], x) ELSE BaseName[x]
      <3>1. x \in old
        OBVIOUS
      <3>2. QED
        BY <1>1, <3>1, Zenon DEF Naming
    <2>8. g[x] = f[x]
      <3>1. BaseName[x] \in {g[e] : e \in {e \in new : e < x}}
              <=> BaseName[x] \in {f[e] : e \in {e \in old : e < x}}
        BY <2>5, Zenon
      <3>2. CASE BaseName[x] \in {f[e] : e \in {e \in old : e < x}}
        BY <2>6, <2>7, <3>1, <3>2, Zenon
      <3>3. CASE BaseName[x] \notin {f[e] : e \in {e \in old : e < x}}
        BY <2>6, <2>7, <3>1, <3>3, Zenon
      <3>4. QED
        BY <3>2, <3>3
    <2>9. QED
      BY <2>8
  <1>3. QED
    BY <1>2 DEF f, g

\* What a name that was listed among some documents opens among others.
LEMMA NamesOpen ==
  ASSUME NEW old \in SUBSET Docs, NEW new \in SUBSET Docs, NEW n \in DOMAIN Index(old),
         \A e \in new : ~Hides(e, Index(old)[n])
  PROVE  LET d == Index(old)[n]
         IN  /\ OnlyLaterCame(old, new) => n \in DOMAIN Index(new) /\ Index(new)[n] = d
             /\ n \in DOMAIN Index(new) =>
                  BaseName[Index(new)[n]] = BaseName[d] \/ Hides(d, Index(new)[n])
  <1> DEFINE d == Index(old)[n]
             e == Index(new)[n]
  <1>1. d \in old /\ FileNames(old)[d] = n
    BY IndexIs
  <1>2. ASSUME OnlyLaterCame(old, new) PROVE n \in DOMAIN Index(new) /\ e = d
    <2>1. d \in new /\ FileNames(new)[d] = n
      BY <1>1, <1>2, NamesStay DEF OnlyLaterCame
    <2>2. QED
      BY <2>1, OwnName
  <1>3. ASSUME n \in DOMAIN Index(new) PROVE BaseName[e] = BaseName[d] \/ Hides(d, e)
    <2>1. e \in new /\ FileNames(new)[e] = n
      BY <1>3, IndexIs
    <2>2. n \in {BaseName[d], Append(BaseName[d], d)}
      BY <1>1, NameOf
    <2>3. n \in {BaseName[e], Append(BaseName[e], e)}
      BY <2>1, NameOf
    <2>4. BaseName[d] # Append(BaseName[e], e)
      BY <2>1 DEF Hides
    <2>5. Append(BaseName[d], d) = Append(BaseName[e], e) => d = e
      BY <1>1, <2>1, Titles
    <2>6. QED
      BY <2>2, <2>3, <2>4, <2>5 DEF Hides
  <1>4. QED
    BY <1>2, <1>3

-----------------------------------------------------------------------------
(* Lists and their pages.                                                   *)

\* before[d] holds the documents of S that come before d, each order being strict
\* and total.
Orders(before, S) ==
    /\ \A d \in S : d \notin before[d]
    /\ \A d, e \in S : d # e => d \in before[e] \/ e \in before[d]
    /\ \A d, e, f \in S : e \in before[d] /\ f \in before[e] => f \in before[d]

\* No two documents have the same number of others before them.
LEMMA Ranks ==
  ASSUME NEW S, IsFiniteSet(S), NEW before, Orders(before, S), NEW i \in 1 .. Cardinality(S)
  PROVE  \E d \in S : Cardinality(S \cap before[d]) = i - 1
  <1> DEFINE n == Cardinality(S)
             rank == [d \in S |-> Cardinality(S \cap before[d]) + 1]
  <1>1. n \in Nat
    BY FS_CardinalityType
  <1>2. ASSUME NEW d \in S
        PROVE  /\ IsFiniteSet(S \cap before[d])
               /\ Cardinality(S \cap before[d]) \in 0 .. (n - 1)
    <2>1. IsFiniteSet(S \ {d}) /\ Cardinality(S \ {d}) = n - 1
      BY FS_RemoveElement
    <2>2. S \cap before[d] \in SUBSET (S \ {d})
      BY DEF Orders
    <2>3. /\ IsFiniteSet(S \cap before[d])
          /\ Cardinality(S \cap before[d]) <= Cardinality(S \ {d})
      BY <2>1, <2>2, FS_Subset
    <2>4. Cardinality(S \cap before[d]) \in Nat
      BY <2>3, FS_CardinalityType
    <2>5. QED
      BY <1>1, <2>1, <2>3, <2>4
  <1>3. ASSUME NEW d \in S, NEW e \in S, e \in before[d]
        PROVE  Cardinality(S \cap before[d]) # Cardinality(S \cap before[e])
    <2>1. S \cap before[e] \in SUBSET (S \cap before[d])
      BY <1>3 DEF Orders
    <2>2. e \in S \cap before[d] /\ e \notin S \cap before[e]
      BY <1>3 DEF Orders
    <2>3. IsFiniteSet(S \cap before[d])
      BY <1>2
    <2>4. QED
      BY <2>1, <2>2, <2>3, FS_Subset
  <1>4. \A d, e \in S : rank[d] = rank[e] => d = e
    <2> SUFFICES ASSUME NEW d \in S, NEW e \in S, d # e PROVE rank[d] # rank[e]
      OBVIOUS
    <2>1. Cardinality(S \cap before[d]) # Cardinality(S \cap before[e])
      <3>1. d \in before[e] \/ e \in before[d]
        BY DEF Orders
      <3>2. CASE e \in before[d]
        BY <1>3, <3>2
      <3>3. CASE d \in before[e]
        <4>1. Cardinality(S \cap before[e]) # Cardinality(S \cap before[d])
          BY <1>3, <3>3
        <4>2. QED
          BY <4>1
      <3>4. QED
        BY <3>1, <3>2, <3>3
    <2>2. Cardinality(S \cap before[d]) \in Nat /\ Cardinality(S \cap before[e]) \in Nat
      BY <1>2, FS_CardinalityType
    <2>3. QED
      BY <2>1, <2>2
  <1>5. rank \in [S -> 1 .. n]
    <2>1. ASSUME NEW d \in S PROVE Cardinality(S \cap before[d]) + 1 \in 1 .. n
      <3>1. Cardinality(S \cap before[d]) \in 0 .. (n - 1)
        BY <1>2
      <3> HIDE DEF n
      <3>2. QED
        BY <1>1, <3>1
    <2> HIDE DEF n
    <2>2. QED
      BY <2>1
  <1>6. rank \in Injection(S, 1 .. n)
    BY <1>4, <1>5 DEF Injection, IsInjective
  <1>7. IsFiniteSet(1 .. n) /\ Cardinality(1 .. n) = n
    BY <1>1, FS_Interval
  <1>8. rank \in Surjection(S, 1 .. n)
    BY <1>6, <1>7, FS_Injection
  <1>9. PICK d \in S : rank[d] = i
    <2>1. \A j \in 1 .. n : \E d \in S : rank[d] = j
      BY <1>8, Zenon DEF Surjection
    <2>2. i \in 1 .. n
      OBVIOUS
    <2> HIDE DEF rank, n
    <2>3. QED
      BY <2>1, <2>2
  <1>10. Cardinality(S \cap before[d]) \in Nat
    BY <1>2, FS_CardinalityType
  <1>11. rank[d] = Cardinality(S \cap before[d]) + 1 /\ i \in Int
    BY <1>1
  <1> HIDE DEF rank, n
  <1>12. Cardinality(S \cap before[d]) = i - 1
    BY <1>9, <1>10, <1>11
  <1>13. d \in S
    BY <1>9
  <1>14. QED
    BY <1>12, <1>13

\* A list has every document of its set once, after those that come before it.
LEMMA InOrderIs ==
  ASSUME NEW S, IsFiniteSet(S), NEW before, Orders(before, S)
  PROVE  /\ InOrder(S, before) \in [1 .. Cardinality(S) -> S]
         /\ InOrder(S, before) \in Seq(S) /\ Len(InOrder(S, before)) = Cardinality(S)
         /\ Range(InOrder(S, before)) = S
         /\ \A i \in 1 .. Cardinality(S) :
               Cardinality(S \cap before[InOrder(S, before)[i]]) = i - 1
  <1> DEFINE n == Cardinality(S)
             L == InOrder(S, before)
             at_(i) == CHOOSE d \in S : Cardinality(S \cap before[d]) = i - 1
  <1>1. n \in Nat
    BY FS_CardinalityType
  <1>2. ASSUME NEW i \in 1 .. n
        PROVE  at_(i) \in S /\ Cardinality(S \cap before[at_(i)]) = i - 1
    BY Ranks
  <1>3. L = [i \in 1 .. n |-> at_(i)]
    BY DEF InOrder
  <1> HIDE DEF n, at_, L
  <1>4. L \in [1 .. n -> S] /\ \A i \in 1 .. n : Cardinality(S \cap before[L[i]]) = i - 1
    <2>1. L \in [1 .. n -> S]
      BY <1>2, <1>3
    <2>2. ASSUME NEW i \in 1 .. n PROVE Cardinality(S \cap before[L[i]]) = i - 1
      <3>1. L[i] = at_(i)
        BY <1>3
      <3>2. QED
        BY <1>2, <3>1
    <2>3. QED
      BY <2>1, <2>2
  <1>5. L \in Seq(S) /\ Len(L) = n
    BY <1>1, <1>4
  <1>6. \A i, j \in 1 .. n : L[i] = L[j] => i = j
    <2> SUFFICES ASSUME NEW i \in 1 .. n, NEW j \in 1 .. n, L[i] = L[j] PROVE i = j
      OBVIOUS
    <2>1. i - 1 = j - 1
      BY <1>4
    <2>2. QED
      BY <2>1, <1>1
  <1>7. Range(L) = S
    <2>1. DOMAIN L = 1 .. n
      BY <1>4
    <2>2. L \in Injection(1 .. n, S)
      BY <1>4, <1>6, <2>1 DEF Injection, IsInjective
    <2>3. Cardinality(1 .. n) = Cardinality(S)
      BY <1>1, FS_Interval DEF n
    <2>4. L \in Surjection(1 .. n, S)
      BY <1>1, <2>2, <2>3, FS_Interval, FS_Injection
    <2>5. QED
      BY <1>4, <2>1, <2>4 DEF Surjection, Range
  <1>8. QED
    BY <1>4, <1>5, <1>7 DEF n, L

LEMMA Lists ==
  ASSUME NEW S \in SUBSET Docs
  PROVE  IsFiniteSet(S) /\ Cardinality(S) \in Nat
  BY CatalogAssumption, FS_Subset, FS_CardinalityType

\* Documents ordered by one of the two orders.
LEMMA InOrderIsRanked ==
  ASSUME NEW S \in SUBSET Docs, NEW before, NEW key,
         \A d \in S : S \cap before[d] = {e \in S : Precedes(key, e, d)}
  PROVE  /\ Ranked(key, InOrder(S, before)) /\ Range(InOrder(S, before)) = S
         /\ Len(InOrder(S, before)) = Cardinality(S)
  <1> DEFINE L == InOrder(S, before)
  <1>1. IsFiniteSet(S) /\ Cardinality(S) \in Nat
    BY Lists
  <1>2. \A d \in S : d \in Nat /\ Added[d] \in Nat
    BY CatalogAssumption
  <1>3. \A d \in S : ~Precedes(key, d, d)
    BY <1>2 DEF Precedes, Older
  <1>4. \A d, e \in S : d # e => Precedes(key, d, e) \/ Precedes(key, e, d)
    BY <1>2 DEF Precedes, Older
  <1>5. \A d, e, f \in S : Precedes(key, e, d) /\ Precedes(key, f, e) => Precedes(key, f, d)
    BY <1>2 DEF Precedes, Older
  <1>6. \A d, e \in S : e \in before[d] <=> Precedes(key, e, d)
    <2> SUFFICES ASSUME NEW d \in S, NEW e \in S
                 PROVE  e \in before[d] <=> Precedes(key, e, d)
      OBVIOUS
    <2>1. S \cap before[d] = {f \in S : Precedes(key, f, d)}
      OBVIOUS
    <2>2. QED
      BY <2>1
  <1>7. Orders(before, S)
    BY <1>3, <1>4, <1>5, <1>6, Zenon DEF Orders
  <1>8. /\ L \in [1 .. Cardinality(S) -> S] /\ L \in Seq(S) /\ Len(L) = Cardinality(S)
        /\ Range(L) = S
        /\ \A i \in 1 .. Cardinality(S) : Cardinality(S \cap before[L[i]]) = i - 1
    BY <1>1, <1>7, InOrderIs
  <1> HIDE DEF L
  <1>9. L \in Seq(Docs)
    BY <1>8, SeqMonotonic
  <1>10. ASSUME NEW i \in DOMAIN L
         PROVE  Cardinality({d \in Range(L) : Precedes(key, d, L[i])}) = i - 1
    <2>1. i \in 1 .. Cardinality(S) /\ L[i] \in S
      BY <1>8
    <2>2. {d \in Range(L) : Precedes(key, d, L[i])} = S \cap before[L[i]]
      BY <1>8, <2>1
    <2>3. QED
      BY <1>8, <2>1, <2>2
  <1>11. QED
    BY <1>8, <1>9, <1>10 DEF L, Ranked

LEMMA NewestFirstIs ==
  ASSUME NEW list, DOMAIN list \in SUBSET Docs, NEW key, key # Search
  PROVE  /\ Ranked(key, NewestFirst(list)) /\ Range(NewestFirst(list)) = DOMAIN list
         /\ Len(NewestFirst(list)) = Cardinality(DOMAIN list)
  <1> DEFINE S == DOMAIN list
             before == [d \in S |-> {e \in S : Older(d, e)}]
  <1>1. \A d \in S : S \cap before[d] = {e \in S : Precedes(key, e, d)}
    BY DEF Precedes
  <1>2. NewestFirst(list) = InOrder(S, before)
    BY DEF NewestFirst
  <1> HIDE DEF S, before
  <1>3. S \in SUBSET Docs
    BY DEF S
  <1>4. QED
    BY <1>1, <1>2, <1>3, InOrderIsRanked DEF S

LEMMA HitsAre ==
  ASSUME NEW S \in SUBSET Docs
  PROVE  Ranked(Search, InOrder(S, [d \in S |-> 1 .. (d - 1)]))
  <1> DEFINE before == [d \in S |-> 1 .. (d - 1)]
  <1>1. ASSUME NEW d \in S PROVE S \cap before[d] = {e \in S : Precedes(Search, e, d)}
    <2>1. before[d] = 1 .. (d - 1) /\ d \in Nat
      BY CatalogAssumption
    <2>2. \A e \in S : e \in Nat /\ e # 0
      BY CatalogAssumption
    <2>3. \A e \in S : e \in 1 .. (d - 1) <=> e < d
      BY <2>1, <2>2
    <2>4. QED
      BY <2>1, <2>3 DEF Precedes
  <1> HIDE DEF before
  <1>2. Ranked(Search, InOrder(S, before))
    BY <1>1, InOrderIsRanked
  <1>3. QED
    BY <1>2 DEF before

\* A list with more entries has none of them further to the front.
LEMMA FurtherBack ==
  ASSUME NEW key, NEW L, NEW M, Ranked(key, L), Ranked(key, M), Range(L) \subseteq Range(M),
         NEW i \in DOMAIN L
  PROVE  \E j \in DOMAIN M : M[j] = L[i] /\ i <= j
  <1> DEFINE ahead(N, d) == {e \in Range(N) : Precedes(key, e, d)}
  <1>1. L[i] \in Range(L)
    BY DEF Range
  <1>2. PICK j \in DOMAIN M : M[j] = L[i]
    BY <1>1 DEF Range
  <1>3. /\ L \in Seq(Docs) /\ M \in Seq(Docs)
        /\ Cardinality(ahead(L, L[i])) = i - 1 /\ Cardinality(ahead(M, M[j])) = j - 1
    BY Zenon DEF Ranked
  <1>4. Range(M) \in SUBSET Docs /\ i \in Nat /\ j \in Nat
    BY <1>3 DEF Range
  <1>5. IsFiniteSet(ahead(M, M[j]))
    BY <1>4, Lists
  <1>6. ahead(L, L[i]) \in SUBSET ahead(M, M[j])
    BY <1>2
  <1> HIDE DEF ahead
  <1>7. Cardinality(ahead(L, L[i])) <= Cardinality(ahead(M, M[j]))
    BY <1>5, <1>6, FS_Subset
  <1>8. i <= j
    BY <1>3, <1>4, <1>7
  <1>9. QED
    BY <1>2, <1>8

LEMMA MinMax ==
  ASSUME NEW a \in Nat, NEW b \in Nat
  PROVE  /\ Min({a, b}) = IF a <= b THEN a ELSE b
         /\ Max({a, b}) = IF a <= b THEN b ELSE a
  <1>1. CASE a <= b
    <2>1. \A x \in {a, b} : (\A y \in {a, b} : x <= y) => x = a
      BY <1>1
    <2>2. \A x \in {a, b} : (\A y \in {a, b} : x >= y) => x = b
      BY <1>1
    <2>3. (\A y \in {a, b} : a <= y) /\ (\A y \in {a, b} : b >= y)
      BY <1>1
    <2>4. QED
      BY <1>1, <2>1, <2>2, <2>3 DEF Min, Max
  <1>2. CASE ~(a <= b)
    <2>1. \A x \in {a, b} : (\A y \in {a, b} : x <= y) => x = b
      BY <1>2
    <2>2. \A x \in {a, b} : (\A y \in {a, b} : x >= y) => x = a
      BY <1>2
    <2>3. (\A y \in {a, b} : b <= y) /\ (\A y \in {a, b} : a >= y)
      BY <1>2
    <2>4. QED
      BY <1>2, <2>1, <2>2, <2>3 DEF Min, Max
  <1>3. QED
    BY <1>1, <1>2

LEMMA Product ==
  ASSUME NEW p \in Nat \ {0}
  PROVE  /\ p * PageSize \in Nat /\ (p - 1) * PageSize \in Nat
         /\ p * PageSize = (p - 1) * PageSize + PageSize
         /\ (p + 1) * PageSize = p * PageSize + PageSize
         /\ PageSize \in Nat \ {0}
         /\ (p = 1 => (p - 1) * PageSize = 0)
  <1>1. PageSize \in Nat \ {0}
    BY CatalogAssumption
  <1> DEFINE s == PageSize
  <1> HIDE DEF s
  <1>2. s \in Nat \ {0}
    BY <1>1 DEF s
  <1>3. p * s = (p - 1) * s + s /\ (p + 1) * s = p * s + s
    BY <1>2
  <1>4. p * s \in Nat /\ (p - 1) * s \in Nat
    BY <1>2
  <1>5. p = 1 => (p - 1) * s = 0
    BY <1>2
  <1>6. QED
    BY <1>2, <1>3, <1>4, <1>5 DEF s

\* A page has the entries with the next PageSize numbers.
LEMMA PageIs ==
  ASSUME NEW L \in Seq(Docs), NEW p \in Nat \ {0}
  PROVE  LET lo == (p - 1) * PageSize
             hi == IF p * PageSize <= Len(L) THEN p * PageSize ELSE Len(L)
         IN  /\ PageOf(L, p) \in Seq(Docs)
             /\ DOMAIN PageOf(L, p) = 1 .. (hi - lo)
             /\ \A i \in 1 .. (hi - lo) : PageOf(L, p)[i] = L[lo + i] /\ lo + i \in 1 .. hi
  <1> DEFINE lo == (p - 1) * PageSize
             hi == IF p * PageSize <= Len(L) THEN p * PageSize ELSE Len(L)
             page == SubSeq(L, lo + 1, hi)
  <1>1. lo \in Nat /\ p * PageSize \in Nat /\ Len(L) \in Nat
    <2>1. Len(L) \in Nat
      BY LenProperties
    <2>2. QED
      BY <2>1, Product, Zenon
  <1>2. hi \in Nat /\ hi <= Len(L) /\ Min({p * PageSize, Len(L)}) = hi
    BY <1>1, MinMax
  <1>3. PageOf(L, p) = page
    BY <1>2 DEF PageOf
  <1> HIDE DEF lo, hi
  <1>4. \A i \in (lo + 1) .. hi : L[i] \in Docs
    BY <1>1, <1>2
  <1>5. /\ page \in Seq(Docs)
        /\ Len(page) = IF lo + 1 <= hi THEN hi - (lo + 1) + 1 ELSE 0
        /\ \A i \in 1 .. (hi - (lo + 1) + 1) : page[i] = L[(lo + 1) + i - 1]
    <2>1. lo + 1 \in Int /\ hi \in Int
      BY <1>1, <1>2
    <2>2. QED
      BY <1>4, <2>1, SubSeqProperties
  <1> HIDE DEF page
  <1>6. hi - (lo + 1) + 1 = hi - lo
    BY <1>1, <1>2
  <1>7. DOMAIN page = 1 .. (hi - lo)
    <2>1. DOMAIN page = 1 .. Len(page)
      BY <1>5
    <2>2. 1 .. Len(page) = 1 .. (hi - lo)
      BY <1>1, <1>2, <1>5
    <2>3. QED
      BY <2>1, <2>2
  <1>8. ASSUME NEW i \in 1 .. (hi - lo) PROVE page[i] = L[lo + i] /\ lo + i \in 1 .. hi
    <2>1. page[i] = L[(lo + 1) + i - 1]
      BY <1>5, <1>6
    <2>2. (lo + 1) + i - 1 = lo + i /\ lo + i \in 1 .. hi
      BY <1>1, <1>2
    <2>3. QED
      BY <2>1, <2>2
  <1>9. QED
    BY <1>3, <1>5, <1>7, <1>8 DEF lo, hi, page

\* There is a link to the next page if and only if entries are left.
LEMMA HasNextIs ==
  ASSUME NEW total \in Nat, NEW p \in Nat \ {0}
  PROVE  /\ HasNext(total, p) <=> p * PageSize < total
         /\ HasNext(total, p) \in BOOLEAN
  <1> DEFINE q == (total + PageSize - 1) \div PageSize
  <1>1. PageSize \in Nat \ {0} /\ total + PageSize - 1 \in Nat
    BY CatalogAssumption
  <1>2. q \in Nat /\ PageSize * q <= total + PageSize - 1 /\ total + PageSize - 1 < PageSize * q + PageSize
    BY <1>1
  <1>3. Pages(total) = IF 1 <= q THEN q ELSE 1
    BY <1>2, MinMax DEF Pages
  <1> HIDE DEF q
  <1>4. PageSize * q < total + PageSize /\ total <= PageSize * q
    BY <1>1, <1>2
  <1>5. ASSUME p < q PROVE p * PageSize < total
    <2>1. (p + 1) * PageSize <= PageSize * q
      BY <1>1, <1>2, <1>5
    <2>2. p * PageSize + PageSize <= PageSize * q
      BY <2>1, Product
    <2>3. PageSize * q \in Nat /\ p * PageSize \in Nat
      BY <1>1, <1>2, Product
    <2>4. QED
      BY <1>1, <1>4, <2>2, <2>3
  <1>6. ASSUME q <= p PROVE ~(p * PageSize < total)
    <2>1. PageSize * q <= p * PageSize
      BY <1>1, <1>2, <1>6
    <2>2. PageSize * q \in Nat /\ p * PageSize \in Nat
      BY <1>1, <1>2, Product
    <2>3. QED
      BY <1>4, <2>1, <2>2
  <1>7. HasNext(total, p) <=> p < q
    BY <1>2, <1>3 DEF HasNext
  <1>8. QED
    BY <1>2, <1>5, <1>6, <1>7 DEF HasNext

-----------------------------------------------------------------------------
(* Folders.                                                                 *)

LEMMA FolderDocsIs ==
  ASSUME NEW map, NEW list, NEW folder
  PROVE  /\ DOMAIN FolderDocs(map, list, folder) =
              (IF folder = Unsorted THEN Untagged(map, list)
               ELSE IF folder[1] = "tag" THEN {d \in DOMAIN list : folder[2] \in list[d]}
               ELSE DOMAIN list)
         /\ DOMAIN FolderDocs(map, list, folder) \subseteq DOMAIN list
  <1>1. Unsorted[1] # "tag"
    BY DEF Unsorted
  <1>2. Untagged(map, list) \subseteq DOMAIN list
    BY DEF Untagged
  <1>3. CASE folder = Unsorted
    BY <1>1, <1>2, <1>3 DEF FolderDocs
  <1>4. CASE folder # Unsorted /\ folder[1] = "tag"
    BY <1>4 DEF FolderDocs
  <1>5. CASE folder # Unsorted /\ folder[1] # "tag"
    BY <1>5 DEF FolderDocs
  <1>6. QED
    BY <1>3, <1>4, <1>5

LEMMA Topics ==
  ASSUME NEW map, NEW list, IsList(list)
  PROVE  TopicTags(map, list) \subseteq Tags
  BY DEF TopicTags, IsList

LEMMA FixedIs ==
  ASSUME NEW name
  PROVE  /\ Fixed(name) \in {Done, Unsorted, Missing}
         /\ Fixed(name)[1] \notin {"document", "tag"}
         /\ Missing[1] \notin {"document", "tag"} /\ Root[1] \notin {"document", "tag"}
         /\ \A x : TagFolder(x)[1] = "tag" /\ Document(x)[1] = "document"
                   /\ Document(x)[2] = x /\ TagFolder(x)[2] = x
         /\ Root # Done /\ Root # Unsorted /\ \A x : TagFolder(x) # Root
         /\ Done # Missing /\ Unsorted # Missing
  BY DEF Fixed, Done, Unsorted, Missing, Root, TagFolder, Document

\* What a name leads to below the root.
LEMMA MemberIs ==
  ASSUME NEW map, NEW list, IsList(list), NEW name
  PROVE  /\ Member(map, list, name)[1] = "document" =>
              /\ name \in DOMAIN Index(DOMAIN list) /\ Fixed(name) = Missing
              /\ Member(map, list, name) = Document(Index(DOMAIN list)[name])
              /\ name \in MemberNames(map, list) => ~TagFolders
         /\ Member(map, list, name)[1] = "tag" =>
              \E t \in Tags : Member(map, list, name) = TagFolder(t)
         /\ Fixed(name) = Missing /\ ~TagFolders =>
              Member(map, list, name) =
                (IF name \in DOMAIN Index(DOMAIN list)
                   THEN Document(Index(DOMAIN list)[name]) ELSE Missing)
  <1> DEFINE topics == {t \in TopicTags(map, list) : map[t] = name}
  <1>1. CASE Fixed(name) # Missing
    BY <1>1, FixedIs DEF Member
  <1>2. CASE Fixed(name) = Missing /\ TagFolders /\ topics # {}
    <2>1. PICK t \in topics : Member(map, list, name) = TagFolder(t)
      BY <1>2 DEF Member
    <2>2. t \in Tags
      BY Topics
    <2>3. QED
      BY <1>2, <2>1, <2>2, FixedIs
  <1>3. CASE Fixed(name) = Missing /\ ~(TagFolders /\ topics # {})
    <2>1. Member(map, list, name) = IF name \in DOMAIN Index(DOMAIN list)
                                      THEN Document(Index(DOMAIN list)[name]) ELSE Missing
      BY <1>3 DEF Member
    <2>2. TagFolders => name \notin MemberNames(map, list)
      <3>1. Done # Missing /\ Unsorted # Missing
        BY FixedIs
      <3>2. TagFolders => ~(Share.enabled /\ name = Share.folder) /\ name # UnsortedName
        BY <1>3, <3>1 DEF Fixed
      <3>3. TagFolders => name \notin {map[t] : t \in TopicTags(map, list)}
        BY <1>3
      <3>4. QED
        BY <3>2, <3>3 DEF MemberNames
    <2>3. QED
      BY <1>3, <2>1, <2>2, FixedIs
  <1>4. QED
    BY <1>1, <1>2, <1>3

-----------------------------------------------------------------------------
(* Changes in Paperless, and of the map of tag names.                       *)

\* What a change leaves of what the reader remembers.
LEMMA EditKeeps ==
  ASSUME IInv, memory' = Disturbed(memory), UNCHANGED <<pc, request, reply>>
  PROVE  /\ RequestSound' /\ ListingSound' /\ WalkSound' /\ QuietSound'
         /\ NamesOpenTheirOwn' /\ ServesWhatItShowed'
         /\ memory'.kind \in {"nothing", "listing", "walk"}
  <1>1. CASE memory.kind = "walk"
    <2>1. DOMAIN memory = WalkFields
      BY <1>1 DEF IInv, WalkSound
    <2>2. memory' = [memory EXCEPT !.quiet = FALSE]
      BY <1>1 DEF Disturbed
    <2>3. /\ DOMAIN memory' = WalkFields /\ memory'.quiet = FALSE
          /\ memory'.kind = memory.kind /\ memory'.key = memory.key /\ memory'.page = memory.page
          /\ memory'.list = memory.list /\ memory'.count = memory.count
          /\ memory'.next = memory.next /\ memory'.shown = memory.shown
          /\ memory'.entries = memory.entries /\ memory'.owed = memory.owed
          /\ memory'.steady = memory.steady /\ memory'.facets = memory.facets
      BY <2>1, <2>2 DEF WalkFields
    <2>4. RequestSound'
      BY <1>1, <2>3 DEF IInv, RequestSound, request
    <2>5. WalkSound'
      <3>1. WalkSound /\ memory'.kind = "walk"
        BY <1>1, <2>3 DEF IInv
      <3>2. Ranked(memory'.key, memory'.list)
        BY <1>1, <2>3, <3>1 DEF WalkSound
      <3>3. /\ memory'.key \in Keys /\ memory'.page \in Nat \ {0}
            /\ DOMAIN memory'.facets \subseteq Keys \ {Search}
        BY <1>1, <2>3, <3>1 DEF WalkSound
      <3>4. memory'.next \in BOOLEAN /\ memory'.steady \in BOOLEAN /\ memory'.quiet \in BOOLEAN
        BY <1>1, <2>3, <3>1, Zenon DEF WalkSound
      <3>5. memory'.steady =>
              \A d \in memory'.owed :
                d \in memory'.shown \/ \E i \in DOMAIN memory'.list :
                                          i > memory'.page * PageSize /\ memory'.list[i] = d
        BY <1>1, <2>3, <3>1 DEF WalkSound
      <3>6. ~memory'.next => Len(memory'.list) <= memory'.page * PageSize
        BY <1>1, <2>3, <3>1 DEF WalkSound
      <3>7. QED
        BY <2>3, <3>2, <3>3, <3>4, <3>5, <3>6, Zenon DEF WalkSound
    <2>6. QED
      BY <1>1, <2>3, <2>4, <2>5
         DEF ListingSound, QuietSound, NamesOpenTheirOwn, ServesWhatItShowed
  <1>2. CASE memory.kind # "walk"
    <2>1. memory' = memory
      BY <1>2 DEF Disturbed
    <2>2. RequestSound' /\ ListingSound' /\ WalkSound'
      BY <2>1 DEF IInv, RequestSound, ListingSound, WalkSound, request
    <2>3. NamesOpenTheirOwn'
      BY <2>1 DEF IInv, NamesOpenTheirOwn, Hides, OnlyLaterCame
    <2>4. QuietSound' /\ ServesWhatItShowed'
      BY <1>2, <2>1 DEF QuietSound, ServesWhatItShowed
    <2>5. QED
      BY <2>1, <2>2, <2>3, <2>4 DEF IInv, TypeOK
  <1>3. QED
    BY <1>1, <1>2

LEMMA AddKeeps ==
  ASSUME IInv, AddDocument
  PROVE  IInv'
  <1>1. PICK d \in Docs, ts \in NewTags :
           docs' = [e \in DOMAIN docs \cup {d} |-> IF e = d THEN ts ELSE docs[e]]
    BY DEF AddDocument
  <1>2. ts \subseteq Tags
    BY CatalogAssumption
  <1>3. IsList(docs')
    BY <1>1, <1>2 DEF IInv, TypeOK, IsList
  <1>4. UNCHANGED <<tagName, known, pc, request, reply>> /\ memory' = Disturbed(memory)
    BY DEF AddDocument, Edit
  <1>5. edits' \in 0 .. MaxEdits
    BY CatalogAssumption DEF IInv, TypeOK, AddDocument, Edit
  <1>6. /\ RequestSound' /\ ListingSound' /\ WalkSound' /\ QuietSound'
        /\ NamesOpenTheirOwn' /\ ServesWhatItShowed'
        /\ memory'.kind \in {"nothing", "listing", "walk"}
    BY <1>4, EditKeeps
  <1>7. TypeOK' /\ NamesDiffer(tagName')
    BY <1>3, <1>4, <1>5, <1>6 DEF IInv, TypeOK, request
  <1>8. QED
    BY <1>6, <1>7 DEF IInv

LEMMA RetagKeeps ==
  ASSUME IInv, Retag
  PROVE  IInv'
  <1>1. PICK d \in DOMAIN docs, t \in Tags : docs' = [docs EXCEPT ![d] = Toggle(@, t)]
    BY DEF Retag
  <1>2. Toggle(docs[d], t) \subseteq Tags
    BY DEF IInv, TypeOK, IsList, Toggle
  <1>3. IsList(docs')
    BY <1>1, <1>2 DEF IInv, TypeOK, IsList
  <1>4. UNCHANGED <<tagName, known, pc, request, reply>> /\ memory' = Disturbed(memory)
    BY DEF Retag, Edit
  <1>5. edits' \in 0 .. MaxEdits
    BY CatalogAssumption DEF IInv, TypeOK, Retag, Edit
  <1>6. /\ RequestSound' /\ ListingSound' /\ WalkSound' /\ QuietSound'
        /\ NamesOpenTheirOwn' /\ ServesWhatItShowed'
        /\ memory'.kind \in {"nothing", "listing", "walk"}
    BY <1>4, EditKeeps
  <1>7. TypeOK' /\ NamesDiffer(tagName')
    BY <1>3, <1>4, <1>5, <1>6 DEF IInv, TypeOK, request
  <1>8. QED
    BY <1>6, <1>7 DEF IInv

LEMMA RenameKeeps ==
  ASSUME IInv, RenameTag
  PROVE  IInv'
  <1>1. PICK t \in Tags : \E n \in Renames[t] :
           /\ n = Unnamed \/ \A u \in Tags : tagName[u] # n
           /\ tagName' = [tagName EXCEPT ![t] = n]
    BY DEF RenameTag
  <1>2. PICK n \in Renames[t] :
           /\ n = Unnamed \/ \A u \in Tags : tagName[u] # n
           /\ tagName' = [tagName EXCEPT ![t] = n]
    BY <1>1
  <1>3. n \in UNION {Renames[u] : u \in Tags}
    OBVIOUS
  <1>4. tagName' \in Maps
    BY <1>2, <1>3 DEF IInv, TypeOK, Maps
  <1>5. NamesDiffer(tagName')
    <2>1. DOMAIN tagName = Tags
      BY DEF IInv, TypeOK, Maps
    <2>2. \A u \in Tags : tagName'[u] = IF u = t THEN n ELSE tagName[u]
      BY <1>2, <2>1
    <2>3. QED
      BY <1>2, <2>2 DEF IInv, NamesDiffer
  <1>6. UNCHANGED <<docs, known, pc, request, reply>> /\ memory' = Disturbed(memory)
    BY DEF RenameTag, Edit
  <1>7. edits' \in 0 .. MaxEdits
    BY CatalogAssumption DEF IInv, TypeOK, RenameTag, Edit
  <1>8. /\ RequestSound' /\ ListingSound' /\ WalkSound' /\ QuietSound'
        /\ NamesOpenTheirOwn' /\ ServesWhatItShowed'
        /\ memory'.kind \in {"nothing", "listing", "walk"}
    BY <1>6, EditKeeps
  <1>9. TypeOK'
    BY <1>4, <1>6, <1>7, <1>8 DEF IInv, TypeOK, request
  <1>10. QED
    BY <1>5, <1>8, <1>9 DEF IInv

\* While the documents and the names are what they were, a walk is as quiet as
\* the request in progress leaves it.
LEMMA QuietKept ==
  ASSUME IInv, UNCHANGED <<docs, tagName, memory>>, known' \in {known, NoMap, tagName},
         memory.kind = "walk" /\ memory.quiet /\ req'.kind \in {"feed", "download"} =>
            /\ pc' = "load" => filter' = Filter(tagName, Root)
            /\ pc' = "route" => loaded' = Fetched(Root)
  PROVE  QuietSound'
  <1>1. Fetched(Root)' = Fetched(Root)
    BY DEF Fetched
  <1>2. QED
    BY <1>1 DEF IInv, QuietSound

LEMMA ExpireKeeps ==
  ASSUME IInv, ExpireMap
  PROVE  IInv'
  <1>1. UNCHANGED <<docs, tagName, edits, pc, request, reply>> /\ known' = NoMap
    BY DEF ExpireMap, paperless
  <1>2. CASE memory' = memory
    <2>1. RequestSound' /\ ListingSound' /\ WalkSound'
      BY <1>1, <1>2 DEF IInv, RequestSound, ListingSound, WalkSound, request
    <2>2. NamesOpenTheirOwn' /\ ServesWhatItShowed'
      BY <1>1, <1>2 DEF IInv, NamesOpenTheirOwn, ServesWhatItShowed, Hides, OnlyLaterCame
    <2>3. QuietSound'
      <3>1. memory.kind = "walk" /\ memory.quiet /\ req'.kind \in {"feed", "download"} =>
              /\ pc' = "load" => filter' = Filter(tagName, Root)
              /\ pc' = "route" => loaded' = Fetched(Root)
        BY <1>1 DEF IInv, QuietSound, request
      <3>2. QED
        BY <1>1, <1>2, <3>1, QuietKept
    <2>4. TypeOK' /\ NamesDiffer(tagName')
      BY <1>1, <1>2 DEF IInv, TypeOK, request
    <2>5. QED
      BY <2>1, <2>2, <2>3, <2>4 DEF IInv
  <1>3. CASE memory' = Disturbed(memory)
    <2>1. /\ RequestSound' /\ ListingSound' /\ WalkSound' /\ QuietSound'
          /\ NamesOpenTheirOwn' /\ ServesWhatItShowed'
          /\ memory'.kind \in {"nothing", "listing", "walk"}
      BY <1>1, <1>3, EditKeeps
    <2>2. TypeOK' /\ NamesDiffer(tagName')
      BY <1>1, <2>1 DEF IInv, TypeOK, request
    <2>3. QED
      BY <2>1, <2>2 DEF IInv
  <1>4. QED
    BY <1>2, <1>3 DEF ExpireMap

-----------------------------------------------------------------------------
(* What a reader asks for.                                                  *)

LEMMA MemoryKept ==
  ASSUME IInv, memory' = memory
  PROVE  ListingSound' /\ WalkSound'
  BY DEF IInv, ListingSound, WalkSound

LEMMA ToldKept ==
  ASSUME IInv, UNCHANGED <<memory, reply>>
  PROVE  NamesOpenTheirOwn' /\ ServesWhatItShowed'
  BY DEF IInv, NamesOpenTheirOwn, ServesWhatItShowed, Hides, OnlyLaterCame

\* Nothing is said when a request begins.
LEMMA NothingTold ==
  ASSUME reply'.kind \notin {"opened", "missing", "refused"}
  PROVE  NamesOpenTheirOwn' /\ ServesWhatItShowed'
  BY DEF NamesOpenTheirOwn, ServesWhatItShowed

LEMMA AskKeeps ==
  ASSUME IInv, NEW r, Ask(r), r.kind \in {"list", "open", "feed", "download"},
         r.kind = "open" =>
           /\ memory.kind = "listing" /\ r.folder = memory.folder
           /\ r.name \in DOMAIN memory.index /\ memory.index[r.name][1] = "document",
         r.kind = "feed" =>
           /\ r.key \in Keys /\ r.page \in Nat \ {0}
           /\ r.page # 1 => /\ memory.kind = "walk" /\ memory.next
                            /\ r.key = memory.key /\ r.page = memory.page + 1
                            /\ r.count = memory.count
           /\ r.page = 1 /\ r.count # NoCount =>
                /\ memory.kind = "walk" /\ r.key \in DOMAIN memory.facets
                /\ r.count = memory.facets[r.key]
  PROVE  IInv'
  <1>1. /\ pc = "idle" /\ req' = r /\ reply' = Nothing
        /\ pc' = IF r.kind = "feed" /\ r.key = Search THEN "search" ELSE "map"
        /\ UNCHANGED <<docs, tagName, edits, known, filter, hits, loaded, memory>>
    BY DEF Ask, paperless
  <1>2. /\ at' \in {Root, Done, Unsorted}
        /\ (r.kind \notin {"list", "open"} \/ r.folder = Root => at' = Root)
    BY FixedIs DEF Ask
  <1>3. pc' \in {"map", "search"}
    BY <1>1
  <1>4. RequestSound'
    <2>1. req'.kind \in {"list", "open", "feed", "download"}
      BY <1>1
    <2>2. pc' = "search" => req'.kind = "feed" /\ req'.key = Search
      BY <1>1
    <2>3. /\ req'.kind \in {"feed", "download"} => at' = Root
          /\ req'.kind \in {"list", "open"} /\ req'.folder = Root => at' = Root
      BY <1>1, <1>2
    <2>4. req'.kind = "feed" /\ req'.key = Search => pc' = "search"
      BY <1>1
    <2>5. QED
      BY <1>1, <2>1, <2>2, <2>3, <2>4 DEF RequestSound
  <1>5. ListingSound' /\ WalkSound'
    BY <1>1, MemoryKept
  <1>6. NamesOpenTheirOwn' /\ ServesWhatItShowed'
    BY <1>1, NothingTold DEF Nothing
  <1>7. QuietSound'
    BY <1>1, <1>3, QuietKept
  <1>8. TypeOK' /\ NamesDiffer(tagName')
    BY <1>1, <1>2, <1>3 DEF IInv, TypeOK, Nothing
  <1>9. QED
    BY <1>4, <1>5, <1>6, <1>7, <1>8 DEF IInv

LEMMA AskListKeeps ==
  ASSUME IInv, AskList
  PROVE  IInv'
  <1>1. PICK f : Ask([kind |-> "list", folder |-> f])
    BY DEF AskList
  <1>2. QED
    BY <1>1, AskKeeps

LEMMA AskOpenKeeps ==
  ASSUME IInv, AskOpen
  PROVE  IInv'
  <1>1. memory.kind = "listing"
    BY DEF AskOpen
  <1>2. PICK n \in DOMAIN memory.index, move \in BOOLEAN :
           /\ memory.index[n][1] = "document"
           /\ Ask([kind |-> "open", folder |-> memory.folder, name |-> n, move |-> move])
    BY DEF AskOpen
  <1> DEFINE r == [kind |-> "open", folder |-> memory.folder, name |-> n, move |-> move]
  <1>3. r.kind = "open" /\ r.folder = memory.folder /\ r.name = n
    OBVIOUS
  <1>4. Ask(r)
    BY <1>2
  <1> HIDE DEF r
  <1>5. QED
    BY <1>1, <1>2, <1>3, <1>4, AskKeeps

LEMMA AskFeedKeeps ==
  ASSUME IInv, AskFeed
  PROVE  IInv'
  <1>1. ASSUME NEW key \in {Recent, Search},
               Ask([kind |-> "feed", key |-> key, page |-> 1, count |-> NoCount])
        PROVE  IInv'
    <2> DEFINE r == [kind |-> "feed", key |-> key, page |-> 1, count |-> NoCount]
    <2>1. r.kind = "feed" /\ r.key = key /\ r.page = 1 /\ r.count = NoCount /\ Ask(r)
      BY <1>1
    <2>2. key \in Keys
      BY DEF Keys, Recent
    <2> HIDE DEF r
    <2>3. QED
      BY <2>1, <2>2, AskKeeps
  <1>2. ASSUME memory.kind = "walk", NEW key \in DOMAIN memory.facets,
               Ask([kind |-> "feed", key |-> key, page |-> 1, count |-> memory.facets[key]])
        PROVE  IInv'
    <2> DEFINE r == [kind |-> "feed", key |-> key, page |-> 1, count |-> memory.facets[key]]
    <2>1. r.kind = "feed" /\ r.key = key /\ r.page = 1 /\ r.count = memory.facets[key] /\ Ask(r)
      BY <1>2
    <2>2. key \in Keys
      BY <1>2 DEF IInv, WalkSound
    <2> HIDE DEF r
    <2>3. QED
      BY <1>2, <2>1, <2>2, AskKeeps
  <1>3. ASSUME memory.kind = "walk", memory.next,
               Ask([kind |-> "feed", key |-> memory.key, page |-> memory.page + 1,
                    count |-> memory.count])
        PROVE  IInv'
    <2> DEFINE r == [kind |-> "feed", key |-> memory.key, page |-> memory.page + 1,
                     count |-> memory.count]
    <2>1. /\ r.kind = "feed" /\ r.key = memory.key /\ r.page = memory.page + 1
          /\ r.count = memory.count /\ Ask(r)
      BY <1>3
    <2>2. memory.key \in Keys /\ memory.page \in Nat \ {0}
      BY <1>3 DEF IInv, WalkSound
    <2>3. memory.page + 1 \in Nat \ {0} /\ memory.page + 1 # 1
      BY <2>2
    <2> HIDE DEF r
    <2>4. QED
      BY <1>3, <2>1, <2>2, <2>3, AskKeeps
  <1>4. QED
    BY <1>1, <1>2, <1>3 DEF AskFeed

LEMMA AskDownloadKeeps ==
  ASSUME IInv, AskDownload
  PROVE  IInv'
  <1>1. PICK d \in Docs : Ask([kind |-> "download", doc |-> d])
    BY DEF AskDownload
  <1>2. QED
    BY <1>1, AskKeeps

-----------------------------------------------------------------------------
(* What a request reads.                                                    *)

LEMMA ReadMapIs ==
  ASSUME IInv, NEW map, ReadMap(map)
  PROVE  /\ map \in Maps /\ known' = map /\ known' \in {known, tagName}
         /\ memory.kind = "walk" /\ memory.quiet => map = tagName
  BY DEF IInv, TypeOK, ReadMap, QuietSound

LEMMA FilterType ==
  ASSUME NEW map, NEW folder
  PROVE  Filter(map, folder) \in [include : SUBSET Tags, exclude : SUBSET Tags]
  BY DEF Filter, ResolveTags

LEMMA GetMapKeeps ==
  ASSUME IInv, GetMap
  PROVE  IInv'
  <1>1. /\ pc = "map" /\ pc' = "load"
        /\ UNCHANGED <<docs, tagName, edits, req, at, hits, loaded, memory, reply>>
    BY DEF GetMap, paperless
  <1>2. PICK map \in Maps : ReadMap(map) /\ filter' = Filter(map, at)
    BY DEF GetMap
  <1>3. RequestSound'
    BY <1>1 DEF IInv, RequestSound
  <1>4. ListingSound' /\ WalkSound' /\ NamesOpenTheirOwn' /\ ServesWhatItShowed'
    BY <1>1, MemoryKept, ToldKept
  <1>5. QuietSound'
    <2>1. known' \in {known, NoMap, tagName}
      BY <1>2, ReadMapIs
    <2>2. memory.kind = "walk" /\ memory.quiet /\ req'.kind \in {"feed", "download"} =>
            filter' = Filter(tagName, Root)
      <3>1. req'.kind \in {"feed", "download"} => at = Root
        BY <1>1 DEF IInv, RequestSound
      <3>2. memory.kind = "walk" /\ memory.quiet => map = tagName
        BY <1>2, ReadMapIs
      <3>3. QED
        BY <1>2, <3>1, <3>2
    <2>3. QED
      BY <1>1, <2>1, <2>2, QuietKept
  <1>6. TypeOK' /\ NamesDiffer(tagName')
    <2>1. known' \in Maps
      BY <1>2, ReadMapIs
    <2>2. filter' \in [include : SUBSET Tags, exclude : SUBSET Tags]
      BY <1>2, FilterType
    <2>3. QED
      BY <1>1, <2>1, <2>2 DEF IInv, TypeOK
  <1>7. QED
    BY <1>3, <1>4, <1>5, <1>6 DEF IInv

LEMMA SearchKeeps ==
  ASSUME IInv, SearchPage
  PROVE  IInv'
  <1>1. /\ pc = "search" /\ pc' = "map"
        /\ UNCHANGED <<docs, tagName, edits, req, at, filter, loaded, memory, reply>>
    BY DEF SearchPage, paperless
  <1>2. PICK map \in Maps :
           LET found == {d \in DOMAIN docs : ResolveTags(map, Share.include) \subseteq docs[d]}
           IN  /\ ReadMap(map)
               /\ hits' = InOrder(found, [d \in found |-> 1 .. (d - 1)])
    BY DEF SearchPage
  <1>3. Ranked(Search, hits')
    <2> DEFINE found == {d \in DOMAIN docs : ResolveTags(map, Share.include) \subseteq docs[d]}
    <2>1. found \in SUBSET Docs
      BY DEF IInv, TypeOK, IsList
    <2>2. hits' = InOrder(found, [d \in found |-> 1 .. (d - 1)])
      BY <1>2
    <2> HIDE DEF found
    <2>3. QED
      BY <2>1, <2>2, HitsAre
  <1>4. RequestSound'
    BY <1>1, <1>3 DEF IInv, RequestSound
  <1>5. ListingSound' /\ WalkSound' /\ NamesOpenTheirOwn' /\ ServesWhatItShowed'
    BY <1>1, MemoryKept, ToldKept
  <1>6. QuietSound'
    <2>1. known' \in {known, NoMap, tagName}
      BY <1>2, ReadMapIs
    <2>2. QED
      BY <1>1, <2>1, QuietKept
  <1>7. TypeOK' /\ NamesDiffer(tagName')
    <2>1. known' \in Maps
      BY <1>2, ReadMapIs
    <2>2. hits' \in Seq(Docs)
      BY <1>3 DEF Ranked
    <2>3. QED
      BY <1>1, <2>1, <2>2 DEF IInv, TypeOK
  <1>8. QED
    BY <1>4, <1>5, <1>6, <1>7 DEF IInv

LEMMA LoadKeeps ==
  ASSUME IInv, Load
  PROVE  IInv'
  <1>1. /\ pc = "load" /\ pc' = "route"
        /\ loaded' = [d \in {d \in DOMAIN docs : Passes(filter, docs[d])} |-> docs[d]]
        /\ UNCHANGED <<docs, tagName, edits, known, req, at, filter, hits, memory, reply>>
    BY DEF Load, paperless
  <1>2. RequestSound'
    BY <1>1 DEF IInv, RequestSound
  <1>3. ListingSound' /\ WalkSound' /\ NamesOpenTheirOwn' /\ ServesWhatItShowed'
    BY <1>1, MemoryKept, ToldKept
  <1>4. QuietSound'
    <2>1. memory.kind = "walk" /\ memory.quiet /\ req'.kind \in {"feed", "download"} =>
            loaded' = Fetched(Root)
      BY <1>1 DEF IInv, QuietSound, Fetched
    <2>2. QED
      BY <1>1, <2>1, QuietKept
  <1>5. IsList(loaded')
    BY <1>1 DEF IInv, TypeOK, IsList
  <1>6. TypeOK' /\ NamesDiffer(tagName')
    BY <1>1, <1>5 DEF IInv, TypeOK
  <1>7. QED
    BY <1>2, <1>3, <1>4, <1>6 DEF IInv

-----------------------------------------------------------------------------
(* Answers.                                                                 *)

LEMMA AnswerIs ==
  ASSUME IInv, NEW r, Answer(r)
  PROVE  /\ RequestSound' /\ reply' = r /\ pc' = "idle" /\ req' = Nothing
         /\ req'.kind = "nothing" /\ at' = Root /\ hits' \in Seq(Docs)
         /\ filter' \in [include : SUBSET Tags, exclude : SUBSET Tags]
         /\ IsList(loaded')
  <1>1. /\ reply' = r /\ pc' = "idle" /\ req' = Nothing /\ at' = Root /\ hits' = <<>>
        /\ filter' = NoFilter /\ loaded' = NoDocs
    BY DEF Answer
  <1>2. req'.kind = "nothing"
    BY <1>1 DEF Nothing
  <1>3. RequestSound'
    BY <1>1, <1>2 DEF RequestSound
  <1>4. IsList(loaded') /\ filter' \in [include : SUBSET Tags, exclude : SUBSET Tags]
    BY <1>1 DEF NoDocs, NoFilter, IsList
  <1>5. hits' \in Seq(Docs)
    BY <1>1, EmptySeq
  <1>6. QED
    BY <1>1, <1>2, <1>3, <1>4, <1>5

LEMMA DownloadKeeps ==
  ASSUME IInv, Download
  PROVE  IInv'
  <1> DEFINE r == [kind |-> IF req.doc \in DOMAIN loaded THEN "served" ELSE "refused",
                   doc |-> req.doc]
  <1>1. /\ pc = "route" /\ req.kind = "download" /\ Answer(r)
        /\ UNCHANGED <<docs, tagName, edits, known, memory>>
    BY DEF Download, paperless
  <1>2. /\ r.kind \in {"served", "refused"} /\ r.doc = req.doc
        /\ r.kind = "refused" => req.doc \notin DOMAIN loaded
    OBVIOUS
  <1> HIDE DEF r
  <1>3. /\ RequestSound' /\ reply' = r /\ pc' = "idle" /\ req' = Nothing
        /\ req'.kind = "nothing" /\ at' = Root /\ hits' \in Seq(Docs)
        /\ filter' \in [include : SUBSET Tags, exclude : SUBSET Tags]
        /\ IsList(loaded')
    BY <1>1, AnswerIs
  <1>4. ListingSound' /\ WalkSound'
    BY <1>1, MemoryKept
  <1>5. QuietSound'
    BY <1>1, <1>3, QuietKept
  <1>6. NamesOpenTheirOwn'
    BY <1>2, <1>3 DEF NamesOpenTheirOwn
  <1>7. ServesWhatItShowed'
    <2> SUFFICES ASSUME memory.kind = "walk", memory.quiet, r.kind = "refused"
                 PROVE  r.doc \notin memory.shown
      BY <1>1, <1>3 DEF ServesWhatItShowed
    <2>1. loaded = Fetched(Root) /\ memory.shown \subseteq DOMAIN Fetched(Root)
      BY <1>1 DEF IInv, QuietSound
    <2>2. QED
      BY <1>2, <2>1
  <1>8. TypeOK' /\ NamesDiffer(tagName')
    BY <1>1, <1>2, <1>3 DEF IInv, TypeOK
  <1>9. QED
    BY <1>3, <1>4, <1>5, <1>6, <1>7, <1>8 DEF IInv

LEMMA NotFoundKeeps ==
  ASSUME IInv, UNCHANGED <<docs, tagName, edits, memory>>, NEW map, ReadMap(map), NotFound
  PROVE  IInv'
  <1> DEFINE r == [kind |-> "missing", ids |-> {}]
  <1>1. Answer(r)
    BY DEF NotFound
  <1>2. r.kind = "missing" /\ r.ids = {}
    OBVIOUS
  <1> HIDE DEF r
  <1>3. /\ RequestSound' /\ reply' = r /\ pc' = "idle" /\ req' = Nothing
        /\ req'.kind = "nothing" /\ at' = Root /\ hits' \in Seq(Docs)
        /\ filter' \in [include : SUBSET Tags, exclude : SUBSET Tags]
        /\ IsList(loaded')
    BY <1>1, AnswerIs
  <1>4. NamesOpenTheirOwn' /\ ServesWhatItShowed'
    BY <1>2, <1>3 DEF NamesOpenTheirOwn, ServesWhatItShowed
  <1>5. known' \in Maps /\ known' \in {known, NoMap, tagName}
    BY ReadMapIs
  <1>6. QuietSound'
    BY <1>3, <1>5, QuietKept
  <1>7. ListingSound' /\ WalkSound'
    BY MemoryKept
  <1>8. TypeOK' /\ NamesDiffer(tagName')
    BY <1>2, <1>3, <1>5 DEF IInv, TypeOK
  <1>9. QED
    BY <1>3, <1>4, <1>6, <1>7, <1>8 DEF IInv

LEMMA Enters ==
  ASSUME NEW map, NEW list, IsList(list), NEW name, Member(map, list, name)[1] = "tag"
  PROVE  \E t \in Tags : Member(map, list, name) = TagFolder(t)
  BY MemberIs

LEMMA EnterKeeps ==
  ASSUME IInv, Enter
  PROVE  IInv'
  <1>1. /\ pc = "route" /\ req.kind \in {"list", "open"} /\ at = Root /\ req.folder # Root
        /\ UNCHANGED <<docs, tagName, edits, memory>>
    BY DEF Enter, paperless
  <1>2. PICK map \in Maps :
           /\ ReadMap(map)
           /\ IF Member(map, loaded, req.folder)[1] = "tag"
                THEN /\ at' = Member(map, loaded, req.folder)
                     /\ pc' = "map"
                     /\ loaded' = NoDocs
                     /\ UNCHANGED <<req, filter, hits, reply>>
                ELSE NotFound
    BY DEF Enter
  <1>3. known' \in Maps /\ known' \in {known, NoMap, tagName}
    BY <1>2, ReadMapIs
  <1>4. ListingSound' /\ WalkSound'
    BY <1>1, MemoryKept
  <1>5. CASE Member(map, loaded, req.folder)[1] = "tag"
    <2>1. at' = Member(map, loaded, req.folder) /\ pc' = "map" /\ loaded' = NoDocs
          /\ UNCHANGED <<req, filter, hits, reply>>
      BY <1>2, <1>5
    <2>2. PICK t \in Tags : at' = TagFolder(t)
      <3>1. IsList(loaded)
        BY DEF IInv, TypeOK
      <3>2. \E t \in Tags : Member(map, loaded, req.folder) = TagFolder(t)
        BY <1>5, <3>1, Enters
      <3>3. QED
        BY <1>5, <2>1, <3>2
    <2>3. RequestSound'
      BY <1>1, <2>1 DEF IInv, RequestSound
    <2>4. NamesOpenTheirOwn' /\ ServesWhatItShowed'
      BY <1>1, <2>1, ToldKept
    <2>5. QuietSound'
      BY <1>1, <1>3, <2>1, QuietKept
    <2>6. IsList(loaded')
      BY <2>1 DEF NoDocs, IsList
    <2>7. TypeOK' /\ NamesDiffer(tagName')
      BY <1>1, <1>3, <2>1, <2>2, <2>6 DEF IInv, TypeOK
    <2>8. QED
      BY <1>4, <2>3, <2>4, <2>5, <2>7 DEF IInv
  <1>6. CASE Member(map, loaded, req.folder)[1] # "tag"
    BY <1>1, <1>2, <1>6, NotFoundKeeps
  <1>7. QED
    BY <1>5, <1>6

LEMMA FolderMapIs ==
  ASSUME IInv, NEW map, FolderMap(map)
  PROVE  map \in Maps /\ known' \in {known, NoMap, tagName} /\ (known' = NoMap \/ known' \in Maps)
  <1>1. CASE ReadMap(map)
    BY <1>1, ReadMapIs
  <1>2. CASE map = tagName /\ known' = known
    BY <1>2 DEF IInv, TypeOK
  <1>3. QED
    BY <1>1, <1>2 DEF FolderMap

\* What the root lists by the name of a document.
LEMMA RootLists ==
  ASSUME NEW map, NEW list, IsList(list), NEW n \in MemberNames(map, list),
         Member(map, list, n)[1] = "document"
  PROVE  /\ ~TagFolders /\ Fixed(n) = Missing /\ n \in DOMAIN Index(DOMAIN list)
         /\ Member(map, list, n) = Document(Index(DOMAIN list)[n])
  BY MemberIs

LEMMA InTheFolder ==
  ASSUME NEW map, NEW list, IsList(list), NEW folder
  PROVE  /\ DOMAIN FolderDocs(map, list, folder) \subseteq Docs
         /\ folder = Root => DOMAIN FolderDocs(map, list, folder) = DOMAIN list
  <1>1. Root # Unsorted /\ Root[1] # "tag"
    BY DEF Root, Unsorted
  <1>2. DOMAIN list \subseteq Docs
    BY DEF IsList
  <1>3. QED
    BY <1>1, <1>2, FolderDocsIs

LEMMA ListKeeps ==
  ASSUME IInv, List
  PROVE  IInv'
  <1>1. /\ pc = "route" /\ req.kind = "list" /\ Answer([kind |-> "listing"])
        /\ UNCHANGED <<docs, tagName, edits>>
        /\ at # Root \/ req.folder = Root
    BY DEF List, Here, paperless
  <1> DEFINE r == [kind |-> "listing"]
             Ids(map) == DOMAIN FolderDocs(map, loaded, at)
             Shown(map) ==
               IF at = Root
                 THEN [n \in MemberNames(map, loaded) |-> Member(map, loaded, n)]
                 ELSE [n \in DOMAIN Index(Ids(map)) |-> Document(Index(Ids(map))[n])]
             Kept(map) == [kind |-> "listing", folder |-> req.folder, index |-> Shown(map),
                           ids |-> Ids(map)]
  <1>2. PICK map \in Maps : FolderMap(map) /\ memory' = Kept(map)
    BY DEF List
  <1>3. /\ known' \in {known, NoMap, tagName}
        /\ known' = NoMap \/ known' \in Maps
    BY <1>2, FolderMapIs
  <1> DEFINE index == Shown(map)
             ids == Ids(map)
  <1>4. /\ memory'.kind = "listing" /\ memory'.folder = req.folder
        /\ memory'.index = index /\ memory'.ids = ids
    BY <1>2
  <1>5. IsList(loaded)
    BY DEF IInv, TypeOK
  <1>6. ids \subseteq Docs /\ (at = Root => ids = DOMAIN loaded)
    BY <1>5, InTheFolder
  <1>7. at # Root => req.folder # Root
    BY <1>1 DEF IInv, RequestSound
  <1>8. ASSUME NEW n \in DOMAIN index, index[n][1] = "document"
        PROVE  /\ n \in DOMAIN Index(ids) /\ index[n] = Document(Index(ids)[n])
               /\ req.folder = Root => ~TagFolders /\ Fixed(n) = Missing
    <2>1. CASE at = Root
      <3>1. n \in MemberNames(map, loaded) /\ index[n] = Member(map, loaded, n)
        BY <2>1
      <3>2. Member(map, loaded, n)[1] = "document"
        BY <1>8, <3>1
      <3>3. /\ ~TagFolders /\ Fixed(n) = Missing /\ n \in DOMAIN Index(DOMAIN loaded)
            /\ Member(map, loaded, n) = Document(Index(DOMAIN loaded)[n])
        BY <1>5, <3>1, <3>2, RootLists
      <3> HIDE DEF index, ids
      <3>4. QED
        BY <1>6, <2>1, <3>1, <3>3
    <2>2. CASE at # Root
      BY <1>7, <2>2
    <2>3. QED
      BY <2>1, <2>2
  <1> HIDE DEF index, ids, r
  <1>9. ListingSound'
    BY <1>4, <1>6, <1>8 DEF ListingSound
  <1>10. WalkSound' /\ QuietSound'
    BY <1>4 DEF WalkSound, QuietSound
  <1>11. /\ RequestSound' /\ reply' = r /\ pc' = "idle" /\ req' = Nothing
         /\ req'.kind = "nothing" /\ at' = Root /\ hits' \in Seq(Docs)
         /\ filter' \in [include : SUBSET Tags, exclude : SUBSET Tags]
         /\ IsList(loaded')
    <2>1. Answer(r)
      BY <1>1 DEF r
    <2>2. QED
      BY <2>1, AnswerIs
  <1>12. r.kind = "listing"
    BY DEF r
  <1>13. NamesOpenTheirOwn' /\ ServesWhatItShowed'
    BY <1>11, <1>12, NothingTold
  <1>14. TypeOK' /\ NamesDiffer(tagName')
    BY <1>1, <1>3, <1>4, <1>11, <1>12 DEF IInv, TypeOK
  <1>15. QED
    BY <1>9, <1>10, <1>11, <1>13, <1>14 DEF IInv

LEMMA NamedInTheRoot ==
  ASSUME NEW map, NEW list, IsList(list), NEW name, Fixed(name) = Missing, ~TagFolders
  PROVE  Member(map, list, name) =
           (IF name \in DOMAIN Index(DOMAIN list) THEN Document(Index(DOMAIN list)[name])
            ELSE Missing)
  BY MemberIs

\* What is told of an open, from what the folder holds now.
LEMMA ToldOfTheirOwn ==
  ASSUME IInv, req.kind = "open", NEW new \in SUBSET Docs, UNCHANGED memory,
         reply'.ids = new, reply'.name = req.name,
         req.name \in DOMAIN Index(new) =>
           reply'.kind = "opened" /\ reply'.doc = Index(new)[req.name],
         req.name \notin DOMAIN Index(new) => reply'.kind = "missing"
  PROVE  NamesOpenTheirOwn'
  <1> DEFINE n == req.name
             old == memory.ids
             d == Index(old)[n]
  <1>1. /\ memory.kind = "listing" /\ n \in DOMAIN memory.index
        /\ memory.index[n][1] = "document"
    BY DEF IInv, RequestSound
  <1>2. /\ old \subseteq Docs /\ n \in DOMAIN Index(old)
        /\ memory.index[n] = Document(d)
    BY <1>1 DEF IInv, ListingSound
  <1>3. memory.index[n][2] = d
    BY <1>2, FixedIs
  <1> HIDE DEF n, old
  <1>4. CASE \E e \in new : Hides(e, d)
    BY <1>3, <1>4 DEF NamesOpenTheirOwn, n
  <1>5. CASE \A e \in new : ~Hides(e, d)
    <2>1. /\ OnlyLaterCame(old, new) => n \in DOMAIN Index(new) /\ Index(new)[n] = d
          /\ n \in DOMAIN Index(new) =>
               BaseName[Index(new)[n]] = BaseName[d] \/ Hides(d, Index(new)[n])
      BY <1>2, <1>5, NamesOpen
    <2>2. memory'.index[reply'.name][2] = d /\ memory'.ids = old /\ reply'.ids = new
      BY <1>3 DEF n, old
    <2>3. /\ n \in DOMAIN Index(new) => reply'.kind = "opened" /\ reply'.doc = Index(new)[n]
          /\ n \notin DOMAIN Index(new) => reply'.kind = "missing"
      BY DEF n
    <2> HIDE DEF d
    <2>4. QED
      BY <2>1, <2>2, <2>3 DEF NamesOpenTheirOwn
  <1>6. QED
    BY <1>4, <1>5

LEMMA OpenKeeps ==
  ASSUME IInv, Open
  PROVE  IInv'
  <1> DEFINE Ids(map) == DOMAIN FolderDocs(map, loaded, at)
             Found(map) ==
               IF at = Root THEN Member(map, loaded, req.name)
               ELSE IF req.name \in DOMAIN Index(Ids(map))
                      THEN Document(Index(Ids(map))[req.name])
               ELSE Missing
             Yes(map) == [kind |-> "opened", doc |-> Found(map)[2], name |-> req.name,
                          ids |-> Ids(map)]
             No(map) == [kind |-> "missing", name |-> req.name, ids |-> Ids(map)]
             done == ResolveTags(tagName, DoneNames)
  <1>1. /\ pc = "route" /\ req.kind = "open" /\ UNCHANGED <<tagName, edits, memory>>
        /\ at # Root \/ req.folder = Root
    BY DEF Open, Here
  <1>2. PICK map \in Maps :
           /\ FolderMap(map)
           /\ IF Found(map)[1] = "document" THEN Answer(Yes(map)) ELSE Answer(No(map))
           /\ docs' = IF req.move /\ Found(map)[1] = "document"
                        THEN [docs EXCEPT ![Found(map)[2]] =
                                IF at = Done THEN @ \ done ELSE @ \cup done]
                        ELSE docs
    BY DEF Open
  <1>3. /\ known' \in {known, NoMap, tagName}
        /\ known' = NoMap \/ known' \in Maps
    BY <1>2, FolderMapIs
  <1> DEFINE ids == Ids(map)
             found == Found(map)
             r == IF found[1] = "document" THEN Yes(map) ELSE No(map)
  <1>4. IsList(docs')
    <2>1. IsList(docs) /\ done \subseteq Tags
      BY DEF IInv, TypeOK, ResolveTags
    <2> HIDE DEF done, found, Found
    <2>2. DOMAIN docs' = DOMAIN docs
      BY <1>2
    <2>3. ASSUME NEW d \in DOMAIN docs
          PROVE  docs'[d] \subseteq Tags
      <3>1. docs[d] \subseteq Tags
        BY <2>1 DEF IsList
      <3>2. docs'[d] \in {docs[d], docs[d] \ done, docs[d] \cup done}
        BY <1>2
      <3>3. QED
        BY <2>1, <3>1, <3>2
    <2>4. QED
      BY <2>1, <2>2, <2>3 DEF IsList
  <1>5. /\ RequestSound' /\ reply' = r /\ pc' = "idle" /\ req' = Nothing
        /\ req'.kind = "nothing" /\ at' = Root /\ hits' \in Seq(Docs)
        /\ filter' \in [include : SUBSET Tags, exclude : SUBSET Tags]
        /\ IsList(loaded')
    <2>1. Answer(r)
      <3>1. CASE found[1] = "document"
        BY <1>2, <3>1
      <3>2. CASE found[1] # "document"
        BY <1>2, <3>2
      <3>3. QED
        BY <3>1, <3>2
    <2> HIDE DEF r
    <2>2. QED
      BY <2>1, AnswerIs
  <1>6. ids \subseteq Docs /\ (at = Root => ids = DOMAIN loaded)
    <2>1. IsList(loaded)
      BY DEF IInv, TypeOK
    <2>2. QED
      BY <2>1, InTheFolder
  <1>7. found = IF req.name \in DOMAIN Index(ids) THEN Document(Index(ids)[req.name]) ELSE Missing
    <2>1. CASE at = Root
      <3>1. req.folder = Root
        BY <1>1, <2>1
      <3>2. Fixed(req.name) = Missing /\ ~TagFolders
        BY <1>1, <3>1 DEF IInv, RequestSound, ListingSound
      <3>3. IsList(loaded)
        BY DEF IInv, TypeOK
      <3>4. Member(map, loaded, req.name) =
              (IF req.name \in DOMAIN Index(DOMAIN loaded)
                 THEN Document(Index(DOMAIN loaded)[req.name]) ELSE Missing)
        BY <3>2, <3>3, NamedInTheRoot
      <3>5. found = Member(map, loaded, req.name)
        BY <2>1
      <3> HIDE DEF found, ids
      <3>6. QED
        BY <1>6, <2>1, <3>4, <3>5
    <2>2. CASE at # Root
      BY <2>2
    <2>3. QED
      BY <2>1, <2>2
  <1>8. /\ found[1] = "document" => r.kind = "opened" /\ r.doc = found[2]
        /\ found[1] # "document" => r.kind = "missing"
        /\ r.name = req.name /\ r.ids = ids /\ r.kind \in {"opened", "missing"}
    <2>1. CASE found[1] = "document"
      BY <2>1
    <2>2. CASE found[1] # "document"
      BY <2>2
    <2>3. QED
      BY <2>1, <2>2
  <1> HIDE DEF r, found, ids
  <1>9. /\ req.name \in DOMAIN Index(ids) =>
             found[1] = "document" /\ found[2] = Index(ids)[req.name]
        /\ req.name \notin DOMAIN Index(ids) => found[1] # "document"
    BY <1>7, FixedIs
  <1>10. NamesOpenTheirOwn'
    BY <1>1, <1>5, <1>6, <1>8, <1>9, ToldOfTheirOwn
  <1>11. memory.kind = "listing"
    BY <1>1 DEF IInv, RequestSound
  <1>12. WalkSound' /\ QuietSound' /\ ListingSound' /\ ServesWhatItShowed'
    BY <1>1, <1>11, MemoryKept DEF WalkSound, QuietSound, ServesWhatItShowed
  <1>13. TypeOK' /\ NamesDiffer(tagName')
    BY <1>1, <1>3, <1>4, <1>5, <1>8 DEF IInv, TypeOK
  <1>14. QED
    BY <1>5, <1>10, <1>12, <1>13 DEF IInv

-----------------------------------------------------------------------------
(* Pages of a feed.                                                         *)

\* An entry of the list that the page is for is on it.
LEMMA OnThePage ==
  ASSUME NEW L \in Seq(Docs), NEW p \in Nat \ {0}, NEW j \in DOMAIN L,
         j > (p - 1) * PageSize, j <= p * PageSize
  PROVE  \E i \in DOMAIN PageOf(L, p) : PageOf(L, p)[i] = L[j]
  <1> DEFINE lo == (p - 1) * PageSize
             up == p * PageSize
             hi == IF up <= Len(L) THEN up ELSE Len(L)
  <1>1. lo \in Nat /\ up \in Nat
    BY Product
  <1>2. /\ DOMAIN PageOf(L, p) = 1 .. (hi - lo)
        /\ \A i \in 1 .. (hi - lo) : PageOf(L, p)[i] = L[lo + i]
    BY PageIs
  <1>3. j \in 1 .. Len(L) /\ j > lo /\ j <= up
    BY LenProperties
  <1> HIDE DEF lo, up
  <1>4. j - lo \in 1 .. (hi - lo) /\ lo + (j - lo) = j
    BY <1>1, <1>3, LenProperties
  <1>5. QED
    BY <1>2, <1>4

\* A page past the end is empty, and the others end the list or leave more.
LEMMA EmptyPage ==
  ASSUME NEW L \in Seq(Docs), NEW p \in Nat \ {0}, PageOf(L, p) = <<>>
  PROVE  Len(L) <= p * PageSize
  <1> DEFINE lo == (p - 1) * PageSize
             up == p * PageSize
             hi == IF up <= Len(L) THEN up ELSE Len(L)
  <1>1. lo \in Nat /\ up \in Nat /\ up = lo + PageSize /\ PageSize \in Nat \ {0}
    BY Product
  <1>2. 1 .. (hi - lo) = {}
    <2>1. DOMAIN PageOf(L, p) = 1 .. (hi - lo)
      BY PageIs
    <2>2. DOMAIN PageOf(L, p) = {}
      OBVIOUS
    <2>3. QED
      BY <2>1, <2>2
  <1> HIDE DEF lo, up
  <1>3. Len(L) \in Nat
    BY LenProperties
  <1>4. ~(up <= Len(L))
    <2>1. up <= Len(L) => 1 \in 1 .. (hi - lo)
      BY <1>1, <1>3
    <2> HIDE DEF hi
    <2>2. QED
      BY <1>2, <2>1
  <1>5. Len(L) <= up
    BY <1>1, <1>3, <1>4
  <1>6. QED
    BY <1>5 DEF up

\* A page goes on where the one before has ended.
LEMMA PageGoesOn ==
  ASSUME NEW L \in Seq(Docs), NEW p \in Nat \ {0}
  PROVE  LET before == Min({(p - 1) * PageSize, Len(L)})
             after == Min({p * PageSize, Len(L)})
             page == PageOf(L, p)
         IN  /\ before + Cardinality(DOMAIN page) = after
             /\ {L[i] : i \in 1 .. before} \cup {page[i] : i \in DOMAIN page}
                  = {L[i] : i \in 1 .. after}
             /\ p = 1 => before = 0
  <1> DEFINE lo == (p - 1) * PageSize
             up == p * PageSize
             n == Len(L)
             hi == IF up <= n THEN up ELSE n
             before == Min({lo, n})
             after == Min({up, n})
             page == PageOf(L, p)
  <1>1. lo \in Nat /\ up \in Nat /\ up = lo + PageSize /\ PageSize \in Nat \ {0}
    BY Product
  <1>2. n \in Nat /\ DOMAIN L = 1 .. n
    BY LenProperties
  <1>3. /\ DOMAIN page = 1 .. (hi - lo)
        /\ \A i \in 1 .. (hi - lo) : page[i] = L[lo + i]
    BY PageIs
  <1>4. p = 1 => lo = 0
    BY Product
  <1> HIDE DEF lo, up, n, page
  <1>5. before = (IF lo <= n THEN lo ELSE n) /\ after = hi
    BY <1>1, <1>2, MinMax
  <1> HIDE DEF before, after
  <1>6. before + Cardinality(DOMAIN page) = after
    <2>1. CASE lo <= n
      <3>1. hi - lo \in Nat /\ hi \in Nat
        BY <1>1, <1>2, <2>1
      <3>2. Cardinality(1 .. (hi - lo)) = hi - lo
        BY <3>1, FS_Interval
      <3> HIDE DEF hi
      <3>3. QED
        BY <1>1, <1>3, <1>5, <2>1, <3>1, <3>2
    <2>2. CASE n < lo
      <3>1. 1 .. (hi - lo) = {} /\ hi = n
        BY <1>1, <1>2, <2>2
      <3>2. Cardinality(DOMAIN page) = 0
        BY <1>3, <3>1, FS_EmptySet
      <3>3. QED
        BY <1>1, <1>2, <1>5, <2>2, <3>1, <3>2
    <2>3. QED
      BY <1>1, <1>2, <2>1, <2>2
  <1>7. {L[i] : i \in 1 .. before} \cup {page[i] : i \in DOMAIN page} = {L[i] : i \in 1 .. after}
    <2>1. ASSUME NEW i \in 1 .. before
          PROVE  i \in 1 .. after
      BY <1>1, <1>2, <1>5
    <2>2. ASSUME NEW i \in 1 .. (hi - lo)
          PROVE  lo + i \in 1 .. after
      BY <1>1, <1>2, <1>5
    <2>3. ASSUME NEW i \in 1 .. after, i \notin 1 .. before
          PROVE  i - lo \in 1 .. (hi - lo) /\ lo + (i - lo) = i
      BY <1>1, <1>2, <1>5, <2>3
    <2>4. ASSUME NEW x \in {L[i] : i \in 1 .. before} \cup {page[i] : i \in DOMAIN page}
          PROVE  x \in {L[i] : i \in 1 .. after}
      BY <1>3, <2>1, <2>2
    <2>5. ASSUME NEW i \in 1 .. after
          PROVE  L[i] \in {L[j] : j \in 1 .. before} \cup {page[j] : j \in DOMAIN page}
      <3>1. CASE i \in 1 .. before
        BY <3>1
      <3>2. CASE i \notin 1 .. before
        <4>1. i - lo \in DOMAIN page /\ page[i - lo] = L[i]
          BY <1>3, <2>3, <3>2
        <4>2. QED
          BY <4>1
      <3>3. QED
        BY <3>1, <3>2
    <2>6. QED
      BY <2>4, <2>5
  <1>8. p = 1 => before = 0
    BY <1>1, <1>2, <1>4, <1>5
  <1>9. QED
    BY <1>6, <1>7, <1>8 DEF lo, up, n, before, after, page

-----------------------------------------------------------------------------
(* Feeds.                                                                   *)

\* What a page has of the documents that were fetched.
Entries(list) == {i \in DOMAIN PageOf(list, req.page) : PageOf(list, req.page)[i] \in DOMAIN loaded}
OnPage(list) == {PageOf(list, req.page)[i] : i \in Entries(list)}

LEMMA FeedListIs ==
  ASSUME IInv, pc = "route", req.kind = "feed", NEW map
  PROVE  /\ Ranked(req.key, FeedList(map))
         /\ req.key # Search =>
              /\ FeedList(map) = NewestFirst(FolderDocs(map, loaded, req.key))
              /\ Range(FeedList(map)) \subseteq DOMAIN loaded
              /\ Len(FeedList(map)) = Cardinality(DOMAIN FolderDocs(map, loaded, req.key))
  <1>1. CASE req.key = Search
    BY <1>1 DEF IInv, RequestSound, FeedList
  <1>2. CASE req.key # Search
    <2> DEFINE here == FolderDocs(map, loaded, req.key)
    <2>1. DOMAIN here \subseteq DOMAIN loaded /\ DOMAIN loaded \subseteq Docs
      BY FolderDocsIs DEF IInv, TypeOK, IsList
    <2>2. FeedList(map) = NewestFirst(here)
      BY <1>2 DEF FeedList
    <2> HIDE DEF here
    <2>3. /\ Ranked(req.key, NewestFirst(here)) /\ Range(NewestFirst(here)) = DOMAIN here
          /\ Len(NewestFirst(here)) = Cardinality(DOMAIN here)
      BY <1>2, <2>1, NewestFirstIs
    <2>4. QED
      BY <1>2, <2>1, <2>2, <2>3 DEF here
  <1>3. QED
    BY <1>1, <1>2

\* What is owed has been shown, is on this page, or is on a page to come.
LEMMA OwedIsToCome ==
  ASSUME IInv, req.kind = "feed", NEW list, Ranked(req.key, list),
         NEW j \in DOMAIN list, list[j] \in DOMAIN loaded, j > (req.page - 1) * PageSize
  PROVE  \/ list[j] \in OnPage(list)
         \/ j > req.page * PageSize
  <1>1. req.page \in Nat \ {0} /\ list \in Seq(Docs)
    BY DEF IInv, RequestSound, Ranked
  <1> DEFINE p == req.page
  <1> HIDE DEF p
  <1>2. req.page * PageSize \in Nat /\ j \in Nat
    <2>1. p * PageSize \in Nat
      <3>1. p \in Nat \ {0}
        BY <1>1 DEF p
      <3>2. QED
        BY <3>1, Product
    <2>2. j \in Nat
      BY <1>1, LenProperties
    <2>3. QED
      BY <2>1, <2>2 DEF p
  <1>3. CASE j <= req.page * PageSize
    <2>1. PICK i \in DOMAIN PageOf(list, req.page) : PageOf(list, req.page)[i] = list[j]
      BY <1>1, <1>3, OnThePage
    <2>2. QED
      BY <2>1 DEF Entries, OnPage
  <1>4. QED
    BY <1>2, <1>3

LEMMA WalkStaysSteady ==
  ASSUME IInv, req.kind = "feed", NEW list, Ranked(req.key, list),
         req.page # 1 => memory.steady /\ Range(memory.list) \subseteq Range(list),
         NEW d \in DOMAIN loaded,
         d \in IF req.page = 1 THEN Range(list) ELSE memory.owed
  PROVE  \/ d \in (IF req.page = 1 THEN {} ELSE memory.shown) \cup OnPage(list)
         \/ \E i \in DOMAIN list : i > req.page * PageSize /\ list[i] = d
  <1>1. req.page \in Nat \ {0} /\ list \in Seq(Docs)
    BY DEF IInv, RequestSound, Ranked
  <1>2. CASE req.page = 1
    <2>1. PICK j \in DOMAIN list : list[j] = d
      BY <1>2 DEF Range
    <2>2. (req.page - 1) * PageSize = 0 /\ j > 0
      BY <1>1, <1>2, Product, LenProperties
    <2>3. j > (req.page - 1) * PageSize
      BY <2>2
    <2>4. QED
      BY <2>1, <2>3, OwedIsToCome
  <1>3. CASE req.page # 1
    <2>1. /\ memory.kind = "walk" /\ req.key = memory.key /\ req.page = memory.page + 1
          /\ memory.page \in Nat \ {0} /\ Ranked(req.key, memory.list)
      BY <1>3 DEF IInv, RequestSound, WalkSound
    <2>2. CASE d \in memory.shown
      BY <1>3, <2>2
    <2>3. CASE d \notin memory.shown
      <3>1. PICK i \in DOMAIN memory.list : i > memory.page * PageSize /\ memory.list[i] = d
        BY <1>3, <2>1, <2>3 DEF IInv, WalkSound
      <3>2. PICK j \in DOMAIN list : list[j] = memory.list[i] /\ i <= j
        BY <1>3, <2>1, FurtherBack
      <3>3. i \in Nat /\ j \in Nat
        BY <1>1, <2>1, LenProperties DEF Ranked
      <3>4. memory.page = req.page - 1 /\ memory.page * PageSize \in Nat
        <4> DEFINE p == memory.page
        <4> HIDE DEF p
        <4>1. p \in Nat \ {0} /\ p * PageSize \in Nat
          BY <2>1, Product DEF p
        <4>2. QED
          BY <2>1, <4>1 DEF p
      <3>5. (req.page - 1) * PageSize = memory.page * PageSize
        BY <3>4
      <3>6. j > memory.page * PageSize
        BY <3>1, <3>2, <3>3, <3>4
      <3>7. j > (req.page - 1) * PageSize
        BY <3>5, <3>6
      <3>8. QED
        BY <3>1, <3>2, <3>7, OwedIsToCome
    <2>4. QED
      BY <2>2, <2>3
  <1>4. QED
    BY <1>2, <1>3

LEMMA FacetKeys ==
  ASSUME NEW map, NEW list, IsList(list)
  PROVE  DOMAIN Facets(map, list) \subseteq Keys \ {Search}
  <1>1. TopicTags(map, list) \subseteq Tags
    BY Topics
  <1>2. Root # Search /\ Unsorted # Search /\ \A t : TagFolder(t) # Search
    BY DEF Root, Unsorted, Search, TagFolder
  <1>3. DOMAIN Facets(map, list) \subseteq {Root, Unsorted} \cup {TagFolder(t) : t \in TopicTags(map, list)}
    BY DEF Facets
  <1>4. QED
    BY <1>1, <1>2, <1>3 DEF Keys

LEMMA NothingLeft ==
  ASSUME NEW list \in Seq(Docs), NEW p \in Nat \ {0}, NEW total,
         total = Len(list) \/ (total = 0 /\ PageOf(list, p) = <<>>), ~HasNext(total, p)
  PROVE  Len(list) <= p * PageSize
  <1>1. Len(list) \in Nat /\ p * PageSize \in Nat
    BY LenProperties, Product
  <1>2. CASE total = Len(list)
    BY <1>1, <1>2, HasNextIs
  <1>3. CASE PageOf(list, p) = <<>>
    BY <1>3, EmptyPage
  <1>4. QED
    BY <1>2, <1>3

\* The step that adds a page to the walk.
TurnPage(map, total) ==
    LET list == FeedList(map)
        first == req.page = 1
        kept == Range(memory.list) \subseteq Range(list)
    IN  memory' =
          [kind |-> "walk", key |-> req.key, page |-> req.page, list |-> list,
           count |-> req.count, next |-> HasNext(total, req.page),
           shown |-> (IF first THEN {} ELSE memory.shown) \cup OnPage(list),
           entries |-> (IF first THEN 0 ELSE memory.entries) + Cardinality(Entries(list)),
           owed |-> IF first THEN Range(list) \cap DOMAIN loaded ELSE memory.owed \cap DOMAIN loaded,
           steady |-> first \/ (memory.steady /\ kept),
           facets |-> IF req.count = NoCount THEN Facets(map, loaded) ELSE memory.facets,
           quiet |-> IF first /\ req.count = NoCount
                       THEN map = tagName /\ loaded = Fetched(Root)
                       ELSE memory.quiet]

LEMMA FeedTurnsPage ==
  ASSUME Feed
  PROVE  /\ pc = "route" /\ req.kind = "feed" /\ UNCHANGED <<docs, tagName, edits>>
         /\ \E map \in Maps : \E total :
              /\ ReadMap(map)
              /\ \/ NotFound /\ UNCHANGED memory
                 \/ /\ Answer([kind |-> "feed"])
                    /\ \/ total = Len(FeedList(map))
                       \/ total = 0 /\ PageOf(FeedList(map), req.page) = <<>>
                    /\ TurnPage(map, total)
  <1>1. /\ pc = "route" /\ req.kind = "feed" /\ UNCHANGED <<docs, tagName, edits>>
    BY DEF Feed, paperless
  <1> DEFINE Total(map) == IF req.key = Search /\ PageOf(FeedList(map), req.page) = <<>> THEN 0
                           ELSE Len(FeedList(map))
  <1>2. PICK map \in Maps :
           /\ ReadMap(map)
           /\ \/ NotFound /\ UNCHANGED memory
              \/ Answer([kind |-> "feed"]) /\ TurnPage(map, Total(map))
    BY DEF Feed, TurnPage, OnPage, Entries
  <1>3. \/ Total(map) = Len(FeedList(map))
        \/ Total(map) = 0 /\ PageOf(FeedList(map), req.page) = <<>>
    OBVIOUS
  <1> HIDE DEF Total
  <1>4. QED
    BY <1>1, <1>2, <1>3

LEMMA TurnPageIs ==
  ASSUME NEW map, NEW total, TurnPage(map, total)
  PROVE  /\ DOMAIN memory' = WalkFields /\ memory'.kind = "walk"
         /\ memory'.key = req.key /\ memory'.page = req.page /\ memory'.list = FeedList(map)
         /\ memory'.count = req.count /\ memory'.next = HasNext(total, req.page)
         /\ memory'.shown = (IF req.page = 1 THEN {} ELSE memory.shown) \cup OnPage(FeedList(map))
         /\ memory'.entries = (IF req.page = 1 THEN 0 ELSE memory.entries)
                                + Cardinality(Entries(FeedList(map)))
         /\ memory'.owed = (IF req.page = 1 THEN Range(FeedList(map)) ELSE memory.owed)
                             \cap DOMAIN loaded
         /\ memory'.facets = IF req.count = NoCount THEN Facets(map, loaded) ELSE memory.facets
         /\ memory'.steady \in BOOLEAN
         /\ memory'.steady => req.page = 1 \/ (memory.steady /\ Range(memory.list) \subseteq Range(FeedList(map)))
         /\ req.page = 1 /\ req.count = NoCount =>
              /\ memory'.quiet \in BOOLEAN
              /\ memory'.quiet => map = tagName /\ loaded = Fetched(Root)
         /\ ~(req.page = 1 /\ req.count = NoCount) => memory'.quiet = memory.quiet
  <1> DEFINE list == FeedList(map)
             first == req.page = 1
             next == HasNext(total, req.page)
             shown == (IF first THEN {} ELSE memory.shown) \cup OnPage(list)
             entries == (IF first THEN 0 ELSE memory.entries) + Cardinality(Entries(list))
             owed == IF first THEN Range(list) \cap DOMAIN loaded ELSE memory.owed \cap DOMAIN loaded
             steady == first \/ (memory.steady /\ Range(memory.list) \subseteq Range(list))
             facets == IF req.count = NoCount THEN Facets(map, loaded) ELSE memory.facets
             quiet == IF first /\ req.count = NoCount
                        THEN map = tagName /\ loaded = Fetched(Root) ELSE memory.quiet
  <1>1. memory' = [kind |-> "walk", key |-> req.key, page |-> req.page, list |-> list,
                   count |-> req.count, next |-> next, shown |-> shown, entries |-> entries,
                   owed |-> owed, steady |-> steady, facets |-> facets, quiet |-> quiet]
    BY DEF TurnPage
  <1>2. /\ owed = (IF first THEN Range(list) ELSE memory.owed) \cap DOMAIN loaded
        /\ steady \in BOOLEAN
        /\ steady => first \/ (memory.steady /\ Range(memory.list) \subseteq Range(list))
    OBVIOUS
  <1>3. /\ first /\ req.count = NoCount =>
             quiet \in BOOLEAN /\ (quiet => map = tagName /\ loaded = Fetched(Root))
        /\ ~(first /\ req.count = NoCount) => quiet = memory.quiet
    OBVIOUS
  <1> HIDE DEF next, shown, entries, owed, steady, facets, quiet
  <1>4. /\ DOMAIN memory' = WalkFields /\ memory'.kind = "walk" /\ memory'.key = req.key
        /\ memory'.page = req.page /\ memory'.list = list /\ memory'.count = req.count
        /\ memory'.next = next /\ memory'.shown = shown /\ memory'.entries = entries
        /\ memory'.owed = owed /\ memory'.steady = steady /\ memory'.facets = facets
        /\ memory'.quiet = quiet
    BY <1>1 DEF WalkFields
  <1>5. QED
    BY <1>2, <1>3, <1>4 DEF next, shown, entries, facets

LEMMA WalkKept ==
  ASSUME IInv, pc = "route", req.kind = "feed", NEW map, NEW total,
         \/ total = Len(FeedList(map))
         \/ total = 0 /\ PageOf(FeedList(map), req.page) = <<>>,
         TurnPage(map, total)
  PROVE  WalkSound'
  <1> DEFINE list == FeedList(map)
  <1>1. /\ DOMAIN memory' = WalkFields /\ memory'.kind = "walk"
        /\ memory'.key = req.key /\ memory'.page = req.page /\ memory'.list = list
        /\ memory'.next = HasNext(total, req.page) /\ memory'.steady \in BOOLEAN
        /\ memory'.shown = (IF req.page = 1 THEN {} ELSE memory.shown) \cup OnPage(list)
        /\ memory'.owed = (IF req.page = 1 THEN Range(list) ELSE memory.owed) \cap DOMAIN loaded
        /\ memory'.facets = IF req.count = NoCount THEN Facets(map, loaded) ELSE memory.facets
    BY TurnPageIs
  <1>2. /\ memory'.steady =>
             req.page = 1 \/ (memory.steady /\ Range(memory.list) \subseteq Range(list))
        /\ req.page = 1 /\ req.count = NoCount => memory'.quiet \in BOOLEAN
        /\ ~(req.page = 1 /\ req.count = NoCount) => memory'.quiet = memory.quiet
    BY TurnPageIs
  <1>3. total = Len(list) \/ (total = 0 /\ PageOf(list, req.page) = <<>>)
    OBVIOUS
  <1>4. Ranked(req.key, list)
    BY FeedListIs
  <1> HIDE DEF list
  <1>5. req.page \in Nat \ {0} /\ req.key \in Keys /\ list \in Seq(Docs)
    BY <1>4 DEF IInv, RequestSound, Ranked
  <1>6. total \in Nat
    BY <1>3, <1>5, LenProperties
  <1>7. memory'.next \in BOOLEAN /\ (~memory'.next => Len(list) <= req.page * PageSize)
    <2>1. HasNext(total, req.page) \in BOOLEAN
      BY <1>5, <1>6, HasNextIs
    <2>2. ~HasNext(total, req.page) => Len(list) <= req.page * PageSize
      BY <1>3, <1>5, NothingLeft
    <2>3. QED
      BY <1>1, <2>1, <2>2
  <1>8. ~(req.page = 1 /\ req.count = NoCount) => memory.kind = "walk"
    BY DEF IInv, RequestSound
  <1>9. memory'.quiet \in BOOLEAN
    <2>1. memory.kind = "walk" => memory.quiet \in BOOLEAN
      BY DEF IInv, WalkSound
    <2>2. QED
      BY <1>2, <1>8, <2>1
  <1>10. DOMAIN memory'.facets \subseteq Keys \ {Search}
    <2>1. IsList(loaded)
      BY DEF IInv, TypeOK
    <2>2. DOMAIN Facets(map, loaded) \subseteq Keys \ {Search}
      BY <2>1, FacetKeys
    <2>3. memory.kind = "walk" => DOMAIN memory.facets \subseteq Keys \ {Search}
      BY DEF IInv, WalkSound
    <2>4. CASE req.count = NoCount
      <3>1. memory'.facets = Facets(map, loaded)
        BY <1>1, <2>4
      <3>2. QED
        BY <2>2, <3>1
    <2>5. CASE req.count # NoCount
      <3>1. memory'.facets = memory.facets
        BY <1>1, <2>5
      <3>2. QED
        BY <1>8, <2>3, <2>5, <3>1
    <2>6. QED
      BY <2>4, <2>5
  <1>11. ASSUME memory'.steady, NEW d \in memory'.owed
         PROVE  \/ d \in memory'.shown
                \/ \E i \in DOMAIN list : i > req.page * PageSize /\ list[i] = d
    <2>1. /\ d \in DOMAIN loaded
          /\ d \in IF req.page = 1 THEN Range(list) ELSE memory.owed
      BY <1>1, <1>11
    <2>2. req.page # 1 => memory.steady /\ Range(memory.list) \subseteq Range(list)
      BY <1>2, <1>11
    <2>3. \/ d \in (IF req.page = 1 THEN {} ELSE memory.shown) \cup OnPage(list)
          \/ \E i \in DOMAIN list : i > req.page * PageSize /\ list[i] = d
      BY <1>4, <2>1, <2>2, WalkStaysSteady
    <2>4. QED
      BY <1>1, <2>3
  <1>12. QED
    BY <1>1, <1>4, <1>5, <1>7, <1>9, <1>10, <1>11, Zenon DEF WalkSound

\* While nothing changes, a page of a facet's feed has all of its entries.
LEMMA QuietPage ==
  ASSUME IInv, req.kind = "feed", NEW list, Ranked(req.key, list),
         Range(list) \subseteq DOMAIN loaded
  PROVE  Entries(list) = DOMAIN PageOf(list, req.page)
  <1>1. req.page \in Nat \ {0} /\ list \in Seq(Docs)
    BY DEF IInv, RequestSound, Ranked
  <1> DEFINE p == req.page
             page == PageOf(list, p)
             lo == (p - 1) * PageSize
             hi == IF p * PageSize <= Len(list) THEN p * PageSize ELSE Len(list)
  <1>2. /\ DOMAIN page = 1 .. (hi - lo)
        /\ \A i \in 1 .. (hi - lo) : page[i] = list[lo + i] /\ lo + i \in 1 .. hi
    BY <1>1, PageIs
  <1>3. p * PageSize \in Nat /\ Len(list) \in Nat /\ DOMAIN list = 1 .. Len(list)
    BY <1>1, Product, LenProperties
  <1>4. \A i \in 1 .. hi : i \in DOMAIN list
    BY <1>3
  <1> HIDE DEF hi, lo, page
  <1>5. ASSUME NEW i \in DOMAIN page
        PROVE  page[i] \in DOMAIN loaded
    <2>1. page[i] = list[lo + i] /\ lo + i \in DOMAIN list
      BY <1>2, <1>4
    <2>2. page[i] \in Range(list)
      BY <2>1 DEF Range
    <2>3. QED
      BY <2>2
  <1>6. QED
    BY <1>5 DEF Entries, page

LEMMA FacetWalkKept ==
  ASSUME IInv, pc = "route", req.kind = "feed", memory.kind = "walk", memory.quiet,
         loaded = Fetched(Root), req.count # NoCount,
         NEW list, list = FeedList(tagName),
         memory'.shown = (IF req.page = 1 THEN {} ELSE memory.shown) \cup OnPage(list),
         memory'.entries = (IF req.page = 1 THEN 0 ELSE memory.entries) + Cardinality(Entries(list))
  PROVE  /\ req.key # Search
         /\ list = NewestFirst(FolderDocs(tagName, Fetched(Root), req.key))
         /\ req.count = Len(list)
         /\ memory'.entries = Min({req.page * PageSize, Len(list)})
         /\ memory'.shown = {list[i] : i \in 1 .. memory'.entries}
  <1>1. req.key # Search
    BY DEF IInv, RequestSound, WalkSound, QuietSound
  <1>2. /\ Ranked(req.key, list) /\ list = NewestFirst(FolderDocs(tagName, Fetched(Root), req.key))
        /\ Range(list) \subseteq DOMAIN loaded
        /\ Len(list) = Cardinality(DOMAIN FolderDocs(tagName, Fetched(Root), req.key))
    BY <1>1, FeedListIs
  <1>3. req.count = Len(list)
    <2>1. CASE req.page = 1
      <3>1. req.key \in DOMAIN memory.facets /\ req.count = memory.facets[req.key]
        BY <2>1 DEF IInv, RequestSound
      <3>2. memory.facets = Facets(tagName, Fetched(Root))
        BY DEF IInv, QuietSound
      <3>3. memory.facets[req.key] = Cardinality(DOMAIN FolderDocs(tagName, Fetched(Root), req.key))
        BY <3>1, <3>2 DEF Facets
      <3>4. QED
        BY <1>2, <3>1, <3>3
    <2>2. CASE req.page # 1
      <3>1. req.count = memory.count /\ req.key = memory.key
        BY <2>2 DEF IInv, RequestSound
      <3>2. /\ memory.list = NewestFirst(FolderDocs(tagName, Fetched(Root), memory.key))
            /\ memory.count = Len(memory.list)
        BY <3>1 DEF IInv, QuietSound
      <3>3. QED
        BY <1>2, <3>1, <3>2
    <2>3. QED
      BY <2>1, <2>2
  <1> DEFINE p == req.page
             page == PageOf(list, p)
             before == Min({(p - 1) * PageSize, Len(list)})
             after == Min({p * PageSize, Len(list)})
             n0 == IF p = 1 THEN 0 ELSE memory.entries
             s0 == IF p = 1 THEN {} ELSE memory.shown
  <1>4. p \in Nat \ {0} /\ list \in Seq(Docs)
    BY <1>2 DEF IInv, RequestSound, Ranked
  <1>5. Entries(list) = DOMAIN page /\ OnPage(list) = {page[i] : i \in DOMAIN page}
    <2>1. Entries(list) = DOMAIN page
      BY <1>2, QuietPage
    <2>2. QED
      BY <2>1 DEF OnPage
  <1>6. /\ before + Cardinality(DOMAIN page) = after
        /\ {list[i] : i \in 1 .. before} \cup {page[i] : i \in DOMAIN page}
             = {list[i] : i \in 1 .. after}
        /\ p = 1 => before = 0
    BY <1>4, PageGoesOn
  <1>7. n0 = before /\ s0 = {list[i] : i \in 1 .. before}
    <2>1. CASE p = 1
      <3>1. before = 0 /\ n0 = 0 /\ s0 = {}
        BY <1>6, <2>1
      <3> HIDE DEF before, n0, s0
      <3>2. QED
        BY <3>1
    <2>2. CASE p # 1
      <3>1. req.count = memory.count /\ req.key = memory.key /\ p = memory.page + 1
        BY <2>2 DEF IInv, RequestSound
      <3>2. /\ memory.list = NewestFirst(FolderDocs(tagName, Fetched(Root), memory.key))
            /\ memory.entries = Min({memory.page * PageSize, Len(memory.list)})
            /\ memory.shown = {memory.list[i] : i \in 1 .. memory.entries}
        BY <3>1 DEF IInv, QuietSound
      <3>3. memory.list = list
        BY <1>2, <3>1, <3>2
      <3>4. memory.page = p - 1
        <4>1. memory.page \in Nat
          BY DEF IInv, WalkSound
        <4>2. QED
          BY <3>1, <4>1
      <3>5. memory.entries = before
        BY <3>2, <3>3, <3>4
      <3>6. n0 = memory.entries /\ s0 = memory.shown
        BY <2>2
      <3> HIDE DEF before, n0, s0
      <3>7. QED
        BY <3>2, <3>3, <3>5, <3>6
    <2>3. QED
      BY <2>1, <2>2
  <1>8. memory'.entries = after /\ memory'.shown = {list[i] : i \in 1 .. after}
    <2>1. memory'.entries = n0 + Cardinality(DOMAIN page)
          /\ memory'.shown = s0 \cup {page[i] : i \in DOMAIN page}
      BY <1>5
    <2> HIDE DEF n0, s0, before, after, page, p
    <2>2. QED
      BY <1>6, <1>7, <2>1
  <1>9. QED
    BY <1>1, <1>2, <1>3, <1>8

LEMMA OnPageFetched ==
  ASSUME NEW list
  PROVE  OnPage(list) \subseteq DOMAIN loaded
  BY DEF OnPage, Entries

LEMMA WalkStaysQuiet ==
  ASSUME IInv, pc = "route", req.kind = "feed", NEW map, NEW total, ReadMap(map),
         TurnPage(map, total), UNCHANGED <<docs, tagName>>, req'.kind = "nothing"
  PROVE  QuietSound'
  <1> DEFINE list == FeedList(map)
             fresh == req.page = 1 /\ req.count = NoCount
  <1>1. /\ memory'.kind = "walk" /\ memory'.key = req.key /\ memory'.page = req.page
        /\ memory'.list = list /\ memory'.count = req.count
        /\ memory'.shown = (IF req.page = 1 THEN {} ELSE memory.shown) \cup OnPage(list)
        /\ memory'.entries = (IF req.page = 1 THEN 0 ELSE memory.entries)
                               + Cardinality(Entries(list))
        /\ memory'.facets = IF req.count = NoCount THEN Facets(map, loaded) ELSE memory.facets
        /\ fresh /\ memory'.quiet => map = tagName /\ loaded = Fetched(Root)
        /\ ~fresh => memory'.quiet = memory.quiet
    BY TurnPageIs
  <1> HIDE DEF fresh
  <1> SUFFICES ASSUME memory'.quiet
               PROVE  QuietSound'
    BY DEF QuietSound
  <1>2. ~fresh => memory.kind = "walk" /\ memory.quiet
    BY <1>1 DEF fresh, IInv, RequestSound
  <1>3. map = tagName /\ loaded = Fetched(Root)
    <2>1. CASE fresh
      BY <1>1, <2>1
    <2>2. CASE ~fresh
      BY <1>2, <2>2, ReadMapIs DEF IInv, QuietSound
    <2>3. QED
      BY <2>1, <2>2
  <1>4. known' \in {NoMap, tagName}
    BY <1>3, ReadMapIs
  <1>5. Fetched(Root)' = Fetched(Root)
    BY DEF Fetched
  <1>6. memory'.shown \subseteq DOMAIN Fetched(Root)
    <2>1. OnPage(list) \subseteq DOMAIN Fetched(Root)
      BY <1>3, OnPageFetched
    <2>2. req.page # 1 => memory.shown \subseteq DOMAIN Fetched(Root)
      BY <1>2 DEF fresh, IInv, QuietSound
    <2> HIDE DEF list
    <2>3. QED
      BY <1>1, <2>1, <2>2
  <1>7. memory'.facets = Facets(tagName, Fetched(Root))
    <2>1. req.count # NoCount => memory.facets = Facets(tagName, Fetched(Root))
      BY <1>2 DEF fresh, IInv, QuietSound
    <2>2. QED
      BY <1>1, <1>3, <2>1
  <1>8. ASSUME req.count # NoCount
        PROVE  /\ req.key # Search
               /\ list = NewestFirst(FolderDocs(tagName, Fetched(Root), req.key))
               /\ req.count = Len(list)
               /\ memory'.entries = Min({req.page * PageSize, Len(list)})
               /\ memory'.shown = {list[i] : i \in 1 .. memory'.entries}
    <2>1. memory.kind = "walk" /\ memory.quiet
      BY <1>2, <1>8 DEF fresh
    <2>2. list = FeedList(tagName)
      BY <1>3
    <2> HIDE DEF list
    <2>3. QED
      BY <1>1, <1>3, <1>8, <2>1, <2>2, FacetWalkKept
  <1> HIDE DEF list
  <1>9. QED
    BY <1>1, <1>4, <1>5, <1>6, <1>7, <1>8 DEF QuietSound

LEMMA FeedKeeps ==
  ASSUME IInv, Feed
  PROVE  IInv'
  <1>1. pc = "route" /\ req.kind = "feed" /\ UNCHANGED <<docs, tagName, edits>>
    BY FeedTurnsPage
  <1>2. PICK map \in Maps : \E total :
              /\ ReadMap(map)
              /\ \/ NotFound /\ UNCHANGED memory
                 \/ /\ Answer([kind |-> "feed"])
                    /\ \/ total = Len(FeedList(map))
                       \/ total = 0 /\ PageOf(FeedList(map), req.page) = <<>>
                    /\ TurnPage(map, total)
    BY FeedTurnsPage
  <1>3. PICK total :
              /\ ReadMap(map)
              /\ \/ NotFound /\ UNCHANGED memory
                 \/ /\ Answer([kind |-> "feed"])
                    /\ \/ total = Len(FeedList(map))
                       \/ total = 0 /\ PageOf(FeedList(map), req.page) = <<>>
                    /\ TurnPage(map, total)
    BY <1>2
  <1>4. CASE NotFound /\ UNCHANGED memory
    BY <1>1, <1>3, <1>4, NotFoundKeeps
  <1>5. CASE /\ Answer([kind |-> "feed"])
             /\ \/ total = Len(FeedList(map))
                \/ total = 0 /\ PageOf(FeedList(map), req.page) = <<>>
             /\ TurnPage(map, total)
    <2> DEFINE r == [kind |-> "feed"]
    <2>1. Answer(r) /\ r.kind = "feed"
      BY <1>5
    <2> HIDE DEF r
    <2>2. /\ RequestSound' /\ reply' = r /\ pc' = "idle" /\ req' = Nothing
          /\ req'.kind = "nothing" /\ at' = Root /\ hits' \in Seq(Docs)
          /\ filter' \in [include : SUBSET Tags, exclude : SUBSET Tags]
          /\ IsList(loaded')
      BY <2>1, AnswerIs
    <2>3. WalkSound'
      BY <1>1, <1>5, WalkKept
    <2>4. QuietSound'
      BY <1>1, <1>3, <1>5, <2>2, WalkStaysQuiet
    <2>5. memory'.kind = "walk"
      BY <1>5, TurnPageIs
    <2>6. ListingSound'
      BY <2>5 DEF ListingSound
    <2>7. NamesOpenTheirOwn' /\ ServesWhatItShowed'
      BY <2>1, <2>2, NothingTold
    <2>8. known' \in Maps
      BY <1>3, ReadMapIs
    <2>9. TypeOK' /\ NamesDiffer(tagName')
      BY <1>1, <2>1, <2>2, <2>5, <2>8 DEF IInv, TypeOK
    <2>10. QED
      BY <2>2, <2>3, <2>4, <2>6, <2>7, <2>9 DEF IInv
  <1>6. QED
    BY <1>3, <1>4, <1>5

-----------------------------------------------------------------------------
(* The invariants.                                                          *)

LEMMA InitHolds ==
  ASSUME Init
  PROVE  IInv
  <1>1. /\ docs = InitialDocs /\ tagName = InitialNames /\ edits = 0 /\ known = NoMap
        /\ pc = "idle" /\ req = Nothing /\ at = Root /\ filter = NoFilter /\ hits = <<>>
        /\ loaded = NoDocs /\ memory = Nothing /\ reply = Nothing
    BY DEF Init
  <1>2. memory.kind = "nothing" /\ reply.kind = "nothing" /\ req.kind = "nothing"
    BY <1>1 DEF Nothing
  <1>3. IsList(docs) /\ IsList(loaded) /\ NamesDiffer(tagName)
    BY <1>1, CatalogAssumption DEF NoDocs, IsList
  <1>4. tagName \in Maps
    <2>1. InitialNames = [t \in Tags |-> InitialNames[t]]
      BY CatalogAssumption
    <2>2. [t \in Tags |-> InitialNames[t]] \in Maps
      BY DEF Maps
    <2>3. QED
      BY <1>1, <2>1, <2>2
  <1>5. filter \in [include : SUBSET Tags, exclude : SUBSET Tags] /\ hits \in Seq(Docs)
    BY <1>1, EmptySeq DEF NoFilter
  <1>6. edits \in 0 .. MaxEdits
    BY <1>1, CatalogAssumption
  <1>7. TypeOK
    BY <1>1, <1>2, <1>3, <1>4, <1>5, <1>6 DEF TypeOK
  <1>8. RequestSound
    BY <1>1, <1>2 DEF RequestSound
  <1>9. QED
    BY <1>2, <1>3, <1>7, <1>8 DEF IInv, ListingSound, WalkSound, QuietSound,
                                 NamesOpenTheirOwn, ServesWhatItShowed

LEMMA StepKeeps ==
  ASSUME IInv, [Next]_vars
  PROVE  IInv'
  <1>1. CASE AddDocument \/ Retag \/ RenameTag
    BY <1>1, AddKeeps, RetagKeeps, RenameKeeps
  <1>2. CASE ExpireMap
    BY <1>2, ExpireKeeps
  <1>3. CASE AskList \/ AskOpen \/ AskFeed \/ AskDownload
    BY <1>3, AskListKeeps, AskOpenKeeps, AskFeedKeeps, AskDownloadKeeps
  <1>4. CASE GetMap \/ SearchPage \/ Load \/ Enter
    BY <1>4, GetMapKeeps, SearchKeeps, LoadKeeps, EnterKeeps
  <1>5. CASE List \/ Open \/ Download \/ Feed
    BY <1>5, ListKeeps, OpenKeeps, DownloadKeeps, FeedKeeps
  <1>6. CASE UNCHANGED vars
    <2>1. UNCHANGED <<docs, tagName, edits, known, pc, req, at, filter, hits, loaded, memory, reply>>
      BY <1>6 DEF vars, paperless, request
    <2>2. ListingSound' /\ WalkSound' /\ NamesOpenTheirOwn' /\ ServesWhatItShowed'
      BY <2>1, MemoryKept, ToldKept
    <2>3. RequestSound' /\ TypeOK' /\ NamesDiffer(tagName')
      BY <2>1 DEF IInv, RequestSound, TypeOK
    <2>4. QuietSound'
      <3>1. memory.kind = "walk" /\ memory.quiet /\ req.kind \in {"feed", "download"} =>
              /\ pc = "load" => filter = Filter(tagName, Root)
              /\ pc = "route" => loaded = Fetched(Root)
        BY DEF IInv, QuietSound
      <3>2. QED
        BY <2>1, <3>1, QuietKept
    <2>5. QED
      BY <2>2, <2>3, <2>4 DEF IInv
  <1>7. QED
    BY <1>1, <1>2, <1>3, <1>4, <1>5, <1>6 DEF Next, ServeStep

\* What a request in progress, a listing and a walk have to do with each other
\* and with the present documents is kept by every step.
THEOREM CatalogInvariance == Spec => []IInv
  <1>1. Init => IInv
    BY InitHolds
  <1>2. IInv /\ [Next]_vars => IInv'
    BY StepKeeps
  <1>3. QED
    BY <1>1, <1>2, PTL DEF Spec

\* The variables keep their types.
THEOREM CatalogTypes == Spec => []TypeOK
  <1>1. IInv => TypeOK
    BY DEF IInv
  <1>2. QED
    BY <1>1, CatalogInvariance, PTL

\* A name that a listing gave goes on to open its document while only later
\* ones have come, and never opens one with another title.
THEOREM NamesAlwaysOpenTheirOwn == Spec => []NamesOpenTheirOwn
  <1>1. IInv => NamesOpenTheirOwn
    BY DEF IInv
  <1>2. QED
    BY <1>1, CatalogInvariance, PTL

\* What a feed has shown is served, as long as nothing changes.
THEOREM ShownIsServed == Spec => []ServesWhatItShowed
  <1>1. IInv => ServesWhatItShowed
    BY DEF IInv
  <1>2. QED
    BY <1>1, CatalogInvariance, PTL

\* A walk to the last page of a feed that only grows shows what was there when
\* it began: what it is owed moves back only, and the last page ends the list.
THEOREM NothingIsMissed == Spec => []GrowingWalkMissesNothing
  <1>1. ASSUME IInv
        PROVE  GrowingWalkMissesNothing
    <2> SUFFICES ASSUME memory.kind = "walk", memory.steady, ~memory.next, NEW d \in memory.owed,
                        d \notin memory.shown
                 PROVE  FALSE
      BY DEF GrowingWalkMissesNothing
    <2>1. /\ Ranked(memory.key, memory.list) /\ memory.page \in Nat \ {0}
          /\ Len(memory.list) <= memory.page * PageSize
      BY <1>1 DEF IInv, WalkSound
    <2>2. PICK i \in DOMAIN memory.list : i > memory.page * PageSize
      BY <1>1 DEF IInv, WalkSound
    <2> DEFINE p == memory.page
    <2> HIDE DEF p
    <2>3. p * PageSize \in Nat
      <3>1. p \in Nat \ {0}
        BY <2>1 DEF p
      <3>2. QED
        BY <3>1, Product
    <2>4. i \in Nat /\ i <= Len(memory.list) /\ Len(memory.list) \in Nat
      BY <2>1, LenProperties DEF Ranked
    <2>5. QED
      BY <2>1, <2>2, <2>3, <2>4 DEF p
  <1>2. QED
    BY <1>1, CatalogInvariance, PTL

\* The pages of a facet's feed show as many documents as the facet told, each
\* of them once, as long as nothing changes.
THEOREM FacetsTellTheCount == Spec => []FacetTellsTheCount
  <1>1. ASSUME IInv
        PROVE  FacetTellsTheCount
    <2> SUFFICES ASSUME memory.kind = "walk", memory.count # NoCount, memory.quiet, ~memory.next
                 PROVE  memory.entries = memory.count /\ Cardinality(memory.shown) = memory.count
      BY DEF FacetTellsTheCount
    <2> DEFINE list == memory.list
               here == FolderDocs(tagName, Fetched(Root), memory.key)
               p == memory.page
    <2>1. /\ memory.key # Search /\ list = NewestFirst(here) /\ memory.count = Len(list)
          /\ memory.entries = Min({p * PageSize, Len(list)})
          /\ memory.shown = {list[i] : i \in 1 .. memory.entries}
      BY <1>1 DEF IInv, QuietSound
    <2>2. Ranked(memory.key, list) /\ p \in Nat \ {0} /\ Len(list) <= p * PageSize
      BY <1>1 DEF IInv, WalkSound
    <2>3. DOMAIN here \subseteq Docs
      <3>1. DOMAIN here \subseteq DOMAIN Fetched(Root)
        BY FolderDocsIs
      <3>2. DOMAIN Fetched(Root) \subseteq DOMAIN docs
        BY DEF Fetched
      <3>3. QED
        BY <1>1, <3>1, <3>2 DEF IInv, TypeOK, IsList
    <2> HIDE DEF list, here, p
    <2>4. Range(list) = DOMAIN here /\ Len(list) = Cardinality(DOMAIN here)
      BY <2>1, <2>3, NewestFirstIs
    <2>5. p * PageSize \in Nat /\ Len(list) \in Nat /\ DOMAIN list = 1 .. Len(list)
      BY <2>2, Product, LenProperties DEF Ranked
    <2>6. Min({p * PageSize, Len(list)}) = Len(list)
      <3>1. Min({p * PageSize, Len(list)})
              = IF p * PageSize <= Len(list) THEN p * PageSize ELSE Len(list)
        BY <2>5, MinMax
      <3>2. QED
        BY <2>2, <2>5, <3>1
    <2>7. memory.shown = Range(list)
      BY <2>1, <2>5, <2>6 DEF Range
    <2>8. QED
      BY <2>1, <2>4, <2>6, <2>7
  <1>2. QED
    BY <1>1, CatalogInvariance, PTL

-----------------------------------------------------------------------------
(* Every document of the share is to be found in one of its folders.        *)

LEMMA FetchedIs ==
  ASSUME IInv
  PROVE  /\ Shared \subseteq Docs /\ Shared \subseteq DOMAIN docs
         /\ DOMAIN Fetched(Root) = {d \in Shared : ~IsDone(d)}
         /\ DOMAIN Fetched(Done) = {d \in Shared : ResolveTags(tagName, Share.done) \subseteq docs[d]}
         /\ \A folder : IsList(Fetched(folder))
         /\ \A folder : \A d \in DOMAIN Fetched(folder) : Fetched(folder)[d] = docs[d]
  <1> DEFINE inc == ResolveTags(tagName, Share.include)
             exc == ResolveTags(tagName, Share.exclude)
             don == ResolveTags(tagName, Share.done)
  <1>1. IsList(docs)
    BY DEF IInv, TypeOK
  <1>2. Shared \subseteq DOMAIN docs /\ Shared \subseteq Docs
    BY <1>1 DEF Shared, IsList
  <1>3. \A folder : /\ DOMAIN Fetched(folder) = {d \in DOMAIN docs : Passes(Filter(tagName, folder), docs[d])}
                    /\ \A d \in DOMAIN Fetched(folder) : Fetched(folder)[d] = docs[d]
    BY DEF Fetched
  <1>4. \A folder : IsList(Fetched(folder))
    BY <1>1, <1>3 DEF IsList
  <1>5. /\ Filter(tagName, Root).include = inc
        /\ Filter(tagName, Root).exclude = ResolveTags(tagName, Share.exclude \cup DoneNames)
        /\ Filter(tagName, Done).include = inc \cup don
        /\ Filter(tagName, Done).exclude = exc
    BY FixedIs DEF Filter
  <1>6. ResolveTags(tagName, Share.exclude \cup DoneNames) = exc \cup (IF Share.enabled THEN don ELSE {})
    BY DEF ResolveTags, DoneNames
  <1>7. \A d : d \in Shared <=> d \in DOMAIN docs /\ inc \subseteq docs[d] /\ exc \cap docs[d] = {}
    BY DEF Shared
  <1>8. \A d : IsDone(d) <=> Share.enabled /\ don \cap docs[d] # {}
    BY DEF IsDone
  <1> HIDE DEF inc, exc, don
  <1>9. DOMAIN Fetched(Root) = {d \in Shared : ~IsDone(d)}
    <2>1. ASSUME NEW d \in DOMAIN docs
          PROVE  Passes(Filter(tagName, Root), docs[d]) <=> d \in Shared /\ ~IsDone(d)
      BY <1>5, <1>6, <1>7, <1>8 DEF Passes
    <2>2. QED
      BY <1>2, <1>3, <2>1
  <1>10. DOMAIN Fetched(Done) = {d \in Shared : don \subseteq docs[d]}
    <2>1. ASSUME NEW d \in DOMAIN docs
          PROVE  Passes(Filter(tagName, Done), docs[d]) <=> d \in Shared /\ don \subseteq docs[d]
      BY <1>5, <1>7 DEF Passes
    <2>2. QED
      BY <1>2, <1>3, <2>1
  <1>11. QED
    BY <1>2, <1>3, <1>4, <1>9, <1>10 DEF don

\* One tag at most has the name of the done tag.
LEMMA OneDoneTag ==
  ASSUME IInv, NEW t \in ResolveTags(tagName, Share.done), NEW u \in ResolveTags(tagName, Share.done)
  PROVE  t = u
  <1>1. t \in Tags /\ u \in Tags /\ tagName[t] \in Share.done /\ tagName[u] \in Share.done
    BY DEF ResolveTags
  <1>2. tagName[t] = tagName[u] /\ tagName[t] # Unnamed
    BY <1>1, CatalogAssumption
  <1>3. QED
    BY <1>1, <1>2 DEF IInv, NamesDiffer

\* In a folder that holds it, a document that no other hides has a name.
LEMMA NamedInItsFolder ==
  ASSUME NEW ids \in SUBSET Docs, NEW d, \A e \in ids : ~Hides(e, d)
  PROVE  d \in Range(Index(ids)) <=> d \in ids
  <1>1. ASSUME d \in ids
        PROVE  d \in Range(Index(ids))
    BY <1>1, OwnName DEF Range
  <1>2. ASSUME d \in Range(Index(ids))
        PROVE  d \in ids
    <2>1. PICK n \in DOMAIN Index(ids) : Index(ids)[n] = d
      BY <1>2 DEF Range
    <2>2. QED
      BY <2>1, IndexIs
  <1>3. QED
    BY <1>1, <1>2

LEMMA TopicFolder ==
  ASSUME IInv, TagFolders, NEW list, IsList(list), NEW t \in TopicTags(tagName, list),
         Fixed(tagName[t]) = Missing
  PROVE  /\ tagName[t] \in MemberNames(tagName, list)
         /\ Member(tagName, list, tagName[t]) = TagFolder(t)
  <1> DEFINE topics == {u \in TopicTags(tagName, list) : tagName[u] = tagName[t]}
  <1>1. TopicTags(tagName, list) \subseteq Tags
    BY Topics
  <1>2. tagName[t] # Unnamed
    BY DEF TopicTags
  <1>3. topics = {t}
    BY <1>1, <1>2 DEF IInv, NamesDiffer
  <1>4. (CHOOSE u \in topics : TRUE) = t
    BY <1>3
  <1>5. Member(tagName, list, tagName[t]) = TagFolder(CHOOSE u \in topics : TRUE)
    BY <1>3 DEF Member
  <1>6. tagName[t] \in MemberNames(tagName, list)
    BY DEF MemberNames
  <1>7. QED
    BY <1>4, <1>5, <1>6

LEMMA UnsortedFolder ==
  ASSUME TagFolders, NEW list, Untagged(tagName, list) # {}, Fixed(UnsortedName) = Unsorted
  PROVE  /\ UnsortedName \in MemberNames(tagName, list)
         /\ Member(tagName, list, UnsortedName) = Unsorted
  BY FixedIs DEF MemberNames, Member

\* What the root leads to is what it has fetched.
LEMMA ListedIsFetched ==
  ASSUME IInv
  PROVE  Listed(Root) \subseteq DOMAIN Fetched(Root)
  <1> DEFINE here == Fetched(Root)
             reached == {Member(tagName, here, n) : n \in MemberNames(tagName, here)}
             In(f) == Range(Index(DOMAIN FolderDocs(tagName, here, f)))
  <1>1. Listed(Root) = {d \in DOMAIN here : Document(d) \in reached}
                         \cup UNION {In(f) : f \in {f \in reached : f[1] \in {"tag", "unsorted"}}}
    BY FixedIs DEF Listed
  <1>2. IsList(here)
    BY FetchedIs
  <1>3. ASSUME NEW f
        PROVE  In(f) \subseteq DOMAIN here
    <2> DEFINE ids == DOMAIN FolderDocs(tagName, here, f)
    <2>1. ids \subseteq DOMAIN here /\ ids \in SUBSET Docs
      BY <1>2, FolderDocsIs DEF IsList
    <2> HIDE DEF ids, here
    <2>2. Range(Index(ids)) \subseteq ids
      BY <2>1, IndexIs DEF Range
    <2>3. QED
      BY <2>1, <2>2 DEF ids
  <1> HIDE DEF here, reached, In
  <1>4. ASSUME NEW d \in Listed(Root)
        PROVE  d \in DOMAIN here
    <2>1. CASE d \in {e \in DOMAIN here : Document(e) \in reached}
      BY <2>1
    <2>2. CASE d \in UNION {In(f) : f \in {f \in reached : f[1] \in {"tag", "unsorted"}}}
      <3>1. PICK f \in reached : d \in In(f)
        BY <2>2
      <3>2. QED
        BY <1>3, <3>1
    <2>3. QED
      BY <1>1, <1>4, <2>1, <2>2
  <1>5. QED
    BY <1>4 DEF here

\* A name that the root lists leads to the documents of its folder.
LEMMA LeadsThere ==
  ASSUME NEW f, f[1] \in {"tag", "unsorted"},
         NEW n \in MemberNames(tagName, Fetched(Root)), Member(tagName, Fetched(Root), n) = f
  PROVE  Range(Index(DOMAIN FolderDocs(tagName, Fetched(Root), f))) \subseteq Listed(Root)
  <1> DEFINE here == Fetched(Root)
             reached == {Member(tagName, here, m) : m \in MemberNames(tagName, here)}
             In(g) == Range(Index(DOMAIN FolderDocs(tagName, here, g)))
  <1>1. Listed(Root) = {d \in DOMAIN here : Document(d) \in reached}
                         \cup UNION {In(g) : g \in {g \in reached : g[1] \in {"tag", "unsorted"}}}
    BY FixedIs DEF Listed
  <1>2. f \in reached
    OBVIOUS
  <1> HIDE DEF here, reached, In
  <1>3. In(f) \subseteq UNION {In(g) : g \in {g \in reached : g[1] \in {"tag", "unsorted"}}}
    BY <1>2
  <1>4. In(f) \subseteq Listed(Root)
    BY <1>1, <1>3
  <1>5. QED
    BY <1>4 DEF In, here

LEMMA InUnsorted ==
  ASSUME NEW map, NEW list
  PROVE  DOMAIN FolderDocs(map, list, Unsorted) = Untagged(map, list)
  <1>1. Unsorted[1] # "tag"
    BY DEF Unsorted
  <1>2. QED
    BY <1>1 DEF FolderDocs

LEMMA InTagFolder ==
  ASSUME NEW map, NEW list, NEW t, NEW d \in DOMAIN list, t \in list[d]
  PROVE  d \in DOMAIN FolderDocs(map, list, TagFolder(t))
  <1> DEFINE f == TagFolder(t)
  <1>1. f[1] = "tag" /\ f[2] = t /\ f # Unsorted
    BY DEF TagFolder, Unsorted
  <1> HIDE DEF f
  <1>2. DOMAIN FolderDocs(map, list, f) = {e \in DOMAIN list : f[2] \in list[e]}
    BY <1>1 DEF FolderDocs
  <1>3. d \in DOMAIN FolderDocs(map, list, f)
    BY <1>1, <1>2
  <1>4. QED
    BY <1>3 DEF f

LEMMA ListedInRoot ==
  ASSUME IInv, NEW d \in DOMAIN Fetched(Root), \A e \in Shared : ~Hides(e, d), ~Eclipsed(d)
  PROVE  d \in Listed(Root)
  <1> DEFINE here == Fetched(Root)
             ids == DOMAIN here
             topics == docs[d] \cap TopicTags(tagName, here)
  <1>1. IsList(here) /\ ids \in SUBSET Docs /\ ids \subseteq Shared
    BY FetchedIs DEF IsList
  <1>2. d \in ids /\ here[d] = docs[d] /\ \A e \in ids : ~Hides(e, d)
    BY <1>1, FetchedIs
  <1>3. IF ~TagFolders THEN Fixed(FileNames(ids)[d]) = Missing
        ELSE IF topics = {} THEN Fixed(UnsortedName) = Unsorted
        ELSE \E t \in topics : Fixed(tagName[t]) = Missing
    BY DEF Eclipsed
  <1>4. ASSUME NEW f, f[1] \in {"tag", "unsorted"}, NEW n \in MemberNames(tagName, here),
               Member(tagName, here, n) = f, d \in DOMAIN FolderDocs(tagName, here, f)
        PROVE  d \in Listed(Root)
    <2> DEFINE inside == DOMAIN FolderDocs(tagName, here, f)
    <2>1. inside \subseteq ids
      BY FolderDocsIs
    <2>2. Range(Index(inside)) \subseteq Listed(Root)
      BY <1>4, LeadsThere
    <2>3. d \in inside
      BY <1>4
    <2> HIDE DEF inside, ids, here
    <2>4. d \in Range(Index(inside))
      BY <1>1, <1>2, <2>1, <2>3, NamedInItsFolder
    <2>5. QED
      BY <2>2, <2>4
  <1>5. CASE ~TagFolders
    <2> DEFINE n == FileNames(ids)[d]
    <2>1. n \in DOMAIN Index(ids) /\ Index(ids)[n] = d
      BY <1>1, <1>2, OwnName
    <2>2. n \in MemberNames(tagName, here)
      BY <1>5, <2>1 DEF MemberNames
    <2>3. Fixed(n) = Missing
      BY <1>3, <1>5
    <2>4. Member(tagName, here, n) = Document(d)
      <3> HIDE DEF n, here
      <3>1. Member(tagName, here, n) =
              (IF n \in DOMAIN Index(ids) THEN Document(Index(ids)[n]) ELSE Missing)
        BY <1>1, <1>5, <2>3, NamedInTheRoot
      <3> HIDE DEF ids
      <3>2. QED
        BY <2>1, <3>1
    <2> HIDE DEF n
    <2>5. QED
      BY <1>2, <2>2, <2>4, FixedIs DEF Listed
  <1>6. CASE TagFolders /\ topics # {}
    <2>1. PICK t \in topics : Fixed(tagName[t]) = Missing
      BY <1>3, <1>6
    <2>2. t \in TopicTags(tagName, here) /\ t \in here[d]
      BY <1>2
    <2> HIDE DEF here, topics
    <2>3. /\ tagName[t] \in MemberNames(tagName, here)
          /\ Member(tagName, here, tagName[t]) = TagFolder(t)
      BY <1>1, <1>6, <2>1, <2>2, TopicFolder
    <2>4. TagFolder(t)[1] = "tag" /\ TagFolder(t)[2] = t /\ TagFolder(t) # Unsorted
      BY DEF TagFolder, Unsorted
    <2>5. d \in DOMAIN FolderDocs(tagName, here, TagFolder(t))
      <3>1. d \in DOMAIN here
        BY DEF here
      <3>2. QED
        BY <2>2, <3>1, InTagFolder
    <2>6. QED
      BY <1>4, <2>3, <2>4, <2>5
  <1>7. CASE TagFolders /\ topics = {}
    <2>1. d \in Untagged(tagName, here)
      BY <1>2, <1>7 DEF Untagged
    <2>2. Fixed(UnsortedName) = Unsorted
      BY <1>3, <1>7
    <2>3. /\ UnsortedName \in MemberNames(tagName, here)
          /\ Member(tagName, here, UnsortedName) = Unsorted
      <3> HIDE DEF here
      <3>1. Untagged(tagName, here) # {}
        BY <2>1
      <3>2. QED
        BY <1>7, <2>2, <3>1, UnsortedFolder
    <2>4. Unsorted[1] = "unsorted"
      BY DEF Unsorted
    <2>5. d \in DOMAIN FolderDocs(tagName, here, Unsorted)
      <3> HIDE DEF here
      <3>1. QED
        BY <2>1, InUnsorted
    <2>6. QED
      BY <1>4, <2>3, <2>4, <2>5
  <1>8. QED
    BY <1>5, <1>6, <1>7

\* A document of the share is listed where it belongs, unless another hides it
\* or its folders are eclipsed, and nowhere else, unless the done tag is gone.
THEOREM HiddenByNameAlone == Spec => []HiddenOnlyByName
  <1>1. ASSUME IInv
        PROVE  HiddenOnlyByName
    <2> DEFINE below == [f \in {Root} \cup (IF Share.enabled THEN {Done} ELSE {}) |-> Listed(f)]
               Places(d) == {f \in DOMAIN below : d \in below[f]}
               don == ResolveTags(tagName, Share.done)
    <2> SUFFICES ASSUME NEW d \in Shared, \A e \in Shared : ~Hides(e, d), ~Eclipsed(d)
                 PROVE  \/ Places(d) = {IF IsDone(d) THEN Done ELSE Root}
                        \/ Places(d) = {Root, Done} /\ don = {}
      BY DEF HiddenOnlyByName
    <2>1. \A f : f \in Places(d) <=> /\ f = Root \/ (Share.enabled /\ f = Done)
                                     /\ d \in Listed(f)
      OBVIOUS
    <2>2. d \in Listed(Root) <=> ~IsDone(d)
      BY <1>1, ListedIsFetched, ListedInRoot, FetchedIs
    <2>3. d \in Listed(Done) <=> don \subseteq docs[d]
      <3> DEFINE ids == DOMAIN Fetched(Done)
      <3>1. ids = {e \in Shared : don \subseteq docs[e]} /\ ids \in SUBSET Docs
        BY <1>1, FetchedIs
      <3>2. Listed(Done) = Range(Index(ids))
        BY DEF Listed
      <3> HIDE DEF ids, don
      <3>3. d \in Range(Index(ids)) <=> d \in ids
        BY <3>1, NamedInItsFolder
      <3>4. QED
        BY <3>1, <3>2, <3>3
    <2>4. IsDone(d) <=> Share.enabled /\ don \cap docs[d] # {}
      BY DEF IsDone
    <2>5. \A t, u \in don : t = u
      BY <1>1, OneDoneTag
    <2>6. Root # Done
      BY FixedIs
    <2> HIDE DEF don, Places, below
    <2>7. CASE ~Share.enabled
      BY <2>1, <2>2, <2>4, <2>7
    <2>8. CASE Share.enabled /\ don = {}
      BY <2>1, <2>2, <2>3, <2>4, <2>6, <2>8
    <2>9. CASE Share.enabled /\ don # {}
      <3>1. don \subseteq docs[d] <=> don \cap docs[d] # {}
        BY <2>5, <2>9
      <3>2. QED
        BY <2>1, <2>2, <2>3, <2>4, <2>6, <2>9, <3>1
    <2>10. QED
      BY <2>7, <2>8, <2>9
  <1>2. QED
    BY <1>1, CatalogInvariance, PTL
=============================================================================
