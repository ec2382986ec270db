----------------------------- MODULE Workspace_proofs --------------------------
(***************************************************************************)
(* The browser's workspace and its sync with a device, for any number of   *)
(* files, names and texts, any workspace an older page left, any files     *)
(* dropped, any device and any other consoles: what names a file names one *)
(* that is there, the storage follows the page, nothing of the older page  *)
(* is forgotten uncopied, and a text the sync takes for agreed has been on *)
(* the device.                                                             *)
(***************************************************************************)
EXTENDS DeviceSync, SequenceTheorems, FiniteSetTheorems, TLAPS

--------------------------------------------------------------------------------
(* Lists.                                                                      *)

\* How many places come before a place, itself included.
PlaceRank(P, i) == Cardinality({j \in P : j <= i})

\* Each rank is some place's and no other's, in their order.
LEMMA PlacesAreRanked ==
  ASSUME NEW P, IsFiniteSet(P), P \subseteq Nat
  PROVE  /\ Cardinality(P) \in Nat
         /\ \A i \in P : PlaceRank(P, i) \in Nat /\ PlaceRank(P, i) \in 1 .. Cardinality(P)
         /\ \A i, j \in P : i < j => PlaceRank(P, i) < PlaceRank(P, j)
         /\ \A k \in 1 .. Cardinality(P) : \E i \in P : PlaceRank(P, i) = k
<1>. DEFINE upto(i) == {j \in P : j <= i}
            n == Cardinality(P)
<1>1. n \in Nat
  BY FS_CardinalityType
<1>2. \A i \in P : IsFiniteSet(upto(i)) /\ PlaceRank(P, i) \in Nat /\ PlaceRank(P, i) \in 1 .. n
  <2>1. TAKE i \in P
  <2>2. upto(i) \in SUBSET P /\ i \in upto(i)
    OBVIOUS
  <2>3. PlaceRank(P, i) = Cardinality(upto(i))
    BY DEF PlaceRank
  <2>. HIDE DEF upto
  <2>4. IsFiniteSet(upto(i)) /\ Cardinality(upto(i)) <= n /\ Cardinality(upto(i)) \in Nat
    BY <2>2, FS_Subset, FS_CardinalityType
  <2>5. Cardinality(upto(i)) # 0
    BY <2>2, <2>4, FS_EmptySet
  <2>. QED BY <1>1, <2>3, <2>4, <2>5
<1>3. ASSUME NEW i \in P, NEW j \in P, i < j PROVE PlaceRank(P, i) < PlaceRank(P, j)
  <2>0. \A x, y, z \in Nat : x <= x /\ (x < y => ~ (y <= x) /\ (z <= x => z <= y))
    OBVIOUS
  <2>1. upto(i) \in SUBSET upto(j) /\ j \in upto(j) /\ j \notin upto(i)
    BY <1>3, <2>0
  <2>2. PlaceRank(P, i) = Cardinality(upto(i)) /\ PlaceRank(P, j) = Cardinality(upto(j))
    BY DEF PlaceRank
  <2>3. IsFiniteSet(upto(j)) /\ PlaceRank(P, i) \in Nat /\ PlaceRank(P, j) \in Nat
    BY <1>1, <1>2
  <2>. HIDE DEF upto
  <2>4. /\ Cardinality(upto(i)) <= Cardinality(upto(j))
        /\ Cardinality(upto(j)) = Cardinality(upto(i)) => upto(j) = upto(i)
    BY <2>1, <2>3, FS_Subset
  <2>5. upto(j) # upto(i)
    BY <2>1
  <2>. QED BY <2>2, <2>3, <2>4, <2>5
<1>4. ASSUME NEW k \in 1 .. n PROVE \E i \in P : PlaceRank(P, i) = k
  <2>. DEFINE f == [i \in P |-> PlaceRank(P, i)]
  <2>1. f \in [P -> 1 .. n]
    BY <1>2
  <2>2. \A i, j \in P : f[i] = f[j] => i = j
    <3>. SUFFICES ASSUME NEW i \in P, NEW j \in P, PlaceRank(P, i) = PlaceRank(P, j) PROVE i = j
      OBVIOUS
    <3>1. PlaceRank(P, i) \in Nat /\ PlaceRank(P, j) \in Nat
      BY <1>1, <1>2
    <3>2. ~ (i < j) /\ ~ (j < i)
      BY <1>3, <3>1
    <3>3. i \in Nat /\ j \in Nat
      OBVIOUS
    <3>. QED BY <3>2, <3>3
  <2>3. f \in Injection(P, 1 .. n)
    BY <2>1, <2>2 DEF Injection, IsInjective
  <2>4. IsFiniteSet(1 .. n) /\ Cardinality(1 .. n) = n
    BY <1>1, FS_Interval
  <2>. HIDE DEF f
  <2>5. f \in Surjection(P, 1 .. n)
    BY <2>3, <2>4, FS_Injection
  <2>6. PICK i \in P : f[i] = k
    BY <2>5 DEF Surjection
  <2>. QED BY <2>6 DEF f
<1>. QED BY <1>1, <1>2, <1>3, <1>4

\* A set of places has a first one.
LEMMA FirstPlaceExists ==
  ASSUME NEW P, IsFiniteSet(P), P \subseteq Nat, P # {}
  PROVE  \E i \in P : \A j \in P : i <= j
<1>1. Cardinality(P) \in Nat /\ Cardinality(P) # 0
  BY FS_EmptySet, FS_CardinalityType
<1>2. PICK i \in P : PlaceRank(P, i) = 1
  <2>1. 1 \in 1 .. Cardinality(P)
    BY <1>1
  <2>. QED BY <2>1, PlacesAreRanked
<1>3. \A j \in P : PlaceRank(P, j) \in 1 .. Cardinality(P) /\ (j < i => PlaceRank(P, j) < PlaceRank(P, i))
  BY PlacesAreRanked
<1>4. \A j \in P : ~ (j < i)
  <2>1. TAKE j \in P
  <2>2. PlaceRank(P, j) \in Int /\ PlaceRank(P, j) >= 1
    BY <1>1, <1>3
  <2>. QED BY <1>2, <1>3, <2>2
<1>5. \A j \in P : i \in Nat /\ j \in Nat
  OBVIOUS
<1>. QED BY <1>4, <1>5

\* What lists its places from 1 on is a sequence of what it holds.
IsList(f) == f \in Seq(Range(f))

LEMMA SequenceIsList ==
  ASSUME NEW T, NEW f \in Seq(T)
  PROVE  IsList(f) /\ f = [i \in 1 .. Len(f) |-> f[i]]
<1>1. f = [i \in 1 .. Len(f) |-> f[i]] /\ DOMAIN f = 1 .. Len(f) /\ Len(f) \in Nat
  OBVIOUS
<1>2. f \in [1 .. Len(f) -> Range(f)]
  BY <1>1 DEF Range
<1>. HIDE DEF Range
<1>. QED BY <1>1, <1>2 DEF IsList

LEMMA ListByPlaces ==
  ASSUME NEW f, NEW n \in Nat, f = [i \in 1 .. n |-> f[i]]
  PROVE  IsList(f) /\ Len(f) = n /\ DOMAIN f = 1 .. n
<1>1. f \in [1 .. n -> Range(f)]
  BY DEF Range
<1>. HIDE DEF Range
<1>. QED BY <1>1 DEF IsList

LEMMA PlacesOfList ==
  ASSUME NEW f, IsList(f)
  PROVE  /\ Len(f) \in Nat /\ DOMAIN f = 1 .. Len(f)
         /\ f = [i \in 1 .. Len(f) |-> f[i]]
         /\ IsFiniteSet(DOMAIN f) /\ Cardinality(DOMAIN f) = Len(f)
         /\ (f = <<>> <=> Len(f) = 0)
<1>. DEFINE T == Range(f)
<1>. HIDE DEF T
<1>1. f \in Seq(T)
  BY DEF IsList, T
<1>2. Len(f) \in Nat /\ DOMAIN f = 1 .. Len(f) /\ (f = <<>> <=> Len(f) = 0)
  BY <1>1
<1>3. f = [i \in 1 .. Len(f) |-> f[i]]
  BY <1>1, <1>2
<1>. QED BY <1>2, <1>3, FS_Interval

LEMMA AppendedList ==
  ASSUME NEW f, IsList(f), NEW x
  PROVE  LET g == Append(f, x)
         IN  /\ IsList(g) /\ Len(g) = Len(f) + 1 /\ DOMAIN g = 1 .. Len(f) + 1
             /\ g[Len(f) + 1] = x /\ \A i \in DOMAIN f : i \in DOMAIN g /\ g[i] = f[i]
             /\ \A i \in DOMAIN g : i \in DOMAIN f \/ i = Len(f) + 1
<1>. DEFINE T == Range(f) \cup {x}
            g == Append(f, x)
<1>1. f \in Seq(Range(f)) /\ Range(f) \subseteq T /\ x \in T
  BY DEF IsList
<1>. HIDE DEF T
<1>2. f \in Seq(T)
  BY <1>1
<1>3. /\ Len(f) \in Nat /\ DOMAIN f = 1 .. Len(f)
      /\ g \in Seq(T) /\ Len(g) = Len(f) + 1 /\ DOMAIN g = 1 .. Len(f) + 1
      /\ g[Len(f) + 1] = x /\ \A i \in 1 .. Len(f) : g[i] = f[i]
  BY <1>1, <1>2
<1>. HIDE DEF g
<1>5. IsList(g)
  BY <1>3, SequenceIsList
<1>6. (\A i \in 1 .. Len(f) : i \in 1 .. Len(f) + 1) /\ \A i \in 1 .. Len(f) + 1 : i \in 1 .. Len(f) \/ i = Len(f) + 1
  BY <1>3
<1>. QED BY <1>3, <1>5, <1>6 DEF g

\* Keep keeps the members at the given places, each once.
LEMMA KeptList ==
  ASSUME NEW f, IsList(f), NEW P, P \subseteq DOMAIN f
  PROVE  LET g == Keep(f, P)
         IN  /\ IsList(g) /\ Len(g) = Cardinality(P) /\ (g = <<>> <=> P = {})
             /\ \A k \in DOMAIN g : \E i \in P : PlaceRank(P, i) = k /\ g[k] = f[i]
             /\ \A i \in P : \E k \in DOMAIN g : g[k] = f[i]
<1>. DEFINE g == Keep(f, P)
            n == Cardinality(P)
<1>1. IsFiniteSet(P) /\ P \subseteq Nat
  BY PlacesOfList, FS_Subset
<1>2. n \in Nat /\ (n = 0 <=> P = {})
  BY <1>1, FS_CardinalityType, FS_EmptySet
<1>3. g = [k \in 1 .. n |-> f[CHOOSE i \in P : PlaceRank(P, i) = k]]
  BY DEF Keep, PlaceRank
<1>4. g = [k \in 1 .. n |-> g[k]]
  BY <1>3
<1>5. ASSUME NEW i \in P
      PROVE  PlaceRank(P, i) \in 1 .. n /\ g[PlaceRank(P, i)] = f[i]
  <2>1. PlaceRank(P, i) \in 1 .. n
    BY <1>1, PlacesAreRanked
  <2>2. \A j \in P : PlaceRank(P, j) = PlaceRank(P, i) => j = i
    <3>1. TAKE j \in P
    <3>2. i \in Nat /\ j \in Nat /\ PlaceRank(P, j) \in 1 .. n
      BY <1>1, PlacesAreRanked
    <3>3. (i < j => PlaceRank(P, i) < PlaceRank(P, j)) /\ (j < i => PlaceRank(P, j) < PlaceRank(P, i))
      BY <1>1, PlacesAreRanked
    <3>. QED BY <1>2, <2>1, <3>2, <3>3
  <2>3. i = CHOOSE j \in P : PlaceRank(P, j) = PlaceRank(P, i)
    BY <2>2
  <2>. QED BY <1>3, <2>1, <2>3
<1>6. ASSUME NEW k \in 1 .. n
      PROVE  \E i \in P : PlaceRank(P, i) = k /\ g[k] = f[i]
  <2>1. PICK i \in P : PlaceRank(P, i) = k
    BY <1>1, PlacesAreRanked
  <2>. QED BY <1>5, <2>1
<1>. HIDE DEF g
<1>7. IsList(g) /\ Len(g) = n /\ DOMAIN g = 1 .. n
  BY <1>2, <1>4, ListByPlaces
<1>8. g = <<>> <=> P = {}
  BY <1>2, <1>7, PlacesOfList
<1>. QED BY <1>5, <1>6, <1>7, <1>8 DEF g

--------------------------------------------------------------------------------
(* Files.                                                                      *)

LEMMA NamesAreCounted ==
  ASSUME NEW f, NamedApart(f)
  PROVE  IsFiniteSet(NamesOf(f)) /\ Cardinality(NamesOf(f)) = Len(f)
<1>. DEFINE g == [i \in DOMAIN f |-> f[i].name]
<1>1. IsFiniteSet(DOMAIN f) /\ Cardinality(DOMAIN f) = Len(f)
  BY PlacesOfList DEF NamedApart, IsList
<1>2. \A i, j \in DOMAIN f : f[i].name = f[j].name => i = j
  BY DEF NamedApart
<1>3. g \in Bijection(DOMAIN f, NamesOf(f))
  BY <1>2 DEF NamesOf, Bijection, Injection, Surjection, IsInjective
<1>4. ExistsBijection(DOMAIN f, NamesOf(f))
  BY <1>3 DEF ExistsBijection
<1>. QED BY <1>1, <1>4, FS_Bijection

LEMMA FileAdded ==
  ASSUME NEW f, NamedApart(f), NEW n, n \notin NamesOf(f), NEW t
  PROVE  LET g == Append(f, [name |-> n, text |-> t])
         IN  NamedApart(g) /\ NamesOf(g) = NamesOf(f) \cup {n}
<1>. DEFINE x == [name |-> n, text |-> t]
            g == Append(f, x)
<1>0. x.name = n /\ x = [name |-> x.name, text |-> x.text]
  OBVIOUS
<1>. HIDE DEF x
<1>1. /\ IsList(g) /\ DOMAIN g = 1 .. Len(f) + 1 /\ g[Len(f) + 1] = x
      /\ \A i \in DOMAIN f : i \in DOMAIN g /\ g[i] = f[i]
      /\ \A i \in DOMAIN g : i \in DOMAIN f \/ i = Len(f) + 1
  BY AppendedList DEF NamedApart, IsList
<1>2. Len(f) + 1 \in DOMAIN g
  BY <1>1, PlacesOfList DEF NamedApart, IsList
<1>. HIDE DEF g
<1>3. \A i \in DOMAIN f : f[i] = [name |-> f[i].name, text |-> f[i].text] /\ f[i].name # n
  BY DEF NamedApart, NamesOf
<1>4. \A i \in DOMAIN g : g[i] = [name |-> g[i].name, text |-> g[i].text]
  BY <1>0, <1>1, <1>3
<1>5. \A i, j \in DOMAIN g : g[i].name = g[j].name => i = j
  BY <1>0, <1>1, <1>3 DEF NamedApart
<1>6. NamesOf(g) = NamesOf(f) \cup {n}
  BY <1>0, <1>1, <1>2 DEF NamesOf
<1>. QED BY <1>1, <1>4, <1>5, <1>6 DEF NamedApart, IsList, g, x

LEMMA FileGone ==
  ASSUME NEW f, NamedApart(f), NEW n
  PROVE  LET g == Without(f, n)
         IN  /\ NamedApart(g) /\ NamesOf(g) = NamesOf(f) \ {n}
             /\ g # <<>> => g[1].name \in NamesOf(g)
<1>. DEFINE P == {i \in DOMAIN f : f[i].name # n}
            g == Keep(f, P)
<1>1. Without(f, n) = g
  BY DEF Without
<1>. HIDE DEF P
<1>2. /\ IsList(g)
      /\ \A k \in DOMAIN g : \E i \in P : PlaceRank(P, i) = k /\ g[k] = f[i]
      /\ \A i \in P : \E k \in DOMAIN g : g[k] = f[i]
  BY KeptList DEF P, NamedApart, IsList
<1>3. \A i \in P : i \in DOMAIN f /\ f[i].name # n
  BY DEF P
<1>4. \A i \in DOMAIN f : f[i].name # n => i \in P
  BY DEF P
<1>. HIDE DEF g
<1>5. \A k \in DOMAIN g : g[k] = [name |-> g[k].name, text |-> g[k].text]
  BY <1>2, <1>3 DEF NamedApart
<1>6. \A k, l \in DOMAIN g : g[k].name = g[l].name => k = l
  BY <1>2, <1>3 DEF NamedApart
<1>7. NamesOf(g) = NamesOf(f) \ {n}
  BY <1>2, <1>3, <1>4 DEF NamesOf
<1>8. g # <<>> => 1 \in DOMAIN g
  BY <1>2, PlacesOfList
<1>9. g # <<>> => g[1].name \in NamesOf(g)
  BY <1>8 DEF NamesOf
<1>. QED BY <1>1, <1>2, <1>5, <1>6, <1>7, <1>9 DEF NamedApart, IsList

\* What gives each place a file of a name of its own.
LEMMA FilesReplaced ==
  ASSUME NEW f, NamedApart(f), NEW g, DOMAIN g = DOMAIN f, g = [i \in DOMAIN f |-> g[i]],
         \A i \in DOMAIN f : g[i] = [name |-> g[i].name, text |-> g[i].text],
         \A i, j \in DOMAIN f : g[i].name = g[j].name => i = j
  PROVE  NamedApart(g)
<1>1. Len(f) \in Nat /\ DOMAIN f = 1 .. Len(f)
  BY PlacesOfList DEF NamedApart, IsList
<1>2. IsList(g)
  BY <1>1, ListByPlaces
<1>. QED BY <1>2 DEF NamedApart, IsList

LEMMA FileRenamed ==
  ASSUME NEW f, NamedApart(f), NEW old, NEW n, n \notin NamesOf(f)
  PROVE  LET g == [i \in DOMAIN f |-> IF f[i].name = old THEN [f[i] EXCEPT !.name = n] ELSE f[i]]
         IN  /\ NamedApart(g)
             /\ \A m \in NamesOf(f) : m # old => m \in NamesOf(g)
             /\ old \in NamesOf(f) => n \in NamesOf(g)
<1>. DEFINE g == [i \in DOMAIN f |-> IF f[i].name = old THEN [f[i] EXCEPT !.name = n] ELSE f[i]]
<1>1. \A i \in DOMAIN f : f[i] = [name |-> f[i].name, text |-> f[i].text] /\ f[i].name # n
  BY DEF NamedApart, NamesOf
<1>2. \A i \in DOMAIN f : f[i].name = old => g[i] = [name |-> n, text |-> f[i].text]
  BY <1>1
<1>3. \A i \in DOMAIN f : f[i].name # old => g[i] = f[i]
  OBVIOUS
<1>4. DOMAIN g = DOMAIN f /\ g = [i \in DOMAIN f |-> g[i]]
  OBVIOUS
<1>. HIDE DEF g
<1>5. \A i \in DOMAIN f : /\ g[i] = [name |-> g[i].name, text |-> g[i].text]
                          /\ g[i].name = IF f[i].name = old THEN n ELSE f[i].name
  <2>1. TAKE i \in DOMAIN f
  <2>2. CASE f[i].name = old
    <3>. DEFINE x == [name |-> n, text |-> f[i].text]
    <3>1. g[i] = x
      BY <1>2, <2>2
    <3>2. x.name = n /\ x = [name |-> x.name, text |-> x.text]
      OBVIOUS
    <3>. HIDE DEF x
    <3>. QED BY <2>2, <3>1, <3>2
  <2>3. CASE f[i].name # old
    <3>1. g[i] = f[i]
      BY <1>3, <2>3
    <3>. QED BY <1>1, <2>3, <3>1
  <2>. QED BY <2>2, <2>3
<1>6. \A i, j \in DOMAIN f : g[i].name = g[j].name => i = j
  BY <1>1, <1>5 DEF NamedApart
<1>7. NamedApart(g)
  BY <1>4, <1>5, <1>6, FilesReplaced
<1>8. /\ \A m \in NamesOf(f) : m # old => m \in NamesOf(g)
      /\ old \in NamesOf(f) => n \in NamesOf(g)
  BY <1>4, <1>5 DEF NamesOf
<1>. QED BY <1>7, <1>8 DEF g

Rewritten(f, n, t) == [i \in DOMAIN f |-> IF f[i].name = n THEN [f[i] EXCEPT !.text = t] ELSE f[i]]

LEMMA FileWritten ==
  ASSUME NEW f, NamedApart(f), NEW n, NEW t
  PROVE  NamedApart(Rewritten(f, n, t)) /\ NamesOf(Rewritten(f, n, t)) = NamesOf(f)
<1>. DEFINE g == [i \in DOMAIN f |-> IF f[i].name = n THEN [f[i] EXCEPT !.text = t] ELSE f[i]]
<1>1. \A i \in DOMAIN f : f[i] = [name |-> f[i].name, text |-> f[i].text]
  BY DEF NamedApart
<1>2. \A i \in DOMAIN f : f[i].name = n => g[i] = [name |-> f[i].name, text |-> t]
  BY <1>1
<1>3. \A i \in DOMAIN f : f[i].name # n => g[i] = f[i]
  OBVIOUS
<1>4. DOMAIN g = DOMAIN f /\ g = [i \in DOMAIN f |-> g[i]]
  OBVIOUS
<1>. HIDE DEF g
<1>5. \A i \in DOMAIN f : /\ g[i] = [name |-> g[i].name, text |-> g[i].text]
                          /\ g[i].name = f[i].name
  <2>1. TAKE i \in DOMAIN f
  <2>2. CASE f[i].name = n
    <3>. DEFINE x == [name |-> f[i].name, text |-> t]
    <3>1. g[i] = x
      BY <1>2, <2>2
    <3>2. x.name = f[i].name /\ x = [name |-> x.name, text |-> x.text]
      OBVIOUS
    <3>. HIDE DEF x
    <3>. QED BY <2>2, <3>1, <3>2
  <2>3. CASE f[i].name # n
    <3>1. g[i] = f[i]
      BY <1>3, <2>3
    <3>. QED BY <1>1, <3>1
  <2>. QED BY <2>2, <2>3
<1>6. \A i, j \in DOMAIN f : g[i].name = g[j].name => i = j
  BY <1>5 DEF NamedApart
<1>7. NamedApart(g)
  BY <1>4, <1>5, <1>6, FilesReplaced
<1>8. NamesOf(g) = NamesOf(f)
  BY <1>4, <1>5 DEF NamesOf
<1>. QED BY <1>7, <1>8 DEF g, Rewritten

\* With room for a file there is a number for its name.
LEMMA NameIsFree ==
  ASSUME NEW taken, IsFiniteSet(taken), Cardinality(taken) <= MaxFiles, NEW n
  PROVE  UniqueName(n, taken) \notin taken
<1>. DEFINE C == 2 .. MaxFiles + 2
            P == {k \in C : <<n, k>> \notin taken}
<1>0. MaxFiles \in Nat /\ Cardinality(taken) \in Nat
  BY WorkAssumption, FS_CardinalityType DEF WorkAssumption
<1>1. IsFiniteSet(C) /\ Cardinality(C) = MaxFiles + 1 /\ C \subseteq Nat
  BY <1>0, FS_Interval
<1>2. P # {}
  <2>. SUFFICES ASSUME \A k \in C : <<n, k>> \in taken PROVE FALSE
    OBVIOUS
  <2>. DEFINE f == [k \in C |-> <<n, k>>]
  <2>. HIDE DEF C
  <2>1. f \in Injection(C, taken)
    BY DEF Injection, IsInjective
  <2>2. Cardinality(C) <= Cardinality(taken)
    BY <2>1, FS_Injection
  <2>. QED BY <1>0, <1>1, <2>2
<1>3. IsFiniteSet(P) /\ P \subseteq Nat
  BY <1>1, FS_Subset
<1>4. PICK i \in P : \A j \in P : i <= j
  <2>. HIDE DEF P
  <2>. QED BY <1>2, <1>3, FirstPlaceExists
<1>5. i \in C /\ <<n, i>> \notin taken /\ \A j \in 2 .. i - 1 : <<n, j>> \in taken
  <2>1. i \in C /\ i \in Nat /\ i <= MaxFiles + 2 /\ <<n, i>> \notin taken
    BY <1>0
  <2>2. \A j \in 2 .. i - 1 : j \in C /\ ~ (i <= j)
    BY <1>0, <2>1
  <2>. QED BY <1>4, <2>1, <2>2
<1>6. \E k \in C : <<n, k>> \notin taken /\ \A j \in 2 .. k - 1 : <<n, j>> \in taken
  BY <1>5
<1>7. <<n, CHOOSE k \in C : <<n, k>> \notin taken /\ \A j \in 2 .. k - 1 : <<n, j>> \in taken>> \notin taken
  BY <1>6
<1>. QED BY <1>7 DEF UniqueName

--------------------------------------------------------------------------------
(* Projects.                                                                   *)

Fields == {"id", "name", "patch", "fdef", "mdef", "fnl", "boot"}

IsProject(p) == DOMAIN p = Fields /\ p = [x \in Fields |-> p[x]]

\* What Whole says of a project, of its lists of files.
Sound(p) ==
  /\ IsProject(p)
  /\ \A k \in Kind : NamedApart(p[k])
  /\ p.boot = None \/ p.boot \in NamesOf(p.fnl)

LEMMA SoundIsWhole == ASSUME NEW p, Sound(p) PROVE Whole(p)
BY NamesAreCounted DEF Sound, Whole

\* The lists of two projects have the same names, but those of kind k.
SameBut(p, q, k) ==
  /\ IsProject(q) /\ q.id = p.id
  /\ \A j \in Kind \ {k} : q[j] = p[j]

LEMMA ListChanged ==
  ASSUME NEW p, IsProject(p), NEW k \in Kind, NEW f
  PROVE  LET q == [p EXCEPT ![k] = f]
         IN  SameBut(p, q, k) /\ q[k] = f /\ q.boot = p.boot
<1>. DEFINE q == [p EXCEPT ![k] = f]
<1>1. k \in Fields /\ k # "id" /\ k # "boot" /\ Kind \subseteq Fields /\ "id" \in Fields /\ "boot" \in Fields
  BY DEF Fields, Kind
<1>. HIDE DEF Fields, Kind
<1>2. DOMAIN q = Fields /\ q = [x \in Fields |-> q[x]] /\ q[k] = f /\ \A x \in Fields \ {k} : q[x] = p[x]
  BY <1>1 DEF IsProject
<1>. HIDE DEF q
<1>3. q["id"] = p["id"] /\ q["boot"] = p["boot"] /\ \A j \in Kind \ {k} : q[j] = p[j]
  BY <1>1, <1>2
<1>. QED BY <1>2, <1>3 DEF q, SameBut, IsProject

LEMMA MarkMoved ==
  ASSUME NEW p, Sound(p), NEW b, b = None \/ b \in NamesOf(p.fnl)
  PROVE  LET q == [p EXCEPT !.boot = b]
         IN  Sound(q) /\ q.id = p.id /\ q.boot = b /\ \A k \in Kind : q[k] = p[k]
<1>. DEFINE q == [p EXCEPT !.boot = b]
<1>1. "boot" \notin Kind /\ Kind \subseteq Fields /\ "id" \in Fields /\ "boot" \in Fields /\ "fnl" \in Kind
  BY DEF Fields, Kind
<1>. HIDE DEF Fields, Kind
<1>2. DOMAIN q = Fields /\ q = [x \in Fields |-> q[x]] /\ q["boot"] = b /\ \A x \in Fields \ {"boot"} : q[x] = p[x]
  BY <1>1 DEF IsProject, Sound
<1>. HIDE DEF q
<1>3. q["id"] = p["id"] /\ \A j \in Kind : q[j] = p[j]
  BY <1>1, <1>2
<1>4. q["fnl"] = p["fnl"]
  BY <1>1, <1>3
<1>. QED BY <1>2, <1>3, <1>4 DEF q, Sound, IsProject

\* A list put in the place of one that holds at least the marked show.
LEMMA ListSound ==
  ASSUME NEW p, Sound(p), NEW k \in Kind, NEW f, NamedApart(f),
         k = "fnl" => p.boot = None \/ p.boot \in NamesOf(f)
  PROVE  Sound([p EXCEPT ![k] = f])
<1>. DEFINE q == [p EXCEPT ![k] = f]
<1>1. SameBut(p, q, k) /\ q[k] = f /\ q.boot = p.boot
  BY ListChanged DEF Sound
<1>2. "fnl" \in Kind
  BY DEF Kind
<1>. HIDE DEF q
<1>3. \A j \in Kind : NamedApart(q[j])
  BY <1>1 DEF SameBut, Sound
<1>4. q.fnl = q["fnl"] /\ p.fnl = p["fnl"]
  OBVIOUS
<1>5. q.boot = None \/ q.boot \in NamesOf(q.fnl)
  <2>1. CASE k = "fnl"
    BY <1>1, <1>4, <2>1
  <2>2. CASE k # "fnl"
    BY <1>1, <1>2, <1>4, <2>2 DEF SameBut, Sound
  <2>. QED BY <2>1, <2>2
<1>. QED BY <1>1, <1>3, <1>5 DEF q, Sound, SameBut

LEMMA AddFileSound ==
  ASSUME NEW p, Sound(p), NEW k \in Kind, NEW n, n \notin NamesOf(p[k]), NEW t
  PROVE  LET q == AddFile(p, k, n, t)
         IN  /\ Sound(q) /\ q.id = p.id /\ q.boot = p.boot
             /\ NamesOf(q[k]) = NamesOf(p[k]) \cup {n} /\ \A j \in Kind \ {k} : q[j] = p[j]
<1>. DEFINE f == Append(p[k], [name |-> n, text |-> t])
<1>1. NamedApart(f) /\ NamesOf(f) = NamesOf(p[k]) \cup {n}
  BY FileAdded DEF Sound
<1>2. AddFile(p, k, n, t) = [p EXCEPT ![k] = f]
  BY DEF AddFile
<1>. HIDE DEF f
<1>3. k = "fnl" => p.boot = None \/ p.boot \in NamesOf(f)
  BY <1>1 DEF Sound
<1>. DEFINE q == [p EXCEPT ![k] = f]
<1>4. Sound(q)
  BY <1>1, <1>3, ListSound
<1>5. SameBut(p, q, k) /\ q[k] = f /\ q.boot = p.boot
  BY ListChanged DEF Sound
<1>. HIDE DEF q
<1>. QED BY <1>1, <1>2, <1>4, <1>5 DEF SameBut, q

LEMMA AddShowSound ==
  ASSUME NEW p, Sound(p), NEW n, n \notin NamesOf(p.fnl), NEW t
  PROVE  LET q == AddShow(p, n, t)
         IN  /\ Sound(q) /\ q.id = p.id
             /\ NamesOf(q.fnl) = NamesOf(p.fnl) \cup {n} /\ \A j \in Kind \ {"fnl"} : q[j] = p[j]
<1>. DEFINE q == AddFile(p, "fnl", n, t)
            b == IF p.boot = None THEN n ELSE p.boot
<1>0. "fnl" \in Kind /\ p.fnl = p["fnl"]
  BY DEF Kind
<1>1. /\ Sound(q) /\ q.id = p.id /\ q.boot = p.boot
      /\ NamesOf(q["fnl"]) = NamesOf(p["fnl"]) \cup {n} /\ \A j \in Kind \ {"fnl"} : q[j] = p[j]
  BY <1>0, AddFileSound
<1>2. AddShow(p, n, t) = [q EXCEPT !.boot = b]
  <2>1. AddShow(p, n, t) = [q EXCEPT !.boot = IF q.boot = None THEN n ELSE q.boot]
    BY DEF AddShow
  <2>. QED BY <1>1, <2>1
<1>. HIDE DEF q
<1>3. q.fnl = q["fnl"]
  OBVIOUS
<1>4. b = None \/ b \in NamesOf(q.fnl)
  BY <1>0, <1>1, <1>3 DEF Sound
<1>5. Sound([q EXCEPT !.boot = b]) /\ [q EXCEPT !.boot = b].id = q.id
      /\ \A k \in Kind : [q EXCEPT !.boot = b][k] = q[k]
  BY <1>1, <1>4, MarkMoved
<1>. QED BY <1>0, <1>1, <1>2, <1>5

LEMMA DeleteFileSound ==
  ASSUME NEW p, Sound(p), NEW k \in Kind, NEW n, k = "fnl" => p.boot # n
  PROVE  LET q == DeleteFile(p, k, n)
         IN  /\ Sound(q) /\ q.id = p.id /\ q.boot = p.boot
             /\ NamesOf(q[k]) = NamesOf(p[k]) \ {n} /\ \A j \in Kind \ {k} : q[j] = p[j]
<1>. DEFINE f == Without(p[k], n)
<1>1. NamedApart(f) /\ NamesOf(f) = NamesOf(p[k]) \ {n}
  BY FileGone DEF Sound
<1>2. DeleteFile(p, k, n) = [p EXCEPT ![k] = f]
  BY DEF DeleteFile
<1>. HIDE DEF f
<1>3. k = "fnl" => p.boot = None \/ p.boot \in NamesOf(f)
  BY <1>1 DEF Sound
<1>. DEFINE q == [p EXCEPT ![k] = f]
<1>4. Sound(q)
  BY <1>1, <1>3, ListSound
<1>5. SameBut(p, q, k) /\ q[k] = f /\ q.boot = p.boot
  BY ListChanged DEF Sound
<1>. HIDE DEF q
<1>. QED BY <1>1, <1>2, <1>4, <1>5 DEF SameBut, q

\* The mark goes with the show that is deleted.
LEMMA DeleteShowSound ==
  ASSUME NEW p, Sound(p), NEW n
  PROVE  LET q == DeleteShow(p, n)
         IN  /\ Sound(q) /\ q.id = p.id
             /\ NamesOf(q.fnl) = NamesOf(p.fnl) \ {n} /\ \A j \in Kind \ {"fnl"} : q[j] = p[j]
<1>. DEFINE rest == Without(p.fnl, n)
            b == IF p.boot # n THEN p.boot ELSE IF rest = <<>> THEN None ELSE rest[1].name
            r == [p EXCEPT !.boot = None]
            q == [r EXCEPT !["fnl"] = rest]
<1>0. "fnl" \in Kind /\ p.fnl = p["fnl"]
  BY DEF Kind
<1>1. /\ NamedApart(rest) /\ NamesOf(rest) = NamesOf(p.fnl) \ {n}
      /\ rest # <<>> => rest[1].name \in NamesOf(rest)
  BY <1>0, FileGone DEF Sound
<1>2. Sound(r) /\ r.id = p.id /\ r.boot = None /\ \A k \in Kind : r[k] = p[k]
  BY MarkMoved
<1>3. DeleteShow(p, n) = [q EXCEPT !.boot = b]
  BY DEF DeleteShow
<1>. HIDE DEF rest, r
<1>4. Sound(q) /\ SameBut(r, q, "fnl") /\ q["fnl"] = rest
  <2>1. Sound(q)
    BY <1>0, <1>1, <1>2, ListSound
  <2>2. SameBut(r, q, "fnl") /\ q["fnl"] = rest
    BY <1>0, <1>2, ListChanged DEF Sound
  <2>. QED BY <2>1, <2>2
<1>. HIDE DEF q
<1>5. q.fnl = q["fnl"]
  OBVIOUS
<1>6. b = None \/ b \in NamesOf(q.fnl)
  BY <1>1, <1>4, <1>5 DEF Sound
<1>7. Sound([q EXCEPT !.boot = b]) /\ [q EXCEPT !.boot = b].id = q.id
      /\ \A k \in Kind : [q EXCEPT !.boot = b][k] = q[k]
  <2>. HIDE DEF b
  <2>. QED BY <1>4, <1>6, MarkMoved
<1>. QED BY <1>0, <1>1, <1>2, <1>3, <1>4, <1>7 DEF SameBut

LEMMA RenameFileSound ==
  ASSUME NEW p, Sound(p), NEW k \in Kind, NEW old \in NamesOf(p[k]), NEW n, n \notin NamesOf(p[k]),
         k = "fnl" => p.boot # old
  PROVE  LET q == RenameFile(p, k, old, n)
         IN  /\ Sound(q) /\ q.id = p.id /\ q.boot = p.boot /\ \A j \in Kind \ {k} : q[j] = p[j]
             /\ n \in NamesOf(q[k]) /\ \A m \in NamesOf(p[k]) : m # old => m \in NamesOf(q[k])
<1>. DEFINE f == [i \in DOMAIN p[k] |-> IF p[k][i].name = old THEN [p[k][i] EXCEPT !.name = n] ELSE p[k][i]]
            q == [p EXCEPT ![k] = f]
<1>1. /\ NamedApart(f) /\ n \in NamesOf(f)
      /\ \A m \in NamesOf(p[k]) : m # old => m \in NamesOf(f)
  BY FileRenamed DEF Sound
<1>2. RenameFile(p, k, old, n) = q
  BY DEF RenameFile
<1>. HIDE DEF f
<1>3. k = "fnl" => p.boot = None \/ p.boot \in NamesOf(f)
  BY <1>1 DEF Sound
<1>4. Sound(q)
  BY <1>1, <1>3, ListSound
<1>5. SameBut(p, q, k) /\ q[k] = f /\ q.boot = p.boot
  BY ListChanged DEF Sound
<1>. HIDE DEF q
<1>. QED BY <1>1, <1>2, <1>4, <1>5 DEF SameBut

\* The mark goes with the show that is renamed.
LEMMA RenameShowSound ==
  ASSUME NEW p, Sound(p), NEW old \in NamesOf(p.fnl), NEW n, n \notin NamesOf(p.fnl)
  PROVE  LET q == RenameShow(p, old, n)
         IN  /\ Sound(q) /\ q.id = p.id /\ \A j \in Kind \ {"fnl"} : q[j] = p[j]
             /\ n \in NamesOf(q.fnl) /\ \A m \in NamesOf(p.fnl) : m # old => m \in NamesOf(q.fnl)
<1>. DEFINE f == [i \in DOMAIN p.fnl |-> IF p.fnl[i].name = old THEN [p.fnl[i] EXCEPT !.name = n] ELSE p.fnl[i]]
            b == IF p.boot = old THEN n ELSE p.boot
            r == [p EXCEPT !.boot = None]
            q == [r EXCEPT !["fnl"] = f]
<1>0. "fnl" \in Kind /\ p.fnl = p["fnl"]
  BY DEF Kind
<1>1. /\ NamedApart(f) /\ n \in NamesOf(f)
      /\ \A m \in NamesOf(p.fnl) : m # old => m \in NamesOf(f)
  BY <1>0, FileRenamed DEF Sound
<1>2. Sound(r) /\ r.id = p.id /\ r.boot = None /\ \A k \in Kind : r[k] = p[k]
  BY MarkMoved
<1>3. RenameShow(p, old, n) = [q EXCEPT !.boot = b]
  BY DEF RenameShow, RenameFile
<1>. HIDE DEF f, r
<1>4. Sound(q)
  BY <1>0, <1>1, <1>2, ListSound
<1>5. SameBut(r, q, "fnl") /\ q["fnl"] = f
  BY <1>0, <1>2, ListChanged DEF Sound
<1>. HIDE DEF q
<1>6. q.fnl = q["fnl"]
  OBVIOUS
<1>7. b = None \/ b \in NamesOf(q.fnl)
  BY <1>1, <1>5, <1>6 DEF Sound
<1>. HIDE DEF b
<1>8. Sound([q EXCEPT !.boot = b]) /\ [q EXCEPT !.boot = b].id = q.id
      /\ \A k \in Kind : [q EXCEPT !.boot = b][k] = q[k]
  BY <1>4, <1>7, MarkMoved
<1>. QED BY <1>0, <1>1, <1>2, <1>3, <1>5, <1>8 DEF SameBut

LEMMA SetTextSound ==
  ASSUME NEW p, Sound(p), NEW k \in Kind, NEW n, NEW t
  PROVE  LET q == SetText(p, k, n, t)
         IN  /\ Sound(q) /\ q.id = p.id /\ \A j \in Kind : NamesOf(q[j]) = NamesOf(p[j])
<1>. DEFINE f == [i \in DOMAIN p[k] |-> IF p[k][i].name = n THEN [p[k][i] EXCEPT !.text = t] ELSE p[k][i]]
            q == [p EXCEPT ![k] = f]
<1>1. NamedApart(f) /\ NamesOf(f) = NamesOf(p[k])
  <2>1. NamedApart(p[k])
    BY DEF Sound
  <2>2. f = Rewritten(p[k], n, t)
    BY DEF Rewritten
  <2>. QED BY <2>1, <2>2, FileWritten
<1>2. SetText(p, k, n, t) = q
  BY DEF SetText
<1>. HIDE DEF f
<1>3. k = "fnl" => p.boot = None \/ p.boot \in NamesOf(f)
  BY <1>1 DEF Sound
<1>4. Sound(q)
  BY <1>1, <1>3, ListSound
<1>5. SameBut(p, q, k) /\ q[k] = f /\ q.boot = p.boot
  BY ListChanged DEF Sound
<1>. HIDE DEF q
<1>. QED BY <1>1, <1>2, <1>4, <1>5 DEF SameBut

LEMMA FieldSound ==
  ASSUME NEW p, Sound(p), NEW x \in {"id", "name", "patch"}, NEW v
  PROVE  LET q == [p EXCEPT ![x] = v]
         IN  Sound(q) /\ q[x] = v /\ (x # "id" => q.id = p.id) /\ \A k \in Kind : q[k] = p[k]
<1>. DEFINE q == [p EXCEPT ![x] = v]
<1>1. /\ x \in Fields /\ x \notin Kind /\ x # "boot" /\ Kind \subseteq Fields
      /\ "id" \in Fields /\ "boot" \in Fields /\ "fnl" \in Kind
  BY DEF Fields, Kind
<1>. HIDE DEF Fields, Kind
<1>2. DOMAIN q = Fields /\ q = [y \in Fields |-> q[y]] /\ q[x] = v /\ \A y \in Fields \ {x} : q[y] = p[y]
  BY <1>1 DEF IsProject, Sound
<1>. HIDE DEF q
<1>3. q["boot"] = p["boot"] /\ (x # "id" => q["id"] = p["id"]) /\ \A j \in Kind : q[j] = p[j]
  BY <1>1, <1>2
<1>4. q["fnl"] = p["fnl"]
  BY <1>1, <1>3
<1>. QED BY <1>2, <1>3, <1>4 DEF q, Sound, IsProject

LEMMA DataSound ==
  ASSUME NEW data, \A k \in Kind : NamedApart(data[k]), NEW id
  PROVE  Sound(ProjectFromData(id, data)) /\ ProjectFromData(id, data).id = id
<1>. DEFINE b == IF data.boot \in NamesOf(data.fnl) THEN data.boot ELSE None
            q == [id |-> id, name |-> data.name, patch |-> data.patch, fdef |-> data.fdef, mdef |-> data.mdef,
                  fnl |-> data.fnl, boot |-> b]
<1>1. ProjectFromData(id, data) = q
  BY DEF ProjectFromData
<1>2. b = None \/ b \in NamesOf(data.fnl)
  OBVIOUS
<1>. HIDE DEF b
<1>3. IsProject(q) /\ q.id = id /\ q.boot = b /\ q.fnl = data.fnl
  BY DEF IsProject, Fields
<1>4. \A k \in Kind : q[k] = data[k]
  BY DEF Kind
<1>. HIDE DEF q
<1>. QED BY <1>1, <1>2, <1>3, <1>4 DEF Sound

\* A project with its mark on a show of its own is what is read back.
LEMMA ReadBack ==
  ASSUME NEW p, Sound(p)
  PROVE  ProjectFromData(p.id, p) = p
<1>. DEFINE b == IF p.boot \in NamesOf(p.fnl) THEN p.boot ELSE None
<1>1. b = p.boot
  BY DEF Sound
<1>2. p = [id |-> p.id, name |-> p.name, patch |-> p.patch, fdef |-> p.fdef, mdef |-> p.mdef,
           fnl |-> p.fnl, boot |-> p.boot]
  BY DEF Sound, IsProject, Fields
<1>. HIDE DEF b
<1>. QED BY <1>1, <1>2 DEF ProjectFromData, b

LEMMA OneFile ==
  /\ NamedApart(<<>>) /\ NamesOf(<<>>) = {}
  /\ \A n, t : LET f == <<[name |-> n, text |-> t]>> IN NamedApart(f) /\ NamesOf(f) = {n}
<1>1. NamedApart(<<>>) /\ NamesOf(<<>>) = {}
  BY DEF NamedApart, NamesOf, Range
<1>2. ASSUME NEW n, NEW t PROVE LET f == <<[name |-> n, text |-> t]>> IN NamedApart(f) /\ NamesOf(f) = {n}
  <2>1. <<[name |-> n, text |-> t]>> = Append(<<>>, [name |-> n, text |-> t])
    OBVIOUS
  <2>. DEFINE e == <<>>
              f == Append(e, [name |-> n, text |-> t])
  <2>2. NamedApart(e) /\ NamesOf(e) = {} /\ n \notin NamesOf(e)
    BY <1>1
  <2>. HIDE DEF e
  <2>3. NamedApart(f) /\ NamesOf(f) = NamesOf(e) \cup {n}
    BY <2>2, FileAdded
  <2>. QED BY <2>1, <2>2, <2>3 DEF e
<1>. QED BY <1>1, <1>2

LEMMA NewProjectsSound ==
  /\ \A id, name : Sound(EmptyProject(id, name)) /\ EmptyProject(id, name).id = id
  /\ \A id : \A old \in Legacies \ {None} :
       Sound(MigrateLegacyWorkspace(id, old)) /\ MigrateLegacyWorkspace(id, old).id = id
  /\ \A id : Sound(ProjectFromData(id, Seed)) /\ ProjectFromData(id, Seed).id = id
<1>1. ASSUME NEW id, NEW name PROVE Sound(EmptyProject(id, name)) /\ EmptyProject(id, name).id = id
  BY OneFile DEF EmptyProject, Sound, IsProject, Fields, Kind
<1>2. ASSUME NEW old \in Legacies \ {None}, NEW id
      PROVE  Sound(MigrateLegacyWorkspace(id, old)) /\ MigrateLegacyWorkspace(id, old).id = id
  <2>. DEFINE f == <<[name |-> <<"boot">>, text |-> old.boot]>>
              q == [id |-> id, name |-> "My Project", patch |-> old.show, fdef |-> old.fdefs, mdef |-> old.mdefs,
                    fnl |-> f, boot |-> <<"boot">>]
  <2>1. NamedApart(f) /\ <<"boot">> \in NamesOf(f)
    BY OneFile
  <2>2. MigrateLegacyWorkspace(id, old) = q
    BY DEF MigrateLegacyWorkspace
  <2>. HIDE DEF f
  <2>3. NamedApart(old.fdefs) /\ NamedApart(old.mdefs)
    BY WorkAssumption DEF WorkAssumption
  <2>4. IsProject(q) /\ q.id = id /\ q.boot = <<"boot">> /\ q.fnl = f
    BY DEF IsProject, Fields
  <2>5. q["fdef"] = old.fdefs /\ q["mdef"] = old.mdefs /\ q["fnl"] = f
    OBVIOUS
  <2>. HIDE DEF q
  <2>. QED BY <2>1, <2>2, <2>3, <2>4, <2>5 DEF Sound, Kind
<1>3. ASSUME NEW id PROVE Sound(ProjectFromData(id, Seed)) /\ ProjectFromData(id, Seed).id = id
  BY WorkAssumption, DataSound DEF WorkAssumption
<1>. QED BY <1>1, <1>2, <1>3

--------------------------------------------------------------------------------
(* The workspace of an older page.                                             *)

\* The storage: its projects, the active one, and what was done once.
StoreOf(f, a, m, d) == [projects |-> f, active |-> a, migrated |-> m, seeded |-> d]

IsStore(s) == \E f, a, m, d : s = StoreOf(f, a, m, d)

Entry(s, id) == s.projects[id]

CopyIsStored ==
  /\ IsStore(kv) /\ ids \in Nat
  /\ init = "copy" => legacy # None
  /\ init \in {"activate", "keep", "forget"} =>
       /\ legacy # None /\ ids \in Stored(kv)
       /\ Entry(kv, ids) = MigrateLegacyWorkspace(ids, legacy)

Forgotten == legacy' # legacy => \E id \in Stored(kv) : kv.projects[id] = MigrateLegacyWorkspace(id, legacy)

LEMMA NothingStored == IsStore(EmptyStore) /\ Stored(EmptyStore) = {}
<1>1. EmptyStore = StoreOf(<<>>, 0, FALSE, FALSE)
  BY DEF EmptyStore, StoreOf
<1>2. EmptyStore.projects = <<>> /\ DOMAIN <<>> = {}
  BY DEF EmptyStore
<1>3. Stored(EmptyStore) = {}
  BY <1>2 DEF Stored
<1>4. IsStore(EmptyStore)
  BY <1>1 DEF IsStore
<1>. QED BY <1>3, <1>4

\* What each write leaves in the storage.
LEMMA WrittenOnce ==
  ASSUME NEW s, IsStore(s), NEW p
  PROVE  LET t == Put(s, p)
         IN  /\ IsStore(t) /\ Stored(t) = Stored(s) \cup {p.id} /\ Entry(t, p.id) = p
             /\ \A j \in Stored(s) : j # p.id => Entry(t, j) = Entry(s, j)
<1>1. PICK f, a, m, d : s = StoreOf(f, a, m, d)
  BY DEF IsStore
<1>. DEFINE g == With(f, p.id, p)
<1>2. Put(s, p) = StoreOf(g, a, m, d)
  BY <1>1 DEF Put, StoreOf
<1>3. DOMAIN g = DOMAIN f \cup {p.id} /\ g[p.id] = p /\ \A j \in DOMAIN f : j # p.id => g[j] = f[j]
  BY DEF With
<1>. HIDE DEF g
<1>4. Stored(s) = DOMAIN f /\ \A j : Entry(s, j) = f[j]
  BY <1>1 DEF Stored, Entry, StoreOf
<1>5. Stored(Put(s, p)) = DOMAIN g /\ \A j : Entry(Put(s, p), j) = g[j]
  BY <1>2 DEF Stored, Entry, StoreOf
<1>6. IsStore(Put(s, p))
  BY <1>2 DEF IsStore
<1>. QED BY <1>3, <1>4, <1>5, <1>6

LEMMA RemovedOnce ==
  ASSUME NEW s, IsStore(s), NEW id
  PROVE  LET t == RemoveProject(s, id)
         IN  /\ IsStore(t) /\ Stored(t) = Stored(s) \ {id}
             /\ \A j \in Stored(t) : Entry(t, j) = Entry(s, j)
<1>1. PICK f, a, m, d : s = StoreOf(f, a, m, d)
  BY DEF IsStore
<1>. DEFINE g == [i \in DOMAIN f \ {id} |-> f[i]]
<1>2. RemoveProject(s, id) = StoreOf(g, a, m, d)
  <2>1. s.projects = f /\ [s EXCEPT !.projects = g] = StoreOf(g, a, m, d)
    BY <1>1 DEF StoreOf
  <2>2. RemoveProject(s, id) = [s EXCEPT !.projects = g]
    BY <2>1 DEF RemoveProject
  <2>. QED BY <2>1, <2>2
<1>3. DOMAIN g = DOMAIN f \ {id} /\ \A j \in DOMAIN g : g[j] = f[j]
  OBVIOUS
<1>. HIDE DEF g
<1>4. Stored(s) = DOMAIN f /\ \A j : Entry(s, j) = f[j]
  BY <1>1 DEF Stored, Entry, StoreOf
<1>5. Stored(RemoveProject(s, id)) = DOMAIN g /\ \A j : Entry(RemoveProject(s, id), j) = g[j]
  BY <1>2 DEF Stored, Entry, StoreOf
<1>6. IsStore(RemoveProject(s, id))
  BY <1>2 DEF IsStore
<1>. QED BY <1>3, <1>4, <1>5, <1>6

\* The other writes leave the projects as they are.
Marked(s, t) ==
  \/ \E b : t = [s EXCEPT !.migrated = b] \/ t = [s EXCEPT !.seeded = b]
  \/ \E id : t = Activate(s, id)

LEMMA OnlyMarked ==
  ASSUME NEW s, IsStore(s), NEW t, Marked(s, t)
  PROVE  IsStore(t) /\ Stored(t) = Stored(s) /\ \A j : Entry(t, j) = Entry(s, j)
<1>1. PICK f, a, m, d : s = StoreOf(f, a, m, d)
  BY DEF IsStore
<1>2. ASSUME NEW b
      PROVE  /\ [s EXCEPT !.migrated = b] = StoreOf(f, a, b, d)
             /\ [s EXCEPT !.seeded = b] = StoreOf(f, a, m, b)
             /\ Activate(s, b) = StoreOf(f, b, m, d)
  BY <1>1 DEF StoreOf, Activate
<1>3. \E x, y, z : t = StoreOf(f, x, y, z)
  BY <1>2 DEF Marked
<1>4. PICK x, y, z : t = StoreOf(f, x, y, z)
  BY <1>3
<1>5. IsStore(t)
  BY <1>4 DEF IsStore
<1>. QED BY <1>1, <1>4, <1>5 DEF Stored, Entry, StoreOf

LEMMA BootKeepsCopy == ASSUME CopyIsStored, Boot PROVE CopyIsStored' /\ Forgotten
<1>. USE DEF BootStep, CopyIsStored
<1>1. ASSUME UNCHANGED <<legacy, ids>>, Marked(kv, kv'), init' = "copy" => legacy # None,
             init' \in {"activate", "keep", "forget"} => init \in {"activate", "keep", "forget"}
      PROVE  CopyIsStored' /\ Forgotten
  BY <1>1, OnlyMarked DEF Forgotten
<1>2. CASE MarkMigrated
  BY <1>1, <1>2 DEF MarkMigrated, Marked
<1>3. CASE CopyLegacy
  <2>. DEFINE copy == MigrateLegacyWorkspace(ids + 1, legacy)
  <2>1. copy.id = ids + 1
    BY DEF MigrateLegacyWorkspace
  <2>2. kv' = Put(kv, copy) /\ ids' = ids + 1 /\ legacy' = legacy /\ legacy # None /\ init' = "activate"
    BY <1>3 DEF CopyLegacy
  <2>3. IsStore(Put(kv, copy)) /\ copy.id \in Stored(Put(kv, copy)) /\ Entry(Put(kv, copy), copy.id) = copy
    <3>. HIDE DEF copy
    <3>. QED BY WrittenOnce
  <2>. QED BY <2>1, <2>2, <2>3 DEF Forgotten
<1>4. CASE ActivateCopy
  BY <1>1, <1>4 DEF ActivateCopy, Marked
<1>5. CASE NoSeedBesides
  BY <1>1, <1>5 DEF NoSeedBesides, Marked
<1>6. CASE ForgetLegacy
  BY <1>6 DEF ForgetLegacy, Forgotten, Entry
<1>7. CASE MarkSeeded
  BY <1>1, <1>7 DEF MarkSeeded, Marked
<1>8. CASE Plant
  BY <1>8, WrittenOnce DEF Plant, Forgotten
<1>9. CASE Claim
  BY <1>1, <1>9 DEF Claim, Marked
<1>10. CASE LoadActive
  <2>1. kv' = kv \/ Marked(kv, kv')
    BY <1>10 DEF LoadActive, Marked
  <2>2. IsStore(kv')
    BY <2>1, OnlyMarked
  <2>. QED BY <1>10, <2>2 DEF LoadActive, Forgotten
<1>. QED BY <1>2, <1>3, <1>4, <1>5, <1>6, <1>7, <1>8, <1>9, <1>10 DEF Boot

LEMMA WorkKeepsCopy == ASSUME CopyIsStored, WorkNext PROVE CopyIsStored' /\ Forgotten
<1>. DEFINE Written == \/ kv' = kv \/ kv' = EmptyStore
                       \/ \E p : kv' = Put(kv, p)
                       \/ \E id : kv' = Activate(kv, id) \/ kv' = RemoveProject(kv, id)
<1>1. ASSUME legacy' = legacy, ids' = ids \/ ids' = ids + 1, Written,
             init' \in {"ready", "migrate"}
      PROVE  CopyIsStored' /\ Forgotten
  <2>1. IsStore(kv')
    <3>1. CASE kv' = kv \/ kv' = EmptyStore
      BY <3>1, NothingStored DEF CopyIsStored
    <3>2. ASSUME NEW p, kv' = Put(kv, p) PROVE IsStore(kv')
      BY <3>2, WrittenOnce DEF CopyIsStored
    <3>3. ASSUME NEW id, kv' = Activate(kv, id) \/ kv' = RemoveProject(kv, id) PROVE IsStore(kv')
      BY <3>3, OnlyMarked, RemovedOnce DEF CopyIsStored, Marked
    <3>. QED BY <1>1, <3>1, <3>2, <3>3
  <2>. QED BY <1>1, <2>1 DEF CopyIsStored, Forgotten
<1>. HIDE DEF Written
<1>2. CASE Reload
  <2>1. Written
    BY <1>2 DEF Reload, Written
  <2>. QED BY <1>1, <1>2, <2>1 DEF Reload
<1>3. CASE SaveTimerFires
  <2>1. Written
    BY <1>3 DEF SaveTimerFires, Written
  <2>. QED BY <1>1, <1>3, <2>1 DEF SaveTimerFires
<1>4. ASSUME init = "ready", UNCHANGED <<storage, init, ids>> PROVE CopyIsStored' /\ Forgotten
  BY <1>4 DEF storage, CopyIsStored, Forgotten
<1>5. CASE \/ Edits \/ SelectTab \/ (init = "ready" /\ (Rows \/ \E n \in Typed, t \in Texts : SaveToLibrary(n, t)))
           \/ (\E fs \in Drops : DropFiles(fs)) \/ ReadFile \/ CompileShowNow \/ Export
  <2>1. init = "ready" /\ UNCHANGED <<storage, init, ids>>
    BY <1>5 DEF Edits, EditText, TypeShow, SelectTab, Rows, NewFixture, NewController, NewShow, DuplicateRow,
                DeleteRow, RenameRow, ToggleBoot, RowsLeft, SaveToLibrary, DropFiles, ReadFile, CompileShowNow, Export,
                Changes, AtWork, Acts
  <2>. QED BY <1>4, <2>1
<1>6. CASE CreateProject \/ ImportSave
  <2>1. Written
    BY <1>6 DEF CreateProject, ImportSave, Written
  <2>. QED BY <1>1, <1>6, <2>1 DEF CreateProject, ImportSave, FlowKeeps, Starts, Acts
<1>7. CASE \E id \in projects : ChooseProject(id) \/ DeleteProject(id) \/ RenameLoad(id)
  <2>1. Written
    BY <1>7 DEF ChooseProject, DeleteProject, RenameLoad, Written
  <2>. QED BY <1>1, <1>7, <2>1 DEF ChooseProject, DeleteProject, RenameLoad, FlowKeeps, Starts, Acts
<1>8. CASE Continues
  <2>1. Written
    BY <1>8 DEF Continues, DeleteDone, SwitchLoad, SwitchDone, RenameSave, ImportDone, Written
  <2>. QED BY <1>1, <1>8, <2>1 DEF Continues, DeleteDone, SwitchLoad, SwitchDone, RenameSave, ImportDone, FlowKeeps
<1>. QED BY <1>2, <1>3, <1>5, <1>6, <1>7, <1>8, BootKeepsCopy DEF WorkNext, Flows

LEMMA CopyInit == WorkInit => CopyIsStored
BY NothingStored DEF WorkInit, CopyIsStored

\* A dropped file takes the place of one of its name, and no other name goes.
LEMMA UpsertSound ==
  ASSUME NEW p, Sound(p), NEW f, f.kind \in Kind \cup {"show"}
  PROVE  LET q == Upsert(p, f)
         IN  Sound(q) /\ q.id = p.id /\ \A k \in Kind : NamesOf(p[k]) \subseteq NamesOf(q[k])
<1>0. "fnl" \in Kind /\ p.fnl = p["fnl"] /\ "show" \notin Kind /\ Kind = {"fdef", "mdef", "fnl"}
  BY DEF Kind
<1>1. CASE f.kind = "show"
  <2>1. PICK t : t = f.text
    OBVIOUS
  <2>. DEFINE q == [p EXCEPT !["patch"] = t]
  <2>2. Upsert(p, f) = q
    BY <1>1, <2>1 DEF Upsert
  <2>3. Sound(q) /\ q.id = p.id /\ \A k \in Kind : q[k] = p[k]
    BY FieldSound
  <2>. HIDE DEF q
  <2>. QED BY <2>2, <2>3
<1>2. CASE f.kind \in {"fdef", "mdef"}
  <2>0. PICK k, n, t : k = f.kind /\ n = f.name /\ t = f.text
    OBVIOUS
  <2>. DEFINE r == DeleteFile(p, k, n)
              q == AddFile(r, k, n, t)
  <2>1. k \in Kind /\ k # "fnl" /\ Upsert(p, f) = q
    BY <1>0, <1>2, <2>0 DEF Upsert
  <2>2. Sound(r) /\ r.id = p.id /\ NamesOf(r[k]) = NamesOf(p[k]) \ {n} /\ \A j \in Kind \ {k} : r[j] = p[j]
    BY <2>1, DeleteFileSound
  <2>. HIDE DEF r
  <2>3. /\ Sound(q) /\ q.id = r.id
        /\ NamesOf(q[k]) = NamesOf(r[k]) \cup {n} /\ \A j \in Kind \ {k} : q[j] = r[j]
    BY <2>1, <2>2, AddFileSound
  <2>. HIDE DEF q
  <2>4. \A j \in Kind : NamesOf(p[j]) \subseteq NamesOf(q[j])
    <3>1. TAKE j \in Kind
    <3>2. CASE j = k
      BY <2>2, <2>3, <3>2
    <3>3. CASE j # k
      BY <2>2, <2>3, <3>3
    <3>. QED BY <3>2, <3>3
  <2>. QED BY <2>1, <2>2, <2>3, <2>4
<1>3. CASE f.kind = "fnl"
  <2>. DEFINE n == f.name
              rest == Without(p.fnl, n)
              g == Append(rest, [name |-> n, text |-> f.text])
              b == IF p.boot = None THEN n ELSE p.boot
              r == [p EXCEPT !.boot = None]
              q == [r EXCEPT !["fnl"] = g]
              s == [q EXCEPT !.boot = b]
  <2>1. NamedApart(rest) /\ NamesOf(rest) = NamesOf(p.fnl) \ {n}
    BY <1>0, FileGone DEF Sound
  <2>2. NamedApart(g) /\ NamesOf(g) = NamesOf(rest) \cup {n}
    <3>. HIDE DEF rest
    <3>. QED BY <2>1, FileAdded
  <2>3. Upsert(p, f) = s
    <3>1. p = [x \in Fields |-> p[x]] /\ "fnl" \in Fields
      BY DEF Sound, IsProject, Fields
    <3>2. AddFile(DeleteFile(p, "fnl", n), "fnl", n, f.text) = [p EXCEPT !["fnl"] = g]
      BY <3>1 DEF AddFile, DeleteFile
    <3>3. [p EXCEPT !["fnl"] = g].boot = p.boot
      BY <3>1
    <3>4. Upsert(p, f) = [[p EXCEPT !["fnl"] = g] EXCEPT !.boot = b]
      <4>. DEFINE w == AddFile(DeleteFile(p, "fnl", n), "fnl", n, f.text)
      <4>1. Upsert(p, f) = [w EXCEPT !.boot = IF w.boot = None THEN n ELSE w.boot]
        BY <1>3 DEF Upsert
      <4>2. w.boot = p.boot /\ w = [p EXCEPT !["fnl"] = g]
        BY <3>2, <3>3
      <4>. HIDE DEF w, g
      <4>. QED BY <4>1, <4>2
    <3>. HIDE DEF g, b
    <3>. QED BY <3>4
  <2>4. Sound(r) /\ r.id = p.id /\ r.boot = None /\ \A k \in Kind : r[k] = p[k]
    BY MarkMoved
  <2>. HIDE DEF rest, g, r
  <2>5. Sound(q)
    BY <1>0, <2>2, <2>4, ListSound
  <2>6. SameBut(r, q, "fnl") /\ q["fnl"] = g
    BY <1>0, <2>4, ListChanged DEF Sound
  <2>. HIDE DEF q
  <2>7. q.fnl = q["fnl"]
    OBVIOUS
  <2>8. b = None \/ b \in NamesOf(q.fnl)
    BY <2>1, <2>2, <2>6, <2>7 DEF Sound
  <2>. HIDE DEF b
  <2>9. Sound(s) /\ s.id = q.id /\ \A k \in Kind : s[k] = q[k]
    BY <2>5, <2>8, MarkMoved
  <2>. HIDE DEF s
  <2>10. \A k \in Kind : NamesOf(p[k]) \subseteq NamesOf(s[k])
    <3>1. TAKE k \in Kind
    <3>2. CASE k = "fnl"
      BY <1>0, <2>1, <2>2, <2>6, <2>9, <3>2
    <3>3. CASE k # "fnl"
      BY <2>4, <2>6, <2>9, <3>3 DEF SameBut
    <3>. QED BY <3>2, <3>3
  <2>. QED BY <2>3, <2>4, <2>6, <2>9, <2>10 DEF SameBut
<1>. QED BY <1>0, <1>1, <1>2, <1>3

LEMMA DuplicateSound ==
  ASSUME NEW p, Sound(p), NEW k \in Kind, NEW n, IsFiniteSet(NamesOf(p[k])), Cardinality(NamesOf(p[k])) <= MaxFiles
  PROVE  LET q == DuplicateFile(p, k, n)
         IN  Sound(q) /\ q.id = p.id /\ \A j \in Kind : NamesOf(p[j]) \subseteq NamesOf(q[j])
<1>. DEFINE m == UniqueName(n, NamesOf(p[k]))
            t == p[k][CHOOSE j \in DOMAIN p[k] : p[k][j].name = n].text
            q == AddFile(p, k, m, t)
<1>1. m \notin NamesOf(p[k])
  BY NameIsFree
<1>2. DuplicateFile(p, k, n) = q
  BY DEF DuplicateFile
<1>. HIDE DEF m, t
<1>3. /\ Sound(q) /\ q.id = p.id
      /\ NamesOf(q[k]) = NamesOf(p[k]) \cup {m} /\ \A j \in Kind \ {k} : q[j] = p[j]
  BY <1>1, AddFileSound
<1>. HIDE DEF q
<1>4. \A j \in Kind : NamesOf(p[j]) \subseteq NamesOf(q[j])
  <2>1. TAKE j \in Kind
  <2>. QED BY <1>3
<1>. QED BY <1>2, <1>3, <1>4

--------------------------------------------------------------------------------
(* Tabs.                                                                       *)

IsTab(t) == t = [kind |-> t.kind, name |-> t.name] /\ (t = PatchTab \/ t.kind \in Kind)

\* The file of a tab is there.
Shown(t, p) == t = PatchTab \/ t.name \in NamesOf(p[t.kind])

OpenTabs == Range(tabs) \cup {selection}

LEMMA TabOpened ==
  ASSUME IsList(tabs), tabs # <<>>, NEW sel, OpenTab(sel)
  PROVE  IsList(tabs') /\ tabs' # <<>> /\ OpenTabs' \subseteq OpenTabs \cup {sel}
<1>1. CASE tabs' = tabs
  BY <1>1 DEF OpenTab, OpenTabs
<1>2. CASE tabs' = Append(tabs, sel)
  <2>. DEFINE g == Append(tabs, sel)
  <2>1. /\ IsList(g) /\ Len(g) = Len(tabs) + 1 /\ g[Len(tabs) + 1] = sel
        /\ \A i \in DOMAIN tabs : g[i] = tabs[i]
        /\ \A i \in DOMAIN g : i \in DOMAIN tabs \/ i = Len(tabs) + 1
    BY AppendedList
  <2>. HIDE DEF g
  <2>2. Len(tabs) \in Nat
    BY PlacesOfList
  <2>3. g # <<>>
    BY <2>1, <2>2, PlacesOfList
  <2>4. Range(g) \subseteq Range(tabs) \cup {sel}
    BY <2>1 DEF Range
  <2>. QED BY <1>2, <2>1, <2>3, <2>4 DEF OpenTab, OpenTabs, g
<1>. QED BY <1>1, <1>2 DEF OpenTab

LEMMA OnePatchTab == IsList(<<PatchTab>>) /\ <<PatchTab>> # <<>> /\ Range(<<PatchTab>>) = {PatchTab}
<1>1. Len(<<PatchTab>>) = 1 /\ DOMAIN <<PatchTab>> = {1} /\ <<PatchTab>>[1] = PatchTab /\ <<PatchTab>> \in Seq({PatchTab})
  OBVIOUS
<1>2. Range(<<PatchTab>>) = {PatchTab}
  BY <1>1 DEF Range
<1>. QED BY <1>1, <1>2 DEF IsList

LEMMA TabClosed ==
  ASSUME IsList(tabs), tabs # <<>>, NEW sel, CloseTab(sel)
  PROVE  /\ IsList(tabs') /\ tabs' # <<>>
         /\ \A t \in OpenTabs' : t = PatchTab \/ (t # sel /\ t \in OpenTabs)
<1>. DEFINE P == {i \in DOMAIN tabs : tabs[i] # sel}
            rest == Keep(tabs, P)
<1>1. P \subseteq DOMAIN tabs /\ \A i \in P : tabs[i] # sel /\ tabs[i] \in Range(tabs)
  BY DEF Range
<1>. HIDE DEF P
<1>2. IsList(rest) /\ \A k \in DOMAIN rest : \E i \in P : rest[k] = tabs[i]
  BY <1>1, KeptList
<1>3. /\ tabs' = IF rest = <<>> THEN <<PatchTab>> ELSE rest
      /\ selection' = IF selection = sel THEN tabs'[Len(tabs')] ELSE selection
  BY DEF CloseTab, P
<1>. HIDE DEF rest
<1>4. IsList(tabs') /\ tabs' # <<>>
  BY <1>2, <1>3, OnePatchTab
<1>5. \A t \in Range(rest) : t # sel /\ t \in Range(tabs)
  BY <1>1, <1>2 DEF Range
<1>6. \A t \in Range(tabs') : t = PatchTab \/ (t # sel /\ t \in Range(tabs))
  BY <1>3, <1>5, OnePatchTab
<1>7. Len(tabs') \in DOMAIN tabs'
  BY <1>4, PlacesOfList
<1>8. tabs'[Len(tabs')] \in Range(tabs')
  BY <1>7 DEF Range
<1>. QED BY <1>3, <1>4, <1>6, <1>8 DEF OpenTabs

--------------------------------------------------------------------------------
(* The workspace: what is stored, shown and held by a flow.                    *)

DroppedFiles == UNION {Range(fs) : fs \in Drops}

StoreSound ==
  /\ \A id \in Stored(kv) : id \in 1 .. ids /\ Sound(Entry(kv, id)) /\ Entry(kv, id).id = id
  /\ legacy = None \/ legacy \in Legacies
  /\ zip = None \/ Sound(zip.project)

PageSound ==
  /\ Sound(project) /\ project.id \in 1 .. ids
  /\ flow.at \notin {"leave", "drop"} => projects \subseteq Stored(kv)
  /\ reading \in Seq(DroppedFiles)

TabsSound ==
  /\ IsList(tabs) /\ tabs # <<>>
  /\ \A t \in OpenTabs : IsTab(t) /\ (flow.at # "activate" => Shown(t, project))

\* What a flow between two awaits relies on.
FlowHeld ==
  /\ flow = [at |-> flow.at, id |-> flow.id, held |-> flow.held]
  /\ flow.at \in {"switch", "rename", "import"} => flow.id \in Stored(kv)
  /\ flow.at \in {"rename", "import"} => Sound(flow.held) /\ flow.held.id = flow.id
  /\ flow.at = "leave" => Stored(kv) # {}
  /\ flow.at = "rename" => flow.held.name = "renamed"
  /\ flow.at = "import" => Entry(kv, flow.id) = flow.held /\ flow.id # project.id

Agrees == project.id \in Stored(kv) /\ Entry(kv, project.id) = project

Untouched == project.id \notin Stored(kv) /\ project = ProjectFromData(project.id, Seed)

\* Deleting the project shown leaves it shown until another is switched to.
Leaving ==
  \/ flow.at = "leave" /\ project.id \notin Stored(kv)
  \/ flow.at = "switch" /\ flow.id # project.id

Follows == ~saveTimer /\ reading = <<>> /\ ~overtaken => Agrees \/ Untouched \/ Leaving

AtStart ==
  /\ flow = Idle /\ tabs = <<PatchTab>> /\ selection = PatchTab
  /\ ~saveTimer /\ reading = <<>> /\ ~overtaken

WorkInv ==
  /\ CopyIsStored /\ StoreSound
  /\ init = "ready" => PageSound /\ TabsSound /\ FlowHeld /\ Follows
  /\ init # "ready" => AtStart

LEMMA WorkInvGives == ASSUME WorkInv PROVE NamesHold /\ StoreFollows
<1>1. \A id \in Stored(kv) : Whole(kv.projects[id])
  BY SoundIsWhole DEF WorkInv, StoreSound, Entry
<1>2. init = "ready" => Whole(project)
  BY SoundIsWhole DEF WorkInv, PageSound
<1>3. NamesHold
  BY <1>1, <1>2 DEF NamesHold, WorkInv, TabsSound, OpenTabs, Shown
<1>4. flow = Idle => ~Leaving
  BY DEF Leaving, Idle
<1>5. init = "ready" /\ ~saveTimer /\ reading = <<>> /\ flow = Idle /\ ~overtaken => Agrees \/ Untouched
  BY <1>4 DEF WorkInv, Follows
<1>6. StoreFollows
  BY <1>5 DEF StoreFollows, Agrees, Untouched, Entry, WorkInv, PageSound, Idle
<1>. QED BY <1>3, <1>6

\* Changes of the project the page shows: they start the autosave's timer.
LEMMA WorkChanged ==
  ASSUME WorkInv, init = "ready", AtWork,
         Sound(project'), project'.id = project.id,
         saveTimer' = TRUE \/ (project' = project /\ saveTimer' = saveTimer),
         IsList(tabs'), tabs' # <<>>,
         \A t \in OpenTabs' : IsTab(t) /\ (flow.at # "activate" => Shown(t, project'))
  PROVE  WorkInv'
<1>0. /\ CopyIsStored /\ StoreSound /\ PageSound /\ FlowHeld /\ Follows
      /\ UNCHANGED <<durable, kv, legacy, init, projects, reading, flow, zip, ids, overtaken>>
  BY DEF WorkInv, AtWork, storage
<1>1. CopyIsStored' /\ StoreSound'
  BY <1>0 DEF CopyIsStored, StoreSound
<1>2. PageSound'
  BY <1>0 DEF PageSound
<1>3. TabsSound'
  BY <1>0 DEF TabsSound
<1>4. FlowHeld'
  BY <1>0 DEF FlowHeld
<1>5. Follows'
  <2>1. CASE saveTimer' = TRUE
    BY <2>1 DEF Follows
  <2>2. CASE project' = project /\ saveTimer' = saveTimer
    BY <1>0, <2>2 DEF Follows, Agrees, Untouched, Leaving
  <2>. QED BY <2>1, <2>2
<1>. QED BY <1>0, <1>1, <1>2, <1>3, <1>4, <1>5 DEF WorkInv

\* One in which no name goes, with at most one tab more.
LEMMA NoNameGoes ==
  ASSUME WorkInv, init = "ready", AtWork, saveTimer' = TRUE,
         Sound(project'), project'.id = project.id,
         \A k \in Kind : NamesOf(project[k]) \subseteq NamesOf(project'[k]),
         NEW sel, IsTab(sel), Shown(sel, project'),
         UNCHANGED <<tabs, selection>> \/ OpenTab(sel)
  PROVE  WorkInv'
<1>1. IsList(tabs) /\ tabs # <<>> /\ \A t \in OpenTabs : IsTab(t) /\ (flow.at # "activate" => Shown(t, project))
  BY DEF WorkInv, TabsSound
<1>2. \A t \in OpenTabs : flow.at # "activate" => Shown(t, project')
  BY <1>1 DEF Shown, IsTab
<1>3. IsList(tabs') /\ tabs' # <<>> /\ OpenTabs' \subseteq OpenTabs \cup {sel}
  <2>1. CASE UNCHANGED <<tabs, selection>>
    BY <1>1, <2>1 DEF OpenTabs
  <2>2. CASE OpenTab(sel)
    BY <1>1, <2>2, TabOpened
  <2>. QED BY <2>1, <2>2
<1>. HIDE DEF OpenTabs
<1>4. \A t \in OpenTabs' : IsTab(t) /\ (flow.at # "activate" => Shown(t, project'))
  BY <1>1, <1>2, <1>3
<1>. QED BY <1>3, <1>4, WorkChanged

LEMMA PatchTabIsShown == \A p : IsTab(PatchTab) /\ Shown(PatchTab, p)
BY DEF IsTab, Shown, PatchTab

\* There is room for a name not taken.
LEMMA RoomForName ==
  ASSUME WorkInv, init = "ready", NEW k \in Kind, Room(k)
  PROVE  /\ IsFiniteSet(NamesOf(project[k])) /\ Cardinality(NamesOf(project[k])) <= MaxFiles
         /\ \A n : UniqueName(n, NamesOf(project[k])) \notin NamesOf(project[k])
<1>1. NamedApart(project[k])
  BY DEF WorkInv, PageSound, Sound
<1>2. Len(project[k]) \in Nat /\ MaxFiles \in Nat
  BY <1>1, PlacesOfList, WorkAssumption DEF NamedApart, IsList, WorkAssumption
<1>3. IsFiniteSet(NamesOf(project[k])) /\ Cardinality(NamesOf(project[k])) <= MaxFiles
  BY <1>1, <1>2, NamesAreCounted DEF Room
<1>. QED BY <1>3, NameIsFree

LEMMA SelectTabKeeps == ASSUME WorkInv, SelectTab PROVE WorkInv'
<1>0. /\ init = "ready" /\ AtWork /\ project' = project /\ saveTimer' = saveTimer
      /\ Sound(project) /\ IsList(tabs) /\ tabs # <<>>
      /\ \A t \in OpenTabs : IsTab(t) /\ (flow.at # "activate" => Shown(t, project))
  BY DEF SelectTab, Acts, WorkInv, PageSound, TabsSound
<1>1. ASSUME NEW sel, IsTab(sel), Shown(sel, project), OpenTab(sel) PROVE WorkInv'
  <2>1. IsList(tabs') /\ tabs' # <<>> /\ OpenTabs' \subseteq OpenTabs \cup {sel}
    BY <1>0, <1>1, TabOpened
  <2>. HIDE DEF OpenTabs
  <2>2. \A t \in OpenTabs' : IsTab(t) /\ (flow.at # "activate" => Shown(t, project'))
    BY <1>0, <1>1, <2>1
  <2>. QED BY <1>0, <2>1, <2>2, WorkChanged
<1>2. ASSUME NEW sel, CloseTab(sel) PROVE WorkInv'
  <2>1. IsList(tabs') /\ tabs' # <<>> /\ \A t \in OpenTabs' : t = PatchTab \/ (t # sel /\ t \in OpenTabs)
    BY <1>0, <1>2, TabClosed
  <2>. HIDE DEF OpenTabs
  <2>2. \A t \in OpenTabs' : IsTab(t) /\ (flow.at # "activate" => Shown(t, project'))
    BY <1>0, <2>1, PatchTabIsShown
  <2>. QED BY <1>0, <2>1, <2>2, WorkChanged
<1>3. ASSUME NEW k \in Kind, NEW n \in NamesOf(project[k]), OpenTab([kind |-> k, name |-> n]) PROVE WorkInv'
  <2>1. IsTab([kind |-> k, name |-> n]) /\ Shown([kind |-> k, name |-> n], project)
    BY DEF IsTab, Shown
  <2>. QED BY <1>1, <1>3, <2>1
<1>4. CASE OpenTab(PatchTab)
  BY <1>1, <1>4, PatchTabIsShown
<1>. QED BY <1>2, <1>3, <1>4 DEF SelectTab

\* What is typed: every file keeps its name.
LEMMA EditKeeps == ASSUME WorkInv, NEW t, EditText(t) \/ TypeShow(t) PROVE WorkInv'
<1>0. Sound(project) /\ \A s \in OpenTabs : IsTab(s)
  BY DEF EditText, TypeShow, Acts, WorkInv, PageSound, TabsSound
<1>1. ASSUME NEW k \in Kind, NEW n, project' = SetText(project, k, n, t), saveTimer' = TRUE,
             init = "ready", AtWork, UNCHANGED <<tabs, selection>>
      PROVE  WorkInv'
  <2>1. Sound(project') /\ project'.id = project.id /\ \A j \in Kind : NamesOf(project'[j]) = NamesOf(project[j])
    BY <1>0, <1>1, SetTextSound
  <2>. QED BY <1>1, <2>1, NoNameGoes, PatchTabIsShown
<1>2. CASE TypeShow(t)
  <2>1. "fnl" \in Kind
    BY DEF Kind
  <2>. QED BY <1>1, <1>2, <2>1 DEF TypeShow, Acts
<1>3. CASE EditText(t) /\ selection.kind = "show"
  <2>1. /\ project' = [project EXCEPT !["patch"] = t] /\ saveTimer' = TRUE /\ init = "ready" /\ AtWork
        /\ UNCHANGED <<tabs, selection>>
    BY <1>3 DEF EditText, Changes, Acts
  <2>. DEFINE q == [project EXCEPT !["patch"] = t]
  <2>2. Sound(q) /\ q.id = project.id /\ \A j \in Kind : q[j] = project[j]
    BY <1>0, FieldSound
  <2>. HIDE DEF q
  <2>3. Sound(project') /\ project'.id = project.id /\ \A j \in Kind : NamesOf(project[j]) \subseteq NamesOf(project'[j])
    BY <2>1, <2>2 DEF q
  <2>. QED BY <2>1, <2>3, NoNameGoes, PatchTabIsShown
<1>4. CASE EditText(t) /\ selection.kind # "show"
  <2>1. selection.kind \in Kind
    BY <1>0, <1>4 DEF OpenTabs, IsTab, PatchTab
  <2>2. /\ project' = SetText(project, selection.kind, selection.name, t) /\ saveTimer' = TRUE
        /\ init = "ready" /\ AtWork /\ UNCHANGED <<tabs, selection>>
    BY <1>4 DEF EditText, Changes, Acts
  <2>. QED BY <1>1, <2>1, <2>2
<1>. QED BY <1>2, <1>3, <1>4

\* A new file, in a tab of its own.
LEMMA NewFileKeeps ==
  ASSUME WorkInv, init = "ready", NEW k \in Kind, NEW n, n \notin NamesOf(project[k]), NEW t,
         AtWork, saveTimer' = TRUE, OpenTab([kind |-> k, name |-> n]),
         \/ project' = AddFile(project, k, n, t)
         \/ k = "fnl" /\ project' = AddShow(project, n, t)
  PROVE  WorkInv'
<1>0. Sound(project)
  BY DEF WorkInv, PageSound
<1>. DEFINE sel == [kind |-> k, name |-> n]
<1>1. /\ Sound(project') /\ project'.id = project.id
      /\ NamesOf(project'[k]) = NamesOf(project[k]) \cup {n} /\ \A j \in Kind \ {k} : project'[j] = project[j]
  <2>1. CASE project' = AddFile(project, k, n, t)
    BY <1>0, <2>1, AddFileSound
  <2>2. CASE k = "fnl" /\ project' = AddShow(project, n, t)
    BY <1>0, <2>2, AddShowSound
  <2>. QED BY <2>1, <2>2
<1>2. \A j \in Kind : NamesOf(project[j]) \subseteq NamesOf(project'[j])
  BY <1>1
<1>3. IsTab(sel) /\ Shown(sel, project')
  BY <1>1 DEF IsTab, Shown
<1>. HIDE DEF sel
<1>. QED BY <1>1, <1>2, <1>3, NoNameGoes DEF sel

LEMMA NewKeeps ==
  ASSUME WorkInv, NewFixture \/ NewController \/ NewShow \/ \E n \in Typed, t \in Texts : SaveToLibrary(n, t)
  PROVE  WorkInv'
<1>0. "fdef" \in Kind /\ "mdef" \in Kind /\ "fnl" \in Kind
  BY DEF Kind
<1>1. CASE NewFixture
  <2>. DEFINE n == UniqueName(<<"fixture">>, NamesOf(project["fdef"]))
  <2>1. /\ init = "ready" /\ Room("fdef") /\ AtWork /\ saveTimer' = TRUE
        /\ OpenTab([kind |-> "fdef", name |-> n]) /\ project' = AddFile(project, "fdef", n, Fresh)
    BY <1>1 DEF NewFixture, Changes, Acts
  <2>2. n \notin NamesOf(project["fdef"])
    BY <1>0, <2>1, RoomForName
  <2>. HIDE DEF n
  <2>. QED BY <1>0, <2>1, <2>2, NewFileKeeps
<1>2. CASE NewController
  <2>. DEFINE n == UniqueName(<<"controller">>, NamesOf(project["mdef"]))
  <2>1. /\ init = "ready" /\ Room("mdef") /\ AtWork /\ saveTimer' = TRUE
        /\ OpenTab([kind |-> "mdef", name |-> n]) /\ project' = AddFile(project, "mdef", n, Fresh)
    BY <1>2 DEF NewController, Changes, Acts
  <2>2. n \notin NamesOf(project["mdef"])
    BY <1>0, <2>1, RoomForName
  <2>. HIDE DEF n
  <2>. QED BY <1>0, <2>1, <2>2, NewFileKeeps
<1>3. CASE NewShow
  <2>. DEFINE n == UniqueName(<<"show">>, NamesOf(project["fnl"]))
  <2>1. /\ init = "ready" /\ Room("fnl") /\ AtWork /\ saveTimer' = TRUE
        /\ OpenTab([kind |-> "fnl", name |-> n]) /\ project' = AddShow(project, n, Fresh)
    BY <1>3 DEF NewShow, Changes, Acts
  <2>2. n \notin NamesOf(project["fnl"])
    BY <1>0, <2>1, RoomForName
  <2>. HIDE DEF n
  <2>. QED BY <1>0, <2>1, <2>2, NewFileKeeps
<1>4. ASSUME NEW m, NEW t, SaveToLibrary(m, t) PROVE WorkInv'
  <2>. DEFINE n == UniqueName(m, NamesOf(project["fdef"]))
  <2>1. /\ init = "ready" /\ Room("fdef") /\ AtWork /\ saveTimer' = TRUE
        /\ OpenTab([kind |-> "fdef", name |-> n]) /\ project' = AddFile(project, "fdef", n, t)
    BY <1>4 DEF SaveToLibrary, Changes, Acts
  <2>2. n \notin NamesOf(project["fdef"])
    BY <1>0, <2>1, RoomForName
  <2>. HIDE DEF n
  <2>. QED BY <1>0, <2>1, <2>2, NewFileKeeps
<1>. QED BY <1>1, <1>2, <1>3, <1>4

LEMMA DuplicateRowKeeps ==
  ASSUME WorkInv, NEW k \in Kind, NEW n, DuplicateRow(k, n) PROVE WorkInv'
<1>1. /\ init = "ready" /\ Room(k) /\ UNCHANGED <<tabs, selection>> /\ AtWork /\ saveTimer' = TRUE
      /\ project' = DuplicateFile(project, k, n)
  BY DEF DuplicateRow, Changes, Acts
<1>2. Sound(project)
  BY <1>1 DEF WorkInv, PageSound
<1>3. IsFiniteSet(NamesOf(project[k])) /\ Cardinality(NamesOf(project[k])) <= MaxFiles
  BY <1>1, RoomForName
<1>4. /\ Sound(project') /\ project'.id = project.id
      /\ \A j \in Kind : NamesOf(project[j]) \subseteq NamesOf(project'[j])
  BY <1>1, <1>2, <1>3, DuplicateSound
<1>. QED BY <1>1, <1>4, NoNameGoes, PatchTabIsShown

\* The tab of a file that goes is closed.
LEMMA DeleteRowKeeps ==
  ASSUME WorkInv, NEW k \in Kind, NEW n, DeleteRow(k, n) PROVE WorkInv'
<1>. DEFINE sel == [kind |-> k, name |-> n]
<1>1. /\ init = "ready" /\ CloseTab(sel) /\ AtWork /\ saveTimer' = TRUE
      /\ project' = IF k = "fnl" THEN DeleteShow(project, n) ELSE DeleteFile(project, k, n)
  BY DEF DeleteRow, Changes, Acts
<1>2. /\ Sound(project) /\ IsList(tabs) /\ tabs # <<>>
      /\ \A t \in OpenTabs : IsTab(t) /\ (flow.at # "activate" => Shown(t, project))
  BY <1>1 DEF WorkInv, PageSound, TabsSound
<1>3. /\ Sound(project') /\ project'.id = project.id
      /\ NamesOf(project'[k]) = NamesOf(project[k]) \ {n} /\ \A j \in Kind \ {k} : project'[j] = project[j]
  <2>1. CASE k = "fnl"
    BY <1>1, <1>2, <2>1, DeleteShowSound
  <2>2. CASE k # "fnl"
    BY <1>1, <1>2, <2>2, DeleteFileSound
  <2>. QED BY <2>1, <2>2
<1>4. IsList(tabs') /\ tabs' # <<>> /\ \A t \in OpenTabs' : t = PatchTab \/ (t # sel /\ t \in OpenTabs)
  BY <1>1, <1>2, TabClosed
<1>5. ASSUME NEW t, IsTab(t), t # sel, Shown(t, project) PROVE Shown(t, project')
  BY <1>3, <1>5 DEF IsTab, Shown
<1>. HIDE DEF sel, OpenTabs
<1>6. \A t \in OpenTabs' : IsTab(t) /\ (flow.at # "activate" => Shown(t, project'))
  BY <1>2, <1>4, <1>5, PatchTabIsShown
<1>. QED BY <1>1, <1>3, <1>4, <1>6, WorkChanged

\* The tabs of a file that is renamed follow it.
LEMMA RenameRowKeeps ==
  ASSUME WorkInv, NEW k \in Kind, NEW old \in NamesOf(project[k]), NEW n, RenameRow(k, old, n) PROVE WorkInv'
<1>. DEFINE sel == [kind |-> k, name |-> old]
            moved == [kind |-> k, name |-> n]
<1>1. /\ init = "ready" /\ n # old /\ n \notin NamesOf(project[k]) /\ AtWork /\ saveTimer' = TRUE
      /\ tabs' = [i \in DOMAIN tabs |-> IF tabs[i] = sel THEN [tabs[i] EXCEPT !.name = n] ELSE tabs[i]]
      /\ selection' = IF selection = sel THEN [selection EXCEPT !.name = n] ELSE selection
      /\ project' = IF k = "fnl" THEN RenameShow(project, old, n) ELSE RenameFile(project, k, old, n)
  BY DEF RenameRow, Changes, Acts
<1>2. /\ Sound(project) /\ IsList(tabs) /\ tabs # <<>>
      /\ \A t \in OpenTabs : IsTab(t) /\ (flow.at # "activate" => Shown(t, project))
  BY <1>1 DEF WorkInv, PageSound, TabsSound
<1>3. /\ Sound(project') /\ project'.id = project.id /\ \A j \in Kind \ {k} : project'[j] = project[j]
      /\ n \in NamesOf(project'[k]) /\ \A m \in NamesOf(project[k]) : m # old => m \in NamesOf(project'[k])
  <2>1. CASE k = "fnl"
    BY <1>1, <1>2, <2>1, RenameShowSound
  <2>2. CASE k # "fnl"
    <3>1. project' = RenameFile(project, k, old, n)
      BY <1>1, <2>2
    <3>. QED BY <1>1, <1>2, <2>2, <3>1, RenameFileSound
  <2>. QED BY <2>1, <2>2
<1>4. [sel EXCEPT !.name = n] = moved
  OBVIOUS
<1>5. ASSUME NEW t, IsTab(t), t # sel, Shown(t, project) PROVE Shown(t, project')
  BY <1>3, <1>5 DEF IsTab, Shown
<1>6. IsTab(moved) /\ Shown(moved, project')
  BY <1>3 DEF IsTab, Shown
<1>. HIDE DEF sel, moved
<1>7. /\ DOMAIN tabs' = DOMAIN tabs
      /\ \A i \in DOMAIN tabs : tabs'[i] = IF tabs[i] = sel THEN moved ELSE tabs[i]
      /\ selection' = IF selection = sel THEN moved ELSE selection
  BY <1>1, <1>4
<1>8. IsList(tabs') /\ tabs' # <<>>
  <2>1. tabs' = [i \in 1 .. Len(tabs) |-> tabs'[i]] /\ Len(tabs) \in Nat /\ Len(tabs) # 0
    BY <1>1, <1>2, <1>7, PlacesOfList
  <2>2. IsList(tabs') /\ Len(tabs') = Len(tabs)
    BY <2>1, ListByPlaces
  <2>. QED BY <2>1, <2>2, PlacesOfList
<1>9. \A t \in OpenTabs' : t = moved \/ (t # sel /\ t \in OpenTabs)
  BY <1>7 DEF OpenTabs, Range
<1>. HIDE DEF OpenTabs
<1>10. \A t \in OpenTabs' : IsTab(t) /\ (flow.at # "activate" => Shown(t, project'))
  BY <1>2, <1>5, <1>6, <1>9
<1>. QED BY <1>1, <1>3, <1>8, <1>10, WorkChanged

LEMMA ToggleBootKeeps ==
  ASSUME WorkInv, NEW n \in NamesOf(project.fnl), ToggleBoot(n) PROVE WorkInv'
<1>. DEFINE b == IF project.boot = n THEN None ELSE n
            q == [project EXCEPT !.boot = b]
<1>1. /\ init = "ready" /\ UNCHANGED <<tabs, selection>> /\ AtWork /\ saveTimer' = TRUE /\ project' = q
  BY DEF ToggleBoot, Changes, Acts
<1>2. Sound(project)
  BY <1>1 DEF WorkInv, PageSound
<1>3. b = None \/ b \in NamesOf(project.fnl)
  OBVIOUS
<1>. HIDE DEF b
<1>4. Sound(q) /\ q.id = project.id /\ \A k \in Kind : q[k] = project[k]
  BY <1>2, <1>3, MarkMoved
<1>. HIDE DEF q
<1>5. \A k \in Kind : NamesOf(project[k]) \subseteq NamesOf(project'[k])
  BY <1>1, <1>4
<1>. QED BY <1>1, <1>4, <1>5, NoNameGoes, PatchTabIsShown

LEMMA RowsLeftKeep == ASSUME WorkInv, RowsLeft PROVE WorkInv'
<1>1. /\ init = "ready" /\ AtWork /\ saveTimer' = TRUE /\ project' = project
      /\ UNCHANGED <<tabs, selection>>
  BY DEF RowsLeft, Acts, view
<1>2. /\ Sound(project) /\ IsList(tabs) /\ tabs # <<>>
      /\ \A t \in OpenTabs : IsTab(t) /\ (flow.at # "activate" => Shown(t, project))
  BY <1>1 DEF WorkInv, PageSound, TabsSound
<1>3. \A t \in OpenTabs' : IsTab(t) /\ (flow.at # "activate" => Shown(t, project'))
  BY <1>1, <1>2 DEF OpenTabs
<1>. QED BY <1>1, <1>2, <1>3, WorkChanged

LEMMA RowsKeep == ASSUME WorkInv, Rows PROVE WorkInv'
BY NewKeeps, DuplicateRowKeeps, DeleteRowKeeps, RenameRowKeeps, ToggleBootKeeps, RowsLeftKeep DEF Rows

\* Files dropped on the page, read one after the other.
LEMMA DropsAreSequences ==
  /\ \A fs \in Drops : fs \in Seq(DroppedFiles)
  /\ \A f \in DroppedFiles : f.kind \in Kind \cup {"show"}
<1>1. ASSUME NEW fs \in Drops PROVE fs \in Seq(DroppedFiles)
  <2>. DEFINE S == Range(fs)
  <2>1. fs \in Seq(S) /\ S \subseteq DroppedFiles
    BY WorkAssumption DEF WorkAssumption, DroppedFiles
  <2>. HIDE DEF S
  <2>. QED BY <2>1
<1>2. ASSUME NEW f \in DroppedFiles PROVE f.kind \in Kind \cup {"show"}
  <2>1. PICK fs \in Drops : f \in Range(fs)
    BY DEF DroppedFiles
  <2>2. PICK i \in DOMAIN fs : f = fs[i]
    BY <2>1 DEF Range
  <2>. QED BY <2>2, WorkAssumption DEF WorkAssumption
<1>. QED BY <1>1, <1>2

LEMMA DropFilesKeeps == ASSUME WorkInv, NEW fs \in Drops, DropFiles(fs) PROVE WorkInv'
<1>1. init = "ready" /\ reading = <<>> /\ reading' = fs /\ UNCHANGED <<project, view, saveTimer>>
      /\ UNCHANGED <<durable, kv, legacy, init, projects, flow, zip, ids, overtaken>>
  BY DEF DropFiles, Acts, storage
<1>2. CopyIsStored' /\ StoreSound' /\ FlowHeld'
  BY <1>1 DEF WorkInv, CopyIsStored, StoreSound, FlowHeld
<1>3. PageSound'
  BY <1>1, DropsAreSequences DEF WorkInv, PageSound
<1>4. TabsSound'
  BY <1>1 DEF WorkInv, TabsSound, OpenTabs, view
<1>5. Follows'
  BY <1>1 DEF WorkInv, Follows, Agrees, Untouched, Leaving
<1>. QED BY <1>1, <1>2, <1>3, <1>4, <1>5 DEF WorkInv

LEMMA ReadFileKeeps == ASSUME WorkInv, ReadFile PROVE WorkInv'
<1>1. /\ init = "ready" /\ reading # <<>> /\ reading' = Tail(reading) /\ UNCHANGED view
      /\ UNCHANGED <<durable, kv, legacy, init, projects, flow, zip, ids, overtaken>>
      /\ saveTimer' = (saveTimer \/ reading' = <<>>)
      /\ project' = Upsert(project, Head(reading))
  BY DEF ReadFile, storage
<1>2. Sound(project) /\ reading \in Seq(DroppedFiles)
  BY <1>1 DEF WorkInv, PageSound
<1>3. Head(reading) \in DroppedFiles /\ Tail(reading) \in Seq(DroppedFiles)
  BY <1>1, <1>2
<1>4. PICK f \in DroppedFiles : f = Head(reading)
  BY <1>3
<1>5. /\ Sound(project') /\ project'.id = project.id
      /\ \A k \in Kind : NamesOf(project[k]) \subseteq NamesOf(project'[k])
  BY <1>1, <1>2, <1>4, UpsertSound, DropsAreSequences
<1>6. CopyIsStored' /\ StoreSound' /\ FlowHeld'
  BY <1>1, <1>5 DEF WorkInv, CopyIsStored, StoreSound, FlowHeld
<1>7. PageSound'
  BY <1>1, <1>3, <1>5 DEF WorkInv, PageSound
<1>8. TabsSound'
  <2>1. IsList(tabs) /\ tabs # <<>> /\ \A t \in OpenTabs : IsTab(t) /\ (flow.at # "activate" => Shown(t, project))
    BY <1>1 DEF WorkInv, TabsSound
  <2>2. \A t \in OpenTabs : flow.at # "activate" => Shown(t, project')
    BY <1>5, <2>1 DEF Shown, IsTab
  <2>. QED BY <1>1, <2>1, <2>2 DEF TabsSound, OpenTabs, view
<1>9. Follows'
  BY <1>1 DEF Follows
<1>. QED BY <1>1, <1>6, <1>7, <1>8, <1>9 DEF WorkInv

LEMMA CompileKeeps == ASSUME WorkInv, CompileShowNow PROVE WorkInv'
<1>1. init = "ready" /\ AtWork /\ UNCHANGED <<project, saveTimer, view>>
  BY DEF CompileShowNow, Acts, AtWork
<1>2. /\ Sound(project) /\ IsList(tabs) /\ tabs # <<>>
      /\ \A t \in OpenTabs : IsTab(t) /\ (flow.at # "activate" => Shown(t, project))
  BY <1>1 DEF WorkInv, PageSound, TabsSound
<1>3. \A t \in OpenTabs' : IsTab(t) /\ (flow.at # "activate" => Shown(t, project'))
  BY <1>1, <1>2 DEF OpenTabs, view
<1>. QED BY <1>1, <1>2, <1>3, WorkChanged DEF view

\* A project stored, one of those there were or a new one.
LEMMA ProjectStored ==
  ASSUME CopyIsStored, StoreSound, NEW p, Sound(p), p.id \in 1 .. ids', ids' \in {ids, ids + 1}, kv' = Put(kv, p)
  PROVE  /\ \A id \in Stored(kv') : id \in 1 .. ids' /\ Sound(Entry(kv', id)) /\ Entry(kv', id).id = id
         /\ p.id \in Stored(kv') /\ Entry(kv', p.id) = p /\ Stored(kv) \subseteq Stored(kv')
         /\ \A j \in Stored(kv) : j # p.id => Entry(kv', j) = Entry(kv, j)
         /\ \A j \in Stored(kv') : j # p.id => j \in Stored(kv)
<1>1. /\ Stored(kv') = Stored(kv) \cup {p.id} /\ Entry(kv', p.id) = p
      /\ \A j \in Stored(kv) : j # p.id => Entry(kv', j) = Entry(kv, j)
  BY WrittenOnce DEF CopyIsStored
<1>2. \A id \in Stored(kv) : id \in 1 .. ids /\ Sound(Entry(kv, id)) /\ Entry(kv, id).id = id
  BY DEF StoreSound
<1>3. \A id \in 1 .. ids : id \in 1 .. ids'
  BY DEF CopyIsStored
<1>4. ASSUME NEW id \in Stored(kv') PROVE id \in 1 .. ids' /\ Sound(Entry(kv', id)) /\ Entry(kv', id).id = id
  <2>1. CASE id = p.id
    BY <1>1, <2>1
  <2>2. CASE id # p.id
    BY <1>1, <1>2, <1>3, <2>2
  <2>. QED BY <2>1, <2>2
<1>. QED BY <1>1, <1>4

LEMMA StoreMarked ==
  ASSUME CopyIsStored, StoreSound, kv' = kv \/ Marked(kv, kv'), ids' \in {ids, ids + 1}
  PROVE  /\ \A id \in Stored(kv') : id \in 1 .. ids' /\ Sound(Entry(kv', id)) /\ Entry(kv', id).id = id
         /\ Stored(kv') = Stored(kv) /\ \A j : Entry(kv', j) = Entry(kv, j)
<1>1. Stored(kv') = Stored(kv) /\ \A j : Entry(kv', j) = Entry(kv, j)
  BY OnlyMarked DEF CopyIsStored
<1>2. \A id \in 1 .. ids : id \in 1 .. ids'
  BY DEF CopyIsStored
<1>. QED BY <1>1, <1>2 DEF StoreSound

\* The start of the page, up to the project it shows.
LEMMA BootKeeps == ASSUME WorkInv, CopyIsStored', Boot PROVE WorkInv'
<1>0. CopyIsStored /\ StoreSound /\ ids \in Nat
  BY DEF WorkInv, CopyIsStored
<1>1. ASSUME StillBooting, init # "ready", init' # "ready", legacy' \in {legacy, None},
             \A id \in Stored(kv') : id \in 1 .. ids' /\ Sound(Entry(kv', id)) /\ Entry(kv', id).id = id
      PROVE  WorkInv'
  <2>1. AtStart'
    BY <1>1 DEF WorkInv, AtStart, StillBooting, view
  <2>2. StoreSound'
    BY <1>0, <1>1 DEF StoreSound, StillBooting
  <2>. QED BY <1>1, <2>1, <2>2 DEF WorkInv
<1>2. ASSUME StillBooting, init # "ready", init' # "ready", legacy' \in {legacy, None}, ids' = ids,
             kv' = kv \/ Marked(kv, kv')
      PROVE  WorkInv'
  <2>1. ids' \in {ids, ids + 1}
    BY <1>2
  <2>. QED BY <1>0, <1>1, <1>2, <2>1, StoreMarked
<1>3. ASSUME StillBooting, init # "ready", init' # "ready", legacy' = legacy, ids' = ids + 1,
             NEW p, Sound(p), p.id = ids + 1, kv' = Put(kv, p)
      PROVE  WorkInv'
  <2>1. p.id \in 1 .. ids' /\ ids' \in {ids, ids + 1}
    BY <1>0, <1>3
  <2>. QED BY <1>0, <1>1, <1>3, <2>1, ProjectStored
<1>4. CASE MarkMigrated
  BY <1>2, <1>4 DEF MarkMigrated, BootStep, Marked
<1>5. CASE CopyLegacy
  <2>1. legacy \in Legacies \ {None}
    BY <1>0, <1>5 DEF CopyLegacy, BootStep, CopyIsStored, StoreSound
  <2>. DEFINE p == MigrateLegacyWorkspace(ids + 1, legacy)
  <2>2. Sound(p) /\ p.id = ids + 1
    BY <2>1, NewProjectsSound
  <2>3. StillBooting /\ init = "copy" /\ init' = "activate" /\ legacy' = legacy /\ ids' = ids + 1 /\ kv' = Put(kv, p)
    BY <1>5 DEF CopyLegacy, BootStep
  <2>. HIDE DEF p
  <2>. QED BY <1>3, <2>2, <2>3
<1>6. CASE ActivateCopy
  BY <1>2, <1>6 DEF ActivateCopy, BootStep, Marked
<1>7. CASE NoSeedBesides
  BY <1>2, <1>7 DEF NoSeedBesides, BootStep, Marked
<1>8. CASE ForgetLegacy
  BY <1>2, <1>8 DEF ForgetLegacy, BootStep
<1>9. CASE MarkSeeded
  BY <1>2, <1>9 DEF MarkSeeded, BootStep, Marked
<1>10. CASE Plant
  <2>. DEFINE p == ProjectFromData(ids + 1, Seed)
  <2>1. Sound(p) /\ p.id = ids + 1
    BY NewProjectsSound
  <2>2. StillBooting /\ init = "plant" /\ init' = "claim" /\ legacy' = legacy /\ ids' = ids + 1 /\ kv' = Put(kv, p)
    BY <1>10 DEF Plant, BootStep
  <2>. HIDE DEF p
  <2>. QED BY <1>3, <2>1, <2>2
<1>11. CASE Claim
  BY <1>2, <1>11 DEF Claim, BootStep, Marked
<1>12. CASE LoadActive
  <2>1. /\ init = "load" /\ init' = "ready" /\ projects' = Stored(kv) /\ UNCHANGED <<legacy, zip>>
        /\ UNCHANGED <<tabs, selection, saveTimer, reading, flow, overtaken>>
    BY <1>12 DEF LoadActive, BootStep, view
  <2>2. /\ flow = Idle /\ tabs = <<PatchTab>> /\ selection = PatchTab /\ reading = <<>>
    BY <2>1 DEF WorkInv, AtStart
  <2>3. TabsSound'
    BY <2>1, <2>2, OnePatchTab, PatchTabIsShown DEF TabsSound, OpenTabs
  <2>4. FlowHeld'
    BY <2>1, <2>2 DEF FlowHeld, Idle
  <2>5. <<>> \in Seq(DroppedFiles)
    OBVIOUS
  <2>6. CASE Stored(kv) = {}
    <3>1. ids' = ids + 1 /\ kv' = kv /\ project' = ProjectFromData(ids + 1, Seed)
      BY <1>12, <2>1, <2>6 DEF LoadActive
    <3>2. Sound(project') /\ project'.id = ids + 1
      BY <3>1, NewProjectsSound
    <3>3. ids' \in {ids, ids + 1} /\ ids + 1 \in 1 .. ids'
      BY <1>0, <3>1
    <3>4. StoreSound'
      BY <1>0, <2>1, <3>1, <3>3, StoreMarked DEF StoreSound
    <3>5. PageSound'
      BY <2>1, <2>2, <2>5, <3>1, <3>2, <3>3 DEF PageSound
    <3>6. Follows'
      BY <2>6, <3>1, <3>2 DEF Follows, Untouched
    <3>. QED BY <2>1, <2>3, <2>4, <3>4, <3>5, <3>6 DEF WorkInv
  <2>7. CASE Stored(kv) # {}
    <3>1. PICK id \in Stored(kv) :
            project' = ProjectFromData(id, kv.projects[id]) /\ kv' = Activate(kv, id) /\ ids' = ids
      <4>1. \E id \in IF kv.active \in projects' THEN {kv.active} ELSE projects' :
              project' = ProjectFromData(id, kv.projects[id]) /\ kv' = Activate(kv, id) /\ ids' = ids
        BY <1>12, <2>1, <2>7 DEF LoadActive
      <4>. QED BY <2>1, <4>1
    <3>2. Sound(Entry(kv, id)) /\ Entry(kv, id).id = id /\ id \in 1 .. ids
      BY <1>0 DEF StoreSound
    <3>3. project' = Entry(kv, id)
      <4>1. project' = ProjectFromData(Entry(kv, id).id, Entry(kv, id))
        BY <3>1, <3>2 DEF Entry
      <4>. QED BY <3>2, <4>1, ReadBack
    <3>4. Marked(kv, kv') /\ ids' \in {ids, ids + 1}
      BY <3>1 DEF Marked
    <3>5. StoreSound' /\ Stored(kv') = Stored(kv) /\ Entry(kv', id) = Entry(kv, id)
      BY <1>0, <2>1, <3>4, StoreMarked DEF StoreSound
    <3>6. PageSound'
      BY <2>1, <2>2, <2>5, <3>1, <3>2, <3>3, <3>5 DEF PageSound
    <3>7. Follows'
      BY <3>2, <3>3, <3>5 DEF Follows, Agrees
    <3>. QED BY <2>1, <2>3, <2>4, <3>5, <3>6, <3>7 DEF WorkInv
  <2>. QED BY <2>6, <2>7
<1>. QED BY <1>4, <1>5, <1>6, <1>7, <1>8, <1>9, <1>10, <1>11, <1>12 DEF Boot

LEMMA ReloadKeeps == ASSUME WorkInv, CopyIsStored', Reload PROVE WorkInv'
<1>1. AtStart' /\ init' # "ready"
  BY DEF Reload, AtStart
<1>2. StoreSound'
  <2>1. (kv' = kv \/ kv' = EmptyStore) /\ UNCHANGED <<legacy, zip, ids>>
    BY DEF Reload
  <2>. QED BY <2>1, NothingStored DEF WorkInv, StoreSound
<1>. QED BY <1>1, <1>2 DEF WorkInv

LEMMA AutosaveKeeps == ASSUME WorkInv, CopyIsStored', SaveTimerFires PROVE WorkInv'
<1>1. /\ init = "ready" /\ kv' = Put(kv, project) /\ projects' = Stored(kv')
      /\ UNCHANGED <<legacy, init, project, tabs, selection, reading, flow, zip, ids>>
  BY DEF SaveTimerFires, view
<1>2. CopyIsStored /\ StoreSound /\ PageSound /\ TabsSound /\ FlowHeld
  BY <1>1 DEF WorkInv
<1>3. Sound(project) /\ project.id \in 1 .. ids' /\ ids' \in {ids, ids + 1}
  BY <1>1, <1>2 DEF PageSound
<1>4. /\ \A id \in Stored(kv') : id \in 1 .. ids' /\ Sound(Entry(kv', id)) /\ Entry(kv', id).id = id
      /\ project.id \in Stored(kv') /\ Entry(kv', project.id) = project /\ Stored(kv) \subseteq Stored(kv')
      /\ \A j \in Stored(kv) : j # project.id => Entry(kv', j) = Entry(kv, j)
  BY <1>1, <1>2, <1>3, ProjectStored
<1>5. StoreSound'
  BY <1>1, <1>2, <1>4 DEF StoreSound
<1>6. PageSound'
  BY <1>1, <1>2 DEF PageSound
<1>7. TabsSound'
  BY <1>1, <1>2 DEF TabsSound, OpenTabs
<1>8. FlowHeld'
  BY <1>1, <1>2, <1>4 DEF FlowHeld
<1>9. Follows'
  BY <1>1, <1>4 DEF Follows, Agrees
<1>. QED BY <1>1, <1>5, <1>6, <1>7, <1>8, <1>9 DEF WorkInv

--------------------------------------------------------------------------------
(* The flows that await the storage.                                           *)

\* A new project stored, and nothing else of what is shown.
LEMMA NewProjectKeeps ==
  ASSUME WorkInv, CopyIsStored', init = "ready", flow = Idle, NEW p, Sound(p), p.id = ids + 1, ids' = ids + 1,
         kv' = Put(kv, p), UNCHANGED <<legacy, init, saveTimer, reading, project, projects, view, zip, overtaken>>,
         \/ flow' = [at |-> "switch", id |-> ids + 1, held |-> None]
         \/ flow' = [at |-> "import", id |-> ids + 1, held |-> p]
  PROVE  WorkInv'
<1>1. CopyIsStored /\ StoreSound /\ PageSound /\ TabsSound /\ Follows /\ ids \in Nat
  BY DEF WorkInv, CopyIsStored
<1>2. p.id \in 1 .. ids' /\ ids' \in {ids, ids + 1} /\ \A i \in 1 .. ids : i \in 1 .. ids' /\ i # p.id
  BY <1>1
<1>3. /\ \A id \in Stored(kv') : id \in 1 .. ids' /\ Sound(Entry(kv', id)) /\ Entry(kv', id).id = id
      /\ p.id \in Stored(kv') /\ Entry(kv', p.id) = p /\ Stored(kv) \subseteq Stored(kv')
      /\ \A j \in Stored(kv) : j # p.id => Entry(kv', j) = Entry(kv, j)
      /\ \A j \in Stored(kv') : j # p.id => j \in Stored(kv)
  BY <1>1, <1>2, ProjectStored
<1>4. project.id \in 1 .. ids /\ project.id # p.id
  BY <1>1, <1>2 DEF PageSound
<1>5. StoreSound'
  BY <1>1, <1>3 DEF StoreSound
<1>6. PageSound'
  BY <1>1, <1>2, <1>3, <1>4 DEF PageSound, Idle
<1>7. TabsSound'
  BY <1>1 DEF TabsSound, OpenTabs, view, Idle
<1>8. FlowHeld'
  BY <1>3, <1>4 DEF FlowHeld
<1>9. Follows'
  <2>1. ~saveTimer /\ reading = <<>> /\ ~overtaken => Agrees \/ Untouched
    BY <1>1 DEF Follows, Leaving, Idle
  <2>. QED BY <1>3, <1>4, <2>1 DEF Follows, Agrees, Untouched
<1>. QED BY <1>5, <1>6, <1>7, <1>8, <1>9 DEF WorkInv

LEMMA CopySound ==
  ASSUME NEW p, Sound(p), NEW n
  PROVE  LET q == [p EXCEPT !.id = n] IN Sound(q) /\ q.id = n
<1>. DEFINE q == [p EXCEPT !.id = n]
<1>1. Kind \subseteq Fields /\ "id" \notin Kind /\ "id" \in Fields /\ "boot" \in Fields /\ "fnl" \in Kind
  BY DEF Fields, Kind
<1>. HIDE DEF Fields, Kind
<1>2. DOMAIN q = Fields /\ q = [y \in Fields |-> q[y]] /\ q["id"] = n /\ \A y \in Fields \ {"id"} : q[y] = p[y]
  BY <1>1 DEF IsProject, Sound
<1>. HIDE DEF q
<1>3. q["boot"] = p["boot"] /\ \A j \in Kind : q[j] = p[j]
  BY <1>1, <1>2
<1>4. q["fnl"] = p["fnl"]
  BY <1>1, <1>3
<1>. QED BY <1>2, <1>3, <1>4 DEF q, Sound, IsProject

LEMMA CreateKeeps == ASSUME WorkInv, CopyIsStored', CreateProject PROVE WorkInv'
<1>1. init = "ready" /\ flow = Idle /\ ids' = ids + 1
      /\ UNCHANGED <<legacy, init, saveTimer, reading, project, projects, view, zip, overtaken>>
      /\ flow' = [at |-> "switch", id |-> ids + 1, held |-> None]
  BY DEF CreateProject, Starts, Acts, FlowKeeps
<1>2. PICK p \in {EmptyProject(ids + 1, "new")}
                   \cup {[kv.projects[id] EXCEPT !.id = ids + 1] : id \in projects \cap Stored(kv)} :
              kv' = Put(kv, p)
  BY DEF CreateProject
<1>3. Sound(p) /\ p.id = ids + 1
  <2>1. CASE p = EmptyProject(ids + 1, "new")
    BY <2>1, NewProjectsSound
  <2>2. ASSUME NEW id \in Stored(kv), p = [kv.projects[id] EXCEPT !.id = ids + 1] PROVE Sound(p) /\ p.id = ids + 1
    <3>1. PICK q, n : q = Entry(kv, id) /\ n = ids + 1
      OBVIOUS
    <3>2. Sound(q) /\ p = [q EXCEPT !["id"] = n]
      BY <2>2, <3>1 DEF WorkInv, StoreSound, Entry
    <3>. DEFINE r == [q EXCEPT !.id = n]
    <3>3. Sound(r) /\ r.id = n
      BY <3>2, CopySound
    <3>. QED BY <3>1, <3>2, <3>3
  <2>. QED BY <1>2, <2>1, <2>2
<1>. QED BY <1>1, <1>2, <1>3, NewProjectKeeps

LEMMA ImportSaveKeeps == ASSUME WorkInv, CopyIsStored', ImportSave PROVE WorkInv'
<1>1. init = "ready" /\ flow = Idle /\ ids' = ids + 1 /\ zip # None
      /\ UNCHANGED <<legacy, init, saveTimer, reading, project, projects, view, zip, overtaken>>
  BY DEF ImportSave, Starts, Acts, FlowKeeps
<1>2. PICK data \in {zip.project, [zip.project EXCEPT !.boot = None]} :
        LET p == ProjectFromData(ids + 1, data)
        IN  kv' = Put(kv, p) /\ flow' = [at |-> "import", id |-> ids + 1, held |-> p]
  BY DEF ImportSave
<1>3. \A k \in Kind : NamedApart(data[k])
  <2>1. PICK q : q = zip.project
    OBVIOUS
  <2>2. Sound(q)
    BY <1>1, <2>1 DEF WorkInv, StoreSound
  <2>3. Sound([q EXCEPT !.boot = None])
    BY <2>2, MarkMoved
  <2>4. Sound(data)
    BY <1>2, <2>1, <2>2, <2>3
  <2>. QED BY <2>4 DEF Sound
<1>. DEFINE p == ProjectFromData(ids + 1, data)
<1>4. Sound(p) /\ p.id = ids + 1
  BY <1>3, DataSound
<1>5. kv' = Put(kv, p) /\ flow' = [at |-> "import", id |-> ids + 1, held |-> p]
  BY <1>2
<1>. HIDE DEF p
<1>. QED BY <1>1, <1>4, <1>5, NewProjectKeeps

\* Flows that write nothing yet.
LEMMA ChooseKeeps == ASSUME WorkInv, CopyIsStored', NEW id \in projects, ChooseProject(id) \/ RenameLoad(id) PROVE WorkInv'
<1>1. /\ init = "ready" /\ flow = Idle
      /\ UNCHANGED <<legacy, init, saveTimer, reading, kv, project, projects, view, zip, ids, overtaken>>
  BY DEF ChooseProject, RenameLoad, Starts, Acts, FlowKeeps
<1>2. CopyIsStored /\ StoreSound /\ PageSound /\ TabsSound /\ Follows
  BY <1>1 DEF WorkInv
<1>3. id \in Stored(kv) /\ Sound(Entry(kv, id)) /\ Entry(kv, id).id = id
  BY <1>1, <1>2 DEF PageSound, StoreSound, Idle
<1>4. FlowHeld' /\ flow'.at # "activate"
  <2>1. CASE ChooseProject(id)
    BY <1>1, <1>3, <2>1 DEF ChooseProject, FlowHeld
  <2>2. CASE RenameLoad(id)
    <3>1. PICK p : p = Entry(kv, id)
      OBVIOUS
    <3>. DEFINE q == [p EXCEPT !["name"] = "renamed"]
    <3>2. flow' = [at |-> "rename", id |-> id, held |-> q]
      BY <2>2, <3>1 DEF RenameLoad, Entry
    <3>3. Sound(q) /\ q["name"] = "renamed" /\ q.id = p.id
      BY <1>3, <3>1, FieldSound
    <3>. HIDE DEF q
    <3>. QED BY <1>1, <1>3, <3>1, <3>2, <3>3 DEF FlowHeld
  <2>. QED BY <2>1, <2>2
<1>5. StoreSound' /\ PageSound'
  BY <1>1, <1>2 DEF StoreSound, PageSound, Idle
<1>6. TabsSound'
  BY <1>1, <1>2, <1>4 DEF TabsSound, OpenTabs, view, Idle
<1>7. Follows'
  BY <1>1, <1>2 DEF Follows, Agrees, Untouched, Leaving, Idle
<1>. QED BY <1>1, <1>4, <1>5, <1>6, <1>7 DEF WorkInv

\* A project removed: it may be the one shown, which another then takes over from.
LEMMA DeleteProjectKeeps == ASSUME WorkInv, CopyIsStored', NEW id \in projects, DeleteProject(id) PROVE WorkInv'
<1>1. /\ init = "ready" /\ flow = Idle /\ kv' = RemoveProject(kv, id)
      /\ flow' = [at |-> IF id = project.id THEN "leave" ELSE "drop", id |-> id, held |-> None]
      /\ UNCHANGED <<legacy, init, saveTimer, reading, project, projects, view, zip, ids, overtaken>>
      /\ Cardinality(projects) > 1
  BY DEF DeleteProject, Starts, Acts, FlowKeeps
<1>2. CopyIsStored /\ StoreSound /\ PageSound /\ TabsSound /\ Follows
  BY <1>1 DEF WorkInv
<1>3. /\ Stored(kv') = Stored(kv) \ {id}
      /\ \A j \in Stored(kv') : Entry(kv', j) = Entry(kv, j)
  BY <1>1, <1>2, RemovedOnce DEF CopyIsStored
<1>4. Stored(kv') # {}
  <2>. SUFFICES ASSUME projects \subseteq {id} PROVE FALSE
    BY <1>1, <1>2, <1>3 DEF PageSound, Idle
  <2>1. projects = {id} /\ Cardinality({id}) = 1
    BY FS_Singleton
  <2>2. ~ (1 > 1)
    OBVIOUS
  <2>. QED BY <1>1, <2>1, <2>2
<1>5. flow'.at = IF id = project.id THEN "leave" ELSE "drop"
  BY <1>1
<1>6. StoreSound'
  BY <1>1, <1>2, <1>3 DEF StoreSound
<1>7. PageSound'
  BY <1>1, <1>2, <1>5 DEF PageSound
<1>8. FlowHeld' /\ flow'.at # "activate"
  BY <1>1, <1>4, <1>5 DEF FlowHeld
<1>9. TabsSound'
  BY <1>1, <1>2, <1>8 DEF TabsSound, OpenTabs, view, Idle
<1>10. Follows'
  <2>1. ~saveTimer /\ reading = <<>> /\ ~overtaken => Agrees \/ Untouched
    BY <1>1, <1>2 DEF Follows, Leaving, Idle
  <2>2. CASE id # project.id
    BY <1>1, <1>3, <2>1, <2>2 DEF Follows, Agrees, Untouched
  <2>3. CASE id = project.id
    <3>1. Leaving'
      BY <1>1, <1>3, <1>5, <2>3 DEF Leaving
    <3>. QED BY <3>1 DEF Follows
  <2>. QED BY <2>2, <2>3
<1>. QED BY <1>1, <1>6, <1>7, <1>8, <1>9, <1>10 DEF WorkInv

\* What is switched to is another project, or the one shown, saved meanwhile.
LEMMA DeleteDoneKeeps == ASSUME WorkInv, CopyIsStored', DeleteDone PROVE WorkInv'
<1>1. /\ init = "ready" /\ flow.at \in {"leave", "drop"} /\ projects' = Stored(kv')
      /\ kv' = IF kv.active = flow.id THEN Activate(kv, 0) ELSE kv
      /\ UNCHANGED <<legacy, init, saveTimer, reading, project, view, zip, ids, overtaken>>
  BY DEF DeleteDone, FlowKeeps
<1>2. CopyIsStored /\ StoreSound /\ PageSound /\ TabsSound /\ Follows /\ FlowHeld
  BY <1>1 DEF WorkInv
<1>3. /\ \A id \in Stored(kv') : id \in 1 .. ids' /\ Sound(Entry(kv', id)) /\ Entry(kv', id).id = id
      /\ Stored(kv') = Stored(kv) /\ \A j : Entry(kv', j) = Entry(kv, j)
  <2>1. CASE kv' = kv
    BY <1>1, <1>2, <2>1 DEF StoreSound
  <2>2. CASE kv' = Activate(kv, 0)
    <3>1. Marked(kv, kv') /\ ids' \in {ids, ids + 1}
      BY <1>1, <2>2 DEF Marked
    <3>. QED BY <1>2, <3>1, StoreMarked
  <2>. QED BY <1>1, <2>1, <2>2
<1>4. \/ flow' = Idle /\ flow.at = "drop"
      \/ \E next \in Stored(kv) : flow' = [at |-> "switch", id |-> next, held |-> None]
  <2>1. flow.at = "leave" => projects' # {}
    BY <1>1, <1>2, <1>3 DEF FlowHeld
  <2>2. IF flow.at = "leave" /\ projects' # {}
          THEN \E next \in projects' : flow' = [at |-> "switch", id |-> next, held |-> None]
          ELSE flow' = Idle
    BY DEF DeleteDone
  <2>. QED BY <1>1, <1>3, <2>1, <2>2
<1>5. StoreSound'
  BY <1>1, <1>2, <1>3 DEF StoreSound
<1>6. PageSound'
  BY <1>1, <1>2 DEF PageSound
<1>7. FlowHeld' /\ flow'.at # "activate"
  BY <1>3, <1>4 DEF FlowHeld, Idle
<1>8. TabsSound'
  BY <1>1, <1>2, <1>7 DEF TabsSound, OpenTabs, view
<1>9. Follows'
  <2>. SUFFICES ASSUME ~saveTimer, reading = <<>>, ~overtaken PROVE Agrees' \/ Untouched' \/ Leaving'
    BY <1>1 DEF Follows
  <2>1. Agrees \/ Untouched \/ (flow.at = "leave" /\ project.id \notin Stored(kv))
    BY <1>1, <1>2 DEF Follows, Leaving
  <2>2. Agrees \/ Untouched => Agrees' \/ Untouched'
    BY <1>1, <1>3 DEF Agrees, Untouched
  <2>3. flow.at = "leave" /\ project.id \notin Stored(kv) => Leaving'
    BY <1>1, <1>4 DEF Leaving
  <2>. QED BY <2>1, <2>2, <2>3
<1>. QED BY <1>1, <1>5, <1>6, <1>7, <1>8, <1>9 DEF WorkInv

LEMMA SwitchLoadKeeps == ASSUME WorkInv, CopyIsStored', SwitchLoad PROVE WorkInv'
<1>1. /\ init = "ready" /\ flow.at = "switch" /\ projects' = Stored(kv)
      /\ UNCHANGED <<legacy, init, saveTimer, reading, kv, view, zip, ids, overtaken>>
  BY DEF SwitchLoad, FlowKeeps
<1>2. CopyIsStored /\ StoreSound /\ PageSound /\ TabsSound /\ Follows /\ FlowHeld /\ flow.id \in Stored(kv)
  BY <1>1 DEF WorkInv, FlowHeld
<1>3. StoreSound'
  BY <1>1, <1>2 DEF StoreSound
<1>4. CASE flow.id = project.id
  <2>1. flow' = Idle /\ project' = project
    BY <1>4 DEF SwitchLoad
  <2>2. PageSound' /\ FlowHeld'
    BY <1>1, <1>2, <2>1 DEF PageSound, FlowHeld, Idle
  <2>3. TabsSound'
    BY <1>1, <1>2, <2>1 DEF TabsSound, OpenTabs, view
  <2>4. Follows'
    BY <1>1, <1>2, <1>4, <2>1 DEF Follows, Agrees, Untouched, Leaving
  <2>. QED BY <1>1, <1>3, <2>2, <2>3, <2>4 DEF WorkInv
<1>5. CASE flow.id # project.id
  <2>1. project' = ProjectFromData(flow.id, kv.projects[flow.id]) /\ flow' = [flow EXCEPT !.at = "activate"]
    BY <1>1, <1>2, <1>5 DEF SwitchLoad
  <2>2. Sound(Entry(kv, flow.id)) /\ Entry(kv, flow.id).id = flow.id /\ flow.id \in 1 .. ids
    BY <1>2 DEF StoreSound
  <2>3. project' = Entry(kv, flow.id)
    <3>1. project' = ProjectFromData(Entry(kv, flow.id).id, Entry(kv, flow.id))
      BY <2>1, <2>2 DEF Entry
    <3>. QED BY <2>2, <3>1, ReadBack
  <2>4. flow' = [at |-> "activate", id |-> flow.id, held |-> flow.held]
    BY <1>2, <2>1 DEF FlowHeld
  <2>5. PageSound'
    BY <1>1, <1>2, <2>2, <2>3 DEF PageSound
  <2>6. FlowHeld'
    BY <2>4 DEF FlowHeld
  <2>7. TabsSound'
    BY <1>1, <1>2, <2>4 DEF TabsSound, OpenTabs, view
  <2>8. Follows'
    BY <1>1, <1>2, <2>2, <2>3 DEF Follows, Agrees
  <2>. QED BY <1>1, <1>3, <2>5, <2>6, <2>7, <2>8 DEF WorkInv
<1>. QED BY <1>4, <1>5

LEMMA SwitchDoneKeeps == ASSUME WorkInv, CopyIsStored', SwitchDone PROVE WorkInv'
<1>1. /\ init = "ready" /\ flow.at = "activate" /\ kv' = Activate(kv, flow.id) /\ flow' = Idle
      /\ tabs' = <<PatchTab>> /\ selection' = PatchTab
      /\ UNCHANGED <<legacy, init, saveTimer, reading, project, projects, zip, ids, overtaken>>
  BY DEF SwitchDone, FlowKeeps
<1>2. CopyIsStored /\ StoreSound /\ PageSound /\ Follows
  BY <1>1 DEF WorkInv
<1>3. Marked(kv, kv') /\ ids' \in {ids, ids + 1}
  BY <1>1 DEF Marked
<1>4. /\ \A id \in Stored(kv') : id \in 1 .. ids' /\ Sound(Entry(kv', id)) /\ Entry(kv', id).id = id
      /\ Stored(kv') = Stored(kv) /\ \A j : Entry(kv', j) = Entry(kv, j)
  BY <1>2, <1>3, StoreMarked
<1>5. StoreSound' /\ PageSound'
  BY <1>1, <1>2, <1>4 DEF StoreSound, PageSound
<1>6. FlowHeld'
  BY <1>1 DEF FlowHeld, Idle
<1>7. TabsSound'
  BY <1>1, OnePatchTab, PatchTabIsShown DEF TabsSound, OpenTabs
<1>8. Follows'
  BY <1>1, <1>2, <1>4 DEF Follows, Agrees, Untouched, Leaving
<1>. QED BY <1>1, <1>5, <1>6, <1>7, <1>8 DEF WorkInv

\* A rename saves the project as it was loaded, under the new name.
LEMMA RenameSaveKeeps == ASSUME WorkInv, CopyIsStored', RenameSave PROVE WorkInv'
<1>1. /\ init = "ready" /\ flow.at = "rename" /\ kv' = Put(kv, flow.held) /\ projects' = Stored(kv') /\ flow' = Idle
      /\ UNCHANGED <<legacy, init, saveTimer, reading, tabs, selection, zip, ids>>
  BY DEF RenameSave, FlowKeeps, view
<1>2. CopyIsStored /\ StoreSound /\ PageSound /\ TabsSound /\ Follows /\ ids \in Nat
  BY <1>1 DEF WorkInv, CopyIsStored
<1>3. PICK h, id : h = flow.held /\ id = flow.id
  OBVIOUS
<1>4. id \in Stored(kv) /\ Sound(h) /\ h.id = id /\ h.name = "renamed" /\ id \in 1 .. ids
  BY <1>1, <1>2, <1>3 DEF WorkInv, FlowHeld, StoreSound
<1>5. ids' \in {ids, ids + 1} /\ h.id \in 1 .. ids' /\ kv' = Put(kv, h)
  BY <1>1, <1>3, <1>4
<1>6. /\ \A i \in Stored(kv') : i \in 1 .. ids' /\ Sound(Entry(kv', i)) /\ Entry(kv', i).id = i
      /\ Entry(kv', id) = h /\ id \in Stored(kv') /\ Stored(kv) \subseteq Stored(kv')
      /\ \A j \in Stored(kv) : j # id => Entry(kv', j) = Entry(kv, j)
      /\ \A j \in Stored(kv') : j # id => j \in Stored(kv)
  BY <1>2, <1>4, <1>5, ProjectStored
<1>7. StoreSound'
  BY <1>1, <1>2, <1>6 DEF StoreSound
<1>8. FlowHeld'
  BY <1>1 DEF FlowHeld, Idle
<1>9. CASE project.id = id
  <2>. DEFINE q == [project EXCEPT !["name"] = "renamed"]
  <2>1. /\ project' = q
        /\ overtaken' = (overtaken \/ kv.projects[id] # [h EXCEPT !["name"] = kv.projects[id].name])
    BY <1>3, <1>9 DEF RenameSave
  <2>2. Sound(project)
    BY <1>2 DEF PageSound
  <2>3. Sound(q) /\ q["name"] = "renamed" /\ q.id = project.id /\ \A k \in Kind : q[k] = project[k]
    BY <2>2, FieldSound
  <2>4. PageSound'
    <3>. HIDE DEF q
    <3>. QED BY <1>1, <1>2, <2>1, <2>3 DEF PageSound
  <2>5. TabsSound'
    <3>. HIDE DEF q
    <3>. QED BY <1>1, <1>2, <2>1, <2>3 DEF TabsSound, OpenTabs, Shown, IsTab
  <2>6. ASSUME Agrees, ~overtaken' PROVE q = h
    <3>1. Entry(kv, id) = project /\ project = [h EXCEPT !["name"] = project.name]
      BY <1>9, <2>1, <2>6 DEF Agrees, Entry
    <3>2. \A x \in Fields : x # "name" => project[x] = h[x]
      BY <1>4, <3>1 DEF Sound, IsProject
    <3>3. \A x \in Fields : q[x] = h[x]
      BY <1>4, <2>2, <3>2 DEF Sound, IsProject
    <3>4. q = [x \in Fields |-> q[x]] /\ h = [x \in Fields |-> h[x]]
      BY <1>4, <2>3 DEF Sound, IsProject
    <3>. HIDE DEF q
    <3>. QED BY <3>3, <3>4
  <2>7. Follows'
    <3>1. ~Untouched /\ ~Leaving
      BY <1>1, <1>4, <1>9 DEF Untouched, Leaving
    <3>2. project'.id = id
      BY <1>9, <2>1, <2>3
    <3>. HIDE DEF q
    <3>3. ASSUME ~saveTimer, reading = <<>>, ~overtaken' PROVE Agrees'
      <4>1. Agrees
        BY <1>2, <2>1, <3>1, <3>3 DEF Follows
      <4>. QED BY <1>6, <2>1, <2>6, <3>2, <3>3, <4>1 DEF Agrees
    <3>. QED BY <1>1, <3>3 DEF Follows
  <2>. QED BY <1>1, <1>7, <1>8, <2>4, <2>5, <2>7 DEF WorkInv
<1>10. CASE project.id # id
  <2>1. project' = project /\ overtaken' = overtaken
    BY <1>3, <1>10 DEF RenameSave
  <2>2. PageSound'
    BY <1>1, <1>2, <2>1 DEF PageSound
  <2>3. TabsSound'
    BY <1>1, <1>2, <2>1 DEF TabsSound, OpenTabs
  <2>4. Follows'
    BY <1>1, <1>2, <1>6, <1>10, <2>1 DEF Follows, Agrees, Untouched, Leaving
  <2>. QED BY <1>1, <1>7, <1>8, <2>2, <2>3, <2>4 DEF WorkInv
<1>. QED BY <1>9, <1>10

LEMMA ImportDoneKeeps == ASSUME WorkInv, CopyIsStored', ImportDone PROVE WorkInv'
<1>1. /\ init = "ready" /\ flow.at = "import" /\ kv' = Activate(kv, flow.id) /\ projects' = Stored(kv')
      /\ flow' = Idle /\ project' = flow.held /\ tabs' = <<PatchTab>> /\ selection' = PatchTab
      /\ UNCHANGED <<legacy, init, saveTimer, reading, zip, ids>>
  BY DEF ImportDone, FlowKeeps
<1>2. CopyIsStored /\ StoreSound /\ PageSound
  BY <1>1 DEF WorkInv
<1>3. /\ flow.id \in Stored(kv) /\ Entry(kv, flow.id) = flow.held /\ Sound(flow.held) /\ flow.held.id = flow.id
      /\ flow.id \in 1 .. ids
  BY <1>1, <1>2 DEF WorkInv, FlowHeld, StoreSound
<1>4. Marked(kv, kv') /\ ids' \in {ids, ids + 1}
  BY <1>1 DEF Marked
<1>5. /\ \A id \in Stored(kv') : id \in 1 .. ids' /\ Sound(Entry(kv', id)) /\ Entry(kv', id).id = id
      /\ Stored(kv') = Stored(kv) /\ \A j : Entry(kv', j) = Entry(kv, j)
  BY <1>2, <1>4, StoreMarked
<1>6. StoreSound'
  BY <1>1, <1>2, <1>5 DEF StoreSound
<1>7. PageSound'
  BY <1>1, <1>2, <1>3, <1>5 DEF PageSound
<1>8. FlowHeld'
  BY <1>1 DEF FlowHeld, Idle
<1>9. TabsSound'
  BY <1>1, OnePatchTab, PatchTabIsShown DEF TabsSound, OpenTabs
<1>10. Follows'
  BY <1>1, <1>3, <1>5 DEF Follows, Agrees
<1>. QED BY <1>1, <1>6, <1>7, <1>8, <1>9, <1>10 DEF WorkInv

LEMMA ExportKeeps == ASSUME WorkInv, CopyIsStored', Export PROVE WorkInv'
<1>1. /\ init = "ready" /\ zip' = [project |-> project, bundle |-> compiled # 0]
      /\ UNCHANGED <<durable, kv, legacy, init, project, projects, view, saveTimer, reading, flow, ids, overtaken>>
  BY DEF Export, Acts, storage
<1>2. StoreSound'
  BY <1>1 DEF WorkInv, StoreSound, PageSound
<1>3. PageSound' /\ FlowHeld'
  BY <1>1 DEF WorkInv, PageSound, FlowHeld
<1>4. TabsSound'
  BY <1>1 DEF WorkInv, TabsSound, OpenTabs, view
<1>5. Follows'
  BY <1>1 DEF WorkInv, Follows, Agrees, Untouched, Leaving
<1>. QED BY <1>1, <1>2, <1>3, <1>4, <1>5 DEF WorkInv

LEMMA WorkKeeps == ASSUME WorkInv, WorkNext PROVE WorkInv' /\ Forgotten
<1>1. CopyIsStored' /\ Forgotten
  BY WorkKeepsCopy DEF WorkInv
<1>2. CASE Boot \/ Reload \/ SaveTimerFires
  BY <1>1, <1>2, BootKeeps, ReloadKeeps, AutosaveKeeps
<1>3. CASE Edits \/ SelectTab
  <2>1. ASSUME NEW t, EditText(t) \/ TypeShow(t) PROVE WorkInv'
    BY <2>1, EditKeeps
  <2>2. CASE SelectTab
    BY <1>1, <2>2, SelectTabKeeps
  <2>. QED BY <1>1, <1>3, <2>1, <2>2 DEF Edits
<1>4. CASE init = "ready" /\ (Rows \/ \E n \in Typed, t \in Texts : SaveToLibrary(n, t))
  <2>1. CASE Rows
    BY <1>1, <2>1, RowsKeep
  <2>2. CASE \E n \in Typed, t \in Texts : SaveToLibrary(n, t)
    BY <1>1, <2>2, NewKeeps
  <2>. QED BY <1>4, <2>1, <2>2
<1>5. CASE (\E fs \in Drops : DropFiles(fs)) \/ ReadFile \/ CompileShowNow
  <2>1. ASSUME NEW fs \in Drops, DropFiles(fs) PROVE WorkInv'
    BY <2>1, DropFilesKeeps
  <2>2. CASE ReadFile
    BY <1>1, <2>2, ReadFileKeeps
  <2>3. CASE CompileShowNow
    BY <1>1, <2>3, CompileKeeps
  <2>. QED BY <1>1, <1>5, <2>1, <2>2, <2>3
<1>6. CASE Flows
  BY <1>1, <1>6, CreateKeeps, ExportKeeps, ImportSaveKeeps, ChooseKeeps, DeleteProjectKeeps DEF Flows
<1>7. CASE Continues
  BY <1>1, <1>7, DeleteDoneKeeps, SwitchLoadKeeps, SwitchDoneKeeps, RenameSaveKeeps, ImportDoneKeeps DEF Continues
<1>. QED BY <1>1, <1>2, <1>3, <1>4, <1>5, <1>6, <1>7 DEF WorkNext

LEMMA WorkStarts == WorkInit => WorkInv
<1>1. WorkInit => CopyIsStored
  BY CopyInit
<1>2. WorkInit => StoreSound
  BY NothingStored DEF WorkInit, StoreSound
<1>3. WorkInit => init # "ready" /\ AtStart
  BY DEF WorkInit, AtStart
<1>. QED BY <1>1, <1>2, <1>3 DEF WorkInv

--------------------------------------------------------------------------------
(* The workspace beside its sync: the sync changes it only by a pull.          *)

\* What is on its way is on its way over an open connection, of a started page.
Linked ==
  /\ linked # "open" => requested = <<>> /\ answers = <<>>
  /\ init # "ready" => linked = "off"

LEMMA InitSteps == ASSUME WorkNext PROVE init = "ready" => init' \in {"ready", "migrate"}
<1>1. CASE Boot
  BY <1>1 DEF Boot, BootStep, MarkMigrated, CopyLegacy, ActivateCopy, NoSeedBesides, ForgetLegacy, MarkSeeded,
              Plant, Claim, LoadActive
<1>2. CASE Reload \/ SaveTimerFires
  BY <1>2 DEF Reload, SaveTimerFires
<1>3. CASE \/ Edits \/ SelectTab \/ (init = "ready" /\ (Rows \/ \E n \in Typed, t \in Texts : SaveToLibrary(n, t)))
           \/ (\E fs \in Drops : DropFiles(fs)) \/ ReadFile \/ CompileShowNow
  BY <1>3 DEF Edits, EditText, TypeShow, SelectTab, Rows, NewFixture, NewController, NewShow, DuplicateRow,
              DeleteRow, RenameRow, ToggleBoot, RowsLeft, SaveToLibrary, DropFiles, ReadFile, CompileShowNow,
              Changes, AtWork
<1>4. CASE Flows \/ Continues
  BY <1>4 DEF Flows, Continues, CreateProject, Export, ImportSave, ChooseProject, DeleteProject, RenameLoad,
              DeleteDone, SwitchLoad, SwitchDone, RenameSave, ImportDone, FlowKeeps
<1>. QED BY <1>1, <1>2, <1>3, <1>4 DEF WorkNext

LEMMA LinkKeeps == ASSUME Linked, [SyncNext]_syncVars PROVE Linked'
<1>1. CASE Workplace
  BY <1>1, InitSteps DEF Workplace, Linked, channel
<1>2. CASE Leaves
  BY <1>2 DEF Leaves, Linked
<1>3. CASE PressReconcile \/ Follow \/ TimesOut \/ ConnectSync \/ CloseSync \/ Loses
  BY <1>3 DEF PressReconcile, Follow, Push, Pull, Presses, TimesOut, ConnectSync, CloseSync, Loses, Acts, WorkKept,
              Linked, channel
<1>4. CASE (\E w \in waits : OldTimesOut(w)) \/ Relinked
  BY <1>4 DEF OldTimesOut, Relinked, Quietly, workVars, channel, Linked
<1>5. CASE OnRemoteScripts
  BY <1>5 DEF OnRemoteScripts, Quietly, workVars, Linked
<1>6. CASE OnRemoteScript
  BY <1>6 DEF OnRemoteScript, workVars, Linked
<1>7. CASE DeviceServes
  BY <1>7 DEF DeviceServes, workVars, Linked
<1>8. CASE \E r \in Remarks : OtherConsole(r)
  BY <1>8 DEF OtherConsole, WorkKept, channel, Linked
<1>9. CASE UNCHANGED syncVars
  BY <1>9 DEF syncVars, workVars, channel, Linked
<1>. QED BY <1>1, <1>2, <1>3, <1>4, <1>5, <1>6, <1>7, <1>8, <1>9 DEF SyncNext

\* All the rest of what changes the workspace.
WorkStays ==
  UNCHANGED <<durable, kv, legacy, init, project, projects, tabs, selection, saveTimer, reading, flow, zip, ids,
              overtaken>>

LEMMA WorkStaysSound == ASSUME WorkInv, WorkStays PROVE WorkInv' /\ Forgotten
<1>1. CopyIsStored' /\ StoreSound' /\ Forgotten
  BY DEF WorkInv, WorkStays, CopyIsStored, StoreSound, Forgotten
<1>2. PageSound <=> PageSound'
  BY DEF WorkStays, PageSound
<1>3. TabsSound <=> TabsSound'
  BY DEF WorkStays, TabsSound, OpenTabs
<1>4. (FlowHeld <=> FlowHeld') /\ (AtStart <=> AtStart')
  BY DEF WorkStays, FlowHeld, AtStart
<1>5. Follows <=> Follows'
  BY DEF WorkStays, Follows, Agrees, Untouched, Leaving
<1>. QED BY <1>1, <1>2, <1>3, <1>4, <1>5 DEF WorkInv, WorkStays

\* A pull writes into whatever project is shown.
LEMMA PullSound ==
  ASSUME WorkInv, init = "ready", NEW n, NEW t, saveTimer' = TRUE,
         project' = IF n \in Names THEN SetText(project, "fnl", n, t) ELSE AddShow(project, n, t),
         UNCHANGED <<storage, init, projects, tabs, selection, reading, flow, zip, ids, overtaken>>
  PROVE  WorkInv' /\ Forgotten
<1>1. Sound(project) /\ "fnl" \in Kind /\ project["fnl"] = project.fnl
  BY DEF WorkInv, PageSound, Kind
<1>2. /\ Sound(project') /\ project'.id = project.id
      /\ \A k \in Kind : NamesOf(project[k]) \subseteq NamesOf(project'[k])
  <2>1. CASE n \in Names
    <3>1. project' = SetText(project, "fnl", n, t)
      BY <2>1
    <3>. QED BY <1>1, <3>1, SetTextSound
  <2>2. CASE n \notin Names
    <3>1. project' = AddShow(project, n, t) /\ n \notin NamesOf(project.fnl)
      BY <2>2 DEF Names
    <3>2. /\ Sound(project') /\ project'.id = project.id
          /\ NamesOf(project'["fnl"]) = NamesOf(project["fnl"]) \cup {n}
          /\ \A j \in Kind \ {"fnl"} : project'[j] = project[j]
      BY <1>1, <3>1, AddShowSound
    <3>. QED BY <3>2
  <2>. QED BY <2>1, <2>2
<1>3. WorkInv'
  <2>1. AtWork
    BY DEF AtWork
  <2>. QED BY <1>2, <2>1, NoNameGoes, PatchTabIsShown
<1>. QED BY <1>3 DEF Forgotten, storage

LEMMA SyncKeepsWork == ASSUME WorkInv, Linked, [SyncNext]_syncVars PROVE WorkInv' /\ Forgotten
<1>1. CASE Workplace \/ Leaves
  BY <1>1, WorkKeeps DEF Workplace, Leaves
<1>2. CASE PressReconcile \/ Follow \/ TimesOut \/ ConnectSync \/ CloseSync \/ Loses \/ \E r \in Remarks : OtherConsole(r)
  <2>1. WorkStays
    BY <1>2 DEF PressReconcile, Follow, Push, Pull, Presses, TimesOut, ConnectSync, CloseSync, Loses, OtherConsole,
                WorkKept, WorkStays, storage, view
  <2>. QED BY <2>1, WorkStaysSound
<1>3. CASE OnRemoteScripts \/ (\E w \in waits : OldTimesOut(w)) \/ Relinked \/ DeviceServes \/ UNCHANGED syncVars
  <2>1. UNCHANGED workVars
    BY <1>3 DEF OnRemoteScripts, OldTimesOut, Relinked, DeviceServes, Quietly, syncVars
  <2>2. WorkStays
    BY <2>1 DEF workVars, WorkStays, storage, view
  <2>. QED BY <2>2, WorkStaysSound
<1>4. CASE OnRemoteScript
  <2>1. CASE UNCHANGED workVars
    <3>1. WorkStays
      BY <2>1 DEF workVars, WorkStays, storage, view
    <3>. QED BY <3>1, WorkStaysSound
  <2>2. CASE ~ UNCHANGED workVars
    <3>1. init = "ready"
      BY <1>4 DEF OnRemoteScript, Linked
    <3>2. PICK n, t : n = Head(answers).name /\ t = Head(answers).text
      OBVIOUS
    <3>3. /\ project' = IF n \in Names THEN SetText(project, "fnl", n, t) ELSE AddShow(project, n, t)
          /\ saveTimer' = TRUE
          /\ UNCHANGED <<storage, init, projects, tabs, selection, reading, flow, zip, ids, overtaken>>
      BY <1>4, <2>2, <3>2 DEF OnRemoteScript
    <3>. QED BY <3>1, <3>3, PullSound
  <2>. QED BY <2>1, <2>2
<1>. QED BY <1>1, <1>2, <1>3, <1>4 DEF SyncNext

\* The workspace and its sync, whatever is typed, dropped, renamed, imported,
\* pulled and reloaded, and whenever the storage answers.
LEMMA WorkHolds == SyncSpec => [](WorkInv /\ Linked)
<1>1. SyncInit => WorkInv /\ Linked
  BY WorkStarts DEF SyncInit, Linked
<1>2. WorkInv /\ Linked /\ [SyncNext]_syncVars => (WorkInv /\ Linked)'
  BY SyncKeepsWork, LinkKeeps
<1>. QED BY <1>1, <1>2, PTL DEF SyncSpec

(* What names a file names one that is there, and no file is named twice: the  *)
(* boot marks in memory and in the storage, the tabs and the selection.        *)
THEOREM NamesAlwaysHold == SyncSpec => []NamesHold
<1>1. WorkInv => NamesHold
  BY WorkInvGives
<1>. QED BY <1>1, WorkHolds, PTL

(* At rest the storage has the project the page shows, unless a rename wrote   *)
(* over an autosave.                                                           *)
THEOREM StoreAlwaysFollows == SyncSpec => []StoreFollows
<1>1. WorkInv => StoreFollows
  BY WorkInvGives
<1>. QED BY <1>1, WorkHolds, PTL

(* The workspace an older page left is forgotten only when the storage has a   *)
(* copy of it.                                                                 *)
THEOREM LegacyIsKept == SyncSpec => LegacyKept
<1>1. WorkInv /\ Linked /\ [SyncNext]_syncVars => [Forgotten]_workVars
  BY SyncKeepsWork
<1>. QED BY <1>1, WorkHolds, PTL DEF SyncSpec, LegacyKept, Forgotten

--------------------------------------------------------------------------------
(* The sync: no text the device never had is taken for an agreed one, but for  *)
(* a push that failed or is on its way.                                        *)

Saves(q) == {<<q[i].name, q[i].text>> : i \in {j \in DOMAIN q : q[j].op = "save"}}

LEMMA LosingIsSaves == Losing = Saves(requested)
BY DEF Losing, Saves

LEMMA SavesJoined ==
  ASSUME NEW f, IsList(f), NEW g, IsList(g)
  PROVE  IsList(f \o g) /\ Saves(f \o g) = Saves(f) \cup Saves(g)
<1>. DEFINE T == Range(f) \cup Range(g)
            h == f \o g
<1>1. f \in Seq(Range(f)) /\ g \in Seq(Range(g)) /\ Range(f) \subseteq T /\ Range(g) \subseteq T
  BY DEF IsList
<1>. HIDE DEF T
<1>2. f \in Seq(T) /\ g \in Seq(T)
  BY <1>1
<1>3. /\ Len(f) \in Nat /\ Len(g) \in Nat /\ DOMAIN f = 1 .. Len(f) /\ DOMAIN g = 1 .. Len(g)
      /\ h \in Seq(T) /\ Len(h) = Len(f) + Len(g) /\ DOMAIN h = 1 .. Len(h)
      /\ \A i \in 1 .. Len(h) : h[i] = IF i <= Len(f) THEN f[i] ELSE g[i - Len(f)]
  BY <1>2
<1>. HIDE DEF h
<1>4. IsList(h)
  BY <1>3, SequenceIsList
<1>5. \A i \in DOMAIN f : i \in DOMAIN h /\ h[i] = f[i]
  BY <1>3
<1>6. \A i \in DOMAIN g : Len(f) + i \in DOMAIN h /\ h[Len(f) + i] = g[i]
  BY <1>3
<1>7. \A i \in DOMAIN h : (i \in DOMAIN f /\ h[i] = f[i]) \/ (i - Len(f) \in DOMAIN g /\ h[i] = g[i - Len(f)])
  BY <1>3
<1>8. Saves(h) = Saves(f) \cup Saves(g)
  <2>1. Saves(f) \subseteq Saves(h)
    BY <1>5 DEF Saves
  <2>2. Saves(g) \subseteq Saves(h)
    BY <1>6 DEF Saves
  <2>3. Saves(h) \subseteq Saves(f) \cup Saves(g)
    BY <1>7 DEF Saves
  <2>. QED BY <2>1, <2>2, <2>3
<1>. QED BY <1>4, <1>8 DEF h

LEMMA SavesAppended ==
  ASSUME NEW f, IsList(f), NEW x
  PROVE  /\ IsList(Append(f, x))
         /\ x.op # "save" => Saves(Append(f, x)) = Saves(f)
         /\ x.op = "save" => Saves(Append(f, x)) = Saves(f) \cup {<<x.name, x.text>>}
<1>. DEFINE g == Append(f, x)
<1>1. /\ IsList(g) /\ DOMAIN g = 1 .. Len(f) + 1 /\ g[Len(f) + 1] = x
      /\ \A i \in DOMAIN f : i \in DOMAIN g /\ g[i] = f[i]
      /\ \A i \in DOMAIN g : i \in DOMAIN f \/ i = Len(f) + 1
  BY AppendedList
<1>2. Len(f) + 1 \in DOMAIN g
  BY <1>1, PlacesOfList
<1>. HIDE DEF g
<1>3. Saves(f) \subseteq Saves(g)
  BY <1>1 DEF Saves
<1>4. CASE x.op # "save"
  <2>1. Saves(g) \subseteq Saves(f)
    BY <1>1, <1>4 DEF Saves
  <2>. QED BY <1>1, <1>3, <1>4, <2>1 DEF g
<1>5. CASE x.op = "save"
  <2>1. Saves(g) \subseteq Saves(f) \cup {<<x.name, x.text>>}
    BY <1>1 DEF Saves
  <2>2. <<x.name, x.text>> \in Saves(g)
    BY <1>1, <1>2, <1>5 DEF Saves
  <2>. QED BY <1>1, <1>3, <1>5, <2>1, <2>2 DEF g
<1>. QED BY <1>4, <1>5

LEMMA FirstTaken ==
  ASSUME NEW f, IsList(f), f # <<>>
  PROVE  /\ IsList(Tail(f)) /\ Head(f) \in Range(f) /\ Range(Tail(f)) \subseteq Range(f)
         /\ Saves(f) \subseteq Saves(Tail(f)) \cup {<<Head(f).name, Head(f).text>>}
         /\ Head(f).op # "save" => Saves(f) \subseteq Saves(Tail(f))
<1>. DEFINE T == Range(f)
            g == Tail(f)
<1>1. f \in Seq(T)
  BY DEF IsList
<1>. HIDE DEF T
<1>2. /\ Len(f) \in Nat /\ DOMAIN f = 1 .. Len(f) /\ Len(f) >= 1 /\ Head(f) = f[1]
      /\ g \in Seq(T) /\ Len(g) = Len(f) - 1 /\ DOMAIN g = 1 .. Len(g)
      /\ \A i \in 1 .. Len(g) : g[i] = f[i + 1]
  BY <1>1
<1>. HIDE DEF g
<1>3. IsList(g)
  BY <1>2, SequenceIsList
<1>4. \A i \in DOMAIN g : i + 1 \in DOMAIN f /\ g[i] = f[i + 1]
  BY <1>2
<1>5. 1 \in DOMAIN f /\ \A i \in DOMAIN f : i = 1 \/ (i - 1 \in DOMAIN g /\ g[i - 1] = f[i])
  BY <1>2
<1>6. Head(f) \in Range(f) /\ Range(g) \subseteq Range(f)
  BY <1>2, <1>4, <1>5 DEF Range
<1>7. Saves(f) \subseteq Saves(g) \cup {<<f[1].name, f[1].text>>}
  BY <1>5 DEF Saves
<1>8. f[1].op # "save" => Saves(f) \subseteq Saves(g)
  BY <1>5 DEF Saves
<1>. QED BY <1>2, <1>3, <1>6, <1>7, <1>8 DEF g

LEMMA Appends ==
  ASSUME NEW f, IsList(f), NEW x
  PROVE  IsList(Append(f, x)) /\ Range(Append(f, x)) = Range(f) \cup {x}
<1>. DEFINE g == Append(f, x)
<1>1. /\ IsList(g) /\ DOMAIN g = 1 .. Len(f) + 1 /\ g[Len(f) + 1] = x
      /\ \A i \in DOMAIN f : i \in DOMAIN g /\ g[i] = f[i]
      /\ \A i \in DOMAIN g : i \in DOMAIN f \/ i = Len(f) + 1
  BY AppendedList
<1>2. Len(f) + 1 \in DOMAIN g
  BY <1>1, PlacesOfList
<1>. HIDE DEF g
<1>3. Range(g) = Range(f) \cup {x}
  BY <1>1, <1>2 DEF Range
<1>. QED BY <1>1, <1>3 DEF g

\* A finite set in some order.
LEMMA SetInOrder ==
  ASSUME NEW S, IsFiniteSet(S)
  PROVE  IsList(SetToSeq(S)) /\ \A i \in DOMAIN SetToSeq(S) : SetToSeq(S)[i] \in S
<1>. DEFINE n == Cardinality(S)
            Ordered(f) == f \in [1 .. n -> S] /\ \A i, j \in DOMAIN f : f[i] = f[j] => i = j
<1>1. n \in Nat
  BY FS_CardinalityType
<1>2. PICK f \in Bijection(1 .. n, S) : TRUE
  <2>1. ExistsBijection(1 .. n, S)
    BY FS_CountingElements, FS_NatBijection, <1>1
  <2>. QED BY <2>1 DEF ExistsBijection
<1>3. f \in [1 .. n -> S] /\ IsInjective(f)
  BY <1>2 DEF Bijection, Injection, IsInjective
<1>4. SetToSeq(S) = CHOOSE g \in [1 .. n -> S] : IsInjective(g)
  BY DEF SetToSeq
<1>5. SetToSeq(S) \in [1 .. n -> S]
  BY <1>3, <1>4
<1>6. SetToSeq(S) \in Seq(S)
  BY <1>1, <1>5
<1>. HIDE DEF n
<1>7. DOMAIN SetToSeq(S) = 1 .. n
  BY <1>5
<1>. QED BY <1>5, <1>6, <1>7, SequenceIsList

\* A text the device has had, an empty one, or one of a push that failed or is on its way.
Accounted(n, t, lost, had) ==
  t = Blank \/ (n \in DOMAIN had /\ t \in had[n]) \/ <<n, t>> \in lost

\* What is lost with the connection, or was lost.
Lost == failed \cup Saves(requested)

AllAgreed(s, lost, had) == \A n \in DOMAIN s : Accounted(n, s[n], lost, had)

Explained(f, lost, had) ==
  \A n \in DOMAIN f : f[n].status = "device-changed" => Accounted(n, f[n].localText, lost, had)

IsWait(w) ==
  w.op = "files" =>
    w = [op |-> "files", old |-> w.old, local |-> w.local, got |-> w.got, only |-> w.only, behind |-> w.behind]

WaitsExplained(ws, lost, had) == \A w \in ws : IsWait(w) /\ (w.op = "files" => Explained(w.got, lost, had))

\* All that is known still is of texts accounted for.
Reports(s, ws, f, lost, had) == AllAgreed(s, lost, had) /\ WaitsExplained(ws, lost, had) /\ Explained(f, lost, had)

\* Accounts that keep what others have.
Covers(lost, had, lost2, had2) == \A n, t : Accounted(n, t, lost, had) => Accounted(n, t, lost2, had2)

LEMMA ReportsStay ==
  ASSUME NEW s, NEW ws, NEW f, NEW lost, NEW had, NEW lost2, NEW had2,
         Reports(s, ws, f, lost, had), Covers(lost, had, lost2, had2)
  PROVE  Reports(s, ws, f, lost2, had2)
<1>1. AllAgreed(s, lost2, had2)
  BY DEF Reports, Covers, AllAgreed
<1>2. ASSUME NEW g, Explained(g, lost, had) PROVE Explained(g, lost2, had2)
  BY <1>2 DEF Covers, Explained
<1>3. WaitsExplained(ws, lost2, had2)
  BY <1>2 DEF Reports, WaitsExplained
<1>. QED BY <1>1, <1>2, <1>3 DEF Reports

LEMMA MoreIsLost ==
  ASSUME NEW lost, NEW had, NEW lost2, lost \subseteq lost2
  PROVE  Covers(lost, had, lost2, had)
BY DEF Covers, Accounted

\* "device-changed" is said of a local text that is the agreed one; one whose
\* agreement a pull has just recorded has not changed.
LEMMA ReportExplained ==
  ASSUME NEW s, NEW lost, NEW had, s = synced, AllAgreed(s, lost, had), NEW n, NEW localText, NEW deviceText,
         NEW agreed, agreed = KnownFor(n) \/ agreed = deviceText
  PROVE  LET r == Report(n, localText, deviceText, agreed)
         IN  /\ r.status = "device-changed" => Accounted(n, r.localText, lost, had)
             /\ deviceText = None => r.status # "device-changed"
<1>. DEFINE st == ComputeSyncStatus(localText, deviceText, agreed)
            r == [status |-> st, localText |-> localText, deviceText |-> deviceText]
<1>1. Report(n, localText, deviceText, agreed) = r
  BY DEF Report
<1>2. st = "device-changed" => localText # None /\ deviceText # None /\ KnownFor(n) = localText
  BY DEF ComputeSyncStatus
<1>3. KnownFor(n) = IF n \in DOMAIN s THEN s[n] ELSE None
  BY DEF KnownFor
<1>4. st = "device-changed" => Accounted(n, localText, lost, had)
  BY <1>2, <1>3 DEF AllAgreed
<1>. HIDE DEF st
<1>5. r.status = st /\ r.localText = localText
  OBVIOUS
<1>. HIDE DEF r
<1>. QED BY <1>1, <1>2, <1>4, <1>5

LEMMA ExplainedMore ==
  ASSUME NEW g, NEW lost, NEW had, Explained(g, lost, had), NEW n, NEW r,
         r.status = "device-changed" => Accounted(n, r.localText, lost, had)
  PROVE  Explained(With(g, n, r), lost, had)
<1>. DEFINE h == With(g, n, r)
<1>1. \A m \in DOMAIN h : (m = n /\ h[m] = r) \/ (m \in DOMAIN g /\ h[m] = g[m])
  BY DEF With
<1>. HIDE DEF h
<1>. QED BY <1>1 DEF Explained, h

LEMMA ExplainedOver ==
  ASSUME NEW g, NEW h, NEW lost, NEW had, Explained(g, lost, had),
         \A n \in DOMAIN h : h[n].status # "device-changed"
  PROVE  Explained(Over(g, h), lost, had)
<1>. DEFINE o == Over(g, h)
<1>1. \A m \in DOMAIN o : (m \in DOMAIN g /\ o[m] = g[m]) \/ (m \in DOMAIN h /\ o[m] = h[m])
  BY DEF Over
<1>. HIDE DEF o
<1>. QED BY <1>1 DEF Explained, o

\* Those who wait are told of a text.
LEMMA ToldExplained ==
  ASSUME NEW lost, NEW had, NEW s, s = synced, AllAgreed(s, lost, had), WaitsExplained(waits, lost, had), NEW n, NEW t
  PROVE  WaitsExplained(Told(n, t), lost, had)
<1>. SUFFICES ASSUME NEW x \in Told(n, t) PROVE IsWait(x) /\ (x.op = "files" => Explained(x.got, lost, had))
  BY DEF WaitsExplained
<1>. DEFINE agreed(w) == IF n \in w.behind THEN t ELSE KnownFor(n)
<1>1. PICK w \in waits : x = IF w.op = "files" /\ ~w.old /\ n \in DOMAIN w.local \ DOMAIN w.got
                               THEN [w EXCEPT !.got = With(@, n, Report(n, w.local[n], t, agreed(w)))] ELSE w
  BY DEF Told
<1>2. IsWait(w) /\ (w.op = "files" => Explained(w.got, lost, had))
  BY DEF WaitsExplained
<1>3. CASE x = w
  BY <1>2, <1>3
<1>4. CASE w.op = "files" /\ x = [w EXCEPT !.got = With(@, n, Report(n, w.local[n], t, agreed(w)))]
  <2>1. PICK r, a : a = agreed(w) /\ r = Report(n, w.local[n], t, a)
    OBVIOUS
  <2>2. r.status = "device-changed" => Accounted(n, r.localText, lost, had)
    BY <2>1, ReportExplained
  <2>3. PICK g : g = With(w.got, n, r)
    OBVIOUS
  <2>4. Explained(g, lost, had)
    BY <1>2, <1>4, <2>2, <2>3, ExplainedMore
  <2>5. w = [op |-> "files", old |-> w.old, local |-> w.local, got |-> w.got, only |-> w.only,
            behind |-> w.behind]
    BY <1>2, <1>4 DEF IsWait
  <2>6. x = [w EXCEPT !.got = g]
    BY <1>4, <2>1, <2>3
  <2>7. x = [op |-> "files", old |-> w.old, local |-> w.local, got |-> g, only |-> w.only,
            behind |-> w.behind]
    BY <2>5, <2>6
  <2>. QED BY <2>4, <2>7 DEF IsWait
<1>. QED BY <1>1, <1>3, <1>4

\* A finished reconciliation shows what it got.
LEMMA SettlesExplained ==
  ASSUME NEW lost, NEW had, NEW ws, WaitsExplained(ws, lost, had), Explained(fileStatus, lost, had),
         IF Finished(ws) = {} THEN UNCHANGED fileStatus ELSE \E w \in Finished(ws) : fileStatus' = Results(w)
  PROVE  WaitsExplained(ws \ Finished(ws), lost, had) /\ Explained(fileStatus', lost, had)
<1>1. WaitsExplained(ws \ Finished(ws), lost, had)
  BY DEF WaitsExplained
<1>2. ASSUME NEW w \in Finished(ws) PROVE Explained(Results(w), lost, had)
  <2>1. w \in ws /\ w.op = "files"
    BY DEF Finished
  <2>2. PICK g : g = w.got
    OBVIOUS
  <2>3. Explained(g, lost, had)
    BY <2>1, <2>2 DEF WaitsExplained
  <2>. DEFINE h == [n \in w.only |-> [status |-> "device-only", localText |-> None, deviceText |-> None]]
  <2>4. \A n \in DOMAIN h : h[n].status # "device-changed"
    OBVIOUS
  <2>5. Results(w) = Over(g, h)
    BY <2>2 DEF Results
  <2>. HIDE DEF h
  <2>. QED BY <2>3, <2>4, <2>5, ExplainedOver
<1>. QED BY <1>1, <1>2

LEMMA FreshWaits ==
  ASSUME NEW lost, NEW had
  PROVE  /\ WaitsExplained({Listing}, lost, had) /\ \A n : WaitsExplained({Pulling(n)}, lost, had)
         /\ \A local, only : WaitsExplained({Checking(local, only)}, lost, had)
         /\ \A ws, vs : WaitsExplained(ws, lost, had) /\ WaitsExplained(vs, lost, had) => WaitsExplained(ws \cup vs, lost, had)
         /\ \A ws, vs : WaitsExplained(ws, lost, had) /\ vs \subseteq ws => WaitsExplained(vs, lost, had)
<1>1. Explained(<<>>, lost, had)
  BY DEF Explained
<1>2. ASSUME NEW local, NEW only PROVE WaitsExplained({Checking(local, only)}, lost, had)
  <2>1. IsWait(Checking(local, only)) /\ Checking(local, only).got = <<>>
    BY DEF IsWait, Checking
  <2>. QED BY <1>1, <2>1 DEF WaitsExplained
<1>. QED BY <1>2 DEF WaitsExplained, IsWait, Listing, Pulling

LEMMA OutdatedExplained ==
  ASSUME NEW lost, NEW had, WaitsExplained(waits, lost, had)
  PROVE  WaitsExplained(Outdated, lost, had)
<1>. SUFFICES ASSUME NEW x \in Outdated PROVE IsWait(x) /\ (x.op = "files" => Explained(x.got, lost, had))
  BY DEF WaitsExplained
<1>1. PICK w \in waits : x = [w EXCEPT !.old = TRUE]
  BY DEF Outdated
<1>2. x.op = w.op /\ x.got = w.got
  BY <1>1
<1>3. CASE w.op = "files"
  <2>1. PICK o, l, g, y, b : w = [op |-> "files", old |-> o, local |-> l, got |-> g, only |-> y, behind |-> b]
    BY <1>3 DEF WaitsExplained, IsWait
  <2>2. x = [op |-> "files", old |-> TRUE, local |-> l, got |-> g, only |-> y, behind |-> b]
    BY <1>1, <2>1
  <2>. QED BY <1>2, <1>3, <2>2 DEF WaitsExplained, IsWait
<1>4. CASE w.op # "files"
  BY <1>2, <1>4 DEF IsWait
<1>. QED BY <1>3, <1>4

\* The requests for lists and texts lose nothing.
LEMMA OneRequest == \A r : IsList(<<r>>) /\ (r.op # "save" => Saves(<<r>>) = {})
<1>1. TAKE r
<1>2. DOMAIN <<r>> = {1} /\ <<r>>[1] = r /\ <<r>> \in Seq({r})
  OBVIOUS
<1>3. r.op # "save" => Saves(<<r>>) = {}
  BY <1>2 DEF Saves
<1>. QED BY <1>2, <1>3, SequenceIsList

LEMMA NoRequest == IsList(<<>>) /\ Saves(<<>>) = {}
<1>1. DOMAIN <<>> = {} /\ <<>> \in Seq({})
  OBVIOUS
<1>. QED BY <1>1, SequenceIsList DEF Saves

LEMMA ListAsked ==
  ASSUME NEW first, IsList(first), NEW ws, ListRemote(first, ws)
  PROVE  IsList(requested') /\ Saves(requested') = Saves(first) /\ waits' = ws \cup {Listing}
<1>. DEFINE r == [op |-> "list"]
<1>1. r.op # "save"
  OBVIOUS
<1>2. requested' = first \o (IF pendingList THEN <<>> ELSE <<r>>) /\ waits' = ws \cup {Listing}
  BY DEF ListRemote
<1>. HIDE DEF r
<1>3. PICK more : more = IF pendingList THEN <<>> ELSE <<r>>
  OBVIOUS
<1>4. IsList(more) /\ Saves(more) = {}
  BY <1>1, <1>3, OneRequest, NoRequest
<1>5. requested' = first \o more
  BY <1>2, <1>3
<1>6. IsList(first \o more) /\ Saves(first \o more) = Saves(first) \cup Saves(more)
  BY <1>4, SavesJoined
<1>. QED BY <1>2, <1>4, <1>5, <1>6

LEMMA TextsAsked ==
  ASSUME IsList(requested), NEW names, IsFiniteSet(names), LoadRemote(names)
  PROVE  IsList(requested') /\ Saves(requested') = Saves(requested)
<1>. DEFINE load(n) == [op |-> "load", name |-> n]
            S == {load(n) : n \in names \ pendingLoads}
            more == SetToSeq(S)
<1>1. IsFiniteSet(S)
  <2>1. IsFiniteSet(names \ pendingLoads)
    BY FS_Subset
  <2>. DEFINE T == names \ pendingLoads
              f == [n \in T |-> load(n)]
  <2>. HIDE DEF load
  <2>2. f \in Surjection(T, S)
    BY DEF Surjection
  <2>. HIDE DEF f, S, T
  <2>. QED BY <2>1, <2>2, FS_Surjection DEF T
<1>2. \A r \in S : r.op = "load"
  OBVIOUS
<1>3. requested' = requested \o more
  BY DEF LoadRemote
<1>. HIDE DEF S
<1>4. IsList(more) /\ \A i \in DOMAIN more : more[i] \in S
  BY <1>1, SetInOrder
<1>. HIDE DEF more
<1>5. Saves(more) = {}
  BY <1>2, <1>4 DEF Saves
<1>6. IsList(requested \o more) /\ Saves(requested \o more) = Saves(requested) \cup Saves(more)
  BY <1>4, SavesJoined
<1>. QED BY <1>3, <1>5, <1>6

--------------------------------------------------------------------------------

HadBy(n, t, had) == t = Blank \/ (n \in DOMAIN had /\ t \in had[n])

DeviceHad(r, had) == \A n \in DOMAIN r : n \in DOMAIN had /\ r[n] \in had[n]

AnswersHad(as, had) == \A a \in Range(as) : a.type = "script" => HadBy(a.name, a.text, had)

SyncSound ==
  /\ IsList(requested) /\ IsList(answers)
  /\ DeviceHad(remote, been) /\ AnswersHad(answers, been)
  /\ Reports(synced, waits, fileStatus, Lost, been)

\* Steps that leave the device alone and lose no save that is on its way.
LEMMA SyncStep ==
  ASSUME SyncSound, UNCHANGED <<remote, been>>, IsList(requested'), IsList(answers'), Range(answers') \subseteq Range(answers),
         Lost \subseteq Lost',
         Reports(synced, waits, fileStatus, Lost', been) => Reports(synced', waits', fileStatus', Lost', been)
  PROVE  SyncSound'
<1>1. Covers(Lost, been, Lost', been)
  BY MoreIsLost
<1>2. Reports(synced, waits, fileStatus, Lost', been)
  BY <1>1, ReportsStay DEF SyncSound
<1>3. DeviceHad(remote', been') /\ AnswersHad(answers', been')
  BY DEF SyncSound, AnswersHad
<1>4. Reports(synced', waits', fileStatus', Lost', been')
  BY <1>2
<1>. QED BY <1>3, <1>4 DEF SyncSound

LEMMA PressesKeep == ASSUME SyncSound, PressReconcile \/ Follow \/ Relinked PROVE SyncSound'
<1>0. IsList(requested) /\ IsList(answers)
  BY DEF SyncSound
<1>1. ASSUME NEW first, IsList(first), Saves(requested) \subseteq Saves(first), ListRemote(first, waits),
             UNCHANGED <<answers, remote, fileStatus, history>>,
             \/ synced' = synced
             \/ \E n, t : synced' = With(synced, n, t) /\ <<n, t>> \in Saves(first)
      PROVE  SyncSound'
  <2>1. IsList(requested') /\ Saves(requested') = Saves(first) /\ waits' = waits \cup {Listing}
    BY <1>1, ListAsked
  <2>2. Lost' = failed \cup Saves(first) /\ Lost \subseteq Lost' /\ UNCHANGED <<remote, been, answers, fileStatus>>
    BY <1>1, <2>1 DEF Lost, history
  <2>3. ASSUME NEW lost, lost = Lost', Reports(synced, waits, fileStatus, lost, been)
        PROVE  Reports(synced', waits', fileStatus', lost, been)
    <3>1. WaitsExplained(waits', lost, been)
      BY <2>1, <2>3, FreshWaits DEF Reports
    <3>2. AllAgreed(synced', lost, been)
      <4>1. CASE synced' = synced
        BY <2>3, <4>1 DEF Reports
      <4>2. ASSUME NEW n, NEW t, synced' = With(synced, n, t), <<n, t>> \in Saves(first)
            PROVE  AllAgreed(synced', lost, been)
        <5>1. Accounted(n, t, lost, been)
          BY <2>2, <2>3, <4>2 DEF Accounted
        <5>2. AllAgreed(synced, lost, been)
          BY <2>3 DEF Reports
        <5>3. \A m \in DOMAIN synced' : (m = n /\ synced'[m] = t) \/ (m \in DOMAIN synced /\ synced'[m] = synced[m])
          BY <4>2 DEF With
        <5>. QED BY <5>1, <5>2, <5>3 DEF AllAgreed
      <4>. QED BY <1>1, <4>1, <4>2
    <3>. QED BY <2>2, <2>3, <3>1, <3>2 DEF Reports
  <2>. QED BY <1>0, <2>1, <2>2, <2>3, SyncStep
<1>2. CASE PressReconcile
  BY <1>0, <1>1, <1>2 DEF PressReconcile, Presses
<1>3. CASE Relinked
  BY <1>0, <1>1, <1>3 DEF Relinked, Quietly
<1>4. ASSUME NEW n, Push(n) PROVE SyncSound'
  <2>1. PICK t : t = IF n \in Names THEN LocalText(n) ELSE Blank
    OBVIOUS
  <2>. DEFINE r == [op |-> "save", name |-> n, text |-> t]
              first == Append(requested, r)
  <2>2. /\ ListRemote(first, waits) /\ synced' = With(synced, n, t)
        /\ UNCHANGED <<answers, remote, fileStatus, history>>
    BY <1>4, <2>1 DEF Push, Presses, Remember
  <2>3. r.op = "save" /\ r.name = n /\ r.text = t
    OBVIOUS
  <2>. HIDE DEF r
  <2>4. IsList(first) /\ Saves(first) = Saves(requested) \cup {<<n, t>>}
    BY <1>0, <2>3, SavesAppended
  <2>. HIDE DEF first
  <2>. QED BY <1>1, <2>2, <2>4
<1>5. ASSUME NEW n, Pull(n) PROVE SyncSound'
  <2>1. LoadRemote({n}) /\ waits' = waits \cup {Pulling(n)} /\ UNCHANGED <<answers, remote, synced, fileStatus, history>>
    BY <1>5 DEF Pull, Presses
  <2>2. IsList(requested') /\ Saves(requested') = Saves(requested)
    BY <1>0, <2>1, FS_Singleton, TextsAsked
  <2>3. Lost' = Lost /\ UNCHANGED <<remote, been, answers, fileStatus, synced>>
    BY <2>1, <2>2 DEF Lost, history
  <2>4. Reports(synced, waits, fileStatus, Lost', been) => Reports(synced', waits', fileStatus', Lost', been)
    BY <2>1, <2>3, FreshWaits DEF Reports
  <2>. QED BY <1>0, <2>2, <2>3, <2>4, SyncStep
<1>. QED BY <1>2, <1>3, <1>4, <1>5 DEF Follow

LEMMA TextsArrive ==
  ASSUME SyncSound, IsFiniteSet(Names), OnRemoteScripts
  PROVE  SyncSound'
<1>1. /\ IsList(requested) /\ IsList(answers) /\ answers # <<>> /\ answers' = Tail(answers)
      /\ UNCHANGED <<remote, synced, been, failed>>
  BY DEF SyncSound, OnRemoteScripts, Quietly, history
<1>2. IsList(answers') /\ Range(answers') \subseteq Range(answers)
  BY <1>1, FirstTaken
<1>3. CASE Listing \in waits
  <2>. DEFINE fresh == Checking([n \in Names |-> LocalText(n)], Head(answers).names \ Names)
              ws == (waits \ {Listing}) \cup {fresh}
  <2>1. LoadRemote(Names) /\ Settles(ws)
    BY <1>3 DEF OnRemoteScripts
  <2>2. IsList(requested') /\ Saves(requested') = Saves(requested)
    BY <1>1, <2>1, TextsAsked
  <2>3. Lost' = Lost
    BY <1>1, <2>2 DEF Lost
  <2>4. ASSUME NEW lost, Reports(synced, waits, fileStatus, lost, been)
        PROVE  Reports(synced', waits', fileStatus', lost, been)
    <3>1. WaitsExplained(waits, lost, been) /\ AllAgreed(synced, lost, been) /\ Explained(fileStatus, lost, been)
      BY <2>4 DEF Reports
    <3>2. WaitsExplained({fresh}, lost, been)
      BY FreshWaits
    <3>. HIDE DEF fresh
    <3>3. WaitsExplained(waits \ {Listing}, lost, been)
      BY <3>1 DEF WaitsExplained
    <3>4. WaitsExplained(ws, lost, been)
      BY <3>2, <3>3, FreshWaits
    <3>. HIDE DEF ws
    <3>5. waits' = ws \ Finished(ws) /\ IF Finished(ws) = {} THEN UNCHANGED fileStatus
                                        ELSE \E w \in Finished(ws) : fileStatus' = Results(w)
      BY <2>1 DEF Settles
    <3>6. WaitsExplained(waits', lost, been) /\ Explained(fileStatus', lost, been)
      BY <3>1, <3>4, <3>5, SettlesExplained
    <3>. QED BY <1>1, <3>1, <3>6 DEF Reports
  <2>. QED BY <1>1, <1>2, <2>2, <2>3, <2>4, SyncStep
<1>4. CASE Listing \notin waits
  <2>1. UNCHANGED <<requested, waits, fileStatus>>
    BY <1>4 DEF OnRemoteScripts
  <2>2. Lost' = Lost
    BY <1>1, <2>1 DEF Lost
  <2>. QED BY <1>1, <1>2, <2>1, <2>2, SyncStep
<1>. QED BY <1>3, <1>4

\* A name that is agreed on, on a text accounted for.
LEMMA AgreesOn ==
  ASSUME NEW s, NEW lost, NEW had, AllAgreed(s, lost, had), NEW n, NEW t, Accounted(n, t, lost, had)
  PROVE  AllAgreed(With(s, n, t), lost, had)
<1>. DEFINE h == With(s, n, t)
<1>1. \A m \in DOMAIN h : (m = n /\ h[m] = t) \/ (m \in DOMAIN s /\ h[m] = s[m])
  BY DEF With
<1>. HIDE DEF h
<1>. QED BY <1>1 DEF AllAgreed, h

LEMMA TextArrives ==
  ASSUME SyncSound, OnRemoteScript
  PROVE  SyncSound'
<1>. DEFINE a == Head(answers)
<1>1. /\ IsList(requested) /\ IsList(answers) /\ answers # <<>> /\ answers' = Tail(answers) /\ a.type = "script"
      /\ UNCHANGED <<remote, been, failed>>
  BY DEF SyncSound, OnRemoteScript, history
<1>2. IsList(answers') /\ Range(answers') \subseteq Range(answers) /\ a \in Range(answers)
  BY <1>1, FirstTaken
<1>3. PICK n, t : n = a.name /\ t = a.text
  OBVIOUS
<1>4. HadBy(n, t, been)
  BY <1>1, <1>2, <1>3 DEF SyncSound, AnswersHad
<1>. HIDE DEF a
<1>. DEFINE told == Told(n, t) \ {Pulling(n)}
<1>5. ASSUME NEW lost, Reports(synced, waits, fileStatus, lost, been)
      PROVE  /\ WaitsExplained(told, lost, been) /\ Explained(fileStatus, lost, been)
             /\ AllAgreed(synced, lost, been) /\ AllAgreed(With(synced, n, t), lost, been)
  <2>1. WaitsExplained(waits, lost, been) /\ AllAgreed(synced, lost, been) /\ Explained(fileStatus, lost, been)
    BY <1>5 DEF Reports
  <2>2. WaitsExplained(Told(n, t), lost, been)
    BY <2>1, ToldExplained
  <2>3. WaitsExplained(told, lost, been)
    BY <2>2 DEF WaitsExplained
  <2>4. Accounted(n, t, lost, been)
    BY <1>4 DEF HadBy, Accounted
  <2>. QED BY <2>1, <2>3, <2>4, AgreesOn
<1>6. CASE n \notin pendingLoads
  <2>1. UNCHANGED <<requested, synced, waits, fileStatus>>
    BY <1>3, <1>6 DEF OnRemoteScript, sync, a
  <2>2. Lost' = Lost
    BY <1>1, <2>1 DEF Lost
  <2>. QED BY <1>1, <1>2, <2>1, <2>2, SyncStep
<1>7. CASE n \in pendingLoads /\ Pulling(n) \notin waits
  <2>1. Settles(told) /\ UNCHANGED <<requested, synced>>
    BY <1>3, <1>7 DEF OnRemoteScript, a
  <2>2. Lost' = Lost
    BY <1>1, <2>1 DEF Lost
  <2>3. ASSUME NEW lost, Reports(synced, waits, fileStatus, lost, been)
        PROVE  Reports(synced', waits', fileStatus', lost, been)
    <3>1. /\ WaitsExplained(told, lost, been) /\ Explained(fileStatus, lost, been) /\ AllAgreed(synced, lost, been)
      BY <1>5, <2>3
    <3>. HIDE DEF told
    <3>2. waits' = told \ Finished(told) /\ IF Finished(told) = {} THEN UNCHANGED fileStatus
                                            ELSE \E w \in Finished(told) : fileStatus' = Results(w)
      BY <2>1 DEF Settles
    <3>3. WaitsExplained(waits', lost, been) /\ Explained(fileStatus', lost, been)
      BY <3>1, <3>2, SettlesExplained
    <3>. QED BY <2>1, <3>1, <3>3 DEF Reports
  <2>. QED BY <1>1, <1>2, <2>1, <2>2, <2>3, SyncStep
<1>8. CASE n \in pendingLoads /\ Pulling(n) \in waits
  <2>1. /\ synced' = With(synced, n, t) /\ ListRemote(requested, told \ Finished(told))
        /\ IF Finished(told) = {} THEN UNCHANGED fileStatus
           ELSE \E w \in Finished(told) : fileStatus' = Results(w)
    BY <1>3, <1>8 DEF OnRemoteScript, Remember, a
  <2>2. IsList(requested') /\ Saves(requested') = Saves(requested) /\ waits' = (told \ Finished(told)) \cup {Listing}
    BY <1>1, <2>1, ListAsked
  <2>3. Lost' = Lost
    BY <1>1, <2>2 DEF Lost
  <2>4. ASSUME NEW lost, Reports(synced, waits, fileStatus, lost, been)
        PROVE  Reports(synced', waits', fileStatus', lost, been)
    <3>1. /\ WaitsExplained(told, lost, been) /\ Explained(fileStatus, lost, been)
          /\ AllAgreed(With(synced, n, t), lost, been)
      BY <1>5, <2>4
    <3>. HIDE DEF told
    <3>2. WaitsExplained(told \ Finished(told), lost, been) /\ Explained(fileStatus', lost, been)
      BY <2>1, <3>1, SettlesExplained
    <3>3. WaitsExplained(waits', lost, been)
      BY <2>2, <3>2, FreshWaits
    <3>. QED BY <2>1, <3>1, <3>2, <3>3 DEF Reports
  <2>. QED BY <1>1, <1>2, <2>2, <2>3, <2>4, SyncStep
<1>. QED BY <1>6, <1>7, <1>8

LEMMA NoAnswer ==
  ASSUME SyncSound, TimesOut
  PROVE  SyncSound'
<1>1. /\ IsList(requested) /\ IsList(answers) /\ UNCHANGED <<requested, answers, remote, synced, been, failed>>
  BY DEF SyncSound, TimesOut, history, channel
<1>2. Lost' = Lost
  BY <1>1 DEF Lost
<1>3. ASSUME NEW lost, Reports(synced, waits, fileStatus, lost, been)
      PROVE  Reports(synced', waits', fileStatus', lost, been)
  <2>1. WaitsExplained(waits, lost, been) /\ AllAgreed(synced, lost, been) /\ Explained(fileStatus, lost, been)
    BY <1>3 DEF Reports
  <2>2. CASE waits' = waits \ {Listing} /\ UNCHANGED fileStatus
    <3>1. WaitsExplained(waits', lost, been)
      BY <2>1, <2>2 DEF WaitsExplained
    <3>. QED BY <1>1, <2>1, <2>2, <3>1 DEF Reports
  <2>3. ASSUME NEW n, Settles(Told(n, None) \ {Pulling(n)}) PROVE Reports(synced', waits', fileStatus', lost, been)
    <3>. DEFINE told == Told(n, None) \ {Pulling(n)}
    <3>1. WaitsExplained(Told(n, None), lost, been)
      BY <2>1, ToldExplained
    <3>2. WaitsExplained(told, lost, been)
      BY <3>1 DEF WaitsExplained
    <3>3. Settles(told)
      BY <2>3
    <3>. HIDE DEF told
    <3>4. waits' = told \ Finished(told) /\ IF Finished(told) = {} THEN UNCHANGED fileStatus
                                            ELSE \E w \in Finished(told) : fileStatus' = Results(w)
      BY <3>3 DEF Settles
    <3>5. WaitsExplained(waits', lost, been) /\ Explained(fileStatus', lost, been)
      BY <2>1, <3>2, <3>4, SettlesExplained
    <3>. QED BY <1>1, <2>1, <3>5 DEF Reports
  <2>. QED BY <2>2, <2>3 DEF TimesOut
<1>. QED BY <1>1, <1>2, <1>3, SyncStep

LEMMA NoOldAnswer ==
  ASSUME SyncSound, NEW w, OldTimesOut(w)
  PROVE  SyncSound'
<1>1. /\ IsList(requested) /\ IsList(answers) /\ UNCHANGED <<requested, answers, remote, synced, been, failed>>
  BY DEF SyncSound, OldTimesOut, history, channel, Quietly
<1>2. Lost' = Lost
  BY <1>1 DEF Lost
<1>. DEFINE none == [n \in DOMAIN w.local |-> Report(n, w.local[n], None, KnownFor(n))]
            ended == [w EXCEPT !.got = Over(@, none)]
            ws == IF w.op # "files" THEN waits \ {w} ELSE (waits \ {w}) \cup {ended}
<1>3. w \in waits /\ Settles(ws)
  BY DEF OldTimesOut
<1>4. ASSUME NEW lost, Reports(synced, waits, fileStatus, lost, been)
      PROVE  Reports(synced', waits', fileStatus', lost, been)
  <2>1. WaitsExplained(waits, lost, been) /\ AllAgreed(synced, lost, been) /\ Explained(fileStatus, lost, been)
    BY <1>4 DEF Reports
  <2>2. WaitsExplained(waits \ {w}, lost, been)
    BY <2>1 DEF WaitsExplained
  <2>3. ASSUME w.op = "files" PROVE WaitsExplained({ended}, lost, been)
    <3>1. PICK o, l, g, y, b : w = [op |-> "files", old |-> o, local |-> l, got |-> g, only |-> y, behind |-> b]
      BY <1>3, <2>1, <2>3 DEF WaitsExplained, IsWait
    <3>2. w.local = l /\ w.got = g
      BY <3>1
    <3>3. Explained(g, lost, been)
      BY <1>3, <2>1, <2>3, <3>2 DEF WaitsExplained
    <3>4. \A n \in DOMAIN none : none[n].status # "device-changed"
      <4>1. ASSUME NEW n \in DOMAIN none PROVE none[n].status # "device-changed"
        <5>1. none[n] = Report(n, w.local[n], None, KnownFor(n))
          BY <4>1
        <5>2. PICK r, a : a = KnownFor(n) /\ r = Report(n, w.local[n], None, a)
          OBVIOUS
        <5>3. r.status # "device-changed"
          BY <2>1, <5>2, ReportExplained
        <5>. QED BY <5>1, <5>2, <5>3
      <4>. QED BY <4>1
    <3>. HIDE DEF none
    <3>5. PICK h : h = Over(g, none)
      OBVIOUS
    <3>6. Explained(h, lost, been)
      BY <3>3, <3>4, <3>5, ExplainedOver
    <3>7. ended = [w EXCEPT !.got = h]
      BY <3>2, <3>5
    <3>8. ended = [op |-> "files", old |-> o, local |-> l, got |-> h, only |-> y, behind |-> b]
      BY <3>1, <3>7
    <3>. HIDE DEF ended
    <3>. QED BY <3>6, <3>8 DEF WaitsExplained, IsWait
  <2>. HIDE DEF ended
  <2>4. WaitsExplained(ws, lost, been)
    BY <2>2, <2>3, FreshWaits
  <2>. HIDE DEF ws
  <2>5. waits' = ws \ Finished(ws) /\ IF Finished(ws) = {} THEN UNCHANGED fileStatus
                                      ELSE \E v \in Finished(ws) : fileStatus' = Results(v)
    BY <1>3 DEF Settles
  <2>6. WaitsExplained(waits', lost, been) /\ Explained(fileStatus', lost, been)
    BY <2>1, <2>4, <2>5, SettlesExplained
  <2>. QED BY <1>1, <2>1, <2>6 DEF Reports
<1>. QED BY <1>1, <1>2, <1>4, SyncStep

\* A connection made, closed, lost, or left with the page.
LEMMA NothingIsSaid == ASSUME NEW lost, NEW had PROVE Reports(<<>>, {}, <<>>, lost, had)
BY DEF Reports, AllAgreed, WaitsExplained, Explained

LEMMA Connections ==
  ASSUME SyncSound, Linked, ConnectSync \/ CloseSync \/ Loses \/ Leaves
  PROVE  SyncSound'
<1>1. IsList(requested) /\ IsList(answers) /\ UNCHANGED <<remote, been>>
  BY DEF SyncSound, ConnectSync, CloseSync, Loses, Leaves, history
<1>2. Range(<<>>) \subseteq Range(answers)
  BY DEF Range
<1>3. CASE ConnectSync
  <2>. DEFINE list == [op |-> "list"]
  <2>0. list.op # "save"
    OBVIOUS
  <2>1. /\ requested' = <<list>> /\ answers' = <<>> /\ waits' = Outdated \cup {Listing} /\ synced' = <<>>
        /\ UNCHANGED <<fileStatus, failed>> /\ requested = <<>>
    BY <1>3 DEF ConnectSync, Linked, history
  <2>. HIDE DEF list
  <2>2. IsList(requested') /\ Saves(requested') = {} /\ Saves(requested) = {}
    BY <2>0, <2>1, OneRequest, NoRequest
  <2>3. Lost' = Lost /\ IsList(answers')
    BY <2>1, <2>2, NoRequest DEF Lost
  <2>4. ASSUME NEW lost, Reports(synced, waits, fileStatus, lost, been)
        PROVE  Reports(synced', waits', fileStatus', lost, been)
    <3>1. WaitsExplained(Outdated, lost, been) /\ WaitsExplained({Listing}, lost, been)
      BY <2>4, OutdatedExplained, FreshWaits DEF Reports
    <3>2. WaitsExplained(waits', lost, been)
      BY <2>1, <3>1, FreshWaits
    <3>3. AllAgreed(synced', lost, been)
      BY <2>1 DEF AllAgreed
    <3>. QED BY <2>1, <2>4, <3>2, <3>3 DEF Reports
  <2>. QED BY <1>1, <1>2, <2>1, <2>2, <2>3, <2>4, SyncStep
<1>4. ASSUME requested' = <<>>, answers' = <<>>, failed' = failed \cup Losing,
             \/ UNCHANGED <<synced, waits, fileStatus>>
             \/ UNCHANGED synced /\ waits' = Outdated /\ fileStatus' = <<>>
             \/ synced' = <<>> /\ waits' = {} /\ fileStatus' = <<>>
      PROVE  SyncSound'
  <2>1. IsList(requested') /\ IsList(answers') /\ Saves(requested') = {}
    BY <1>4, NoRequest
  <2>2. Lost' = Lost
    BY <1>4, <2>1, LosingIsSaves DEF Lost
  <2>3. ASSUME NEW lost, Reports(synced, waits, fileStatus, lost, been)
        PROVE  Reports(synced', waits', fileStatus', lost, been)
    <3>1. CASE UNCHANGED <<synced, waits, fileStatus>>
      BY <2>3, <3>1
    <3>2. CASE UNCHANGED synced /\ waits' = Outdated /\ fileStatus' = <<>>
      <4>1. WaitsExplained(Outdated, lost, been)
        BY <2>3, OutdatedExplained DEF Reports
      <4>2. Explained(fileStatus', lost, been)
        BY <3>2 DEF Explained
      <4>. QED BY <2>3, <3>2, <4>1, <4>2 DEF Reports
    <3>3. CASE synced' = <<>> /\ waits' = {} /\ fileStatus' = <<>>
      BY <3>3, NothingIsSaid
    <3>. QED BY <1>4, <3>1, <3>2, <3>3
  <2>. QED BY <1>1, <1>2, <1>4, <2>1, <2>2, <2>3, SyncStep
<1>5. CASE CloseSync
  BY <1>4, <1>5 DEF CloseSync
<1>6. CASE Loses
  BY <1>4, <1>6 DEF Loses, sync
<1>7. CASE Leaves
  BY <1>4, <1>7 DEF Leaves
<1>. QED BY <1>3, <1>5, <1>6, <1>7

\* What the device gets under a name it has had ever since.
LEMMA HoldingKeeps ==
  ASSUME NEW n, NEW t, Holds(n, t)
  PROVE  /\ n \in DOMAIN been' /\ t \in been'[n]
         /\ \A m \in DOMAIN been : m \in DOMAIN been' /\ been[m] \subseteq been'[m]
         /\ DeviceHad(remote, been) => DeviceHad(remote', been')
<1>. DEFINE old == IF n \in DOMAIN been THEN been[n] ELSE {}
            now == {t} \cup old
<1>1. been' = With(been, n, now) /\ remote' = With(remote, n, t) /\ t \in now /\ (n \in DOMAIN been => been[n] \subseteq now)
  BY DEF Holds
<1>. HIDE DEF now
<1>2. n \in DOMAIN been' /\ been'[n] = now
  BY <1>1 DEF With
<1>3. \A m \in DOMAIN been : m \in DOMAIN been' /\ (m = n \/ been'[m] = been[m])
  BY <1>1 DEF With
<1>4. \A m \in DOMAIN remote' : (m = n /\ remote'[m] = t) \/ (m \in DOMAIN remote /\ remote'[m] = remote[m])
  BY <1>1 DEF With
<1>5. \A m \in DOMAIN been : m \in DOMAIN been' /\ been[m] \subseteq been'[m]
  BY <1>1, <1>2, <1>3
<1>6. DeviceHad(remote, been) => DeviceHad(remote', been')
  BY <1>1, <1>2, <1>4, <1>5 DEF DeviceHad
<1>. QED BY <1>1, <1>2, <1>5, <1>6

\* A text more that the device has had.
LEMMA DeviceGets ==
  ASSUME SyncSound, NEW n, NEW t, Holds(n, t), IsList(requested'), UNCHANGED <<answers, failed, synced, waits, fileStatus>>,
         Saves(requested) \subseteq Saves(requested') \cup {<<n, t>>}
  PROVE  SyncSound'
<1>1. /\ n \in DOMAIN been' /\ t \in been'[n] /\ DeviceHad(remote', been')
      /\ \A m \in DOMAIN been : m \in DOMAIN been' /\ been[m] \subseteq been'[m]
  BY HoldingKeeps DEF SyncSound
<1>2. AnswersHad(answers', been')
  BY <1>1 DEF SyncSound, AnswersHad, HadBy
<1>3. Covers(Lost, been, Lost', been')
  <2>. SUFFICES ASSUME NEW m, NEW u, Accounted(m, u, Lost, been) PROVE Accounted(m, u, Lost', been')
    BY DEF Covers
  <2>1. CASE u = Blank
    BY <2>1 DEF Accounted
  <2>2. CASE m \in DOMAIN been /\ u \in been[m]
    BY <1>1, <2>2 DEF Accounted
  <2>3. CASE <<m, u>> \in Lost
    <3>1. <<m, u>> \in Lost' \/ <<m, u>> = <<n, t>>
      BY <2>3 DEF Lost
    <3>2. <<m, u>> = <<n, t>> => m = n /\ u = t
      OBVIOUS
    <3>. QED BY <1>1, <3>1, <3>2 DEF Accounted
  <2>. QED BY <2>1, <2>2, <2>3 DEF Accounted
<1>4. Reports(synced', waits', fileStatus', Lost', been')
  BY <1>3, ReportsStay DEF SyncSound
<1>. QED BY <1>1, <1>2, <1>4 DEF SyncSound

\* An answer more, of a text the device has.
LEMMA DeviceAnswers ==
  ASSUME SyncSound, NEW a, a.type = "script" => HadBy(a.name, a.text, been),
         answers' = Append(answers, a), IsList(requested'), Saves(requested) \subseteq Saves(requested'),
         UNCHANGED <<remote, been, failed, synced, waits, fileStatus>>
  PROVE  SyncSound'
<1>1. IsList(answers') /\ Range(answers') = Range(answers) \cup {a}
  BY Appends DEF SyncSound
<1>2. AnswersHad(answers', been')
  BY <1>1 DEF SyncSound, AnswersHad
<1>3. Lost \subseteq Lost'
  BY DEF Lost
<1>4. Covers(Lost, been, Lost', been)
  BY <1>3, MoreIsLost
<1>5. Reports(synced, waits, fileStatus, Lost', been)
  BY <1>4, ReportsStay DEF SyncSound
<1>6. Reports(synced', waits', fileStatus', Lost', been')
  BY <1>5
<1>. QED BY <1>1, <1>2, <1>6 DEF SyncSound, DeviceHad

LEMMA DeviceKeeps ==
  ASSUME SyncSound, DeviceServes
  PROVE  SyncSound'
<1>1. IsList(requested) /\ requested # <<>> /\ requested' = Tail(requested) /\ UNCHANGED <<synced, waits, fileStatus>>
  BY DEF SyncSound, DeviceServes, sync
<1>2. PICK r : r = Head(requested)
  OBVIOUS
<1>3. /\ IsList(requested') /\ Saves(requested) \subseteq Saves(requested') \cup {<<r.name, r.text>>}
      /\ r.op # "save" => Saves(requested) \subseteq Saves(requested')
  BY <1>1, <1>2, FirstTaken
<1>4. CASE r.op = "list" /\ Answers([type |-> "scripts", names |-> DOMAIN remote]) /\ UNCHANGED <<remote, been, failed>>
  <2>. DEFINE a == [type |-> "scripts", names |-> DOMAIN remote]
  <2>1. a.type # "script" /\ answers' = Append(answers, a) /\ r.op # "save"
    BY <1>4 DEF Answers
  <2>. HIDE DEF a
  <2>. QED BY <1>1, <1>3, <1>4, <2>1, DeviceAnswers
<1>5. ASSUME r.op = "load", UNCHANGED <<remote, been, failed>>,
             Answers([type |-> "script", name |-> r.name,
                      text |-> IF r.name \in DOMAIN remote THEN remote[r.name] ELSE Blank])
      PROVE  SyncSound'
  <2>1. PICK t : t = IF r.name \in DOMAIN remote THEN remote[r.name] ELSE Blank
    OBVIOUS
  <2>. DEFINE a == [type |-> "script", name |-> r.name, text |-> t]
  <2>2. a.name = r.name /\ a.text = t /\ answers' = Append(answers, a) /\ r.op # "save"
    BY <1>5, <2>1 DEF Answers
  <2>. HIDE DEF a
  <2>3. HadBy(a.name, a.text, been)
    BY <2>1, <2>2 DEF HadBy, SyncSound, DeviceHad
  <2>. QED BY <1>1, <1>3, <1>5, <2>2, <2>3, DeviceAnswers
<1>6. ASSUME Holds(r.name, r.text), UNCHANGED <<answers, failed>> PROVE SyncSound'
  <2>1. PICK n, t : n = r.name /\ t = r.text
    OBVIOUS
  <2>2. Holds(n, t) /\ Saves(requested) \subseteq Saves(requested') \cup {<<n, t>>}
    BY <1>3, <1>6, <2>1
  <2>. QED BY <1>1, <1>3, <1>6, <2>2, DeviceGets
<1>7. ASSUME failed' = failed \cup {<<r.name, r.text>>}, UNCHANGED <<answers, remote, been>> PROVE SyncSound'
  <2>1. Lost \subseteq Lost'
    BY <1>3, <1>7 DEF Lost
  <2>. QED BY <1>1, <1>3, <1>7, <2>1, SyncStep DEF SyncSound
<1>. QED BY <1>2, <1>4, <1>5, <1>6, <1>7 DEF DeviceServes

LEMMA OthersKeep ==
  ASSUME SyncSound, NEW r, OtherConsole(r)
  PROVE  SyncSound'
<1>1. PICK n, t : n = r.name /\ t = r.text
  OBVIOUS
<1>2. /\ Holds(n, t) /\ IsList(requested) /\ UNCHANGED <<requested, answers, failed, synced, waits, fileStatus>>
  BY <1>1 DEF OtherConsole, channel, sync, SyncSound
<1>. QED BY <1>2, DeviceGets

LEMMA SyncStarts == SyncInit => SyncSound
<1>. SUFFICES ASSUME SyncInit PROVE SyncSound
  OBVIOUS
<1>1. IsList(requested) /\ IsList(answers)
  BY NoRequest DEF SyncInit
<1>2. DeviceHad(remote, been)
  BY DEF SyncInit, DeviceHad
<1>3. AnswersHad(answers, been)
  <2>1. Range(<<>>) = {}
    BY DEF Range
  <2>. QED BY <2>1 DEF AnswersHad, SyncInit
<1>4. Reports(synced, waits, fileStatus, Lost, been)
  BY NothingIsSaid DEF SyncInit
<1>. QED BY <1>1, <1>2, <1>3, <1>4 DEF SyncSound

LEMMA SyncSoundGives == SyncSound => SyncedWasThere
<1>. SUFFICES ASSUME SyncSound, NEW n \in DOMAIN fileStatus, fileStatus[n].status = "device-changed"
              PROVE  \/ <<n, fileStatus[n].localText>> \in failed \cup Losing
                     \/ Harmless(n, fileStatus[n].localText)
  BY DEF SyncedWasThere
<1>1. Accounted(n, fileStatus[n].localText, Lost, been)
  BY DEF SyncSound, Reports, Explained
<1>. QED BY <1>1, LosingIsSaves DEF Accounted, Lost, Harmless

LEMMA SyncKeeps == ASSUME WorkInv, Linked, SyncSound, [SyncNext]_syncVars PROVE SyncSound'
<1>1. CASE Workplace \/ UNCHANGED syncVars
  <2>1. UNCHANGED <<requested, answers, remote, synced, waits, fileStatus, been, failed>>
    BY <1>1 DEF Workplace, syncVars, channel, sync, history
  <2>2. Lost' = Lost
    BY <2>1 DEF Lost
  <2>3. Range(answers') \subseteq Range(answers)
    BY <2>1
  <2>4. Reports(synced, waits, fileStatus, Lost', been) => Reports(synced', waits', fileStatus', Lost', been)
    BY <2>1
  <2>. QED BY <2>1, <2>2, <2>3, <2>4, SyncStep DEF SyncSound
<1>2. CASE Leaves \/ ConnectSync \/ CloseSync \/ Loses
  BY <1>2, Connections
<1>3. CASE PressReconcile \/ Follow \/ Relinked
  BY <1>3, PressesKeep
<1>4. CASE OnRemoteScripts
  <2>1. init = "ready"
    BY <1>4 DEF OnRemoteScripts, Linked
  <2>2. NamedApart(project["fnl"]) /\ project["fnl"] = project.fnl
    BY <2>1 DEF WorkInv, PageSound, Sound, Kind
  <2>3. IsFiniteSet(Names)
    BY <2>2, NamesAreCounted DEF Names
  <2>. QED BY <1>4, <2>3, TextsArrive
<1>5. CASE OnRemoteScript
  BY <1>5, TextArrives
<1>6. CASE TimesOut
  BY <1>6, NoAnswer
<1>7. CASE \E w \in waits : OldTimesOut(w)
  BY <1>7, NoOldAnswer
<1>8. CASE DeviceServes
  BY <1>8, DeviceKeeps
<1>9. CASE \E r \in Remarks : OtherConsole(r)
  BY <1>9, OthersKeep
<1>. QED BY <1>1, <1>2, <1>3, <1>4, <1>5, <1>6, <1>7, <1>8, <1>9 DEF SyncNext

(* "device-changed" says that the local text is one the device has had, over   *)
(* late answers, edits on both sides, overlapping comparisons, reconnections   *)
(* and changes of the project, unless the push that agreed on it failed.       *)
THEOREM AgreedWasThere == SyncSpec => []SyncedWasThere
<1>1. SyncInit => SyncSound
  BY SyncStarts
<1>2. (WorkInv /\ Linked) /\ SyncSound /\ [SyncNext]_syncVars => SyncSound'
  BY SyncKeeps
<1>3. SyncSound => SyncedWasThere
  BY SyncSoundGives
<1>. QED BY <1>1, <1>2, <1>3, WorkHolds, PTL DEF SyncSpec
================================================================================
