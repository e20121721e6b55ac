----------------------------- MODULE ScanProofs -----------------------------
(***************************************************************************)
(* What a scan accepts and what it finds, for any directory and in any     *)
(* order of its entries.                                                   *)
(***************************************************************************)
EXTENDS ScannerProofs, FunctionTheorems, SequenceTheorems

-----------------------------------------------------------------------------
(* Sets of distinct numbers in order.                                      *)
Ascending(a) == \A i, j \in DOMAIN a : i < j => a[i] < a[j]

\* In an ascending sequence, i - 1 elements are below the i-th.
LEMMA PositionIsCount ==
    ASSUME NEW n \in Nat, NEW a \in [1 .. n -> Int], Ascending(a), NEW i \in 1 .. n
    PROVE  /\ IsFiniteSet({t \in Range(a) : t < a[i]})
           /\ Cardinality({t \in Range(a) : t < a[i]}) = i - 1
<1> DEFINE below == {t \in Range(a) : t < a[i]}
           start == [j \in 1 .. i - 1 |-> a[j]]
<1>1. i - 1 \in Nat /\ 1 .. i - 1 \subseteq 1 .. n
  OBVIOUS
<1>2. \A j \in 1 .. n : a[j] < a[i] <=> j < i
  BY DEF Ascending
<1>3. start \in [1 .. i - 1 -> below]
  BY <1>1, <1>2 DEF Range
<1>4. \A j, k \in 1 .. i - 1 : start[j] = start[k] => j = k
  <2>1. ASSUME NEW j \in 1 .. n, NEW k \in 1 .. n, a[j] = a[k] PROVE j = k
    <3>1. a[j] \in Int /\ ~(a[j] < a[k]) /\ ~(a[k] < a[j])
      BY <2>1
    <3>2. QED  BY <3>1 DEF Ascending
  <2>2. QED  BY <1>1, <2>1
<1>5. \A t \in below : \E j \in 1 .. i - 1 : start[j] = t
  BY <1>2 DEF Range
<1>6. start \in Bijection(1 .. i - 1, below)
  BY <1>3, <1>4, <1>5, Fun_IsBij
<1>7. ExistsBijection(1 .. i - 1, below)
  BY <1>6 DEF ExistsBijection
<1>8. IsFiniteSet(below)
  BY <1>1, <1>7, FS_NatBijection
<1>9. Cardinality(below) = i - 1
  BY <1>1, <1>7, FS_CountingElements
<1>10. QED  BY <1>8, <1>9

\* More elements are below the larger one.
LEMMA CountIsRank ==
    ASSUME NEW T, IsFiniteSet(T), T \subseteq Int, NEW x \in T, NEW y \in T, x < y
    PROVE  Cardinality({t \in T : t < x}) < Cardinality({t \in T : t < y})
<1> DEFINE lower == {t \in T : t < x}
           upper == {t \in T : t < y}
<1>1. IsFiniteSet(lower) /\ IsFiniteSet(upper)
  BY FS_Subset
<1>2. x \notin lower /\ lower \cup {x} \subseteq upper
  <2>1. x \in Int /\ y \in Int /\ ~(x < x)
    OBVIOUS
  <2>2. ASSUME NEW t \in T, t < x PROVE t < y
    BY <2>1, <2>2
  <2>3. QED  BY <2>1, <2>2
<1>3. IsFiniteSet(lower \cup {x}) /\ Cardinality(lower \cup {x}) = Cardinality(lower) + 1
  BY <1>1, <1>2, FS_AddElement
<1>4. Cardinality(lower \cup {x}) <= Cardinality(upper)
  BY <1>1, <1>2, FS_Subset
<1>5. Cardinality(lower) \in Nat /\ Cardinality(upper) \in Nat
  BY <1>1, FS_CardinalityType
<1>6. QED  BY <1>3, <1>4, <1>5

\* A set of numbers has one ascending sequence.
LEMMA OneAscending ==
    ASSUME NEW n \in Nat, NEW a \in [1 .. n -> Int], Ascending(a),
           NEW m \in Nat, NEW b \in [1 .. m -> Int], Ascending(b),
           Range(a) = Range(b)
    PROVE  n = m /\ a = b
<1>1. ASSUME NEW k \in Nat, NEW c \in [1 .. k -> Int], Ascending(c)
      PROVE  IsFiniteSet(Range(c)) /\ Cardinality(Range(c)) = k
  <2>1. \A i, j \in 1 .. k : c[i] = c[j] => i = j
    <3>1. ASSUME NEW i \in 1 .. k, NEW j \in 1 .. k, c[i] = c[j] PROVE i = j
      <4>1. c[i] \in Int /\ ~(c[i] < c[j]) /\ ~(c[j] < c[i])
        BY <3>1
      <4>2. QED  BY <1>1, <4>1 DEF Ascending
    <3>2. QED  BY <3>1
  <2>2. c \in [1 .. k -> Range(c)] /\ \A t \in Range(c) : \E i \in 1 .. k : c[i] = t
    BY DEF Range
  <2>3. c \in Bijection(1 .. k, Range(c))
    BY <2>1, <2>2, Fun_IsBij
  <2>4. ExistsBijection(1 .. k, Range(c))
    BY <2>3 DEF ExistsBijection
  <2>5. QED  BY <2>4, FS_NatBijection, FS_CountingElements
<1>2. n = m
  BY <1>1
<1>3. Range(a) \subseteq Int /\ IsFiniteSet(Range(a))
  BY <1>1 DEF Range
<1>4. ASSUME NEW i \in 1 .. n PROVE a[i] = b[i]
  <2>1. a[i] \in Range(a) /\ b[i] \in Range(a)
    BY <1>2 DEF Range
  <2>2. Cardinality({t \in Range(a) : t < a[i]}) = i - 1
    BY PositionIsCount
  <2>3. Cardinality({t \in Range(a) : t < b[i]}) = i - 1
    BY <1>2, PositionIsCount
  <2>4. \A x, y \in Range(a) :
           x < y => Cardinality({t \in Range(a) : t < x}) < Cardinality({t \in Range(a) : t < y})
    BY <1>3, CountIsRank
  <2>5. ~(i - 1 < i - 1)
    OBVIOUS
  <2>6. ~(a[i] < b[i]) /\ ~(b[i] < a[i])
    BY <2>1, <2>2, <2>3, <2>4, <2>5
  <2>7. QED  BY <1>3, <2>1, <2>6
<1>5. QED  BY <1>2, <1>4

\* Numbers of its own for every element: the set has a sequence, without
\* repetition and ascending.
LEMMA SortedByKey ==
    ASSUME NEW S, IsFiniteSet(S), NEW key, \A f \in S : key[f] \in Int,
           \A f, g \in S : key[f] = key[g] => f = g
    PROVE  /\ SortedBy(S, key) \in [1 .. Cardinality(S) -> S]
           /\ \A f \in S : \E i \in 1 .. Cardinality(S) : SortedBy(S, key)[i] = f
           /\ \A i, j \in 1 .. Cardinality(S) :
                 i < j => key[SortedBy(S, key)[i]] < key[SortedBy(S, key)[j]]
<1> DEFINE n == Cardinality(S)
           lower(f) == {g \in S : key[g] < key[f]}
           rank == [f \in S |-> Cardinality(lower(f)) + 1]
           isSorted(s) == IsInjective(s) /\ \A i, j \in DOMAIN s : i < j => key[s[i]] <= key[s[j]]
<1>1. n \in Nat
  BY FS_CardinalityType
<1>2. ASSUME NEW f \in S
      PROVE  IsFiniteSet(lower(f)) /\ Cardinality(lower(f)) \in Nat /\ rank[f] \in 1 .. n
  <2>1. lower(f) \subseteq S \ {f}
    OBVIOUS
  <2>2. IsFiniteSet(S \ {f}) /\ Cardinality(S \ {f}) = n - 1
    BY FS_RemoveElement
  <2>3. IsFiniteSet(lower(f)) /\ Cardinality(lower(f)) <= n - 1
    BY <2>1, <2>2, FS_Subset
  <2>4. Cardinality(lower(f)) \in Nat
    BY <2>3, FS_CardinalityType
  <2>5. QED  BY <1>1, <2>3, <2>4
<1>3. ASSUME NEW f \in S, NEW g \in S, key[f] < key[g] PROVE rank[f] < rank[g]
  <2>1. f \notin lower(f) /\ lower(f) \cup {f} \subseteq lower(g)
    BY <1>3
  <2>2. Cardinality(lower(f) \cup {f}) = Cardinality(lower(f)) + 1
    BY <1>2, <2>1, FS_AddElement
  <2>3. Cardinality(lower(f) \cup {f}) <= Cardinality(lower(g))
    BY <1>2, <2>1, FS_Subset
  <2>4. Cardinality(lower(f)) + 1 <= Cardinality(lower(g))
    BY <2>2, <2>3
  <2>5. Cardinality(lower(f)) \in Nat /\ Cardinality(lower(g)) \in Nat
    BY <1>2
  <2>6. rank[f] = Cardinality(lower(f)) + 1 /\ rank[g] = Cardinality(lower(g)) + 1
    OBVIOUS
  <2> HIDE DEF lower, rank
  <2>7. QED  BY <2>4, <2>5, <2>6
<1>4. \A f, g \in S : rank[f] = rank[g] => f = g
  <2>1. ASSUME NEW f \in S, NEW g \in S, rank[f] = rank[g] PROVE f = g
    <3>1. rank[f] \in 1 .. n /\ ~(rank[f] < rank[g]) /\ ~(rank[g] < rank[f])
      <4>1. rank[f] \in 1 .. n
        BY <1>2
      <4> HIDE DEF rank, n
      <4>2. QED  BY <1>1, <2>1, <4>1
    <3>2. ~(key[f] < key[g]) /\ ~(key[g] < key[f])
      BY <1>3, <3>1
    <3>3. QED  BY <3>2
  <2>2. QED  BY <2>1
<1>5. rank \in Injection(S, 1 .. n)
  <2>1. rank \in [S -> 1 .. n]
    BY <1>2
  <2> HIDE DEF rank
  <2>2. QED  BY <1>4, <2>1, Fun_IsInj
<1>6. IsFiniteSet(1 .. n) /\ Cardinality(1 .. n) = n
  BY <1>1, FS_Interval
<1> HIDE DEF rank
<1>7. rank \in Surjection(S, 1 .. n)
  BY <1>5, <1>6, FS_Injection
<1> DEFINE s == [i \in 1 .. n |-> CHOOSE f \in S : rank[f] = i]
<1>8. ASSUME NEW i \in 1 .. n PROVE s[i] \in S /\ rank[s[i]] = i
  <2>1. \E f \in S : rank[f] = i
    BY <1>7 DEF Surjection
  <2>2. QED  BY <2>1
<1>9. s \in [1 .. n -> S]
  BY <1>8
<1>10. isSorted(s)
  <2>1. IsInjective(s)
    BY <1>8 DEF IsInjective
  <2>2. ASSUME NEW i \in 1 .. n, NEW j \in 1 .. n, i < j PROVE key[s[i]] <= key[s[j]]
    <3>1. ~(rank[s[j]] < rank[s[i]])
      BY <1>8, <2>2
    <3>2. QED  BY <1>3, <1>8, <3>1
  <2>3. QED  BY <2>1, <2>2
<1> DEFINE sorted == SortedBy(S, key)
<1>11. sorted \in [1 .. n -> S] /\ isSorted(sorted)
  <2>1. \E t \in [1 .. n -> S] : isSorted(t)
    BY <1>9, <1>10
  <2>2. sorted = CHOOSE t \in [1 .. n -> S] : isSorted(t)
    BY DEF SortedBy
  <2> HIDE DEF sorted, isSorted
  <2>3. QED  BY <2>1, <2>2
<1> HIDE DEF sorted, s
<1>12. sorted \in Injection(1 .. n, S)
  BY <1>11 DEF Injection
<1>13. \A f \in S : \E i \in 1 .. n : sorted[i] = f
  <2>1. sorted \in Surjection(1 .. n, S)
    BY <1>6, <1>12, FS_Injection
  <2>2. QED  BY <2>1 DEF Surjection
<1>14. ASSUME NEW i \in 1 .. n, NEW j \in 1 .. n, i < j
       PROVE  key[sorted[i]] < key[sorted[j]]
  <2>1. sorted[i] \in S /\ sorted[j] \in S /\ sorted[i] # sorted[j]
    BY <1>11, <1>14 DEF IsInjective
  <2>2. key[sorted[i]] <= key[sorted[j]]
    BY <1>11, <1>14
  <2>3. QED  BY <2>1, <2>2
<1>15. QED  BY <1>11, <1>13, <1>14 DEF sorted

-----------------------------------------------------------------------------
(* One directory.                                                          *)
UpFiles(folder, dir)   == {f \in FilesIn(folder, dir) : ~IsDowngrade(f)}
DownFiles(folder, dir) == {f \in FilesIn(folder, dir) : IsDowngrade(f)}

Numbers(S) == {f.name.ts : f \in S}

FilesFinite == files \subseteq FileSet /\ IsFiniteSet(files)

LEMMA FileNumbers ==
    ASSUME FilesFinite, NEW f \in files
    PROVE  f.name.ts \in Nat
<1>1. f \in FileSet
  BY DEF FilesFinite
<1>2. f.name.ts \in Timestamps \cup {0}
  BY <1>1 DEF FileSet
<1>3. \A t \in Timestamps \cup {0} : t \in Nat
  BY NumbersAssumption
<1>4. QED  BY <1>2, <1>3

\* Without duplicates, the number tells the files of a direction apart.
LEMMA DirectorySorted ==
    ASSUME FilesFinite, NEW folder, NEW dir, ~Duplicate(folder, dir)
    PROVE  LET ups   == UpFiles(folder, dir)
               downs == DownFiles(folder, dir)
               n     == Cardinality(ups)
               m     == Cardinality(downs)
               u     == Up(folder, dir)
               d     == Down(folder, dir)
           IN  /\ n \in Nat /\ u \in [1 .. n -> ups]
               /\ \A f \in ups : \E i \in 1 .. n : u[i] = f
               /\ \A i, j \in 1 .. n : i < j => u[i].name.ts < u[j].name.ts
               /\ m \in Nat /\ d \in [1 .. m -> downs]
               /\ \A f \in downs : \E i \in 1 .. m : d[i] = f
               /\ \A i, j \in 1 .. m : i < j => d[j].name.ts < d[i].name.ts
<1> DEFINE ups   == UpFiles(folder, dir)
           downs == DownFiles(folder, dir)
           n     == Cardinality(ups)
           m     == Cardinality(downs)
           u     == Up(folder, dir)
           d     == Down(folder, dir)
           upKey   == [f \in files |-> f.name.ts]
           downKey == [f \in files |-> -f.name.ts]
<1>1. ups \subseteq files /\ downs \subseteq files
  BY DEF UpFiles, DownFiles, FilesIn
<1>2. IsFiniteSet(ups) /\ IsFiniteSet(downs)
  BY <1>1, FS_Subset DEF FilesFinite
<1>3. n \in Nat /\ m \in Nat
  BY <1>2, FS_CardinalityType
<1>4. \A f, g \in ups : f.name.ts = g.name.ts => f = g
  BY DEF UpFiles, FilesIn, Duplicate, SameNumber, Opposite
<1>5. \A f, g \in downs : f.name.ts = g.name.ts => f = g
  BY DEF DownFiles, FilesIn, Duplicate, SameNumber, Opposite
<1>6. \A f \in ups \cup downs : f.name.ts \in Nat
  BY <1>1, FileNumbers
<1>7. /\ \A f \in ups : upKey[f] = f.name.ts /\ upKey[f] \in Int
      /\ \A f \in downs : downKey[f] = -f.name.ts /\ downKey[f] \in Int
  BY <1>1, <1>6
<1>8. \A f, g \in ups : upKey[f] = upKey[g] => f = g
  BY <1>4, <1>7
<1>9. \A f, g \in downs : downKey[f] = downKey[g] => f = g
  BY <1>5, <1>6, <1>7
<1>10. u = SortedBy(ups, upKey) /\ d = SortedBy(downs, downKey)
  BY DEF Up, Down, UpFiles, DownFiles
<1> HIDE DEF ups, downs, upKey, downKey, u, d
<1>11. /\ u \in [1 .. n -> ups]
       /\ \A f \in ups : \E i \in 1 .. n : u[i] = f
       /\ \A i, j \in 1 .. n : i < j => upKey[u[i]] < upKey[u[j]]
  BY <1>2, <1>7, <1>8, <1>10, SortedByKey
<1>12. /\ d \in [1 .. m -> downs]
       /\ \A f \in downs : \E i \in 1 .. m : d[i] = f
       /\ \A i, j \in 1 .. m : i < j => downKey[d[i]] < downKey[d[j]]
  BY <1>2, <1>7, <1>9, <1>10, SortedByKey
<1>13. ASSUME NEW i \in 1 .. n, NEW j \in 1 .. n, i < j PROVE u[i].name.ts < u[j].name.ts
  BY <1>7, <1>11, <1>13
<1>14. ASSUME NEW i \in 1 .. m, NEW j \in 1 .. m, i < j PROVE d[j].name.ts < d[i].name.ts
  <2>1. d[i] \in downs /\ d[j] \in downs /\ -d[i].name.ts < -d[j].name.ts
    BY <1>7, <1>12, <1>14
  <2>2. d[i].name.ts \in Nat /\ d[j].name.ts \in Nat
    BY <1>6, <2>1
  <2>3. QED  BY <2>1, <2>2
<1>15. QED  BY <1>3, <1>11, <1>12, <1>13, <1>14 DEF ups, downs, u, d

\* Up and down files are pairs when they have the same numbers.
LEMMA PairedExact ==
    ASSUME FilesFinite, NEW folder, NEW dir, ~Duplicate(folder, dir)
    PROVE  Paired(Up(folder, dir), Down(folder, dir))
              <=> Numbers(UpFiles(folder, dir)) = Numbers(DownFiles(folder, dir))
<1> DEFINE ups   == UpFiles(folder, dir)
           downs == DownFiles(folder, dir)
           n     == Cardinality(ups)
           m     == Cardinality(downs)
           u     == Up(folder, dir)
           d     == Down(folder, dir)
<1>1. /\ n \in Nat /\ u \in [1 .. n -> ups]
      /\ \A f \in ups : \E i \in 1 .. n : u[i] = f
      /\ \A i, j \in 1 .. n : i < j => u[i].name.ts < u[j].name.ts
      /\ m \in Nat /\ d \in [1 .. m -> downs]
      /\ \A f \in downs : \E i \in 1 .. m : d[i] = f
      /\ \A i, j \in 1 .. m : i < j => d[j].name.ts < d[i].name.ts
  BY DirectorySorted
<1>2. ups \subseteq files /\ downs \subseteq files
  BY DEF UpFiles, DownFiles, FilesIn
<1>3. \A f \in ups \cup downs : f.name.ts \in Int
  BY <1>2, FileNumbers
<1> HIDE DEF ups, downs, n, m, u, d
<1> DEFINE a == [i \in 1 .. n |-> u[i].name.ts]
           b == [i \in 1 .. m |-> d[m - i + 1].name.ts]
<1>4. \A i \in 1 .. m : m - i + 1 \in 1 .. m
  BY <1>1
<1>5. a \in [1 .. n -> Int] /\ b \in [1 .. m -> Int]
  BY <1>1, <1>3, <1>4
<1>6. Ascending(a)
  BY <1>1 DEF Ascending
<1>7. Ascending(b)
  <2>1. ASSUME NEW i \in 1 .. m, NEW j \in 1 .. m, i < j PROVE b[i] < b[j]
    <3>1. m - j + 1 < m - i + 1
      BY <1>1, <2>1
    <3>2. d[m - i + 1].name.ts < d[m - j + 1].name.ts
      BY <1>1, <1>4, <3>1
    <3>3. QED  BY <3>2
  <2>2. QED  BY <2>1 DEF Ascending
<1>8. Range(a) = Numbers(ups)
  BY <1>1 DEF Range, Numbers
<1>9. Range(b) = Numbers(downs)
  <2>1. \A k \in 1 .. m : \E i \in 1 .. m : m - i + 1 = k
    <3>1. ASSUME NEW k \in 1 .. m PROVE m - k + 1 \in 1 .. m /\ m - (m - k + 1) + 1 = k
      BY <1>1
    <3>2. QED  BY <3>1
  <2>2. \A x : x \in Numbers(downs) <=> \E k \in 1 .. m : d[k].name.ts = x
    BY <1>1 DEF Numbers
  <2>3. \A x : x \in Range(b) <=> \E i \in 1 .. m : d[m - i + 1].name.ts = x
    BY DEF Range
  <2>4. QED  BY <1>4, <2>1, <2>2, <2>3
<1>10. Len(u) = n /\ DOMAIN u = 1 .. n /\ Len(d) = m
  <2>1. u \in Seq(ups) /\ d \in Seq(downs)
    BY <1>1, SeqDef
  <2>2. Len(u) \in Nat /\ DOMAIN u = 1 .. Len(u) /\ Len(d) \in Nat /\ DOMAIN d = 1 .. Len(d)
    BY <2>1, LenProperties
  <2>3. 1 .. Len(u) = 1 .. n /\ 1 .. Len(d) = 1 .. m
    BY <1>1, <2>2
  <2>4. QED  BY <1>1, <2>2, <2>3, FS_Interval
<1>11. Paired(u, d) <=> n = m /\ a = b
  <2>1. Paired(u, d) <=> n = m /\ \A i \in 1 .. n : d[m - i + 1].name.ts = u[i].name.ts
    BY <1>10 DEF Paired
  <2>2. n = m => (a = b <=> \A i \in 1 .. n : a[i] = b[i])
    BY <1>5
  <2>3. QED  BY <2>1, <2>2
<1>12. n = m /\ a = b <=> Range(a) = Range(b)
  <2> HIDE DEF a, b
  <2>1. Range(a) = Range(b) => n = m /\ a = b
    BY <1>1, <1>5, <1>6, <1>7, OneAscending
  <2>2. QED  BY <2>1
<1>13. QED  BY <1>8, <1>9, <1>11, <1>12 DEF ups, downs, u, d

\* A directory is accepted when each of its files can be.
LEMMA FolderAccepts ==
    ASSUME FilesFinite, NEW folder, NEW dir
    PROVE  ~FolderError(folder, dir) <=> \A f \in FilesIn(folder, dir) : FileOK(f, files)
<1> DEFINE here == FilesIn(folder, dir)
<1>1. here \subseteq files /\ \A f \in here : f.folder = folder /\ f.dir = dir
  BY DEF FilesIn
<1>2. \A f \in here, g \in files : SameNumber(f, g) => g \in here
  BY DEF FilesIn, SameNumber
<1>3. ASSUME NEW f \in here, NEW g \in here, f.name.ts = g.name.ts PROVE SameNumber(f, g)
  BY <1>1, <1>3 DEF SameNumber
<1>4. ~Duplicate(folder, dir) <=>
         \A f \in here : \A g \in files \ {f} : SameNumber(f, g) => Opposite(f, g)
  BY <1>1, <1>2 DEF Duplicate
<1>5. ASSUME ~Duplicate(folder, dir), UpDown(folder)
      PROVE  Paired(Up(folder, dir), Down(folder, dir)) <=>
                \A f \in here : \E g \in files : SameNumber(f, g) /\ Opposite(f, g)
  <2>1. ASSUME Paired(Up(folder, dir), Down(folder, dir)), NEW f \in here
        PROVE  \E g \in files : SameNumber(f, g) /\ Opposite(f, g)
    <3>1. Numbers(UpFiles(folder, dir)) = Numbers(DownFiles(folder, dir))
      BY <1>5, <2>1, PairedExact
    <3>2. CASE IsDowngrade(f)
      <4>1. f.name.ts \in Numbers(UpFiles(folder, dir))
        BY <3>1, <3>2 DEF DownFiles, Numbers
      <4>2. PICK g \in UpFiles(folder, dir) : g.name.ts = f.name.ts
        BY <4>1 DEF Numbers
      <4>3. g \in here /\ ~IsDowngrade(g)
        BY DEF UpFiles
      <4>4. QED  BY <1>1, <1>3, <3>2, <4>2, <4>3 DEF Opposite
    <3>3. CASE ~IsDowngrade(f)
      <4>1. f.name.ts \in Numbers(DownFiles(folder, dir))
        BY <3>1, <3>3 DEF UpFiles, Numbers
      <4>2. PICK g \in DownFiles(folder, dir) : g.name.ts = f.name.ts
        BY <4>1 DEF Numbers
      <4>3. g \in here /\ IsDowngrade(g)
        BY DEF DownFiles
      <4>4. QED  BY <1>1, <1>3, <3>3, <4>2, <4>3 DEF Opposite
    <3>4. QED  BY <3>2, <3>3
  <2>2. ASSUME \A f \in here : \E g \in files : SameNumber(f, g) /\ Opposite(f, g)
        PROVE  Paired(Up(folder, dir), Down(folder, dir))
    <3>1. ASSUME NEW f \in UpFiles(folder, dir) PROVE f.name.ts \in Numbers(DownFiles(folder, dir))
      <4>1. f \in here /\ ~IsDowngrade(f)
        BY DEF UpFiles
      <4>2. PICK g \in files : SameNumber(f, g) /\ Opposite(f, g)
        BY <2>2, <4>1
      <4>3. g \in DownFiles(folder, dir) /\ g.name.ts = f.name.ts
        BY <1>2, <4>1, <4>2 DEF DownFiles, Opposite, SameNumber
      <4>4. QED  BY <4>3 DEF Numbers
    <3>2. ASSUME NEW f \in DownFiles(folder, dir) PROVE f.name.ts \in Numbers(UpFiles(folder, dir))
      <4>1. f \in here /\ IsDowngrade(f)
        BY DEF DownFiles
      <4>2. PICK g \in files : SameNumber(f, g) /\ Opposite(f, g)
        BY <2>2, <4>1
      <4>3. g \in UpFiles(folder, dir) /\ g.name.ts = f.name.ts
        BY <1>2, <4>1, <4>2 DEF UpFiles, Opposite, SameNumber
      <4>4. QED  BY <4>3 DEF Numbers
    <3>3. Numbers(UpFiles(folder, dir)) = Numbers(DownFiles(folder, dir))
      BY <3>1, <3>2 DEF Numbers
    <3>4. QED  BY <1>5, <3>3, PairedExact
  <2>3. QED  BY <2>1, <2>2
<1> HIDE DEF here
<1>6. ~FolderError(folder, dir) <=>
         /\ \A f \in here : ~FileError(f)
         /\ \A f \in here : \A g \in files \ {f} : SameNumber(f, g) => Opposite(f, g)
         /\ UpDown(folder) =>
               \A f \in here : \E g \in files : SameNumber(f, g) /\ Opposite(f, g)
  BY <1>4, <1>5 DEF FolderError, here
<1>7. QED  BY <1>1, <1>6 DEF FileOK, here

\* What is found in an accepted directory are its files, and it is not empty when
\* it has files.
LEMMA FolderContents ==
    ASSUME FilesFinite, NEW folder, NEW dir, ~FolderError(folder, dir)
    PROVE  /\ Up(folder, dir) \in Seq(FileSet) /\ Down(folder, dir) \in Seq(FileSet)
           /\ Range(Up(folder, dir)) \cup Range(Down(folder, dir)) = FilesIn(folder, dir)
           /\ Up(folder, dir) = <<>> <=> FilesIn(folder, dir) = {}
<1> DEFINE ups   == UpFiles(folder, dir)
           downs == DownFiles(folder, dir)
           n     == Cardinality(ups)
           m     == Cardinality(downs)
           u     == Up(folder, dir)
           d     == Down(folder, dir)
<1>1. ~Duplicate(folder, dir)
  BY DEF FolderError
<1>2. /\ n \in Nat /\ u \in [1 .. n -> ups]
      /\ \A f \in ups : \E i \in 1 .. n : u[i] = f
      /\ m \in Nat /\ d \in [1 .. m -> downs]
      /\ \A f \in downs : \E i \in 1 .. m : d[i] = f
  BY <1>1, DirectorySorted
<1>3. ups \cup downs = FilesIn(folder, dir)
  BY DEF UpFiles, DownFiles
<1>4. FilesIn(folder, dir) \subseteq FileSet
  BY DEF FilesFinite, FilesIn
<1>5. ups = {} => downs = {}
  <2>1. CASE UpDown(folder)
    <3>1. Numbers(ups) = Numbers(downs)
      BY <1>1, <2>1, PairedExact DEF FolderError
    <3>2. QED  BY <3>1 DEF Numbers
  <2>2. CASE ~UpDown(folder)
    BY <2>2 DEF DownFiles, FilesIn, IsDowngrade
  <2>3. QED  BY <2>1, <2>2
<1> HIDE DEF ups, downs, n, m, u, d
<1>6. u \in Seq(ups) /\ d \in Seq(downs)
  BY <1>2, SeqDef
<1>7. u \in Seq(FileSet) /\ d \in Seq(FileSet)
  BY <1>3, <1>4, <1>6, SeqMonotonic
<1>8. Range(u) = ups /\ Range(d) = downs
  BY <1>2 DEF Range
<1>9. u = <<>> <=> ups = {}
  <2>1. u = <<>> => ups = {}
    BY <1>8 DEF Range
  <2>2. ups = {} => u = <<>>
    <3>1. SUFFICES ASSUME ups = {} PROVE Len(u) = 0
      BY <1>6, EmptySeq
    <3>2. Len(u) \in Nat /\ \A i \in 1 .. Len(u) : u[i] \in ups
      BY <1>6, LenProperties
    <3>3. QED  BY <3>1, <3>2
  <2>3. QED  BY <2>1, <2>2
<1>10. QED  BY <1>3, <1>5, <1>7, <1>8, <1>9 DEF u, d

-----------------------------------------------------------------------------
(* The invariant of a scan.                                                *)
SchemaDirs == {d \in dirs : d.folder = Schema}
ExtraDirs  == {d \in dirs : d.folder \in Extra}

\* What has been looked at, and accepted.
SchemaSeen == IF phase = "none" THEN {}
              ELSE IF phase = "schema" THEN SchemaDirs \ left ELSE SchemaDirs
ExtraSeen  == IF phase = "extra" THEN ExtraDirs \ left
              ELSE IF phase \in {"snapshots", "done"} THEN ExtraDirs ELSE {}
SnapsSeen  == IF phase = "snapshots" THEN snaps \ left
              ELSE IF phase = "done" THEN snaps ELSE {}

\* The directories that become versions.
Full(d) == d.dir \in KeptDirs \/ FilesIn(Schema, d.dir) # {}

ScriptSet   == [up : Seq(FileSet), down : Seq(FileSet)]
LocalFolder == [dir : DirNames, scripts : ScriptSet, extra : [Extra -> ScriptSet],
                snaps : [BatchNames -> SUBSET SnapFiles]]

Holding(s) == Range(s.up) \cup Range(s.down)

\* The import directory: a file is in a directory, a kept version has one.
TreeInv ==
    /\ FilesFinite
    /\ dirs \subseteq [folder : Folders, dir : DirNames]
    /\ snaps \subseteq SnapFiles
    /\ \A f \in files : [folder |-> f.folder, dir |-> f.dir] \in dirs
    /\ \A d \in KeptDirs : [folder |-> Schema, dir |-> d] \in dirs

PhaseInv ==
    /\ phase \in {"none", "schema", "extra", "snapshots", "done", "failed"}
    /\ phase = "none" => left = {} /\ found = <<>>
    /\ phase = "schema" => left \subseteq SchemaDirs
    /\ phase = "extra" => left \subseteq ExtraDirs
    /\ phase = "snapshots" => left \subseteq snaps
    /\ phase = "failed" => ~WellFormed

\* There was no error in what has been looked at.
AcceptedInv ==
    /\ \A d \in SchemaSeen : ~DirError(d.dir) /\ ~FolderError(Schema, d.dir)
    /\ \A d \in ExtraSeen :
          ~DirError(d.dir) /\ ~FolderError(d.folder, d.dir) /\ HasSchema(Rank[d.dir])
    /\ \A s \in SnapsSeen : s.batch \in BatchNames /\ HasSchema(Rank[s.dir])

\* The full directories, each of them once, with their files.
FoundInv ==
    /\ found \in Seq(LocalFolder)
    /\ {found[k].dir : k \in DOMAIN found} = {d.dir : d \in {e \in SchemaSeen : Full(e)}}
    /\ \A j, k \in DOMAIN found : found[j].dir = found[k].dir => j = k
    /\ \A k \in DOMAIN found : Holding(found[k].scripts) = FilesIn(Schema, found[k].dir)

\* The other files and the snapshots are at their version.
AttachedInv ==
    Distinct => \A k \in DOMAIN found :
        /\ \A e \in Extra :
              Holding(found[k].extra[e]) =
                  {f \in files : /\ f.folder = e /\ Rank[f.dir] = Rank[found[k].dir]
                                 /\ [folder |-> e, dir |-> f.dir] \in ExtraSeen}
        /\ \A b \in BatchNames :
              found[k].snaps[b] =
                  {s \in SnapsSeen : s.batch = b /\ Rank[s.dir] = Rank[found[k].dir]}

ScanInv ==
    /\ TreeInv /\ PhaseInv
    /\ phase # "failed" => AcceptedInv /\ FoundInv /\ AttachedInv

-----------------------------------------------------------------------------
(* The import directory.                                                   *)
LEMMA InitTreeInv == Init => TreeInv
<1> SUFFICES ASSUME Init PROVE TreeInv
  OBVIOUS
<1>1. Schema \in Folders /\ KeptDirs \subseteq DirNames
  BY NamesAssumption DEF Folders
<1>2. FilesFinite
  BY FS_EmptySet DEF Init, FilesFinite
<1>3. QED  BY <1>1, <1>2 DEF Init, TreeInv

LEMMA UntouchedTreeInv == TreeInv /\ UNCHANGED tree => TreeInv'
BY DEF TreeInv, FilesFinite, tree

LEMMA MoreFiles ==
    ASSUME TreeInv, NEW new, IsFiniteSet(new), new \subseteq FileSet,
           files' \subseteq files \cup new, dirs \subseteq dirs',
           dirs' \subseteq [folder : Folders, dir : DirNames],
           \A f \in new : [folder |-> f.folder, dir |-> f.dir] \in dirs',
           snaps' = snaps
    PROVE  TreeInv'
<1>1. IsFiniteSet(files \cup new)
  BY FS_Union DEF TreeInv, FilesFinite
<1>2. FilesFinite'
  BY <1>1, FS_Subset DEF TreeInv, FilesFinite
<1>3. QED  BY <1>2 DEF TreeInv

LEMMA NextTreeInv == TreeInv /\ [Next]_vars => TreeInv'
<1> SUFFICES ASSUME TreeInv, [Next]_vars PROVE TreeInv'
  OBVIOUS
<1>1. CASE UNCHANGED vars
  BY <1>1, UntouchedTreeInv DEF vars
<1>2. CASE Scan \/ ScanExtra \/ ScanSnapshots \/ Scanned \/ Return
  BY <1>2, UntouchedTreeInv DEF Scan, ScanExtra, ScanSnapshots, Scanned, Return
<1>3. ASSUME NEW d \in left, ScanSchemaDir(d) \/ ScanExtraDir(d) \/ AddSnapshot(d)
      PROVE  TreeInv'
  BY <1>3, UntouchedTreeInv DEF ScanSchemaDir, ScanExtraDir, AddSnapshot
<1>4. ASSUME NEW folder \in Folders, NEW dir \in DirNames, PutDir(folder, dir)
      PROVE  TreeInv'
  <2>1. dirs \subseteq dirs' /\ dirs' \subseteq [folder : Folders, dir : DirNames]
    BY <1>4 DEF PutDir, TreeInv
  <2>2. QED  BY <1>4, <2>1, MoreFiles, FS_EmptySet DEF PutDir
<1>5. ASSUME NEW d \in dirs, NEW name \in Names, PutFile(d, name)
      PROVE  TreeInv'
  <2> DEFINE f == [folder |-> d.folder, dir |-> d.dir, name |-> name]
  <2>1. d \in [folder : Folders, dir : DirNames]
    BY DEF TreeInv
  <2>2. f \in FileSet /\ [folder |-> f.folder, dir |-> f.dir] = d
    BY <2>1, NamesAssumption DEF FileSet
  <2>3. files' = files \cup {f} /\ dirs' = dirs /\ snaps' = snaps
    BY <1>5 DEF PutFile
  <2>4. IsFiniteSet({f})
    BY FS_Singleton
  <2> HIDE DEF f
  <2>5. dirs' \subseteq [folder : Folders, dir : DirNames]
    BY <2>3 DEF TreeInv
  <2>6. {f} \subseteq FileSet /\ \A g \in {f} : [folder |-> g.folder, dir |-> g.dir] \in dirs'
    BY <2>2, <2>3
  <2>7. QED  BY <2>3, <2>4, <2>5, <2>6, MoreFiles
<1>6. ASSUME NEW s \in SnapFiles, PutSnapshot(s) PROVE TreeInv'
  BY <1>6 DEF PutSnapshot, TreeInv, FilesFinite
<1>7. ASSUME NEW c \in Calls, Generate(c) \/ GenerateFails(c) PROVE TreeInv'
  <2> DEFINE new == {UpFile(c), DownFile(c)}
  <2>1. new \subseteq FileSet /\ \A f \in new : f.folder = c.folder /\ f.dir = c.dir
    BY CallTypes DEF UpFile, DownFile, FileOf
  <2>2. IsFiniteSet(new)
    <3>1. IsFiniteSet({UpFile(c)} \cup {DownFile(c)})
      BY FS_Singleton, FS_AddElement
    <3>2. new = {UpFile(c)} \cup {DownFile(c)}
      OBVIOUS
    <3>3. QED  BY <3>1, <3>2
  <2>3. files' \subseteq files \cup new
    BY <1>7 DEF Generate, GenerateFails, Generated
  <2>4. dirs' = dirs \cup {[folder |-> c.folder, dir |-> c.dir]} /\ snaps' = snaps
    BY <1>7 DEF Generate, GenerateFails, GenerateDir
  <2>5. dirs \subseteq dirs' /\ dirs' \subseteq [folder : Folders, dir : DirNames]
    BY <2>4, CallTypes DEF TreeInv
  <2>6. \A f \in new : [folder |-> f.folder, dir |-> f.dir] \in dirs'
    BY <2>1, <2>4
  <2> HIDE DEF new
  <2>7. QED  BY <2>1, <2>2, <2>3, <2>4, <2>5, <2>6, MoreFiles
<1>8. QED  BY <1>1, <1>2, <1>3, <1>4, <1>5, <1>6, <1>7 DEF Next

-----------------------------------------------------------------------------
(* Steps of a scan.                                                        *)

\* What the scanner refuses is not well formed.
LEMMA RefusedDir ==
    ASSUME TreeInv, NEW d \in dirs, DirError(d.dir) \/ FolderError(d.folder, d.dir)
    PROVE  ~WellFormed
<1>1. CASE DirError(d.dir)
  BY <1>1 DEF WellFormed
<1>2. CASE FolderError(d.folder, d.dir)
  <2>1. PICK f \in FilesIn(d.folder, d.dir) : ~FileOK(f, files)
    BY <1>2, FolderAccepts DEF TreeInv
  <2>2. QED  BY <2>1 DEF FilesIn, WellFormed
<1>3. QED  BY <1>1, <1>2

\* When the schema folder has been looked at, the versions with a schema are those
\* found.
LEMMA SchemaIsFound ==
    ASSUME FoundInv, SchemaSeen = SchemaDirs, NEW dir
    PROVE  HasSchema(Rank[dir]) <=> SameVersion(dir) # {}
<1>1. \A version : HasSchema(version) <=>
                      \E d \in {e \in SchemaSeen : Full(e)} : Rank[d.dir] = version
  BY DEF HasSchema, SchemaDirs, Full
<1>2. \A version : (\E d \in {e \in SchemaSeen : Full(e)} : Rank[d.dir] = version) <=>
                      \E k \in DOMAIN found : Rank[found[k].dir] = version
  <2>1. \A name : (\E d \in {e \in SchemaSeen : Full(e)} : d.dir = name) <=>
                     \E k \in DOMAIN found : found[k].dir = name
    BY DEF FoundInv
  <2>2. QED  BY <2>1
<1>3. QED  BY <1>1, <1>2 DEF SameVersion

\* Distinct directories have one place.
LEMMA OnePlace ==
    ASSUME TreeInv, FoundInv, Distinct, SchemaSeen \subseteq SchemaDirs
    PROVE  /\ \A j, k \in DOMAIN found : Rank[found[j].dir] = Rank[found[k].dir] => j = k
           /\ \A dir : SameVersion(dir) # {} =>
                 /\ First(SameVersion(dir)) \in DOMAIN found
                 /\ \A k \in DOMAIN found :
                       Rank[found[k].dir] = Rank[dir] <=> k = First(SameVersion(dir))
<1>1. \A k \in DOMAIN found : \E d \in SchemaDirs : d.dir = found[k].dir
  <2>1. \A k \in DOMAIN found : found[k].dir \in {d.dir : d \in {e \in SchemaSeen : Full(e)}}
    BY DEF FoundInv
  <2>2. QED  BY <2>1
<1>2. ASSUME NEW j \in DOMAIN found, NEW k \in DOMAIN found,
             Rank[found[j].dir] = Rank[found[k].dir]
      PROVE  j = k
  <2>1. PICK d \in SchemaDirs : d.dir = found[j].dir
    BY <1>1
  <2>2. PICK e \in SchemaDirs : e.dir = found[k].dir
    BY <1>1
  <2>3. d = e
    BY <1>2, <2>1, <2>2 DEF Distinct, SchemaDirs
  <2>4. QED  BY <2>1, <2>2, <2>3 DEF FoundInv
<1>3. ASSUME NEW dir, SameVersion(dir) # {}
      PROVE  /\ First(SameVersion(dir)) \in DOMAIN found
             /\ \A k \in DOMAIN found :
                   Rank[found[k].dir] = Rank[dir] <=> k = First(SameVersion(dir))
  <2>1. PICK k \in SameVersion(dir) : TRUE
    BY <1>3
  <2>2. SameVersion(dir) = {k}
    BY <1>2, <2>1 DEF SameVersion
  <2>3. DOMAIN found \subseteq Int
    BY LenProperties DEF FoundInv
  <2>4. k \in DOMAIN found /\ k <= k
    BY <2>1, <2>3 DEF SameVersion
  <2>5. First(SameVersion(dir)) = k
    BY <2>2, <2>4 DEF First
  <2>6. QED  BY <2>2, <2>4, <2>5 DEF SameVersion
<1>4. QED  BY <1>2, <1>3

\* The invariant when nothing has been looked at.
LEMMA NothingSeen ==
    TreeInv /\ PhaseInv /\ found = <<>> /\ SchemaSeen = {} /\ ExtraSeen = {} /\ SnapsSeen = {}
       => ScanInv
<1> SUFFICES ASSUME TreeInv, PhaseInv, found = <<>>, SchemaSeen = {}, ExtraSeen = {},
                    SnapsSeen = {}
             PROVE  ScanInv
  OBVIOUS
<1>1. found \in Seq(LocalFolder)
  BY EmptySeq
<1>2. DOMAIN found = {}
  OBVIOUS
<1>3. AcceptedInv /\ FoundInv /\ AttachedInv
  BY <1>1, <1>2 DEF AcceptedInv, FoundInv, AttachedInv
<1>4. QED  BY <1>3 DEF ScanInv

LEMMA IdleScanInv == TreeInv /\ phase = "none" /\ left = {} /\ found = <<>> => ScanInv
<1>1. phase = "none" => SchemaSeen = {} /\ ExtraSeen = {} /\ SnapsSeen = {}
  BY DEF SchemaSeen, ExtraSeen, SnapsSeen
<1>2. phase = "none" /\ left = {} /\ found = <<>> => PhaseInv
  BY DEF PhaseInv
<1>3. QED  BY <1>1, <1>2, NothingSeen

\* The invariant when what has been looked at and what was found stay the same.
LEMMA SameSeen ==
    ASSUME ScanInv, phase # "failed", UNCHANGED <<tree, found>>, PhaseInv',
           SchemaSeen' = SchemaSeen, ExtraSeen' = ExtraSeen, SnapsSeen' = SnapsSeen
    PROVE  ScanInv'
<1>1. TreeInv'
  BY UntouchedTreeInv DEF ScanInv
<1>2. /\ \A folder, dir : FilesIn(folder, dir)' = FilesIn(folder, dir)
      /\ \A folder, dir : FolderError(folder, dir)' <=> FolderError(folder, dir)
      /\ \A dir : DirError(dir)' <=> DirError(dir)
      /\ \A version : HasSchema(version)' <=> HasSchema(version)
      /\ \A d : Full(d)' <=> Full(d)
      /\ Distinct' <=> Distinct
  BY DEF tree, FilesIn, FolderError, Duplicate, Up, Down, DirError, HasSchema, Full, Distinct
<1>3. AcceptedInv'
  BY <1>2 DEF ScanInv, AcceptedInv, tree
<1>4. FoundInv'
  BY <1>2 DEF ScanInv, FoundInv
<1>5. AttachedInv'
  BY <1>2 DEF ScanInv, AttachedInv, tree
<1>6. QED  BY <1>1, <1>3, <1>4, <1>5 DEF ScanInv

\* A refused entry ends the scan.
LEMMA FailedScanInv ==
    ASSUME ScanInv, UNCHANGED tree, phase' = "failed", ~WellFormed
    PROVE  ScanInv'
<1>1. TreeInv'
  BY UntouchedTreeInv DEF ScanInv
<1>2. WellFormed' <=> WellFormed
  BY DEF tree, WellFormed, DirError, FileOK, HasSchema, FilesIn
<1>3. PhaseInv'
  BY <1>2 DEF PhaseInv
<1>4. QED  BY <1>1, <1>3 DEF ScanInv

LEMMA SchemaDirScanInv ==
    ASSUME ScanInv, NEW d \in left, ScanSchemaDir(d)
    PROVE  ScanInv'
<1>1. /\ phase = "schema" /\ d \in SchemaDirs /\ left \subseteq SchemaDirs
      /\ TreeInv /\ AcceptedInv /\ FoundInv /\ UNCHANGED <<tree, torn>>
  BY DEF ScanSchemaDir, ScanInv, PhaseInv
<1>2. d \in dirs /\ d.folder = Schema /\ d = [folder |-> Schema, dir |-> d.dir]
      /\ d.dir \in DirNames
  BY <1>1 DEF SchemaDirs, TreeInv
<1>3. CASE DirError(d.dir) \/ FolderError(Schema, d.dir)
  <2>1. ~WellFormed
    BY <1>1, <1>2, <1>3, RefusedDir
  <2>2. phase' = "failed"
    BY <1>3 DEF ScanSchemaDir, Failed
  <2>3. QED  BY <1>1, <2>1, <2>2, FailedScanInv
<1>4. CASE ~(DirError(d.dir) \/ FolderError(Schema, d.dir))
  <2>1. phase' = "schema" /\ left' = left \ {d}
    BY <1>1, <1>4 DEF ScanSchemaDir
  <2>2. TreeInv' /\ dirs' = dirs /\ files' = files /\ snaps' = snaps
    BY <1>1, UntouchedTreeInv DEF tree
  <2>3. PhaseInv'
    BY <1>1, <2>1, <2>2 DEF PhaseInv, SchemaDirs
  <2>4. SchemaSeen' = SchemaSeen \cup {d} /\ d \notin SchemaSeen
    BY <1>1, <2>1, <2>2 DEF SchemaSeen, SchemaDirs
  <2>5. ExtraSeen' = {} /\ SnapsSeen' = {}
    BY <2>1 DEF ExtraSeen, SnapsSeen
  <2>6. /\ \A folder, dir : FilesIn(folder, dir)' = FilesIn(folder, dir)
        /\ \A folder, dir : FolderError(folder, dir)' <=> FolderError(folder, dir)
        /\ \A dir : DirError(dir)' <=> DirError(dir)
        /\ \A e : Full(e)' <=> Full(e)
    BY <2>2 DEF FilesIn, FolderError, Duplicate, Up, Down, DirError, Full
  <2>7. AcceptedInv'
    BY <1>1, <1>4, <2>4, <2>5, <2>6 DEF AcceptedInv
  <2>8. Full(d) <=> ~(Up(Schema, d.dir) = <<>> /\ d.dir \notin KeptDirs)
    BY <1>1, <1>4, FolderContents DEF Full, TreeInv
  <2>9. \A k \in DOMAIN found : found[k].dir # d.dir
    <3>1. \A k \in DOMAIN found : found[k].dir \in {e.dir : e \in {e \in SchemaSeen : Full(e)}}
      BY <1>1 DEF FoundInv
    <3>2. \A e \in SchemaSeen : e.dir # d.dir
      BY <1>1, <1>2, <2>4 DEF SchemaSeen, SchemaDirs, TreeInv
    <3>3. QED  BY <3>1, <3>2
  <2>10. FoundInv' /\ AttachedInv'
    <3>1. CASE ~Full(d)
      <4>1. found' = found
        BY <1>1, <1>4, <2>8, <3>1 DEF ScanSchemaDir
      <4>2. {e \in SchemaSeen' : Full(e)'} = {e \in SchemaSeen : Full(e)}
        BY <2>4, <2>6, <3>1
      <4>3. FoundInv'
        BY <1>1, <2>6, <4>1, <4>2 DEF FoundInv
      <4>4. ExtraSeen = {} /\ SnapsSeen = {} /\ (Distinct' <=> Distinct)
        BY <1>1, <2>2 DEF ExtraSeen, SnapsSeen, Distinct
      <4>5. AttachedInv'
        BY <1>1, <2>2, <2>5, <4>1, <4>4 DEF ScanInv, AttachedInv
      <4>6. QED  BY <4>3, <4>5
    <3>2. CASE Full(d)
      <4> DEFINE v == [dir     |-> d.dir,
                       scripts |-> Scripts(Schema, d.dir),
                       extra   |-> [e \in Extra |-> NoScripts],
                       snaps   |-> [b \in BatchNames |-> {}]]
                 n == Len(found)
      <4>1. found' = Append(found, v)
        BY <1>1, <1>4, <2>8, <3>2 DEF ScanSchemaDir
      <4>2. /\ Scripts(Schema, d.dir) \in ScriptSet
            /\ Holding(Scripts(Schema, d.dir)) = FilesIn(Schema, d.dir)
        BY <1>1, <1>4, FolderContents DEF Scripts, ScriptSet, Holding, TreeInv
      <4>3. NoScripts \in ScriptSet /\ Holding(NoScripts) = {}
        BY EmptySeq DEF NoScripts, ScriptSet, Holding, Range
      <4>4. v \in LocalFolder
        BY <1>2, <4>2, <4>3 DEF LocalFolder
      <4>5. found \in Seq(LocalFolder) /\ n \in Nat /\ DOMAIN found = 1 .. n
        BY <1>1, LenProperties DEF FoundInv
      <4>6. /\ v.dir = d.dir /\ Holding(v.scripts) = FilesIn(Schema, d.dir)
            /\ \A e \in Extra : Holding(v.extra[e]) = {}
            /\ \A b \in BatchNames : v.snaps[b] = {}
        BY <4>2, <4>3
      <4> HIDE DEF v, n
      <4>7. /\ found' \in Seq(LocalFolder) /\ DOMAIN found' = 1 .. n + 1
            /\ found'[n + 1] = v
            /\ \A k \in 1 .. n : found'[k] = found[k]
        BY <4>1, <4>4, <4>5, AppendProperties, LenProperties DEF n
      <4>8. 1 .. n + 1 = 1 .. n \cup {n + 1} /\ n + 1 \notin 1 .. n
        BY <4>5
      <4>9. {found'[k].dir : k \in DOMAIN found'} = {found[k].dir : k \in DOMAIN found} \cup {d.dir}
        <5>1. \A x : (\E k \in DOMAIN found' : found'[k].dir = x) <=>
                        (\E k \in DOMAIN found : found[k].dir = x) \/ x = d.dir
          BY <4>5, <4>6, <4>7, <4>8
        <5>2. QED  BY <5>1
      <4>10. {e.dir : e \in {e \in SchemaSeen' : Full(e)'}} =
                {e.dir : e \in {e \in SchemaSeen : Full(e)}} \cup {d.dir}
        BY <2>4, <2>6, <3>2
      <4>11. \A j, k \in DOMAIN found' : found'[j].dir = found'[k].dir => j = k
        BY <1>1, <2>9, <4>5, <4>6, <4>7, <4>8 DEF FoundInv
      <4>12. \A k \in DOMAIN found' :
                Holding(found'[k].scripts) = FilesIn(Schema, found'[k].dir)
        BY <1>1, <4>5, <4>6, <4>7, <4>8 DEF FoundInv
      <4>13. FoundInv'
        <5>1. {found[k].dir : k \in DOMAIN found} = {e.dir : e \in {e \in SchemaSeen : Full(e)}}
          BY <1>1 DEF FoundInv
        <5>2. {found'[k].dir : k \in DOMAIN found'} = {e.dir : e \in {e \in SchemaSeen' : Full(e)'}}
          BY <4>9, <4>10, <5>1
        <5>3. \A k \in DOMAIN found' :
                 Holding(found'[k].scripts) = {f \in files' : f.folder = Schema /\ f.dir = found'[k].dir}
          BY <2>2, <4>12 DEF FilesIn
        <5>4. QED  BY <4>7, <4>11, <5>2, <5>3 DEF FoundInv, FilesIn, Holding
      <4>14. AttachedInv'
        <5>1. SUFFICES ASSUME Distinct', NEW k \in DOMAIN found'
                       PROVE  /\ \A e \in Extra : Holding(found'[k].extra[e]) = {}
                              /\ \A b \in BatchNames : found'[k].snaps[b] = {}
          BY <2>5 DEF AttachedInv, Holding
        <5>2. ExtraSeen = {} /\ SnapsSeen = {} /\ Distinct
          BY <1>1, <2>2, <5>1 DEF ExtraSeen, SnapsSeen, Distinct
        <5>3. CASE k \in 1 .. n
          <6>1. /\ \A e \in Extra : Holding(found[k].extra[e]) =
                       {f \in files : /\ f.folder = e /\ Rank[f.dir] = Rank[found[k].dir]
                                      /\ [folder |-> e, dir |-> f.dir] \in {}}
                /\ \A b \in BatchNames : found[k].snaps[b] =
                       {s \in {} : s.batch = b /\ Rank[s.dir] = Rank[found[k].dir]}
            BY <1>1, <4>5, <5>2, <5>3 DEF ScanInv, AttachedInv
          <6>2. QED  BY <4>7, <5>3, <6>1
        <5>4. CASE k = n + 1
          BY <4>6, <4>7, <5>4
        <5>5. QED  BY <4>7, <4>8, <5>3, <5>4
      <4>15. QED  BY <4>13, <4>14
    <3>3. QED  BY <3>1, <3>2
  <2>11. QED  BY <2>2, <2>3, <2>7, <2>10 DEF ScanInv
<1>5. QED  BY <1>3, <1>4

\* An entry that changes neither the number of versions nor their directories and
\* scripts leaves the schema as it was found.
LEMMA FoundKept ==
    ASSUME FoundInv, UNCHANGED <<tree>>, SchemaSeen' = SchemaSeen,
           found' \in Seq(LocalFolder), DOMAIN found' = DOMAIN found,
           \A k \in DOMAIN found : /\ found'[k].dir = found[k].dir
                                   /\ found'[k].scripts = found[k].scripts
    PROVE  FoundInv'
<1>1. \A d : Full(d)' <=> Full(d)
  BY DEF tree, Full, FilesIn
<1>2. {found'[k].dir : k \in DOMAIN found'} = {found[k].dir : k \in DOMAIN found}
  <2>1. \A x : (\E k \in DOMAIN found' : found'[k].dir = x) <=>
                  \E k \in DOMAIN found : found[k].dir = x
    OBVIOUS
  <2>2. QED  BY <2>1
<1>3. {e \in SchemaSeen' : Full(e)'} = {e \in SchemaSeen : Full(e)}
  BY <1>1
<1>4. \A k \in DOMAIN found' :
         Holding(found'[k].scripts) = {f \in files' : f.folder = Schema /\ f.dir = found'[k].dir}
  BY DEF FoundInv, FilesIn, tree
<1>5. \A j, k \in DOMAIN found' : found'[j].dir = found'[k].dir => j = k
  BY DEF FoundInv
<1>6. {found[k].dir : k \in DOMAIN found} = {e.dir : e \in {e \in SchemaSeen : Full(e)}}
  BY DEF FoundInv
<1>7. {found'[k].dir : k \in DOMAIN found'} = {e.dir : e \in {e \in SchemaSeen' : Full(e)'}}
  BY <1>2, <1>3, <1>6
<1>8. QED  BY <1>4, <1>5, <1>7 DEF FoundInv, FilesIn, Holding

LEMMA ExtraDirScanInv ==
    ASSUME ScanInv, NEW d \in left, ScanExtraDir(d)
    PROVE  ScanInv'
<1>1. /\ phase = "extra" /\ d \in ExtraDirs /\ left \subseteq ExtraDirs
      /\ TreeInv /\ AcceptedInv /\ FoundInv /\ AttachedInv /\ UNCHANGED <<tree, torn>>
  BY DEF ScanExtraDir, ScanInv, PhaseInv
<1>2. d \in dirs /\ d.folder \in Extra /\ d = [folder |-> d.folder, dir |-> d.dir]
  BY <1>1 DEF ExtraDirs, TreeInv
<1>3. SchemaSeen = SchemaDirs
  BY <1>1 DEF SchemaSeen
<1>4. HasSchema(Rank[d.dir]) <=> SameVersion(d.dir) # {}
  BY <1>1, <1>3, SchemaIsFound
<1>5. CASE DirError(d.dir) \/ SameVersion(d.dir) = {} \/ FolderError(d.folder, d.dir)
  <2>1. ~WellFormed
    <3>1. CASE SameVersion(d.dir) = {}
      BY <1>2, <1>4, <3>1 DEF WellFormed
    <3>2. CASE DirError(d.dir) \/ FolderError(d.folder, d.dir)
      BY <1>1, <1>2, <3>2, RefusedDir
    <3>3. QED  BY <1>5, <3>1, <3>2
  <2>2. phase' = "failed"
    BY <1>5 DEF ScanExtraDir, Failed
  <2>3. QED  BY <1>1, <2>1, <2>2, FailedScanInv
<1>6. CASE ~(DirError(d.dir) \/ SameVersion(d.dir) = {} \/ FolderError(d.folder, d.dir))
  <2> DEFINE at == First(SameVersion(d.dir))
             scripts == Scripts(d.folder, d.dir)
  <2>1. phase' = "extra" /\ left' = left \ {d}
        /\ found' = [found EXCEPT ![at].extra[d.folder] = scripts]
    BY <1>1, <1>6 DEF ScanExtraDir
  <2>2. TreeInv' /\ dirs' = dirs /\ files' = files /\ snaps' = snaps
    BY <1>1, UntouchedTreeInv DEF tree
  <2>3. PhaseInv'
    BY <1>1, <2>1, <2>2 DEF PhaseInv, ExtraDirs
  <2>4. ExtraSeen' = ExtraSeen \cup {d} /\ d \notin ExtraSeen
    BY <1>1, <2>1, <2>2 DEF ExtraSeen, ExtraDirs
  <2>5. SchemaSeen' = SchemaSeen /\ SnapsSeen = {} /\ SnapsSeen' = {}
    BY <1>1, <2>1, <2>2 DEF SchemaSeen, SchemaDirs, SnapsSeen
  <2>6. /\ \A folder, dir : FilesIn(folder, dir)' = FilesIn(folder, dir)
        /\ \A folder, dir : FolderError(folder, dir)' <=> FolderError(folder, dir)
        /\ \A dir : DirError(dir)' <=> DirError(dir)
        /\ \A version : HasSchema(version)' <=> HasSchema(version)
    BY <2>2 DEF FilesIn, FolderError, Duplicate, Up, Down, DirError, HasSchema
  <2>7. AcceptedInv'
    BY <1>1, <1>4, <1>6, <2>4, <2>5, <2>6 DEF AcceptedInv
  <2>8. scripts \in ScriptSet /\ Holding(scripts) = FilesIn(d.folder, d.dir)
    BY <1>1, <1>6, FolderContents DEF Scripts, ScriptSet, Holding, TreeInv
  <2>9. found \in Seq(LocalFolder) /\ Len(found) \in Nat /\ DOMAIN found = 1 .. Len(found)
        /\ found \in [1 .. Len(found) -> LocalFolder]
    BY <1>1, LenProperties DEF FoundInv
  <2> HIDE DEF at, scripts
  <2>10. /\ DOMAIN found' = DOMAIN found
         /\ \A k \in DOMAIN found :
               /\ found'[k] \in LocalFolder
               /\ found'[k].dir = found[k].dir /\ found'[k].scripts = found[k].scripts
               /\ found'[k].snaps = found[k].snaps
               /\ k # at => found'[k] = found[k]
               /\ \A e \in Extra : found'[k].extra[e] =
                     IF k = at /\ e = d.folder THEN scripts ELSE found[k].extra[e]
    <3>1. DOMAIN found' = DOMAIN found
      BY <2>1
    <3>2. ASSUME NEW k \in DOMAIN found, k # at
          PROVE  found'[k] = found[k] /\ found'[k] \in LocalFolder
      BY <2>1, <2>9, <3>2
    <3>3. ASSUME at \in DOMAIN found
          PROVE  /\ found'[at] = [found[at] EXCEPT !.extra = [@ EXCEPT ![d.folder] = scripts]]
                 /\ found[at] \in LocalFolder
      BY <2>1, <2>9, <3>3
    <3>4. ASSUME at \in DOMAIN found
          PROVE  /\ found'[at] \in LocalFolder
                 /\ found'[at].dir = found[at].dir /\ found'[at].scripts = found[at].scripts
                 /\ found'[at].snaps = found[at].snaps
                 /\ \A e \in Extra : found'[at].extra[e] =
                       IF e = d.folder THEN scripts ELSE found[at].extra[e]
      BY <2>8, <3>3, <3>4 DEF LocalFolder
    <3>5. QED  BY <3>1, <3>2, <3>4
  <2>11. found' \in Seq(LocalFolder)
    <3>1. found' \in [1 .. Len(found) -> LocalFolder]
      <4>1. found' = [k \in DOMAIN found |-> found'[k]]
        BY <2>1, <2>9
      <4>2. QED  BY <2>9, <2>10, <4>1
    <3>2. QED  BY <2>9, <3>1, SeqDef
  <2>12. FoundInv'
    BY <1>1, <2>5, <2>10, <2>11, FoundKept
  <2>13. ASSUME Distinct, NEW k \in DOMAIN found
         PROVE  /\ \A e \in Extra :
                      Holding(found'[k].extra[e]) =
                          {f \in files : /\ f.folder = e /\ Rank[f.dir] = Rank[found[k].dir]
                                         /\ [folder |-> e, dir |-> f.dir] \in ExtraSeen'}
                /\ \A b \in BatchNames : found'[k].snaps[b] = {}
    <3>1. Rank[found[k].dir] = Rank[d.dir] <=> k = at
      BY <1>1, <1>3, <1>6, <2>13, OnePlace DEF at
    <3>2. \A e \in dirs : e.folder = d.folder /\ Rank[e.dir] = Rank[d.dir] => e = d
      BY <1>2, <2>13 DEF Distinct
    <3>3. ASSUME NEW e \in Extra
          PROVE  Holding(found'[k].extra[e]) =
                    {f \in files : /\ f.folder = e /\ Rank[f.dir] = Rank[found[k].dir]
                                   /\ [folder |-> e, dir |-> f.dir] \in ExtraSeen'}
      <4>1. CASE k = at /\ e = d.folder
        <5>1. Holding(found'[k].extra[e]) = {f \in files : f.folder = e /\ f.dir = d.dir}
          BY <2>8, <2>10, <4>1 DEF FilesIn
        <5>2. ASSUME NEW f \in files, f.folder = e
              PROVE  f.dir = d.dir <=> /\ Rank[f.dir] = Rank[found[k].dir]
                                       /\ [folder |-> e, dir |-> f.dir] \in ExtraSeen'
          <6>1. [folder |-> e, dir |-> f.dir] \in dirs
            BY <1>1, <5>2 DEF TreeInv
          <6>2. Rank[f.dir] = Rank[d.dir] => [folder |-> e, dir |-> f.dir] = d
            BY <3>2, <4>1, <6>1
          <6>3. f.dir = d.dir => [folder |-> e, dir |-> f.dir] = d
            BY <1>2, <4>1
          <6>4. Rank[found[k].dir] = Rank[d.dir]
            BY <3>1, <4>1
          <6>5. QED  BY <2>4, <6>2, <6>3, <6>4
        <5>3. QED  BY <5>1, <5>2
      <4>2. CASE ~(k = at /\ e = d.folder)
        <5>1. Holding(found'[k].extra[e]) =
                 {f \in files : /\ f.folder = e /\ Rank[f.dir] = Rank[found[k].dir]
                                /\ [folder |-> e, dir |-> f.dir] \in ExtraSeen}
          BY <1>1, <2>10, <2>13, <4>2 DEF AttachedInv
        <5>2. ASSUME NEW f \in files, Rank[f.dir] = Rank[found[k].dir]
              PROVE  [folder |-> e, dir |-> f.dir] # d
          <6>1. CASE e # d.folder
            BY <1>2, <6>1
          <6>2. CASE e = d.folder
            BY <1>2, <3>1, <4>2, <5>2, <6>2
          <6>3. QED  BY <6>1, <6>2
        <5>3. QED  BY <2>4, <5>1, <5>2
      <4>3. QED  BY <4>1, <4>2
    <3>4. ASSUME NEW b \in BatchNames PROVE found'[k].snaps[b] = {}
      <4>1. found[k].snaps[b] = {s \in {} : s.batch = b /\ Rank[s.dir] = Rank[found[k].dir]}
        BY <1>1, <2>5, <2>13 DEF AttachedInv
      <4>2. QED  BY <2>10, <4>1
    <3>5. QED  BY <3>3, <3>4
  <2>14. AttachedInv'
    <3>1. SUFFICES ASSUME Distinct, NEW k \in DOMAIN found
                   PROVE  /\ \A e \in Extra :
                                Holding(found'[k].extra[e]) =
                                    {f \in files : /\ f.folder = e
                                                   /\ Rank[f.dir] = Rank[found[k].dir]
                                                   /\ [folder |-> e, dir |-> f.dir] \in ExtraSeen'}
                          /\ \A b \in BatchNames : found'[k].snaps[b] = {}
      BY <2>2, <2>5, <2>10 DEF AttachedInv, Distinct, Holding
    <3>2. QED  BY <2>13, <3>1
  <2>15. QED  BY <2>2, <2>3, <2>7, <2>12, <2>14 DEF ScanInv
<1>7. QED  BY <1>5, <1>6

LEMMA SnapshotScanInv ==
    ASSUME ScanInv, NEW s \in left, AddSnapshot(s)
    PROVE  ScanInv'
<1>1. /\ phase = "snapshots" /\ s \in snaps /\ s \in SnapFiles /\ left \subseteq snaps
      /\ TreeInv /\ AcceptedInv /\ FoundInv /\ AttachedInv /\ UNCHANGED <<tree, torn>>
  BY DEF AddSnapshot, ScanInv, PhaseInv, TreeInv
<1>2. SchemaSeen = SchemaDirs
  BY <1>1 DEF SchemaSeen
<1>3. HasSchema(Rank[s.dir]) <=> SameVersion(s.dir) # {}
  BY <1>1, <1>2, SchemaIsFound
<1>4. CASE s.batch \notin BatchNames \/ SameVersion(s.dir) = {}
  <2>1. ~WellFormed
    BY <1>1, <1>3, <1>4 DEF WellFormed
  <2>2. phase' = "failed"
    BY <1>4 DEF AddSnapshot, Failed
  <2>3. QED  BY <1>1, <2>1, <2>2, FailedScanInv
<1>5. CASE ~(s.batch \notin BatchNames \/ SameVersion(s.dir) = {})
  <2> DEFINE at == First(SameVersion(s.dir))
  <2>1. phase' = "snapshots" /\ left' = left \ {s}
        /\ found' = [found EXCEPT ![at].snaps[s.batch] = {s}]
    BY <1>1, <1>5 DEF AddSnapshot
  <2>2. TreeInv' /\ dirs' = dirs /\ files' = files /\ snaps' = snaps
    BY <1>1, UntouchedTreeInv DEF tree
  <2>3. PhaseInv'
    BY <1>1, <2>1, <2>2 DEF PhaseInv
  <2>4. SnapsSeen' = SnapsSeen \cup {s} /\ SnapsSeen \subseteq snaps
    BY <1>1, <2>1, <2>2 DEF SnapsSeen
  <2>5. SchemaSeen' = SchemaSeen /\ ExtraSeen' = ExtraSeen
    BY <1>1, <2>1, <2>2 DEF SchemaSeen, SchemaDirs, ExtraSeen, ExtraDirs
  <2>6. /\ \A folder, dir : FolderError(folder, dir)' <=> FolderError(folder, dir)
        /\ \A dir : DirError(dir)' <=> DirError(dir)
        /\ \A version : HasSchema(version)' <=> HasSchema(version)
    BY <2>2 DEF FilesIn, FolderError, Duplicate, Up, Down, DirError, HasSchema
  <2>7. AcceptedInv'
    BY <1>1, <1>3, <1>5, <2>4, <2>5, <2>6 DEF AcceptedInv
  <2>8. found \in Seq(LocalFolder) /\ Len(found) \in Nat /\ DOMAIN found = 1 .. Len(found)
        /\ found \in [1 .. Len(found) -> LocalFolder]
    BY <1>1, LenProperties DEF FoundInv
  <2> HIDE DEF at
  <2>9. /\ DOMAIN found' = DOMAIN found
        /\ \A k \in DOMAIN found :
              /\ found'[k] \in LocalFolder
              /\ found'[k].dir = found[k].dir /\ found'[k].scripts = found[k].scripts
              /\ found'[k].extra = found[k].extra
              /\ \A b \in BatchNames : found'[k].snaps[b] =
                    IF k = at /\ b = s.batch THEN {s} ELSE found[k].snaps[b]
    <3>1. DOMAIN found' = DOMAIN found
      BY <2>1
    <3>2. ASSUME NEW k \in DOMAIN found, k # at
          PROVE  found'[k] = found[k] /\ found'[k] \in LocalFolder
      BY <2>1, <2>8, <3>2
    <3>3. ASSUME at \in DOMAIN found
          PROVE  /\ found'[at] = [found[at] EXCEPT !.snaps = [@ EXCEPT ![s.batch] = {s}]]
                 /\ found[at] \in LocalFolder
      BY <2>1, <2>8, <3>3
    <3>4. ASSUME at \in DOMAIN found
          PROVE  /\ found'[at] \in LocalFolder
                 /\ found'[at].dir = found[at].dir /\ found'[at].scripts = found[at].scripts
                 /\ found'[at].extra = found[at].extra
                 /\ \A b \in BatchNames : found'[at].snaps[b] =
                       IF b = s.batch THEN {s} ELSE found[at].snaps[b]
      BY <1>1, <1>5, <3>3, <3>4 DEF LocalFolder
    <3>5. QED  BY <3>1, <3>2, <3>4
  <2>10. found' \in Seq(LocalFolder)
    <3>1. found' = [k \in DOMAIN found |-> found'[k]]
      BY <2>1, <2>8
    <3>2. found' \in [1 .. Len(found) -> LocalFolder]
      BY <2>8, <2>9, <3>1
    <3>3. QED  BY <2>8, <3>2, SeqDef
  <2>11. FoundInv'
    BY <1>1, <2>5, <2>9, <2>10, FoundKept
  <2>12. ASSUME Distinct, NEW k \in DOMAIN found, NEW b \in BatchNames
         PROVE  found'[k].snaps[b] =
                   {t \in SnapsSeen' : t.batch = b /\ Rank[t.dir] = Rank[found[k].dir]}
    <3>1. Rank[found[k].dir] = Rank[s.dir] <=> k = at
      BY <1>1, <1>2, <1>5, <2>12, OnePlace DEF at
    <3>2. \A t \in snaps : t.batch = s.batch /\ Rank[t.dir] = Rank[s.dir] => t = s
      BY <1>1, <2>12 DEF Distinct
    <3>3. CASE k = at /\ b = s.batch
      BY <1>1, <2>4, <2>9, <3>1, <3>2, <3>3
    <3>4. CASE ~(k = at /\ b = s.batch)
      <4>1. found'[k].snaps[b] =
               {t \in SnapsSeen : t.batch = b /\ Rank[t.dir] = Rank[found[k].dir]}
        BY <1>1, <2>9, <2>12, <3>4 DEF AttachedInv
      <4>2. ~(s.batch = b /\ Rank[s.dir] = Rank[found[k].dir])
        BY <3>1, <3>4
      <4>3. QED  BY <2>4, <4>1, <4>2
    <3>5. QED  BY <3>3, <3>4
  <2>13. AttachedInv'
    <3>1. SUFFICES ASSUME Distinct
                   PROVE  \A k \in DOMAIN found :
                             /\ \A e \in Extra :
                                   Holding(found'[k].extra[e]) =
                                       {f \in files : /\ f.folder = e
                                                      /\ Rank[f.dir] = Rank[found[k].dir]
                                                      /\ [folder |-> e, dir |-> f.dir] \in ExtraSeen}
                             /\ \A b \in BatchNames :
                                   found'[k].snaps[b] =
                                       {t \in SnapsSeen' : t.batch = b /\ Rank[t.dir] = Rank[found[k].dir]}
      BY <2>2, <2>5, <2>9 DEF AttachedInv, Distinct, Holding
    <3>2. QED  BY <1>1, <2>9, <2>12, <3>1 DEF AttachedInv
  <2>14. QED  BY <2>2, <2>3, <2>7, <2>11, <2>13 DEF ScanInv
<1>6. QED  BY <1>4, <1>5

\* Between scans the directory may change.
LEMMA EditScanInv ==
    ASSUME ScanInv, TreeInv', Edit
    PROVE  ScanInv'
<1>1. phase = "none" /\ left = {} /\ found = <<>>
  BY DEF ScanInv, PhaseInv, Edit
<1>2. phase' = "none" /\ left' = {} /\ found' = <<>>
  BY <1>1 DEF Edit, scan
<1>3. (TreeInv /\ phase = "none" /\ left = {} /\ found = <<>>)'
  BY <1>2
<1>4. QED  BY <1>3, IdleScanInv, PTL

LEMMA NextScanInv == ScanInv /\ [Next]_vars => ScanInv'
<1> SUFFICES ASSUME ScanInv, [Next]_vars PROVE ScanInv'
  OBVIOUS
<1>1. TreeInv /\ TreeInv' /\ PhaseInv
  BY NextTreeInv DEF ScanInv
<1>2. CASE UNCHANGED vars
  <2>1. UNCHANGED <<dirs, files, snaps, phase, left, found>>
    BY <1>2 DEF vars, tree, scan
  <2>2. CASE phase = "failed"
    <3>1. ~WellFormed
      BY <1>1, <2>2 DEF PhaseInv
    <3>2. QED  BY <2>1, <2>2, <3>1, FailedScanInv DEF tree
  <2>3. CASE phase # "failed"
    <3>1. SchemaSeen' = SchemaSeen /\ ExtraSeen' = ExtraSeen /\ SnapsSeen' = SnapsSeen
      BY <2>1 DEF SchemaSeen, SchemaDirs, ExtraSeen, ExtraDirs, SnapsSeen
    <3>2. PhaseInv'
      BY <1>1, <2>1, <2>3 DEF PhaseInv, SchemaDirs, ExtraDirs
    <3>3. QED  BY <2>1, <2>3, <3>1, <3>2, SameSeen DEF tree
  <2>4. QED  BY <2>2, <2>3
<1>3. CASE Scan
  <2>1. phase' = "schema" /\ found' = <<>> /\ left' = SchemaDirs' /\ snaps' = snaps
    BY <1>1, <1>3 DEF Scan, PhaseInv, SchemaDirs, tree
  <2>2. SchemaSeen' = {} /\ ExtraSeen' = {} /\ SnapsSeen' = {} /\ PhaseInv'
    BY <2>1 DEF SchemaSeen, ExtraSeen, SnapsSeen, PhaseInv
  <2>3. (/\ TreeInv /\ PhaseInv /\ found = <<>>
         /\ SchemaSeen = {} /\ ExtraSeen = {} /\ SnapsSeen = {})'
    BY <1>1, <2>1, <2>2
  <2>4. QED  BY <2>3, NothingSeen, PTL
<1>4. CASE ScanExtra
  <2>1. /\ phase = "schema" /\ phase' = "extra" /\ left = {} /\ left' = ExtraDirs
        /\ UNCHANGED <<dirs, files, snaps, found>>
    BY <1>4 DEF ScanExtra, ExtraDirs, tree
  <2>2. SchemaSeen' = SchemaSeen /\ ExtraSeen' = ExtraSeen /\ SnapsSeen' = SnapsSeen
    BY <2>1 DEF SchemaSeen, SchemaDirs, ExtraSeen, ExtraDirs, SnapsSeen
  <2>3. PhaseInv'
    BY <2>1 DEF PhaseInv, ExtraDirs
  <2>4. QED  BY <2>1, <2>2, <2>3, SameSeen DEF tree
<1>5. CASE ScanSnapshots
  <2>1. /\ phase = "extra" /\ phase' = "snapshots" /\ left = {} /\ left' = snaps
        /\ UNCHANGED <<dirs, files, snaps, found>>
    BY <1>5 DEF ScanSnapshots, tree
  <2>2. SchemaSeen' = SchemaSeen /\ ExtraSeen' = ExtraSeen /\ SnapsSeen' = SnapsSeen
    BY <2>1 DEF SchemaSeen, SchemaDirs, ExtraSeen, ExtraDirs, SnapsSeen
  <2>3. PhaseInv'
    BY <2>1 DEF PhaseInv
  <2>4. QED  BY <2>1, <2>2, <2>3, SameSeen DEF tree
<1>6. CASE Scanned
  <2>1. /\ phase = "snapshots" /\ phase' = "done" /\ left = {}
        /\ UNCHANGED <<dirs, files, snaps, found>>
    BY <1>6 DEF Scanned, tree
  <2>2. SchemaSeen' = SchemaSeen /\ ExtraSeen' = ExtraSeen /\ SnapsSeen' = SnapsSeen
    BY <2>1 DEF SchemaSeen, SchemaDirs, ExtraSeen, ExtraDirs, SnapsSeen
  <2>3. PhaseInv'
    BY <2>1 DEF PhaseInv
  <2>4. QED  BY <2>1, <2>2, <2>3, SameSeen DEF tree
<1>7. CASE Return
  <2>1. phase' = "none" /\ left' = {} /\ found' = <<>>
    BY <1>7 DEF Return
  <2>2. (TreeInv /\ phase = "none" /\ left = {} /\ found = <<>>)'
    BY <1>1, <2>1
  <2>3. QED  BY <2>2, IdleScanInv, PTL
<1>8. ASSUME NEW d \in left, ScanSchemaDir(d) \/ ScanExtraDir(d) \/ AddSnapshot(d)
      PROVE  ScanInv'
  BY <1>8, SchemaDirScanInv, ExtraDirScanInv, SnapshotScanInv
<1>9. ASSUME NEW folder \in Folders, NEW dir \in DirNames, PutDir(folder, dir)
      PROVE  ScanInv'
  BY <1>1, <1>9, EditScanInv DEF PutDir
<1>10. ASSUME NEW d \in dirs, NEW name \in Names, PutFile(d, name) PROVE ScanInv'
  BY <1>1, <1>10, EditScanInv DEF PutFile
<1>11. ASSUME NEW s \in SnapFiles, PutSnapshot(s) PROVE ScanInv'
  BY <1>1, <1>11, EditScanInv DEF PutSnapshot
<1>12. ASSUME NEW c \in Calls, Generate(c) \/ GenerateFails(c) PROVE ScanInv'
  BY <1>1, <1>12, EditScanInv DEF Generate, GenerateFails, GenerateDir
<1>13. QED
  BY <1>2, <1>3, <1>4, <1>5, <1>6, <1>7, <1>8, <1>9, <1>10, <1>11, <1>12 DEF Next

LEMMA ScanInvariant == Spec => []ScanInv
<1>1. Init => ScanInv
  BY InitTreeInv, IdleScanInv DEF Init
<1>2. QED  BY <1>1, NextScanInv, PTL DEF Spec

-----------------------------------------------------------------------------
LEMMA AcceptedIsWellFormed ==
    ASSUME ScanInv, phase = "done"
    PROVE  WellFormed
<1>1. TreeInv /\ AcceptedInv
  BY DEF ScanInv
<1>2. SchemaSeen = SchemaDirs /\ ExtraSeen = ExtraDirs /\ SnapsSeen = snaps
  BY DEF SchemaSeen, ExtraSeen, SnapsSeen
<1>3. ASSUME NEW d \in dirs
      PROVE  /\ ~DirError(d.dir) /\ ~FolderError(d.folder, d.dir)
             /\ d.folder \in Extra => HasSchema(Rank[d.dir])
  <2>1. d.folder = Schema \/ d.folder \in Extra
    BY <1>1 DEF TreeInv, Folders
  <2>2. CASE d.folder = Schema
    <3>1. d \in SchemaSeen
      BY <1>2, <2>2 DEF SchemaDirs
    <3>2. QED  BY <1>1, <2>2, <3>1, FoldersAssumption DEF AcceptedInv
  <2>3. CASE d.folder \in Extra
    <3>1. d \in ExtraSeen
      BY <1>2, <2>3 DEF ExtraDirs
    <3>2. QED  BY <1>1, <3>1 DEF AcceptedInv
  <2>4. QED  BY <2>1, <2>2, <2>3
<1>4. ASSUME NEW f \in files PROVE FileOK(f, files)
  <2>1. ~FolderError(f.folder, f.dir)
    <3>1. [folder |-> f.folder, dir |-> f.dir] \in dirs
      BY <1>1 DEF TreeInv
    <3>2. QED  BY <1>3, <3>1
  <2>2. f \in FilesIn(f.folder, f.dir)
    BY DEF FilesIn
  <2>3. QED  BY <1>1, <2>1, <2>2, FolderAccepts DEF TreeInv
<1>5. \A s \in snaps : s.batch \in BatchNames /\ HasSchema(Rank[s.dir])
  BY <1>1, <1>2 DEF AcceptedInv
<1>6. QED  BY <1>3, <1>4, <1>5 DEF WellFormed

\* The scanner accepts the directories that are well formed and no other, in
\* whatever order it is given their entries.
THEOREM ScanAcceptsWellFormed == Spec => []AcceptanceExact
<1>1. ScanInv => AcceptanceExact
  BY AcceptedIsWellFormed DEF ScanInv, PhaseInv, AcceptanceExact
<1>2. QED  BY <1>1, ScanInvariant, PTL

\* The versions found are Planner's local versions.
LEMMA FoundIsLocal ==
    ASSUME ScanInv, phase = "done"
    PROVE  \A version : version \in LocalVersions(Repo) <=>
                           \E k \in DOMAIN found : Rank[found[k].dir] = version
<1>1. TreeInv /\ AcceptedInv /\ FoundInv /\ SchemaSeen = SchemaDirs
  BY DEF ScanInv, SchemaSeen
<1>2. ASSUME NEW k \in DOMAIN found PROVE Rank[found[k].dir] \in LocalVersions(Repo)
  <2>1. found[k].dir \in {d.dir : d \in {e \in SchemaDirs : Full(e)}}
    BY <1>1 DEF FoundInv
  <2>2. PICK d \in SchemaDirs : Full(d) /\ d.dir = found[k].dir
    BY <2>1
  <2>3. d.dir \in DOMAIN Rank /\ Rank[d.dir] \in Versions
    BY <1>1, NamesAssumption DEF AcceptedInv, DirError
  <2>4. CASE d.dir \in KeptDirs
    BY <2>2, <2>3, <2>4, NamesAssumption DEF LocalVersions
  <2>5. CASE FilesIn(Schema, d.dir) # {}
    <3>1. PICK f \in files : f.folder = Schema /\ f.dir = d.dir
      BY <2>5 DEF FilesIn
    <3>2. [folder |-> f.folder, version |-> Rank[f.dir], ts |-> f.name.ts] \in Repo
      BY DEF Repo
    <3>3. \E g \in Repo : g.folder = Schema /\ g.version = Rank[d.dir]
      BY <3>1, <3>2
    <3>4. QED  BY <2>2, <2>3, <3>3 DEF LocalVersions
  <2>6. QED  BY <2>2, <2>4, <2>5 DEF Full
<1>3. ASSUME NEW version \in LocalVersions(Repo)
      PROVE  \E k \in DOMAIN found : Rank[found[k].dir] = version
  <2>1. \E d \in SchemaDirs : Full(d) /\ Rank[d.dir] = version
    <3>1. CASE version \in Kept
      <4>1. PICK dir \in KeptDirs : Rank[dir] = version
        BY <3>1, NamesAssumption
      <4>2. [folder |-> Schema, dir |-> dir] \in SchemaDirs
        BY <1>1 DEF TreeInv, SchemaDirs
      <4>3. QED  BY <4>1, <4>2 DEF Full
    <3>2. CASE \E g \in Repo : g.folder = Schema /\ g.version = version
      <4>1. PICK f \in files : f.folder = Schema /\ Rank[f.dir] = version
        BY <3>2 DEF Repo
      <4>2. [folder |-> Schema, dir |-> f.dir] \in SchemaDirs
        BY <1>1, <4>1 DEF TreeInv, SchemaDirs
      <4>3. FilesIn(Schema, f.dir) # {}
        BY <4>1 DEF FilesIn
      <4>4. QED  BY <4>1, <4>2, <4>3 DEF Full
    <3>3. QED  BY <3>1, <3>2 DEF LocalVersions
  <2>2. PICK d \in SchemaDirs : Full(d) /\ Rank[d.dir] = version
    BY <2>1
  <2>3. d.dir \in {found[k].dir : k \in DOMAIN found}
    BY <1>1, <2>2 DEF FoundInv
  <2>4. QED  BY <2>2, <2>3
<1>4. QED  BY <1>2, <1>3

\* When no two directories are of one version, every file and snapshot is found
\* once and at its version, and what was found is the set of files Planner plans
\* with.
THEOREM ScanFindsEverything == Spec => []ResultExact
<1> SUFFICES ScanInv => ResultExact
  BY ScanInvariant, PTL
<1> SUFFICES ASSUME ScanInv, phase = "done", Distinct
             PROVE  /\ {Rank[v.dir] : v \in Range(found)} = LocalVersions(Repo)
                    /\ \A i, j \in DOMAIN found : Rank[found[i].dir] = Rank[found[j].dir] => i = j
                    /\ ~ScanError(Repo)
                    /\ \A v \in Range(found), folder \in Folders :
                          Range(ScriptsOf(v, folder).up) \cup Range(ScriptsOf(v, folder).down) =
                              {f \in files : f.folder = folder /\ Rank[f.dir] = Rank[v.dir]}
                    /\ \A s \in snaps : \E v \in Range(found) :
                          Rank[v.dir] = Rank[s.dir] /\ v.snaps[s.batch] = {s}
  BY DEF ResultExact
<1>1. TreeInv /\ AcceptedInv /\ FoundInv /\ AttachedInv
  BY DEF ScanInv
<1>2. SchemaSeen = SchemaDirs /\ ExtraSeen = ExtraDirs /\ SnapsSeen = snaps
  BY DEF SchemaSeen, ExtraSeen, SnapsSeen
<1>3. {Rank[v.dir] : v \in Range(found)} = LocalVersions(Repo)
  <2>1. \A x : x \in {Rank[v.dir] : v \in Range(found)} <=>
                  \E k \in DOMAIN found : Rank[found[k].dir] = x
    BY DEF Range
  <2>2. \A x : x \in {Rank[v.dir] : v \in Range(found)} <=> x \in LocalVersions(Repo)
    BY <2>1, FoundIsLocal
  <2> HIDE DEF ScanInv
  <2>3. QED  BY <2>2
<1>4. \A i, j \in DOMAIN found : Rank[found[i].dir] = Rank[found[j].dir] => i = j
  BY <1>1, <1>2, OnePlace
<1>5. \A dir : HasSchema(Rank[dir]) => \E k \in DOMAIN found : Rank[found[k].dir] = Rank[dir]
  BY <1>1, <1>2, SchemaIsFound DEF SameVersion
<1>6. ~ScanError(Repo)
  <2>1. ASSUME NEW f \in files, f.folder \in Extra PROVE Rank[f.dir] \in LocalVersions(Repo)
    <3>1. [folder |-> f.folder, dir |-> f.dir] \in ExtraSeen
      BY <1>1, <1>2, <2>1 DEF TreeInv, ExtraDirs
    <3>2. HasSchema(Rank[f.dir])
      BY <1>1, <3>1 DEF AcceptedInv
    <3>3. QED  BY <1>5, <3>2, FoundIsLocal
  <2>2. \A g \in Repo : \E f \in files : g.folder = f.folder /\ g.version = Rank[f.dir]
    BY DEF Repo
  <2>3. QED  BY <2>1, <2>2 DEF ScanError
<1>7. ASSUME NEW k \in DOMAIN found, NEW folder \in Folders
      PROVE  Holding(ScriptsOf(found[k], folder)) =
                {f \in files : f.folder = folder /\ Rank[f.dir] = Rank[found[k].dir]}
  <2>1. CASE folder = Schema
    <3>1. Holding(found[k].scripts) = {f \in files : f.folder = Schema /\ f.dir = found[k].dir}
      BY <1>1 DEF FoundInv, FilesIn
    <3>2. found[k].dir \in {d.dir : d \in {e \in SchemaDirs : Full(e)}}
      BY <1>1, <1>2 DEF FoundInv
    <3>3. PICK d \in SchemaDirs : d.dir = found[k].dir
      BY <3>2
    <3>4. ASSUME NEW f \in files, f.folder = Schema, Rank[f.dir] = Rank[d.dir]
          PROVE  f.dir = d.dir
      <4>1. [folder |-> f.folder, dir |-> f.dir] \in dirs
        BY <1>1 DEF TreeInv
      <4>2. [folder |-> f.folder, dir |-> f.dir] = d
        BY <3>4, <4>1 DEF Distinct, SchemaDirs
      <4>3. QED  BY <4>2
    <3>5. QED  BY <2>1, <3>1, <3>3, <3>4 DEF ScriptsOf
  <2>2. CASE folder # Schema
    <3>1. folder \in Extra
      BY <2>2 DEF Folders
    <3>2. Holding(found[k].extra[folder]) =
             {f \in files : /\ f.folder = folder /\ Rank[f.dir] = Rank[found[k].dir]
                            /\ [folder |-> folder, dir |-> f.dir] \in ExtraSeen}
      BY <1>1, <3>1 DEF AttachedInv
    <3>3. \A f \in files : f.folder = folder => [folder |-> folder, dir |-> f.dir] \in ExtraSeen
      BY <1>1, <1>2, <3>1 DEF TreeInv, ExtraDirs
    <3>4. QED  BY <2>2, <3>2, <3>3 DEF ScriptsOf
  <2>3. QED  BY <2>1, <2>2
<1>8. ASSUME NEW s \in snaps
      PROVE  \E v \in Range(found) : Rank[v.dir] = Rank[s.dir] /\ v.snaps[s.batch] = {s}
  <2>1. s.batch \in BatchNames /\ HasSchema(Rank[s.dir])
    BY <1>1, <1>2 DEF AcceptedInv
  <2>2. PICK k \in DOMAIN found : Rank[found[k].dir] = Rank[s.dir]
    BY <1>5, <2>1
  <2>3. found[k].snaps[s.batch] = {t \in snaps : t.batch = s.batch /\ Rank[t.dir] = Rank[s.dir]}
    BY <1>1, <1>2, <2>1, <2>2 DEF AttachedInv
  <2>4. \A t \in snaps : t.batch = s.batch /\ Rank[t.dir] = Rank[s.dir] => t = s
    BY DEF Distinct
  <2>5. found[k].snaps[s.batch] = {s}
    BY <2>3, <2>4
  <2>6. QED  BY <2>2, <2>5 DEF Range
<1>9. \A v \in Range(found), folder \in Folders :
         Range(ScriptsOf(v, folder).up) \cup Range(ScriptsOf(v, folder).down) =
             {f \in files : f.folder = folder /\ Rank[f.dir] = Rank[v.dir]}
  <2>1. \A v \in Range(found) : \E k \in DOMAIN found : found[k] = v
    BY DEF Range
  <2>2. QED  BY <1>7, <2>1 DEF Holding
<1>10. QED  BY <1>3, <1>4, <1>6, <1>8, <1>9

=============================================================================
