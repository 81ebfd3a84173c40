-------------------------- MODULE Inventory_proof --------------------------
(***************************************************************************)
(* Proofs about the filament inventory.  Rows are chosen by index and      *)
(* changed by id, so what has to be known is that an id leads to one row;  *)
(* and the page is written back whole, so that it shows what is stored.    *)
(* Both are kept by every operation, a pull that answers late included.    *)
(***************************************************************************)
EXTENDS Inventory, FiniteSetTheorems, SequenceTheorems, WellFoundedInduction, TLAPS

\* A function of 1 .. n for some n.
IsList(list) == Len(list) \in Nat /\ list = [n \in 1 .. Len(list) |-> list[n]]

\* The fields of a row, and of the page.
IsSpool(s) ==
    /\ s = [id |-> s.id, cloud |-> s.cloud, filament |-> s.filament, initial |-> s.initial, used |-> s.used]
    /\ s.initial \in Nat /\ s.used \in Nat

IsDraft(d) ==
    /\ d = [id |-> d.id, profile |-> d.profile, name |-> d.name, initial |-> d.initial, net |-> d.net]
    /\ d.initial \in Nat /\ d.net \in Nat

\* An inventory: a list of spools.
IsInventory(i) ==
    /\ i = [filaments |-> i.filaments, spools |-> i.spools]
    /\ IsList(i.spools)
    /\ \A n \in 1 .. Len(i.spools) : IsSpool(i.spools[n])

\* An id that at most row n has of its own.
OwnAtMost(id, n) == \A m \in 1 .. MaxSpools : id = LocalId(m) => m = n

\* Rows are numbered as they stand, and no two have an id of the cloud in common.
Tidy(i) ==
    /\ \A n \in 1 .. Len(i.spools) : i.spools[n].id = LocalId(n) /\ OwnAtMost(i.spools[n].cloud, n)
    /\ \A m, n \in 1 .. Len(i.spools) :
          m # n /\ i.spools[m].cloud = i.spools[n].cloud => i.spools[m].cloud = Blank

\* What is in memory and in the file, and what is on the page.
StoreOK ==
    /\ IsInventory(inv) /\ IsInventory(file)
    /\ Len(inv.spools) <= MaxSpools /\ Len(file.spools) <= MaxSpools
    /\ gaps \in BOOLEAN
    /\ ~gaps => Tidy(inv) /\ Tidy(file)
    /\ FileCurrent

PageOK == IsDraft(draft) /\ selected \in Nat /\ DraftCurrent

InventoryOK == StoreOK /\ PageOK

\* A set of numbers has a least element: no finite set 1 .. n has an endless
\* chain of subsets.
LEMMA Least ==
    ASSUME NEW T, T \subseteq Nat, T # {}
    PROVE  \E m \in T : \A n \in T : m <= n
<1> DEFINE R == StrictSubsetOrdering(Nat)
           U == {1 .. n : n \in T}
           V == FiniteSubsetsOf(Nat)
<1>1. IsWellFoundedOn(R, V)
  BY FS_StrictSubsetOrderingWellFounded
<1>2. U \subseteq V /\ U # {}
  <2>1. ASSUME NEW n \in T PROVE 1 .. n \in V
    <3>1. 1 \in Int /\ n \in Int /\ 1 .. n \in SUBSET Nat
      OBVIOUS
    <3>2. IsFiniteSet(1 .. n)
      BY <3>1, FS_Interval, Zenon
    <3> QED BY <3>1, <3>2 DEF FiniteSubsetsOf
  <2> QED BY <2>1
<1>3. PICK u \in U : \A w \in U : ~(<<w, u>> \in R)
  <2> HIDE DEF R, U, V
  <2> QED BY <1>1, <1>2, WFMin
<1>4. PICK m \in T : u = 1 .. m
  OBVIOUS
<1>5. ASSUME NEW n \in T, n < m PROVE FALSE
  <2>1. 1 .. n \subseteq u /\ m \in u /\ m \notin 1 .. n
    BY <1>4, <1>5
  <2>2. <<1 .. n, u>> \in R
    BY <2>1, <1>4 DEF StrictSubsetOrdering
  <2> QED BY <1>3, <2>2
<1> QED BY <1>5

\* What holds of 0 and passes to the next number holds of all.
LEMMA Induct ==
    ASSUME NEW T, 0 \in T, \A n \in Nat : n \in T => n + 1 \in T
    PROVE  \A n \in Nat : n \in T
<1> SUFFICES ASSUME NEW k \in Nat \ T PROVE FALSE
  OBVIOUS
<1>1. PICK m \in Nat \ T : \A n \in Nat \ T : m <= n
  BY Least
<1>2. m - 1 \in Nat /\ m - 1 \in T
  BY <1>1
<1> QED BY <1>1, <1>2

\* Min is a member of the set.
LEMMA MinIn == ASSUME NEW I, I \subseteq Nat, I # {} PROVE Min(I) \in I
<1>1. PICK m \in I : \A n \in I : m <= n
  BY Least
<1> QED BY <1>1 DEF Min

\* Local ids are told apart by their numbers.
LEMMA IdsDiffer == ASSUME NEW m, NEW n, LocalId(m) = LocalId(n) PROVE m = n
BY DEF LocalId

\* A spool that an id leads to.
Matches(s, flat) == s.id = flat.id \/ s.cloud = flat.id

\* What row an id leads to, 0 for none.
LEMMA RowFound ==
    ASSUME NEW i, Len(i.spools) \in Nat, NEW flat
    PROVE  /\ RowOf(i, flat) \in 0 .. Len(i.spools)
           /\ RowOf(i, flat) # 0 => flat.id # Blank /\ Matches(i.spools[RowOf(i, flat)], flat)
           /\ RowOf(i, flat) = 0 => \/ flat.id = Blank
                                    \/ \A n \in 1 .. Len(i.spools) : ~Matches(i.spools[n], flat)
<1> DEFINE I == {n \in 1 .. Len(i.spools) : Matches(i.spools[n], flat)}
<1>1. flat.id # Blank => RowOf(i, flat) = IF I # {} THEN Min(I) ELSE 0
  BY DEF RowOf, SelectInSeq, Matches
<1>2. flat.id = Blank => RowOf(i, flat) = 0
  BY DEF RowOf
<1>3. I # {} => Min(I) \in I
  <2>1. I \subseteq Nat
    OBVIOUS
  <2> HIDE DEF I
  <2> QED BY <2>1, MinIn
<1>4. \A n \in I : n \in 1 .. Len(i.spools) /\ Matches(i.spools[n], flat) /\ n # 0
  OBVIOUS
<1>5. I = {} => \A n \in 1 .. Len(i.spools) : ~Matches(i.spools[n], flat)
  OBVIOUS
<1>6. \A n \in 1 .. Len(i.spools) : n \in 0 .. Len(i.spools)
  OBVIOUS
<1> HIDE DEF I
<1>7. 0 \in 0 .. Len(i.spools)
  OBVIOUS
<1> QED BY <1>1, <1>2, <1>3, <1>4, <1>5, <1>6, <1>7

\* What row has the id of its own, 0 for none.
LEMMA FirstFound ==
    ASSUME NEW i, Len(i.spools) \in Nat, NEW id
    PROVE  /\ FirstWith(i, id) \in 0 .. Len(i.spools)
           /\ FirstWith(i, id) # 0 => i.spools[FirstWith(i, id)].id = id
           /\ FirstWith(i, id) = 0 => \A n \in 1 .. Len(i.spools) : i.spools[n].id # id
<1> DEFINE I == {n \in 1 .. Len(i.spools) : i.spools[n].id = id}
<1>1. FirstWith(i, id) = IF I # {} THEN Min(I) ELSE 0
  BY DEF FirstWith, SelectInSeq
<1>3. I # {} => Min(I) \in I
  <2>1. I \subseteq Nat
    OBVIOUS
  <2> HIDE DEF I
  <2> QED BY <2>1, MinIn
<1>4. \A n \in I : n \in 1 .. Len(i.spools) /\ i.spools[n].id = id /\ n # 0
  OBVIOUS
<1>5. I = {} => \A n \in 1 .. Len(i.spools) : i.spools[n].id # id
  OBVIOUS
<1>6. \A n \in 1 .. Len(i.spools) : n \in 0 .. Len(i.spools)
  OBVIOUS
<1> HIDE DEF I
<1>7. 0 \in 0 .. Len(i.spools)
  OBVIOUS
<1> QED BY <1>1, <1>3, <1>4, <1>5, <1>6, <1>7

\* Sequences of the library are lists.
LEMMA SeqIsList == ASSUME NEW V, NEW list \in Seq(V) PROVE IsList(list)
BY DEF IsList

\* Lists are sequences of what they hold.
LEMMA ListIsSeq ==
    ASSUME NEW V, NEW list, IsList(list), \A n \in 1 .. Len(list) : list[n] \in V
    PROVE  list \in Seq(V) /\ Len(list) \in Nat
<1> DEFINE n == Len(list)
<1>1. n \in Nat /\ list = [i \in 1 .. n |-> list[i]]
  BY DEF IsList
<1>2. \A i \in 1 .. n : list[i] \in V
  OBVIOUS
<1> HIDE DEF n
<1>3. list \in [1 .. n -> V]
  BY <1>1, <1>2
<1>4. list \in UNION {[1 .. m -> V] : m \in Nat}
  BY <1>1, <1>3
<1> QED BY <1>1, <1>4, SeqDef DEF n

\* One more element.
LEMMA AppendList ==
    ASSUME NEW list, IsList(list), NEW e
    PROVE  /\ IsList(Append(list, e)) /\ Len(Append(list, e)) = Len(list) + 1
           /\ \A n \in 1 .. Len(list) : Append(list, e)[n] = list[n]
           /\ Append(list, e)[Len(list) + 1] = e
<1> DEFINE V == {list[n] : n \in 1 .. Len(list)} \cup {e}
<1>1. list \in Seq(V) /\ e \in V
  <2>1. e \in V /\ \A n \in 1 .. Len(list) : list[n] \in V
    OBVIOUS
  <2> HIDE DEF V
  <2> QED BY <2>1, ListIsSeq
<1> HIDE DEF V
<1>2. Append(list, e) \in Seq(V) /\ Len(list) \in Nat
  BY <1>1
<1>3. IsList(Append(list, e))
  BY <1>2, SeqIsList
<1> QED BY <1>1, <1>2, <1>3

\* What upsert_flat leaves: the row it leads to, of the flat's id and weights.
LEMMA Upserted ==
    ASSUME NEW i, IsInventory(i), NEW flat, flat.initial \in Nat, flat.net \in Nat
    PROVE  LET r == RowUpserted(i, flat)
               n == Len(i.spools)
               u == Upsert(i, flat)
           IN  /\ n \in Nat /\ r \in 1 .. n + 1
               /\ IsInventory(u)
               /\ Len(u.spools) = IF r = n + 1 THEN n + 1 ELSE n
               /\ \A k \in 1 .. n : k # r => u.spools[k] = i.spools[k]
               /\ u.spools[r].id = IF r = n + 1 THEN LocalId(r) ELSE i.spools[r].id
               /\ u.spools[r].cloud = flat.id
               /\ r # n + 1 => /\ flat.id # Blank /\ Matches(i.spools[r], flat)
                               /\ u.spools[r].initial = IF flat.initial > 0 THEN flat.initial
                                                        ELSE i.spools[r].initial
               /\ r = n + 1 => \/ flat.id = Blank
                               \/ \A k \in 1 .. n : ~Matches(i.spools[k], flat)
               /\ u.spools[r].used = IF u.spools[r].initial > flat.net
                                     THEN u.spools[r].initial - flat.net ELSE 0
<1> DEFINE r == RowUpserted(i, flat)
           n == Len(i.spools)
           u == Upsert(i, flat)
           old == r \in DOMAIN i.spools
           initial == IF flat.initial > 0 THEN flat.initial
                      ELSE IF old THEN i.spools[r].initial ELSE Full
           used == IF initial > flat.net THEN initial - flat.net ELSE 0
           known == SelectInSeq(i.filaments, LAMBDA f : \/ flat.profile # Blank /\ f.profile = flat.profile
                                                        \/ f.name = flat.name)
           kept == Stored(i.filaments, [name |-> flat.name, profile |-> flat.profile, sku |-> Blank], known)
           spool == [id |-> IF old THEN i.spools[r].id ELSE LocalId(r), cloud |-> flat.id,
                     filament |-> kept.at, initial |-> initial, used |-> used]
<1>1. u = [filaments |-> kept.list,
           spools |-> IF old THEN [i.spools EXCEPT ![r] = spool] ELSE Append(i.spools, spool)]
  BY DEF Upsert
<1>2. IsList(i.spools) /\ n \in Nat /\ DOMAIN i.spools = 1 .. n
  BY DEF IsInventory, IsList
<1>3. RowOf(i, flat) \in 0 .. n /\ r = IF RowOf(i, flat) # 0 THEN RowOf(i, flat) ELSE n + 1
  BY <1>2, RowFound DEF RowUpserted
<1> HIDE DEF r, n
<1>4. r \in 1 .. n + 1 /\ (old <=> r # n + 1) /\ (old <=> RowOf(i, flat) # 0)
  BY <1>2, <1>3
<1>5. /\ r # n + 1 => flat.id # Blank /\ Matches(i.spools[r], flat)
      /\ r = n + 1 => flat.id = Blank \/ \A k \in 1 .. n : ~Matches(i.spools[k], flat)
  BY <1>2, <1>3, <1>4, RowFound DEF n
<1>6. \A k \in 1 .. n : IsSpool(i.spools[k])
  BY DEF IsInventory, n
<1>7. initial \in Nat /\ used \in Nat
  <2>1. old => i.spools[r].initial \in Nat
    BY <1>2, <1>6 DEF IsSpool
  <2>2. initial \in Nat
    BY <2>1, ListsAssumption
  <2> HIDE DEF initial
  <2> QED BY <2>2
<1>8. IsSpool(spool)
  <2> HIDE DEF initial, used, old, kept
  <2> QED BY <1>7 DEF IsSpool
<1>9. /\ spool.id = IF old THEN i.spools[r].id ELSE LocalId(r)
      /\ spool.cloud = flat.id /\ spool.initial = initial /\ spool.used = used
  <2> HIDE DEF initial, used, old, kept
  <2> QED OBVIOUS
<1> HIDE DEF spool, kept, u, known
<1>10. u = [filaments |-> u.filaments, spools |-> u.spools]
       /\ u.spools = IF old THEN [i.spools EXCEPT ![r] = spool] ELSE Append(i.spools, spool)
  BY <1>1
<1>11. /\ IsList(u.spools) /\ Len(u.spools) = IF r = n + 1 THEN n + 1 ELSE n
       /\ \A k \in 1 .. n : k # r => u.spools[k] = i.spools[k]
       /\ u.spools[r] = spool
  <2>1. CASE old
    <3>1. u.spools = [i.spools EXCEPT ![r] = spool] /\ r \in 1 .. n
      BY <1>2, <1>10, <2>1
    <3>2. u.spools = [k \in 1 .. n |-> IF k = r THEN spool ELSE i.spools[k]]
      BY <1>2, <3>1
    <3>3. IsList(u.spools) /\ Len(u.spools) = n
      BY <1>2, <3>2 DEF IsList
    <3> QED BY <1>4, <2>1, <3>1, <3>2, <3>3
  <2>2. CASE ~old
    <3>1. u.spools = Append(i.spools, spool) /\ r = n + 1
      BY <1>4, <1>10, <2>2
    <3> QED BY <1>2, <3>1, AppendList DEF n
  <2> QED BY <2>1, <2>2
<1>12. ASSUME NEW k \in 1 .. Len(u.spools) PROVE IsSpool(u.spools[k])
  <2>1. k = r \/ (k \in 1 .. n /\ k # r)
    BY <1>2, <1>4, <1>11
  <2> QED BY <1>6, <1>8, <1>11, <2>1
<1>13. IsInventory(u)
  BY <1>10, <1>11, <1>12 DEF IsInventory
<1>14. r # n + 1 => initial = IF flat.initial > 0 THEN flat.initial ELSE i.spools[r].initial
  BY <1>4
<1>15. used = IF initial > flat.net THEN initial - flat.net ELSE 0
  OBVIOUS
<1> HIDE DEF initial, used, old
<1>16. /\ u.spools[r].id = IF r = n + 1 THEN LocalId(r) ELSE i.spools[r].id
       /\ u.spools[r].cloud = flat.id /\ u.spools[r].initial = initial /\ u.spools[r].used = used
  BY <1>4, <1>9, <1>11
<1> QED BY <1>2, <1>4, <1>5, <1>11, <1>13, <1>14, <1>15, <1>16 DEF r, n, u

\* What an id may be for rows to stay apart: foreign, or a row's own.
Apart(i, id) ==
    \/ \A m \in 1 .. MaxSpools : id # LocalId(m)
    \/ \E n \in 1 .. Len(i.spools) : id = LocalId(n)

\* Rows stay apart when a spool is upserted by an id that is foreign or a row's own.
LEMMA UpsertTidy ==
    ASSUME NEW i, IsInventory(i), Tidy(i), NEW flat, flat.initial \in Nat, flat.net \in Nat,
           Apart(i, flat.id), RowUpserted(i, flat) <= MaxSpools
    PROVE  Tidy(Upsert(i, flat))
<1> DEFINE r == RowUpserted(i, flat)
           n == Len(i.spools)
           u == Upsert(i, flat)
<1>1. /\ n \in Nat /\ r \in 1 .. n + 1 /\ r <= MaxSpools
      /\ Len(u.spools) = IF r = n + 1 THEN n + 1 ELSE n
      /\ \A k \in 1 .. n : k # r => u.spools[k] = i.spools[k]
      /\ u.spools[r].id = IF r = n + 1 THEN LocalId(r) ELSE i.spools[r].id
      /\ u.spools[r].cloud = flat.id
      /\ r # n + 1 => flat.id # Blank /\ Matches(i.spools[r], flat)
      /\ r = n + 1 => flat.id = Blank \/ \A k \in 1 .. n : ~Matches(i.spools[k], flat)
  BY Upserted
<1>2. /\ \A k \in 1 .. n : i.spools[k].id = LocalId(k) /\ OwnAtMost(i.spools[k].cloud, k)
      /\ \A k, l \in 1 .. n :
            k # l /\ i.spools[k].cloud = i.spools[l].cloud => i.spools[k].cloud = Blank
  BY DEF Tidy
<1>3. \A m \in 1 .. MaxSpools : Blank # LocalId(m)
  BY ListsAssumption
<1>4. Apart(i, flat.id)
  OBVIOUS
<1> HIDE DEF r, n, u
<1>5. \A k \in 1 .. Len(u.spools) : k = r \/ (k \in 1 .. n /\ k # r)
  BY <1>1
<1>6. r # n + 1 => r \in 1 .. n
  BY <1>1
<1>7. OwnAtMost(flat.id, r)
  <2> SUFFICES ASSUME NEW m \in 1 .. MaxSpools, flat.id = LocalId(m) PROVE m = r
    BY DEF OwnAtMost
  <2>1. PICK k \in 1 .. n : flat.id = LocalId(k)
    BY <1>4 DEF Apart, n
  <2>2. Matches(i.spools[k], flat)
    BY <1>2, <2>1 DEF Matches
  <2>3. r # n + 1
    BY <1>1, <1>3, <2>2
  <2>4. CASE i.spools[r].id = flat.id
    <3>1. LocalId(r) = LocalId(m)
      BY <1>2, <1>6, <2>3, <2>4
    <3> QED BY <3>1, IdsDiffer
  <2>5. CASE i.spools[r].cloud = flat.id
    BY <1>2, <1>6, <2>3, <2>5 DEF OwnAtMost
  <2> QED BY <1>1, <2>3, <2>4, <2>5 DEF Matches
<1>8. ASSUME NEW k \in 1 .. Len(u.spools)
      PROVE  u.spools[k].id = LocalId(k) /\ OwnAtMost(u.spools[k].cloud, k)
  <2>1. CASE k = r
    BY <1>1, <1>2, <1>6, <1>7, <2>1
  <2>2. CASE k \in 1 .. n /\ k # r
    BY <1>1, <1>2, <2>2
  <2> QED BY <1>5, <2>1, <2>2
<1>9. ASSUME NEW k \in 1 .. n, k # r, i.spools[k].cloud = flat.id PROVE flat.id = Blank
  <2>1. CASE r = n + 1
    BY <1>1, <1>9, <2>1 DEF Matches
  <2>2. CASE r # n + 1 /\ i.spools[r].cloud = flat.id
    BY <1>2, <1>6, <1>9, <2>2
  <2>3. CASE r # n + 1 /\ i.spools[r].id = flat.id
    <3>1. flat.id = LocalId(r) /\ r \in 1 .. MaxSpools
      BY <1>1, <1>2, <1>6, <2>3
    <3>2. OwnAtMost(flat.id, k)
      BY <1>2, <1>9
    <3> QED BY <1>9, <3>1, <3>2 DEF OwnAtMost
  <2> QED BY <1>1, <2>1, <2>2, <2>3 DEF Matches
<1>10. ASSUME NEW k \in 1 .. Len(u.spools), NEW l \in 1 .. Len(u.spools), k # l,
              u.spools[k].cloud = u.spools[l].cloud
       PROVE  u.spools[k].cloud = Blank
  <2>1. CASE k = r
    <3>1. l \in 1 .. n /\ l # r
      BY <1>5, <1>10, <2>1
    <3> QED BY <1>1, <1>9, <1>10, <2>1, <3>1
  <2>2. CASE l = r
    <3>1. k \in 1 .. n /\ k # r
      BY <1>5, <1>10, <2>2
    <3> QED BY <1>1, <1>9, <1>10, <2>2, <3>1
  <2>3. CASE k # r /\ l # r
    BY <1>1, <1>2, <1>5, <1>10, <2>3
  <2> QED BY <2>1, <2>2, <2>3
<1> QED BY <1>8, <1>10 DEF Tidy, u

-----------------------------------------------------------------------------
\* f[n] is the inventory after the first n of the list.
IsMerged(f, i, list, k) ==
    f = [n \in 0 .. k |-> IF n = 0 THEN i ELSE Upsert(f[n - 1], list[n])]

\* The function Merged defines exists.
LEMMA MergedSteps ==
    ASSUME NEW i, NEW list, Len(list) \in Nat
    PROVE  \E f : IsMerged(f, i, list, Len(list)) /\ Merged(i, list) = f[Len(list)]
<1> DEFINE T == {k \in Nat : \E f : IsMerged(f, i, list, k)}
<1>1. 0 \in T
  <2>1. IsMerged([n \in 0 .. 0 |-> i], i, list, 0)
    BY DEF IsMerged
  <2> QED BY <2>1
<1>2. ASSUME NEW k \in Nat, k \in T PROVE k + 1 \in T
  <2>1. PICK f : IsMerged(f, i, list, k)
    BY <1>2
  <2> DEFINE g == [n \in 0 .. k + 1 |-> IF n = k + 1 THEN Upsert(f[k], list[k + 1]) ELSE f[n]]
  <2>2. IsMerged(g, i, list, k + 1)
    <3>1. ASSUME NEW n \in 0 .. k + 1
          PROVE  g[n] = IF n = 0 THEN i ELSE Upsert(g[n - 1], list[n])
      <4>1. CASE n = k + 1
        BY <4>1
      <4>2. CASE n # k + 1 /\ n # 0
        <5>1. n \in 0 .. k /\ n - 1 \in 0 .. k /\ n - 1 # k + 1
          BY <4>2
        <5>2. g[n] = f[n] /\ g[n - 1] = f[n - 1]
          BY <4>2, <5>1
        <5>3. f[n] = Upsert(f[n - 1], list[n])
          BY <2>1, <4>2, <5>1 DEF IsMerged
        <5> QED BY <4>2, <5>2, <5>3
      <4>3. CASE n = 0
        BY <2>1, <4>3 DEF IsMerged
      <4> QED BY <4>1, <4>2, <4>3
    <3> QED BY <3>1 DEF IsMerged
  <2> HIDE DEF g
  <2> QED BY <2>2
<1>3. Len(list) \in T
  <2> HIDE DEF T
  <2> QED BY <1>1, <1>2, Induct
<1>4. \E f : IsMerged(f, i, list, Len(list))
  BY <1>3
<1>5. IsMerged(CHOOSE f : IsMerged(f, i, list, Len(list)), i, list, Len(list))
  BY <1>4, Zenon
<1>6. Merged(i, list) = (CHOOSE f : IsMerged(f, i, list, Len(list)))[Len(list)]
  BY Zenon DEF Merged, IsMerged
<1> QED BY <1>5, <1>6

\* What the list makes of i: j, with no row less, and rows apart unless there
\* are more than fit.
Grows(i, j) ==
    /\ IsInventory(j)
    /\ Len(i.spools) <= Len(j.spools)
    /\ Len(j.spools) <= MaxSpools /\ Tidy(i) => Tidy(j)

\* After the first k of a list.
SoFar(f, i, k) == Grows(i, f[k]) /\ Len(f[k].spools) <= Len(i.spools) + k

\* A merge takes no row away, and keeps rows apart while they fit.
LEMMA MergeGrows ==
    ASSUME NEW i, IsInventory(i), NEW list \in Remote \cup Legacy
    PROVE  Grows(i, Merged(i, list)) /\ Len(Merged(i, list).spools) <= Len(i.spools) + Len(list)
<1>1. /\ Len(list) \in Nat
      /\ \A n \in 1 .. Len(list) : /\ list[n].initial \in Nat /\ list[n].net \in Nat
                                   /\ \A m \in 1 .. MaxSpools : list[n].id # LocalId(m)
  BY ListsAssumption
<1>2. PICK f : IsMerged(f, i, list, Len(list)) /\ Merged(i, list) = f[Len(list)]
  BY <1>1, MergedSteps
<1> DEFINE T == {k \in Nat : k <= Len(list) => SoFar(f, i, k)}
<1>3. Len(i.spools) \in Nat /\ MaxSpools \in Nat
  BY ListsAssumption DEF IsInventory, IsList
<1>4. 0 \in T
  <2>1. f[0] = i
    BY <1>1, <1>2 DEF IsMerged
  <2>2. Grows(i, i)
    BY <1>3 DEF Grows
  <2> QED BY <1>3, <2>1, <2>2 DEF SoFar
<1>5. ASSUME NEW k \in Nat, k \in T PROVE k + 1 \in T
  <2> SUFFICES ASSUME k + 1 <= Len(list)
               PROVE  SoFar(f, i, k + 1)
    OBVIOUS
  <2> DEFINE m == k + 1
  <2>1. Grows(i, f[k]) /\ Len(f[k].spools) <= Len(i.spools) + k
    BY <1>1, <1>5 DEF SoFar
  <2>2. m \in 0 .. Len(list) /\ m \in 1 .. Len(list) /\ m # 0 /\ m - 1 = k
    BY <1>1
  <2> HIDE DEF m
  <2>3. f[m] = Upsert(f[k], list[m])
    BY <1>2, <2>2 DEF IsMerged
  <2>4. /\ list[m].initial \in Nat /\ list[m].net \in Nat /\ Apart(f[k], list[m].id)
    BY <1>1, <2>2 DEF Apart
  <2>5. IsInventory(f[k])
    BY <2>1 DEF Grows
  <2> DEFINE r == RowUpserted(f[k], list[m])
             a == Len(f[k].spools)
             u == Upsert(f[k], list[m])
             b == Len(f[m].spools)
  <2>11. a \in Nat /\ r \in 1 .. a + 1 /\ IsInventory(u) /\ Len(u.spools) = IF r = a + 1 THEN a + 1 ELSE a
    BY <2>4, <2>5, Upserted
  <2> HIDE DEF u
  <2>12. f[m] = u
    BY <2>3 DEF u
  <2>6. a \in Nat /\ r \in 1 .. a + 1 /\ IsInventory(f[m]) /\ b = IF r = a + 1 THEN a + 1 ELSE a
    BY <2>11, <2>12
  <2>7. ASSUME b <= MaxSpools, Tidy(f[k]) PROVE Tidy(f[m])
    <3>1. r <= MaxSpools
      <4> HIDE DEF r, a, b
      <4> QED BY <1>3, <2>6, <2>7
    <3> QED BY <2>3, <2>4, <2>5, <2>7, <3>1, UpsertTidy
  <2>8. Len(i.spools) <= a /\ a <= Len(i.spools) + k /\ (a <= MaxSpools /\ Tidy(i) => Tidy(f[k]))
    BY <2>1 DEF Grows
  <2> DEFINE c == Len(i.spools)
  <2>14. c \in Nat /\ c <= a /\ a <= c + k
    BY <1>3, <2>8
  <2>15. a \in Nat /\ (b = a \/ b = a + 1)
    BY <2>6
  <2>9. c <= b /\ b <= c + (k + 1) /\ (b <= MaxSpools => a <= MaxSpools)
    <3> HIDE DEF r, a, b, c
    <3> QED BY <1>3, <2>14, <2>15
  <2> HIDE DEF r, a, b
  <2>10. Grows(i, f[m])
    BY <2>6, <2>7, <2>8, <2>9 DEF Grows, b, c
  <2>13. SoFar(f, i, m)
    <3>1. m = k + 1
      BY DEF m
    <3> QED BY <2>9, <2>10, <3>1 DEF SoFar, b, c
  <2> QED BY <2>13 DEF m
<1>6. Len(list) \in T
  <2> HIDE DEF T
  <2> QED BY <1>1, <1>4, <1>5, Induct
<1> QED BY <1>1, <1>2, <1>6 DEF SoFar

-----------------------------------------------------------------------------
\* f[n] is what is left of the first n rows.
IsWithout(f, rows, id, k) ==
    f = [n \in 0 .. k |-> IF n = 0 THEN <<>>
                          ELSE IF rows[n].id = id THEN f[n - 1]
                          ELSE Append(f[n - 1], rows[n])]

\* The function Without defines exists.
LEMMA WithoutSteps ==
    ASSUME NEW rows, Len(rows) \in Nat, NEW id
    PROVE  \E f : IsWithout(f, rows, id, Len(rows)) /\ Without(rows, id) = f[Len(rows)]
<1> DEFINE Next(l, n) == IF rows[n].id = id THEN l ELSE Append(l, rows[n])
           T == {k \in Nat : \E f : IsWithout(f, rows, id, k)}
<1>1. 0 \in T
  <2>1. IsWithout([n \in 0 .. 0 |-> <<>>], rows, id, 0)
    BY DEF IsWithout
  <2> QED BY <2>1
<1>2. ASSUME NEW k \in Nat, k \in T PROVE k + 1 \in T
  <2>1. PICK f : IsWithout(f, rows, id, k)
    BY <1>2
  <2> DEFINE g == [n \in 0 .. k + 1 |-> IF n = k + 1 THEN Next(f[k], k + 1) ELSE f[n]]
  <2>2. IsWithout(g, rows, id, k + 1)
    <3>1. ASSUME NEW n \in 0 .. k + 1
          PROVE  g[n] = IF n = 0 THEN <<>> ELSE Next(g[n - 1], n)
      <4>1. CASE n = k + 1
        BY <4>1
      <4>2. CASE n # k + 1 /\ n # 0
        <5>1. n \in 0 .. k /\ n - 1 \in 0 .. k /\ n - 1 # k + 1
          BY <4>2
        <5>2. g[n] = f[n] /\ g[n - 1] = f[n - 1]
          BY <4>2, <5>1
        <5>3. f[n] = Next(f[n - 1], n)
          BY <2>1, <4>2, <5>1 DEF IsWithout
        <5> HIDE DEF Next
        <5> QED BY <4>2, <5>2, <5>3
      <4>3. CASE n = 0
        BY <2>1, <4>3 DEF IsWithout
      <4> QED BY <4>1, <4>2, <4>3
    <3> QED BY <3>1 DEF IsWithout
  <2> HIDE DEF g
  <2> QED BY <2>2
<1>3. Len(rows) \in T
  <2> HIDE DEF T
  <2> QED BY <1>1, <1>2, Induct
<1>4. \E f : IsWithout(f, rows, id, Len(rows))
  BY <1>3
<1>5. IsWithout(CHOOSE f : IsWithout(f, rows, id, Len(rows)), rows, id, Len(rows))
  BY <1>4, Zenon
<1>6. Without(rows, id) = (CHOOSE f : IsWithout(f, rows, id, Len(rows)))[Len(rows)]
  BY Zenon DEF Without, IsWithout
<1> QED BY <1>5, <1>6

\* A list of at most k spools.
Remains(l, k) ==
    /\ IsList(l) /\ Len(l) <= k
    /\ \A n \in 1 .. Len(l) : IsSpool(l[n])

\* Taking rows out leaves a list of spools that is no longer.
LEMMA WithoutKeeps ==
    ASSUME NEW rows, IsList(rows), \A n \in 1 .. Len(rows) : IsSpool(rows[n]), NEW id
    PROVE  Remains(Without(rows, id), Len(rows))
<1>1. Len(rows) \in Nat
  BY DEF IsList
<1>2. PICK f : IsWithout(f, rows, id, Len(rows)) /\ Without(rows, id) = f[Len(rows)]
  BY <1>1, WithoutSteps
<1> DEFINE T == {k \in Nat : k <= Len(rows) => Remains(f[k], k)}
<1>3. 0 \in T
  <2>1. f[0] = <<>>
    BY <1>1, <1>2 DEF IsWithout
  <2> QED BY <2>1 DEF Remains, IsList
<1>4. ASSUME NEW k \in Nat, k \in T PROVE k + 1 \in T
  <2> SUFFICES ASSUME k + 1 <= Len(rows)
               PROVE  Remains(f[k + 1], k + 1)
    OBVIOUS
  <2> DEFINE m == k + 1
  <2>1. Remains(f[k], k)
    BY <1>1, <1>4
  <2>2. m \in 0 .. Len(rows) /\ m \in 1 .. Len(rows) /\ m # 0 /\ m - 1 = k /\ m \in Nat /\ k <= m
    BY <1>1
  <2>3. k + 1 = m
    OBVIOUS
  <2> HIDE DEF m
  <2>4. f[m] = IF rows[m].id = id THEN f[k] ELSE Append(f[k], rows[m])
    BY <1>2, <2>2 DEF IsWithout
  <2>5. CASE rows[m].id = id
    <3>1. Len(f[k]) \in Nat /\ Len(f[k]) <= k
      BY <2>1 DEF Remains, IsList
    <3>2. Len(f[k]) <= m
      BY <2>3, <3>1
    <3> QED BY <2>1, <2>3, <2>4, <2>5, <3>2 DEF Remains
  <2>6. CASE rows[m].id # id
    <3> DEFINE l == Append(f[k], rows[m])
               c == Len(f[k])
    <3>1. /\ IsList(l) /\ Len(l) = c + 1 /\ l[c + 1] = rows[m]
          /\ \A n \in 1 .. c : l[n] = f[k][n]
      BY <2>1, AppendList DEF Remains
    <3>2. c \in Nat /\ c <= k /\ \A n \in 1 .. c : IsSpool(f[k][n])
      BY <2>1 DEF Remains, IsList
    <3>3. f[m] = l
      BY <2>4, <2>6
    <3>4. IsSpool(rows[m])
      BY <2>2
    <3> HIDE DEF l, c
    <3>5. \A n \in 1 .. Len(l) : n = c + 1 \/ n \in 1 .. c
      BY <3>1, <3>2
    <3>6. Len(l) <= m
      BY <2>3, <3>1, <3>2
    <3>7. \A n \in 1 .. Len(l) : IsSpool(l[n])
      BY <3>1, <3>2, <3>4, <3>5
    <3> QED BY <2>3, <3>1, <3>3, <3>6, <3>7 DEF Remains
  <2> QED BY <2>5, <2>6
<1>5. Len(rows) \in T
  <2> HIDE DEF T
  <2> QED BY <1>1, <1>3, <1>4, Induct
<1> QED BY <1>1, <1>2, <1>5

\* What is left of the first k rows when row p goes.
Cut(rows, p, k) ==
    [n \in 1 .. (IF p <= k THEN k - 1 ELSE k) |-> IF n < p THEN rows[n] ELSE rows[n + 1]]

\* Of a row with an id of its own, only that row goes.
LEMMA WithoutOne ==
    ASSUME NEW rows, IsList(rows), NEW p \in 1 .. Len(rows),
           \A n \in 1 .. Len(rows) : n # p => rows[n].id # rows[p].id
    PROVE  Without(rows, rows[p].id) = Cut(rows, p, Len(rows))
<1> DEFINE id == rows[p].id
<1>1. Len(rows) \in Nat
  BY DEF IsList
<1>2. PICK f : IsWithout(f, rows, id, Len(rows)) /\ Without(rows, id) = f[Len(rows)]
  BY <1>1, WithoutSteps
<1> DEFINE T == {k \in Nat : k <= Len(rows) => f[k] = Cut(rows, p, k)}
<1>3. 0 \in T
  <2>1. f[0] = <<>>
    BY <1>1, <1>2 DEF IsWithout
  <2> QED BY <1>1, <2>1 DEF Cut
<1>4. ASSUME NEW k \in Nat, k \in T PROVE k + 1 \in T
  <2> SUFFICES ASSUME k + 1 <= Len(rows)
               PROVE  f[k + 1] = Cut(rows, p, k + 1)
    OBVIOUS
  <2> DEFINE m == k + 1
  <2>1. f[k] = Cut(rows, p, k)
    BY <1>1, <1>4
  <2>2. m \in 0 .. Len(rows) /\ m \in 1 .. Len(rows) /\ m # 0 /\ m - 1 = k /\ m \in Nat
    BY <1>1
  <2>4. f[m] = IF rows[m].id = id THEN f[k] ELSE Append(f[k], rows[m])
    <3> HIDE DEF m
    <3> QED BY <1>2, <2>2 DEF IsWithout
  <2>5. CASE m = p
    <3>1. f[m] = f[k]
      BY <2>4, <2>5
    <3>2. Cut(rows, p, k) = Cut(rows, p, m)
      BY <2>5 DEF Cut
    <3> QED BY <2>1, <3>1, <3>2
  <2>6. CASE m # p
    <3>1. rows[m].id # id
      BY <2>2, <2>6
    <3>2. f[m] = Append(Cut(rows, p, k), rows[m])
      BY <2>1, <2>4, <3>1
    <3> DEFINE c == IF p <= k THEN k - 1 ELSE k
               g == [n \in 1 .. c |-> IF n < p THEN rows[n] ELSE rows[n + 1]]
               h == Cut(rows, p, m)
    <3>3. c \in Nat /\ g = Cut(rows, p, k) /\ rows[m] = (IF c + 1 < p THEN rows[c + 1] ELSE rows[c + 2])
      BY <1>1, <2>6 DEF Cut
    <3>4. h = [n \in 1 .. c + 1 |-> IF n < p THEN rows[n] ELSE rows[n + 1]]
      BY <1>1, <2>6 DEF Cut
    <3>5. Append(g, rows[m]) = h
      <4>1. IsList(g) /\ Len(g) = c
        <5> HIDE DEF c
        <5> QED BY <3>3 DEF IsList
      <4>2. IsList(h) /\ Len(h) = c + 1
        <5> HIDE DEF c, h
        <5> QED BY <3>3, <3>4 DEF IsList
      <4>3. /\ IsList(Append(g, rows[m])) /\ Len(Append(g, rows[m])) = c + 1
            /\ \A n \in 1 .. c : Append(g, rows[m])[n] = g[n]
            /\ Append(g, rows[m])[c + 1] = rows[m]
        <5> HIDE DEF c, g
        <5> QED BY <4>1, AppendList
      <4>4. ASSUME NEW n \in 1 .. c + 1 PROVE Append(g, rows[m])[n] = h[n]
        <5>1. CASE n = c + 1
          <6>1. h[n] = IF c + 1 < p THEN rows[c + 1] ELSE rows[c + 2]
            <7> HIDE DEF c, h
            <7> QED BY <3>3, <3>4, <5>1
          <6> HIDE DEF c, h, g
          <6> QED BY <3>3, <4>3, <5>1, <6>1
        <5>2. CASE n # c + 1
          <6>1. n \in 1 .. c
            <7> HIDE DEF c
            <7> QED BY <3>3, <5>2
          <6>2. g[n] = h[n]
            <7> HIDE DEF c, h
            <7> QED BY <3>4, <6>1
          <6> QED BY <4>3, <6>1, <6>2
        <5> QED BY <5>1, <5>2
      <4> HIDE DEF c, g, h
      <4> QED BY <4>2, <4>3, <4>4 DEF IsList
    <3> QED BY <3>2, <3>3, <3>5
  <2> QED BY <2>5, <2>6
<1>5. Len(rows) \in T
  <2> HIDE DEF T
  <2> QED BY <1>1, <1>3, <1>4, Induct
<1> QED BY <1>1, <1>2, <1>5

\* That is what RemoveAt leaves.
LEMMA CutRemoves ==
    ASSUME NEW rows, IsList(rows), NEW p \in 1 .. Len(rows)
    PROVE  RemoveAt(rows, p) = Cut(rows, p, Len(rows))
<1> DEFINE V == {rows[n] : n \in 1 .. Len(rows)}
<1>1. rows \in Seq(V) /\ Len(rows) \in Nat
  <2>1. \A n \in 1 .. Len(rows) : rows[n] \in V
    OBVIOUS
  <2> HIDE DEF V
  <2> QED BY <2>1, ListIsSeq
<1> HIDE DEF V
<1> DEFINE a == SubSeq(rows, 1, p - 1)
           b == SubSeq(rows, p + 1, Len(rows))
<1>2. a \in Seq(V) /\ Len(a) = p - 1 /\ \A n \in 1 .. p - 1 : a[n] = rows[n]
  BY <1>1
<1>3. b \in Seq(V) /\ Len(b) = Len(rows) - p /\ \A n \in 1 .. Len(rows) - p : b[n] = rows[p + n]
  BY <1>1
<1> HIDE DEF a, b
<1>4. /\ a \o b \in Seq(V) /\ Len(a \o b) = Len(rows) - 1
      /\ \A n \in 1 .. Len(rows) - 1 : (a \o b)[n] = IF n < p THEN rows[n] ELSE rows[n + 1]
  <2>1. /\ a \o b \in Seq(V) /\ Len(a \o b) = Len(a) + Len(b)
        /\ \A n \in 1 .. Len(a) + Len(b) : (a \o b)[n] = IF n <= Len(a) THEN a[n] ELSE b[n - Len(a)]
    BY <1>2, <1>3, ConcatProperties
  <2>2. ASSUME NEW n \in 1 .. Len(rows) - 1
        PROVE  (a \o b)[n] = IF n < p THEN rows[n] ELSE rows[n + 1]
    <3> DEFINE l == (a \o b)[n]
               c == rows[n]
               d == rows[n + 1]
    <3>1. (a \o b)[n] = IF n <= Len(a) THEN a[n] ELSE b[n - Len(a)]
      BY <1>1, <1>2, <1>3, <2>1
    <3>2. ASSUME n < p PROVE l = c
      BY <1>1, <1>2, <3>1, <3>2
    <3>3. ASSUME ~(n < p) PROVE l = d
      <4>1. n - (p - 1) \in 1 .. Len(rows) - p /\ p + (n - (p - 1)) = n + 1 /\ ~(n <= p - 1)
        BY <1>1, <3>3
      <4>2. (a \o b)[n] = b[n - (p - 1)]
        BY <1>2, <3>1, <4>1
      <4> QED BY <1>3, <3>3, <4>1, <4>2
    <3> HIDE DEF l, c, d
    <3>4. l = IF n < p THEN c ELSE d
      BY <3>2, <3>3
    <3> QED BY <3>4 DEF l, c, d
  <2>3. Len(a \o b) = Len(rows) - 1
    BY <1>1, <1>2, <1>3, <2>1
  <2> QED BY <2>1, <2>2, <2>3
<1>5. a \o b = [n \in 1 .. Len(rows) - 1 |-> IF n < p THEN rows[n] ELSE rows[n + 1]]
  <2> DEFINE l == a \o b
             c == Len(rows) - 1
  <2>1. l \in Seq(V) /\ Len(l) = c /\ \A n \in 1 .. c : l[n] = IF n < p THEN rows[n] ELSE rows[n + 1]
    BY <1>4
  <2> HIDE DEF l, c
  <2>2. l = [n \in 1 .. c |-> l[n]]
    BY <2>1
  <2>3. l = [n \in 1 .. c |-> IF n < p THEN rows[n] ELSE rows[n + 1]]
    BY <2>1, <2>2
  <2> QED BY <2>3 DEF l, c
<1>6. Cut(rows, p, Len(rows)) = [n \in 1 .. Len(rows) - 1 |-> IF n < p THEN rows[n] ELSE rows[n + 1]]
  BY <1>1 DEF Cut
<1>7. RemoveAt(rows, p) = a \o b
  BY DEF RemoveAt, a, b
<1> QED BY <1>5, <1>6, <1>7

-----------------------------------------------------------------------------
(* Steps *)

\* What the page shows of a row is what is stored of it.
LEMMA Shown ==
    ASSUME IsInventory(inv'), NEW n \in Nat, Show(n),
           n \in 1 .. Len(inv'.spools) \/ (n = 0 /\ selected = 0 /\ IsDraft(draft) /\ DraftCurrent)
    PROVE  PageOK'
<1>1. DOMAIN inv'.spools = 1 .. Len(inv'.spools) /\ Len(inv'.spools) \in Nat
  BY DEF IsInventory, IsList
<1>2. CASE n \in 1 .. Len(inv'.spools)
  <2> DEFINE s == inv'.spools[n]
             d == Flat(inv', s)
  <2>1. selected' = n /\ draft' = d /\ n # 0 /\ n \in DOMAIN inv'.spools
    BY <1>1, <1>2 DEF Show
  <2>2. IsSpool(s)
    BY <1>2 DEF IsInventory
  <2> HIDE DEF s
  <2>3. IsDraft(d)
    BY <2>2 DEF Flat, Left, IsDraft, IsSpool
  <2> QED BY <2>1, <2>3 DEF PageOK, DraftCurrent, s
<1>3. CASE n = 0 /\ n \notin 1 .. Len(inv'.spools)
  <2>1. selected = 0 /\ IsDraft(draft) /\ DraftCurrent
    BY <1>3
  <2>2. selected' = 0 /\ draft' = draft
    BY <1>1, <1>3 DEF Show
  <2> QED BY <2>1, <2>2 DEF PageOK, DraftCurrent
<1> QED BY <1>2, <1>3

\* Writing the file, or failing to.
LEMMA Persisted ==
    ASSUME StoreOK, Persist, IsInventory(inv'), Len(inv'.spools) <= MaxSpools, gaps' \in BOOLEAN,
           ~gaps' => ~gaps /\ Tidy(inv')
    PROVE  StoreOK'
<1>1. CASE file' = inv' /\ behind' = FALSE
  BY <1>1 DEF StoreOK, FileCurrent
<1>2. CASE file' = file /\ behind' = TRUE
  BY <1>2 DEF StoreOK, FileCurrent
<1> QED BY <1>1, <1>2 DEF Persist

\* The page for a new spool.
LEMMA Fresh == ASSUME selected' = 0, draft' = NewDraft PROVE PageOK'
BY ListsAssumption DEF PageOK, DraftCurrent, IsDraft, NewDraft

\* Operations of the page that leave the spools alone.
LEMMA NewOK == ASSUME InventoryOK, New PROVE InventoryOK'
<1>1. PageOK'
  BY Fresh DEF New
<1>2. StoreOK'
  BY DEF New, InventoryOK, StoreOK, FileCurrent
<1> QED BY <1>1, <1>2 DEF InventoryOK

\* The page shows another row.
LEMMA SelectOK == ASSUME InventoryOK, Select PROVE InventoryOK'
<1>1. PICK n \in DOMAIN inv.spools : UNCHANGED inv /\ Show(n)
  BY DEF Select
<1>2. IsInventory(inv') /\ n \in Nat /\ n \in 1 .. Len(inv'.spools)
  BY <1>1 DEF InventoryOK, StoreOK, IsInventory, IsList
<1>3. PageOK'
  BY <1>1, <1>2, Shown
<1>4. StoreOK'
  BY <1>1 DEF Select, InventoryOK, StoreOK, FileCurrent
<1> QED BY <1>3, <1>4 DEF InventoryOK

\* Typing over the filament leaves the id and the weights.
LEMMA EditOK == ASSUME InventoryOK, Edit PROVE InventoryOK'
<1>1. /\ IsDraft(draft') /\ draft'.id = draft.id /\ draft'.initial = draft.initial
      /\ draft'.net = draft.net
  <2>1. IsDraft(draft)
    BY DEF InventoryOK, PageOK
  <2>2. ASSUME NEW n, draft' = [draft EXCEPT !.name = n] \/ draft' = [draft EXCEPT !.profile = n]
        PROVE  /\ IsDraft(draft') /\ draft'.id = draft.id /\ draft'.initial = draft.initial
               /\ draft'.net = draft.net
    <3> DEFINE d == draft
               e == draft'
    <3>1. CASE e = [d EXCEPT !.name = n]
      <4>1. IsDraft(d)
        BY <2>1
      <4> HIDE DEF d, e
      <4>2. e = [id |-> d.id, profile |-> d.profile, name |-> n, initial |-> d.initial, net |-> d.net]
        BY <3>1, <4>1 DEF IsDraft
      <4> QED BY <4>1, <4>2 DEF IsDraft, d, e
    <3>2. CASE e = [d EXCEPT !.profile = n]
      <4>1. IsDraft(d)
        BY <2>1
      <4> HIDE DEF d, e
      <4>2. e = [id |-> d.id, profile |-> n, name |-> d.name, initial |-> d.initial, net |-> d.net]
        BY <3>2, <4>1 DEF IsDraft
      <4> QED BY <4>1, <4>2 DEF IsDraft, d, e
    <3> QED BY <2>2, <3>1, <3>2
  <2> QED BY <2>2 DEF Edit
<1>2. UNCHANGED <<inv, file, selected, behind, gaps>>
  BY DEF Edit
<1>3. PageOK'
  BY <1>1, <1>2 DEF InventoryOK, PageOK, DraftCurrent
<1>4. StoreOK'
  BY <1>2 DEF InventoryOK, StoreOK, FileCurrent
<1> QED BY <1>3, <1>4 DEF InventoryOK

\* A row of a new number at the end, with no id of the cloud.
LEMMA AddCatalogOK == ASSUME InventoryOK, AddCatalog PROVE InventoryOK'
<1> DEFINE n == Len(inv.spools)
<1>1. IsInventory(inv) /\ IsList(inv.spools) /\ n \in Nat /\ n < MaxSpools /\ MaxSpools \in Nat
  BY ListsAssumption DEF InventoryOK, StoreOK, IsInventory, IsList, AddCatalog
<1>2. PICK l, at : inv' = [filaments |-> l,
                           spools |-> Append(inv.spools, [id |-> LocalId(n + 1), cloud |-> Blank,
                                                          filament |-> at, initial |-> Full, used |-> 0])]
  BY DEF AddCatalog
<1> DEFINE spool == [id |-> LocalId(n + 1), cloud |-> Blank, filament |-> at, initial |-> Full, used |-> 0]
<1>3. IsSpool(spool) /\ spool.id = LocalId(n + 1) /\ spool.cloud = Blank
  BY ListsAssumption DEF IsSpool
<1> HIDE DEF spool
<1>4. /\ inv' = [filaments |-> inv'.filaments, spools |-> inv'.spools]
      /\ inv'.spools = Append(inv.spools, spool)
  BY <1>2 DEF spool
<1>5. /\ IsList(inv'.spools) /\ Len(inv'.spools) = n + 1
      /\ \A k \in 1 .. n : inv'.spools[k] = inv.spools[k]
      /\ inv'.spools[n + 1] = spool
  BY <1>1, <1>4, AppendList
<1> HIDE DEF n
<1>6. \A k \in 1 .. n + 1 : k = n + 1 \/ k \in 1 .. n
  BY <1>1
<1>7. IsInventory(inv')
  <2>1. \A k \in 1 .. n : IsSpool(inv.spools[k])
    BY <1>1 DEF IsInventory, n
  <2> QED BY <1>3, <1>4, <1>5, <1>6, <2>1 DEF IsInventory
<1>8. ASSUME ~gaps PROVE Tidy(inv')
  <2>1. /\ \A k \in 1 .. n : inv.spools[k].id = LocalId(k) /\ OwnAtMost(inv.spools[k].cloud, k)
        /\ \A k, l2 \in 1 .. n :
              k # l2 /\ inv.spools[k].cloud = inv.spools[l2].cloud => inv.spools[k].cloud = Blank
    BY <1>8 DEF InventoryOK, StoreOK, Tidy, n
  <2>2. OwnAtMost(Blank, n + 1)
    BY ListsAssumption DEF OwnAtMost
  <2> QED BY <1>3, <1>5, <1>6, <2>1, <2>2 DEF Tidy
<1>9. Len(inv'.spools) <= MaxSpools
  BY <1>1, <1>5
<1>10. Persist /\ gaps' = gaps
  BY DEF AddCatalog
<1>11. StoreOK'
  BY <1>7, <1>8, <1>9, <1>10, Persisted DEF InventoryOK, StoreOK
<1> DEFINE p == FirstWith(inv', LocalId(n + 1))
<1>12. p \in Nat /\ p \in 1 .. Len(inv'.spools) /\ Show(p)
  <2>1. n + 1 \in 1 .. Len(inv'.spools) /\ inv'.spools[n + 1].id = LocalId(n + 1) /\ Len(inv'.spools) \in Nat
    BY <1>1, <1>3, <1>5
  <2>2. p \in 0 .. Len(inv'.spools) /\ p # 0
    BY <2>1, FirstFound
  <2>3. Show(p)
    BY DEF AddCatalog, n
  <2> HIDE DEF p
  <2> QED BY <2>1, <2>2, <2>3
<1>13. PageOK'
  <2> HIDE DEF p
  <2> QED BY <1>7, <1>12, Shown
<1> QED BY <1>11, <1>13 DEF InventoryOK

\* The draft of a row that is stored is told apart by an id of that row.
LEMMA DraftApart == ASSUME InventoryOK, ~gaps PROVE Apart(inv, draft.id)
<1>1. \A m \in 1 .. MaxSpools : Blank # LocalId(m)
  BY ListsAssumption
<1>2. CASE selected = 0
  BY <1>1, <1>2 DEF InventoryOK, PageOK, DraftCurrent, Apart
<1>3. CASE selected # 0
  <2> DEFINE s == inv.spools[selected]
  <2>1. selected \in 1 .. Len(inv.spools) /\ draft.id = IF s.cloud = Blank THEN s.id ELSE s.cloud
    BY <1>3 DEF InventoryOK, PageOK, StoreOK, DraftCurrent, Flat, IsInventory, IsList
  <2>2. s.id = LocalId(selected) /\ OwnAtMost(s.cloud, selected)
    BY <1>3, <2>1 DEF InventoryOK, StoreOK, Tidy
  <2> HIDE DEF s
  <2>3. CASE draft.id = s.id
    BY <2>1, <2>2, <2>3 DEF Apart
  <2>4. CASE draft.id = s.cloud
    BY <2>1, <2>2, <2>4 DEF Apart, OwnAtMost
  <2> QED BY <2>1, <2>3, <2>4
<1> QED BY <1>2, <1>3

\* Saving writes the page back, which then shows the row the id leads to.
LEMMA SaveOK == ASSUME InventoryOK, Save PROVE InventoryOK'
<1> DEFINE r == RowUpserted(inv, draft)
           n == Len(inv.spools)
<1>1. IsInventory(inv) /\ draft.initial \in Nat /\ draft.net \in Nat /\ MaxSpools \in Nat /\ n <= MaxSpools
  BY ListsAssumption DEF InventoryOK, StoreOK, PageOK, IsDraft
<1>2. r <= MaxSpools /\ inv' = Upsert(inv, draft) /\ Persist /\ gaps' = gaps
      /\ Show(FirstWith(inv', inv'.spools[r].id))
  BY DEF Save
<1>3. n \in Nat /\ r \in 1 .. n + 1 /\ IsInventory(inv') /\ Len(inv'.spools) = IF r = n + 1 THEN n + 1 ELSE n
  BY <1>1, <1>2, Upserted
<1>4. ~gaps => Tidy(inv')
  BY <1>1, <1>2, DraftApart, UpsertTidy DEF InventoryOK, StoreOK
<1> DEFINE p == FirstWith(inv', inv'.spools[r].id)
           b == Len(inv'.spools)
<1>5. p \in 0 .. b /\ (p = 0 => \A k \in 1 .. b : inv'.spools[k].id # inv'.spools[r].id) /\ b \in Nat
  BY <1>3, FirstFound
<1>6. Show(p)
  BY <1>2
<1> HIDE DEF r, n, p, b
<1>7. Len(inv'.spools) <= MaxSpools /\ b = Len(inv'.spools)
  BY <1>1, <1>2, <1>3 DEF b
<1>8. StoreOK'
  BY <1>2, <1>3, <1>4, <1>7, Persisted DEF InventoryOK, StoreOK
<1>9. r \in 1 .. b
  BY <1>3, <1>7
<1>10. p \in Nat /\ p \in 1 .. Len(inv'.spools)
  BY <1>5, <1>7, <1>9
<1>11. PageOK'
  BY <1>3, <1>6, <1>10, Shown
<1> QED BY <1>8, <1>11 DEF InventoryOK

\* The rows before the last one are left when the last one goes.
LEMMA DeleteOK == ASSUME InventoryOK, Delete PROVE InventoryOK'
<1> DEFINE n == Len(inv.spools)
           id == inv.spools[selected].id
<1>1. /\ IsInventory(inv) /\ IsList(inv.spools) /\ \A k \in 1 .. n : IsSpool(inv.spools[k])
      /\ n \in Nat /\ n <= MaxSpools /\ selected \in 1 .. n /\ MaxSpools \in Nat
  BY ListsAssumption DEF InventoryOK, StoreOK, PageOK, DraftCurrent, Delete, IsInventory, IsList
<1>2. /\ inv' = [inv EXCEPT !.spools = Without(@, id)] /\ gaps' = (gaps \/ selected < n)
      /\ selected' = 0 /\ draft' = NewDraft /\ Persist
  BY DEF Delete
<1>3. PageOK'
  BY <1>2, Fresh
<1>4. Remains(Without(inv.spools, id), n)
  BY <1>1, WithoutKeeps
<1>5. inv' = [filaments |-> inv.filaments, spools |-> Without(inv.spools, id)]
  BY <1>1, <1>2 DEF IsInventory
<1> HIDE DEF id
<1>6. IsInventory(inv') /\ inv'.spools = Without(inv.spools, id) /\ Len(inv'.spools) <= n
  BY <1>4, <1>5 DEF IsInventory, Remains
<1>7. Len(inv'.spools) <= MaxSpools
  <2>1. Len(inv'.spools) \in Nat
    BY <1>6 DEF IsInventory, IsList
  <2> HIDE DEF n
  <2> QED BY <1>1, <1>6, <2>1
<1>8. ASSUME ~gaps' PROVE ~gaps /\ Tidy(inv')
  <2>1. ~gaps /\ selected = n
    <3> HIDE DEF n
    <3>1. ~gaps /\ ~(selected < n)
      BY <1>2, <1>8, Zenon
    <3> QED BY <1>1, <3>1
  <2>2. /\ \A k \in 1 .. n : inv.spools[k].id = LocalId(k) /\ OwnAtMost(inv.spools[k].cloud, k)
        /\ \A k, l \in 1 .. n :
              k # l /\ inv.spools[k].cloud = inv.spools[l].cloud => inv.spools[k].cloud = Blank
    BY <2>1 DEF InventoryOK, StoreOK, Tidy
  <2>3. ASSUME NEW k \in 1 .. n, k # selected PROVE inv.spools[k].id # inv.spools[selected].id
    BY <1>1, <2>2, <2>3, IdsDiffer
  <2>4. inv'.spools = Cut(inv.spools, selected, n)
    BY <1>1, <1>6, <2>3, WithoutOne DEF id
  <2>5. inv'.spools = [k \in 1 .. n - 1 |-> inv.spools[k]]
    <3>1. \A k \in 1 .. n - 1 : k < selected
      BY <1>1, <2>1
    <3>2. selected <= n
      BY <1>1
    <3> HIDE DEF n
    <3> QED BY <2>4, <3>1, <3>2 DEF Cut
  <2>6. Len(inv'.spools) = n - 1 /\ \A k \in 1 .. n - 1 : inv'.spools[k] = inv.spools[k] /\ k \in 1 .. n
    <3> HIDE DEF n
    <3> QED BY <1>1, <2>1, <2>5
  <2> HIDE DEF n
  <2> QED BY <2>1, <2>2, <2>6 DEF Tidy
<1>9. gaps' \in BOOLEAN
  BY <1>2 DEF InventoryOK, StoreOK
<1>10. StoreOK'
  BY <1>2, <1>6, <1>7, <1>8, <1>9, Persisted DEF InventoryOK, StoreOK
<1> QED BY <1>3, <1>10 DEF InventoryOK

\* The row of the id of the selected one is there.
LEMMA ChosenIn ==
    ASSUME InventoryOK, selected # 0
    PROVE  /\ selected \in 1 .. Len(inv.spools) /\ Chosen \in 1 .. Len(inv.spools)
           /\ ~gaps => Chosen = selected
<1> DEFINE n == Len(inv.spools)
           id == inv.spools[selected].id
<1>1. n \in Nat /\ selected \in 1 .. n
  BY DEF InventoryOK, StoreOK, PageOK, DraftCurrent, IsInventory, IsList
<1>2. /\ Chosen \in 0 .. n
      /\ Chosen # 0 => inv.spools[Chosen].id = id
      /\ Chosen = 0 => \A k \in 1 .. n : inv.spools[k].id # id
  BY <1>1, FirstFound DEF Chosen
<1>3. Chosen # 0
  BY <1>1, <1>2
<1>4. Chosen \in 1 .. n
  <2> HIDE DEF n
  <2> QED BY <1>1, <1>2, <1>3
<1>5. ASSUME ~gaps PROVE Chosen = selected
  <2>1. \A k \in 1 .. n : inv.spools[k].id = LocalId(k)
    BY <1>5 DEF InventoryOK, StoreOK, Tidy
  <2> QED BY <1>1, <1>2, <1>3, <1>4, <2>1, IdsDiffer
<1> QED BY <1>1, <1>4, <1>5

\* A use changes one row, and of it what was used.
LEMMA SetUsedIs ==
    ASSUME InventoryOK, selected # 0, NEW grams, SetUsed(grams)
    PROVE  /\ grams \in Nat /\ Len(inv'.spools) = Len(inv.spools)
           /\ inv' = [filaments |-> inv.filaments, spools |-> inv'.spools]
           /\ inv'.spools = [inv.spools EXCEPT ![Chosen].used = grams]
<1>1. inv' = [inv EXCEPT !.spools[Chosen].used = grams] /\ grams \in Nat
  BY DEF SetUsed
<1>2. inv = [filaments |-> inv.filaments, spools |-> inv.spools]
  BY DEF InventoryOK, StoreOK, IsInventory
<1> DEFINE rows == [inv.spools EXCEPT ![Chosen].used = grams]
<1>3. inv' = [filaments |-> inv.filaments, spools |-> rows]
  BY <1>1, <1>2
<1>4. IsList(inv.spools)
  BY DEF InventoryOK, StoreOK, IsInventory
<1>5. rows = [k \in 1 .. Len(inv.spools) |->
                 IF k = Chosen THEN [inv.spools[k] EXCEPT !.used = grams] ELSE inv.spools[k]]
  BY <1>4 DEF IsList
<1>6. Len(rows) = Len(inv.spools)
  BY <1>4, <1>5 DEF IsList
<1> HIDE DEF rows
<1> QED BY <1>1, <1>3, <1>6 DEF rows

\* A use or a measurement changes what one row has used.
LEMMA SetUsedOK ==
    ASSUME InventoryOK, selected # 0, NEW grams, SetUsed(grams)
    PROVE  InventoryOK'
<1> DEFINE n == Len(inv.spools)
           c == Chosen
           s == inv.spools[c]
           t == [s EXCEPT !.used = grams]
<1>1. /\ IsList(inv.spools) /\ \A k \in 1 .. n : IsSpool(inv.spools[k])
      /\ n \in Nat /\ n <= MaxSpools /\ c \in 1 .. n /\ selected \in 1 .. n
  BY ChosenIn DEF InventoryOK, StoreOK, IsInventory, IsList
<1>2. /\ grams \in Nat /\ Len(inv'.spools) = n
      /\ inv' = [filaments |-> inv.filaments, spools |-> inv'.spools]
      /\ inv'.spools = [inv.spools EXCEPT ![c].used = grams]
  BY SetUsedIs
<1>3. IsSpool(t) /\ t.id = s.id /\ t.cloud = s.cloud
  <2>1. IsSpool(s)
    BY <1>1
  <2> HIDE DEF s
  <2>2. t = [id |-> s.id, cloud |-> s.cloud, filament |-> s.filament, initial |-> s.initial, used |-> grams]
    BY <2>1 DEF IsSpool
  <2> HIDE DEF t
  <2> QED BY <1>2, <2>1, <2>2 DEF IsSpool
<1>4. inv'.spools = [k \in 1 .. n |-> IF k = c THEN t ELSE inv.spools[k]]
  BY <1>1, <1>2 DEF IsList
<1> HIDE DEF n, c, t
<1>5. IsInventory(inv')
  <2>1. IsList(inv'.spools)
    BY <1>1, <1>2, <1>4 DEF IsList
  <2>2. \A k \in 1 .. n : IsSpool(inv'.spools[k])
    BY <1>1, <1>3, <1>4
  <2> QED BY <1>2, <2>1, <2>2 DEF IsInventory
<1>6. ASSUME ~gaps PROVE Tidy(inv')
  <2>1. Tidy(inv)
    BY <1>6 DEF InventoryOK, StoreOK
  <2>2. \A k \in 1 .. n : inv'.spools[k].id = inv.spools[k].id /\ inv'.spools[k].cloud = inv.spools[k].cloud
    BY <1>3, <1>4
  <2> QED BY <1>2, <2>1, <2>2 DEF Tidy, n
<1>7. Persist /\ gaps' = gaps /\ Show(selected)
  BY DEF SetUsed
<1>8. Len(inv'.spools) <= MaxSpools
  BY <1>1, <1>2
<1>9. StoreOK'
  BY <1>5, <1>6, <1>7, <1>8, Persisted DEF InventoryOK, StoreOK
<1>10. selected \in Nat /\ selected \in 1 .. Len(inv'.spools)
  BY <1>1, <1>2
<1>11. PageOK'
  BY <1>5, <1>7, <1>10, Shown
<1> QED BY <1>9, <1>11 DEF InventoryOK

\* Both take something off the selected row.
LEMMA UseOK == ASSUME InventoryOK, Use \/ Measure PROVE InventoryOK'
BY SetUsedOK DEF Use, Measure

\* A pull adds rows and changes others, and has the page shown again.
LEMMA PulledOK == ASSUME InventoryOK, Pulled PROVE InventoryOK'
<1>1. PICK list \in Remote : inv' = Merged(inv, list) /\ Len(inv'.spools) <= MaxSpools
  BY DEF Pulled
<1>2. IsInventory(inv)
  BY DEF InventoryOK, StoreOK
<1>3. Grows(inv, inv')
  BY <1>1, <1>2, MergeGrows
<1>4. IsInventory(inv') /\ Len(inv.spools) <= Len(inv'.spools) /\ (Tidy(inv) => Tidy(inv'))
  BY <1>1, <1>3 DEF Grows
<1>5. Persist /\ gaps' = gaps /\ Show(selected)
  BY DEF Pulled
<1>6. StoreOK'
  BY <1>1, <1>4, <1>5, Persisted DEF InventoryOK, StoreOK
<1>7. selected \in Nat /\ (selected # 0 => selected \in 1 .. Len(inv.spools))
  BY DEF InventoryOK, PageOK, StoreOK, DraftCurrent, IsInventory, IsList
<1>8. Len(inv.spools) \in Nat /\ Len(inv'.spools) \in Nat
  BY <1>2, <1>4 DEF IsInventory, IsList
<1>9. selected # 0 => selected \in 1 .. Len(inv'.spools)
  <2> DEFINE a == Len(inv.spools)
             b == Len(inv'.spools)
  <2>1. a \in Nat /\ b \in Nat /\ a <= b
    BY <1>4, <1>8
  <2> HIDE DEF a, b
  <2>2. selected # 0 => selected \in 1 .. a
    BY <1>7 DEF a
  <2>3. selected # 0 => selected \in 1 .. b
    BY <2>1, <2>2
  <2> QED BY <2>3 DEF b
<1>10. IsDraft(draft) /\ DraftCurrent
  BY DEF InventoryOK, PageOK
<1>11. PageOK'
  BY <1>4, <1>5, <1>7, <1>9, <1>10, Shown
<1> QED BY <1>6, <1>11 DEF InventoryOK

\* No rows.
LEMMA NoneTidy == IsInventory(NoInventory) /\ Tidy(NoInventory) /\ Len(NoInventory.spools) = 0
BY DEF NoInventory, IsInventory, IsList, Tidy

\* The page a start opens on.
LEMMA OpenedOK ==
    ASSUME NEW i, IsInventory(i), NEW n, NEW d,
           n = IF i.spools = <<>> THEN 0 ELSE 1,
           d = IF i.spools = <<>> THEN NewDraft ELSE Flat(i, i.spools[1])
    PROVE  /\ IsDraft(d) /\ n \in Nat
           /\ n = 0 => d.id = Blank
           /\ n # 0 => n \in DOMAIN i.spools /\ d = Flat(i, i.spools[n])
<1>1. IsList(i.spools) /\ Len(i.spools) \in Nat
  BY DEF IsInventory, IsList
<1>2. CASE i.spools = <<>>
  <2>1. IsDraft(NewDraft) /\ NewDraft.id = Blank
    BY ListsAssumption DEF IsDraft, NewDraft
  <2> QED BY <1>2, <2>1
<1>3. CASE i.spools # <<>>
  <2>1. Len(i.spools) # 0
    BY <1>1, <1>3 DEF IsList
  <2>2. 1 \in 1 .. Len(i.spools) /\ DOMAIN i.spools = 1 .. Len(i.spools)
    BY <1>1, <2>1 DEF IsList
  <2> DEFINE s == i.spools[1]
  <2>3. IsSpool(s)
    BY <2>2 DEF IsInventory
  <2> HIDE DEF s
  <2>4. IsDraft(Flat(i, s))
    BY <2>3 DEF Flat, Left, IsDraft, IsSpool
  <2> QED BY <1>3, <2>2, <2>4 DEF s
<1> QED BY <1>2, <1>3

\* A start reads the file, or begins with nothing.
LEMMA RestartOK == ASSUME InventoryOK, Restart PROVE InventoryOK'
<1>1. /\ inv' = file \/ (inv' = NoInventory /\ behind' = TRUE)
      /\ file' = file /\ gaps' = gaps
  BY DEF Restart
<1>2. IsInventory(inv') /\ Len(inv'.spools) <= MaxSpools /\ (~gaps => Tidy(inv'))
  BY <1>1, NoneTidy, ListsAssumption DEF InventoryOK, StoreOK
<1>3. StoreOK'
  BY <1>1, <1>2 DEF InventoryOK, StoreOK, FileCurrent
<1>4. /\ selected' = IF inv'.spools = <<>> THEN 0 ELSE 1
      /\ draft' = IF inv'.spools = <<>> THEN NewDraft ELSE Flat(inv', inv'.spools[1])
  BY DEF Restart
<1>5. PageOK'
  BY <1>2, <1>4, OpenedOK DEF PageOK, DraftCurrent
<1> QED BY <1>3, <1>5 DEF InventoryOK

\* The first start takes an old file over.
LEMMA InitOK == ASSUME InventoryInit PROVE InventoryOK
<1>1. PICK list \in Legacy : inv = Merged(NoInventory, list)
  BY DEF InventoryInit
<1>2. Grows(NoInventory, inv) /\ Len(inv.spools) <= Len(list)
  <2>1. Len(NoInventory.spools) + Len(list) = Len(list)
    BY NoneTidy, ListsAssumption
  <2> QED BY <1>1, <2>1, NoneTidy, MergeGrows
<1>3. IsInventory(inv) /\ Len(inv.spools) <= MaxSpools /\ Tidy(inv)
  <2>1. Len(list) <= MaxSpools /\ Len(list) \in Nat /\ MaxSpools \in Nat
    BY ListsAssumption
  <2>2. IsInventory(inv) /\ Len(inv.spools) \in Nat
    BY <1>2 DEF Grows, IsInventory, IsList
  <2>3. Len(inv.spools) <= MaxSpools
    BY <1>2, <2>1, <2>2
  <2> QED BY <1>2, <2>2, <2>3, NoneTidy DEF Grows
<1>4. file = inv /\ gaps = FALSE /\ Opened(inv)
  BY DEF InventoryInit
<1>5. StoreOK
  BY <1>3, <1>4 DEF StoreOK, FileCurrent
<1>6. PageOK
  BY <1>3, <1>4, OpenedOK DEF PageOK, DraftCurrent, Opened
<1> QED BY <1>5, <1>6 DEF InventoryOK

\* Every step keeps the invariant.
LEMMA StepOK == ASSUME InventoryOK, [InventoryNext]_store PROVE InventoryOK'
<1>1. CASE Pull \/ PullFailed \/ UNCHANGED store
  BY <1>1 DEF Pull, PullFailed, store, InventoryOK, StoreOK, PageOK, DraftCurrent, FileCurrent
<1> QED BY <1>1, NewOK, SelectOK, EditOK, AddCatalogOK, SaveOK, DeleteOK, UseOK, PulledOK, RestartOK
        DEF InventoryNext

-----------------------------------------------------------------------------
\* The page, the memory and the file agree on the spools after every operation.
THEOREM StoreIsCurrent == InventorySpec => []StoreCurrent
<1>1. InventoryInit => InventoryOK
  BY InitOK
<1>2. InventoryOK /\ [InventoryNext]_store => InventoryOK'
  BY StepOK
<1>3. InventoryOK => StoreCurrent
  BY DEF InventoryOK, StoreOK, PageOK, StoreCurrent
<1> QED BY <1>1, <1>2, <1>3, PTL DEF InventorySpec

\* Saving the page lands on the selected row, and leaves what was left.
LEMMA SaveSelected ==
    ASSUME InventoryOK, Save, ~gaps, selected # 0
    PROVE  /\ Len(inv'.spools) = Len(inv.spools)
           /\ \A n \in 1 .. Len(inv.spools) : n # selected => inv'.spools[n] = inv.spools[n]
           /\ Left(inv'.spools[selected]) = Left(inv.spools[selected])
<1> DEFINE r == RowUpserted(inv, draft)
           n == Len(inv.spools)
           s == inv.spools[selected]
           t == inv'.spools[r]
<1>1. /\ IsInventory(inv) /\ n \in Nat /\ selected \in 1 .. n /\ n <= MaxSpools /\ IsDraft(draft)
      /\ \A k \in 1 .. n : IsSpool(inv.spools[k])
  BY DEF InventoryOK, StoreOK, PageOK, DraftCurrent, IsInventory, IsList
<1>2. /\ draft.id = IF s.cloud = Blank THEN s.id ELSE s.cloud
      /\ draft.initial = s.initial /\ draft.net = Left(s)
  BY DEF InventoryOK, PageOK, DraftCurrent, Flat
<1>3. /\ \A k \in 1 .. n : inv.spools[k].id = LocalId(k) /\ OwnAtMost(inv.spools[k].cloud, k)
      /\ \A k, l \in 1 .. n :
            k # l /\ inv.spools[k].cloud = inv.spools[l].cloud => inv.spools[k].cloud = Blank
  BY DEF InventoryOK, StoreOK, Tidy
<1>4. \A m \in 1 .. MaxSpools : Blank # LocalId(m)
  BY ListsAssumption
<1>5. n \in Nat /\ MaxSpools \in Nat /\ \A k \in 1 .. n : k \in 1 .. MaxSpools
  <2>1. MaxSpools \in Nat
    BY ListsAssumption
  <2> HIDE DEF n
  <2> QED BY <1>1, <2>1
<1>6. /\ r \in 1 .. n + 1
      /\ Len(inv'.spools) = IF r = n + 1 THEN n + 1 ELSE n
      /\ \A k \in 1 .. n : k # r => inv'.spools[k] = inv.spools[k]
      /\ r # n + 1 => /\ Matches(inv.spools[r], draft)
                      /\ t.initial = IF draft.initial > 0 THEN draft.initial ELSE inv.spools[r].initial
      /\ r = n + 1 => \/ draft.id = Blank
                      \/ \A k \in 1 .. n : ~Matches(inv.spools[k], draft)
      /\ t.used = IF t.initial > draft.net THEN t.initial - draft.net ELSE 0
  <2>1. draft.initial \in Nat /\ draft.net \in Nat /\ inv' = Upsert(inv, draft)
    BY <1>1 DEF Save, IsDraft
  <2> DEFINE u == Upsert(inv, draft)
             v == u.spools[r]
  <2>2. /\ r \in 1 .. n + 1
        /\ Len(u.spools) = IF r = n + 1 THEN n + 1 ELSE n
        /\ \A k \in 1 .. n : k # r => u.spools[k] = inv.spools[k]
        /\ r # n + 1 => /\ Matches(inv.spools[r], draft)
                        /\ v.initial = IF draft.initial > 0 THEN draft.initial ELSE inv.spools[r].initial
        /\ r = n + 1 => \/ draft.id = Blank
                        \/ \A k \in 1 .. n : ~Matches(inv.spools[k], draft)
        /\ v.used = IF v.initial > draft.net THEN v.initial - draft.net ELSE 0
    <3> HIDE DEF r, n, u
    <3>1. r = RowUpserted(inv, draft) /\ n = Len(inv.spools) /\ u = Upsert(inv, draft)
      BY DEF r, n, u
    <3>2. r \in 1 .. n + 1 /\ Len(u.spools) = IF r = n + 1 THEN n + 1 ELSE n
      BY <1>1, <2>1, <3>1, Upserted
    <3>3. \A k \in 1 .. n : k # r => u.spools[k] = inv.spools[k]
      BY <1>1, <2>1, <3>1, Upserted
    <3>4. /\ r # n + 1 => Matches(inv.spools[r], draft)
          /\ r = n + 1 => \/ draft.id = Blank
                          \/ \A k \in 1 .. n : ~Matches(inv.spools[k], draft)
      BY <1>1, <2>1, <3>1, Upserted
    <3>5. r # n + 1 => v.initial = IF draft.initial > 0 THEN draft.initial ELSE inv.spools[r].initial
      BY <1>1, <2>1, <3>1, Upserted
    <3>6. v.used = IF v.initial > draft.net THEN v.initial - draft.net ELSE 0
      BY <1>1, <2>1, <3>1, Upserted
    <3> QED BY <3>2, <3>3, <3>4, <3>5, <3>6
  <2>3. inv' = u /\ t = v
    BY <2>1
  <2> HIDE DEF u, v, r, n, t
  <2> QED BY <2>2, <2>3
<1> HIDE DEF r, n, s, t
<1>7. draft.id # Blank /\ Matches(s, draft)
  BY <1>1, <1>2, <1>3, <1>4, <1>5 DEF Matches, s
<1>8. r # n + 1
  BY <1>1, <1>6, <1>7 DEF s
<1>9. r \in 1 .. n
  BY <1>1, <1>6, <1>8
<1>10. r = selected
  <2>1. CASE draft.id = s.cloud
    <3>1. CASE inv.spools[r].cloud = draft.id
      BY <1>1, <1>3, <1>7, <1>9, <2>1, <3>1 DEF s
    <3>2. CASE inv.spools[r].id = draft.id
      BY <1>1, <1>3, <1>5, <1>9, <2>1, <3>2 DEF s, OwnAtMost
    <3> QED BY <1>6, <1>8, <3>1, <3>2 DEF Matches
  <2>2. CASE draft.id = s.id
    <3>1. draft.id = LocalId(selected)
      BY <1>1, <1>3, <2>2 DEF s
    <3>2. CASE inv.spools[r].cloud = draft.id
      BY <1>1, <1>3, <1>5, <1>9, <3>1, <3>2 DEF OwnAtMost
    <3>3. CASE inv.spools[r].id = draft.id
      BY <1>3, <1>9, <3>1, <3>3, IdsDiffer
    <3> QED BY <1>6, <1>8, <3>2, <3>3 DEF Matches
  <2> QED BY <1>2, <2>1, <2>2
<1>11. Left(t) = Left(s)
  <2> DEFINE a == s.initial
             b == s.used
             c == t.initial
             d == t.used
             w == IF a > b THEN a - b ELSE 0
  <2>1. a \in Nat /\ b \in Nat
    BY <1>1 DEF IsSpool, s
  <2>2. draft.net = w
    BY <1>2 DEF Left
  <2>3. c = a
    BY <1>2, <1>6, <1>8, <1>10 DEF s
  <2>4. d = IF c > w THEN c - w ELSE 0
    BY <1>6, <2>2
  <2> HIDE DEF a, b, c, d
  <2>5. (IF c > d THEN c - d ELSE 0) = (IF a > b THEN a - b ELSE 0)
    BY <2>1, <2>3, <2>4
  <2> QED BY <2>5 DEF Left, a, b, c, d
<1> QED BY <1>6, <1>8, <1>10, <1>11 DEF n, s, t

\* A use changes no row but the selected one.
LEMMA UseSelected ==
    ASSUME InventoryOK, Use \/ Measure, ~gaps, selected # 0
    PROVE  /\ Len(inv'.spools) = Len(inv.spools)
           /\ \A n \in 1 .. Len(inv.spools) : n # selected => inv'.spools[n] = inv.spools[n]
<1>1. PICK grams : SetUsed(grams)
  BY DEF Use, Measure
<1>2. /\ Len(inv'.spools) = Len(inv.spools) /\ Chosen = selected
      /\ inv'.spools = [inv.spools EXCEPT ![Chosen].used = grams]
  BY <1>1, SetUsedIs, ChosenIn
<1>3. DOMAIN inv.spools = 1 .. Len(inv.spools)
  BY DEF InventoryOK, StoreOK, IsInventory, IsList
<1> QED BY <1>2, <1>3

\* Deleting the selected spool takes out its row alone.
LEMMA DeleteSelected ==
    ASSUME InventoryOK, Delete, ~gaps
    PROVE  /\ Len(inv'.spools) < Len(inv.spools)
           /\ inv'.spools = RemoveAt(inv.spools, selected)
<1> DEFINE n == Len(inv.spools)
<1>1. /\ inv = [filaments |-> inv.filaments, spools |-> inv.spools] /\ IsList(inv.spools)
      /\ n \in Nat /\ selected \in 1 .. n
  BY DEF InventoryOK, StoreOK, PageOK, DraftCurrent, Delete, IsInventory, IsList
<1>2. \A k \in 1 .. n : inv.spools[k].id = LocalId(k)
  BY DEF InventoryOK, StoreOK, Tidy
<1>3. inv' = [inv EXCEPT !.spools = Without(@, inv.spools[selected].id)]
  BY DEF Delete
<1>4. inv'.spools = Without(inv.spools, inv.spools[selected].id)
  BY <1>1, <1>3
<1>5. ASSUME NEW k \in 1 .. n, k # selected PROVE inv.spools[k].id # inv.spools[selected].id
  BY <1>1, <1>2, <1>5, IdsDiffer
<1>6. inv'.spools = Cut(inv.spools, selected, n)
  BY <1>1, <1>4, <1>5, WithoutOne
<1>7. Len(inv'.spools) = n - 1 /\ n - 1 < n
  <2> HIDE DEF n
  <2> QED BY <1>1, <1>6 DEF Cut
<1> QED BY <1>1, <1>6, <1>7, CutRemoves

\* An operation on the selected spool changes or removes that spool alone, and
\* saving leaves on it what was left, unless rows share numbers.
THEOREM OnlySelected == InventorySpec => SelectedOnly
<1> DEFINE others == DOMAIN inv.spools \ {selected}
           Step == ~gaps /\ (Save \/ Use \/ Measure \/ Delete) /\ selected # 0 =>
                     IF Len(inv'.spools) < Len(inv.spools)
                     THEN inv'.spools = RemoveAt(inv.spools, selected)
                     ELSE /\ Len(inv'.spools) = Len(inv.spools)
                          /\ \A n \in others : inv'.spools[n] = inv.spools[n]
                          /\ Save => Left(inv'.spools[selected]) = Left(inv.spools[selected])
<1>1. InventoryInit => InventoryOK
  BY InitOK
<1>2. InventoryOK /\ [InventoryNext]_store => InventoryOK'
  BY StepOK
<1>3. InventoryOK /\ [InventoryNext]_store => [Step]_store
  <2> SUFFICES ASSUME InventoryOK, ~gaps, Save \/ Use \/ Measure \/ Delete, selected # 0
               PROVE  IF Len(inv'.spools) < Len(inv.spools)
                      THEN inv'.spools = RemoveAt(inv.spools, selected)
                      ELSE /\ Len(inv'.spools) = Len(inv.spools)
                           /\ \A n \in others : inv'.spools[n] = inv.spools[n]
                           /\ Save => Left(inv'.spools[selected]) = Left(inv.spools[selected])
    OBVIOUS
  <2>1. DOMAIN inv.spools = 1 .. Len(inv.spools) /\ Len(inv.spools) \in Nat
    BY DEF InventoryOK, StoreOK, IsInventory, IsList
  <2>2. \A k \in Nat : ~(k < k)
    OBVIOUS
  <2>3. CASE Delete
    BY <2>3, DeleteSelected
  <2>4. CASE Save
    BY <2>1, <2>2, <2>4, SaveSelected
  <2>5. CASE ~Save /\ (Use \/ Measure)
    BY <2>1, <2>2, <2>5, UseSelected
  <2> QED BY <2>3, <2>4, <2>5
<1> QED BY <1>1, <1>2, <1>3, PTL DEF InventorySpec, SelectedOnly
====
