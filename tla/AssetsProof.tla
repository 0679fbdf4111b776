------------------------------ MODULE AssetsProof ------------------------------
(***************************************************************************)
(* Proofs about the two halves of the asset package: the issued manifests, *)
(* for any requests, any tree and any changes to it, any TTL and any cap,  *)
(* and the runtime tree of a mod, for any source files and any changes to  *)
(* them.                                                                   *)
(***************************************************************************)
EXTENDS Manifests, Overlay, TLAPS, FiniteSetTheorems, WellFoundedInduction

USE ManifestsAssumption

Points == {"idle", "list", "stat", "check", "read", "store", "walk", "back",
           "built", "stamped", "done"}

TypeInv ==
  /\ clock \in Nat
  /\ issue \in [Refs -> Points]
  /\ stamp \in [Refs -> Nat]
  /\ created \in [Refs -> Nat \cup {Never}]
  /\ DOMAIN assets = Refs /\ assets = [r \in Refs |-> assets[r]]

\* The addresses of a manifest carry its ref, so that those of two manifests
\* never meet, and a manifest is live only after its request has registered it:
\* what a request builds outside the lock is nobody else's.
Apart ==
  /\ \A r \in Refs : \A h \in assets[r] : h[1] = r
  /\ \A r \in Live : issue[r] = "done"

SyncInv == TypeInv /\ Apart /\ IsFiniteSet(Live) /\ InSync

\* A step that leaves the store alone and every registered request where it is.
LEMMA SameStore ==
  ASSUME SyncInv, UNCHANGED store, TypeInv',
         \A r \in Refs : issue[r] = "done" => issue'[r] = "done"
  PROVE  SyncInv'
<1>1. Live' = Live
  BY DEF store, Live
<1>2. QED
  BY <1>1 DEF SyncInv, store, Apart, InSync, Live

\* Whatever a scan does, it moves its own request between points of the scan.
LEMMA ScanMoves ==
  ASSUME TypeInv, NEW r \in Refs, ScanStep(r)
  PROVE  issue[r] # "done" /\ \E to \in Points : issue' = [issue EXCEPT ![r] = to]
BY DEF ScanStep, ScanStart, ScanPaks, PakStat, PakCheck, PakRead, PakStore, WalkLoose,
   NextPak, Scan, Points

\* Taking manifests out of the store, under the lock.
LEMMA Removal ==
  ASSUME SyncInv, NEW gone \in SUBSET Live
  PROVE  Kept(gone) = UNION {assets[r] : r \in Live \ gone}
<1>1. \A h : h \in Kept(gone) <=> h \in byHash /\ \A r \in gone : h \notin assets[r]
  BY DEF Kept
<1>2. \A h : h \in byHash <=> \E r \in Live : h \in assets[r]
  BY DEF SyncInv, InSync
<1>3. \A r \in Live, q \in gone : \A h \in assets[r] : h \in assets[q] => r = q
  BY DEF SyncInv, Apart, Live
<1>4. \A h : h \in Kept(gone) <=> \E r \in Live \ gone : h \in assets[r]
  BY <1>1, <1>2, <1>3
<1>5. QED BY <1>4

LEMMA SyncNext == SyncInv /\ [Next]_vars => SyncInv'
<1> SUFFICES ASSUME SyncInv, [Next]_vars PROVE SyncInv'
  OBVIOUS
<1>0. TypeInv
  BY DEF SyncInv
<1>1. CASE TimePasses
  <2>1. TypeInv' /\ UNCHANGED <<store, issue>>
    BY <1>0, <1>1 DEF TimePasses, TypeInv, store, scans
  <2>2. QED BY <2>1, SameStore
<1>2. CASE DiskChanges /\ UNCHANGED <<issue, scan, clock, store, stamp, get, want>>
  <2>1. TypeInv' /\ UNCHANGED <<store, issue>>
    BY <1>0, <1>2 DEF TypeInv, store
  <2>2. QED BY <2>1, SameStore
<1>3. ASSUME NEW r \in Refs, ScanStep(r), UNCHANGED <<clock, store, stamp, get, want>>
      PROVE  SyncInv'
  <2>1. issue[r] # "done" /\ \E to \in Points : issue' = [issue EXCEPT ![r] = to]
    BY <1>0, <1>3, ScanMoves
  <2>2. TypeInv' /\ \A q \in Refs : issue[q] = "done" => issue'[q] = "done"
    BY <1>0, <1>3, <2>1 DEF TypeInv, store
  <2>3. QED BY <1>3, <2>2, SameStore
<1>4. ASSUME NEW r \in Refs, Ends(r) PROVE SyncInv'
  <2>1. TypeInv' /\ UNCHANGED store /\ \A q \in Refs : issue[q] = "done" => issue'[q] = "done"
    BY <1>0, <1>4 DEF Ends, TypeInv, Points, store
  <2>2. QED BY <2>1, SameStore
<1>5. ASSUME NEW r \in Refs, Build(r) PROVE SyncInv'
  <2>1. CASE Ends(r) BY <1>4, <2>1
  <2>2. CASE ~Ends(r)
    <3> DEFINE new == {r} \X DOMAIN scan[r].byKey
    <3>1. /\ issue[r] = "back"
          /\ issue' = [issue EXCEPT ![r] = "built"]
          /\ assets' = [assets EXCEPT ![r] = new]
          /\ UNCHANGED <<clock, created, byHash, stamp>>
      BY <1>5, <2>2 DEF Build
    <3>2. \A h \in new : h[1] = r
      OBVIOUS
    <3> HIDE DEF new
    <3>3. TypeInv'
      BY <1>0, <3>1 DEF TypeInv, Points
    <3>4. Live' = Live /\ r \notin Live
      BY <3>1 DEF Live, SyncInv, Apart
    <3>5. Apart'
      BY <1>0, <3>1, <3>2, <3>4 DEF SyncInv, Apart, TypeInv, Live
    <3>6. \A q \in Live : assets'[q] = assets[q]
      BY <1>0, <3>1, <3>4 DEF TypeInv, Live
    <3>7. InSync'
      BY <3>1, <3>4, <3>6 DEF SyncInv, InSync
    <3>8. QED BY <3>3, <3>4, <3>5, <3>7 DEF SyncInv
  <2>3. QED BY <2>1, <2>2
<1>6. ASSUME NEW r \in Refs, Stamp(r) PROVE SyncInv'
  <2>1. TypeInv' /\ UNCHANGED store /\ \A q \in Refs : issue[q] = "done" => issue'[q] = "done"
    BY <1>0, <1>6 DEF Stamp, TypeInv, Points, store
  <2>2. QED BY <2>1, SameStore
<1>7. ASSUME NEW r \in Refs, Register(r) PROVE SyncInv'
  <2> DEFINE pruned == Prunable(stamp[r])
             rest   == Live \ pruned
  <2>1. PICK evicted \in IF MustEvict(rest) THEN {{o} : o \in Oldest(rest)} ELSE {{}} :
          /\ byHash' = Kept(pruned \cup evicted) \cup assets[r]
          /\ created' = [q \in Refs |-> IF q = r THEN stamp[r]
                                        ELSE IF q \in pruned \cup evicted THEN Never
                                        ELSE created[q]]
    BY <1>7 DEF Register
  <2>2. issue[r] = "stamped" /\ issue' = [issue EXCEPT ![r] = "done"] /\ UNCHANGED <<assets, clock, stamp>>
    BY <1>7 DEF Register
  <2> DEFINE gone == pruned \cup evicted
             left == Live \ gone
  <2>3. pruned \subseteq Live /\ evicted \subseteq rest
    BY <2>1 DEF Prunable, Oldest
  <2>4. r \notin Live
    BY <2>2 DEF SyncInv, Apart
  <2>5. TypeInv'
    BY <1>0, <2>1, <2>2 DEF TypeInv, Points
  <2>6. Live' = left \cup {r}
    BY <1>0, <2>1, <2>3, <2>4 DEF Live, TypeInv
  <2>7. Apart'
    BY <1>0, <2>2, <2>6 DEF SyncInv, Apart, TypeInv, Live, Points
  <2>8. IsFiniteSet(Live) /\ IsFiniteSet(rest) /\ IsFiniteSet(left)
    BY FS_Subset DEF SyncInv
  <2>9. Cardinality(left) < MaxLive
    <3>1. CASE MustEvict(rest)
      <4>1. PICK o \in rest : evicted = {o}
        BY <2>1, <3>1 DEF Oldest
      <4>2. left = rest \ {o}
        BY <4>1
      <4>3. Cardinality(rest) <= Cardinality(Live)
        BY <2>8, FS_Subset
      <4>4. Cardinality(left) = Cardinality(rest) - 1
        BY <2>8, <4>1, <4>2, FS_RemoveElement
      <4>5. Cardinality(Live) <= MaxLive /\ Cardinality(Live) \in Nat /\ Cardinality(rest) \in Nat
        BY <2>8, FS_CardinalityType DEF SyncInv, InSync
      <4>6. QED BY <4>3, <4>4, <4>5
    <3>2. CASE ~MustEvict(rest)
      <4>1. left = rest
        BY <2>1, <3>2
      <4>2. Cardinality(rest) \in Nat
        BY <2>8, FS_CardinalityType
      <4>3. QED BY <3>2, <4>1, <4>2 DEF MustEvict
    <3>3. QED BY <3>1, <3>2
  <2>10. IsFiniteSet(Live') /\ Cardinality(Live') <= MaxLive
    <3>1. r \notin left
      BY <2>4
    <3>2. IsFiniteSet(left \cup {r}) /\ Cardinality(left \cup {r}) = Cardinality(left) + 1
      BY <2>8, <3>1, FS_AddElement
    <3>3. Cardinality(left) \in Nat
      BY <2>8, FS_CardinalityType
    <3>4. QED BY <2>6, <2>9, <3>2, <3>3
  <2>11. byHash' = UNION {assets'[q] : q \in Live'}
    <3>1. Kept(gone) = UNION {assets[q] : q \in left}
      BY <2>3, Removal
    <3>2. QED BY <2>1, <2>2, <2>6, <3>1
  <2>12. QED BY <2>5, <2>7, <2>10, <2>11 DEF SyncInv, InSync
<1>8. ASSUME NEW g \in Gets, LookupSlow(g) PROVE SyncInv'
  <2> DEFINE gone == Prunable(clock)
  <2>1. /\ byHash' = Kept(gone)
        /\ created' = [q \in Refs |-> IF q \in gone THEN Never ELSE created[q]]
        /\ UNCHANGED <<issue, clock, assets, stamp>>
    BY <1>8 DEF LookupSlow, scans
  <2>2. gone \subseteq Live
    BY DEF Prunable
  <2> HIDE DEF gone
  <2>3. Live' = Live \ gone
    BY <1>0, <2>1, <2>2 DEF Live, TypeInv
  <2>4. TypeInv' /\ Apart'
    BY <1>0, <2>1, <2>3 DEF SyncInv, TypeInv, Apart
  <2>5. IsFiniteSet(Live') /\ Cardinality(Live') <= Cardinality(Live)
    BY <2>3, FS_Subset DEF SyncInv
  <2>6. Cardinality(Live') <= MaxLive
    <3>1. Cardinality(Live) \in Nat /\ Cardinality(Live') \in Nat
      BY <2>5, FS_CardinalityType DEF SyncInv
    <3>2. QED BY <2>5, <3>1 DEF SyncInv, InSync
  <2>7. byHash' = UNION {assets'[q] : q \in Live'}
    BY <2>1, <2>2, <2>3, Removal
  <2>8. QED BY <2>4, <2>5, <2>6, <2>7 DEF SyncInv, InSync
<1>9. ASSUME NEW g \in Gets, Get(g) \/ LookupFast(g) \/ Open(g) \/ Again(g) PROVE SyncInv'
  <2>1. UNCHANGED <<issue, clock, store, stamp>>
    BY <1>9 DEF Get, LookupFast, Open, Again, scans
  <2>2. TypeInv'
    BY <1>0, <2>1 DEF TypeInv, store
  <2>3. QED BY <2>1, <2>2, SameStore
<1>10. CASE UNCHANGED vars
  <2>1. UNCHANGED <<issue, clock, store, stamp>>
    BY <1>10 DEF vars, runVars, scans
  <2>2. TypeInv'
    BY <1>0, <2>1 DEF TypeInv, store
  <2>3. QED BY <2>1, <2>2, SameStore
<1>11. ASSUME NEW r \in Refs, BuildFails(r) PROVE SyncInv'
  BY <1>4, <1>11 DEF BuildFails
<1>12. QED
  BY <1>1, <1>2, <1>3, <1>5, <1>6, <1>7, <1>8, <1>9, <1>10, <1>11 DEF Next

\* Whatever requests prune, evict and register in whatever order, an address
\* resolves exactly while a live manifest holds it, and no more manifests are
\* live than the cap allows, however many were built at the same time.
THEOREM StoreStaysInSync == Spec => []InSync
<1>1. Init => SyncInv
  <2> SUFFICES ASSUME Init PROVE SyncInv
    OBVIOUS
  <2>1. Live = {}
    BY DEF Init, Live
  <2>2. IsFiniteSet({}) /\ Cardinality({}) = 0
    BY FS_EmptySet
  <2>3. TypeInv
    BY DEF Init, FSInit, TypeInv, Points
  <2>4. QED BY <2>1, <2>2, <2>3 DEF Init, SyncInv, Apart, InSync
<1>2. SyncInv => InSync
  BY DEF SyncInv
<1>3. QED BY <1>1, <1>2, SyncNext, PTL DEF Spec

-----------------------------------------------------------------------------
(* What a manifest lists *)

Key(b) == NormalizeVFSKey[b.name]

\* The map m has, for each key of the backings H, the one that overrides the
\* others.
Shows(m, H) ==
  /\ m = [k \in {Key(b) : b \in H} |-> m[k]]
  /\ \A k \in {Key(b) : b \in H} :
       m[k] \in H /\ Key(m[k]) = k /\ \A c \in H : Key(c) = k => m[k] = c \/ Overrides(m[k], c)

\* What the tree d holds in one PAK, in the loose files of a layer, in a layer.
PakPart(d, l, p) ==
  {Backing(l, p, d.pak[l][p], n) :
     n \in IF d.pak[l][p] = 0 \/ Entries[d.pak[l][p]] = Malformed THEN {} ELSE Entries[d.pak[l][p]]}
LoosePart(d, l) == {Backing(l, n, 0, n) : n \in d.loose[l]}
LayerPart(d, l) == (UNION {PakPart(d, l, p) : p \in Paks}) \cup LoosePart(d, l)

\* What a scan s that has come to the point at has been through.
PaksSeen(at, s) == IF at = "list" THEN {} ELSE Paks \ ToSet(s.todo)
Earlier(d, s)   == UNION {LayerPart(d, clientLayers[j]) : j \in 1..(s.layer - 1)}
Visited(d, at, s) ==
  Earlier(d, s) \cup (UNION {PakPart(d, clientLayers[s.layer], p) : p \in PaksSeen(at, s)})

Scanning == {"list", "stat", "check", "read", "store", "walk"}
AtPak    == {"stat", "check", "read", "store"}
Labelled == {"check", "read", "store"}

Trees == [pak : [LayerNames -> [Paks -> DOMAIN Entries \cup {0}]],
          loose : [LayerNames -> SUBSET ToSet(LooseNames)]]

ScanRecord(s) ==
  /\ s = [layer |-> s.layer, todo |-> s.todo, label |-> s.label, version |-> s.version, byKey |-> s.byKey]
  /\ s.layer \in {1, 2} /\ s.todo \in Seq(Paks)

FSType ==
  /\ load \in Loads /\ changes \in Nat /\ disk \in Trees
  /\ DOMAIN cache = LayerNames \X Paks
  /\ scan = [r \in Refs |-> scan[r]] /\ \A r \in Refs : ScanRecord(scan[r])
  /\ issue \in [Refs -> Points] /\ steady \subseteq Refs
  /\ \A r \in Refs : issue[r] \in AtPak => scan[r].todo # <<>>

\* A version that has been: one to come is another.
Known(v) == v \in Nat /\ v # 0 /\ (load.changes # 0 => v < changes + 2)

\* An index as it was read from the version v, filed under the version label:
\* if label is what is there, it is what was read.
Indexed(l, p, label, v) ==
  /\ Known(label) /\ v \in DOMAIN Entries /\ Entries[v] # Malformed
  /\ label = disk.pak[l][p] => v = label

Filed(at, s) ==
  /\ at \in Labelled => Known(s.label)
  /\ at = "store" => Indexed(clientLayers[s.layer], Head(s.todo), s.label, s.version)

CacheInv ==
  /\ \A l \in LayerNames, p \in Paks : disk.pak[l][p] # 0 => Known(disk.pak[l][p])
  /\ \A l \in LayerNames, p \in Paks :
       cache[<<l, p>>].label # 0 => Indexed(l, p, cache[<<l, p>>].label, cache[<<l, p>>].version)
  /\ \A r \in Refs : Filed(issue[r], scan[r])

Sorted(s) == \A i, j \in DOMAIN s : i < j => Below(s[i], s[j])

\* The PAKs to come are there, in order, and above those that were.
Ahead(d, at, s) ==
  LET v == d.pak[clientLayers[s.layer]]
  IN /\ Sorted(s.todo)
     /\ \A i \in DOMAIN s.todo :
          v[s.todo[i]] # 0 /\ \A p \in PaksSeen(at, s) : v[p] # 0 => Below(p, s.todo[i])

\* A scan of a tree that has stayed the same since it began.
Accurate(d, at, s) ==
  /\ at \in Scanning => Shows(s.byKey, Visited(d, at, s))
  /\ at \in Scanning \ {"list"} => Ahead(d, at, s)
  /\ at \in Labelled => s.label = d.pak[clientLayers[s.layer]][Head(s.todo)]
  /\ at = "walk" => s.todo = <<>>
  /\ at \in {"back", "built", "stamped", "done"} => Shows(s.byKey, Held(d))

SteadyInv == \A r \in steady : Accurate(disk, issue[r], scan[r])

ListInv == FSType /\ CacheInv /\ SteadyInv

-----------------------------------------------------------------------------
(* The order of the PAKs of a layer *)

\* Every nonempty set of numbers has a least member.
LEMMA LeastNumber ==
  ASSUME NEW T, T \subseteq Nat, T # {}
  PROVE  \E x \in T : \A y \in T : x <= y
<1> DEFINE R == {ss \in Nat \X Nat : ss[1] < ss[2]}
<1>1. IsWellFoundedOn(R, Nat)
  <2>1. OpToRel(<, Nat) = R
        BY Zenon DEF OpToRel
  <2>. QED BY <2>1, NatLessThanWellFounded, Zenon
<1>2. \A x, y \in Nat : y < x => <<y, x>> \in R
  <2> TAKE x, y \in Nat
  <2> HAVE y < x
  <2>1. <<y, x>> \in Nat \X Nat /\ <<y, x>>[1] < <<y, x>>[2]
        OBVIOUS
  <2>. QED BY <2>1, Zenon
<1> HIDE DEF R
<1>3. \E x \in T : \A y \in T : ~(<<y, x>> \in R)
      BY <1>1, WFMin
<1>4. \E x \in T : \A y \in T : ~(y < x)
      BY <1>2, <1>3, Zenon
<1>. QED BY <1>4

\* pakSortKey compares the group, then the number, then the name.
LEMMA BelowForm ==
  ASSUME NEW p \in Paks, NEW q \in Paks
  PROVE  Below(p, q) <=>
           \/ PakSortKey[p][1] < PakSortKey[q][1]
           \/ PakSortKey[p][1] = PakSortKey[q][1] /\ PakSortKey[p][2] < PakSortKey[q][2]
           \/ /\ PakSortKey[p][1] = PakSortKey[q][1] /\ PakSortKey[p][2] = PakSortKey[q][2]
              /\ PakSortKey[p][3] < PakSortKey[q][3]
<1> DEFINE a(i) == PakSortKey[p][i]
           b(i) == PakSortKey[q][i]
<1>1. Below(p, q) <=> \E i \in 1..3 : a(i) < b(i) /\ \A j \in 1..(i - 1) : a(j) = b(j)
      BY DEF Below
<1> HIDE DEF a, b
<1>2. (\E i \in 1..3 : a(i) < b(i) /\ \A j \in 1..(i - 1) : a(j) = b(j)) <=>
        \/ a(1) < b(1)
        \/ a(1) = b(1) /\ a(2) < b(2)
        \/ a(1) = b(1) /\ a(2) = b(2) /\ a(3) < b(3)
  <2> DEFINE D(i) == a(i) < b(i) /\ \A j \in 1..(i - 1) : a(j) = b(j)
  <2>1. (\E i \in 1..3 : D(i)) <=> D(1) \/ D(2) \/ D(3)
    <3> HIDE DEF D
    <3>1. 1..3 = {1, 2, 3}
          OBVIOUS
    <3>. QED BY <3>1
  <2>2. 1..(1 - 1) = {} /\ 1..(2 - 1) = {1} /\ 1..(3 - 1) = {1, 2}
        OBVIOUS
  <2>. QED BY <2>1, <2>2
<1>. QED BY <1>1, <1>2 DEF a, b

LEMMA KeyNumbers ==
  ASSUME NEW p \in Paks
  PROVE  PakSortKey[p][1] \in Nat /\ PakSortKey[p][2] \in Nat /\ PakSortKey[p][3] \in Nat
<1>1. PakSortKey[p] \in [1..3 -> Nat]
      BY PaksAssumption
<1>. QED BY <1>1

LEMMA KeysDiffer ==
  ASSUME NEW p \in Paks, NEW q \in Paks, p # q
  PROVE  \/ PakSortKey[p][1] # PakSortKey[q][1]
         \/ PakSortKey[p][2] # PakSortKey[q][2]
         \/ PakSortKey[p][3] # PakSortKey[q][3]
<1>1. PakSortKey[p] \in [1..3 -> Nat] /\ PakSortKey[q] \in [1..3 -> Nat]
      BY PaksAssumption
<1>2. PakSortKey[p] # PakSortKey[q]
      BY PaksAssumption
<1>3. \E i \in 1..3 : PakSortKey[p][i] # PakSortKey[q][i]
      BY <1>1, <1>2
<1>4. 1..3 = {1, 2, 3}
      OBVIOUS
<1>. QED BY <1>3, <1>4

\* It is a strict order in which any two PAKs compare.
LEMMA BelowOrders ==
  /\ \A p, q \in Paks : Below(p, q) => ~Below(q, p) /\ p # q
  /\ \A p, q, s \in Paks : Below(p, q) /\ Below(q, s) => Below(p, s)
  /\ \A p, q \in Paks : p = q \/ Below(p, q) \/ Below(q, p)
BY BelowForm, KeyNumbers, KeysDiffer

LEMMA LowestPak ==
  ASSUME NEW S \in SUBSET Paks, S # {}
  PROVE  \E p \in S : \A q \in S : p = q \/ Below(p, q)
<1>1. PICK p1 \in S : \A q \in S : PakSortKey[p1][1] <= PakSortKey[q][1]
  <2> DEFINE V == {PakSortKey[q][1] : q \in S}
  <2>1. V \subseteq Nat /\ V # {}
        BY KeyNumbers
  <2>2. PICK x \in V : \A y \in V : x <= y
        BY <2>1, LeastNumber
  <2>. QED BY <2>2
<1> DEFINE S1 == {q \in S : PakSortKey[q][1] = PakSortKey[p1][1]}
<1>2. PICK p2 \in S1 : \A q \in S1 : PakSortKey[p2][2] <= PakSortKey[q][2]
  <2> DEFINE V == {PakSortKey[q][2] : q \in S1}
  <2>1. V \subseteq Nat /\ V # {}
        BY KeyNumbers
  <2>2. PICK x \in V : \A y \in V : x <= y
        BY <2>1, LeastNumber
  <2>. QED BY <2>2
<1> DEFINE S2 == {q \in S1 : PakSortKey[q][2] = PakSortKey[p2][2]}
<1>3. PICK p3 \in S2 : \A q \in S2 : PakSortKey[p3][3] <= PakSortKey[q][3]
  <2> DEFINE V == {PakSortKey[q][3] : q \in S2}
  <2>1. V \subseteq Nat /\ V # {}
        BY KeyNumbers
  <2>2. PICK x \in V : \A y \in V : x <= y
        BY <2>1, LeastNumber
  <2>. QED BY <2>2
<1>4. ASSUME NEW q \in S, q # p3 PROVE Below(p3, q)
  <2>1. p1 \in Paks /\ p2 \in Paks /\ p3 \in Paks /\ q \in Paks
        OBVIOUS
  <2>2. PakSortKey[p3][1] = PakSortKey[p1][1] /\ PakSortKey[p3][2] = PakSortKey[p2][2]
        OBVIOUS
  <2>3. PakSortKey[q][1] # PakSortKey[p3][1] => PakSortKey[p3][1] < PakSortKey[q][1]
        BY <1>1, <2>1, <2>2, KeyNumbers
  <2>4. PakSortKey[q][1] = PakSortKey[p3][1] /\ PakSortKey[q][2] # PakSortKey[p3][2]
          => PakSortKey[p3][2] < PakSortKey[q][2]
        BY <1>2, <2>1, <2>2, KeyNumbers
  <2>5. /\ PakSortKey[q][1] = PakSortKey[p3][1] /\ PakSortKey[q][2] = PakSortKey[p3][2]
        => PakSortKey[p3][3] < PakSortKey[q][3]
    <3>1. PakSortKey[q][1] = PakSortKey[p3][1] /\ PakSortKey[q][2] = PakSortKey[p3][2] => q \in S2
          BY <2>2
    <3>. QED BY <1>3, <1>4, <2>1, <3>1, KeyNumbers, KeysDiffer
  <2>. QED BY <2>1, <2>3, <2>4, <2>5, BelowForm, KeyNumbers
<1>. QED BY <1>4

LEMMA SortedExists ==
  ASSUME NEW S \in SUBSET Paks
  PROVE  \E s \in [1..Cardinality(S) -> S] : Sorted(s)
<1> DEFINE T == {n \in Nat : \E X \in SUBSET Paks : /\ Cardinality(X) = n
                                                    /\ ~\E s \in [1..n -> X] : Sorted(s)}
<1>0. \A X \in SUBSET Paks : IsFiniteSet(X) /\ Cardinality(X) \in Nat
      BY PaksAssumption, FS_Subset, FS_CardinalityType
<1>1. SUFFICES ASSUME T # {} PROVE FALSE
      BY <1>0
<1>2. PICK n \in T : \A y \in T : n <= y
      BY <1>1, LeastNumber
<1>3. PICK X \in SUBSET Paks : Cardinality(X) = n /\ ~\E s \in [1..n -> X] : Sorted(s)
      OBVIOUS
<1>4. n # 0
  <2>1. [i \in 1..0 |-> i] \in [1..0 -> X] /\ Sorted([i \in 1..0 |-> i])
        BY DEF Sorted
  <2>. QED BY <1>3, <2>1
<1>5. X # {}
      BY <1>3, <1>4, FS_EmptySet
<1>6. PICK p \in X : \A q \in X : p = q \/ Below(p, q)
      BY <1>5, LowestPak
<1> DEFINE Y == X \ {p}
<1>7. Y \in SUBSET Paks /\ Cardinality(Y) = n - 1 /\ n - 1 \in Nat
      BY <1>0, <1>3, <1>4, FS_RemoveElement
<1>8. n - 1 \notin T
      BY <1>2, <1>7
<1>9. PICK s \in [1..(n - 1) -> Y] : Sorted(s)
      BY <1>7, <1>8
<1> DEFINE t == [i \in 1..n |-> IF i = 1 THEN p ELSE s[i - 1]]
<1>10. \A i \in 2..n : i - 1 \in 1..(n - 1) /\ t[i] = s[i - 1] /\ t[i] \in Y
      BY <1>7
<1>11. t \in [1..n -> X]
      BY <1>10
<1>12. ASSUME NEW i \in 1..n, NEW j \in 1..n, i < j PROVE Below(t[i], t[j])
  <2>1. j \in 2..n
        BY <1>12
  <2>2. CASE i = 1
        BY <1>6, <1>10, <2>1, <2>2
  <2>3. CASE i # 1
    <3>1. i \in 2..n /\ i - 1 < j - 1
          BY <1>12, <2>3
    <3>. QED BY <1>9, <1>10, <2>1, <3>1 DEF Sorted
  <2>. QED BY <2>2, <2>3
<1>13. Sorted(t)
  <2>1. DOMAIN t = 1..n
        OBVIOUS
  <2> HIDE DEF t
  <2>. QED BY <1>12, <2>1 DEF Sorted
<1> HIDE DEF t
<1>. QED BY <1>3, <1>11, <1>13

\* listLayerPakFiles lists the PAKs of a layer, each once, in their order.
LEMMA ListFacts ==
  ASSUME NEW layer
  PROVE  /\ ListLayerPakFiles(layer) \in Seq(Paks)
         /\ Sorted(ListLayerPakFiles(layer))
         /\ ToSet(ListLayerPakFiles(layer)) = {p \in Paks : disk.pak[layer][p] # 0}
<1> DEFINE S == {p \in Paks : disk.pak[layer][p] # 0}
           n == Cardinality(S)
           s == ListLayerPakFiles(layer)
<1>1. S \in SUBSET Paks /\ IsFiniteSet(S) /\ n \in Nat
      BY PaksAssumption, FS_Subset, FS_CardinalityType
<1>2. s \in [1..n -> S] /\ Sorted(s)
  <2>1. s = CHOOSE u \in [1..n -> S] : Sorted(u)
        BY DEF ListLayerPakFiles, Sorted
  <2>2. \E u \in [1..n -> S] : Sorted(u)
        BY <1>1, SortedExists
  <2> HIDE DEF s, n, S
  <2>. QED BY <2>1, <2>2, Zenon
<1> HIDE DEF s
<1>3. \A i, j \in 1..n : s[i] = s[j] => i = j
  <2>1. \A i, j \in 1..n : i < j => s[i] # s[j]
    <3>1. \A i, j \in 1..n : i < j => Below(s[i], s[j])
          BY <1>2 DEF Sorted
    <3>2. \A i \in 1..n : s[i] \in Paks
          BY <1>1, <1>2
    <3>. QED BY <3>1, <3>2, BelowOrders
  <2>. QED BY <1>1, <2>1
<1>4. s \in Injection(1..n, S)
      BY <1>2, <1>3 DEF Injection, IsInjective
<1>5. Cardinality(1..n) = n
  <2>1. Cardinality(1..n) = IF 1 > n THEN 0 ELSE n - 1 + 1
        BY <1>1, FS_Interval
  <2>. QED BY <1>1, <2>1
<1>6. s \in Surjection(1..n, S)
      BY <1>1, <1>4, <1>5, FS_Injection
<1>7. \A p \in S : \E i \in 1..n : s[i] = p
      BY <1>6 DEF Surjection
<1>8. ToSet(s) = S
  <2>1. DOMAIN s = 1..n /\ \A i \in 1..n : s[i] \in S
        BY <1>2
  <2>. QED BY <1>7, <2>1 DEF ToSet
<1>9. s \in Seq(Paks)
  <2>1. s \in [1..n -> Paks]
        BY <1>1, <1>2
  <2> HIDE DEF n
  <2>. QED BY <1>1, <2>1
<1>. QED BY <1>2, <1>8, <1>9 DEF s

-----------------------------------------------------------------------------
(* Which backing overrides which *)

LEMMA LayerPlaces ==
  /\ LayerNames = {"common", "client"}
  /\ clientLayers[1] = "common" /\ clientLayers[2] = "client" /\ Len(clientLayers) = 2
  /\ Place(clientLayers, "common") = 1 /\ Place(clientLayers, "client") = 2
<1>1. DOMAIN clientLayers = 1..2 /\ Len(clientLayers) = 2
      BY DEF clientLayers
<1>2. clientLayers[1] = "common" /\ clientLayers[2] = "client"
      BY DEF clientLayers
<1>3. 1..2 = {1, 2}
      OBVIOUS
<1>4. LayerNames = {"common", "client"}
      BY <1>1, <1>2, <1>3 DEF LayerNames, ToSet
<1>5. \A i \in {1, 2} : (clientLayers[i] = "common" <=> i = 1) /\ (clientLayers[i] = "client" <=> i = 2)
      BY <1>2
<1>6. Place(clientLayers, "common") = 1 /\ Place(clientLayers, "client") = 2
      BY <1>1, <1>3, <1>5 DEF Place
<1>. QED BY <1>1, <1>2, <1>4, <1>6

LEMMA LoosePlaces ==
  /\ Len(LooseNames) \in Nat /\ DOMAIN LooseNames = 1..Len(LooseNames)
  /\ \A i \in DOMAIN LooseNames : /\ LooseNames[i] \in ToSet(LooseNames)
                                  /\ Place(LooseNames, LooseNames[i]) = i
  /\ \A n \in ToSet(LooseNames) : \E i \in DOMAIN LooseNames : n = LooseNames[i]
<1>1. \A i, j \in DOMAIN LooseNames : LooseNames[i] = LooseNames[j] => i = j
      BY LooseAssumption
<1>2. ASSUME NEW i \in DOMAIN LooseNames PROVE Place(LooseNames, LooseNames[i]) = i
      BY <1>1 DEF Place
<1>3. Len(LooseNames) \in Nat /\ DOMAIN LooseNames = 1..Len(LooseNames)
      BY LooseAssumption
<1>. QED BY <1>2, <1>3 DEF ToSet

\* A backing is of a loose file, or of an entry of a PAK.
Loose(b)  == b.layer \in LayerNames /\ b.version = 0 /\ b.file \in ToSet(LooseNames)
Packed(b) == b.layer \in LayerNames /\ b.version \in Nat \ {0} /\ b.file \in Paks

LEMMA InLayer ==
  ASSUME NEW d, NEW l
  PROVE  \A b : b \in LayerPart(d, l) <=>
                  b \in LoosePart(d, l) \/ \E p \in Paks : b \in PakPart(d, l, p)
<1>1. \A b : b \in UNION {PakPart(d, l, p) : p \in Paks} <=> \E p \in Paks : b \in PakPart(d, l, p)
      OBVIOUS
<1>. QED BY <1>1 DEF LayerPart

LEMMA Parts ==
  ASSUME NEW d \in Trees, NEW l \in LayerNames
  PROVE  /\ \A p \in Paks : \A b \in PakPart(d, l, p) :
              Packed(b) /\ b.layer = l /\ b.file = p
         /\ \A b \in LoosePart(d, l) : Loose(b) /\ b.layer = l
         /\ \A b \in LayerPart(d, l) : (Loose(b) \/ Packed(b)) /\ b.layer = l
<1>1. ASSUME NEW p \in Paks, NEW b \in PakPart(d, l, p)
      PROVE  Packed(b) /\ b.layer = l /\ b.file = p
  <2>1. d.pak[l][p] \in DOMAIN Entries \cup {0}
        BY DEF Trees
  <2>2. PICK n : b = Backing(l, p, d.pak[l][p], n) /\ d.pak[l][p] # 0
        BY DEF PakPart
  <2>. QED BY <2>1, <2>2, PaksAssumption DEF Backing, Packed
<1>2. ASSUME NEW b \in LoosePart(d, l) PROVE Loose(b) /\ b.layer = l
  <2>1. d.loose[l] \in SUBSET ToSet(LooseNames)
        BY DEF Trees
  <2>2. PICK n \in d.loose[l] : b = Backing(l, n, 0, n)
        BY DEF LoosePart
  <2>. QED BY <2>1, <2>2 DEF Backing, Loose
<1>3. \A b \in LayerPart(d, l) : b \in LoosePart(d, l) \/ \E p \in Paks : b \in PakPart(d, l, p)
      BY InLayer
<1>. QED BY <1>1, <1>2, <1>3, Zenon

\* The whole of a tree is its layers'.
LEMMA HeldParts ==
  ASSUME NEW d
  PROVE  Held(d) = LayerPart(d, "common") \cup LayerPart(d, "client")
<1> DEFINE P == UNION {PakPart(d, l, p) : l \in LayerNames, p \in Paks}
           L == UNION {LoosePart(d, l) : l \in LayerNames}
<1>1. Held(d) = P \cup L
      BY DEF Held, PakPart, LoosePart
<1>2. /\ \A b : b \in P <=> \E l \in LayerNames, p \in Paks : b \in PakPart(d, l, p)
      /\ \A b : b \in L <=> \E l \in LayerNames : b \in LoosePart(d, l)
      OBVIOUS
<1> HIDE DEF P, L
<1>4. \A b : b \in Held(d) <=> b \in LayerPart(d, "common") \/ b \in LayerPart(d, "client")
      BY <1>1, <1>2, InLayer, LayerPlaces
<1>. QED BY <1>4

\* Of two backings at most one overrides the other.
LEMMA OverridesOnce ==
  ASSUME NEW b, NEW c, Loose(b) \/ Packed(b), Loose(c) \/ Packed(c), Overrides(b, c)
  PROVE  ~Overrides(c, b)
<1>1. b.layer \in LayerNames /\ c.layer \in LayerNames
      BY DEF Loose, Packed
<1>2. CASE b.layer # c.layer
      BY <1>1, <1>2, LayerPlaces DEF Overrides
<1>3. CASE b.layer = c.layer /\ b.version = 0 /\ c.version = 0
  <2>1. Place(LooseNames, b.file) \in Nat /\ Place(LooseNames, c.file) \in Nat
        BY <1>3, LoosePlaces DEF Loose, Packed
  <2>. QED BY <1>3, <2>1 DEF Overrides
<1>4. CASE b.layer = c.layer /\ b.version # 0 /\ c.version # 0
      BY <1>4, BelowOrders DEF Overrides, Loose, Packed
<1>5. CASE b.layer = c.layer /\ ~(b.version = 0 <=> c.version = 0)
      BY <1>5 DEF Overrides
<1>. QED BY <1>2, <1>3, <1>4, <1>5

\* What a map shows is what a client should see.
LEMMA ShowsIsVFS ==
  ASSUME NEW d \in Trees, NEW m, Shows(m, Held(d))
  PROVE  m = VFS(d)
<1> DEFINE K == {Key(b) : b \in Held(d)}
           of(k) == {b \in Held(d) : Key(b) = k}
           best(k, b) == b \in of(k) /\ \A c \in of(k) : b = c \/ Overrides(b, c)
<1>1. VFS(d) = [k \in K |-> CHOOSE b \in of(k) : \A c \in of(k) : b = c \/ Overrides(b, c)]
      BY DEF VFS, Key
<1>2. \A b \in Held(d) : Loose(b) \/ Packed(b)
      BY HeldParts, Parts, LayerPlaces
<1>3. ASSUME NEW k \in K PROVE m[k] = CHOOSE b \in of(k) : \A c \in of(k) : b = c \/ Overrides(b, c)
  <2>1. m[k] \in of(k) /\ \A c \in of(k) : m[k] = c \/ Overrides(m[k], c)
        BY DEF Shows
  <2>2. ASSUME NEW b \in of(k), \A c \in of(k) : b = c \/ Overrides(b, c) PROVE b = m[k]
        BY <1>2, <2>1, <2>2, OverridesOnce
  <2> HIDE DEF of
  <2>. QED BY <2>1, <2>2
<1>4. m = [k \in K |-> m[k]]
      BY DEF Shows
<1> HIDE DEF K, of
<1>. QED BY <1>1, <1>3, <1>4

\* Laying f over m: right, where all that f is made from overrides what m is.
LEMMA ShowsOver ==
  ASSUME NEW m, NEW f, NEW H, NEW N, Shows(m, H), Shows(f, N),
         \A b \in N, c \in H : Overrides(b, c)
  PROVE  Shows(Assigned(m, f), H \cup N)
<1> DEFINE KH == {Key(b) : b \in H}
           KN == {Key(b) : b \in N}
           K == {Key(b) : b \in H \cup N}
           g == Assigned(m, f)
<1>1. DOMAIN m = KH /\ DOMAIN f = KN /\ K = KN \cup KH
  <2>1. m = [k \in KH |-> m[k]] /\ f = [k \in KN |-> f[k]]
        BY DEF Shows
  <2>. QED BY <2>1
<1>2. g = [k \in K |-> IF k \in KN THEN f[k] ELSE m[k]]
  <2> HIDE DEF KH, KN, K
  <2>. QED BY <1>1 DEF Assigned
<1>3. g = [k \in K |-> g[k]] /\ \A k \in K : g[k] = IF k \in KN THEN f[k] ELSE m[k]
  <2> HIDE DEF g, K, KN
  <2>. QED BY <1>2
<1> HIDE DEF g
<1>4. ASSUME NEW k \in K
      PROVE  g[k] \in H \cup N /\ Key(g[k]) = k
             /\ \A c \in H \cup N : Key(c) = k => g[k] = c \/ Overrides(g[k], c)
  <2>1. CASE k \in KN
    <3>1. f[k] \in N /\ Key(f[k]) = k /\ \A c \in N : Key(c) = k => f[k] = c \/ Overrides(f[k], c)
          BY <2>1 DEF Shows
    <3>. QED BY <1>3, <2>1, <3>1
  <2>2. CASE k \notin KN
    <3>1. k \in KH /\ \A c \in H \cup N : Key(c) = k => c \in H
          BY <2>2
    <3>2. m[k] \in H /\ Key(m[k]) = k /\ \A c \in H : Key(c) = k => m[k] = c \/ Overrides(m[k], c)
          BY <3>1 DEF Shows
    <3>. QED BY <1>3, <2>2, <3>1, <3>2
  <2>. QED BY <2>1, <2>2
<1>. QED BY <1>3, <1>4 DEF g, Shows

\* explodePakIntoManifest, where it is right.
LEMMA ExplodeShows ==
  ASSUME NEW byKey, NEW H, Shows(byKey, H), NEW l, NEW p, NEW v \in DOMAIN Entries,
         Entries[v] # Malformed,
         \A n \in Entries[v], c \in H : Overrides(Backing(l, p, v, n), c)
  PROVE  \A M : (\A b : b \in M <=> \E n \in Entries[v] : b = Backing(l, p, v, n)) =>
                Shows(Explode(byKey, l, p, v), H \cup M)
<1> DEFINE named(k) == CHOOSE n \in Entries[v] : NormalizeVFSKey[n] = k
           N == {Backing(l, p, v, n) : n \in Entries[v]}
           K == {NormalizeVFSKey[n] : n \in Entries[v]}
           f == [k \in K |-> Backing(l, p, v, named(k))]
<1>1. Explode(byKey, l, p, v) = Assigned(byKey, f)
      BY DEF Explode
<1>2. \A n \in Entries[v] : Key(Backing(l, p, v, n)) = NormalizeVFSKey[n]
      BY DEF Key, Backing
<1>3. {Key(b) : b \in N} = K
      BY <1>2
<1>4. \A n \in Entries[v] : named(NormalizeVFSKey[n]) = n
      BY PaksAssumption
<1>5. Shows(f, N)
  <2>1. ASSUME NEW k \in K
        PROVE  f[k] \in N /\ Key(f[k]) = k /\ \A c \in N : Key(c) = k => f[k] = c
    <3>1. PICK n \in Entries[v] : NormalizeVFSKey[n] = k
          OBVIOUS
    <3>2. f[k] = Backing(l, p, v, n)
          BY <1>4, <3>1
    <3>3. ASSUME NEW c \in N, Key(c) = k PROVE f[k] = c
      <4>1. PICK o \in Entries[v] : c = Backing(l, p, v, o)
            OBVIOUS
      <4>2. NormalizeVFSKey[o] = NormalizeVFSKey[n]
            BY <1>2, <3>1, <3>3, <4>1
      <4>3. o = n
            BY <4>2, PaksAssumption
      <4>. QED BY <3>2, <4>1, <4>3
    <3> HIDE DEF f
    <3>. QED BY <1>2, <3>1, <3>2, <3>3
  <2>2. f = [k \in K |-> f[k]]
        OBVIOUS
  <2> HIDE DEF f, N, K
  <2>. QED BY <1>3, <2>1, <2>2 DEF Shows
<1>6. \A b \in N, c \in H : Overrides(b, c)
      OBVIOUS
<1>7. ASSUME NEW M, \A b : b \in M <=> \E n \in Entries[v] : b = Backing(l, p, v, n) PROVE M = N
      BY <1>7
<1> HIDE DEF f, N, K
<1>8. Shows(Assigned(byKey, f), H \cup N)
      BY <1>5, <1>6, ShowsOver
<1>. QED BY <1>1, <1>7, <1>8

-----------------------------------------------------------------------------
(* The walk of the loose files *)

\* The walk, up to the mth name.
Course(f, m, byKey, layer, loose) ==
  f = [i \in 0..m |->
         IF i = 0 THEN byKey
         ELSE IF LooseNames[i] \in loose THEN Lists(f[i - 1], layer, LooseNames[i])
         ELSE f[i - 1]]

LEMMA CourseExists ==
  ASSUME NEW byKey, NEW layer, NEW loose, NEW k \in Nat
  PROVE  \E f : Course(f, k, byKey, layer, loose)
<1> DEFINE T == {m \in Nat : ~\E f : Course(f, m, byKey, layer, loose)}
<1>1. SUFFICES ASSUME T # {} PROVE FALSE
      OBVIOUS
<1>2. PICK m \in T : \A y \in T : m <= y
      BY <1>1, LeastNumber
<1>3. m # 0
  <2>1. Course([n \in 0..0 |-> byKey], 0, byKey, layer, loose)
        BY DEF Course
  <2>. QED BY <2>1
<1>4. m - 1 \in Nat /\ m - 1 \notin T
      BY <1>2, <1>3
<1>5. PICK g : Course(g, m - 1, byKey, layer, loose)
      BY <1>4
<1> DEFINE turn(f, n) == IF LooseNames[n] \in loose THEN Lists(f[n - 1], layer, LooseNames[n])
                         ELSE f[n - 1]
           h == [n \in 0..m |-> IF n = m THEN turn(g, m) ELSE g[n]]
<1>6. ASSUME NEW n \in 0..m PROVE h[n] = IF n = 0 THEN byKey ELSE turn(h, n)
  <2>1. CASE n = m
    <3>1. h[n] = turn(g, m) /\ h[n - 1] = g[m - 1]
          BY <1>3, <2>1
    <3>. QED BY <1>3, <2>1, <3>1
  <2>2. CASE n # m /\ n # 0
    <3>1. n \in 0..(m - 1) /\ n - 1 \in 0..m /\ n - 1 # m
          BY <2>2
    <3>2. h[n] = g[n] /\ h[n - 1] = g[n - 1]
          BY <2>2, <3>1
    <3>3. g[n] = turn(g, n)
          BY <1>5, <2>2, <3>1 DEF Course
    <3>. QED BY <2>2, <3>2, <3>3
  <2>3. CASE n # m /\ n = 0
    <3>1. h[n] = g[n] /\ n \in 0..(m - 1)
          BY <2>3
    <3>. QED BY <1>5, <2>3, <3>1 DEF Course
  <2>. QED BY <2>1, <2>2, <2>3
<1>7. Course(h, m, byKey, layer, loose)
  <2>1. h = [n \in 0..m |-> h[n]]
        OBVIOUS
  <2> HIDE DEF h
  <2>. QED BY <1>6, <2>1 DEF Course
<1>. QED BY <1>7

\* One loose file, where it overrides all there is.
LEMMA ListsShows ==
  ASSUME NEW byKey, NEW H, Shows(byKey, H), NEW l, NEW n,
         \A c \in H : Overrides(Backing(l, n, 0, n), c)
  PROVE  Shows(Lists(byKey, l, n), H \cup {Backing(l, n, 0, n)})
<1> DEFINE b == Backing(l, n, 0, n)
           f == [k \in {NormalizeVFSKey[n]} |-> b]
<1>1. Key(b) = NormalizeVFSKey[n]
      BY DEF Key, Backing
<1> HIDE DEF b
<1>2. Shows(f, {b})
      BY <1>1 DEF Shows
<1>3. \A a \in {b}, c \in H : Overrides(a, c)
      BY DEF b
<1>4. Lists(byKey, l, n) = Assigned(byKey, f)
      BY DEF Lists, b
<1> HIDE DEF f
<1>. QED BY <1>2, <1>3, <1>4, ShowsOver DEF b

LEMMA OverlayShows ==
  ASSUME NEW byKey, NEW H, Shows(byKey, H), NEW l \in LayerNames,
         NEW loose \in SUBSET ToSet(LooseNames),
         \A n \in loose, c \in H : Overrides(Backing(l, n, 0, n), c)
  PROVE  Shows(Overlay(byKey, l, loose), H \cup {Backing(l, n, 0, n) : n \in loose})
<1> DEFINE K == Len(LooseNames)
           met(i) == {n \in loose : \E j \in 1..i : n = LooseNames[j]}
           N(i) == {Backing(l, n, 0, n) : n \in met(i)}
<1>1. K \in Nat /\ DOMAIN LooseNames = 1..K
      BY LoosePlaces
<1>2. PICK f : Course(f, K, byKey, l, loose) /\ Overlay(byKey, l, loose) = f[K]
  <2>1. \E f : Course(f, K, byKey, l, loose)
        BY <1>1, CourseExists
  <2>2. Course(CHOOSE f : Course(f, K, byKey, l, loose), K, byKey, l, loose)
        BY <2>1
  <2>3. Overlay(byKey, l, loose) = (CHOOSE f : Course(f, K, byKey, l, loose))[K]
        BY Zenon DEF Overlay, Course
  <2>. QED BY <2>2, <2>3
<1> HIDE DEF K
<1>3. /\ f[0] = byKey
      /\ \A i \in 1..K : f[i] = IF LooseNames[i] \in loose THEN Lists(f[i - 1], l, LooseNames[i])
                                ELSE f[i - 1]
  <2> DEFINE e(i) == IF i = 0 THEN byKey
                     ELSE IF LooseNames[i] \in loose THEN Lists(f[i - 1], l, LooseNames[i])
                     ELSE f[i - 1]
  <2>1. f = [i \in 0..K |-> e(i)]
        BY <1>2 DEF Course
  <2> HIDE DEF e
  <2>2. \A i \in 0..K : f[i] = e(i)
        BY <2>1
  <2>. QED BY <1>1, <2>2 DEF e
<1> DEFINE A(i) == Shows(f[i], H \cup N(i))
           T == {i \in 0..K : ~A(i)}
<1>4. T = {}
  <2>1. SUFFICES ASSUME T # {} PROVE FALSE
        OBVIOUS
  <2>2. PICK i \in T : \A y \in T : i <= y
    <3>1. T \subseteq Nat
          BY <1>1
    <3> HIDE DEF T
    <3>. QED BY <2>1, <3>1, LeastNumber
  <2>3. i # 0
    <3>1. N(0) = {}
          OBVIOUS
    <3>2. H \cup N(0) = H
          BY <3>1
    <3>. QED BY <1>3, <3>2
  <2>4. i \in 1..K /\ i - 1 \in 0..K /\ i - 1 \notin T
    <3> HIDE DEF A
    <3>. QED BY <1>1, <2>2, <2>3
  <2>5. Shows(f[i - 1], H \cup N(i - 1))
        BY <2>4
  <2> DEFINE n == LooseNames[i]
  <2>6. \A x : x \in met(i) <=> x \in met(i - 1) \/ (x = n /\ n \in loose)
    <3>1. \A j \in 1..i : j \in 1..(i - 1) \/ j = i
          BY <2>4
    <3>2. \A j \in 1..(i - 1) : j \in 1..i
          BY <2>4
    <3>3. i \in 1..i
          BY <2>4
    <3>. QED BY <3>1, <3>2, <3>3
  <2>7. CASE n \notin loose
    <3>1. met(i) = met(i - 1)
          BY <2>6, <2>7
    <3>2. f[i] = f[i - 1]
          BY <1>3, <2>4, <2>7
    <3>. QED BY <2>5, <3>1, <3>2
  <2>8. CASE n \in loose
    <3>1. ASSUME NEW c \in H \cup N(i - 1) PROVE Overrides(Backing(l, n, 0, n), c)
      <4>1. CASE c \in H
            BY <2>8, <4>1
      <4>2. CASE c \in N(i - 1)
        <5>1. PICK j \in 1..(i - 1) : c = Backing(l, LooseNames[j], 0, LooseNames[j])
              BY <4>2
        <5>2. /\ j \in DOMAIN LooseNames /\ i \in DOMAIN LooseNames /\ j < i
              BY <1>1, <2>4
        <5>3. Place(LooseNames, n) > Place(LooseNames, LooseNames[j])
              BY <5>2, LoosePlaces
        <5>. QED BY <5>1, <5>3 DEF Overrides, Backing
      <4>. QED BY <4>1, <4>2
    <3>2. Shows(Lists(f[i - 1], l, n), (H \cup N(i - 1)) \cup {Backing(l, n, 0, n)})
      <4> HIDE DEF N, n
      <4>. QED BY <2>5, <3>1, ListsShows
    <3>3. f[i] = Lists(f[i - 1], l, n)
          BY <1>3, <2>4, <2>8
    <3>4. N(i) = N(i - 1) \cup {Backing(l, n, 0, n)}
      <4> HIDE DEF met, n
      <4>. QED BY <2>6, <2>8
    <3>5. H \cup N(i) = (H \cup N(i - 1)) \cup {Backing(l, n, 0, n)}
      <4> HIDE DEF N, n
      <4>. QED BY <3>4
    <3>. QED BY <3>2, <3>3, <3>5
  <2>. QED BY <2>7, <2>8
<1>5. met(K) = loose
      BY <1>1, LoosePlaces
<1>6. A(K)
  <2> HIDE DEF A
  <2>. QED BY <1>1, <1>4
<1>. QED BY <1>2, <1>5, <1>6

-----------------------------------------------------------------------------
(* The steps of a scan of a tree that stays the same *)

LEMMA HeadAndTail ==
  ASSUME NEW R, NEW s \in Seq(R), s # <<>>
  PROVE  /\ Head(s) \in R /\ Head(s) = s[1] /\ 1 \in DOMAIN s
         /\ Tail(s) \in Seq(R) /\ ToSet(s) = {Head(s)} \cup ToSet(Tail(s))
         /\ \A i \in DOMAIN Tail(s) : i + 1 \in DOMAIN s /\ i \in Nat \ {0} /\ Tail(s)[i] = s[i + 1]
<1>1. /\ Head(s) \in R /\ Tail(s) \in Seq(R) /\ Head(s) = s[1]
      /\ Len(s) \in Nat \ {0} /\ DOMAIN s = 1..Len(s)
      /\ DOMAIN Tail(s) = 1..(Len(s) - 1) /\ \A i \in 1..(Len(s) - 1) : Tail(s)[i] = s[i + 1]
      OBVIOUS
<1>2. \A i \in DOMAIN s : i = 1 \/ (i - 1 \in DOMAIN Tail(s) /\ s[i] = Tail(s)[i - 1])
      BY <1>1
<1>3. \A i \in DOMAIN Tail(s) : i + 1 \in DOMAIN s /\ i \in Nat \ {0} /\ Tail(s)[i] = s[i + 1]
      BY <1>1
<1>4. 1 \in DOMAIN s
      BY <1>1
<1>5. ToSet(s) = {Head(s)} \cup ToSet(Tail(s))
  <2>1. \A x \in ToSet(s) : x = Head(s) \/ x \in ToSet(Tail(s))
    <3>1. \A i \in DOMAIN s : s[i] = Head(s) \/ \E j \in DOMAIN Tail(s) : s[i] = Tail(s)[j]
          BY <1>1, <1>2
    <3>. QED BY <3>1, Zenon DEF ToSet
  <2>2. Head(s) \in ToSet(s) /\ \A x \in ToSet(Tail(s)) : x \in ToSet(s)
        BY <1>1, <1>3, <1>4 DEF ToSet
  <2>. QED BY <2>1, <2>2
<1>. QED BY <1>1, <1>3, <1>4, <1>5

\* What is visited is of an earlier layer, or of a PAK of this one.
LEMMA InVisited ==
  ASSUME NEW d, NEW at, NEW s, s.layer \in {1, 2}
  PROVE  /\ clientLayers[s.layer] \in LayerNames
         /\ \A b : b \in Visited(d, at, s) <=>
              \/ s.layer = 2 /\ b \in LayerPart(d, "common")
              \/ \E p \in PaksSeen(at, s) : b \in PakPart(d, clientLayers[s.layer], p)
<1> DEFINE l == clientLayers[s.layer]
           E == UNION {LayerPart(d, clientLayers[j]) : j \in 1..(s.layer - 1)}
           P == UNION {PakPart(d, l, p) : p \in PaksSeen(at, s)}
<1>1. Visited(d, at, s) = E \cup P
      BY DEF Visited, Earlier
<1>2. \A b : b \in P <=> \E p \in PaksSeen(at, s) : b \in PakPart(d, l, p)
      OBVIOUS
<1>3. \A b : b \in E <=> s.layer = 2 /\ b \in LayerPart(d, "common")
  <2>1. CASE s.layer = 1
    <3>1. 1..(s.layer - 1) = {}
          BY <2>1
    <3>. QED BY <2>1, <3>1
  <2>2. CASE s.layer = 2
    <3>1. 1..(s.layer - 1) = {1}
          BY <2>2
    <3>2. E = LayerPart(d, clientLayers[1])
          BY <3>1
    <3>. QED BY <2>2, <3>2, LayerPlaces
  <2>. QED BY <2>1, <2>2
<1>4. l \in LayerNames
      BY LayerPlaces
<1> HIDE DEF E, P
<1>. QED BY <1>1, <1>2, <1>3, <1>4

\* A PAK of this layer above all that were seen, or a loose file of it, overrides
\* what is visited.
LEMMA VisitedIsOverridden ==
  ASSUME NEW d \in Trees, NEW at, NEW s, s.layer \in {1, 2}, NEW b,
         b.layer = clientLayers[s.layer],
         \/ b.version = 0
         \/ b.version # 0 /\ \A p \in PaksSeen(at, s) :
                               d.pak[clientLayers[s.layer]][p] # 0 => Below(p, b.file)
  PROVE  \A c \in Visited(d, at, s) : Overrides(b, c)
<1> DEFINE l == clientLayers[s.layer]
<1> SUFFICES ASSUME NEW c \in Visited(d, at, s) PROVE Overrides(b, c)
    OBVIOUS
<1>0. l \in LayerNames /\ PaksSeen(at, s) \subseteq Paks
      BY InVisited DEF PaksSeen
<1>1. CASE s.layer = 2 /\ c \in LayerPart(d, "common")
  <2>1. c.layer = "common" /\ b.layer = "client"
        BY <1>1, Parts, LayerPlaces
  <2>. QED BY <2>1, LayerPlaces DEF Overrides
<1>2. ASSUME NEW p \in PaksSeen(at, s), c \in PakPart(d, l, p) PROVE Overrides(b, c)
  <2>1. c.layer = l /\ c.file = p /\ c.version # 0
        BY <1>0, <1>2, Parts DEF Packed
  <2>2. d.pak[l][p] # 0
        BY <1>2 DEF PakPart
  <2>. QED BY <2>1, <2>2 DEF Overrides
<1>. QED BY <1>1, <1>2, InVisited

\* On to the next PAK, with what this one holds.
LEMMA NextPakAccurate ==
  ASSUME NEW d \in Trees, NEW at \in AtPak, NEW s, ScanRecord(s), s.todo # <<>>, Ahead(d, at, s),
         NEW byKey,
         Shows(byKey, Visited(d, at, s) \cup PakPart(d, clientLayers[s.layer], Head(s.todo))),
         NEW t, ScanRecord(t), t.layer = s.layer, t.todo = Tail(s.todo), t.byKey = byKey
  PROVE  Accurate(d, IF Tail(s.todo) = <<>> THEN "walk" ELSE "stat", t)
<1> DEFINE to == IF Tail(s.todo) = <<>> THEN "walk" ELSE "stat"
           l  == clientLayers[s.layer]
           p  == Head(s.todo)
<1>0. s.todo \in Seq(Paks) /\ s.layer \in {1, 2}
      BY DEF ScanRecord
<1>1. /\ p \in Paks /\ p = s.todo[1] /\ 1 \in DOMAIN s.todo
      /\ ToSet(s.todo) = {p} \cup ToSet(t.todo)
      /\ \A i \in DOMAIN t.todo : i + 1 \in DOMAIN s.todo /\ i \in Nat \ {0} /\ t.todo[i] = s.todo[i + 1]
      BY <1>0, HeadAndTail
<1>2. \A i \in DOMAIN t.todo : Below(p, t.todo[i]) /\ t.todo[i] \in Paks
  <2>1. \A i \in DOMAIN t.todo : 1 < i + 1 /\ t.todo[i] = s.todo[i + 1] /\ s.todo[i + 1] \in Paks
        BY <1>0, <1>1
  <2>. QED BY <1>1, <2>1 DEF Ahead, Sorted
<1>3. p \notin ToSet(t.todo)
      BY <1>1, <1>2, BelowOrders DEF ToSet
<1>4. at # "list" /\ to # "list" /\ to \in Scanning /\ to \notin Labelled
      BY DEF AtPak, Scanning, Labelled
<1>5. PaksSeen(to, t) = PaksSeen(at, s) \cup {p}
      BY <1>1, <1>3, <1>4 DEF PaksSeen
<1>6. Visited(d, to, t) = Visited(d, at, s) \cup PakPart(d, l, p)
  <2>1. \A b : b \in Visited(d, to, t) <=> b \in Visited(d, at, s) \/ b \in PakPart(d, l, p)
    <3>1. \A b : b \in Visited(d, at, s) <=>
              \/ s.layer = 2 /\ b \in LayerPart(d, "common")
              \/ \E q \in PaksSeen(at, s) : b \in PakPart(d, l, q)
          BY <1>0, InVisited
    <3>2. t.layer \in {1, 2} /\ clientLayers[t.layer] = l
          BY <1>0
    <3> HIDE DEF to, l, p
    <3>3. \A b : b \in Visited(d, to, t) <=>
              \/ t.layer = 2 /\ b \in LayerPart(d, "common")
              \/ \E q \in PaksSeen(to, t) : b \in PakPart(d, clientLayers[t.layer], q)
          BY <3>2, InVisited
    <3>4. \A q : q \in PaksSeen(to, t) <=> q \in PaksSeen(at, s) \/ q = p
          BY <1>5
    <3>. QED BY <3>1, <3>2, <3>3, <3>4, Zenon
  <2>. QED BY <2>1
<1>7. Ahead(d, to, t)
  <2>1. Sorted(t.todo)
    <3> SUFFICES ASSUME NEW i \in DOMAIN t.todo, NEW j \in DOMAIN t.todo, i < j
                 PROVE  Below(t.todo[i], t.todo[j])
        BY DEF Sorted
    <3>1. i + 1 < j + 1
          BY <1>1
    <3>. QED BY <1>1, <3>1 DEF Ahead, Sorted
  <2>2. ASSUME NEW i \in DOMAIN t.todo
        PROVE  /\ d.pak[l][t.todo[i]] # 0
               /\ \A q \in PaksSeen(to, t) : d.pak[l][q] # 0 => Below(q, t.todo[i])
        BY <1>1, <1>2, <1>5 DEF Ahead
  <2>. QED BY <2>1, <2>2 DEF Ahead
<1>8. to = "walk" => t.todo = <<>>
      OBVIOUS
<1>9. to \notin {"back", "built", "stamped", "done"}
      OBVIOUS
<1> HIDE DEF to
<1>10. Accurate(d, to, t)
      BY <1>4, <1>6, <1>7, <1>8, <1>9 DEF Accurate
<1>. QED BY <1>10 DEF to

\* The list of a layer's PAKs, before any of them is read.
LEMMA ScanPaksAccurate ==
  ASSUME disk \in Trees, NEW s, ScanRecord(s), Accurate(disk, "list", s),
         NEW t, ScanRecord(t), t.layer = s.layer, t.byKey = s.byKey,
         t.todo = ListLayerPakFiles(clientLayers[s.layer])
  PROVE  Accurate(disk, IF t.todo = <<>> THEN "walk" ELSE "stat", t)
<1> DEFINE to == IF t.todo = <<>> THEN "walk" ELSE "stat"
           l  == clientLayers[s.layer]
<1>1. Sorted(t.todo) /\ ToSet(t.todo) = {p \in Paks : disk.pak[l][p] # 0}
      BY ListFacts
<1>2. to # "list" /\ to \in Scanning /\ to \notin Labelled /\ "list" \in Scanning
      BY DEF Scanning, Labelled
<1>3. \A p \in PaksSeen(to, t) : p \in Paks /\ disk.pak[l][p] = 0
      BY <1>1, <1>2 DEF PaksSeen
<1>4. \A p \in PaksSeen(to, t) : PakPart(disk, l, p) = {}
      BY <1>3 DEF PakPart
<1>5. PaksSeen("list", s) = {}
      BY DEF PaksSeen
<1>6. Visited(disk, to, t) = Visited(disk, "list", s)
  <2>1. \A b : b \in Visited(disk, to, t) <=> b \in Visited(disk, "list", s)
        BY <1>4, <1>5, InVisited DEF ScanRecord
  <2>. QED BY <2>1
<1>7. \A i \in DOMAIN t.todo : disk.pak[l][t.todo[i]] # 0
      BY <1>1 DEF ToSet
<1>8. Ahead(disk, to, t)
      BY <1>1, <1>3, <1>7 DEF Ahead
<1>9. (to = "walk" => t.todo = <<>>) /\ to \notin {"back", "built", "stamped", "done"}
      OBVIOUS
<1> HIDE DEF to
<1>10. Accurate(disk, to, t)
      BY <1>2, <1>6, <1>8, <1>9 DEF Accurate
<1>. QED BY <1>10 DEF to

\* A PAK whose index is what the file holds.
LEMMA ExplodeAccurate ==
  ASSUME NEW d \in Trees, NEW at \in AtPak, NEW s, ScanRecord(s), s.todo # <<>>,
         Accurate(d, at, s), NEW v \in DOMAIN Entries, Entries[v] # Malformed,
         v = d.pak[clientLayers[s.layer]][Head(s.todo)]
  PROVE  LET l == clientLayers[s.layer]
             p == Head(s.todo)
         IN Shows(Explode(s.byKey, l, p, v), Visited(d, at, s) \cup PakPart(d, l, p))
<1> DEFINE l == clientLayers[s.layer]
           p == Head(s.todo)
<1>0. s.todo \in Seq(Paks) /\ s.layer \in {1, 2} /\ v # 0
      BY PaksAssumption DEF ScanRecord
<1>1. Shows(s.byKey, Visited(d, at, s)) /\ Ahead(d, at, s)
      BY DEF Accurate, AtPak, Scanning
<1>2. p = s.todo[1] /\ 1 \in DOMAIN s.todo
      BY <1>0, HeadAndTail
<1>3. \A q \in PaksSeen(at, s) : d.pak[l][q] # 0 => Below(q, p)
      BY <1>1, <1>2 DEF Ahead
<1>4. ASSUME NEW n \in Entries[v] PROVE \A c \in Visited(d, at, s) : Overrides(Backing(l, p, v, n), c)
  <2> DEFINE b == Backing(l, p, v, n)
  <2>1. b.layer = l /\ b.version = v /\ b.file = p
        BY DEF Backing
  <2> HIDE DEF b
  <2>2. /\ b.layer = clientLayers[s.layer] /\ b.version # 0
        /\ \A q \in PaksSeen(at, s) : d.pak[clientLayers[s.layer]][q] # 0 => Below(q, b.file)
        BY <1>0, <1>3, <2>1
  <2>3. \A c \in Visited(d, at, s) : Overrides(b, c)
        BY ONLY d \in Trees, <1>0, <2>2, VisitedIsOverridden
  <2>. QED BY <2>3 DEF b
<1>5. PakPart(d, l, p) = {Backing(l, p, v, n) : n \in Entries[v]}
      BY <1>0 DEF PakPart
<1>6. \A n \in Entries[v], c \in Visited(d, at, s) : Overrides(Backing(l, p, v, n), c)
      BY <1>4, Zenon
<1>7. \A b : b \in PakPart(d, l, p) <=> \E n \in Entries[v] : b = Backing(l, p, v, n)
      BY <1>5, Zenon
<1> HIDE DEF l, p
<1>8. Shows(Explode(s.byKey, l, p, v), Visited(d, at, s) \cup PakPart(d, l, p))
      BY <1>1, <1>6, <1>7, ExplodeShows
<1>. QED BY <1>8 DEF l, p

\* The walk of the loose files, the last of a layer.
LEMMA WalkAccurate ==
  ASSUME NEW d \in Trees, NEW s, ScanRecord(s), Accurate(d, "walk", s),
         NEW t, ScanRecord(t), t.todo = <<>>, s.layer = 1 => t.layer = 2,
         t.byKey = Overlay(s.byKey, clientLayers[s.layer], d.loose[clientLayers[s.layer]])
  PROVE  Accurate(d, IF s.layer = 2 THEN "back" ELSE "list", t)
<1> DEFINE l == clientLayers[s.layer]
           H == Visited(d, "walk", s)
<1>0. s.layer \in {1, 2} /\ s.todo = <<>> /\ l \in LayerNames
      BY InVisited DEF ScanRecord, Accurate
<1>1. Shows(s.byKey, H)
      BY DEF Accurate, Scanning
<1>2. d.loose[l] \in SUBSET ToSet(LooseNames)
      BY <1>0 DEF Trees
<1>3. ASSUME NEW n \in d.loose[l] PROVE \A c \in H : Overrides(Backing(l, n, 0, n), c)
  <2> DEFINE b == Backing(l, n, 0, n)
  <2>1. b.layer = l /\ b.version = 0
        BY DEF Backing
  <2> HIDE DEF b
  <2>2. \A c \in H : Overrides(b, c)
        BY <1>0, <2>1, VisitedIsOverridden
  <2>. QED BY <2>2 DEF b
<1>4. Shows(t.byKey, H \cup LoosePart(d, l))
  <2> HIDE DEF H
  <2>. QED BY <1>0, <1>1, <1>2, <1>3, OverlayShows DEF LoosePart
<1>5. PaksSeen("walk", s) = Paks
  <2>1. ToSet(<<>>) = {}
        BY DEF ToSet
  <2>. QED BY <1>0, <2>1 DEF PaksSeen
<1>6. \A b : b \in H \cup LoosePart(d, l) <=>
         (s.layer = 2 /\ b \in LayerPart(d, "common")) \/ b \in LayerPart(d, l)
      BY <1>0, <1>5, InVisited, InLayer
<1> HIDE DEF H
<1>7. CASE s.layer = 2
  <2>1. H \cup LoosePart(d, l) = Held(d)
    <3>1. \A b : b \in H \cup LoosePart(d, l) <=> b \in Held(d)
          BY <1>6, <1>7, HeldParts, LayerPlaces
    <3>. QED BY <3>1
  <2>. QED BY <1>4, <1>7, <2>1 DEF Accurate, Scanning, Labelled
<1>8. CASE s.layer = 1
  <2>1. PaksSeen("list", t) = {}
        BY DEF PaksSeen
  <2>2. \A b : b \in Visited(d, "list", t) <=> b \in LayerPart(d, "common")
        BY <1>8, <2>1, InVisited
  <2>3. H \cup LoosePart(d, l) = Visited(d, "list", t)
    <3>1. \A b : b \in H \cup LoosePart(d, l) <=> b \in Visited(d, "list", t)
          BY <1>6, <1>8, <2>2, LayerPlaces
    <3>. QED BY <3>1
  <2>4. Shows(t.byKey, Visited(d, "list", t))
        BY <1>4, <2>3
  <2>5. Accurate(d, "list", t)
        BY <2>4 DEF Accurate, Labelled
  <2>. QED BY <1>8, <2>5
<1>. QED BY <1>0, <1>7, <1>8

-----------------------------------------------------------------------------
(* Each step keeps the invariant *)

\* A step of one request, to another point and with another scan, leaves the rest
\* as it is.
LEMMA OneScans ==
  ASSUME ListInv, NEW r \in Refs, NEW to \in Points, NEW s, ScanRecord(s),
         to \in AtPak => s.todo # <<>>, Filed(to, s),
         issue' = [issue EXCEPT ![r] = to], scan' = [scan EXCEPT ![r] = s],
         UNCHANGED <<load, disk, changes>>, steady' \subseteq steady \cup {r},
         DOMAIN cache' = LayerNames \X Paks,
         \A l \in LayerNames, p \in Paks : cache'[<<l, p>>].label # 0 =>
           Indexed(l, p, cache'[<<l, p>>].label, cache'[<<l, p>>].version),
         r \in steady' => Accurate(disk, to, s)
  PROVE  ListInv'
<1>1. /\ \A q \in Refs : issue'[q] = IF q = r THEN to ELSE issue[q]
      /\ \A q \in Refs : scan'[q] = IF q = r THEN s ELSE scan[q]
      /\ issue' \in [Refs -> Points] /\ scan' = [q \in Refs |-> scan'[q]]
  <2>1. issue \in [Refs -> Points] /\ scan = [q \in Refs |-> scan[q]]
        BY DEF ListInv, FSType
  <2>. QED BY <2>1
<1>2. FSType'
  <2>1. \A q \in Refs : ScanRecord(scan'[q]) /\ (issue'[q] \in AtPak => scan'[q].todo # <<>>)
        BY <1>1 DEF ListInv, FSType
  <2>2. load' \in Loads /\ changes' \in Nat /\ disk' \in Trees /\ steady' \subseteq Refs
        BY DEF ListInv, FSType
  <2>. QED BY <1>1, <2>1, <2>2 DEF FSType
<1>3. CacheInv'
  <2>1. /\ \A v : Known(v)' <=> Known(v)
        /\ \A l, p, a, v : Indexed(l, p, a, v)' <=> Indexed(l, p, a, v)
        BY DEF Known, Indexed
  <2>2. \A at, x : Filed(at, x)' <=> Filed(at, x)
        BY <2>1 DEF Filed
  <2>3. \A q \in Refs : Filed(issue'[q], scan'[q])
        BY <1>1 DEF ListInv, CacheInv
  <2>4. \A l \in LayerNames, p \in Paks : disk.pak[l][p] # 0 => Known(disk.pak[l][p])
        BY DEF ListInv, CacheInv
  <2>. QED BY <2>1, <2>2, <2>3, <2>4 DEF CacheInv
<1>4. SteadyInv'
  <2>1. \A q \in steady' : Accurate(disk, issue'[q], scan'[q])
        BY <1>1 DEF ListInv, SteadyInv, FSType
  <2>. QED BY <2>1 DEF SteadyInv
<1>. QED BY <1>2, <1>3, <1>4 DEF ListInv

\* The same, for a step that leaves the cache alone too.
LEMMA OneScansOnly ==
  ASSUME ListInv, NEW r \in Refs, NEW to \in Points, NEW s, ScanRecord(s),
         to \in AtPak => s.todo # <<>>, Filed(to, s),
         issue' = [issue EXCEPT ![r] = to], scan' = [scan EXCEPT ![r] = s],
         UNCHANGED <<load, disk, changes, cache>>, steady' \subseteq steady \cup {r},
         r \in steady' => Accurate(disk, to, s)
  PROVE  ListInv'
<1>1. DOMAIN cache' = LayerNames \X Paks
      BY DEF ListInv, FSType
<1>2. \A l \in LayerNames, p \in Paks : cache'[<<l, p>>].label # 0 =>
        Indexed(l, p, cache'[<<l, p>>].label, cache'[<<l, p>>].version)
      BY DEF ListInv, CacheInv
<1>. QED BY <1>1, <1>2, OneScans

LEMMA NextPakKeeps ==
  ASSUME ListInv, NEW r \in Refs, NEW from \in AtPak, NEW byKey, NextPak(r, from, byKey),
         UNCHANGED <<load, disk, changes, steady>>,
         DOMAIN cache' = LayerNames \X Paks,
         \A l \in LayerNames, p \in Paks : cache'[<<l, p>>].label # 0 =>
           Indexed(l, p, cache'[<<l, p>>].label, cache'[<<l, p>>].version),
         r \in steady => Shows(byKey, Visited(disk, from, scan[r])
                                       \cup PakPart(disk, Layer(r), Pak(r)))
  PROVE  ListInv'
<1> DEFINE s  == scan[r]
           t  == ScanAt(s.layer, Tail(s.todo), byKey)
           to == IF Tail(s.todo) = <<>> THEN "walk" ELSE "stat"
<1>1. /\ issue[r] = from /\ issue' = [issue EXCEPT ![r] = to] /\ scan' = [scan EXCEPT ![r] = t]
      BY DEF NextPak, Scan
<1>2. ScanRecord(s) /\ s.layer \in {1, 2} /\ s.todo \in Seq(Paks) /\ s.todo # <<>>
      BY <1>1 DEF ListInv, FSType, ScanRecord
<1>3. Tail(s.todo) \in Seq(Paks)
      BY <1>2, HeadAndTail
<1>4. ScanRecord(t) /\ t.layer = s.layer /\ t.todo = Tail(s.todo) /\ t.byKey = byKey
      BY <1>2, <1>3 DEF ScanAt, ScanRecord
<1>5. to \in Points /\ to \notin Labelled /\ (to \in AtPak => t.todo # <<>>)
      BY <1>4 DEF Points, Labelled, AtPak
<1>6. Filed(to, t)
      BY <1>5 DEF Filed, Labelled
<1>7. ASSUME r \in steady PROVE Accurate(disk, to, t)
  <2>1. Ahead(disk, from, s)
    <3>1. Accurate(disk, from, s) /\ from \in Scanning \ {"list"}
          BY <1>1, <1>7 DEF ListInv, SteadyInv, AtPak, Scanning
    <3>. QED BY <3>1 DEF Accurate
  <2>2. Shows(byKey, Visited(disk, from, s) \cup PakPart(disk, clientLayers[s.layer], Head(s.todo)))
        BY <1>7 DEF Layer, Pak
  <2>3. disk \in Trees
        BY DEF ListInv, FSType
  <2> HIDE DEF t, s
  <2>. QED BY <1>2, <1>4, <2>1, <2>2, <2>3, NextPakAccurate
<1> HIDE DEF t, to
<1>. QED BY <1>1, <1>4, <1>5, <1>6, <1>7, OneScans

\* A PAK that is skipped: it has nothing to show.
LEMMA SkipKeeps ==
  ASSUME ListInv, NEW r \in Refs, NEW from \in AtPak, NextPak(r, from, scan[r].byKey),
         UNCHANGED <<load, fsVars, steady>>,
         r \in steady => PakPart(disk, Layer(r), Pak(r)) = {}
  PROVE  ListInv'
<1>1. DOMAIN cache' = LayerNames \X Paks
      BY DEF ListInv, FSType, fsVars
<1>2. \A l \in LayerNames, p \in Paks : cache'[<<l, p>>].label # 0 =>
        Indexed(l, p, cache'[<<l, p>>].label, cache'[<<l, p>>].version)
      BY DEF ListInv, CacheInv, fsVars
<1>3. ASSUME r \in steady
      PROVE  Shows(scan[r].byKey, Visited(disk, from, scan[r]) \cup PakPart(disk, Layer(r), Pak(r)))
  <2>1. issue[r] = from /\ Accurate(disk, from, scan[r])
        BY <1>3 DEF NextPak, Scan, ListInv, SteadyInv
  <2>2. Shows(scan[r].byKey, Visited(disk, from, scan[r]))
        BY <2>1 DEF Accurate, AtPak, Scanning
  <2>3. Visited(disk, from, scan[r]) \cup PakPart(disk, Layer(r), Pak(r)) = Visited(disk, from, scan[r])
        BY <1>3
  <2>. QED BY <2>2, <2>3
<1>. QED BY <1>1, <1>2, <1>3, NextPakKeeps DEF fsVars

LEMMA ScanStartKeeps ==
  ASSUME ListInv, UNCHANGED load, NEW r \in Refs, ScanStart(r)
  PROVE  ListInv'
<1>1. /\ issue' = [issue EXCEPT ![r] = "list"] /\ scan' = [scan EXCEPT ![r] = NoScan]
      /\ UNCHANGED <<load, disk, changes, cache>> /\ steady' = steady \cup {r}
      BY DEF ScanStart, Scan, fsVars
<1>2. ScanRecord(NoScan) /\ NoScan.layer = 1 /\ NoScan.byKey = <<>>
      BY DEF NoScan, ScanAt, ScanRecord
<1>3. "list" \in Points /\ "list" \notin AtPak /\ Filed("list", NoScan)
      BY DEF Points, AtPak, Filed, Labelled
<1>4. Visited(disk, "list", NoScan) = {}
  <2>1. PaksSeen("list", NoScan) = {}
        BY DEF PaksSeen
  <2>2. \A b : b \notin Visited(disk, "list", NoScan)
        BY <1>2, <2>1, InVisited
  <2>. QED BY <2>2
<1>5. Shows(<<>>, {})
  <2>1. {Key(b) : b \in {}} = {}
        OBVIOUS
  <2>2. <<>> = [k \in {} |-> <<>>[k]]
        OBVIOUS
  <2>. QED BY <2>1, <2>2 DEF Shows
<1>6. Accurate(disk, "list", NoScan)
      BY <1>2, <1>4, <1>5 DEF Accurate, Labelled
<1>. QED BY <1>1, <1>2, <1>3, <1>6, OneScansOnly

LEMMA ScanPaksKeeps ==
  ASSUME ListInv, UNCHANGED load, NEW r \in Refs, ScanPaks(r)
  PROVE  ListInv'
<1> DEFINE s  == scan[r]
           t  == [s EXCEPT !.todo = ListLayerPakFiles(Layer(r))]
           to == IF t.todo = <<>> THEN "walk" ELSE "stat"
<1>1. ScanRecord(s) /\ disk \in Trees
      BY DEF ListInv, FSType
<1>2. /\ t.todo = ListLayerPakFiles(clientLayers[s.layer])
      /\ t.layer = s.layer /\ t.byKey = s.byKey /\ ScanRecord(t)
  <2>1. Layer(r) = clientLayers[s.layer]
        BY DEF Layer
  <2>2. ListLayerPakFiles(Layer(r)) \in Seq(Paks)
        BY ListFacts
  <2>. QED BY <1>1, <2>1, <2>2 DEF ScanRecord
<1>3. /\ issue[r] = "list" /\ issue' = [issue EXCEPT ![r] = to] /\ scan' = [scan EXCEPT ![r] = t]
      /\ UNCHANGED <<load, disk, changes, cache, steady>>
  <2>1. to = IF ListLayerPakFiles(Layer(r)) = <<>> THEN "walk" ELSE "stat"
        BY <1>2 DEF Layer
  <2>. QED BY <2>1 DEF ScanPaks, Scan, fsVars
<1>4. to \in Points /\ to \notin Labelled /\ (to \in AtPak => t.todo # <<>>)
      BY DEF Points, Labelled, AtPak
<1>5. Filed(to, t)
      BY <1>4 DEF Filed, Labelled
<1>6. ASSUME r \in steady PROVE Accurate(disk, to, t)
  <2>1. Accurate(disk, "list", s)
        BY <1>3, <1>6 DEF ListInv, SteadyInv
  <2> HIDE DEF t, s
  <2>. QED BY <1>1, <1>2, <2>1, ScanPaksAccurate
<1> HIDE DEF t, to
<1>. QED BY <1>2, <1>3, <1>4, <1>5, <1>6, OneScansOnly

LEMMA AtAPak ==
  ASSUME ListInv, NEW r \in Refs, issue[r] \in AtPak
  PROVE  /\ ScanRecord(scan[r]) /\ scan[r].todo # <<>>
         /\ Layer(r) \in LayerNames /\ Pak(r) \in Paks
         /\ Layer(r) = clientLayers[scan[r].layer] /\ Pak(r) = Head(scan[r].todo)
         /\ disk \in Trees /\ disk.pak[Layer(r)][Pak(r)] \in DOMAIN Entries \cup {0}
<1>1. ScanRecord(scan[r]) /\ scan[r].todo # <<>> /\ disk \in Trees
      BY DEF ListInv, FSType
<1>2. Layer(r) = clientLayers[scan[r].layer] /\ Pak(r) = Head(scan[r].todo)
      BY DEF Layer, Pak
<1>3. Layer(r) \in LayerNames
      BY <1>1, <1>2, LayerPlaces DEF ScanRecord
<1>4. Pak(r) \in Paks
      BY <1>1, <1>2, HeadAndTail DEF ScanRecord
<1>. QED BY <1>1, <1>2, <1>3, <1>4 DEF Trees

\* A PAK that is gone was not there all the time.
LEMMA SteadyIsThere ==
  ASSUME ListInv, NEW r \in steady, issue[r] \in AtPak
  PROVE  disk.pak[Layer(r)][Pak(r)] # 0
<1>1. r \in Refs
      BY DEF ListInv, FSType
<1>2. Ahead(disk, issue[r], scan[r])
  <2>1. Accurate(disk, issue[r], scan[r])
        BY DEF ListInv, SteadyInv
  <2>. QED BY <2>1 DEF Accurate, AtPak, Scanning
<1>3. scan[r].todo \in Seq(Paks) /\ scan[r].todo # <<>> /\ Layer(r) = clientLayers[scan[r].layer]
      /\ Pak(r) = Head(scan[r].todo)
      BY <1>1, AtAPak DEF ScanRecord
<1>4. Pak(r) = scan[r].todo[1] /\ 1 \in DOMAIN scan[r].todo
      BY <1>3, HeadAndTail
<1>. QED BY <1>2, <1>3, <1>4 DEF Ahead

LEMMA PakStatKeeps ==
  ASSUME ListInv, UNCHANGED load, NEW r \in Refs, PakStat(r)
  PROVE  ListInv'
<1> DEFINE v == disk.pak[Layer(r)][Pak(r)]
           s == scan[r]
           t == [s EXCEPT !.label = v]
<1>0. issue[r] = "stat" /\ "stat" \in AtPak /\ UNCHANGED <<load, fsVars, steady>>
      BY DEF PakStat, AtPak
<1>1. CASE v = 0
  <2>1. NextPak(r, "stat", scan[r].byKey)
        BY <1>1 DEF PakStat
  <2>2. r \notin steady
        BY <1>0, <1>1, SteadyIsThere
  <2>. QED BY <1>0, <2>1, <2>2, SkipKeeps
<1>2. CASE v # 0
  <2>1. /\ issue' = [issue EXCEPT ![r] = "check"] /\ scan' = [scan EXCEPT ![r] = t]
        /\ UNCHANGED <<load, disk, changes, cache, steady>>
        BY <1>0, <1>2 DEF PakStat, Scan, fsVars
  <2>2. /\ ScanRecord(t) /\ t.todo = s.todo /\ t.layer = s.layer /\ t.byKey = s.byKey
        /\ t.label = v /\ s.todo # <<>>
    <3>1. ScanRecord(s) /\ s.todo # <<>>
          BY <1>0, AtAPak
    <3> HIDE DEF v, s
    <3>2. t = [layer |-> s.layer, todo |-> s.todo, label |-> v, version |-> s.version, byKey |-> s.byKey]
          BY <3>1 DEF ScanRecord
    <3> HIDE DEF t
    <3>. QED BY <3>1, <3>2 DEF ScanRecord
  <2>3. Filed("check", t)
    <3>1. Known(v)
          BY <1>0, <1>2, AtAPak DEF ListInv, CacheInv
    <3>. QED BY <2>2, <3>1 DEF Filed, Labelled
  <2>4. ASSUME r \in steady PROVE Accurate(disk, "check", t)
    <3>1. Accurate(disk, "stat", s)
          BY <1>0, <2>4 DEF ListInv, SteadyInv
    <3>2. Visited(disk, "check", t) = Visited(disk, "stat", s) /\ PaksSeen("check", t) = PaksSeen("stat", s)
          BY <2>2 DEF Visited, Earlier, PaksSeen
    <3>3. Ahead(disk, "check", t)
          BY <2>2, <3>1, <3>2 DEF Accurate, Ahead, Scanning
    <3>4. t.label = disk.pak[clientLayers[t.layer]][Head(t.todo)]
          BY <2>2 DEF Layer, Pak
    <3> HIDE DEF t, s
    <3>. QED BY <2>2, <3>1, <3>2, <3>3, <3>4 DEF Accurate, Scanning
  <2>5. "check" \in Points
        BY DEF Points
  <2> HIDE DEF t
  <2>. QED BY <2>1, <2>2, <2>3, <2>4, <2>5, OneScansOnly
<1>. QED BY <1>1, <1>2

\* An index that is used, from the cache or as it was read.
LEMMA IndexKeeps ==
  ASSUME ListInv, NEW r \in Refs, NEW from \in Labelled, issue[r] = from, NEW v,
         Indexed(Layer(r), Pak(r), scan[r].label, v),
         NextPak(r, from, Explode(scan[r].byKey, Layer(r), Pak(r), v)),
         UNCHANGED <<load, disk, changes, steady>>,
         DOMAIN cache' = LayerNames \X Paks,
         \A l \in LayerNames, p \in Paks : cache'[<<l, p>>].label # 0 =>
           Indexed(l, p, cache'[<<l, p>>].label, cache'[<<l, p>>].version)
  PROVE  ListInv'
<1>1. from \in AtPak
      BY DEF Labelled, AtPak
<1>2. ASSUME r \in steady
      PROVE  Shows(Explode(scan[r].byKey, Layer(r), Pak(r), v),
                   Visited(disk, from, scan[r]) \cup PakPart(disk, Layer(r), Pak(r)))
  <2>1. Accurate(disk, from, scan[r])
        BY <1>2 DEF ListInv, SteadyInv
  <2>2. /\ ScanRecord(scan[r]) /\ scan[r].todo # <<>> /\ disk \in Trees
        /\ Layer(r) = clientLayers[scan[r].layer] /\ Pak(r) = Head(scan[r].todo)
        BY <1>1, AtAPak
  <2>3. scan[r].label = disk.pak[Layer(r)][Pak(r)]
        BY <2>1, <2>2 DEF Accurate
  <2>4. v = disk.pak[Layer(r)][Pak(r)] /\ v \in DOMAIN Entries /\ Entries[v] # Malformed
        BY <2>3 DEF Indexed
  <2>. QED BY <1>1, <2>1, <2>2, <2>4, ExplodeAccurate
<1>. QED BY <1>1, <1>2, NextPakKeeps

LEMMA PakCheckKeeps ==
  ASSUME ListInv, UNCHANGED load, NEW r \in Refs, PakCheck(r)
  PROVE  ListInv'
<1> DEFINE c == cache[<<Layer(r), Pak(r)>>]
           s == scan[r]
<1>0. issue[r] = "check" /\ "check" \in AtPak /\ "check" \in Labelled
      /\ UNCHANGED <<load, disk, changes, cache, steady>>
      BY DEF PakCheck, AtPak, Labelled, fsVars
<1>1. Known(s.label)
      BY <1>0 DEF ListInv, CacheInv, Filed
<1>2. DOMAIN cache' = LayerNames \X Paks
      BY <1>0 DEF ListInv, FSType
<1>3. \A l \in LayerNames, p \in Paks : cache'[<<l, p>>].label # 0 =>
        Indexed(l, p, cache'[<<l, p>>].label, cache'[<<l, p>>].version)
      BY <1>0 DEF ListInv, CacheInv
<1>4. CASE c.label = s.label
  <2>1. NextPak(r, "check", Explode(s.byKey, Layer(r), Pak(r), c.version))
        BY <1>4 DEF PakCheck
  <2>2. Indexed(Layer(r), Pak(r), s.label, c.version)
    <3>1. Layer(r) \in LayerNames /\ Pak(r) \in Paks
          BY <1>0, AtAPak
    <3>. QED BY <1>1, <1>4, <3>1 DEF ListInv, CacheInv, Known
  <2>. QED BY <1>0, <1>2, <1>3, <2>1, <2>2, IndexKeeps
<1>5. CASE c.label # s.label
  <2>1. issue' = [issue EXCEPT ![r] = "read"] /\ scan' = [scan EXCEPT ![r] = s]
        BY <1>5 DEF PakCheck, Scan
  <2>2. ScanRecord(s) /\ s.todo # <<>>
        BY <1>0, AtAPak
  <2>3. Filed("read", s)
        BY <1>1 DEF Filed
  <2>4. ASSUME r \in steady PROVE Accurate(disk, "read", s)
    <3>1. Accurate(disk, "check", s)
          BY <1>0, <2>4 DEF ListInv, SteadyInv
    <3>2. Visited(disk, "read", s) = Visited(disk, "check", s) /\ PaksSeen("read", s) = PaksSeen("check", s)
          BY DEF Visited, Earlier, PaksSeen
    <3>. QED BY <3>1, <3>2 DEF Accurate, Ahead, Scanning, Labelled
  <2>5. "read" \in Points
        BY DEF Points
  <2>. QED BY <1>0, <2>1, <2>2, <2>3, <2>4, <2>5, OneScansOnly
<1>. QED BY <1>4, <1>5

LEMMA PakReadKeeps ==
  ASSUME ListInv, UNCHANGED load, NEW r \in Refs, PakRead(r)
  PROVE  ListInv'
<1> DEFINE v == disk.pak[Layer(r)][Pak(r)]
           s == scan[r]
           t == [s EXCEPT !.version = v]
<1>0. issue[r] = "read" /\ "read" \in AtPak /\ UNCHANGED <<load, fsVars, steady>>
      BY DEF PakRead, AtPak
<1>1. CASE v = 0 \/ Entries[v] = Malformed
  <2>1. NextPak(r, "read", scan[r].byKey)
        BY <1>1 DEF PakRead
  <2>2. PakPart(disk, Layer(r), Pak(r)) = {}
        BY <1>1 DEF PakPart
  <2>. QED BY <1>0, <2>1, <2>2, SkipKeeps
<1>2. CASE ~(v = 0 \/ Entries[v] = Malformed)
  <2>1. /\ issue' = [issue EXCEPT ![r] = "store"] /\ scan' = [scan EXCEPT ![r] = t]
        /\ UNCHANGED <<load, disk, changes, cache, steady>>
        BY <1>0, <1>2 DEF PakRead, Scan, fsVars
  <2>2. /\ ScanRecord(t) /\ t.todo = s.todo /\ t.layer = s.layer /\ t.byKey = s.byKey
        /\ t.label = s.label /\ t.version = v /\ s.todo # <<>>
    <3>1. ScanRecord(s) /\ s.todo # <<>>
          BY <1>0, AtAPak
    <3> HIDE DEF v, s
    <3>2. t = [layer |-> s.layer, todo |-> s.todo, label |-> s.label, version |-> v, byKey |-> s.byKey]
          BY <3>1 DEF ScanRecord
    <3> HIDE DEF t
    <3>. QED BY <3>1, <3>2 DEF ScanRecord
  <2>3. Filed("store", t)
    <3>1. Known(s.label)
          BY <1>0 DEF ListInv, CacheInv, Filed, Labelled
    <3>2. v \in DOMAIN Entries
          BY <1>0, <1>2, AtAPak
    <3>3. Indexed(Layer(r), Pak(r), s.label, v)
          BY <1>2, <3>1, <3>2 DEF Indexed
    <3> HIDE DEF t
    <3>. QED BY <2>2, <3>1, <3>3 DEF Filed, Layer, Pak
  <2>4. ASSUME r \in steady PROVE Accurate(disk, "store", t)
    <3>1. Accurate(disk, "read", s)
          BY <1>0, <2>4 DEF ListInv, SteadyInv
    <3>2. Visited(disk, "store", t) = Visited(disk, "read", s) /\ PaksSeen("store", t) = PaksSeen("read", s)
          BY <2>2 DEF Visited, Earlier, PaksSeen
    <3> HIDE DEF t, s
    <3>. QED BY <2>2, <3>1, <3>2 DEF Accurate, Ahead, Scanning, Labelled
  <2>5. "store" \in Points
        BY DEF Points
  <2> HIDE DEF t
  <2>. QED BY <2>1, <2>2, <2>3, <2>4, <2>5, OneScansOnly
<1>. QED BY <1>1, <1>2

LEMMA PakStoreKeeps ==
  ASSUME ListInv, UNCHANGED load, NEW r \in Refs, PakStore(r)
  PROVE  ListInv'
<1> DEFINE s == scan[r]
           e == [label |-> s.label, version |-> s.version]
<1>0. /\ issue[r] = "store" /\ "store" \in AtPak /\ "store" \in Labelled
      /\ UNCHANGED <<load, disk, changes, steady>>
      /\ cache' = [cache EXCEPT ![<<Layer(r), Pak(r)>>] = e]
      BY DEF PakStore, AtPak, Labelled
<1>1. Indexed(Layer(r), Pak(r), s.label, s.version)
      BY <1>0 DEF ListInv, CacheInv, Filed, Layer, Pak
<1>2. DOMAIN cache' = LayerNames \X Paks
      BY <1>0 DEF ListInv, FSType
<1>3. ASSUME NEW l \in LayerNames, NEW p \in Paks, cache'[<<l, p>>].label # 0
      PROVE  Indexed(l, p, cache'[<<l, p>>].label, cache'[<<l, p>>].version)
  <2>1. <<l, p>> \in DOMAIN cache
        BY DEF ListInv, FSType
  <2>2. CASE l = Layer(r) /\ p = Pak(r)
    <3>1. cache'[<<l, p>>] = e
          BY <1>0, <2>1, <2>2
    <3>. QED BY <1>1, <2>2, <3>1
  <2>3. CASE ~(l = Layer(r) /\ p = Pak(r))
    <3>1. cache'[<<l, p>>] = cache[<<l, p>>]
          BY <1>0, <2>1, <2>3
    <3>. QED BY <1>3, <3>1 DEF ListInv, CacheInv
  <2>. QED BY <2>2, <2>3
<1>4. NextPak(r, "store", Explode(s.byKey, Layer(r), Pak(r), s.version))
      BY DEF PakStore
<1>. QED BY <1>0, <1>1, <1>2, <1>3, <1>4, IndexKeeps

LEMMA WalkLooseKeeps ==
  ASSUME ListInv, UNCHANGED load, NEW r \in Refs, WalkLoose(r)
  PROVE  ListInv'
<1> DEFINE s == scan[r]
           byKey == Overlay(s.byKey, Layer(r), disk.loose[Layer(r)])
           layer == IF s.layer = 2 THEN 1 ELSE s.layer + 1
           t == ScanAt(layer, <<>>, byKey)
           to == IF s.layer = 2 THEN "back" ELSE "list"
<1>1. ScanRecord(s) /\ s.layer \in {1, 2} /\ disk \in Trees
      BY DEF ListInv, FSType, ScanRecord
<1>2. /\ issue[r] = "walk" /\ issue' = [issue EXCEPT ![r] = to] /\ scan' = [scan EXCEPT ![r] = t]
      /\ UNCHANGED <<load, disk, changes, cache, steady>>
      BY LayerPlaces DEF WalkLoose, Scan, fsVars
<1>3. layer \in {1, 2} /\ (s.layer = 1 => layer = 2)
      BY <1>1
<1> HIDE DEF layer
<1>4. ScanRecord(t) /\ t.todo = <<>> /\ t.layer = layer /\ t.byKey = byKey
      BY <1>3 DEF ScanAt, ScanRecord
<1>5. to \in Points /\ to \notin AtPak /\ Filed(to, t)
      BY DEF Points, AtPak, Filed, Labelled
<1>6. ASSUME r \in steady PROVE Accurate(disk, to, t)
  <2>1. Accurate(disk, "walk", s)
        BY <1>2, <1>6 DEF ListInv, SteadyInv
  <2>2. t.byKey = Overlay(s.byKey, clientLayers[s.layer], disk.loose[clientLayers[s.layer]])
        BY <1>4 DEF Layer
  <2> HIDE DEF t, s, byKey
  <2>. QED BY <1>1, <1>3, <1>4, <2>1, <2>2, WalkAccurate
<1> HIDE DEF t, to
<1>. QED BY <1>2, <1>4, <1>5, <1>6, OneScansOnly

\* A file comes, goes or is replaced: no scan is steady any more, and a version
\* that comes is not one that any index is filed under.
LEMMA DiskChangesKeeps ==
  ASSUME ListInv, UNCHANGED <<load, issue, scan>>, DiskChanges
  PROVE  ListInv'
<1>0. load.changes # 0 /\ changes \in Nat /\ disk \in Trees
  <2>1. load.changes \in Nat /\ changes \in Nat /\ disk \in Trees
        BY LoadsAssumption DEF ListInv, FSType
  <2>. QED BY <2>1 DEF DiskChanges
<1>1. changes' = changes + 1 /\ steady' = {} /\ cache' = cache
      BY DEF DiskChanges, PakChanges, LooseChanges, Changed
<1>2. /\ disk' \in Trees
      /\ \A l \in LayerNames, p \in Paks : disk'.pak[l][p] \in {0, changes + 2, disk.pak[l][p]}
  <2>1. CASE PakChanges
    <3>1. PICK l \in LayerNames, p \in Paks, v \in {0, changes + 2} :
             v \in DOMAIN Entries \cup {0} /\ disk' = [disk EXCEPT !.pak[l][p] = v]
          BY <2>1 DEF PakChanges, Changed
    <3>2. disk' = [pak |-> [disk.pak EXCEPT ![l] = [disk.pak[l] EXCEPT ![p] = v]], loose |-> disk.loose]
          BY <1>0, <3>1 DEF Trees
    <3> DEFINE new == [disk.pak EXCEPT ![l] = [disk.pak[l] EXCEPT ![p] = v]]
    <3>3. disk.pak \in [LayerNames -> [Paks -> DOMAIN Entries \cup {0}]]
          BY <1>0 DEF Trees
    <3>4. /\ new \in [LayerNames -> [Paks -> DOMAIN Entries \cup {0}]]
          /\ \A k \in LayerNames, q \in Paks : new[k][q] \in {0, changes + 2, disk.pak[k][q]}
          BY <3>1, <3>3
    <3> HIDE DEF new
    <3>5. disk' = [pak |-> new, loose |-> disk.loose] /\ disk'.pak = new
          BY <3>2 DEF new
    <3>. QED BY <1>0, <3>4, <3>5 DEF Trees
  <2>2. CASE LooseChanges
    <3>1. PICK l \in LayerNames, n \in ToSet(LooseNames) :
             disk' = [disk EXCEPT !.loose[l] = (@ \cup {n}) \ (@ \cap {n})]
          BY <2>2 DEF LooseChanges, Changed
    <3>2. disk' = [pak |-> disk.pak,
                   loose |-> [disk.loose EXCEPT ![l] = (@ \cup {n}) \ (@ \cap {n})]]
          BY <1>0, <3>1 DEF Trees
    <3>. QED BY <1>0, <3>2 DEF Trees
  <2>. QED BY <2>1, <2>2 DEF DiskChanges
<1> DEFINE known(v) == v \in Nat /\ v # 0 /\ (load.changes # 0 => v < changes' + 2)
           indexed(l, p, a, v) == /\ known(a) /\ v \in DOMAIN Entries /\ Entries[v] # Malformed
                                  /\ a = disk'.pak[l][p] => v = a
<1>3. \A v : Known(v) => known(v) /\ v # changes + 2 /\ v # 0
      BY <1>0, <1>1 DEF Known
<1>4. known(changes + 2)
      BY <1>0, <1>1
<1> HIDE DEF known
<1>5. ASSUME NEW l \in LayerNames, NEW p \in Paks, NEW a, NEW v, Indexed(l, p, a, v)
      PROVE  indexed(l, p, a, v)
  <2>1. Known(a) /\ (a = disk'.pak[l][p] => a = disk.pak[l][p])
        BY <1>2, <1>3, <1>5 DEF Indexed
  <2>. QED BY <1>3, <1>5, <2>1 DEF Indexed
<1> HIDE DEF indexed
<1>6. CacheInv'
  <2>1. \A l \in LayerNames, p \in Paks : disk'.pak[l][p] # 0 => known(disk'.pak[l][p])
    <3>1. \A l \in LayerNames, p \in Paks : disk.pak[l][p] # 0 => Known(disk.pak[l][p])
          BY DEF ListInv, CacheInv
    <3>. QED BY <1>2, <1>3, <1>4, <3>1
  <2>2. \A l \in LayerNames, p \in Paks : cache[<<l, p>>].label # 0 =>
          indexed(l, p, cache[<<l, p>>].label, cache[<<l, p>>].version)
        BY <1>5 DEF ListInv, CacheInv
  <2>3. ASSUME NEW r \in Refs
        PROVE  /\ issue[r] \in Labelled => known(scan[r].label)
               /\ issue[r] = "store" => indexed(clientLayers[scan[r].layer], Head(scan[r].todo),
                                                scan[r].label, scan[r].version)
    <3>1. Filed(issue[r], scan[r])
          BY DEF ListInv, CacheInv
    <3>2. issue[r] = "store" => clientLayers[scan[r].layer] \in LayerNames /\ Head(scan[r].todo) \in Paks
          BY AtAPak DEF Layer, Pak, AtPak
    <3>. QED BY <1>3, <1>5, <3>1, <3>2 DEF Filed
  <2>. QED BY <1>1, <2>1, <2>2, <2>3 DEF CacheInv, Filed, Known, Indexed, known, indexed
<1>8. FSType'
      BY <1>0, <1>1, <1>2 DEF ListInv, FSType
<1>7. SteadyInv'
      BY <1>1 DEF SteadyInv
<1>. QED BY <1>6, <1>7, <1>8 DEF ListInv

\* What the rest of a request does with the scan that came back.
LEMMA BuiltKeeps ==
  ASSUME ListInv, UNCHANGED load, NEW r \in Refs,
         Build(r) \/ BuildFails(r) \/ Stamp(r) \/ Register(r)
  PROVE  ListInv'
<1> DEFINE s == scan[r]
<1>0. ScanRecord(s) /\ scan = [q \in Refs |-> scan[q]] /\ issue \in [Refs -> Points]
      BY DEF ListInv, FSType
<1>1. CASE Ends(r)
  <2>1. /\ issue' = [issue EXCEPT ![r] = "done"] /\ scan' = [scan EXCEPT ![r] = NoScan]
        /\ UNCHANGED <<load, disk, changes, cache>> /\ steady' = steady \ {r}
        BY <1>1 DEF Ends, fsVars
  <2>2. ScanRecord(NoScan)
        BY DEF NoScan, ScanAt, ScanRecord
  <2>3. "done" \in Points /\ "done" \notin AtPak /\ Filed("done", NoScan)
        BY DEF Points, AtPak, Filed, Labelled
  <2>. QED BY <2>1, <2>2, <2>3, OneScansOnly
<1>2. ASSUME NEW to \in {"built", "stamped", "done"}, issue[r] \in {"back", "built", "stamped"},
             issue' = [issue EXCEPT ![r] = to], UNCHANGED <<scan, fsVars, steady>>
      PROVE  ListInv'
  <2>1. scan' = [scan EXCEPT ![r] = s] /\ UNCHANGED <<load, disk, changes, cache, steady>>
        BY <1>0, <1>2 DEF fsVars
  <2>2. to \in Points /\ to \notin AtPak /\ Filed(to, s)
        BY DEF Points, AtPak, Filed, Labelled
  <2>3. ASSUME r \in steady PROVE Accurate(disk, to, s)
    <3>1. Accurate(disk, issue[r], s)
          BY <2>3 DEF ListInv, SteadyInv
    <3>2. Shows(s.byKey, Held(disk))
          BY <1>2, <3>1 DEF Accurate
    <3>3. to \notin Scanning /\ to \notin Labelled /\ to # "walk"
          BY DEF Scanning, Labelled
    <3>. QED BY <3>2, <3>3 DEF Accurate
  <2>. QED BY <1>0, <1>2, <2>1, <2>2, <2>3, OneScansOnly
<1>3. CASE Build(r) /\ ~Ends(r)
      BY <1>2, <1>3 DEF Build
<1>4. CASE BuildFails(r)
      BY <1>1, <1>4 DEF BuildFails
<1>5. CASE Stamp(r)
      BY <1>2, <1>5 DEF Stamp
<1>6. CASE Register(r)
      BY <1>2, <1>6 DEF Register
<1>. QED BY <1>1, <1>3, <1>4, <1>5, <1>6

LEMMA ListInvInit == Init => ListInv
<1> SUFFICES ASSUME Init PROVE ListInv
    OBVIOUS
<1>1. /\ load \in Loads /\ disk = load.disk /\ changes = 0 /\ steady = {}
      /\ cache = [p \in LayerNames \X Paks |-> NoIndex]
      /\ issue = [r \in Refs |-> "idle"] /\ scan = [r \in Refs |-> NoScan]
      BY DEF Init, FSInit
<1>2. /\ disk \in Trees
      /\ load.changes # 0 => \A n \in LayerNames, p \in Paks : disk.pak[n][p] < 2
      BY <1>1, LoadsAssumption DEF Trees
<1>3. ScanRecord(NoScan)
      BY DEF NoScan, ScanAt, ScanRecord
<1>4. FSType
      BY <1>1, <1>2, <1>3 DEF FSType, Points, AtPak
<1>5. CacheInv
  <2>1. ASSUME NEW l \in LayerNames, NEW p \in Paks, disk.pak[l][p] # 0
        PROVE  Known(disk.pak[l][p])
    <3>1. disk.pak[l][p] \in DOMAIN Entries \cup {0}
          BY <1>2 DEF Trees
    <3>2. disk.pak[l][p] \in Nat
          BY <3>1, PaksAssumption
    <3>. QED BY <1>1, <1>2, <2>1, <3>2 DEF Known
  <2>2. \A l \in LayerNames, p \in Paks : cache[<<l, p>>].label = 0
        BY <1>1 DEF NoIndex
  <2>3. \A r \in Refs : Filed(issue[r], scan[r])
        BY <1>1 DEF Filed, Labelled
  <2>. QED BY <2>1, <2>2, <2>3 DEF CacheInv
<1>. QED BY <1>1, <1>4, <1>5 DEF ListInv, SteadyInv

LEMMA ListInvNext == ListInv /\ [Next]_vars => ListInv'
<1> SUFFICES ASSUME ListInv, [Next]_vars PROVE ListInv'
    OBVIOUS
<1>1. CASE UNCHANGED <<load, scans>>
  <2>1. UNCHANGED <<load, disk, changes, cache, issue, scan, steady>>
        BY <1>1 DEF scans, fsVars
  <2>. QED BY <2>1 DEF ListInv, FSType, CacheInv, SteadyInv, Filed, Known, Indexed
<1>2. CASE UNCHANGED vars
      BY <1>1, <1>2 DEF vars, runVars
<1>3. CASE Next
  <2>0. UNCHANGED load
        BY <1>3 DEF Next
  <2>1. CASE TimePasses
        BY <1>1, <2>0, <2>1 DEF TimePasses
  <2>2. CASE DiskChanges /\ UNCHANGED <<issue, scan, clock, store, stamp, get, want>>
        BY <2>0, <2>2, DiskChangesKeeps
  <2>3. ASSUME NEW r \in Refs, ScanStep(r) PROVE ListInv'
        BY <2>0, <2>3, ScanStartKeeps, ScanPaksKeeps, PakStatKeeps, PakCheckKeeps, PakReadKeeps,
           PakStoreKeeps, WalkLooseKeeps DEF ScanStep
  <2>4. ASSUME NEW r \in Refs, Build(r) \/ BuildFails(r) \/ Stamp(r) \/ Register(r)
        PROVE  ListInv'
        BY <2>0, <2>4, BuiltKeeps
  <2>5. ASSUME NEW g \in Gets,
               Get(g) \/ LookupFast(g) \/ LookupSlow(g) \/ Open(g) \/ Again(g)
        PROVE  ListInv'
        BY <1>1, <2>0, <2>5 DEF Get, LookupFast, LookupSlow, Open, Again
  <2>. QED BY <1>3, <2>1, <2>2, <2>3, <2>4, <2>5 DEF Next
<1>. QED BY <1>2, <1>3

\* A manifest of a tree that has not changed since the scan began leads, at every
\* path, to what the tree has there by the rules of precedence
\* (overlayLayerIntoManifest, listLayerPakFiles, pakSortKey), with other requests
\* filling the index cache they share from files that are replaced under them
\* (PakIndexCache.get): for any trees, any PAKs and orders of names, any requests
\* and any number of changes.
THEOREM ManifestsListTheTree == Spec => []ListsTheTree
<1>1. Init => ListInv
      BY ListInvInit
<1>2. ListInv /\ [Next]_vars => ListInv'
      BY ListInvNext
<1>3. ListInv => ListsTheTree
  <2> SUFFICES ASSUME ListInv, NEW r \in steady, issue[r] \in {"back", "built", "stamped", "done"}
               PROVE  scan[r].byKey = VFS(disk)
      BY DEF ListsTheTree
  <2>1. Shows(scan[r].byKey, Held(disk)) /\ disk \in Trees
        BY DEF ListInv, SteadyInv, Accurate, FSType
  <2>. QED BY <2>1, ShowsIsVFS
<1>. QED BY <1>1, <1>2, <1>3, PTL DEF Spec

-----------------------------------------------------------------------------
(* The runtime tree of a mod *)

\* The events inotify queues.
Reports == {Walk(l, d) : l \in Layers, d \in Dirs}
             \cup {File(f) : f \in Files} \cup {Dir(d) : d \in Dirs}

\* What reconcile may find for f.
Sources(f) == {NoLink} \cup {[layer |-> l, file |-> f] : l \in Layers}

TreeType ==
  /\ seen \subseteq Files /\ files \in [Layers -> SUBSET seen]
  /\ dirs \in [Layers -> SUBSET (Dirs \cup {Top})]
  /\ \A l \in Layers : \A d \in dirs[l] : Top \in dirs[l]
  /\ watched \in [Layers -> SUBSET (Dirs \cup {Top})]
  /\ \A l \in Layers : \A f \in files[l] : f.dir \in dirs[l]
  /\ link = [t \in Targets |-> link[t]]
  /\ \A t \in Targets : \/ link[t] = NoLink
                         \/ \E f \in seen : Lower(f) = t /\ link[t] \in Sources(f)
  /\ events \in Seq(Reports) /\ todo \in Seq(Tasks)
  /\ \/ found = Unread
     \/ \E f \in seen : todo # <<>> /\ Head(todo) = File(f) /\ found \in Sources(f)

\* What is still to be done, the reconcile that has looked its file up left out,
\* and the link at t once that one is over.
Later  == IF found = Unread THEN todo ELSE Tail(todo)
Due    == ToSet(events) \cup ToSet(Later)
Now(t) == IF found # Unread /\ Lower(Head(todo).file) = t THEN found ELSE link[t]

\* Work is due only for files there have been, and a directory's path is only
\* reconciled when the directory was disturbed.
DueInv ==
  /\ \A f \in Files : File(f) \in Due => f \in seen
  /\ \A d \in Dirs : Dir(d) \in Due => d \in upset
  /\ \A l \in Layers, d \in Dirs : Walk(l, d) \in Due => d \in dirs[l] \cup upset

\* A directory that is not watched is about to be walked, or is among the deaf.
WatchInv ==
  \A l \in Layers, d \in Dirs \cup {Top} :
    \/ d \notin dirs[l] \/ d \in watched[l] \/ Walk(l, d) \in Due
    \/ d # Top /\ (Walk(l, Top) \in Due \/ Read(l, Top) \in Due)
    \/ Deaf(l, d)

\* A dead link is about to be reconciled.
DeadInv ==
  \A t \in Targets \ blind :
    \/ Now(t) = NoLink \/ Now(t).file \in files[Now(t).layer]
    \/ File(Now(t).file) \in Due

Scanned(l, d) ==
  Walk(l, d) \in Due \/ Read(l, d) \in Due \/ Walk(l, Top) \in Due \/ Read(l, Top) \in Due

\* So is a link to the wrong file, or a scan is going to come across the right
\* one.
LinkInv ==
  \A f \in seen :
    \/ ~Plain(Lower(f)) \/ Lower(f) \in blind
    \/ Now(Lower(f)) = Winner(f) \/ File(f) \in Due
    \/ \E l \in Layers : f \in files[l] /\ Scanned(l, f.dir)

TreeInv == TreeType /\ DueInv /\ WatchInv /\ DeadInv /\ LinkInv

-----------------------------------------------------------------------------
(* Sequences as the sets of what they hold *)

LEMMA AppendToSet ==
  ASSUME NEW T, NEW s \in Seq(T), NEW e \in T
  PROVE  Append(s, e) \in Seq(T) /\ ToSet(Append(s, e)) = ToSet(s) \cup {e}
<1>1. Append(s, e) \in Seq(T) /\ DOMAIN Append(s, e) = 1..(Len(s) + 1) /\ DOMAIN s = 1..Len(s)
  OBVIOUS
<1>2. \A i \in 1..Len(s) : Append(s, e)[i] = s[i]
  OBVIOUS
<1>3. Append(s, e)[Len(s) + 1] = e /\ Len(s) \in Nat
  OBVIOUS
<1>4. \A x : x \in ToSet(Append(s, e)) <=> x \in ToSet(s) \cup {e}
  BY <1>1, <1>2, <1>3 DEF ToSet
<1>5. QED BY <1>1, <1>4

LEMMA TailToSet ==
  ASSUME NEW T, NEW s \in Seq(T), s # <<>>
  PROVE  /\ Head(s) \in T /\ Tail(s) \in Seq(T)
         /\ ToSet(s) = {Head(s)} \cup ToSet(Tail(s))
<1>1. Head(s) \in T /\ Tail(s) \in Seq(T) /\ Len(s) \in Nat \ {0} /\ Head(s) = s[1]
  OBVIOUS
<1>2. DOMAIN s = 1..Len(s) /\ DOMAIN Tail(s) = 1..(Len(s) - 1)
  OBVIOUS
<1>3. \A i \in 1..(Len(s) - 1) : Tail(s)[i] = s[i + 1]
  OBVIOUS
<1>4. \A i \in 2..Len(s) : i - 1 \in 1..(Len(s) - 1) /\ Tail(s)[i - 1] = s[i]
  BY <1>1, <1>3
<1>5. \A i \in 1..(Len(s) - 1) : i + 1 \in 1..Len(s)
  BY <1>1
<1>6. \A i \in 1..Len(s) : i = 1 \/ i \in 2..Len(s)
  BY <1>1
<1>7. ASSUME NEW x \in ToSet(s) PROVE x = Head(s) \/ x \in ToSet(Tail(s))
  <2>1. PICK i \in 1..Len(s) : s[i] = x
    BY <1>2 DEF ToSet
  <2>2. i = 1 \/ (i - 1 \in 1..(Len(s) - 1) /\ Tail(s)[i - 1] = x)
    BY <1>4, <1>6, <2>1
  <2>3. QED BY <1>1, <1>2, <2>1, <2>2 DEF ToSet
<1>8. ASSUME NEW x \in ToSet(Tail(s)) PROVE x \in ToSet(s)
  <2>1. PICK i \in 1..(Len(s) - 1) : Tail(s)[i] = x
    BY <1>2 DEF ToSet
  <2>2. i + 1 \in DOMAIN s /\ s[i + 1] = x
    BY <1>2, <1>3, <1>5, <2>1
  <2>3. QED BY <2>2 DEF ToSet
<1>9. Head(s) \in ToSet(s)
  BY <1>1, <1>2 DEF ToSet
<1>10. QED BY <1>1, <1>7, <1>8, <1>9

LEMMA ConcatToSet ==
  ASSUME NEW T, NEW s \in Seq(T), NEW u \in Seq(T)
  PROVE  s \o u \in Seq(T) /\ ToSet(s \o u) = ToSet(s) \cup ToSet(u)
<1>1. /\ s \o u \in Seq(T) /\ DOMAIN (s \o u) = 1..(Len(s) + Len(u))
      /\ DOMAIN s = 1..Len(s) /\ DOMAIN u = 1..Len(u) /\ Len(s) \in Nat /\ Len(u) \in Nat
  OBVIOUS
<1>2. \A i \in 1..Len(s) : (s \o u)[i] = s[i]
  OBVIOUS
<1>3. \A i \in 1..Len(u) : (s \o u)[i + Len(s)] = u[i] /\ i + Len(s) \in 1..(Len(s) + Len(u))
  BY <1>1
<1>4. \A i \in 1..(Len(s) + Len(u)) :
        i \in 1..Len(s) \/ (i - Len(s) \in 1..Len(u) /\ (s \o u)[i] = u[i - Len(s)])
  BY <1>1
<1>5. \A i \in 1..Len(s) : i \in 1..(Len(s) + Len(u))
  BY <1>1
<1>6. ASSUME NEW x \in ToSet(s \o u) PROVE x \in ToSet(s) \cup ToSet(u)
  <2>1. PICK i \in 1..(Len(s) + Len(u)) : (s \o u)[i] = x
    BY <1>1 DEF ToSet
  <2>2. CASE i \in 1..Len(s)
    BY <1>1, <1>2, <2>1, <2>2 DEF ToSet
  <2>3. CASE i - Len(s) \in 1..Len(u) /\ (s \o u)[i] = u[i - Len(s)]
    BY <1>1, <2>1, <2>3 DEF ToSet
  <2>4. QED BY <1>4, <2>2, <2>3
<1>7. ASSUME NEW x \in ToSet(s) PROVE x \in ToSet(s \o u)
  BY <1>1, <1>2, <1>5 DEF ToSet
<1>8. ASSUME NEW x \in ToSet(u) PROVE x \in ToSet(s \o u)
  <2>1. PICK i \in 1..Len(u) : u[i] = x
    BY <1>1 DEF ToSet
  <2>2. i + Len(s) \in DOMAIN (s \o u) /\ (s \o u)[i + Len(s)] = x
    BY <1>1, <1>3, <2>1
  <2>3. QED BY <2>2 DEF ToSet
<1>9. QED BY <1>1, <1>6, <1>7, <1>8

LEMMA SetToSeqToSet ==
  ASSUME NEW S, IsFiniteSet(S)
  PROVE  SetToSeq(S) \in Seq(S) /\ ToSet(SetToSeq(S)) = S
<1> DEFINE n == Cardinality(S)
<1>1. n \in Nat /\ \E f \in [1..n -> S] : IsInjective(f)
  BY FS_CardinalityType DEF ExistsBijection, Bijection, Injection
<1>2. SetToSeq(S) \in [1..n -> S] /\ IsInjective(SetToSeq(S))
  BY <1>1 DEF SetToSeq
<1>3. SetToSeq(S) \in Injection(1..n, S)
  BY <1>2 DEF Injection
<1>4. Cardinality(1..n) = n
  BY <1>1, FS_Interval
<1>5. SetToSeq(S) \in Surjection(1..n, S)
  BY <1>3, <1>4, FS_Injection
<1>6. DOMAIN SetToSeq(S) = 1..n /\ \A x \in S : \E i \in 1..n : SetToSeq(S)[i] = x
  BY <1>5 DEF Surjection
<1>7. \A i \in 1..n : SetToSeq(S)[i] \in S
  BY <1>2
<1>8. ToSet(SetToSeq(S)) = S
  BY <1>6, <1>7 DEF ToSet
<1>9. SetToSeq(S) \in Seq(S)
  BY <1>1, <1>2
<1>10. QED BY <1>8, <1>9

-----------------------------------------------------------------------------
(* What a step does to the work that is due and to the links to be *)

LEMMA TaskForms ==
  /\ \A t \in Tasks :
       /\ t.do = "file" => \E f \in Files : t = File(f)
       /\ t.do = "dir" => \E d \in Dirs : t = Dir(d)
       /\ t.do = "walk" => \E l \in Layers, d \in Dirs \cup {Top} : t = Walk(l, d)
       /\ t.do = "read" => \E l \in Layers, d \in Dirs \cup {Top} : t = Read(l, d)
  /\ Reports \subseteq Tasks
  /\ \A f : File(f).do = "file" /\ File(f).file = f
  /\ \A d : Dir(d).do = "dir" /\ Dir(d).dir = d
  /\ \A l, d : /\ Walk(l, d).do = "walk" /\ Walk(l, d).layer = l /\ Walk(l, d).dir = d
               /\ Read(l, d).do = "read" /\ Read(l, d).layer = l /\ Read(l, d).dir = d
BY DEF Tasks, File, Dir, Walk, Read, Reports

LEMMA SourceForms ==
  /\ Unread # NoLink
  /\ \A f : \A x \in Sources(f) : /\ x # Unread
                                  /\ x # NoLink => x.file = f /\ x.layer \in Layers
  /\ \A f : Winner(f) \in Sources(f)
  /\ \A f : Winner(f) = NoLink => f \notin files["common"] \cup files["server"]
  /\ \A f : Winner(f) # NoLink => f \in files[Winner(f).layer]
BY DEF Sources, NoLink, Unread, Layers, Winner

\* What Now(t) may be.
LEMMA NowForms ==
  ASSUME TreeType, NEW t \in Targets
  PROVE  Now(t) = NoLink \/ \E f \in seen : Lower(f) = t /\ Now(t) \in Sources(f)
BY TaskForms DEF TreeType, Now

\* The source changes: at most one report is queued, and nothing else happens to
\* the watcher.
LEMMA Reported ==
  ASSUME TreeType, NEW l \in Layers, NEW ds, NEW e \in Reports,
         Notify(l, ds, e), UNCHANGED <<link, todo, found>>
  PROVE  /\ events' \in Seq(Reports)
         /\ Due' = Due \cup (IF ds \cap watched[l] # {} THEN {e} ELSE {})
         /\ \A t : Now(t)' = Now(t)
<1>1. events \in Seq(Reports)
  BY DEF TreeType
<1>2. Append(events, e) \in Seq(Reports) /\ ToSet(Append(events, e)) = ToSet(events) \cup {e}
  BY <1>1, AppendToSet
<1>3. Later' = Later /\ \A t : Now(t)' = Now(t)
  BY DEF Later, Now
<1>4. CASE ds \cap watched[l] # {}
  <2>1. events' = Append(events, e)
    BY <1>4 DEF Notify
  <2>2. QED BY <1>2, <1>3, <1>4, <2>1 DEF Due
<1>5. CASE ds \cap watched[l] = {}
  <2>1. events' = events
    BY <1>5 DEF Notify
  <2>2. QED BY <1>1, <1>3, <1>5, <2>1 DEF Due
<1>6. QED BY <1>4, <1>5

\* The watcher takes a report e, as the task x.
LEMMA Takes ==
  ASSUME TreeType, NextEvent
  PROVE  \E e \in Reports, x \in Tasks :
           /\ events' \in Seq(Reports) /\ todo' \in Seq(Tasks)
           /\ e \in Due /\ Due \subseteq Due' \cup {e}
           /\ x \in Due' /\ Due' \subseteq Due \cup {x}
           /\ \/ x = e
              \/ \E l \in Layers, d \in Dirs : e = Walk(l, d) /\ d \notin dirs[l] /\ x = Dir(d)
           /\ found = Unread /\ \A t : Now(t)' = Now(t)
<1> DEFINE e == Head(events)
           x == IF e.do = "walk" /\ e.dir \notin dirs[e.layer] THEN Dir(e.dir) ELSE e
<1>1. todo = <<>> /\ events # <<>> /\ todo' = <<x>> /\ events' = Tail(events)
      /\ UNCHANGED <<link, found>>
  BY DEF NextEvent
<1>2. found = Unread
  BY <1>1 DEF TreeType
<1>3. e \in Reports /\ Tail(events) \in Seq(Reports) /\ ToSet(events) = {e} \cup ToSet(Tail(events))
  BY <1>1, TailToSet DEF TreeType
<1>4. x = e \/ \E l \in Layers, d \in Dirs : e = Walk(l, d) /\ d \notin dirs[l] /\ x = Dir(d)
  <2>1. CASE e.do = "walk" /\ e.dir \notin dirs[e.layer]
    <3>1. PICK l \in Layers, d \in Dirs : e = Walk(l, d)
      BY <1>3, <2>1, TaskForms DEF Reports
    <3>2. QED BY <2>1, <3>1, TaskForms
  <2>2. QED BY <2>1
<1>5. x \in Tasks
  BY <1>3, <1>4, TaskForms DEF Tasks
<1> HIDE DEF e, x
<1>6. ToSet(<<>>) = {} /\ ToSet(<<x>>) = {x} /\ <<x>> \in Seq(Tasks)
  BY <1>5 DEF ToSet
<1>7. Later = <<>> /\ Later' = <<x>>
  BY <1>1, <1>2 DEF Later
<1>8. Due = {e} \cup ToSet(Tail(events)) /\ Due' = ToSet(Tail(events)) \cup {x}
  BY <1>1, <1>3, <1>6, <1>7 DEF Due
<1>9. \A t : Now(t)' = Now(t)
  BY <1>1, <1>2 DEF Now
<1>10. QED BY <1>1, <1>2, <1>3, <1>4, <1>5, <1>6, <1>8, <1>9

\* The watcher replaces the task it is at by others.
LEMMA Works ==
  ASSUME TreeType, found = Unread, todo # <<>>, NEW more \in Seq(Tasks),
         todo' = more \o Tail(todo), UNCHANGED <<events, found>>
  PROVE  /\ todo' \in Seq(Tasks) /\ Head(todo) \in Due /\ Head(todo) \in Tasks
         /\ Due \subseteq Due' \cup {Head(todo)}
         /\ ToSet(more) \subseteq Due' /\ Due' \subseteq Due \cup ToSet(more)
<1>1. /\ Head(todo) \in Tasks /\ Tail(todo) \in Seq(Tasks)
      /\ ToSet(todo) = {Head(todo)} \cup ToSet(Tail(todo))
  BY TailToSet DEF TreeType
<1>2. todo' \in Seq(Tasks) /\ ToSet(todo') = ToSet(more) \cup ToSet(Tail(todo))
  <2>1. /\ more \o Tail(todo) \in Seq(Tasks)
        /\ ToSet(more \o Tail(todo)) = ToSet(more) \cup ToSet(Tail(todo))
    <3>1. PICK u : u = Tail(todo)
      OBVIOUS
    <3>2. more \in Seq(Tasks) /\ u \in Seq(Tasks)
      BY <1>1, <3>1
    <3>3. more \o u \in Seq(Tasks) /\ ToSet(more \o u) = ToSet(more) \cup ToSet(u)
      BY ONLY <3>2, ConcatToSet
    <3>4. QED BY <3>1, <3>3, Zenon
  <2>2. QED BY <2>1, Zenon
<1>3. Later = todo /\ Later' = todo'
  BY DEF Later
<1>4. Due = ToSet(events) \cup ToSet(todo) /\ Due' = ToSet(events) \cup ToSet(todo')
  BY <1>3 DEF Due
<1>5. QED BY <1>1, <1>2, <1>4

LEMMA Drops ==
  ASSUME TreeType, found = Unread, todo # <<>>, todo' = Tail(todo), UNCHANGED <<events, found>>
  PROVE  /\ todo' \in Seq(Tasks) /\ Head(todo) \in Due /\ Head(todo) \in Tasks
         /\ Due \subseteq Due' \cup {Head(todo)} /\ Due' \subseteq Due
<1>1. <<>> \in Seq(Tasks) /\ ToSet(<<>>) = {}
  BY DEF ToSet
<1>2. Tail(todo) \in Seq(Tasks)
  BY TailToSet DEF TreeType
<1>3. todo' = <<>> \o Tail(todo)
  BY <1>2
<1>4. QED BY <1>1, <1>3, Works

\* The watcher looks a file up, and then replaces its link: the second half
\* brings about what the first has decided.
LEMMA LooksUp ==
  ASSUME TreeType, Lookup
  PROVE  \E f \in Files :
           /\ Head(todo) = File(f) /\ found = Unread /\ found' = Winner(f) /\ File(f) \in Due
           /\ Due \subseteq Due' \cup {File(f)} /\ Due' \subseteq Due
           /\ \A t : Now(t) = link[t] /\ Now(t)' = IF Lower(f) = t THEN Winner(f) ELSE link[t]
<1>1. /\ todo # <<>> /\ Head(todo).do = "file" /\ found = Unread
      /\ found' = Winner(Head(todo).file) /\ UNCHANGED <<link, events, todo>>
  BY DEF Lookup, Doing
<1>2. /\ Head(todo) \in Tasks /\ ToSet(todo) = {Head(todo)} \cup ToSet(Tail(todo))
  BY <1>1, TailToSet DEF TreeType
<1>3. PICK f \in Files : Head(todo) = File(f)
  BY <1>1, <1>2, TaskForms
<1>4. Head(todo).file = f /\ found' = Winner(f)
  BY <1>1, <1>3, TaskForms
<1>5. found' # Unread
  BY <1>4, SourceForms
<1>6. Later = todo /\ Later' = Tail(todo)
  BY <1>1, <1>5 DEF Later
<1>7. Due = ToSet(events) \cup ToSet(todo) /\ Due' = ToSet(events) \cup ToSet(Tail(todo))
  BY <1>1, <1>6 DEF Due
<1>8. \A t : Now(t) = link[t]
  BY <1>1 DEF Now
<1>9. \A t : Now(t)' = IF Lower(f) = t THEN Winner(f) ELSE link[t]
  BY <1>1, <1>4, <1>5 DEF Now
<1>10. QED BY <1>1, <1>2, <1>3, <1>4, <1>7, <1>8, <1>9

LEMMA Replaces ==
  ASSUME TreeType, Replace
  PROVE  /\ found' = Unread /\ todo' \in Seq(Tasks) /\ Due' = Due
         /\ link' = [t \in Targets |-> Now(t)]
         /\ \A t \in Targets : Now(t)' = Now(t)
<1>1. /\ todo # <<>> /\ found # Unread /\ found' = Unread /\ todo' = Tail(todo)
      /\ link' = [link EXCEPT ![Lower(Head(todo).file)] = found] /\ events' = events
  BY DEF Replace, Doing
<1>2. todo' \in Seq(Tasks)
  BY <1>1, TailToSet DEF TreeType
<1>3. Later' = Later
  BY <1>1 DEF Later
<1>4. link' = [t \in Targets |-> IF Lower(Head(todo).file) = t THEN found ELSE link[t]]
  BY <1>1 DEF TreeType
<1>5. link' = [t \in Targets |-> Now(t)]
  BY <1>1, <1>4 DEF Now
<1>6. \A t \in Targets : Now(t)' = Now(t)
  <2>1. \A t : Now(t)' = link'[t]
    BY <1>1 DEF Now
  <2>2. QED BY <1>5, <2>1
<1>7. QED BY <1>1, <1>2, <1>3, <1>5, <1>6 DEF Due

-----------------------------------------------------------------------------
(* The source tree changes *)

\* A path is not plain again once it is not.
LEMMA PlainBefore ==
  ASSUME seen \subseteq seen', upset \subseteq upset', NEW t, Plain(t)'
  PROVE  Plain(t)
BY DEF Plain

\* What is still due, and a link that is as it was, need no second look.
LEMMA Remains ==
  ASSUME TreeType, LinkInv, NEW f \in seen, Plain(Lower(f)), Lower(f) \notin blind,
         Due \subseteq Due', Now(Lower(f))' = Now(Lower(f)), Winner(f)' = Winner(f),
         \A l \in Layers : f \in files[l] => f \in files'[l]
  PROVE  \/ Now(Lower(f))' = Winner(f)' \/ File(f) \in Due'
         \/ \E l \in Layers : f \in files'[l] /\ Scanned(l, f.dir)'
<1>1. CASE Now(Lower(f)) = Winner(f) \/ File(f) \in Due
  BY <1>1
<1>2. CASE \E l \in Layers : f \in files[l] /\ Scanned(l, f.dir)
  <2>1. PICK l \in Layers : f \in files[l] /\ Scanned(l, f.dir)
    BY <1>2
  <2>2. f \in files'[l]
    BY <2>1
  <2>3. Scanned(l, f.dir)'
    BY <2>1 DEF Scanned
  <2>4. QED BY <2>2, <2>3
<1>3. QED BY <1>1, <1>2 DEF LinkInv

LEMMA CreateKeeps ==
  ASSUME TreeInv, NEW l \in Layers, NEW f \in Files, Create(l, f)
  PROVE  TreeInv'
<1>1. /\ f \notin files[l] /\ f.dir \in dirs[l]
      /\ files' = [files EXCEPT ![l] = @ \cup {f}] /\ seen' = seen \cup {f}
      /\ blind' = IF f.dir \notin watched[l] /\ Deaf(l, f.dir)
                   THEN blind \cup {Lower(f)} ELSE blind
      /\ UNCHANGED <<dirs, watched, deaf, upset, link, todo, found>>
      /\ Notify(l, {f.dir}, File(f))
  BY DEF Create, Changing, watches
<1>2. TreeType
  BY DEF TreeInv
<1>3. File(f) \in Reports
  BY DEF Reports
<1>4. /\ events' \in Seq(Reports)
      /\ Due' = Due \cup (IF f.dir \in watched[l] THEN {File(f)} ELSE {})
      /\ \A t : Now(t)' = Now(t)
  <2>1. /\ events' \in Seq(Reports)
        /\ Due' = Due \cup (IF {f.dir} \cap watched[l] # {} THEN {File(f)} ELSE {})
        /\ \A t : Now(t)' = Now(t)
    BY <1>1, <1>2, <1>3, Reported
  <2>2. {f.dir} \cap watched[l] # {} <=> f.dir \in watched[l]
    OBVIOUS
  <2>3. QED BY <2>1, <2>2
<1>5. files'[l] = files[l] \cup {f} /\ \A m \in Layers : m # l => files'[m] = files[m]
  BY <1>1, <1>2 DEF TreeType
<1>6. TreeType'
  <2>1. /\ seen' \subseteq Files /\ files' \in [Layers -> SUBSET seen']
        /\ \A m \in Layers : \A g \in files'[m] : g.dir \in dirs'[m]
    BY <1>1, <1>2, <1>5 DEF TreeType
  <2>2. \A t \in Targets : \/ link'[t] = NoLink
                            \/ \E g \in seen' : Lower(g) = t /\ link'[t] \in Sources(g)
    BY <1>1, <1>2 DEF TreeType
  <2>3. found' = Unread \/ \E g \in seen' : todo' # <<>> /\ Head(todo') = File(g) /\ found' \in Sources(g)
    BY <1>1, <1>2 DEF TreeType
  <2>4. QED BY <1>1, <1>2, <1>4, <2>1, <2>2, <2>3 DEF TreeType
<1>7. DueInv'
  <2>1. \A x \in Due' : x \in Due \/ x = File(f)
    BY <1>4
  <2>2. QED BY <1>1, <2>1, TaskForms DEF TreeInv, DueInv
<1>8. WatchInv'
  BY <1>1, <1>4 DEF TreeInv, WatchInv, Deaf
<1>9. DeadInv'
  <2> SUFFICES ASSUME NEW t \in Targets \ blind', t \notin blind,
                      Now(t) # NoLink, Now(t).file \in files[Now(t).layer] \/ File(Now(t).file) \in Due
               PROVE  Now(t).file \in files'[Now(t).layer] \/ File(Now(t).file) \in Due'
    BY <1>1, <1>4 DEF TreeInv, DeadInv
  <2>1. Now(t).layer \in Layers
    BY <1>2, NowForms, SourceForms
  <2>2. QED BY <1>4, <1>5, <2>1
<1>10. LinkInv'
  <2> SUFFICES ASSUME NEW g \in seen', Plain(Lower(g))', Lower(g) \notin blind'
               PROVE  \/ Now(Lower(g))' = Winner(g)' \/ File(g) \in Due'
                      \/ \E m \in Layers : g \in files'[m] /\ Scanned(m, g.dir)'
    BY DEF LinkInv
  <2>1. CASE g = f
    <3>1. CASE f.dir \in watched[l]
      BY <1>4, <2>1, <3>1
    <3>2. CASE f.dir \notin watched[l]
      <4>1. \/ Walk(l, f.dir) \in Due
            \/ Walk(l, Top) \in Due \/ Read(l, Top) \in Due
            \/ Deaf(l, f.dir)
        BY <1>1, <1>2, <3>2 DEF TreeInv, WatchInv, TreeType
      <4>2. ~Deaf(l, f.dir)
        BY <1>1, <2>1, <3>2
      <4>3. Scanned(l, f.dir)' /\ f \in files'[l]
        BY <1>4, <1>5, <4>1, <4>2 DEF Scanned
      <4>4. QED BY <2>1, <4>3
    <3>3. QED BY <3>1, <3>2
  <2>2. CASE g # f
    <3>1. g \in seen /\ Plain(Lower(g)) /\ Lower(g) \notin blind
      BY <1>1, <2>2, PlainBefore
    <3>2. Winner(g)' = Winner(g) /\ \A m \in Layers : g \in files[m] => g \in files'[m]
      BY <1>5, <2>2 DEF Winner, Layers
    <3>3. QED BY <1>2, <1>4, <3>1, <3>2, Remains DEF TreeInv
  <2>3. QED BY <2>1, <2>2
<1>11. QED BY <1>6, <1>7, <1>8, <1>9, <1>10 DEF TreeInv

LEMMA DeleteKeeps ==
  ASSUME TreeInv, NEW l \in Layers, NEW f \in Files, Delete(l, f)
  PROVE  TreeInv'
<1>1. /\ f \in files[l] /\ files' = [files EXCEPT ![l] = @ \ {f}]
      /\ blind' = IF f.dir \in watched[l] THEN blind ELSE blind \cup {Lower(f)}
      /\ UNCHANGED <<dirs, watched, deaf, seen, upset, link, todo, found>>
      /\ Notify(l, {f.dir}, File(f))
  BY DEF Delete, Changing, watches
<1>2. TreeType
  BY DEF TreeInv
<1>3. File(f) \in Reports
  BY DEF Reports
<1>4. /\ events' \in Seq(Reports)
      /\ Due' = Due \cup (IF f.dir \in watched[l] THEN {File(f)} ELSE {})
      /\ \A t : Now(t)' = Now(t)
  <2>1. /\ events' \in Seq(Reports)
        /\ Due' = Due \cup (IF {f.dir} \cap watched[l] # {} THEN {File(f)} ELSE {})
        /\ \A t : Now(t)' = Now(t)
    BY <1>1, <1>2, <1>3, Reported
  <2>2. {f.dir} \cap watched[l] # {} <=> f.dir \in watched[l]
    OBVIOUS
  <2>3. QED BY <2>1, <2>2
<1>5. /\ files'[l] = files[l] \ {f} /\ f \in seen
      /\ \A m \in Layers : m # l => files'[m] = files[m]
  BY <1>1, <1>2 DEF TreeType
<1>6. Lower(f) \in blind' \/ File(f) \in Due'
  BY <1>1, <1>4
<1>7. TreeType'
  <2>1. /\ files' \in [Layers -> SUBSET seen']
        /\ \A m \in Layers : \A g \in files'[m] : g.dir \in dirs'[m]
    BY <1>1, <1>2, <1>5 DEF TreeType
  <2>2. QED BY <1>1, <1>2, <1>4, <2>1 DEF TreeType
<1>8. DueInv'
  <2>1. \A x \in Due' : x \in Due \/ x = File(f)
    BY <1>4
  <2>2. QED BY <1>1, <1>5, <2>1, TaskForms DEF TreeInv, DueInv
<1>9. WatchInv'
  BY <1>1, <1>4 DEF TreeInv, WatchInv, Deaf
<1>10. DeadInv'
  <2> SUFFICES ASSUME NEW t \in Targets \ blind', Now(t) # NoLink
               PROVE  Now(t).file \in files'[Now(t).layer] \/ File(Now(t).file) \in Due'
    BY <1>4 DEF DeadInv
  <2>1. t \in Targets \ blind
    BY <1>1
  <2>2. Now(t).file \in files[Now(t).layer] \/ File(Now(t).file) \in Due
    BY <2>1 DEF TreeInv, DeadInv
  <2>3. Now(t).layer \in Layers /\ Lower(Now(t).file) = t
    BY <1>2, <2>1, NowForms, SourceForms
  <2>4. CASE Now(t).file = f
    BY <1>6, <2>3, <2>4
  <2>5. CASE Now(t).file # f
    BY <1>4, <1>5, <2>2, <2>3, <2>5
  <2>6. QED BY <2>4, <2>5
<1>11. LinkInv'
  <2> SUFFICES ASSUME NEW g \in seen', Plain(Lower(g))', Lower(g) \notin blind'
               PROVE  \/ Now(Lower(g))' = Winner(g)' \/ File(g) \in Due'
                      \/ \E m \in Layers : g \in files'[m] /\ Scanned(m, g.dir)'
    BY DEF LinkInv
  <2>1. CASE g = f
    BY <1>6, <2>1
  <2>2. CASE g # f
    <3>1. g \in seen /\ Plain(Lower(g)) /\ Lower(g) \notin blind
      BY <1>1, PlainBefore
    <3>2. Winner(g)' = Winner(g) /\ \A m \in Layers : g \in files[m] => g \in files'[m]
      BY <1>5, <2>2 DEF Winner, Layers
    <3>3. QED BY <1>2, <1>4, <3>1, <3>2, Remains DEF TreeInv
  <2>3. QED BY <2>1, <2>2
<1>12. QED BY <1>7, <1>8, <1>9, <1>10, <1>11 DEF TreeInv

\* A change of the directories alone, reported or not.
LEMMA DirsChange ==
  ASSUME TreeInv, TreeType', UNCHANGED <<files, seen, blind, link, todo, found>>,
         upset \subseteq upset', Due \subseteq Due', \A t : Now(t)' = Now(t)
  PROVE  DeadInv' /\ LinkInv'
<1>1. DeadInv'
  BY DEF TreeInv, DeadInv
<1>2. LinkInv'
  <2> SUFFICES ASSUME NEW g \in seen', Plain(Lower(g))', Lower(g) \notin blind'
               PROVE  \/ Now(Lower(g))' = Winner(g)' \/ File(g) \in Due'
                      \/ \E m \in Layers : g \in files'[m] /\ Scanned(m, g.dir)'
    BY DEF LinkInv
  <2>1. g \in seen /\ Plain(Lower(g)) /\ Lower(g) \notin blind
    BY PlainBefore
  <2>2. Winner(g)' = Winner(g)
    BY DEF Winner
  <2>3. QED BY <2>1, <2>2, Remains DEF TreeInv
<1>3. QED BY <1>1, <1>2

LEMMA MakeDirKeeps ==
  ASSUME TreeInv, NEW l \in Layers, NEW d \in Dirs, MakeDir(l, d)
  PROVE  TreeInv'
<1>1. /\ d \notin dirs[l] /\ Top \in dirs[l] /\ dirs' = [dirs EXCEPT ![l] = @ \cup {d}]
      /\ UNCHANGED <<files, watched, deaf, blind, seen, upset, link, todo, found>>
      /\ Notify(l, {Top}, Walk(l, d))
  BY DEF MakeDir, Changing, watches
<1>2. TreeType /\ d # Top
  BY PathsAssumption DEF TreeInv
<1>3. Walk(l, d) \in Reports
  BY DEF Reports
<1>4. /\ events' \in Seq(Reports)
      /\ Due' = Due \cup (IF Top \in watched[l] THEN {Walk(l, d)} ELSE {})
      /\ \A t : Now(t)' = Now(t)
  <2>1. /\ events' \in Seq(Reports)
        /\ Due' = Due \cup (IF {Top} \cap watched[l] # {} THEN {Walk(l, d)} ELSE {})
        /\ \A t : Now(t)' = Now(t)
    BY <1>1, <1>2, <1>3, Reported
  <2>2. {Top} \cap watched[l] # {} <=> Top \in watched[l]
    OBVIOUS
  <2>3. QED BY <2>1, <2>2
<1>5. dirs'[l] = dirs[l] \cup {d} /\ \A m \in Layers : m # l => dirs'[m] = dirs[m]
  BY <1>1, <1>2 DEF TreeType
<1>6. TreeType'
  <2>1. /\ dirs' \in [Layers -> SUBSET (Dirs \cup {Top})]
        /\ \A m \in Layers : \A g \in files'[m] : g.dir \in dirs'[m]
        /\ \A m \in Layers : \A c \in dirs'[m] : Top \in dirs'[m]
    BY <1>1, <1>2, <1>5 DEF TreeType
  <2>2. QED BY <1>1, <1>2, <1>4, <2>1 DEF TreeType
<1>7. DueInv'
  <2>1. \A x \in Due' : x \in Due \/ x = Walk(l, d)
    BY <1>4
  <2>2. QED BY <1>1, <1>5, <2>1, TaskForms DEF TreeInv, DueInv
<1>8. WatchInv'
  <2> SUFFICES ASSUME NEW m \in Layers, NEW c \in Dirs \cup {Top}, c \in dirs'[m]
               PROVE  \/ c \in watched[m] \/ Walk(m, c) \in Due'
                      \/ c # Top /\ (Walk(m, Top) \in Due' \/ Read(m, Top) \in Due')
                      \/ Deaf(m, c)'
    BY <1>1 DEF WatchInv
  <2>1. CASE m = l /\ c = d
    <3>1. CASE Top \in watched[l]
      BY <1>4, <2>1, <3>1
    <3>2. CASE Top \notin watched[l]
      <4>1. Walk(l, Top) \in Due \/ Deaf(l, Top)
        BY <1>1, <3>2 DEF TreeInv, WatchInv
      <4>2. QED BY <1>1, <1>2, <1>4, <2>1, <4>1 DEF Deaf
    <3>3. QED BY <3>1, <3>2
  <2>2. CASE ~(m = l /\ c = d)
    <3>1. c \in dirs[m]
      BY <1>5, <2>2
    <3>2. QED BY <1>1, <1>4, <3>1 DEF TreeInv, WatchInv, Deaf
  <2>3. QED BY <2>1, <2>2
<1>9. DeadInv' /\ LinkInv'
  BY <1>1, <1>4, <1>6, DirsChange
<1>10. QED BY <1>6, <1>7, <1>8, <1>9 DEF TreeInv

LEMMA RemoveDirKeeps ==
  ASSUME TreeInv, NEW l \in Layers, NEW d \in Dirs, RemoveDir(l, d)
  PROVE  TreeInv'
<1>1. /\ (\A f \in files[l] : f.dir # d) /\ dirs' = [dirs EXCEPT ![l] = @ \ {d}]
      /\ watched' = [watched EXCEPT ![l] = @ \ {d}] /\ upset' = upset \cup {d}
      /\ deaf' = deaf \ {<<l, d>>} /\ UNCHANGED <<files, blind, seen, link, todo, found>>
      /\ Notify(l, {Top, d}, Dir(d))
  BY DEF RemoveDir, Changing
<1>2. TreeType /\ d # Top
  BY PathsAssumption DEF TreeInv
<1>3. Dir(d) \in Reports
  BY DEF Reports
<1>4. /\ events' \in Seq(Reports)
      /\ Due' = Due \cup (IF {Top, d} \cap watched[l] # {} THEN {Dir(d)} ELSE {})
      /\ \A t : Now(t)' = Now(t)
  BY <1>1, <1>2, <1>3, Reported
<1>5. /\ dirs'[l] = dirs[l] \ {d} /\ watched'[l] = watched[l] \ {d}
      /\ \A m \in Layers : m # l => dirs'[m] = dirs[m] /\ watched'[m] = watched[m]
  BY <1>1, <1>2 DEF TreeType
<1>6. TreeType'
  <2>1. /\ dirs' \in [Layers -> SUBSET (Dirs \cup {Top})] /\ watched' \in [Layers -> SUBSET (Dirs \cup {Top})]
        /\ \A m \in Layers : \A g \in files'[m] : g.dir \in dirs'[m]
        /\ \A m \in Layers : \A c \in dirs'[m] : Top \in dirs'[m]
    BY <1>1, <1>2, <1>5 DEF TreeType
  <2>2. QED BY <1>1, <1>2, <1>4, <2>1 DEF TreeType
<1>7. DueInv'
  <2>1. \A x \in Due' : x \in Due \/ x = Dir(d)
    BY <1>4
  <2>2. \A m \in Layers : dirs[m] \cup upset \subseteq dirs'[m] \cup upset'
    BY <1>1, <1>5
  <2>3. QED BY <1>1, <2>1, <2>2, TaskForms DEF TreeInv, DueInv
<1>8. WatchInv'
  <2> SUFFICES ASSUME NEW m \in Layers, NEW c \in Dirs \cup {Top}, c \in dirs'[m]
               PROVE  \/ c \in watched'[m] \/ Walk(m, c) \in Due'
                      \/ c # Top /\ (Walk(m, Top) \in Due' \/ Read(m, Top) \in Due')
                      \/ Deaf(m, c)'
    BY <1>1 DEF WatchInv
  <2>1. c \in dirs[m] /\ ~(m = l /\ c = d)
    BY <1>2, <1>5
  <2>2. c \in watched[m] => c \in watched'[m]
    BY <1>5, <2>1
  <2>3. Deaf(m, c) => Deaf(m, c)'
    BY <1>1, <1>2, <2>1 DEF Deaf
  <2>4. QED BY <1>4, <2>1, <2>2, <2>3 DEF TreeInv, WatchInv
<1>9. DeadInv' /\ LinkInv'
  BY <1>1, <1>4, <1>6, DirsChange
<1>10. QED BY <1>6, <1>7, <1>8, <1>9 DEF TreeInv

LEMMA TouchDirKeeps ==
  ASSUME TreeInv, NEW l \in Layers, NEW d \in Dirs, TouchDir(l, d)
  PROVE  TreeInv'
<1>1. /\ upset' = upset \cup {d}
      /\ UNCHANGED <<files, dirs, watched, deaf, blind, seen, link, todo, found>>
      /\ Notify(l, {Top, d}, Dir(d))
  BY DEF TouchDir, Changing, watches
<1>2. TreeType
  BY DEF TreeInv
<1>3. Dir(d) \in Reports
  BY DEF Reports
<1>4. /\ events' \in Seq(Reports)
      /\ Due' = Due \cup (IF {Top, d} \cap watched[l] # {} THEN {Dir(d)} ELSE {})
      /\ \A t : Now(t)' = Now(t)
  BY <1>1, <1>2, <1>3, Reported
<1>5. TreeType'
  BY <1>1, <1>2, <1>4 DEF TreeType
<1>6. DueInv'
  <2>1. \A x \in Due' : x \in Due \/ x = Dir(d)
    BY <1>4
  <2>2. QED BY <1>1, <2>1, TaskForms DEF TreeInv, DueInv
<1>7. WatchInv'
  BY <1>1, <1>4 DEF TreeInv, WatchInv, Deaf
<1>8. DeadInv' /\ LinkInv'
  BY <1>1, <1>4, <1>5, DirsChange
<1>9. QED BY <1>5, <1>6, <1>7, <1>8 DEF TreeInv

LEMMA MakeRootKeeps ==
  ASSUME TreeInv, NEW l \in Layers, MakeRoot(l)
  PROVE  TreeInv'
<1>1. /\ dirs' = [dirs EXCEPT ![l] = @ \cup {Top}]
      /\ deaf' = IF Walk(l, Top) \in ToSet(todo) THEN deaf ELSE deaf \cup {<<l, Top>>}
      /\ UNCHANGED <<files, watched, events, blind, seen, upset, link, todo, found>>
  BY DEF MakeRoot, Changing
<1>2. TreeType
  BY DEF TreeInv
<1>3. Due' = Due /\ \A t : Now(t)' = Now(t)
  BY <1>1 DEF Due, Later, Now
<1>4. dirs'[l] = dirs[l] \cup {Top} /\ \A m \in Layers : m # l => dirs'[m] = dirs[m]
  BY <1>1, <1>2 DEF TreeType
<1>5. TreeType'
  <2>1. /\ dirs' \in [Layers -> SUBSET (Dirs \cup {Top})]
        /\ \A m \in Layers : \A g \in files'[m] : g.dir \in dirs'[m]
        /\ \A m \in Layers : \A c \in dirs'[m] : Top \in dirs'[m]
    BY <1>1, <1>2, <1>4 DEF TreeType
  <2>2. QED BY <1>1, <1>2, <2>1 DEF TreeType
<1>6. DueInv'
  BY <1>1, <1>3, <1>4 DEF TreeInv, DueInv
<1>7. Walk(l, Top) \in ToSet(todo) => Walk(l, Top) \in Due
  <2>1. CASE found = Unread
    BY <2>1 DEF Due, Later
  <2>2. CASE found # Unread
    <3>1. todo # <<>> /\ Head(todo).do = "file"
      BY <1>2, <2>2, TaskForms DEF TreeType
    <3>2. ToSet(todo) = {Head(todo)} \cup ToSet(Tail(todo))
      BY <1>2, <3>1, TailToSet DEF TreeType
    <3>3. Walk(l, Top) # Head(todo)
      BY <3>1, TaskForms
    <3>4. QED BY <2>2, <3>2, <3>3 DEF Due, Later
  <2>3. QED BY <2>1, <2>2
<1>8. WatchInv'
  <2> SUFFICES ASSUME NEW m \in Layers, NEW c \in Dirs \cup {Top}, c \in dirs'[m]
               PROVE  \/ c \in watched[m] \/ Walk(m, c) \in Due
                      \/ c # Top /\ (Walk(m, Top) \in Due \/ Read(m, Top) \in Due)
                      \/ Deaf(m, c)'
    BY <1>1, <1>3 DEF WatchInv
  <2>1. Deaf(m, c) => Deaf(m, c)'
    BY <1>1 DEF Deaf
  <2>2. CASE m = l /\ c = Top
    BY <1>1, <1>7, <2>2 DEF Deaf
  <2>3. CASE ~(m = l /\ c = Top)
    <3>1. c \in dirs[m]
      BY <1>4, <2>3
    <3>2. QED BY <2>1, <3>1 DEF TreeInv, WatchInv
  <2>4. QED BY <2>2, <2>3
<1>9. DeadInv' /\ LinkInv'
  BY <1>1, <1>3, <1>5, DirsChange
<1>10. QED BY <1>5, <1>6, <1>8, <1>9 DEF TreeInv

LEMMA RemoveRootKeeps ==
  ASSUME TreeInv, NEW l \in Layers, RemoveRoot(l)
  PROVE  TreeInv'
<1>1. /\ dirs[l] = {Top} /\ files[l] = {} /\ dirs' = [dirs EXCEPT ![l] = {}]
      /\ watched' = [watched EXCEPT ![l] = @ \ {Top}] /\ deaf' = deaf \ {<<l, Top>>}
      /\ UNCHANGED <<files, events, blind, seen, upset, link, todo, found>>
  BY DEF RemoveRoot, Changing
<1>2. TreeType
  BY DEF TreeInv
<1>3. Due' = Due /\ \A t : Now(t)' = Now(t)
  BY <1>1 DEF Due, Later, Now
<1>4. /\ dirs'[l] = {} /\ watched'[l] = watched[l] \ {Top}
      /\ \A m \in Layers : m # l => dirs'[m] = dirs[m] /\ watched'[m] = watched[m]
  BY <1>1, <1>2 DEF TreeType
<1>5. TreeType'
  <2>1. /\ dirs' \in [Layers -> SUBSET (Dirs \cup {Top})]
        /\ watched' \in [Layers -> SUBSET (Dirs \cup {Top})]
        /\ \A m \in Layers : \A g \in files'[m] : g.dir \in dirs'[m]
        /\ \A m \in Layers : \A c \in dirs'[m] : Top \in dirs'[m]
    BY <1>1, <1>2, <1>4 DEF TreeType
  <2>2. QED BY <1>1, <1>2, <2>1 DEF TreeType
<1>6. DueInv'
  <2>1. \A m \in Layers, d \in Dirs : d \in dirs[m] => d \in dirs'[m]
    BY <1>1, <1>4, PathsAssumption
  <2>2. QED BY <1>1, <1>3, <2>1 DEF TreeInv, DueInv
<1>7. WatchInv'
  <2> SUFFICES ASSUME NEW m \in Layers, NEW c \in Dirs \cup {Top}, c \in dirs'[m]
               PROVE  \/ c \in watched'[m] \/ Walk(m, c) \in Due
                      \/ c # Top /\ (Walk(m, Top) \in Due \/ Read(m, Top) \in Due)
                      \/ Deaf(m, c)'
    BY <1>1, <1>3 DEF WatchInv
  <2>1. m # l /\ c \in dirs[m] /\ watched'[m] = watched[m]
    BY <1>4
  <2>2. Deaf(m, c) => Deaf(m, c)'
    BY <1>1, <2>1 DEF Deaf
  <2>3. QED BY <2>1, <2>2 DEF TreeInv, WatchInv
<1>8. DeadInv' /\ LinkInv'
  BY <1>1, <1>3, <1>5, DirsChange
<1>9. QED BY <1>5, <1>6, <1>7, <1>8 DEF TreeInv

-----------------------------------------------------------------------------
(* The watcher works *)

\* A task that is not the reconcile of a file finds no lookup under way.
LEMMA NotLooking ==
  ASSUME TreeType, NEW k, Doing(k), k # "file"
  PROVE  found = Unread /\ todo # <<>> /\ \A t : Now(t) = link[t]
<1>1. todo # <<>> /\ Head(todo).do = k
  BY DEF Doing
<1>2. found = Unread
  BY <1>1, TaskForms DEF TreeType
<1>3. QED BY <1>1, <1>2 DEF Now

LEMMA NextEventKeeps ==
  ASSUME TreeInv, NextEvent
  PROVE  TreeInv'
<1>1. TreeType /\ UNCHANGED <<files, dirs, blind, seen, upset, watched, deaf, link, found>>
  BY DEF TreeInv, NextEvent, source, watches
<1>2. PICK e \in Reports, x \in Tasks :
           /\ events' \in Seq(Reports) /\ todo' \in Seq(Tasks)
           /\ e \in Due /\ Due \subseteq Due' \cup {e}
           /\ x \in Due' /\ Due' \subseteq Due \cup {x}
           /\ \/ x = e
              \/ \E l \in Layers, d \in Dirs : e = Walk(l, d) /\ d \notin dirs[l] /\ x = Dir(d)
           /\ found = Unread /\ \A t : Now(t)' = Now(t)
  BY <1>1, Takes
<1>3. TreeType'
  BY <1>1, <1>2 DEF TreeType
<1>4. CASE x = e
  <2>1. Due' = Due
    <3>1. Due \subseteq Due'
      BY <1>2, <1>4
    <3>2. Due' \subseteq Due
      BY <1>2, <1>4
    <3>3. QED BY <3>1, <3>2
  <2>2. DueInv' /\ WatchInv' /\ DeadInv'
    BY <1>1, <1>2, <2>1 DEF TreeInv, DueInv, WatchInv, DeadInv, Deaf
  <2>3. LinkInv'
    <3>1. \A g : Winner(g)' = Winner(g) /\ Plain(Lower(g))' = Plain(Lower(g))
      BY <1>1 DEF Winner, Plain
    <3>2. \A m, c : Scanned(m, c)' = Scanned(m, c)
      BY <2>1 DEF Scanned
    <3>3. QED BY <1>1, <1>2, <2>1, <2>2, <3>1, <3>2 DEF TreeInv, LinkInv
  <2>4. QED BY <1>3, <2>2, <2>3 DEF TreeInv
<1>5. ASSUME NEW l \in Layers, NEW d \in Dirs, e = Walk(l, d), d \notin dirs[l], x = Dir(d)
      PROVE  TreeInv'
  <2>1. d \in upset /\ d # Top
    BY <1>2, <1>5, PathsAssumption DEF TreeInv, DueInv
  <2>2. DueInv'
    <3>1. \A y \in Due' : y \in Due \/ y = Dir(d)
      BY <1>2, <1>5
    <3>2. QED BY <1>1, <2>1, <3>1, TaskForms DEF TreeInv, DueInv
  <2>3. \A y \in Due : y \in Due' \/ y = Walk(l, d)
    BY <1>2, <1>5
  <2>4. WatchInv'
    <3> SUFFICES ASSUME NEW m \in Layers, NEW c \in Dirs \cup {Top}, c \in dirs[m]
                 PROVE  \/ c \in watched[m] \/ Walk(m, c) \in Due'
                        \/ c # Top /\ (Walk(m, Top) \in Due' \/ Read(m, Top) \in Due')
                        \/ Deaf(m, c)'
      BY <1>1 DEF WatchInv
    <3>1. Walk(m, c) # Walk(l, d) /\ Walk(m, Top) # Walk(l, d) /\ Read(m, Top) # Walk(l, d)
      BY <1>5, <2>1, TaskForms
    <3>2. QED BY <1>1, <2>3, <3>1 DEF TreeInv, WatchInv, Deaf
  <2>5. \A g : File(g) \in Due => File(g) \in Due'
    BY <2>3, TaskForms
  <2>6. DeadInv'
    BY <1>1, <1>2, <2>5 DEF TreeInv, DeadInv
  <2>7. LinkInv'
    <3> SUFFICES ASSUME NEW g \in seen, Plain(Lower(g)), Lower(g) \notin blind
                 PROVE  \/ Now(Lower(g))' = Winner(g) \/ File(g) \in Due'
                        \/ \E m \in Layers : g \in files[m] /\ Scanned(m, g.dir)'
      <4>1. \A g : Winner(g)' = Winner(g) /\ Plain(Lower(g))' = Plain(Lower(g))
        BY <1>1 DEF Winner, Plain
      <4>2. QED BY <1>1, <4>1 DEF LinkInv
    <3>1. CASE Now(Lower(g)) = Winner(g) \/ File(g) \in Due
      BY <1>2, <2>5, <3>1
    <3>2. ASSUME NEW m \in Layers, g \in files[m], Scanned(m, g.dir) PROVE Scanned(m, g.dir)'
      <4>1. g.dir \in dirs[m]
        BY <1>1, <3>2 DEF TreeType
      <4>2. Walk(m, g.dir) # Walk(l, d) /\ Walk(m, Top) # Walk(l, d)
        BY <1>5, <2>1, <4>1, TaskForms
      <4>3. Read(m, g.dir) # Walk(l, d) /\ Read(m, Top) # Walk(l, d)
        BY TaskForms
      <4>4. QED BY <2>3, <3>2, <4>2, <4>3 DEF Scanned
    <3>3. QED BY <3>1, <3>2 DEF TreeInv, LinkInv
  <2>8. QED BY <1>3, <2>2, <2>4, <2>6, <2>7 DEF TreeInv
<1>6. QED BY <1>2, <1>4, <1>5

LEMMA ScanWatchKeeps ==
  ASSUME TreeInv, ScanWatch
  PROVE  TreeInv'
<1>1. TreeType /\ Doing("walk") /\ UNCHANGED <<files, dirs, blind, seen, upset, link, events, found>>
  BY DEF TreeInv, ScanWatch, source
<1>2. found = Unread /\ todo # <<>> /\ \A t : Now(t) = link[t]
  BY <1>1, NotLooking
<1>3. Head(todo).do = "walk" /\ Head(todo) \in Tasks
  BY <1>1, <1>2, TailToSet DEF TreeType, Doing
<1>4. PICK l \in Layers, d \in Dirs \cup {Top} : Head(todo) = Walk(l, d)
  BY <1>3, TaskForms
<1>5. Head(todo).layer = l /\ Head(todo).dir = d
  BY <1>4, TaskForms
<1>6. \A t : Now(t)' = Now(t)
  BY <1>1, <1>2 DEF Now
<1>7. \A g : Winner(g)' = Winner(g) /\ Plain(Lower(g))' = Plain(Lower(g))
  BY <1>1 DEF Winner, Plain
<1>8. CASE d \in dirs[l]
  <2>1. Watch(l, d) /\ todo' = <<Read(l, d)>> \o Tail(todo)
    BY <1>5, <1>8 DEF ScanWatch
  <2>2. <<Read(l, d)>> \in Seq(Tasks) /\ ToSet(<<Read(l, d)>>) = {Read(l, d)}
    BY DEF Tasks, ToSet
  <2>3. /\ todo' \in Seq(Tasks)
        /\ Due \subseteq Due' \cup {Walk(l, d)}
        /\ {Read(l, d)} \subseteq Due' /\ Due' \subseteq Due \cup {Read(l, d)}
    BY <1>1, <1>2, <1>4, <2>1, <2>2, Works
  <2>4. \/ watched' = [watched EXCEPT ![l] = @ \cup {d}] /\ deaf' = deaf \ {<<l, d>>}
        \/ watched' = watched /\ deaf' = deaf \cup {<<l, d>>}
    BY <2>1 DEF Watch
  <2>5. /\ watched' \in [Layers -> SUBSET (Dirs \cup {Top})]
        /\ \A m \in Layers : watched[m] \subseteq watched'[m]
        /\ d \in watched'[l] \/ <<l, d>> \in deaf'
        /\ deaf \subseteq deaf' \cup {<<l, d>>}
    BY <1>1, <2>4 DEF TreeType
  <2>6. TreeType'
    BY <1>1, <1>2, <2>3, <2>5 DEF TreeType
  <2>7. DueInv'
    <3>1. \A y \in Due' : y \in Due \/ y = Read(l, d)
      BY <2>3
    <3>2. QED BY <1>1, <3>1, TaskForms DEF TreeInv, DueInv
  <2>8. \A y \in Due : y \in Due' \/ y = Walk(l, d)
    BY <2>3
  <2>9. WatchInv'
    <3> SUFFICES ASSUME NEW m \in Layers, NEW c \in Dirs \cup {Top}, c \in dirs[m]
                 PROVE  \/ c \in watched'[m] \/ Walk(m, c) \in Due'
                        \/ c # Top /\ (Walk(m, Top) \in Due' \/ Read(m, Top) \in Due')
                        \/ Deaf(m, c)'
      BY <1>1 DEF WatchInv
    <3>1. CASE m = l /\ c = d
      BY <2>5, <3>1 DEF Deaf
    <3>2. CASE ~(m = l /\ c = d)
      <4>1. Walk(m, c) \in Due => Walk(m, c) \in Due'
        BY <2>8, <3>2, TaskForms
      <4>2. Read(m, Top) \in Due => Read(m, Top) \in Due'
        BY <2>8, TaskForms
      <4>3. Walk(m, Top) \in Due => Walk(m, Top) \in Due' \/ Read(m, Top) \in Due'
        BY <2>3, <2>8, TaskForms
      <4>4. c \in watched[m] => c \in watched'[m]
        BY <2>5
      <4>5. Deaf(m, c) => Deaf(m, c)' \/ (c # Top /\ Read(m, Top) \in Due')
        <5>1. <<m, c>> \in deaf => <<m, c>> \in deaf'
          BY <2>5, <3>2
        <5>2. CASE m = l /\ d = Top
          BY <2>3, <3>2, <5>2
        <5>3. CASE ~(m = l /\ d = Top)
          <6>1. <<m, Top>> \in deaf => <<m, Top>> \in deaf'
            BY <2>5, <5>3
          <6>2. QED BY <5>1, <6>1 DEF Deaf
        <5>4. QED BY <5>2, <5>3
      <4>6. QED BY <4>1, <4>2, <4>3, <4>4, <4>5 DEF TreeInv, WatchInv
    <3>3. QED BY <3>1, <3>2
  <2>10. \A g : File(g) \in Due => File(g) \in Due'
    BY <2>8, TaskForms
  <2>11. DeadInv'
    BY <1>1, <1>6, <2>10 DEF TreeInv, DeadInv
  <2>12. \A m, c : Scanned(m, c) => Scanned(m, c)'
    <3> TAKE m, c
    <3>1. Read(m, c) \in Due => Read(m, c) \in Due'
      BY <2>8, TaskForms
    <3>2. Read(m, Top) \in Due => Read(m, Top) \in Due'
      BY <2>8, TaskForms
    <3>3. Walk(m, Top) \in Due => Walk(m, Top) \in Due' \/ Read(m, Top) \in Due'
      BY <2>3, <2>8, TaskForms
    <3>4. Walk(m, c) \in Due => Walk(m, c) \in Due' \/ Read(m, c) \in Due'
      BY <2>3, <2>8, TaskForms
    <3>5. QED BY <3>1, <3>2, <3>3, <3>4 DEF Scanned
  <2>13. LinkInv'
    BY <1>1, <1>6, <1>7, <2>10, <2>12 DEF TreeInv, LinkInv
  <2>14. QED BY <2>6, <2>7, <2>9, <2>11, <2>13 DEF TreeInv
<1>9. CASE d \notin dirs[l]
  <2>1. watched' = watched /\ deaf' = deaf /\ todo' = Tail(todo)
    BY <1>5, <1>9 DEF ScanWatch, watches
  <2>2. todo' \in Seq(Tasks) /\ Due \subseteq Due' \cup {Walk(l, d)} /\ Due' \subseteq Due
    BY <1>1, <1>2, <1>4, <2>1, Drops
  <2>3. TreeType'
    BY <1>1, <1>2, <2>1, <2>2 DEF TreeType
  <2>4. DueInv'
    BY <1>1, <2>2 DEF TreeInv, DueInv
  <2>5. \A y \in Due : y \in Due' \/ y = Walk(l, d)
    BY <2>2
  <2>6. \A m, c : c \in dirs[m] /\ Walk(m, c) \in Due => Walk(m, c) \in Due'
    BY <1>9, <2>5, TaskForms
  <2>7. \A m, c : Read(m, c) \in Due => Read(m, c) \in Due'
    BY <2>5, TaskForms
  <2>8. WatchInv'
    <3>1. \A m \in Layers : \A c \in dirs[m] : Walk(m, Top) \in Due => Walk(m, Top) \in Due'
      BY <1>1, <2>6 DEF TreeType
    <3>2. QED BY <1>1, <2>1, <2>6, <2>7, <3>1 DEF TreeInv, WatchInv, Deaf
  <2>9. \A g : File(g) \in Due => File(g) \in Due'
    BY <2>5, TaskForms
  <2>10. DeadInv'
    BY <1>1, <1>6, <2>9 DEF TreeInv, DeadInv
  <2>11. \A m \in Layers : \A g \in files[m] : Scanned(m, g.dir) => Scanned(m, g.dir)'
    <3> TAKE m \in Layers
    <3> TAKE g \in files[m]
    <3>1. g.dir \in dirs[m] /\ Top \in dirs[m]
      BY <1>1 DEF TreeType
    <3>2. QED BY <2>6, <2>7, <3>1 DEF Scanned
  <2>12. LinkInv'
    BY <1>1, <1>6, <1>7, <2>9, <2>11 DEF TreeInv, LinkInv
  <2>13. QED BY <2>3, <2>4, <2>8, <2>10, <2>12 DEF TreeInv
<1>10. QED BY <1>8, <1>9

LEMMA ScanReadKeeps ==
  ASSUME TreeInv, ScanRead
  PROVE  TreeInv'
<1>1. TreeType /\ Doing("read")
      /\ UNCHANGED <<files, dirs, blind, seen, upset, watched, deaf, link, events, found>>
  BY DEF TreeInv, ScanRead, source, watches
<1>2. found = Unread /\ todo # <<>> /\ \A t : Now(t) = link[t]
  BY <1>1, NotLooking
<1>3. Head(todo).do = "read" /\ Head(todo) \in Tasks /\ Tail(todo) \in Seq(Tasks)
  BY <1>1, <1>2, TailToSet DEF TreeType, Doing
<1>4. PICK l \in Layers, d \in Dirs \cup {Top} : Head(todo) = Read(l, d)
  BY <1>3, TaskForms
<1> DEFINE held  == {f \in files[l] : f.dir = d}
           below == IF d = Top THEN dirs[l] \ {Top} ELSE {}
           reconciles == {File(f) : f \in held}
           walks == {Walk(l, c) : c \in below}
<1>5. Head(todo).layer = l /\ Head(todo).dir = d
  BY <1>4, TaskForms
<1>6. /\ held \subseteq files[l] /\ below \subseteq dirs[l] /\ held \subseteq Files /\ below \subseteq Dirs
      /\ held \subseteq seen
  BY <1>1 DEF TreeType
<1>7. IsFiniteSet(reconciles) /\ IsFiniteSet(walks)
  <2>1. IsFiniteSet(Files) /\ IsFiniteSet(Dirs)
    BY PathsAssumption
  <2>2. IsFiniteSet(held) /\ IsFiniteSet(below)
    BY <1>6, <2>1, FS_Subset
  <2> HIDE DEF held, below
  <2> DEFINE F == [f \in held |-> File(f)]
             W == [c \in below |-> Walk(l, c)]
  <2>3. IsFiniteSet(reconciles)
    <3>1. F \in Surjection(held, reconciles)
      BY DEF Surjection
    <3>2. QED BY <2>2, <3>1, FS_Surjection DEF ExistsSurjection
  <2>4. IsFiniteSet(walks)
    <3>1. W \in Surjection(below, walks)
      BY DEF Surjection
    <3>2. QED BY <2>2, <3>1, FS_Surjection DEF ExistsSurjection
  <2>5. QED BY <2>3, <2>4
<1>8. reconciles \subseteq Tasks /\ walks \subseteq Tasks
  BY <1>6 DEF Tasks
<1> DEFINE more == SetToSeq(reconciles) \o SetToSeq(walks)
<1>9. more \in Seq(Tasks) /\ ToSet(more) = reconciles \cup walks
  <2> HIDE DEF reconciles, walks
  <2>1. /\ SetToSeq(reconciles) \in Seq(Tasks) /\ ToSet(SetToSeq(reconciles)) = reconciles
        /\ SetToSeq(walks) \in Seq(Tasks) /\ ToSet(SetToSeq(walks)) = walks
    BY <1>7, <1>8, SetToSeqToSet
  <2>2. QED BY <2>1, ConcatToSet
<1>10. todo' = more \o Tail(todo)
  <2>1. SetToSeq({}) = <<>>
    BY SetToSeqToSet, FS_EmptySet
  <2>2. todo' = SetToSeq(reconciles)
                  \o (IF d = Top THEN SetToSeq({Walk(l, c) : c \in dirs[l] \ {Top}}) ELSE <<>>)
                  \o Tail(todo)
    BY <1>5 DEF ScanRead
  <2>3. (IF d = Top THEN SetToSeq({Walk(l, c) : c \in dirs[l] \ {Top}}) ELSE <<>>) = SetToSeq(walks)
    BY <2>1
  <2>4. QED BY <2>2, <2>3
<1> HIDE DEF more
<1>11. /\ todo' \in Seq(Tasks) /\ Read(l, d) \in Due /\ Due \subseteq Due' \cup {Read(l, d)}
       /\ ToSet(more) \subseteq Due' /\ Due' \subseteq Due \cup ToSet(more)
  BY <1>1, <1>2, <1>4, <1>9, <1>10, Works
<1>12. /\ \A y \in Due : y \in Due' \/ y = Read(l, d)
       /\ \A y \in Due' : y \in Due \/ y \in reconciles \/ y \in walks
       /\ \A f \in held : File(f) \in Due'
       /\ \A c \in below : Walk(l, c) \in Due'
  BY <1>9, <1>11
<1>13. \A t : Now(t)' = Now(t)
  BY <1>1, <1>2 DEF Now
<1>14. TreeType'
  BY <1>1, <1>2, <1>11 DEF TreeType
<1>15. DueInv'
  <2>1. \A g \in Files : File(g) \in Due' => File(g) \in Due \/ g \in held
    BY <1>12, TaskForms
  <2>2. \A c \in Dirs : Dir(c) \in Due' => Dir(c) \in Due
    BY <1>12, TaskForms
  <2>3. \A m \in Layers, c \in Dirs :
          Walk(m, c) \in Due' => Walk(m, c) \in Due \/ (m = l /\ c \in below)
    BY <1>12, TaskForms
  <2> HIDE DEF held, below
  <2>4. QED BY <1>1, <1>6, <2>1, <2>2, <2>3 DEF TreeInv, DueInv
<1>16. \A m, c : Walk(m, c) \in Due => Walk(m, c) \in Due'
  BY <1>12, TaskForms
<1>17. \A m, c : Read(m, c) \in Due => Read(m, c) \in Due' \/ (m = l /\ c = d)
  BY <1>12, TaskForms
<1>18. WatchInv'
  <2> SUFFICES ASSUME NEW m \in Layers, NEW c \in Dirs \cup {Top}, c \in dirs[m]
               PROVE  \/ c \in watched[m] \/ Walk(m, c) \in Due'
                      \/ c # Top /\ (Walk(m, Top) \in Due' \/ Read(m, Top) \in Due')
                      \/ Deaf(m, c)'
    BY <1>1 DEF WatchInv
  <2>1. CASE m = l /\ d = Top /\ c # Top
    BY <1>12, <2>1
  <2>2. CASE ~(m = l /\ d = Top /\ c # Top)
    <3> HIDE DEF held, below, reconciles, walks
    <3>1. QED BY <1>1, <1>16, <1>17, <2>2 DEF TreeInv, WatchInv, Deaf
  <2>3. QED BY <2>1, <2>2
<1>19. \A g : File(g) \in Due => File(g) \in Due'
  BY <1>12, TaskForms
<1>20. DeadInv'
  BY <1>1, <1>13, <1>19 DEF TreeInv, DeadInv
<1>21. ASSUME NEW m \in Layers, NEW g \in files[m], Scanned(m, g.dir)
       PROVE  File(g) \in Due' \/ Scanned(m, g.dir)'
  <2>1. g.dir \in dirs[m]
    BY <1>1 DEF TreeType
  <2>2. CASE m = l /\ g.dir = d
    BY <1>12, <2>2
  <2>3. CASE m = l /\ d = Top /\ g.dir # Top
    BY <1>12, <2>1, <2>3 DEF Scanned
  <2>4. CASE ~(m = l /\ g.dir = d) /\ ~(m = l /\ d = Top /\ g.dir # Top)
    <3> HIDE DEF held, below, reconciles, walks
    <3>1. QED BY <1>16, <1>17, <1>21, <2>4 DEF Scanned
  <2>5. QED BY <2>2, <2>3, <2>4
<1>22. LinkInv'
  <2> HIDE DEF held, below, reconciles, walks
  <2>1. \A g : Winner(g)' = Winner(g) /\ Plain(Lower(g))' = Plain(Lower(g))
    BY <1>1 DEF Winner, Plain
  <2>2. QED BY <1>1, <1>13, <1>19, <1>21, <2>1 DEF TreeInv, LinkInv
<1>23. QED BY <1>14, <1>15, <1>18, <1>20, <1>22 DEF TreeInv

\* Of the files that lead to a plain path only one has ever been there.
LEMMA OneSpelling ==
  ASSUME NEW f \in seen, NEW g \in seen, Lower(f) = Lower(g), Plain(Lower(f))
  PROVE  f = g
BY DEF Plain

LEMMA LookupKeeps ==
  ASSUME TreeInv, Lookup
  PROVE  TreeInv'
<1>1. TreeType /\ todo # <<>>
      /\ UNCHANGED <<files, dirs, blind, seen, upset, watched, deaf, link, events, todo>>
  BY DEF TreeInv, Lookup, source, watches, Doing
<1>2. PICK f \in Files :
           /\ Head(todo) = File(f) /\ found = Unread /\ found' = Winner(f) /\ File(f) \in Due
           /\ Due \subseteq Due' \cup {File(f)} /\ Due' \subseteq Due
           /\ \A t : Now(t) = link[t] /\ Now(t)' = IF Lower(f) = t THEN Winner(f) ELSE link[t]
  BY <1>1, LooksUp DEF TreeInv
<1>3. f \in seen
  BY <1>2 DEF TreeInv, DueInv
<1>4. TreeType'
  <2>1. found' \in Sources(f)
    BY <1>2, SourceForms
  <2>2. QED BY <1>1, <1>2, <1>3, <2>1 DEF TreeType
<1>5. DueInv'
  BY <1>1, <1>2 DEF TreeInv, DueInv
<1>6. \A y \in Due : y \in Due' \/ y = File(f)
  BY <1>2
<1>7. \A m, c : /\ Walk(m, c) \in Due => Walk(m, c) \in Due'
                /\ Read(m, c) \in Due => Read(m, c) \in Due'
  BY <1>6, TaskForms
<1>8. WatchInv'
  BY <1>1, <1>7 DEF TreeInv, WatchInv, Deaf
<1>9. DeadInv'
  <2> SUFFICES ASSUME NEW t \in Targets \ blind, Now(t)' # NoLink
               PROVE  Now(t)'.file \in files[Now(t)'.layer] \/ File(Now(t)'.file) \in Due'
    BY <1>1 DEF DeadInv
  <2>1. CASE Lower(f) = t
    <3>1. Now(t)' = Winner(f) /\ Winner(f).file = f
      BY <1>2, <2>1, SourceForms
    <3>2. QED BY <3>1, SourceForms
  <2>2. CASE Lower(f) # t
    <3>1. Now(t)' = Now(t)
      BY <1>2, <2>2
    <3>2. Lower(Now(t).file) = t
      BY <1>1, <3>1, NowForms, SourceForms
    <3>3. File(Now(t).file) # File(f)
      BY <2>2, <3>2, TaskForms
    <3>4. QED BY <1>6, <3>1, <3>3 DEF TreeInv, DeadInv
  <2>3. QED BY <2>1, <2>2
<1>10. LinkInv'
  <2>1. \A g : Winner(g)' = Winner(g) /\ Plain(Lower(g))' = Plain(Lower(g))
    BY <1>1 DEF Winner, Plain
  <2> SUFFICES ASSUME NEW g \in seen, Plain(Lower(g)), Lower(g) \notin blind
               PROVE  \/ Now(Lower(g))' = Winner(g) \/ File(g) \in Due'
                      \/ \E m \in Layers : g \in files[m] /\ Scanned(m, g.dir)'
    BY <1>1, <2>1 DEF LinkInv
  <2>2. CASE Lower(f) = Lower(g)
    BY <1>2, <1>3, <2>2, OneSpelling
  <2>3. CASE Lower(f) # Lower(g)
    <3>1. Now(Lower(g))' = Now(Lower(g)) /\ File(g) # File(f)
      BY <1>2, <2>3, TaskForms
    <3>2. \A m \in Layers : Scanned(m, g.dir) => Scanned(m, g.dir)'
      BY <1>7 DEF Scanned
    <3>3. QED BY <1>6, <3>1, <3>2 DEF TreeInv, LinkInv
  <2>4. QED BY <2>2, <2>3
<1>11. QED BY <1>4, <1>5, <1>8, <1>9, <1>10 DEF TreeInv

LEMMA ReplaceKeeps ==
  ASSUME TreeInv, Replace
  PROVE  TreeInv'
<1>1. TreeType /\ UNCHANGED <<files, dirs, blind, seen, upset, watched, deaf, events>>
  BY DEF TreeInv, Replace, source, watches
<1>2. /\ found' = Unread /\ todo' \in Seq(Tasks) /\ Due' = Due
      /\ link' = [t \in Targets |-> Now(t)]
      /\ \A t \in Targets : Now(t)' = Now(t)
  BY <1>1, Replaces
<1>3. TreeType'
  <2>1. link' = [t \in Targets |-> link'[t]] /\ \A t \in Targets : link'[t] = Now(t)
    BY <1>2
  <2>2. \A t \in Targets : \/ link'[t] = NoLink
                            \/ \E g \in seen : Lower(g) = t /\ link'[t] \in Sources(g)
    BY <1>1, <2>1, NowForms
  <2>3. QED BY <1>1, <1>2, <2>1, <2>2 DEF TreeType
<1>4. DueInv' /\ WatchInv' /\ DeadInv'
  BY <1>1, <1>2 DEF TreeInv, DueInv, WatchInv, DeadInv, Deaf
<1>5. LinkInv'
  <2>1. \A g : Winner(g)' = Winner(g) /\ Plain(Lower(g))' = Plain(Lower(g))
    BY <1>1 DEF Winner, Plain
  <2>2. \A m, c : Scanned(m, c)' = Scanned(m, c)
    BY <1>2 DEF Scanned
  <2>3. \A g \in seen : Lower(g) \in Targets
    BY <1>1 DEF TreeType, Targets
  <2>4. QED BY <1>1, <1>2, <2>1, <2>2, <2>3 DEF TreeInv, LinkInv
<1>6. QED BY <1>3, <1>4, <1>5 DEF TreeInv

LEMMA ReconcileDirKeeps ==
  ASSUME TreeInv, ReconcileDir
  PROVE  TreeInv'
<1>1. TreeType /\ Doing("dir") /\ todo' = Tail(todo)
      /\ link' = [t \in Targets |-> IF t.dir = Head(todo).dir THEN NoLink ELSE link[t]]
      /\ UNCHANGED <<files, dirs, blind, seen, upset, watched, deaf, events, found>>
  BY DEF TreeInv, ReconcileDir, source, watches
<1>2. found = Unread /\ todo # <<>> /\ \A t : Now(t) = link[t]
  BY <1>1, NotLooking
<1>3. /\ todo' \in Seq(Tasks) /\ Head(todo) \in Due /\ Head(todo) \in Tasks
      /\ Due \subseteq Due' \cup {Head(todo)} /\ Due' \subseteq Due
  BY <1>1, <1>2, Drops
<1>4. PICK d \in Dirs : Head(todo) = Dir(d)
  BY <1>1, <1>3, TaskForms DEF Doing
<1>5. Head(todo).dir = d /\ d \in upset
  BY <1>3, <1>4, TaskForms DEF TreeInv, DueInv
<1>6. \A y \in Due : y \in Due' \/ y = Dir(d)
  BY <1>3, <1>4
<1>7. /\ \A m, c : /\ Walk(m, c) \in Due => Walk(m, c) \in Due'
                   /\ Read(m, c) \in Due => Read(m, c) \in Due'
      /\ \A g : File(g) \in Due => File(g) \in Due'
  BY <1>6, TaskForms
<1>8. \A t \in Targets : Now(t)' = IF t.dir = d THEN NoLink ELSE Now(t)
  <2>1. \A t : Now(t)' = link'[t]
    BY <1>1, <1>2 DEF Now
  <2>2. QED BY <1>1, <1>2, <1>5, <2>1
<1>9. TreeType'
  <2>1. \A t \in Targets : \/ link'[t] = NoLink
                            \/ \E g \in seen : Lower(g) = t /\ link'[t] \in Sources(g)
    BY <1>1 DEF TreeType
  <2>2. link' = [t \in Targets |-> link'[t]]
    BY <1>1
  <2>3. QED BY <1>1, <1>2, <1>3, <2>1, <2>2 DEF TreeType
<1>10. DueInv'
  BY <1>1, <1>3 DEF TreeInv, DueInv
<1>11. WatchInv'
  BY <1>1, <1>7 DEF TreeInv, WatchInv, Deaf
<1>12. DeadInv'
  BY <1>1, <1>7, <1>8 DEF TreeInv, DeadInv
<1>13. LinkInv'
  <2>1. \A g : Winner(g)' = Winner(g) /\ Plain(Lower(g))' = Plain(Lower(g))
    BY <1>1 DEF Winner, Plain
  <2> SUFFICES ASSUME NEW g \in seen, Plain(Lower(g)), Lower(g) \notin blind
               PROVE  \/ Now(Lower(g))' = Winner(g) \/ File(g) \in Due'
                      \/ \E m \in Layers : g \in files[m] /\ Scanned(m, g.dir)'
    BY <1>1, <2>1 DEF LinkInv
  <2>2. Lower(g) \in Targets /\ Lower(g).dir # d
    BY <1>1, <1>5 DEF TreeType, Targets, Plain
  <2>3. Now(Lower(g))' = Now(Lower(g))
    BY <1>8, <2>2
  <2>4. \A m \in Layers : Scanned(m, g.dir) => Scanned(m, g.dir)'
    BY <1>7 DEF Scanned
  <2>5. QED BY <1>7, <2>3, <2>4 DEF TreeInv, LinkInv
<1>14. QED BY <1>9, <1>10, <1>11, <1>12, <1>13 DEF TreeInv

-----------------------------------------------------------------------------
LEMMA TreeInvInit ==
  ASSUME TreeInit
  PROVE  TreeInv
<1>1. /\ found = Unread /\ events = <<>> /\ todo = <<Walk("common", Top), Walk("server", Top)>>
      /\ link = [t \in Targets |-> NoLink]
      /\ seen = files["common"] \cup files["server"] /\ files \in [Layers -> SUBSET Files]
      /\ dirs = [l \in Layers |-> dirs[l]] /\ watched = [l \in Layers |-> {}]
      /\ \A l \in Layers : \A f \in files[l] : f.dir \in dirs[l]
  BY DEF TreeInit
<1>2. ToSet(<<>>) = {} /\ ToSet(todo) = {Walk("common", Top), Walk("server", Top)}
  <2>1. DOMAIN todo = {1, 2} /\ todo[1] = Walk("common", Top) /\ todo[2] = Walk("server", Top)
    BY <1>1
  <2>2. QED BY <2>1 DEF ToSet
<1>3. Due = {Walk(l, Top) : l \in Layers}
  BY <1>1, <1>2 DEF Due, Later, Layers
<1>4. TreeType
  <2>1. seen \subseteq Files /\ files \in [Layers -> SUBSET seen]
    BY <1>1 DEF Layers
  <2>2. todo \in Seq(Tasks)
    BY <1>1 DEF Tasks, Layers
  <2>3. ASSUME NEW l \in Layers PROVE dirs[l] \subseteq Dirs \cup {Top} /\ \A d \in dirs[l] : Top \in dirs[l]
    <3>1. dirs[l] = {} \/ \E ds \in SUBSET Dirs : dirs[l] = ds \cup {Top}
      BY DEF TreeInit
    <3>2. QED BY <3>1
  <2>4. dirs \in [Layers -> SUBSET (Dirs \cup {Top})]
    BY <1>1, <2>3
  <2>5. QED BY <1>1, <2>1, <2>2, <2>3, <2>4 DEF TreeType
<1>5. DueInv
  BY <1>3, TaskForms, PathsAssumption DEF DueInv
<1>6. WatchInv
  BY <1>3 DEF WatchInv
<1>7. DeadInv
  BY <1>1 DEF DeadInv, Now
<1>8. LinkInv
  <2>1. \A f \in seen : \E l \in Layers : f \in files[l] /\ Scanned(l, f.dir)
    BY <1>1, <1>3 DEF Scanned, Layers
  <2>2. QED BY <2>1 DEF LinkInv
<1>9. QED BY <1>4, <1>5, <1>6, <1>7, <1>8 DEF TreeInv

LEMMA TreeInvNext ==
  ASSUME TreeInv, [TreeNext]_treeVars
  PROVE  TreeInv'
<1>1. CASE NextEvent BY <1>1, NextEventKeeps
<1>2. CASE ScanWatch BY <1>2, ScanWatchKeeps
<1>3. CASE ScanRead BY <1>3, ScanReadKeeps
<1>4. CASE Lookup BY <1>4, LookupKeeps
<1>5. CASE Replace BY <1>5, ReplaceKeeps
<1>6. CASE ReconcileDir BY <1>6, ReconcileDirKeeps
<1>7. ASSUME NEW l \in Layers, NEW f \in Files, Create(l, f) \/ Delete(l, f) PROVE TreeInv'
  BY <1>7, CreateKeeps, DeleteKeeps
<1>8. ASSUME NEW l \in Layers, NEW d \in Dirs,
             MakeDir(l, d) \/ RemoveDir(l, d) \/ TouchDir(l, d)
      PROVE  TreeInv'
  BY <1>8, MakeDirKeeps, RemoveDirKeeps, TouchDirKeeps
<1>9. ASSUME NEW l \in Layers, MakeRoot(l) \/ RemoveRoot(l) PROVE TreeInv'
  BY <1>9, MakeRootKeeps, RemoveRootKeeps
<1>10. CASE UNCHANGED treeVars
  <2>1. UNCHANGED <<files, dirs, edits, blind, seen, upset, watched, deaf, link, events, todo, found>>
    BY <1>10 DEF treeVars, source, watches
  <2>2. Due' = Due /\ \A t : Now(t)' = Now(t)
    BY <2>1 DEF Due, Later, Now
  <2>3. /\ \A f : Winner(f)' = Winner(f)
        /\ \A t : Plain(t)' <=> Plain(t)
        /\ \A l, d : Scanned(l, d)' <=> Scanned(l, d)
    BY <2>1, <2>2 DEF Winner, Plain, Scanned
  <2>4. TreeType'
    BY <2>1 DEF TreeInv, TreeType
  <2>5. DueInv' /\ WatchInv'
    BY <2>1, <2>2 DEF TreeInv, DueInv, WatchInv, Deaf
  <2>6. DeadInv'
    BY <2>1, <2>2 DEF TreeInv, DeadInv
  <2>7. LinkInv'
    BY <2>1, <2>2, <2>3 DEF TreeInv, LinkInv
  <2>8. QED BY <2>4, <2>5, <2>6, <2>7 DEF TreeInv
<1>11. QED BY <1>1, <1>2, <1>3, <1>4, <1>5, <1>6, <1>7, <1>8, <1>9, <1>10 DEF TreeNext, Watcher

\* A settled watcher has nothing due, so that each link is the one to be.
LEMMA SettledMirrors ==
  ASSUME TreeInv
  PROVE  Mirrors
<1> SUFFICES ASSUME todo = <<>>, events = <<>>, NEW t \in Targets \ blind
             PROVE  /\ Plain(t) => Shown(t)
                    /\ link[t] # NoLink => link[t].file \in files[link[t].layer]
  BY DEF Mirrors, Settled
<1>1. TreeType /\ found = Unread
  BY DEF TreeInv, TreeType
<1>2. Due = {} /\ Now(t) = link[t]
  BY <1>1 DEF Due, Later, Now, ToSet
<1>3. link[t] # NoLink => link[t].file \in files[link[t].layer]
  BY <1>2 DEF TreeInv, DeadInv
<1>4. ASSUME Plain(t) PROVE Shown(t)
  <2>1. \A l \in Layers : \A g \in files[l] : g \in seen
    BY <1>1 DEF TreeType
  <2>2. CASE \E f \in seen : Lower(f) = t
    <3>1. PICK f \in seen : Lower(f) = t
      BY <2>2
    <3>2. link[t] = Winner(f)
      BY <1>2, <1>4, <3>1 DEF TreeInv, LinkInv, Scanned
    <3>3. \A l \in Layers : \A g \in files[l] : Lower(g) = t => g = f
      BY <1>4, <2>1, <3>1, OneSpelling
    <3>4. \A l \in Layers : {g \in files[l] : Lower(g) = t} # {} <=> f \in files[l]
      BY <3>1, <3>3
    <3>5. "server" \in Layers /\ "common" \in Layers
      BY DEF Layers
    <3>6. CASE f \in files["server"]
      BY <3>1, <3>2, <3>4, <3>5, <3>6 DEF Shown, Winner
    <3>7. CASE f \notin files["server"] /\ f \in files["common"]
      BY <3>1, <3>2, <3>4, <3>5, <3>7 DEF Shown, Winner
    <3>8. CASE f \notin files["server"] /\ f \notin files["common"]
      BY <3>1, <3>2, <3>4, <3>5, <3>8 DEF Shown, Winner
    <3>9. QED BY <3>6, <3>7, <3>8
  <2>3. CASE ~\E f \in seen : Lower(f) = t
    <3>1. link[t] = NoLink
      BY <1>1, <2>3 DEF TreeType
    <3>2. {g \in files["server"] : Lower(g) = t} = {} /\ {g \in files["common"] : Lower(g) = t} = {}
      BY <2>1, <2>3 DEF Layers
    <3>3. QED BY <3>1, <3>2 DEF Shown
  <2>4. QED BY <2>2, <2>3
<1>5. QED BY <1>3, <1>4

\* "Later layers win; absence in all layers removes the symlink" (reconcile), for
\* any layers, roots that are missing, come or go, refused watches, any changes
\* and any order of the changes and the watcher's steps: a watcher that has
\* handled every event left the tree as the layers are, but for the paths that
\* Mirrors excepts.
THEOREM TreeMirrors == TreeSpec => []Mirrors
<1>1. TreeInit => TreeInv
  BY TreeInvInit
<1>2. TreeInv /\ [TreeNext]_treeVars => TreeInv'
  BY TreeInvNext
<1>3. TreeInv => Mirrors
  BY SettledMirrors
<1>4. QED BY <1>1, <1>2, <1>3, PTL DEF TreeSpec
=============================================================================
