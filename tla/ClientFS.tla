------------------------------ MODULE ClientFS ------------------------------
(***************************************************************************)
(* What a client may download (assets/clientfs.go, clientfs_pak.go): the   *)
(* scan of a mod's layers for a manifest, the directory of each PAK taken  *)
(* from a cache (PakIndexCache) that all scans share, while files come, go *)
(* and are replaced.                                                       *)
(*                                                                         *)
(* One mod; the CD tracks, a walk of their own under names of their own,   *)
(* are left out.  A PAK is present in some version, which stands for its   *)
(* modification time and size: a file that is replaced gets a version      *)
(* never seen before.  Entries of one PAK have different keys.             *)
(*                                                                         *)
(* issue, a request to GET /gamedir, while it scans: "idle", "list",       *)
(* "stat", "check", "read", "store", "walk", "back"; then see Manifests.   *)
(***************************************************************************)
EXTENDS Naturals, Sequences, FiniteSets, TLC, SequencesExt

CONSTANTS
  Refs,              \* requests to /gamedir, and the refs they draw
  Paks,              \* names of PAK files
  PakSortKey,        \* pakSortKey: PAK -> <<group, number, place of its name>>
  LooseNames,        \* names of other files, in the order WalkDir visits them
  NormalizeVFSKey,   \* name of a file or an entry -> its key
  Entries,           \* version -> the entries of a PAK, or Malformed
  Malformed,
  Loads              \* the cases: [disk, changes, time, refs, gets]

clientLayers == <<"common", "client">>
LayerNames   == ToSet(clientLayers)

ASSUME PaksAssumption ==
  /\ IsFiniteSet(Paks) /\ PakSortKey \in [Paks -> [1..3 -> Nat]]
  /\ \A p, q \in Paks : PakSortKey[p] = PakSortKey[q] => p = q
  /\ DOMAIN Entries \subseteq Nat \ {0}
  /\ \A v \in DOMAIN Entries : Entries[v] # Malformed =>
       /\ Entries[v] \subseteq DOMAIN NormalizeVFSKey
       /\ \A m, n \in Entries[v] : NormalizeVFSKey[m] = NormalizeVFSKey[n] => m = n

ASSUME LooseAssumption ==
  /\ LooseNames \in Seq(DOMAIN NormalizeVFSKey)
  /\ \A i, j \in DOMAIN LooseNames : LooseNames[i] = LooseNames[j] => i = j

\* The trees to begin with; where files are replaced, the versions from 2 on are
\* for those to come.
ASSUME LoadsAssumption ==
  \A l \in Loads :
    /\ l.changes \in Nat
    /\ l.disk \in [pak : [LayerNames -> [Paks -> DOMAIN Entries \cup {0}]],
                   loose : [LayerNames -> SUBSET ToSet(LooseNames)]]
    /\ l.changes # 0 => \A n \in LayerNames, p \in Paks : l.disk.pak[n][p] < 2

VARIABLES
  load,      \* the case, which no step changes
  disk,      \* [pak: layer -> PAK -> version, or 0; loose: layer -> files]
  changes,   \* changes so far
  cache,     \* PakIndexCache.byPath: <<layer, PAK>> -> [label, version]
  issue,
  scan,      \* of a request: [layer, todo, label, version, byKey]
  steady     \* requests since whose start nothing on disk has changed

fsVars == <<disk, changes, cache>>

NoIndex == [label |-> 0, version |-> 0]

\* A scan with these PAKs of a layer before it, and this in the manifest so far.
ScanAt(layer, todo, byKey) ==
  [layer |-> layer, todo |-> todo, label |-> 0, version |-> 0, byKey |-> byKey]

NoScan == ScanAt(1, <<>>, <<>>)

FSInit ==
  /\ load \in Loads
  /\ disk = load.disk /\ changes = 0
  /\ cache = [p \in LayerNames \X Paks |-> NoIndex]
  /\ issue = [r \in Refs |-> "idle"]
  /\ scan = [r \in Refs |-> NoScan]
  /\ steady = {}

-----------------------------------------------------------------------------
(* The contents of one layer, overlaid on byKey: key -> assetBacking *)

Backing(layer, file, version, name) ==
  [layer |-> layer, file |-> file, version |-> version, name |-> name]

\* Assignments to byKey, of the values of f.
Assigned(byKey, f) ==
  [k \in DOMAIN byKey \cup DOMAIN f |-> IF k \in DOMAIN f THEN f[k] ELSE byKey[k]]

\* explodePakIntoManifest
Explode(byKey, layer, pak, v) ==
  LET named(k) == CHOOSE n \in Entries[v] : NormalizeVFSKey[n] = k
  IN Assigned(byKey, [k \in {NormalizeVFSKey[n] : n \in Entries[v]} |->
                        Backing(layer, pak, v, named(k))])

\* A loose file.
Lists(byKey, layer, n) ==
  Assigned(byKey, [k \in {NormalizeVFSKey[n]} |-> Backing(layer, n, 0, n)])

\* The walk over loose files: the later of two spellings of a key stays.
Overlay(byKey, layer, loose) ==
  LET walked[i \in 0..Len(LooseNames)] ==
        IF i = 0 THEN byKey
        ELSE IF LooseNames[i] \in loose THEN Lists(walked[i - 1], layer, LooseNames[i])
        ELSE walked[i - 1]
  IN walked[Len(LooseNames)]

Below(a, b) ==
  \E i \in 1..3 : /\ PakSortKey[a][i] < PakSortKey[b][i]
                  /\ \A j \in 1..(i - 1) : PakSortKey[a][j] = PakSortKey[b][j]

\* listLayerPakFiles: pak0 < pak1 < ... < the others by name.
ListLayerPakFiles(layer) ==
  LET here == {p \in Paks : disk.pak[layer][p] # 0}
  IN CHOOSE s \in [1..Cardinality(here) -> here] :
       \A i, j \in DOMAIN s : i < j => Below(s[i], s[j])

-----------------------------------------------------------------------------
(* buildVFSManifestWithWarnings *)

Layer(r) == clientLayers[scan[r].layer]
Pak(r)   == Head(scan[r].todo)

Scan(r, from, to, s) ==
  /\ issue[r] = from
  /\ issue' = [issue EXCEPT ![r] = to]
  /\ scan' = [scan EXCEPT ![r] = s]

\* On to the next PAK, with this one's entries in s.byKey or skipped.
NextPak(r, from, byKey) ==
  LET rest == Tail(scan[r].todo)
  IN Scan(r, from, IF rest = <<>> THEN "walk" ELSE "stat",
          ScanAt(scan[r].layer, rest, byKey))

ScanStart(r) ==
  /\ r \in load.refs
  /\ Scan(r, "idle", "list", NoScan)
  /\ steady' = steady \cup {r}
  /\ UNCHANGED fsVars

ScanPaks(r) ==
  /\ LET paks == ListLayerPakFiles(Layer(r))
     IN Scan(r, "list", IF paks = <<>> THEN "walk" ELSE "stat", [scan[r] EXCEPT !.todo = paks])
  /\ UNCHANGED <<fsVars, steady>>

\* PakIndexCache.get: stat the file ...
PakStat(r) ==
  /\ issue[r] = "stat"
  /\ LET v == disk.pak[Layer(r)][Pak(r)]
     IN IF v = 0 THEN NextPak(r, "stat", scan[r].byKey)
                 ELSE Scan(r, "stat", "check", [scan[r] EXCEPT !.label = v])
  /\ UNCHANGED <<fsVars, steady>>

\* ... take what is cached under the same time and size ...
PakCheck(r) ==
  LET c == cache[<<Layer(r), Pak(r)>>] IN
  /\ issue[r] = "check"
  /\ IF c.label = scan[r].label
       THEN NextPak(r, "check", Explode(scan[r].byKey, Layer(r), Pak(r), c.version))
       ELSE Scan(r, "check", "read", scan[r])
  /\ UNCHANGED <<fsVars, steady>>

\* ... or read the directory, of the file as it is by now ...
PakRead(r) ==
  /\ issue[r] = "read"
  /\ LET v == disk.pak[Layer(r)][Pak(r)]
     IN IF v = 0 \/ Entries[v] = Malformed
          THEN NextPak(r, "read", scan[r].byKey)
          ELSE Scan(r, "read", "store", [scan[r] EXCEPT !.version = v])
  /\ UNCHANGED <<fsVars, steady>>

\* Mutant: the file is asked for its time once more when the index is stored.
PakStore_late(r) ==
  /\ issue[r] = "store"
  /\ cache' = [cache EXCEPT ![<<Layer(r), Pak(r)>>] =
                 [label |-> disk.pak[Layer(r)][Pak(r)], version |-> scan[r].version]]
  /\ NextPak(r, "store", Explode(scan[r].byKey, Layer(r), Pak(r), scan[r].version))
  /\ UNCHANGED <<disk, changes, steady>>

\* ... and store it under the time and size of before.
PakStore(r) ==
  /\ issue[r] = "store"
  /\ cache' = [cache EXCEPT ![<<Layer(r), Pak(r)>>] =
                 [label |-> scan[r].label, version |-> scan[r].version]]
  /\ NextPak(r, "store", Explode(scan[r].byKey, Layer(r), Pak(r), scan[r].version))
  /\ UNCHANGED <<disk, changes, steady>>

\* The walk of the layer's other files; on to the next layer.
WalkLoose(r) ==
  /\ LET byKey == Overlay(scan[r].byKey, Layer(r), disk.loose[Layer(r)])
         last  == scan[r].layer = Len(clientLayers)
     IN Scan(r, "walk", IF last THEN "back" ELSE "list",
             ScanAt(IF last THEN 1 ELSE scan[r].layer + 1, <<>>, byKey))
  /\ UNCHANGED <<fsVars, steady>>

ScanStep(r) ==
  ScanStart(r) \/ ScanPaks(r) \/ PakStat(r) \/ PakCheck(r) \/ PakRead(r) \/ PakStore(r)
    \/ WalkLoose(r)

-----------------------------------------------------------------------------
(* Files come, go and are replaced. *)

Changed(d) == disk' = d /\ changes' = changes + 1 /\ steady' = {} /\ UNCHANGED cache

PakChanges ==
  \E l \in LayerNames, p \in Paks, v \in {0, changes + 2} :
    v \in DOMAIN Entries \cup {0} /\ Changed([disk EXCEPT !.pak[l][p] = v])

LooseChanges ==
  \E l \in LayerNames, n \in ToSet(LooseNames) :
    Changed([disk EXCEPT !.loose[l] = (@ \cup {n}) \ (@ \cap {n})])

DiskChanges == changes < load.changes /\ (PakChanges \/ LooseChanges)

-----------------------------------------------------------------------------
(* The reference *)

Held(d) ==
  (UNION {{Backing(l, p, d.pak[l][p], n) :
             n \in IF d.pak[l][p] = 0 \/ Entries[d.pak[l][p]] = Malformed
                     THEN {} ELSE Entries[d.pak[l][p]]} : l \in LayerNames, p \in Paks})
  \cup (UNION {{Backing(l, n, 0, n) : n \in d.loose[l]} : l \in LayerNames})

Place(seq, x) == CHOOSE i \in DOMAIN seq : seq[i] = x

\* "loose files > pak files", "higher numbers override lower ones", later layers win.
Overrides(b, c) ==
  IF b.layer # c.layer
    THEN Place(clientLayers, b.layer) > Place(clientLayers, c.layer)
  ELSE IF b.version = 0 /\ c.version = 0
    THEN Place(LooseNames, b.file) > Place(LooseNames, c.file)
  ELSE IF b.version # 0 /\ c.version # 0 THEN Below(c.file, b.file)
  ELSE b.version = 0

\* What a client of this tree should see.
VFS(d) ==
  LET of(k) == {b \in Held(d) : NormalizeVFSKey[b.name] = k}
  IN [k \in {NormalizeVFSKey[b.name] : b \in Held(d)} |->
        CHOOSE b \in of(k) : \A c \in of(k) : b = c \/ Overrides(b, c)]
=============================================================================
