------------------------------ MODULE Manifests ------------------------------
(***************************************************************************)
(* Issued asset manifests (assets/manifest.go): GET /gamedir scans the     *)
(* tree and registers a fresh set of content addresses under a new ref;    *)
(* GET /pak/<hash> looks an address up.  Manifests expire after a TTL, are *)
(* pruned when one is issued or a lookup misses, and the oldest is evicted *)
(* at a cap.  Requests run concurrently; the scan and the reading of the   *)
(* clock happen outside the lock.                                          *)
(*                                                                         *)
(* A ref names the request that issues it; the hash of an asset stands for *)
(* its pair of ref and logical path.  Time is a counter.                   *)
(***************************************************************************)
EXTENDS ClientFS

CONSTANTS
  Gets,          \* requests to /pak
  TTL,           \* manifestTTL
  MaxLive,       \* maxLiveManifests
  Never          \* not a time: no manifest under this ref

ASSUME ManifestsAssumption ==
  /\ TTL \in Nat /\ MaxLive \in Nat \ {0} /\ Never \notin Nat

Keys   == {NormalizeVFSKey[n] : n \in DOMAIN NormalizeVFSKey}
Hashes == Refs \X Keys

VARIABLES
  clock,
  created,     \* manifests: ref -> createdAt, or Never
  assets,      \* manifests: ref -> the hashes of the manifest
  byHash,      \* the keys of assetsByHash
  stamp,       \* the time a request to /gamedir read before it took the lock
  get,         \* requests to /pak: "idle", "fast", "slow", "found", "served", "missed"
  want         \* the hash such a request asks for

store   == <<created, assets, byHash>>
scans   == <<fsVars, issue, scan, steady>>
runVars == <<scans, clock, store, stamp, get, want>>
vars    == <<runVars, load>>

Init ==
  /\ FSInit
  /\ clock = 0
  /\ created = [r \in Refs |-> Never]
  /\ assets = [r \in Refs |-> {}]
  /\ byHash = {}
  /\ stamp = [r \in Refs |-> 0]
  /\ get = [g \in Gets |-> "idle"]
  /\ want \in [Gets -> IF load.gets = {} THEN {CHOOSE h \in Hashes : TRUE} ELSE Hashes]

Live == {r \in Refs : created[r] # Never}

\* now.Sub(createdAt) > g.manifestTTL
Expired(r, now) == r \in Live /\ now > created[r] + TTL

-----------------------------------------------------------------------------
TimePasses ==
  /\ clock < load.time
  /\ clock' = clock + 1
  /\ UNCHANGED <<scans, store, stamp, get, want>>

-----------------------------------------------------------------------------
(* IssueManifest *)

Ends(r) ==
  /\ issue' = [issue EXCEPT ![r] = "done"]
  /\ scan' = [scan EXCEPT ![r] = NoScan] /\ steady' = steady \ {r}
  /\ UNCHANGED <<fsVars, clock, store, stamp, get, want>>

Present(b) ==
  IF b.version = 0 THEN b.file \in disk.loose[b.layer] ELSE disk.pak[b.layer][b.file] # 0

\* hashedAssetFromEntry: every file is looked at once more, and one that has gone
\* is an error.  All of it without the lock.
Build(r) ==
  /\ issue[r] = "back"
  /\ LET byKey == scan[r].byKey IN
     IF \E k \in DOMAIN byKey : ~Present(byKey[k]) THEN Ends(r)
     ELSE /\ issue' = [issue EXCEPT ![r] = "built"]
          /\ assets' = [assets EXCEPT ![r] = {r} \X DOMAIN byKey]
          /\ UNCHANGED <<fsVars, scan, steady, clock, created, byHash, stamp, get, want>>

\* There is no mod, a PAK below the top of a layer, or an error of the file system.
BuildFails(r) ==
  /\ issue[r] \in {"list", "walk"}
  /\ Ends(r)

\* now := time.Now(), still without the lock.
Stamp(r) ==
  /\ issue[r] = "built"
  /\ issue' = [issue EXCEPT ![r] = "stamped"]
  /\ stamp' = [stamp EXCEPT ![r] = clock]
  /\ UNCHANGED <<fsVars, scan, steady, clock, store, get, want>>

\* Mutant: a removal leaves the hashes behind.
Kept_leaks(gone) == byHash

\* removeManifestLocked: what is left of assetsByHash.
Kept(gone) == byHash \ UNION {assets[r] : r \in gone}

\* The manifests evictOldestLocked may choose from S: the first of the oldest
\* in the map's random order.
Oldest(S) == {r \in S : \A q \in S : created[r] <= created[q]}

MustEvict(S) == Cardinality(S) >= MaxLive

\* pruneExpiredLocked
Prunable(now) == {r \in Live : Expired(r, now)}

\* The critical section: prune, evict at the cap, register.
Register(r) ==
  LET pruned == Prunable(stamp[r])
      rest   == Live \ pruned
  IN /\ issue[r] = "stamped"
     /\ \E evicted \in IF MustEvict(rest) THEN {{o} : o \in Oldest(rest)} ELSE {{}} :
          LET gone == pruned \cup evicted IN
          /\ byHash' = Kept(gone) \cup assets[r]
          /\ created' = [q \in Refs |-> IF q = r THEN stamp[r]
                                        ELSE IF q \in gone THEN Never ELSE created[q]]
     /\ issue' = [issue EXCEPT ![r] = "done"]
     /\ UNCHANGED <<fsVars, scan, steady, clock, assets, stamp, get, want>>

-----------------------------------------------------------------------------
(* AssetHandler and lookupAsset *)

Get(g) ==
  /\ g \in load.gets /\ get[g] = "idle"
  /\ get' = [get EXCEPT ![g] = "fast"]
  /\ UNCHANGED <<scans, clock, store, stamp, want>>

\* Under the read lock.
LookupFast(g) ==
  /\ get[g] = "fast"
  /\ get' = [get EXCEPT ![g] = IF want[g] \in byHash THEN "found" ELSE "slow"]
  /\ UNCHANGED <<scans, clock, store, stamp, want>>

\* Under the write lock: prune, and look again.
LookupSlow(g) ==
  LET gone == Prunable(clock) IN
  /\ get[g] = "slow"
  /\ byHash' = Kept(gone)
  /\ created' = [q \in Refs |-> IF q \in gone THEN Never ELSE created[q]]
  /\ get' = [get EXCEPT ![g] = IF want[g] \in byHash' THEN "found" ELSE "missed"]
  /\ UNCHANGED <<scans, clock, assets, stamp, want>>

\* asset.open: the manifest names the file, and the file may be gone by now.
Open(g) ==
  /\ get[g] = "found"
  /\ get' = [get EXCEPT ![g] = IF Present(scan[want[g][1]].byKey[want[g][2]]) THEN "served"
                               ELSE "missed"]
  /\ UNCHANGED <<scans, clock, store, stamp, want>>

\* The client asks again.
Again(g) ==
  /\ get[g] \in {"served", "missed"}
  /\ get' = [get EXCEPT ![g] = "idle"]
  /\ UNCHANGED <<scans, clock, store, stamp, want>>

-----------------------------------------------------------------------------
Next ==
  /\ \/ TimePasses
     \/ DiskChanges /\ UNCHANGED <<issue, scan, clock, store, stamp, get, want>>
     \/ \E r \in Refs :
          \/ ScanStep(r) /\ UNCHANGED <<clock, store, stamp, get, want>>
          \/ Build(r) \/ BuildFails(r) \/ Stamp(r) \/ Register(r)
     \/ \E g \in Gets : Get(g) \/ LookupFast(g) \/ LookupSlow(g) \/ Open(g) \/ Again(g)
  /\ UNCHANGED load

Spec == Init /\ [][Next]_vars

-----------------------------------------------------------------------------
(* Properties *)

\* "manifests and assetsByHash must stay in sync on every removal path": an
\* address resolves exactly while a live manifest holds it, with requests
\* pruning, evicting and registering in any order; and the cap on live manifests
\* holds when several that were built at the same time are registered.
InSync == byHash = UNION {assets[r] : r \in Live} /\ Cardinality(Live) <= MaxLive

\* "loose files > pak files", "higher numbers override lower ones", later layers
\* win (overlayLayerIntoManifest), also with the index of a PAK taken from a cache
\* that other requests fill while files are replaced: a manifest, as long as
\* nothing has changed since it was begun, leads at each path to what the tree
\* has there.
ListsTheTree ==
  \A r \in steady : issue[r] \in {"back", "built", "stamped", "done"} =>
                     scan[r].byKey = VFS(disk)
=============================================================================
