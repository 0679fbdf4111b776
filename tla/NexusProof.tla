------------------------------ MODULE NexusProof ------------------------------
(***************************************************************************)
(* Proofs about Nexus from boot to boot, for any catalog, any contents of  *)
(* GAME_DIR at first, any edits and any number of boots, each of which may *)
(* end at any step; about the merge of launch lines with their groups, for *)
(* any servers.ini; and about the start of a server, for any number of     *)
(* runs, any ports, search paths and channels.                             *)
(***************************************************************************)
EXTENDS Nexus, Startup, TLAPS, SequenceTheorems, FiniteSetTheorems, WellFoundedInduction

First(i) == \A j \in 1..i - 1 : EntryName(Catalog[j]) # EntryName(Catalog[i])

SlotOf(i, l) == <<EntryName(Catalog[i]), l>>

TaskOf(i, l) == [slot |-> SlotOf(i, l), sources |-> Catalog[i].layers[l],
                 force |-> Catalog[i].force]

Firsts == {i \in DOMAIN Catalog : First(i)}

\* The layers that are ever installed.
Tasks == {TaskOf(i, l) : i \in Firsts, l \in ToSet(Layers)}

QPoints == {"off", "stat", "create", "write", "list", "layer", "source", "file", "copy", "done"}

Types ==
  /\ game \in [Games -> {"down", "up", "term", "exited"}]
  /\ disk \in [Slots -> [Files -> {"none", "dir", "torn", "packed", "user"}]]
  /\ qpc \in QPoints
  /\ pending \in Seq(Tasks)

\* The installation belongs to one stretch of a boot; what runs was started
\* after it.
Phases ==
  /\ pc = "gone" => qpc = "off"
  /\ pc \in {"tls", "bind"} => qpc = "stat"
  /\ pc \notin {"tls", "bind", "init", "gone"} => qpc = "done"
  /\ pc # "gone" => \A g \in Games : game[g] = "up" => qpc = "done"

\* Quickstart never gets to write a servers.ini that is the operator's.
IniKept == ownIni # NoFile => ini = ownIni /\ qpc \notin {"create", "write"}

Installing == qpc \in {"source", "file", "copy"}

\* A file of a source that is not to come any more is on disk, unless it is to
\* be written once more; a layer that is not forced had none when it was begun.
Work ==
  Installing =>
    LET t == Head(pending) IN
    /\ pending # <<>>
    /\ srcs \in Seq(Seq(Files))
    /\ qpc # "source" => files \in Seq(Files)
    /\ qpc = "copy" => files # <<>>
    /\ \A s \in ToSet(t.sources) :
         \/ s \in ToSet(srcs)
         \/ \A f \in ToSet(s) : \/ disk[t.slot][f] = "packed"
                                \/ qpc # "source" /\ f \in ToSet(files)
    /\ t.force \/ \A f \in Files : disk[t.slot][f] # "user"

Untouched(s) == \A f \in Files : disk[s][f] = "none"

\* Every layer is empty, complete, known to be half installed, or being installed.
Settled ==
  \A i \in Firsts, l \in ToSet(Layers) :
    \/ Untouched(SlotOf(i, l)) \/ Complete(Catalog[i], l) \/ SlotOf(i, l) \in cut
    \/ Installing /\ Head(pending).slot = SlotOf(i, l)

\* Once the plan is made, a layer of it is settled or still to come.
Plan ==
  /\ qpc = "done" => pending = <<>>
  /\ qpc \in {"layer", "source", "file", "copy", "done"} =>
       \A i \in DOMAIN Catalog, l \in ToSet(Layers) : Planned(i) =>
         \/ Complete(Catalog[i], l) \/ SlotOf(i, l) \in cut
         \/ \E t \in ToSet(pending) : t.slot = SlotOf(i, l)

Inv == Types /\ Phases /\ IniKept /\ Work /\ Settled /\ Plan
-----------------------------------------------------------------------------
(* Sequences *)

\* Every nonempty set of numbers has a least member.
LEMMA Least ==
  ASSUME NEW T, T \subseteq Nat, T # {}
  PROVE  \E x \in T : \A y \in T : x <= y
<1> DEFINE R == {ss \in Nat \X Nat : ss[1] < ss[2]}
<1>1. IsWellFoundedOn(R, Nat)
  <2>1. OpToRel(<, Nat) = R
        BY Zenon DEF OpToRel
  <2>. QED BY <2>1, NatLessThanWellFounded, Zenon
<1>2. \A x, y \in Nat : y < x => <<y, x>> \in R
  <2> TAKE x, y \in Nat
  <2> HAVE y < x
  <2>1. <<y, x>> \in Nat \X Nat /\ <<y, x>>[1] < <<y, x>>[2]
        OBVIOUS
  <2>. QED BY <2>1, Zenon
<1> HIDE DEF R
<1>3. \E x \in T : \A y \in T : ~(<<y, x>> \in R)
      BY <1>1, WFMin
<1>4. \E x \in T : \A y \in T : ~(y < x)
      BY <1>2, <1>3, Zenon
<1>. QED BY <1>4

LEMMA TailFacts ==
  ASSUME NEW R, NEW s \in Seq(R), s # <<>>
  PROVE  Head(s) \in R /\ Tail(s) \in Seq(R) /\ ToSet(s) = {Head(s)} \cup ToSet(Tail(s))
<1>1. /\ Head(s) \in R /\ Tail(s) \in Seq(R) /\ Head(s) = s[1]
      /\ Len(s) \in Nat \ {0} /\ DOMAIN s = 1..Len(s)
      /\ DOMAIN Tail(s) = 1..(Len(s) - 1) /\ \A i \in 1..(Len(s) - 1) : Tail(s)[i] = s[i + 1]
      OBVIOUS
<1>2. \A i \in DOMAIN s : i = 1 \/ (i - 1 \in DOMAIN Tail(s) /\ s[i] = Tail(s)[i - 1])
      BY <1>1
<1>3. \A i \in DOMAIN Tail(s) : i + 1 \in DOMAIN s /\ Tail(s)[i] = s[i + 1]
      BY <1>1
<1>4. 1 \in DOMAIN s
      BY <1>1
<1>5. \A y \in ToSet(s) : y = Head(s) \/ y \in ToSet(Tail(s))
  <2>1. \A i \in DOMAIN s : s[i] = Head(s) \/ \E k \in DOMAIN Tail(s) : s[i] = Tail(s)[k]
        BY <1>1, <1>2
  <2>. QED BY <2>1, Zenon DEF ToSet
<1>6. Head(s) \in ToSet(s)
      BY <1>1, <1>4, Zenon DEF ToSet
<1>7. \A y \in ToSet(Tail(s)) : y \in ToSet(s)
  <2>1. \A i \in DOMAIN Tail(s) : \E k \in DOMAIN s : Tail(s)[i] = s[k]
        BY <1>3
  <2>. QED BY <2>1, Zenon DEF ToSet
<1>8. ToSet(s) = {Head(s)} \cup ToSet(Tail(s))
      BY <1>5, <1>6, <1>7
<1>. QED BY <1>1, <1>8, Zenon

LEMMA ConcatFacts ==
  ASSUME NEW R, NEW s \in Seq(R), NEW u \in Seq(R)
  PROVE  s \o u \in Seq(R) /\ ToSet(s \o u) = ToSet(s) \cup ToSet(u)
<1>1. /\ s \o u \in Seq(R) /\ Len(s) \in Nat /\ Len(u) \in Nat
      /\ DOMAIN s = 1..Len(s) /\ DOMAIN u = 1..Len(u) /\ DOMAIN (s \o u) = 1..(Len(s) + Len(u))
      /\ \A i \in 1..(Len(s) + Len(u)) : (s \o u)[i] = IF i <= Len(s) THEN s[i] ELSE u[i - Len(s)]
      OBVIOUS
<1>2. \A i \in DOMAIN s : i \in DOMAIN (s \o u) /\ (s \o u)[i] = s[i]
      BY <1>1
<1>3. \A i \in DOMAIN u : i + Len(s) \in DOMAIN (s \o u) /\ (s \o u)[i + Len(s)] = u[i]
      BY <1>1
<1>4. \A i \in DOMAIN (s \o u) :
        \/ i \in DOMAIN s /\ (s \o u)[i] = s[i]
        \/ i - Len(s) \in DOMAIN u /\ (s \o u)[i] = u[i - Len(s)]
      BY <1>1
<1>5. ToSet(s) \cup ToSet(u) \subseteq ToSet(s \o u)
  <2>1. \A x \in ToSet(s) : x \in ToSet(s \o u)
        BY <1>2, Zenon DEF ToSet
  <2>2. \A x \in ToSet(u) : x \in ToSet(s \o u)
        BY <1>3, Zenon DEF ToSet
  <2>. QED BY <2>1, <2>2
<1>6. \A x \in ToSet(s \o u) : x \in ToSet(s) \/ x \in ToSet(u)
      BY <1>4, Zenon DEF ToSet
<1>. QED BY <1>1, <1>5, <1>6

\* The loop of FlattenSeq, up to its mth turn.
Course(f, m, ss) ==
  f = [i \in 1..m |-> IF i = 1 THEN ss[i] ELSE f[i - 1] \o ss[i]]

LEMMA CourseExists ==
  ASSUME NEW ss, NEW k \in Nat
  PROVE  \E f : Course(f, k, ss)
<1> DEFINE T == {m \in Nat : ~\E f : Course(f, m, ss)}
<1>1. SUFFICES ASSUME T # {} PROVE FALSE
      OBVIOUS
<1>2. PICK m \in T : \A y \in T : m <= y
      BY <1>1, Least
<1>3. m # 0
  <2>1. Course([i \in 1..0 |-> ss[i]], 0, ss)
        BY DEF Course
  <2>. QED BY <2>1
<1>4. m - 1 \in Nat /\ m - 1 \notin T
      BY <1>2, <1>3
<1>5. PICK g : Course(g, m - 1, ss)
      BY <1>4
<1> DEFINE turn(f, n) == IF n = 1 THEN ss[n] ELSE f[n - 1] \o ss[n]
           h == [n \in 1..m |-> IF n = m THEN turn(g, m) ELSE g[n]]
<1>6. ASSUME NEW n \in 1..m PROVE h[n] = turn(h, n)
  <2>1. CASE n = m
    <3>1. h[n] = turn(g, m) /\ (n # 1 => h[n - 1] = g[m - 1])
          BY <1>3, <2>1
    <3>. QED BY <2>1, <3>1
  <2>2. CASE n # m
    <3>1. n \in 1..(m - 1) /\ h[n] = g[n] /\ (n # 1 => h[n - 1] = g[n - 1])
          BY <2>2
    <3>2. g[n] = turn(g, n)
          BY <1>5, <3>1 DEF Course
    <3>. QED BY <3>1, <3>2
  <2>. QED BY <2>1, <2>2
<1>7. Course(h, m, ss)
  <2>1. h = [n \in 1..m |-> h[n]]
        OBVIOUS
  <2> HIDE DEF h
  <2>. QED BY <1>6, <2>1 DEF Course
<1>. QED BY <1>7

\* FlattenSeq keeps every member of every list and adds none.
LEMMA FlattenFacts ==
  ASSUME NEW R, NEW ss \in Seq(Seq(R))
  PROVE  /\ FlattenSeq(ss) \in Seq(R)
         /\ ToSet(FlattenSeq(ss)) = UNION {ToSet(ss[i]) : i \in DOMAIN ss}
<1> DEFINE K == Len(ss)
<1>1. K \in Nat /\ DOMAIN ss = 1..K /\ \A i \in 1..K : ss[i] \in Seq(R)
      OBVIOUS
<1>2. CASE K = 0
  <2>1. FlattenSeq(ss) = ss /\ ss = <<>> /\ DOMAIN ss = {}
        BY <1>1, <1>2 DEF FlattenSeq
  <2>. QED BY <2>1 DEF ToSet
<1>3. CASE K # 0
  <2>1. PICK f : Course(f, K, ss) /\ FlattenSeq(ss) = f[K]
    <3>1. \E f : Course(f, K, ss)
          BY <1>1, CourseExists
    <3>2. Course(CHOOSE f : Course(f, K, ss), K, ss)
          BY <3>1
    <3>3. FlattenSeq(ss) = (CHOOSE f : Course(f, K, ss))[K]
          BY <1>3, Zenon DEF FlattenSeq, Course
    <3>. QED BY <3>2, <3>3
  <2> HIDE DEF K
  <2>2. \A n \in 1..K : f[n] = IF n = 1 THEN ss[n] ELSE f[n - 1] \o ss[n]
    <3> DEFINE e(n) == IF n = 1 THEN ss[n] ELSE f[n - 1] \o ss[n]
    <3>1. f = [n \in 1..K |-> e(n)]
          BY <2>1 DEF Course
    <3> HIDE DEF e
    <3>2. \A n \in 1..K : f[n] = e(n)
          BY <3>1
    <3>. QED BY <3>2 DEF e
  <2> DEFINE P(n) == f[n] \in Seq(R) /\ ToSet(f[n]) = UNION {ToSet(ss[i]) : i \in 1..n}
             T == {n \in 1..K : ~P(n)}
  <2>3. P(1)
    <3>1. f[1] = ss[1] /\ 1..1 = {1}
          BY <1>1, <1>3, <2>2
    <3>. QED BY <1>1, <1>3, <3>1
  <2>4. ASSUME NEW n \in 2..K, P(n - 1) PROVE P(n)
    <3>0. n \in 1..K /\ n # 1
          BY <1>1
    <3>1. f[n] = f[n - 1] \o ss[n] /\ ss[n] \in Seq(R)
          BY <1>1, <2>2, <3>0
    <3>2. f[n] \in Seq(R) /\ ToSet(f[n]) = ToSet(f[n - 1]) \cup ToSet(ss[n])
          BY <2>4, <3>1, ConcatFacts
    <3>3. 1..n = 1..(n - 1) \cup {n}
          BY <1>1
    <3>. QED BY <2>4, <3>2, <3>3
  <2> HIDE DEF P
  <2>5. T = {}
    <3>1. SUFFICES ASSUME T # {} PROVE FALSE
          OBVIOUS
    <3>2. T \subseteq Nat
          BY <1>1
    <3>3. PICK m \in T : \A y \in T : m <= y
          BY <3>1, <3>2, Least
    <3>4. m \in 2..K /\ m - 1 \in 1..K /\ m - 1 \notin T
          BY <1>1, <2>3, <3>3
    <3>. QED BY <2>4, <3>3, <3>4
  <2>6. P(K)
        BY <1>1, <1>3, <2>5
  <2>. QED BY <1>1, <2>1, <2>6 DEF P
<1>. QED BY <1>2, <1>3
-----------------------------------------------------------------------------
(* The catalog and the plan *)

LEMMA LayerFacts ==
  /\ Layers \in Seq(ToSet(Layers)) /\ DOMAIN Layers = 1..3
  /\ \A l \in ToSet(Layers) : \E n \in DOMAIN Layers : Layers[n] = l
<1>1. Layers \in Seq({"common", "server", "client"}) /\ DOMAIN Layers = 1..3
      BY DEF Layers
<1>2. ToSet(Layers) = {Layers[n] : n \in 1..3}
      BY <1>1 DEF ToSet
<1>3. \A n \in 1..3 : Layers[n] \in ToSet(Layers)
      BY <1>2
<1>4. Layers = [n \in 1..3 |-> Layers[n]]
      BY <1>1
<1>5. Layers \in Seq(ToSet(Layers))
      BY <1>3, <1>4
<1>. QED BY <1>1, <1>2, <1>5

LEMMA EntryFacts ==
  ASSUME NEW i \in DOMAIN Catalog, NEW l \in ToSet(Layers)
  PROVE  /\ Catalog[i] \in ToSet(Catalog) /\ SlotOf(i, l) \in Slots
         /\ Catalog[i].layers[l] \in Seq(Seq(Files)) /\ Catalog[i].force \in BOOLEAN
<1> DEFINE R == [game : STRING, base : STRING, force : BOOLEAN,
                 layers : [ToSet(Layers) -> Seq(Seq(Files))]]
<1>0. Catalog[i] \in ToSet(Catalog)
      BY Zenon DEF ToSet
<1>1. Catalog[i] \in ToSet(Catalog) /\ Catalog[i] \in R
  <2>1. Catalog \in Seq(R)
        BY CatalogAssumption, Zenon
  <2> HIDE DEF R
  <2>. QED BY <1>0, <2>1
<1>2. EntryName(Catalog[i]) \in Names
      BY <1>1 DEF Names
<1>. QED BY <1>1, <1>2 DEF SlotOf, Slots

\* A slot is the slot of one entry of the first of their names only.
LEMMA SlotsAreOwn ==
  ASSUME NEW i \in Firsts, NEW j \in Firsts, NEW l \in ToSet(Layers), NEW m \in ToSet(Layers),
         SlotOf(i, l) = SlotOf(j, m)
  PROVE  i = j /\ l = m
<1>1. EntryName(Catalog[i]) = EntryName(Catalog[j]) /\ l = m
      BY DEF SlotOf
<1>2. i \in Nat /\ j \in Nat /\ i >= 1 /\ j >= 1
      BY CatalogAssumption DEF Firsts
<1>3. ~(i < j) /\ ~(j < i)
  <2>1. ASSUME i < j PROVE FALSE
        BY <1>1, <1>2, <2>1 DEF Firsts, First
  <2>2. ASSUME j < i PROVE FALSE
        BY <1>1, <1>2, <2>2 DEF Firsts, First
  <2>. QED BY <2>1, <2>2
<1>. QED BY <1>1, <1>2, <1>3

LEMMA TaskFacts ==
  ASSUME NEW t \in Tasks
  PROVE  \E i \in Firsts, l \in ToSet(Layers) :
           /\ i \in DOMAIN Catalog
           /\ t.slot = SlotOf(i, l) /\ t.sources = Catalog[i].layers[l]
           /\ t.force = Catalog[i].force /\ t.force \in BOOLEAN
           /\ t.slot \in Slots /\ t.sources \in Seq(Seq(Files))
<1>1. PICK i \in Firsts, l \in ToSet(Layers) : t = TaskOf(i, l)
      BY DEF Tasks
<1>2. i \in DOMAIN Catalog
      BY DEF Firsts
<1>3. t.slot = SlotOf(i, l) /\ t.sources = Catalog[i].layers[l] /\ t.force = Catalog[i].force
      BY <1>1 DEF TaskOf
<1>. QED BY <1>2, <1>3, EntryFacts

LEMMA PlannedIsFirst ==
  ASSUME NEW i \in DOMAIN Catalog, Planned(i)
  PROVE  i \in Firsts
BY DEF Planned, Firsts, First

\* The plan has every layer of every entry that is planned, and nothing else.
LEMMA PlanFacts ==
  /\ PlanLayers \in Seq(Tasks)
  /\ \A i \in DOMAIN Catalog, l \in ToSet(Layers) :
       Planned(i) => \E t \in ToSet(PlanLayers) : t.slot = SlotOf(i, l)
<1> DEFINE layersOf(i) == [l \in DOMAIN Layers |->
                             [slot |-> <<EntryName(Catalog[i]), Layers[l]>>,
                              sources |-> Catalog[i].layers[Layers[l]], force |-> Catalog[i].force]]
           part(i) == IF Planned(i) THEN layersOf(i) ELSE <<>>
           ss == [i \in DOMAIN Catalog |-> part(i)]
<1>1. PlanLayers = FlattenSeq(ss)
      BY DEF PlanLayers
<1>2. DOMAIN Catalog = 1..Len(Catalog) /\ Len(Catalog) \in Nat
      BY CatalogAssumption
<1>3. ASSUME NEW i \in DOMAIN Catalog, Planned(i)
      PROVE  /\ layersOf(i) \in Seq(Tasks) /\ DOMAIN layersOf(i) = DOMAIN Layers
             /\ \A n \in DOMAIN Layers : layersOf(i)[n] = TaskOf(i, Layers[n])
  <2>1. \A n \in DOMAIN Layers : layersOf(i)[n] = TaskOf(i, Layers[n])
        BY DEF TaskOf, SlotOf
  <2>2. i \in Firsts
        BY <1>3, PlannedIsFirst
  <2>3. \A n \in 1..3 : Layers[n] \in ToSet(Layers)
        BY LayerFacts DEF ToSet
  <2>4. \A n \in 1..3 : TaskOf(i, Layers[n]) \in Tasks
        BY <2>2, <2>3 DEF Tasks
  <2>5. /\ DOMAIN layersOf(i) = DOMAIN Layers
        /\ layersOf(i) = [n \in DOMAIN layersOf(i) |-> layersOf(i)[n]]
        OBVIOUS
  <2> HIDE DEF layersOf
  <2>6. layersOf(i) = [n \in 1..3 |-> layersOf(i)[n]]
        BY <2>5, LayerFacts
  <2>7. layersOf(i) \in Seq(Tasks)
        BY <2>1, <2>4, <2>6, LayerFacts
  <2>. QED BY <2>1, <2>5, <2>7
<1> HIDE DEF layersOf
<1>4. \A i \in DOMAIN Catalog : part(i) \in Seq(Tasks)
      BY <1>3
<1> HIDE DEF part
<1>5. ss \in Seq(Seq(Tasks)) /\ DOMAIN ss = DOMAIN Catalog
      BY <1>2, <1>4
<1>6. \A i \in DOMAIN Catalog : ss[i] = part(i)
      OBVIOUS
<1> HIDE DEF ss
<1>7. /\ FlattenSeq(ss) \in Seq(Tasks)
      /\ ToSet(FlattenSeq(ss)) = UNION {ToSet(ss[i]) : i \in DOMAIN ss}
      BY <1>5, FlattenFacts
<1>8. ASSUME NEW i \in DOMAIN Catalog, NEW l \in ToSet(Layers), Planned(i)
      PROVE  \E t \in ToSet(PlanLayers) : t.slot = SlotOf(i, l)
  <2>1. PICK n \in DOMAIN Layers : Layers[n] = l
        BY LayerFacts
  <2>2. part(i) = layersOf(i)
        BY <1>8 DEF part
  <2>3. TaskOf(i, l) \in ToSet(ss[i])
        BY <1>3, <1>6, <1>8, <2>1, <2>2 DEF ToSet
  <2>4. TaskOf(i, l) \in ToSet(PlanLayers)
        BY <1>1, <1>5, <1>7, <2>3
  <2>5. TaskOf(i, l).slot = SlotOf(i, l)
        BY DEF TaskOf
  <2>. QED BY <2>4, <2>5
<1>. QED BY <1>1, <1>7, <1>8
-----------------------------------------------------------------------------
(* The steps of the process *)

Onward == {"serve", "cert", "start", "poller", "notify", "wait", "cancel", "shutdown",
           "closeWT", "stop", "reap"}

\* Where a step of main() goes, and that only StartAll starts a server.
LEMMA MainFacts ==
  ASSUME game \in [Games -> {"down", "up", "term", "exited"}], Main
  PROVE  /\ game' \in [Games -> {"down", "up", "term", "exited"}]
         /\ \/ pc' = pc \/ pc' = "gone"
            \/ pc = "tls" /\ pc' = "bind"
            \/ pc = "bind" /\ pc' = "init"
            \/ pc = "init" /\ pc' = "serve"
            \/ pc \in Onward /\ pc' \in Onward
         /\ pc' # "gone" /\ pc # "start" => \A g \in Games : game'[g] = "up" => game[g] = "up"
<1> USE DEF Goto, Onward
<1>1. CASE Boot
      BY <1>1 DEF Boot, SetupTLS, Bind, Prepare, BootFails, Serve, Resolve, ResolveRetries,
                  ResolveFails, StartAll, StartAllFails, StartPoller, Notify, Fatal, Ends
<1>2. CASE WindDown
  <2>1. CASE SignalAll
        BY <2>1 DEF SignalAll, Alive
  <2>2. CASE Kill
        BY <2>2 DEF Kill
  <2>3. CASE Wake \/ Cancel \/ Drained \/ DrainTimesOut \/ CloseWT \/ Reap \/ LeaveBehind \/ Return
        BY <2>3 DEF Wake, Cancel, Drained, DrainTimesOut, CloseWT, Reap, LeaveBehind, Return,
                    Fatal, Ends
  <2>. QED BY <1>2, <2>1, <2>2, <2>3 DEF WindDown
<1>3. CASE Signal \/ ServeFails \/ DeadlinePasses
      BY <1>3 DEF Signal, ServeFails, DeadlinePasses, Fatal, Ends
<1>4. CASE \E b \in Browsers : OpenStream(b) \/ CloseStream(b)
      BY <1>4 DEF OpenStream, CloseStream
<1>5. CASE \E g \in Games : GameExits(g)
      BY <1>5 DEF GameExits
<1>. QED BY <1>1, <1>2, <1>3, <1>4, <1>5 DEF Main

\* What does not touch a layer leaves it as complete and as empty as it was.
LEMMA SameLayers ==
  ASSUME disk' = disk
  PROVE  \A i, l : /\ Complete(Catalog[i], l)' <=> Complete(Catalog[i], l)
                   /\ Untouched(SlotOf(i, l))' <=> Untouched(SlotOf(i, l))
BY DEF Complete, Untouched

LEMMA SamePlan ==
  ASSUME ini' = ini
  PROVE  \A i : Planned(i)' <=> Planned(i)
BY DEF Planned

\* The process ends: a layer that is being installed is empty still, or cut.
LEMMA QuitKeeps ==
  ASSUME Inv, Quit
  PROVE  Settled'
<1> SUFFICES ASSUME NEW i \in Firsts, NEW l \in ToSet(Layers)
             PROVE  \/ Untouched(SlotOf(i, l))' \/ Complete(Catalog[i], l)' \/ SlotOf(i, l) \in cut'
    BY DEF Settled
<1>1. disk' = disk /\ cut \subseteq cut'
      BY DEF Quit
<1>2. CASE Installing /\ Head(pending).slot = SlotOf(i, l)
  <2>1. CASE DirHasEntries(Head(pending).slot)
        BY <1>2, <2>1 DEF Quit, Installing
  <2>2. CASE ~DirHasEntries(Head(pending).slot)
        BY <1>1, <1>2, <2>2, SameLayers DEF DirHasEntries, Untouched
  <2>. QED BY <2>1, <2>2
<1>3. CASE ~(Installing /\ Head(pending).slot = SlotOf(i, l))
      BY <1>1, <1>3, SameLayers DEF Inv, Settled
<1>. QED BY <1>2, <1>3

LEMMA MainKeeps ==
  ASSUME Inv, MainStep
  PROVE  Inv'
<1> DEFINE ends == pc # "gone" /\ pc' = "gone"
<1>1. /\ Main /\ ownIni' = ownIni
      /\ pc = "init" /\ pc' = "serve" => qpc = "done"
      /\ ends => Quit
      /\ ~ends => UNCHANGED qvars
      BY DEF MainStep
<1>2. /\ game' \in [Games -> {"down", "up", "term", "exited"}]
      /\ \/ pc' = pc \/ pc' = "gone"
         \/ pc = "tls" /\ pc' = "bind"
         \/ pc = "bind" /\ pc' = "init"
         \/ pc = "init" /\ pc' = "serve"
         \/ pc \in Onward /\ pc' \in Onward
      /\ pc' # "gone" /\ pc # "start" => \A g \in Games : game'[g] = "up" => game[g] = "up"
      BY <1>1, MainFacts DEF Inv, Types
<1>3. CASE ends
  <2>1. Quit
        BY <1>1, <1>3
  <2>2. Settled'
        BY <2>1, QuitKeeps
  <2>3. /\ qpc' = "off" /\ pending' = <<>> /\ disk' = disk /\ ini' = ini
        BY <2>1 DEF Quit
  <2>4. Types'
        BY <1>2, <2>3 DEF Inv, Types, QPoints
  <2>5. Phases' /\ IniKept' /\ Work' /\ Plan'
        BY <1>1, <1>3, <2>3 DEF Inv, Phases, IniKept, Work, Plan, Installing
  <2>. QED BY <2>2, <2>4, <2>5 DEF Inv
<1>4. CASE ~ends
  <2>1. qpc' = qpc /\ ini' = ini /\ disk' = disk /\ cut' = cut /\ pending' = pending /\ srcs' = srcs
        /\ files' = files
        BY <1>1, <1>4 DEF qvars, gameDir
  <2>2. Types'
        BY <1>2, <2>1 DEF Inv, Types
  <2>3. Phases'
    <3>1. pc = "start" => qpc = "done"
          BY DEF Inv, Phases
    <3>. QED BY <1>1, <1>2, <1>4, <2>1, <3>1 DEF Inv, Phases, Onward
  <2>4. IniKept' /\ Work'
        BY <1>1, <2>1 DEF Inv, IniKept, Work, Installing
  <2>5. Settled' /\ Plan'
        BY <2>1, SameLayers, SamePlan DEF Inv, Settled, Plan, Installing
  <2>. QED BY <2>2, <2>3, <2>4, <2>5 DEF Inv
<1>. QED BY <1>3, <1>4
-----------------------------------------------------------------------------
(* The steps of Quickstart *)

\* What a step of Quickstart leaves of the rest.
Beside == UNCHANGED <<lifecycle, ownIni>>

LEMMA BesideFacts ==
  ASSUME Beside
  PROVE  pc' = pc /\ game' = game /\ ownIni' = ownIni
BY DEF Beside, lifecycle

\* No server runs while there is a step of Quickstart to take.
LEMMA PhaseKept ==
  ASSUME Inv, Beside, pc = "init", qpc # "done"
  PROVE  Phases'
BY BesideFacts DEF Inv, Phases

\* servers.ini is looked for, created and written.
LEMMA IniStepsKeep ==
  ASSUME Inv, Beside, pc = "init", Stat \/ CreateIni \/ WriteIni
  PROVE  Inv'
<1>1. /\ qpc \in {"stat", "create", "write"} /\ qpc' \in {"create", "write", "list"}
      /\ UNCHANGED <<disk, cut, pending, srcs, files>>
      BY DEF Stat, CreateIni, WriteIni, gameDir
<1>2. ownIni # NoFile => ini' = ownIni /\ qpc' = "list"
      BY DEF Inv, IniKept, Stat, CreateIni, WriteIni, gameDir
<1>3. Phases'
      BY <1>1, PhaseKept
<1>4. Types' /\ IniKept' /\ Work' /\ Plan'
      BY <1>1, <1>2, BesideFacts DEF Inv, Types, QPoints, IniKept, Work, Installing, Plan
<1>5. Settled'
      BY <1>1, SameLayers DEF Inv, Settled, Installing
<1>. QED BY <1>3, <1>4, <1>5 DEF Inv

LEMMA ListKeeps ==
  ASSUME Inv, Beside, pc = "init", List
  PROVE  Inv'
<1>1. /\ qpc = "list" /\ qpc' = "layer" /\ pending' = PlanLayers
      /\ UNCHANGED <<ini, disk, cut, srcs, files>>
      BY DEF List, gameDir
<1>2. Phases'
      BY <1>1, PhaseKept
<1>3. Types'
      BY <1>1, BesideFacts, PlanFacts DEF Inv, Types, QPoints
<1>4. IniKept' /\ Work'
      BY <1>1, BesideFacts DEF Inv, IniKept, Work, Installing
<1>5. Settled'
      BY <1>1, SameLayers DEF Inv, Settled, Installing
<1>6. Plan'
      BY <1>1, SamePlan, PlanFacts DEF Plan
<1>. QED BY <1>2, <1>3, <1>4, <1>5, <1>6 DEF Inv

\* The first layer of the plan is begun, or it needs nothing.
LEMMA InstallLayerKeeps ==
  ASSUME Inv, Beside, pc = "init", InstallLayer
  PROVE  Inv'
<1> DEFINE t == Head(pending)
<1>1. /\ qpc = "layer" /\ pending # <<>>
      /\ UNCHANGED <<ini, disk, cut, files>>
      /\ LayerNeedsInstall(t) => qpc' = "source" /\ srcs' = t.sources /\ pending' = pending
      /\ ~LayerNeedsInstall(t) => pending' = Tail(pending) /\ qpc' = qpc
      BY DEF InstallLayer, gameDir
<1>2. /\ t \in Tasks /\ Tail(pending) \in Seq(Tasks)
      /\ ToSet(pending) = {t} \cup ToSet(Tail(pending))
      BY <1>1, TailFacts DEF Inv, Types
<1> HIDE DEF t
<1>3. PICK i \in Firsts, l \in ToSet(Layers) :
        /\ i \in DOMAIN Catalog
        /\ t.slot = SlotOf(i, l) /\ t.sources = Catalog[i].layers[l]
        /\ t.force = Catalog[i].force /\ t.force \in BOOLEAN
        /\ t.slot \in Slots /\ t.sources \in Seq(Seq(Files))
      BY <1>2, TaskFacts
<1>4. Phases'
      BY <1>1, PhaseKept
<1>5. Types' /\ IniKept'
      BY <1>1, <1>2, BesideFacts DEF Inv, Types, QPoints, IniKept
<1>6. CASE LayerNeedsInstall(t)
  <2>1. t.force \/ \A f \in Files : disk[t.slot][f] = "none"
        BY <1>6 DEF LayerNeedsInstall, DirHasEntries
  <2>2. Work'
        BY <1>1, <1>3, <1>6, <2>1 DEF Work, Installing, t
  <2>3. Settled'
        BY <1>1, <1>6, SameLayers DEF Inv, Settled, Installing
  <2>4. Plan'
        BY <1>1, <1>6, SameLayers, SamePlan DEF Inv, Plan
  <2>. QED BY <1>4, <1>5, <2>2, <2>3, <2>4 DEF Inv
<1>7. CASE ~LayerNeedsInstall(t)
  <2>1. Complete(Catalog[i], l) \/ SlotOf(i, l) \in cut
    <3>1. CASE t.sources = <<>>
      <4>1. ToSet(Catalog[i].layers[l]) = {}
            BY <1>3, <3>1 DEF ToSet
      <4>. QED BY <4>1 DEF Complete
    <3>2. CASE DirHasEntries(t.slot)
      <4>1. ~Untouched(SlotOf(i, l))
            BY <1>3, <3>2 DEF DirHasEntries, Untouched
      <4>. QED BY <1>1, <4>1 DEF Inv, Settled, Installing
    <3>. QED BY <1>7, <3>1, <3>2 DEF LayerNeedsInstall
  <2>2. Work'
        BY <1>1, <1>7 DEF Work, Installing
  <2>3. Settled'
        BY <1>1, <1>7, SameLayers DEF Inv, Settled, Installing
  <2>4. Plan'
    <3> SUFFICES ASSUME NEW j \in DOMAIN Catalog, NEW m \in ToSet(Layers), Planned(j)
                 PROVE  \/ Complete(Catalog[j], m) \/ SlotOf(j, m) \in cut
                        \/ \E u \in ToSet(Tail(pending)) : u.slot = SlotOf(j, m)
        BY <1>1, <1>7, SameLayers, SamePlan DEF Plan
    <3>1. CASE \E u \in ToSet(Tail(pending)) : u.slot = SlotOf(j, m)
          BY <3>1
    <3>2. CASE t.slot = SlotOf(j, m)
      <4>1. j = i /\ m = l
            BY <1>3, <3>2, PlannedIsFirst, SlotsAreOwn
      <4>. QED BY <2>1, <4>1
    <3>3. \/ Complete(Catalog[j], m) \/ SlotOf(j, m) \in cut
          \/ \E u \in ToSet(pending) : u.slot = SlotOf(j, m)
          BY <1>1 DEF Inv, Plan
    <3>. QED BY <1>2, <3>1, <3>2, <3>3
  <2>. QED BY <1>4, <1>5, <2>2, <2>3, <2>4 DEF Inv
<1>. QED BY <1>6, <1>7

\* A source is opened, or its last file is written: the work goes on.
LEMMA SourceStepsKeep ==
  ASSUME Inv, Beside, pc = "init", InstallFromSource \/ SourceDone
  PROVE  Inv'
<1>1. /\ qpc \in {"source", "file"} /\ qpc' \in {"source", "file"}
      /\ UNCHANGED <<ini, disk, cut, pending>>
      BY DEF InstallFromSource, SourceDone, gameDir
<1>2. Phases' /\ Types' /\ IniKept'
      BY <1>1, BesideFacts, PhaseKept DEF Inv, Types, QPoints, IniKept
<1>3. Settled' /\ Plan'
      BY <1>1, SameLayers, SamePlan DEF Inv, Settled, Plan, Installing
<1>4. CASE InstallFromSource
  <2>1. /\ qpc = "source" /\ srcs # <<>> /\ qpc' = "file"
        /\ files' = Head(srcs) /\ srcs' = Tail(srcs)
        BY <1>4 DEF InstallFromSource
  <2>2. srcs \in Seq(Seq(Files))
        BY <2>1 DEF Inv, Work, Installing
  <2>3. /\ Head(srcs) \in Seq(Files) /\ Tail(srcs) \in Seq(Seq(Files))
        /\ ToSet(srcs) = {Head(srcs)} \cup ToSet(Tail(srcs))
        BY <2>1, <2>2, TailFacts
  <2>4. Work'
        BY <1>1, <2>1, <2>3 DEF Inv, Work, Installing
  <2>. QED BY <1>2, <1>3, <2>4 DEF Inv
<1>5. CASE SourceDone
  <2>1. qpc = "file" /\ files = <<>> /\ qpc' = "source" /\ srcs' = srcs
        BY <1>5 DEF SourceDone
  <2>2. ToSet(files) = {}
        BY <2>1 DEF ToSet
  <2>3. Work'
        BY <1>1, <2>1, <2>2 DEF Inv, Work, Installing
  <2>. QED BY <1>2, <1>3, <2>3 DEF Inv
<1>. QED BY <1>4, <1>5

\* A layer whose sources are all unpacked is complete.
LEMMA LayerDoneKeeps ==
  ASSUME Inv, Beside, pc = "init", LayerDone
  PROVE  Inv'
<1> DEFINE t == Head(pending)
<1>1. /\ qpc = "source" /\ srcs = <<>> /\ qpc' = "layer" /\ pending' = Tail(pending)
      /\ cut' = cut \ {t.slot} /\ UNCHANGED <<ini, disk, srcs, files>>
      BY DEF LayerDone
<1>2. pending # <<>>
      BY <1>1 DEF Inv, Work, Installing
<1>3. /\ t \in Tasks /\ Tail(pending) \in Seq(Tasks)
      /\ ToSet(pending) = {t} \cup ToSet(Tail(pending))
      BY <1>2, TailFacts DEF Inv, Types
<1>4. PICK i \in Firsts, l \in ToSet(Layers) :
        /\ i \in DOMAIN Catalog
        /\ t.slot = SlotOf(i, l) /\ t.sources = Catalog[i].layers[l]
        /\ t.force = Catalog[i].force /\ t.force \in BOOLEAN
        /\ t.slot \in Slots /\ t.sources \in Seq(Seq(Files))
      BY <1>3, TaskFacts
<1>5. Complete(Catalog[i], l)
  <2>1. ToSet(srcs) = {}
        BY <1>1 DEF ToSet
  <2>2. \A s \in ToSet(t.sources) : \A f \in ToSet(s) : disk[t.slot][f] = "packed"
        BY <1>1, <2>1 DEF Inv, Work, Installing
  <2>. QED BY <1>4, <2>2 DEF Complete, SlotOf
<1> HIDE DEF t
<1>6. Phases' /\ Types' /\ IniKept' /\ Work'
      BY <1>1, <1>3, BesideFacts, PhaseKept DEF Inv, Types, QPoints, IniKept, Work, Installing
<1>7. ASSUME NEW j \in Firsts, NEW m \in ToSet(Layers)
      PROVE  \/ Complete(Catalog[j], m)
             \/ /\ t.slot # SlotOf(j, m)
                /\ SlotOf(j, m) \in cut => SlotOf(j, m) \in cut'
  <2>1. CASE t.slot = SlotOf(j, m)
    <3>0. i \in Firsts /\ l \in ToSet(Layers) /\ SlotOf(i, l) = SlotOf(j, m)
          BY <1>4, <2>1, Zenon
    <3>1. j = i /\ m = l
          BY <3>0, SlotsAreOwn
    <3>2. Complete(Catalog[j], m) <=> Complete(Catalog[i], l)
          BY <3>1
    <3>. QED BY <1>5, <3>2
  <2>. QED BY <1>1, <2>1
<1>8. Settled'
  <2> SUFFICES ASSUME NEW j \in Firsts, NEW m \in ToSet(Layers)
               PROVE  \/ Untouched(SlotOf(j, m)) \/ Complete(Catalog[j], m) \/ SlotOf(j, m) \in cut'
      BY <1>1, SameLayers DEF Settled
  <2>. QED BY <1>7 DEF Inv, Settled, t
<1>9. Plan'
  <2> SUFFICES ASSUME NEW j \in DOMAIN Catalog, NEW m \in ToSet(Layers), Planned(j)
               PROVE  \/ Complete(Catalog[j], m) \/ SlotOf(j, m) \in cut'
                      \/ \E u \in ToSet(Tail(pending)) : u.slot = SlotOf(j, m)
      BY <1>1, SameLayers, SamePlan DEF Plan
  <2>1. j \in Firsts
        BY PlannedIsFirst
  <2>2. \/ Complete(Catalog[j], m) \/ SlotOf(j, m) \in cut
        \/ \E u \in ToSet(pending) : u.slot = SlotOf(j, m)
        BY <1>1 DEF Inv, Plan
  <2>. QED BY <1>3, <1>7, <2>1, <2>2
<1>. QED BY <1>6, <1>8, <1>9 DEF Inv

\* One file of the layer that is being installed is written.
LEMMA WriteKeeps ==
  ASSUME Inv, Installing, Installing', ini' = ini, cut' = cut, pending' = pending,
         NEW f \in Files, NEW v \in {"dir", "torn", "packed"},
         disk' = [disk EXCEPT ![Head(pending).slot][f] = v]
  PROVE  /\ disk' \in [Slots -> [Files -> {"none", "dir", "torn", "packed", "user"}]]
         /\ Head(pending).slot \in Slots
         /\ \A g \in Files : disk'[Head(pending).slot][g]
                               = IF g = f THEN v ELSE disk[Head(pending).slot][g]
         /\ Settled' /\ Plan'
<1> DEFINE t == Head(pending)
<1>1. pending # <<>>
      BY DEF Inv, Work
<1>2. t \in Tasks /\ t \in ToSet(pending)
      BY <1>1, TailFacts DEF Inv, Types
<1>3. PICK i \in Firsts, l \in ToSet(Layers) :
        /\ i \in DOMAIN Catalog
        /\ t.slot = SlotOf(i, l) /\ t.sources = Catalog[i].layers[l]
        /\ t.force = Catalog[i].force /\ t.force \in BOOLEAN
        /\ t.slot \in Slots /\ t.sources \in Seq(Seq(Files))
      BY <1>2, TaskFacts
<1> HIDE DEF t
<1>4. /\ disk' \in [Slots -> [Files -> {"none", "dir", "torn", "packed", "user"}]]
      /\ \A s \in Slots : s # t.slot => disk'[s] = disk[s]
      /\ \A g \in Files : disk'[t.slot][g] = IF g = f THEN v ELSE disk[t.slot][g]
      BY <1>3 DEF Inv, Types, t
<1>5. ASSUME NEW j \in DOMAIN Catalog, NEW m \in ToSet(Layers), SlotOf(j, m) # t.slot
      PROVE  /\ Complete(Catalog[j], m)' <=> Complete(Catalog[j], m)
             /\ Untouched(SlotOf(j, m))' <=> Untouched(SlotOf(j, m))
  <2>1. SlotOf(j, m) \in Slots
        BY EntryFacts
  <2>2. disk'[SlotOf(j, m)] = disk[SlotOf(j, m)]
        BY <1>4, <1>5, <2>1
  <2>. QED BY <2>2 DEF Complete, Untouched, SlotOf
<1>6. Settled'
  <2> SUFFICES ASSUME NEW j \in Firsts, NEW m \in ToSet(Layers), SlotOf(j, m) # t.slot
               PROVE  \/ Untouched(SlotOf(j, m))' \/ Complete(Catalog[j], m)'
                      \/ SlotOf(j, m) \in cut
      BY DEF Settled, t
  <2>1. j \in DOMAIN Catalog
        BY DEF Firsts
  <2>. QED BY <1>5, <2>1 DEF Inv, Settled, t
<1>7. Plan'
  <2>1. qpc \in {"source", "file", "copy"} /\ qpc' \in {"source", "file", "copy"}
        BY DEF Installing
  <2> SUFFICES ASSUME NEW j \in DOMAIN Catalog, NEW m \in ToSet(Layers), Planned(j),
                      SlotOf(j, m) # t.slot
               PROVE  \/ Complete(Catalog[j], m)' \/ SlotOf(j, m) \in cut
                      \/ \E u \in ToSet(pending) : u.slot = SlotOf(j, m)
      BY <1>2, <2>1, SamePlan DEF Plan
  <2>. QED BY <1>5, <2>1 DEF Inv, Plan
<1>. QED BY <1>3, <1>4, <1>6, <1>7 DEF t

LEMMA MkdirAllKeeps ==
  ASSUME Inv, Beside, pc = "init", MkdirAll
  PROVE  Inv'
<1> DEFINE t == Head(pending)
<1>1. /\ qpc = "file" /\ files # <<>> /\ qpc' = qpc
      /\ disk' = [disk EXCEPT ![Head(pending).slot][Head(files)] = "dir"]
      /\ UNCHANGED <<ini, cut, pending, srcs, files>>
      BY DEF MkdirAll
<1>2. files \in Seq(Files)
      BY <1>1 DEF Inv, Work, Installing
<1>3. Head(files) \in Files /\ Head(files) \in ToSet(files)
      BY <1>1, <1>2, TailFacts
<1>4. /\ disk' \in [Slots -> [Files -> {"none", "dir", "torn", "packed", "user"}]]
      /\ \A g \in Files : disk'[t.slot][g] = IF g = Head(files) THEN "dir" ELSE disk[t.slot][g]
      /\ Settled' /\ Plan'
      BY <1>1, <1>3, WriteKeeps DEF Installing
<1>5. Phases' /\ Types' /\ IniKept'
      BY <1>1, <1>4, BesideFacts, PhaseKept DEF Inv, Types, QPoints, IniKept
<1>6. Work'
      BY <1>1, <1>3, <1>4 DEF Inv, Work, Installing
<1>. QED BY <1>4, <1>5, <1>6 DEF Inv

LEMMA CreateFileKeeps ==
  ASSUME Inv, Beside, pc = "init", CreateFile
  PROVE  Inv'
<1> DEFINE t == Head(pending)
<1>1. /\ qpc = "file" /\ files # <<>> /\ qpc' = "copy"
      /\ disk' = [disk EXCEPT ![Head(pending).slot][Head(files)] = "torn"]
      /\ UNCHANGED <<ini, cut, pending, srcs, files>>
      BY DEF CreateFile
<1>2. files \in Seq(Files)
      BY <1>1 DEF Inv, Work, Installing
<1>3. Head(files) \in Files /\ Head(files) \in ToSet(files)
      BY <1>1, <1>2, TailFacts
<1>4. /\ disk' \in [Slots -> [Files -> {"none", "dir", "torn", "packed", "user"}]]
      /\ \A g \in Files : disk'[t.slot][g] = IF g = Head(files) THEN "torn" ELSE disk[t.slot][g]
      /\ Settled' /\ Plan'
      BY <1>1, <1>3, WriteKeeps DEF Installing
<1>5. Phases' /\ Types' /\ IniKept'
      BY <1>1, <1>4, BesideFacts, PhaseKept DEF Inv, Types, QPoints, IniKept
<1>6. Work'
      BY <1>1, <1>3, <1>4 DEF Inv, Work, Installing
<1>. QED BY <1>4, <1>5, <1>6 DEF Inv

LEMMA CopyFileKeeps ==
  ASSUME Inv, Beside, pc = "init", CopyFile
  PROVE  Inv'
<1> DEFINE t == Head(pending)
<1>1. /\ qpc = "copy" /\ qpc' = "file" /\ files' = Tail(files)
      /\ disk' = [disk EXCEPT ![Head(pending).slot][Head(files)] = "packed"]
      /\ UNCHANGED <<ini, cut, pending, srcs>>
      BY DEF CopyFile
<1>2. files \in Seq(Files) /\ files # <<>>
      BY <1>1 DEF Inv, Work, Installing
<1>3. /\ Head(files) \in Files /\ Tail(files) \in Seq(Files)
      /\ ToSet(files) = {Head(files)} \cup ToSet(Tail(files))
      BY <1>1, <1>2, TailFacts
<1>4. /\ disk' \in [Slots -> [Files -> {"none", "dir", "torn", "packed", "user"}]]
      /\ t.slot \in Slots
      /\ \A g \in Files : disk'[t.slot][g] = IF g = Head(files) THEN "packed" ELSE disk[t.slot][g]
      /\ Settled' /\ Plan'
      BY <1>1, <1>3, WriteKeeps DEF Installing
<1>5. Phases' /\ Types' /\ IniKept'
      BY <1>1, <1>4, BesideFacts, PhaseKept DEF Inv, Types, QPoints, IniKept
<1>6. Work'
      BY <1>1, <1>3, <1>4 DEF Inv, Work, Installing
<1>. QED BY <1>4, <1>5, <1>6 DEF Inv

LEMMA FinishKeeps ==
  ASSUME Inv, Beside, pc = "init", Finish
  PROVE  Inv'
<1>1. /\ qpc = "layer" /\ pending = <<>> /\ qpc' = "done"
      /\ UNCHANGED <<ini, disk, cut, pending, srcs, files>>
      BY DEF Finish, gameDir
<1>2. Phases' /\ Types' /\ IniKept' /\ Work'
      BY <1>1, BesideFacts, PhaseKept DEF Inv, Types, QPoints, IniKept, Work, Installing
<1>3. Settled' /\ Plan'
      BY <1>1, SameLayers, SamePlan DEF Inv, Settled, Plan, Installing
<1>. QED BY <1>2, <1>3 DEF Inv

LEMMA InstallKeeps ==
  ASSUME Inv, InstallStep
  PROVE  Inv'
<1>1. pc = "init" /\ Beside /\ QuickstartStep
      BY DEF InstallStep, Beside
<1>. QED BY <1>1, IniStepsKeep, ListKeeps, InstallLayerKeeps, SourceStepsKeep, LayerDoneKeeps,
            MkdirAllKeeps, CreateFileKeeps, CopyFileKeeps, FinishKeeps DEF QuickstartStep
-----------------------------------------------------------------------------
(* The operator, between two boots *)

LEMMA RestartKeeps ==
  ASSUME Inv, Restart
  PROVE  Inv'
<1>1. /\ pc = "gone" /\ pc' = "tls" /\ qpc = "off" /\ qpc' = "stat"
      /\ game' = [g \in Games |-> "down"]
      /\ UNCHANGED <<ini, disk, cut, pending, srcs, files, ownIni>>
      BY DEF Restart, gameDir, Inv, Phases
<1>2. Types' /\ Phases' /\ IniKept' /\ Work' /\ Plan'
      BY <1>1 DEF Inv, Types, QPoints, Phases, IniKept, Work, Installing, Plan
<1>3. Settled'
      BY <1>1, SameLayers DEF Inv, Settled, Installing
<1>. QED BY <1>2, <1>3 DEF Inv

LEMMA EditIniKeeps ==
  ASSUME Inv, EditIni
  PROVE  Inv'
<1>1. /\ pc = "gone" /\ pc' = pc /\ game' = game /\ qpc = "off" /\ qpc' = qpc
      /\ ini' = ownIni' /\ UNCHANGED <<disk, cut, pending, srcs, files>>
      BY DEF EditIni, lifecycle, Inv, Phases
<1>2. Types' /\ Phases' /\ IniKept' /\ Work' /\ Plan'
      BY <1>1 DEF Inv, Types, QPoints, Phases, IniKept, Work, Installing, Plan
<1>3. Settled'
      BY <1>1, SameLayers DEF Inv, Settled, Installing
<1>. QED BY <1>2, <1>3 DEF Inv

\* A layer that gets a file of the operator's is complete, one that is emptied
\* is untouched and no longer cut.
LEMMA EditLayerKeeps ==
  ASSUME Inv, NEW s \in Slots, EditLayer(s)
  PROVE  Inv'
<1>1. /\ pc = "gone" /\ pc' = pc /\ game' = game /\ qpc = "off" /\ qpc' = qpc
      /\ cut \subseteq cut' \cup {s}
      /\ UNCHANGED <<ini, ownIni, pending, srcs, files>>
      BY DEF EditLayer, lifecycle, Inv, Phases
<1>2. /\ disk' \in [Slots -> [Files -> {"none", "dir", "torn", "packed", "user"}]]
      /\ \A u \in Slots : u # s => disk'[u] = disk[u]
      /\ \/ \E f \in Files : disk'[s][f] = "user"
         \/ \A f \in Files : disk'[s][f] = "none"
  <2>1. CASE \E f \in Files : disk' = [disk EXCEPT ![s][f] = "user"]
        BY <2>1 DEF Inv, Types
  <2>2. CASE disk' = [disk EXCEPT ![s] = [f \in Files |-> "none"]]
        BY <2>2 DEF Inv, Types
  <2>. QED BY <2>1, <2>2 DEF EditLayer
<1>3. Types' /\ Phases' /\ IniKept' /\ Work' /\ Plan'
      BY <1>1, <1>2 DEF Inv, Types, QPoints, Phases, IniKept, Work, Installing, Plan
<1>4. Settled'
  <2> SUFFICES ASSUME NEW i \in Firsts, NEW l \in ToSet(Layers)
               PROVE  \/ Untouched(SlotOf(i, l))' \/ Complete(Catalog[i], l)'
                      \/ SlotOf(i, l) \in cut'
      BY DEF Settled
  <2>1. SlotOf(i, l) \in Slots
        BY EntryFacts DEF Firsts
  <2>2. CASE SlotOf(i, l) = s
        BY <1>2, <2>2 DEF Untouched, Complete, SlotOf
  <2>3. CASE SlotOf(i, l) # s
    <3>1. disk'[SlotOf(i, l)] = disk[SlotOf(i, l)]
          BY <1>2, <2>1, <2>3
    <3>2. /\ Complete(Catalog[i], l) => Complete(Catalog[i], l)'
          /\ Untouched(SlotOf(i, l)) => Untouched(SlotOf(i, l))'
          BY <3>1 DEF Complete, Untouched, SlotOf
    <3>. QED BY <1>1, <2>3, <3>2 DEF Inv, Settled, Installing
  <2>. QED BY <2>2, <2>3
<1>. QED BY <1>3, <1>4 DEF Inv
-----------------------------------------------------------------------------
(* From boot to boot *)

NexusSafety == NexusInit /\ [][NexusNext]_allVars

LEMMA InvInitial == NexusInit => Inv
<1> SUFFICES ASSUME NexusInit PROVE Inv
    OBVIOUS
<1>1. /\ pc = "tls" /\ qpc = "stat" /\ pending = <<>> /\ ini = ownIni
      /\ game = [g \in Games |-> "down"]
      BY DEF NexusInit, Init, QInit
<1>2. disk \in [Slots -> [Files -> {"none", "user"}]]
      BY WorldsAssumption DEF NexusInit
<1>3. Types
      BY <1>1, <1>2 DEF Types, QPoints
<1>4. Phases /\ IniKept /\ Work /\ Plan
      BY <1>1 DEF Phases, IniKept, Work, Installing, Plan
<1>5. Settled
  <2> SUFFICES ASSUME NEW i \in Firsts, NEW l \in ToSet(Layers)
               PROVE  Untouched(SlotOf(i, l)) \/ Complete(Catalog[i], l)
      BY DEF Settled
  <2>1. SlotOf(i, l) \in Slots
        BY EntryFacts DEF Firsts
  <2>2. disk[SlotOf(i, l)] \in [Files -> {"none", "user"}]
        BY <1>2, <2>1
  <2>. QED BY <2>2 DEF Untouched, Complete, SlotOf
<1>. QED BY <1>3, <1>4, <1>5 DEF Inv

LEMMA InvKept == Inv /\ [NexusNext]_allVars => Inv'
<1> SUFFICES ASSUME Inv, [NexusNext]_allVars PROVE Inv'
    OBVIOUS
<1>1. CASE UNCHANGED allVars
  <2>1. UNCHANGED <<pc, game, qpc, ini, disk, cut, pending, srcs, files, ownIni>>
        BY <1>1 DEF allVars, runVars, lifecycle, qvars, gameDir
  <2>2. Types' /\ Phases' /\ IniKept' /\ Work'
        BY <2>1 DEF Inv, Types, Phases, IniKept, Work, Installing
  <2>3. Settled' /\ Plan'
        BY <2>1, SameLayers, SamePlan DEF Inv, Settled, Plan, Installing
  <2>. QED BY <2>2, <2>3 DEF Inv
<1>. QED BY <1>1, MainKeeps, InstallKeeps, RestartKeeps, EditIniKeeps, EditLayerKeeps
         DEF NexusNext

LEMMA InvHolds == NexusSafety => []Inv
BY InvInitial, InvKept, PTL DEF NexusSafety

\* What a server that is started needs is planned: the base, and the game that
\* its own line in servers.ini names.
LEMMA NeededIsPlanned ==
  ASSUME NEW g, NEW i \in NeededBy(g)
  PROVE  i \in DOMAIN Catalog /\ Planned(i)
<1> DEFINE e == Catalog[i]
<1>1. /\ i \in DOMAIN Catalog
      /\ \A j \in 1..i - 1 : EntryName(Catalog[j]) # EntryName(e)
      /\ \/ e.base # ""
         \/ /\ e.game # ""
            /\ \E line \in OwnLine(g) : Word(e.game) \in ListGamesInServersIni(<<line>>)
      BY DEF NeededBy
<1>2. e \in ToSet(Catalog)
      BY <1>1, Zenon DEF ToSet
<1>3. CASE e.base # ""
      BY <1>1, <1>2, <1>3 DEF Planned, EntryName
<1>4. CASE e.base = ""
  <2>1. PICK line \in OwnLine(g) : Word(e.game) \in ListGamesInServersIni(<<line>>)
        BY <1>1, <1>4
  <2>2. line \in ToSet(ini)
        BY DEF OwnLine, ToSet
  <2>3. ToSet(<<line>>) = {line}
        BY DEF ToSet
  <2>4. ListGamesInServersIni(<<line>>) \subseteq ListGamesInServersIni(ini)
        BY <2>2, <2>3 DEF ListGamesInServersIni
  <2>5. EntryName(e) = e.game
        BY <1>4 DEF EntryName
  <2>. QED BY <1>1, <1>4, <2>1, <2>4, <2>5 DEF Planned
<1>. QED BY <1>3, <1>4

\* However the boots before this one ended, a server that Nexus runs has all the
\* data of its game and of the base, but for the layers known to be half
\* installed: QuickstartGame installs what the lines of servers.ini name before
\* StartAll launches one of them.
THEOREM LaunchedHasItsData == NexusSafety => []LaunchedIsInstalled
<1>1. Inv => LaunchedIsInstalled
  <2> SUFFICES ASSUME Inv, NEW g \in Games, pc # "gone", game[g] = "up",
                      NEW i \in NeededBy(g), NEW l \in ToSet(Layers)
               PROVE  Complete(Catalog[i], l) \/ SlotOf(i, l) \in cut
      BY DEF LaunchedIsInstalled, SlotOf
  <2>1. qpc = "done" /\ pending = <<>>
        BY DEF Inv, Phases, Plan
  <2>2. ToSet(pending) = {}
        BY <2>1 DEF ToSet
  <2>. QED BY <2>1, <2>2, NeededIsPlanned DEF Inv, Plan
<1>. QED BY <1>1, InvHolds, PTL

\* "If it exists, it is never modified": no boot, whether it fails, is killed or
\* completes, changes the servers.ini that the operator provided, nor a file the
\* operator put into a layer of a game that the catalog does not force.
THEOREM OperatorFilesStay == NexusSafety => OperatorFilesKept
<1> DEFINE Unforced(s) == \A e \in ToSet(Catalog) : EntryName(e) = s[1] => ~e.force
           Keeps == /\ ownIni # NoFile /\ ownIni' = ownIni => ini' = ini
                    /\ \A s \in Slots, f \in Files :
                         (/\ disk[s][f] = "user" /\ edited' = edited
                          /\ \A e \in ToSet(Catalog) : EntryName(e) = s[1] => ~e.force)
                           => disk'[s][f] = "user"
<1>1. Inv /\ [NexusNext]_allVars => [Keeps]_allVars
  <2> SUFFICES ASSUME Inv, NexusNext PROVE Keeps
      OBVIOUS
  <2>1. CASE MainStep
        BY <2>1 DEF MainStep, Quit, qvars, gameDir
  <2>2. CASE InstallStep
    <3>1. ownIni # NoFile /\ ownIni' = ownIni => ini' = ini
          BY <2>2 DEF InstallStep, QuickstartStep, Inv, IniKept, Stat, CreateIni, WriteIni, List,
                      InstallLayer, InstallFromSource, LayerDone, MkdirAll, CreateFile, CopyFile,
                      SourceDone, Finish, gameDir
    <3>2. \/ disk' = disk
          \/ Installing /\ \E f, v : disk' = [disk EXCEPT ![Head(pending).slot][f] = v]
          BY <2>2 DEF InstallStep, QuickstartStep, Stat, CreateIni, WriteIni, List,
                      InstallLayer, InstallFromSource, LayerDone, MkdirAll, CreateFile, CopyFile,
                      SourceDone, Finish, gameDir, Installing
    <3>3. CASE disk' = disk
          BY <3>1, <3>3
    <3>4. CASE Installing /\ \E f, v : disk' = [disk EXCEPT ![Head(pending).slot][f] = v]
      <4> DEFINE t == Head(pending)
      <4>1. t \in Tasks
            BY <3>4, TailFacts DEF Inv, Types, Work
      <4>2. PICK i \in Firsts, l \in ToSet(Layers) :
              i \in DOMAIN Catalog /\ t.slot = SlotOf(i, l) /\ t.force = Catalog[i].force
            BY <4>1, TaskFacts
      <4>3. t.force \/ \A f \in Files : disk[t.slot][f] # "user"
            BY <3>4 DEF Inv, Work
      <4>4. ASSUME NEW s \in Slots, NEW f \in Files, disk[s][f] = "user", Unforced(s)
            PROVE  disk'[s][f] = "user"
        <5>1. s # t.slot
          <6>1. SUFFICES ASSUME s = t.slot PROVE FALSE
                OBVIOUS
          <6>2. Catalog[i].force
                BY <4>2, <4>3, <4>4, <6>1
          <6>3. s = <<EntryName(Catalog[i]), l>>
                BY <4>2, <6>1 DEF SlotOf
          <6>4. EntryName(Catalog[i]) = s[1]
                BY <6>3
          <6>5. Catalog[i] \in ToSet(Catalog)
                BY <4>2, EntryFacts
          <6>. QED BY <4>4, <6>2, <6>4, <6>5
        <5>2. disk \in [Slots -> [Files -> {"none", "dir", "torn", "packed", "user"}]]
              BY DEF Inv, Types
        <5>. QED BY <3>4, <4>4, <5>1, <5>2
      <4>. QED BY <3>1, <4>4
    <3>. QED BY <3>2, <3>3, <3>4
  <2>3. CASE Restart
        BY <2>3 DEF Restart, gameDir
  <2>4. CASE EditIni
        BY <2>4 DEF EditIni, Inv, IniKept
  <2>5. CASE \E s \in Slots : EditLayer(s)
        BY <2>5 DEF EditLayer
  <2>. QED BY <2>1, <2>2, <2>3, <2>4, <2>5 DEF NexusNext
<1>. QED BY <1>1, InvHolds, PTL DEF NexusSafety, OperatorFilesKept

-----------------------------------------------------------------------------
(* Loops *)

\* What holds at first, and after a turn if it held before it, holds throughout.
LEMMA Upward ==
  ASSUME NEW m \in Nat, NEW S, 0 \in S, \A n \in 1..m : n - 1 \in S => n \in S
  PROVE  \A n \in 0..m : n \in S
<1> DEFINE T == {n \in 0..m : n \notin S}
<1>1. SUFFICES ASSUME T # {} PROVE FALSE
      OBVIOUS
<1>2. PICK n \in T : \A y \in T : n <= y
  <2>1. T \subseteq Nat
        OBVIOUS
  <2> HIDE DEF T
  <2>. QED BY <1>1, <2>1, Least
<1>3. n \in 1..m /\ n - 1 \in 0..m /\ n - 1 \notin T
      BY <1>2
<1>. QED BY <1>2, <1>3

\* f is the course of a loop of m turns that begins with a, where turn n makes
\* st[<<u, n>>] of u.
Loop(f, A, a, m, st) ==
  /\ f \in [0..m -> A] /\ f[0] = a
  /\ \A n \in 1..m : f[n] = st[<<f[n - 1], n>>]

Within(A, m, st) == \A u \in A, n \in 1..m : st[<<u, n>>] \in A

\* A loop whose turns stay within A can be run.
LEMMA LoopExists ==
  ASSUME NEW A, NEW a \in A, NEW m \in Nat, NEW st, Within(A, m, st)
  PROVE  \E f : Loop(f, A, a, m, st)
<1> DEFINE Ran(f, k) == f[0] = a /\ \A n \in 1..k : f[n] = st[<<f[n - 1], n>>]
           S == {k \in 0..m : \E f \in [0..k -> A] : Ran(f, k)}
<1>1. 0 \in S
  <2>1. [i \in 0..0 |-> a] \in [0..0 -> A] /\ Ran([i \in 0..0 |-> a], 0)
        OBVIOUS
  <2> HIDE DEF Ran
  <2>2. \E f \in [0..0 -> A] : Ran(f, 0)
        BY <2>1
  <2>. QED BY <2>2
<1>2. ASSUME NEW k \in 1..m, k - 1 \in S PROVE k \in S
  <2>1. PICK g \in [0..(k - 1) -> A] : Ran(g, k - 1)
        BY <1>2
  <2> DEFINE h == [i \in 0..k |-> IF i = k THEN st[<<g[k - 1], k>>] ELSE g[i]]
  <2>2. st[<<g[k - 1], k>>] \in A
        BY DEF Within
  <2>3. h \in [0..k -> A]
        BY <2>2
  <2>4. Ran(h, k)
    <3>0. 0 \in 0..k /\ 0 # k /\ k - 1 \in 0..k /\ k - 1 # k /\ k \in 0..k
          OBVIOUS
    <3>1. h[0] = a /\ h[k] = st[<<h[k - 1], k>>]
      <4>1. h[0] = g[0] /\ h[k - 1] = g[k - 1] /\ h[k] = st[<<g[k - 1], k>>]
            BY <3>0
      <4> HIDE DEF h
      <4>. QED BY <2>1, <4>1
    <3>2. \A n \in 1..(k - 1) : h[n] = g[n] /\ h[n - 1] = g[n - 1] /\ g[n] = st[<<g[n - 1], n>>]
          BY <2>1
    <3>3. \A n \in 1..k : n = k \/ n \in 1..(k - 1)
          OBVIOUS
    <3> HIDE DEF h
    <3>. QED BY <3>1, <3>2, <3>3
  <2> HIDE DEF h
  <2>. QED BY <2>3, <2>4
<1> HIDE DEF S
<1>3. m \in S
      BY <1>1, <1>2, Upward
<1>. QED BY <1>3 DEF S, Loop

-----------------------------------------------------------------------------
(* The merge of a launch line with its groups *)

\* The provers do not know that a literal is a string.
Text    == STRING \cup {"", "-", "@", "game", "def", "nqserver"}
Token   == Text \X Text
Scripts == Seq(Seq(Token))

LEMMA FieldsAreTokens == Inis \subseteq Scripts
<1>1. Field \subseteq Token
      BY DEF Field, Token, Text
<1>2. Seq(Field) \subseteq Seq(Token)
      BY <1>1
<1>. QED BY <1>2 DEF Inis, Scripts

Accs == [out : Seq(Token), inserted : SUBSET Text, skip : BOOLEAN]

LEMMA FieldInserted ==
  ASSUME NEW explicit, NEW acc \in Accs, NEW t \in Token
  PROVE  InsertField(explicit, acc, t) \in Accs
<1>1. t[2] \in Text
      BY DEF Token
<1>2. Append(acc.out, t) \in Seq(Token)
      BY DEF Accs
<1>. QED BY <1>1, <1>2 DEF InsertField, Accs

\* The course of the loop over a group.
InsertCourse(f, explicit, acc, group) ==
  /\ f \in [0..Len(group) -> Accs]
  /\ f[0] = [acc EXCEPT !.skip = FALSE]
  /\ \A n \in 1..Len(group) : f[n] = InsertField(explicit, f[n - 1], group[n])
  /\ InsertGroup(explicit, acc, group) = f[Len(group)]

LEMMA GroupLoop ==
  ASSUME NEW explicit, NEW acc \in Accs, NEW group \in Seq(Token)
  PROVE  \E f : InsertCourse(f, explicit, acc, group)
<1> DEFINE m == Len(group)
           a == [acc EXCEPT !.skip = FALSE]
           st == [x \in Accs \X (1..m) |-> InsertField(explicit, x[1], group[x[2]])]
           Ran(f) == f = [n \in 0..m |-> IF n = 0 THEN a ELSE InsertField(explicit, f[n - 1], group[n])]
<1>1. m \in Nat /\ a \in Accs /\ \A n \in 1..m : group[n] \in Token
  <2>1. m \in Nat /\ \A n \in 1..m : group[n] \in Token
        OBVIOUS
  <2>2. a \in Accs
        BY DEF Accs
  <2>. QED BY <2>1, <2>2
<1>2. \A u \in Accs, n \in 1..m : st[<<u, n>>] = InsertField(explicit, u, group[n])
      OBVIOUS
<1>3. Within(Accs, m, st)
      BY <1>1, <1>2, FieldInserted DEF Within
<1> HIDE DEF st, m, a
<1>4. PICK f : Loop(f, Accs, a, m, st)
      BY <1>1, <1>3, LoopExists
<1>5. \A n \in 1..m : f[n] = InsertField(explicit, f[n - 1], group[n])
  <2> TAKE n \in 1..m
  <2>1. f[n - 1] \in Accs
        BY <1>1, <1>4 DEF Loop
  <2>. QED BY <1>2, <1>4, <2>1 DEF Loop
<1>6. Ran(f)
  <2>1. \A n \in 0..m : f[n] = IF n = 0 THEN a ELSE InsertField(explicit, f[n - 1], group[n])
        BY <1>1, <1>4, <1>5 DEF Loop
  <2>. QED BY <1>4, <2>1 DEF Loop
<1>7. PICK g : Ran(g) /\ InsertGroup(explicit, acc, group) = g[m]
  <2>1. Ran(CHOOSE g : Ran(g))
        BY <1>6
  <2>2. InsertGroup(explicit, acc, group) = (CHOOSE g : Ran(g))[m]
        BY Zenon DEF InsertGroup, m, a
  <2>. QED BY <2>1, <2>2
<1>8. g[0] = a /\ \A n \in 1..m : g[n] = InsertField(explicit, g[n - 1], group[n])
  <2> DEFINE e(n) == IF n = 0 THEN a ELSE InsertField(explicit, g[n - 1], group[n])
  <2>1. g = [n \in 0..m |-> e(n)]
        BY <1>7
  <2> HIDE DEF e
  <2>2. \A n \in 0..m : g[n] = e(n)
        BY <2>1
  <2>. QED BY <1>1, <2>2 DEF e
<1>9. \A n \in 0..m : g[n] \in Accs
  <2> DEFINE S == {n \in 0..m : g[n] \in Accs}
  <2>1. 0 \in S
        BY <1>1, <1>8
  <2>2. \A n \in 1..m : n - 1 \in S => n \in S
        BY <1>1, <1>8, FieldInserted
  <2> HIDE DEF S
  <2>3. \A n \in 0..m : n \in S
        BY <1>1, <2>1, <2>2, Upward
  <2>. QED BY <2>3 DEF S
<1>10. g \in [0..m -> Accs]
  <2>1. g = [n \in 0..m |-> g[n]]
        BY <1>7
  <2>. QED BY <1>9, <2>1
<1>. QED BY <1>7, <1>8, <1>10 DEF m, a, InsertCourse

\* A line, and groups, of fields.
Shape(line, groups) ==
  line \in Seq(Token) /\ \A k \in DOMAIN groups : groups[k] \in Seq(Token)

LEMMA FieldMerged ==
  ASSUME NEW explicit, NEW line, NEW groups, Shape(line, groups),
         NEW acc \in Accs, NEW t \in Token
  PROVE  MergeField(explicit, groups, acc, t) \in Accs
<1>1. CASE IsReference(t, groups)
  <2>1. groups[t[2]] \in Seq(Token)
        BY <1>1 DEF IsReference, Shape
  <2>2. InsertGroup(explicit, acc, groups[t[2]]) \in Accs
    <3>1. PICK f : InsertCourse(f, explicit, acc, groups[t[2]])
          BY <2>1, GroupLoop
    <3>2. Len(groups[t[2]]) \in 0..Len(groups[t[2]])
          BY <2>1
    <3>. QED BY <3>1, <3>2 DEF InsertCourse
  <2>. QED BY <1>1, <2>2 DEF MergeField
<1>2. CASE ~IsReference(t, groups)
  <2>1. Append(acc.out, t) \in Seq(Token)
        BY DEF Accs
  <2>. QED BY <1>2, <2>1 DEF MergeField, Accs
<1>. QED BY <1>1, <1>2

Blank == [out |-> <<>>, inserted |-> {}, skip |-> FALSE]

\* The course of the loop over a launch line.
LineCourse(f, line, groups) ==
  /\ f \in [0..Len(line) -> Accs]
  /\ f[0] = Blank
  /\ \A n \in 1..Len(line) : f[n] = MergeField(KeysOf(Tail(line)), groups, f[n - 1], line[n])
  /\ MergeLaunchGroups(line, groups) = f[Len(line)].out

LEMMA LineLoop ==
  ASSUME NEW line, NEW groups, Shape(line, groups)
  PROVE  \E f : LineCourse(f, line, groups)
<1> DEFINE m == Len(line)
           own == KeysOf(Tail(line))
           st == [x \in Accs \X (1..m) |-> MergeField(own, groups, x[1], line[x[2]])]
           Ran(f) == f = [n \in 0..m |-> IF n = 0 THEN Blank
                                         ELSE MergeField(own, groups, f[n - 1], line[n])]
<1>1. m \in Nat /\ \A n \in 1..m : line[n] \in Token
      BY DEF Shape
<1>2. Blank \in Accs
      BY DEF Accs, Blank
<1>3. \A u \in Accs, n \in 1..m : st[<<u, n>>] = MergeField(own, groups, u, line[n])
      OBVIOUS
<1> HIDE DEF st, m, own
<1>4. \A u \in Accs, n \in 1..m : MergeField(own, groups, u, line[n]) \in Accs
      BY <1>1, FieldMerged
<1>5. Within(Accs, m, st)
      BY <1>3, <1>4 DEF Within
<1>6. PICK f : Loop(f, Accs, Blank, m, st)
      BY <1>1, <1>2, <1>5, LoopExists
<1>7. \A n \in 1..m : f[n] = MergeField(own, groups, f[n - 1], line[n])
  <2> TAKE n \in 1..m
  <2>1. f[n - 1] \in Accs
        BY <1>1, <1>6 DEF Loop
  <2>. QED BY <1>3, <1>6, <2>1 DEF Loop
<1>8. Ran(f)
  <2>1. \A n \in 0..m : f[n] = IF n = 0 THEN Blank ELSE MergeField(own, groups, f[n - 1], line[n])
        BY <1>1, <1>6, <1>7 DEF Loop
  <2>. QED BY <1>6, <2>1 DEF Loop
<1>9. PICK g : Ran(g) /\ MergeLaunchGroups(line, groups) = g[m].out
  <2>1. Ran(CHOOSE g : Ran(g))
        BY <1>8
  <2>2. MergeLaunchGroups(line, groups) = (CHOOSE g : Ran(g))[m].out
        BY Zenon DEF MergeLaunchGroups, m, own, Blank
  <2>. QED BY <2>1, <2>2
<1>10. g[0] = Blank /\ \A n \in 1..m : g[n] = MergeField(own, groups, g[n - 1], line[n])
  <2> DEFINE e(n) == IF n = 0 THEN Blank ELSE MergeField(own, groups, g[n - 1], line[n])
  <2>1. g = [n \in 0..m |-> e(n)]
        BY <1>9
  <2> HIDE DEF e
  <2>2. \A n \in 0..m : g[n] = e(n)
        BY <2>1
  <2>. QED BY <1>1, <2>2 DEF e
<1>11. \A n \in 0..m : g[n] \in Accs
  <2> DEFINE S == {n \in 0..m : g[n] \in Accs}
  <2>1. 0 \in S
        BY <1>1, <1>2, <1>10
  <2>2. \A n \in 1..m : n - 1 \in S => n \in S
        BY <1>1, <1>4, <1>10
  <2> HIDE DEF S
  <2>3. \A n \in 0..m : n \in S
        BY <1>1, <2>1, <2>2, Upward
  <2>. QED BY <2>3 DEF S
<1>12. g \in [0..m -> Accs]
  <2>1. g = [n \in 0..m |-> g[n]]
        BY <1>9
  <2>. QED BY <1>11, <2>1
<1>. QED BY <1>9, <1>10, <1>12 DEF m, own, LineCourse

-----------------------------------------------------------------------------
(* Turns *)

LEMMA TurnFacts ==
  ASSUME NEW line, NEW groups, Shape(line, groups), NEW x \in Turns(line, groups)
  PROVE  /\ x = <<x[1], x[2]>> /\ x[1] \in DOMAIN line /\ x[1] \in Nat /\ x[2] \in Nat
         /\ FieldAt(line, groups, x) \in Token
         /\ \/ x[2] = 0 /\ x[1] \notin References(line, groups)
            \/ /\ x[1] \in References(line, groups) /\ x[2] # 0
               /\ x[2] \in DOMAIN groups[line[x[1]][2]]
<1>0. DOMAIN line = 1..Len(line) /\ Len(line) \in Nat /\ \A r \in DOMAIN line : line[r] \in Token
      BY DEF Shape
<1>1. CASE \E r \in DOMAIN line \ References(line, groups) : x = <<r, 0>>
      BY <1>0, <1>1 DEF FieldAt
<1>2. CASE \E r \in References(line, groups) : x \in {r} \X DOMAIN groups[line[r][2]]
  <2>1. PICK r \in References(line, groups) : x \in {r} \X DOMAIN groups[line[r][2]]
        BY <1>2
  <2>2. r \in DOMAIN line /\ groups[line[r][2]] \in Seq(Token)
        BY <2>1 DEF References, IsReference, Shape
  <2>3. x = <<x[1], x[2]>> /\ x[1] = r /\ x[2] \in DOMAIN groups[line[r][2]]
        BY <2>1
  <2>4. /\ x[2] \in Nat /\ x[2] # 0 /\ groups[line[r][2]][x[2]] \in Token
        BY <2>2, <2>3
  <2>. QED BY <1>0, <2>1, <2>2, <2>3, <2>4 DEF FieldAt
<1>. QED BY <1>1, <1>2 DEF Turns

LEMMA TurnOf ==
  ASSUME NEW line, NEW groups, Shape(line, groups), NEW r \in DOMAIN line
  PROVE  /\ r \notin References(line, groups) => <<r, 0>> \in Turns(line, groups)
         /\ r \in References(line, groups) =>
              \A j \in DOMAIN groups[line[r][2]] : <<r, j>> \in Turns(line, groups)
BY DEF Turns

\* The turns are in a line.
LEMMA TurnOrder ==
  ASSUME NEW line, NEW groups, Shape(line, groups),
         NEW x \in Turns(line, groups), NEW y \in Turns(line, groups)
  PROVE  /\ NotAfter(x, x) /\ (NotAfter(x, y) \/ NotAfter(y, x))
         /\ NotAfter(x, y) /\ NotAfter(y, x) => x = y
BY TurnFacts DEF NotAfter

\* out has the fields of the turns in B, in turn.
Filled(out, B, line, groups) ==
  /\ IsFiniteSet(B) /\ Len(out) = Cardinality(B)
  /\ \A x \in B : out[Cardinality({y \in B : NotAfter(y, x)})] = FieldAt(line, groups, x)

LEMMA AddTurn ==
  ASSUME NEW line, NEW groups, Shape(line, groups), NEW B, B \subseteq Turns(line, groups),
         NEW x \in Turns(line, groups), x \notin B, \A y \in B : NotAfter(y, x),
         NEW out \in Seq(Token), Filled(out, B, line, groups)
  PROVE  Filled(Append(out, FieldAt(line, groups, x)), B \cup {x}, line, groups)
<1> DEFINE t == FieldAt(line, groups, x)
           C == B \cup {x}
           new == Append(out, t)
           upto(D, y) == {z \in D : NotAfter(z, y)}
<1>1. t \in Token
      BY TurnFacts
<1> HIDE DEF t
<1>2. /\ Len(out) \in Nat /\ new \in Seq(Token) /\ Len(new) = Len(out) + 1 /\ new[Len(out) + 1] = t
      /\ \A n \in 1..Len(out) : new[n] = out[n]
      BY <1>1
<1>3. IsFiniteSet(B) /\ Cardinality(B) = Len(out)
      BY DEF Filled
<1>4. IsFiniteSet(C) /\ Cardinality(C) = Len(out) + 1
      BY <1>3, FS_AddElement
<1>5. ASSUME NEW y \in B PROVE new[Cardinality(upto(C, y))] = FieldAt(line, groups, y)
  <2>1. ~NotAfter(x, y) /\ NotAfter(y, y)
        BY TurnOrder
  <2>2. upto(C, y) = upto(B, y) /\ y \in upto(B, y) /\ upto(B, y) \subseteq B
        BY <2>1
  <2>3. IsFiniteSet(upto(B, y)) /\ Cardinality(upto(B, y)) \in Nat
        /\ Cardinality(upto(B, y)) <= Len(out)
        BY <1>3, <2>2, FS_Subset, FS_CardinalityType
  <2>4. Cardinality(upto(B, y)) # 0
        BY <2>2, <2>3, FS_EmptySet
  <2>5. out[Cardinality(upto(B, y))] = FieldAt(line, groups, y)
        BY DEF Filled
  <2> HIDE DEF new, upto, C
  <2>. QED BY <1>2, <2>2, <2>3, <2>4, <2>5
<1>6. new[Cardinality(upto(C, x))] = t
  <2>1. upto(C, x) = C
        BY TurnOrder
  <2> HIDE DEF new, upto, C
  <2>. QED BY <1>2, <1>4, <2>1
<1>7. \A y \in C : new[Cardinality(upto(C, y))] = FieldAt(line, groups, y)
  <2> TAKE y \in C
  <2>1. y \in B \/ y = x
        OBVIOUS
  <2> HIDE DEF new, upto, C
  <2>. QED BY <1>5, <1>6, <2>1 DEF t
<1>8. Filled(new, C, line, groups)
  <2> HIDE DEF new, C
  <2>. QED BY <1>2, <1>4, <1>7 DEF Filled
<1>. QED BY <1>8 DEF t

\* The turns up to field j of the group at r, and up to field n of the line.
Seen(r, j, line, groups) ==
  {x \in Turns(line, groups) : x[1] < r \/ (x[1] = r /\ x[2] <= j)}
Passed(n, line, groups) == {x \in Turns(line, groups) : x[1] <= n}

\* The last key of the group at r, up to its field j, is not free.
Skips(r, j, line, groups) ==
  \E y \in KeyTurns(line, groups) :
    /\ y[1] = r /\ y[2] <= j /\ y \notin Free(line, groups)
    /\ \A z \in KeyTurns(line, groups) : z[1] = r /\ z[2] <= j => z[2] <= y[2]

KeysIn(V, line, groups) == {FieldAt(line, groups, y)[2] : y \in KeyTurns(line, groups) \cap V}

\* What the loops have made of the turns V.
Made(acc, V, line, groups) ==
  /\ Filled(acc.out, Kept(line, groups) \cap V, line, groups)
  /\ acc.inserted = KeysIn(V, line, groups) \ KeysOf(Tail(line))

LEMMA NextTurn ==
  ASSUME NEW line, NEW groups, Shape(line, groups),
         NEW r \in References(line, groups), NEW j \in DOMAIN groups[line[r][2]]
  PROVE  LET x == <<r, j>> IN
         /\ x \in Turns(line, groups) /\ FieldAt(line, groups, x) = groups[line[r][2]][j]
         /\ r \in Nat /\ j \in Nat \ {0}
         /\ Seen(r, j, line, groups) = Seen(r, j - 1, line, groups) \cup {x}
         /\ x \notin Seen(r, j - 1, line, groups)
         /\ \A y \in Turns(line, groups) : y \in Seen(r, j - 1, line, groups) <=> NotAfter(y, x) /\ y # x
<1>1. r \in DOMAIN line /\ groups[line[r][2]] \in Seq(Token)
      BY DEF References, IsReference, Shape
<1>2. r \in Nat /\ j \in Nat \ {0}
      BY <1>1 DEF Shape
<1>3. <<r, j>> \in Turns(line, groups) /\ FieldAt(line, groups, <<r, j>>) = groups[line[r][2]][j]
      BY <1>1, <1>2, TurnOf DEF FieldAt
<1>4. \A y \in Turns(line, groups) : y \in Seen(r, j, line, groups) <=> NotAfter(y, <<r, j>>)
      BY DEF Seen, NotAfter
<1>5. \A y \in Turns(line, groups) :
        y \in Seen(r, j - 1, line, groups) <=> NotAfter(y, <<r, j>>) /\ y # <<r, j>>
  <2> TAKE y \in Turns(line, groups)
  <2>1. y = <<y[1], y[2]>> /\ y[1] \in Nat /\ y[2] \in Nat
        BY TurnFacts
  <2>2. y # <<r, j>> <=> y[1] # r \/ y[2] # j
        BY <2>1
  <2>. QED BY <1>2, <2>1, <2>2 DEF Seen, NotAfter
<1>6. Seen(r, j, line, groups) \subseteq Turns(line, groups)
      /\ Seen(r, j - 1, line, groups) \subseteq Turns(line, groups)
      BY DEF Seen
<1>7. NotAfter(<<r, j>>, <<r, j>>)
      BY <1>3, TurnOrder
<1>. QED BY <1>2, <1>3, <1>4, <1>5, <1>6, <1>7

\* A word of a group is kept unless the words of its key are skipped.
LEMMA WordTurn ==
  ASSUME NEW line, NEW groups, Shape(line, groups),
         NEW r \in References(line, groups), NEW j \in DOMAIN groups[line[r][2]],
         ~IsLaunchKeyToken(groups[line[r][2]][j])
  PROVE  /\ <<r, j>> \notin KeyTurns(line, groups)
         /\ Skips(r, j, line, groups) <=> Skips(r, j - 1, line, groups)
         /\ <<r, j>> \in Kept(line, groups) <=> ~Skips(r, j - 1, line, groups)
<1> DEFINE x == <<r, j>>
           K == KeyTurns(line, groups)
<1>1. x \in Turns(line, groups) /\ x \notin K /\ r \in Nat /\ j \in Nat \ {0}
      BY NextTurn DEF KeyTurns
<1>2. \A y \in K : y = <<y[1], y[2]>> /\ y[1] \in Nat /\ y[2] \in Nat
      BY TurnFacts DEF KeyTurns
<1>3. \A y \in K : y[1] = r => (y[2] <= j <=> y[2] <= j - 1)
  <2> TAKE y \in K
  <2>1. y # x
        BY <1>1
  <2>2. y[1] = r => y[2] # j
        BY <1>2, <2>1
  <2>. QED BY <1>1, <1>2, <2>2
<1>4. Skips(r, j, line, groups) <=> Skips(r, j - 1, line, groups)
      BY <1>3 DEF Skips
<1>5. x \in Kept(line, groups) <=> ~Skips(r, j, line, groups)
  <2>1. \A y \in K : (y[1] = x[1] /\ NotAfter(y, x)) <=> (y[1] = r /\ y[2] <= j)
        BY <1>1, <1>2 DEF NotAfter
  <2>2. \A y, z \in K : y[1] = r /\ z[1] = r => (NotAfter(z, y) <=> z[2] <= y[2])
        BY <1>1, <1>2 DEF NotAfter
  <2> HIDE DEF x, K
  <2>3. x \in Kept(line, groups) <=>
          \A y \in K : (/\ y[1] = r /\ y[2] <= j
                        /\ \A z \in K : z[1] = r /\ z[2] <= j => z[2] <= y[2])
                       => y \in Free(line, groups)
    <3>1. x \in Kept(line, groups) <=>
          \A y \in K : (/\ y[1] = x[1] /\ NotAfter(y, x)
                        /\ \A z \in K : z[1] = x[1] /\ NotAfter(z, x) => NotAfter(z, y))
                       => y \in Free(line, groups)
          BY <1>1 DEF Kept, K
    <3>. QED BY <2>1, <2>2, <3>1
  <2>. QED BY <2>3 DEF Skips, K
<1>. QED BY <1>1, <1>4, <1>5

\* A key of a group is kept, and what follows it is, if it is not taken.
LEMMA KeyTurn ==
  ASSUME NEW line, NEW groups, Shape(line, groups),
         NEW r \in References(line, groups), NEW j \in DOMAIN groups[line[r][2]],
         IsLaunchKeyToken(groups[line[r][2]][j])
  PROVE  LET x == <<r, j>>
             k == groups[line[r][2]][j][2] IN
         /\ x \in KeyTurns(line, groups)
         /\ x \in Free(line, groups) <=>
              k \notin KeysOf(Tail(line)) \cup KeysIn(Seen(r, j - 1, line, groups), line, groups)
         /\ Skips(r, j, line, groups) <=> x \notin Free(line, groups)
         /\ x \in Kept(line, groups) <=> x \in Free(line, groups)
<1> DEFINE x == <<r, j>>
           K == KeyTurns(line, groups)
           key(y) == FieldAt(line, groups, y)[2]
<1>1. /\ x \in Turns(line, groups) /\ x \in K /\ r \in Nat /\ j \in Nat \ {0}
      /\ x[1] = r /\ x[2] = j /\ key(x) = groups[line[r][2]][j][2]
      BY NextTurn DEF KeyTurns
<1>2. \A y \in K : y \in Turns(line, groups) /\ y = <<y[1], y[2]>> /\ y[1] \in Nat /\ y[2] \in Nat
      BY TurnFacts DEF KeyTurns
<1>3. \A y \in K : y \in Seen(r, j - 1, line, groups) <=> NotAfter(y, x) /\ y # x
      BY <1>2, NextTurn
<1>4. x \in Free(line, groups) <=>
        /\ key(x) \notin KeysOf(Tail(line))
        /\ \A y \in K : NotAfter(y, x) /\ key(y) = key(x) => y = x
      BY <1>1 DEF Free
<1>5. \A y \in K : (y[1] = r /\ NotAfter(y, x)) <=> (y[1] = r /\ y[2] <= j)
      BY <1>1, <1>2 DEF NotAfter
<1>6. \A y \in K : y[1] = r /\ y[2] = j => y = x
      BY <1>2
<1> HIDE DEF x, K, key
<1>7. x \in Free(line, groups) <=>
        key(x) \notin KeysOf(Tail(line)) \cup KeysIn(Seen(r, j - 1, line, groups), line, groups)
  <2>1. KeysIn(Seen(r, j - 1, line, groups), line, groups)
          = {key(y) : y \in K \cap Seen(r, j - 1, line, groups)}
        BY DEF KeysIn, key, K
  <2>. QED BY <1>3, <1>4, <2>1
<1>8. Skips(r, j, line, groups) <=> x \notin Free(line, groups)
  <2>1. Skips(r, j, line, groups) <=>
          \E y \in K : /\ y[1] = r /\ y[2] <= j /\ y \notin Free(line, groups)
                       /\ \A z \in K : z[1] = r /\ z[2] <= j => z[2] <= y[2]
        BY DEF Skips, K
  <2>2. \A y \in K : (/\ y[1] = r /\ y[2] <= j
                      /\ \A z \in K : z[1] = r /\ z[2] <= j => z[2] <= y[2]) <=> y = x
        BY <1>1, <1>2, <1>6
  <2>. QED BY <1>1, <2>1, <2>2
<1>9. x \in Kept(line, groups) <=> x \in Free(line, groups)
  <2>1. x \in Kept(line, groups) <=>
          \A y \in K : (/\ y[1] = r /\ NotAfter(y, x)
                        /\ \A z \in K : z[1] = r /\ NotAfter(z, x) => NotAfter(z, y))
                       => y \in Free(line, groups)
        BY <1>1 DEF Kept, K
  <2>2. NotAfter(x, x) /\ \A y \in K : NotAfter(y, x) /\ NotAfter(x, y) => y = x
        BY <1>1, <1>2, TurnOrder
  <2>. QED BY <1>1, <2>1, <2>2
<1>. QED BY <1>1, <1>7, <1>8, <1>9 DEF x, K, key

\* A turn that is not kept and has no key changes nothing; one that is kept adds
\* its field.
LEMMA MadeMore ==
  ASSUME NEW line, NEW groups, Shape(line, groups), NEW V, V \subseteq Turns(line, groups),
         NEW x \in Turns(line, groups), x \notin V, \A y \in V : NotAfter(y, x),
         NEW out \in Seq(Token), Filled(out, Kept(line, groups) \cap V, line, groups)
  PROVE  /\ x \in Kept(line, groups) =>
              Filled(Append(out, FieldAt(line, groups, x)),
                     Kept(line, groups) \cap (V \cup {x}), line, groups)
         /\ x \notin Kept(line, groups) =>
              Filled(out, Kept(line, groups) \cap (V \cup {x}), line, groups)
         /\ KeysIn(V \cup {x}, line, groups) =
              IF x \in KeyTurns(line, groups)
                THEN KeysIn(V, line, groups) \cup {FieldAt(line, groups, x)[2]}
                ELSE KeysIn(V, line, groups)
<1>1. ASSUME x \in Kept(line, groups)
      PROVE  Filled(Append(out, FieldAt(line, groups, x)),
                    Kept(line, groups) \cap (V \cup {x}), line, groups)
  <2>1. Kept(line, groups) \cap (V \cup {x}) = (Kept(line, groups) \cap V) \cup {x}
        BY <1>1
  <2>. QED BY <2>1, AddTurn
<1>2. x \notin Kept(line, groups) => Kept(line, groups) \cap (V \cup {x}) = Kept(line, groups) \cap V
      OBVIOUS
<1>3. KeysIn(V \cup {x}, line, groups) =
        IF x \in KeyTurns(line, groups)
          THEN KeysIn(V, line, groups) \cup {FieldAt(line, groups, x)[2]}
          ELSE KeysIn(V, line, groups)
      BY DEF KeysIn
<1>. QED BY <1>1, <1>2, <1>3

\* One field of a group.
LEMMA GroupTurn ==
  ASSUME NEW line, NEW groups, Shape(line, groups),
         NEW r \in References(line, groups), NEW j \in DOMAIN groups[line[r][2]],
         NEW acc \in Accs, Made(acc, Seen(r, j - 1, line, groups), line, groups),
         acc.skip <=> Skips(r, j - 1, line, groups)
  PROVE  LET new == InsertField(KeysOf(Tail(line)), acc, groups[line[r][2]][j]) IN
         /\ Made(new, Seen(r, j, line, groups), line, groups)
         /\ new.skip <=> Skips(r, j, line, groups)
<1> DEFINE own == KeysOf(Tail(line))
           t == groups[line[r][2]][j]
           x == <<r, j>>
           V == Seen(r, j - 1, line, groups)
           new == InsertField(own, acc, t)
<1>1. /\ x \in Turns(line, groups) /\ FieldAt(line, groups, x) = t
      /\ Seen(r, j, line, groups) = V \cup {x} /\ x \notin V
      /\ V \subseteq Turns(line, groups) /\ \A y \in V : NotAfter(y, x)
  <2>1. V \subseteq Turns(line, groups)
        BY DEF Seen
  <2>. QED BY <2>1, NextTurn
<1>2. acc.out \in Seq(Token) /\ acc.skip \in BOOLEAN
      BY DEF Accs
<1>3. /\ Filled(acc.out, Kept(line, groups) \cap V, line, groups)
      /\ acc.inserted = KeysIn(V, line, groups) \ own
      BY DEF Made
<1> HIDE DEF V, x, own, t
<1>4. /\ x \in Kept(line, groups) =>
           Filled(Append(acc.out, t), Kept(line, groups) \cap (V \cup {x}), line, groups)
      /\ x \notin Kept(line, groups) =>
           Filled(acc.out, Kept(line, groups) \cap (V \cup {x}), line, groups)
      /\ KeysIn(V \cup {x}, line, groups) =
           IF x \in KeyTurns(line, groups) THEN KeysIn(V, line, groups) \cup {t[2]}
                                           ELSE KeysIn(V, line, groups)
  <2>1. /\ Shape(line, groups) /\ V \subseteq Turns(line, groups)
        /\ x \in Turns(line, groups) /\ x \notin V /\ (\A y \in V : NotAfter(y, x))
        /\ acc.out \in Seq(Token) /\ Filled(acc.out, Kept(line, groups) \cap V, line, groups)
        BY <1>1, <1>2, <1>3, Zenon
  <2>2. /\ x \in Kept(line, groups) =>
             Filled(Append(acc.out, FieldAt(line, groups, x)),
                    Kept(line, groups) \cap (V \cup {x}), line, groups)
        /\ x \notin Kept(line, groups) =>
             Filled(acc.out, Kept(line, groups) \cap (V \cup {x}), line, groups)
        /\ KeysIn(V \cup {x}, line, groups) =
             IF x \in KeyTurns(line, groups)
               THEN KeysIn(V, line, groups) \cup {FieldAt(line, groups, x)[2]}
               ELSE KeysIn(V, line, groups)
        BY <2>1, MadeMore
  <2>. QED BY <1>1, <2>2
<1>5. CASE ~IsLaunchKeyToken(t)
  <2>1. /\ x \notin KeyTurns(line, groups)
        /\ Skips(r, j, line, groups) <=> Skips(r, j - 1, line, groups)
        /\ x \in Kept(line, groups) <=> ~Skips(r, j - 1, line, groups)
        BY <1>5, WordTurn DEF x, t
  <2>2. /\ new.skip = acc.skip /\ new.inserted = acc.inserted
        /\ new.out = IF acc.skip THEN acc.out ELSE Append(acc.out, t)
        BY <1>5 DEF InsertField, Accs
  <2> HIDE DEF new
  <2>3. Made(new, V \cup {x}, line, groups)
        BY <1>3, <1>4, <2>1, <2>2 DEF Made, own
  <2>. QED BY <1>1, <2>1, <2>2, <2>3 DEF new, own, t
<1>6. CASE IsLaunchKeyToken(t)
  <2>1. /\ x \in KeyTurns(line, groups)
        /\ x \in Free(line, groups) <=> t[2] \notin own \cup KeysIn(V, line, groups)
        /\ Skips(r, j, line, groups) <=> x \notin Free(line, groups)
        /\ x \in Kept(line, groups) <=> x \in Free(line, groups)
        BY <1>6, KeyTurn DEF x, t, own, V
  <2>2. CASE x \notin Free(line, groups)
    <3>1. t[2] \in Taken(own, acc.inserted)
          BY <1>3, <2>1, <2>2 DEF Taken
    <3>2. new.skip = TRUE /\ new.inserted = acc.inserted /\ new.out = acc.out
          BY <1>6, <3>1 DEF InsertField, Accs
    <3>3. KeysIn(V \cup {x}, line, groups) \ own = acc.inserted
          BY <1>3, <1>4, <2>1, <2>2
    <3> HIDE DEF new
    <3>4. Made(new, V \cup {x}, line, groups)
          BY <1>4, <2>1, <2>2, <3>2, <3>3 DEF Made, own
    <3>. QED BY <1>1, <2>1, <2>2, <3>2, <3>4 DEF new, own, t
  <2>3. CASE x \in Free(line, groups)
    <3>1. t[2] \notin Taken(own, acc.inserted)
          BY <1>3, <2>1, <2>3 DEF Taken
    <3>2. new.skip = FALSE /\ new.inserted = acc.inserted \cup {t[2]} /\ new.out = Append(acc.out, t)
          BY <1>6, <3>1 DEF InsertField, Accs
    <3>3. KeysIn(V \cup {x}, line, groups) \ own = acc.inserted \cup {t[2]}
          BY <1>3, <1>4, <2>1, <2>3
    <3> HIDE DEF new
    <3>4. Made(new, V \cup {x}, line, groups)
          BY <1>4, <2>1, <2>3, <3>2, <3>3 DEF Made, own
    <3>. QED BY <1>1, <2>1, <2>3, <3>2, <3>4 DEF new, own, t
  <2>. QED BY <2>2, <2>3
<1>. QED BY <1>5, <1>6

\* One field of the line: its own, which is kept, or the group it refers to.
LEMMA LineTurn ==
  ASSUME NEW line, NEW groups, Shape(line, groups), NEW r \in DOMAIN line,
         NEW acc \in Accs, Made(acc, Passed(r - 1, line, groups), line, groups)
  PROVE  Made(MergeField(KeysOf(Tail(line)), groups, acc, line[r]),
              Passed(r, line, groups), line, groups)
<1> DEFINE own == KeysOf(Tail(line))
<1>0. r \in Nat /\ r # 0
      BY DEF Shape
<1>1. CASE r \notin References(line, groups)
  <2> DEFINE x == <<r, 0>>
             V == Passed(r - 1, line, groups)
             new == [acc EXCEPT !.out = Append(@, line[r])]
  <2>1. x \in Turns(line, groups) /\ FieldAt(line, groups, x) = line[r]
        BY <1>1, TurnOf DEF FieldAt
  <2>2. \A y \in Turns(line, groups) : y[1] = r => y = x
        BY <1>1, TurnFacts
  <2>3. x \notin KeyTurns(line, groups) /\ x \in Kept(line, groups)
    <3>1. \A y \in KeyTurns(line, groups) : y[1] # r
          BY <2>2 DEF KeyTurns
    <3>. QED BY <2>1, <3>1 DEF KeyTurns, Kept
  <2>4. /\ V \subseteq Turns(line, groups) /\ x \notin V
        /\ \A y \in V : NotAfter(y, x)
        /\ Passed(r, line, groups) = V \cup {x}
    <3>1. \A y \in Turns(line, groups) : y[1] \in Nat
          BY TurnFacts
    <3>2. \A y \in Turns(line, groups) : y[1] <= r <=> y[1] <= r - 1 \/ y = x
          BY <1>0, <2>2, <3>1
    <3>. QED BY <1>0, <2>1, <3>1, <3>2 DEF Passed, NotAfter
  <2>5. acc.out \in Seq(Token) /\ Filled(acc.out, Kept(line, groups) \cap V, line, groups)
        /\ acc.inserted = KeysIn(V, line, groups) \ own
        BY DEF Accs, Made
  <2>6. new.out = Append(acc.out, line[r]) /\ new.inserted = acc.inserted
        BY DEF Accs
  <2>7. MergeField(own, groups, acc, line[r]) = new
        BY <1>1 DEF MergeField, References
  <2> HIDE DEF x, V, new
  <2>8. /\ Filled(new.out, Kept(line, groups) \cap (V \cup {x}), line, groups)
        /\ KeysIn(V \cup {x}, line, groups) = KeysIn(V, line, groups)
    <3>1. Filled(Append(acc.out, FieldAt(line, groups, x)),
                 Kept(line, groups) \cap (V \cup {x}), line, groups)
          BY <2>1, <2>3, <2>4, <2>5, MadeMore
    <3>2. KeysIn(V \cup {x}, line, groups) = KeysIn(V, line, groups)
          BY <2>1, <2>3, <2>4, <2>5, MadeMore
    <3>. QED BY <2>1, <2>6, <3>1, <3>2
  <2>. QED BY <2>4, <2>5, <2>6, <2>7, <2>8 DEF Made
<1>2. CASE r \in References(line, groups)
  <2> DEFINE g == groups[line[r][2]]
             m == Len(g)
  <2>1. g \in Seq(Token) /\ m \in Nat /\ DOMAIN g = 1..m
        BY <1>2 DEF References, IsReference, Shape
  <2>2. PICK f : InsertCourse(f, own, acc, g)
        BY <2>1, GroupLoop
  <2>3. MergeField(own, groups, acc, line[r]) = f[m]
        BY <1>2, <2>2 DEF MergeField, References, InsertCourse
  <2>4. \A y \in Turns(line, groups) :
          y[1] \in Nat /\ y[2] \in Nat /\ (y[1] = r => y[2] \in 1..m)
        BY <1>2, <2>1, TurnFacts
  <2> HIDE DEF g, m
  <2>5. Seen(r, 0, line, groups) = Passed(r - 1, line, groups)
        BY <1>0, <2>4 DEF Seen, Passed
  <2>6. Seen(r, m, line, groups) = Passed(r, line, groups)
        BY <1>0, <2>1, <2>4 DEF Seen, Passed
  <2> DEFINE P(n) == /\ f[n] \in Accs /\ Made(f[n], Seen(r, n, line, groups), line, groups)
                     /\ f[n].skip <=> Skips(r, n, line, groups)
             S == {n \in 0..m : P(n)}
  <2>7. P(0)
    <3>1. f[0] = [acc EXCEPT !.skip = FALSE]
          BY <2>2 DEF InsertCourse
    <3>2. f[0] \in Accs /\ f[0].out = acc.out /\ f[0].inserted = acc.inserted /\ f[0].skip = FALSE
          BY <3>1 DEF Accs
    <3>3. Made(f[0], Seen(r, 0, line, groups), line, groups)
          BY <2>5, <3>2 DEF Made
    <3>4. ~Skips(r, 0, line, groups)
          BY <2>1, <2>4 DEF Skips, KeyTurns
    <3>. QED BY <3>2, <3>3, <3>4
  <2>8. ASSUME NEW n \in 1..m, P(n - 1) PROVE P(n)
    <3>1. n \in DOMAIN groups[line[r][2]]
          BY <2>1 DEF g
    <3>2. f[n] = InsertField(own, f[n - 1], groups[line[r][2]][n]) /\ f[n] \in Accs
          BY <2>1, <2>2 DEF InsertCourse, g, m
    <3>3. /\ Made(f[n], Seen(r, n, line, groups), line, groups)
          /\ f[n].skip <=> Skips(r, n, line, groups)
          BY <1>2, <2>8, <3>1, <3>2, GroupTurn
    <3>. QED BY <3>2, <3>3
  <2> HIDE DEF P
  <2>9. \A n \in 0..m : n \in S
    <3>1. 0 \in S /\ \A n \in 1..m : n - 1 \in S => n \in S
          BY <2>1, <2>7, <2>8
    <3> HIDE DEF S
    <3>. QED BY <2>1, <3>1, Upward
  <2>10. P(m)
        BY <2>1, <2>9
  <2>. QED BY <2>3, <2>6, <2>10 DEF P
<1>. QED BY <1>1, <1>2

\* The loop makes of a line and its groups what is kept of them.
LEMMA MergeFacts ==
  ASSUME NEW line, NEW groups, Shape(line, groups)
  PROVE  Filled(MergeLaunchGroups(line, groups), Kept(line, groups), line, groups)
<1> DEFINE m == Len(line)
<1>1. m \in Nat /\ DOMAIN line = 1..m
      BY DEF Shape
<1>2. PICK f : LineCourse(f, line, groups)
      BY LineLoop
<1>3. \A x \in Turns(line, groups) : x[1] \in 1..m
      BY <1>1, TurnFacts
<1>4. f[0] = Blank /\ MergeLaunchGroups(line, groups) = f[m].out
      BY <1>2 DEF LineCourse
<1>5. \A n \in 0..m : f[n] \in Accs
      BY <1>2 DEF LineCourse
<1>6. \A n \in 1..m : f[n] = MergeField(KeysOf(Tail(line)), groups, f[n - 1], line[n])
      BY <1>2 DEF LineCourse
<1> HIDE DEF m
<1> DEFINE P(n) == Made(f[n], Passed(n, line, groups), line, groups)
           S == {n \in 0..m : P(n)}
<1>7. P(0)
  <2>1. Passed(0, line, groups) = {}
        BY <1>1, <1>3 DEF Passed
  <2>2. Filled(<<>>, {}, line, groups)
        BY FS_EmptySet DEF Filled
  <2>3. KeysIn({}, line, groups) = {}
        BY DEF KeysIn
  <2>4. f[0].out = <<>> /\ f[0].inserted = {}
        BY <1>4 DEF Blank
  <2>5. Kept(line, groups) \cap {} = {}
        OBVIOUS
  <2>. QED BY <2>1, <2>2, <2>3, <2>4, <2>5 DEF Made
<1>8. ASSUME NEW n \in 1..m, P(n - 1) PROVE P(n)
  <2>1. n \in DOMAIN line /\ f[n - 1] \in Accs
        BY <1>1, <1>5
  <2>. QED BY <1>6, <1>8, <2>1, LineTurn
<1> HIDE DEF P
<1>9. \A n \in 0..m : n \in S
  <2>1. 0 \in S /\ \A n \in 1..m : n - 1 \in S => n \in S
        BY <1>1, <1>7, <1>8
  <2> HIDE DEF S
  <2>. QED BY <1>1, <2>1, Upward
<1>10. P(m)
      BY <1>1, <1>9
<1>11. Kept(line, groups) \cap Passed(m, line, groups) = Kept(line, groups)
      BY <1>1, <1>3 DEF Kept, Passed
<1>. QED BY <1>4, <1>10, <1>11 DEF P, Made

-----------------------------------------------------------------------------
(* The groups of a file, and the files there are *)

Unread == [groups |-> NoGroups, next |-> 0, entries |-> <<>>, err |-> FALSE]

\* The course of the loop over the lines of a file.
FileCourse(f, m, file) ==
  f = [n \in 0..m |-> IF n = 0 THEN Unread ELSE ReadLine(f[n - 1], file[n])]

LEMMA FileCourseExists ==
  ASSUME NEW m \in Nat, NEW file
  PROVE  \E f : FileCourse(f, m, file)
<1> DEFINE S == {k \in 0..m : \E f : FileCourse(f, k, file)}
<1>1. 0 \in S
  <2>1. FileCourse([n \in 0..0 |-> Unread], 0, file)
        BY DEF FileCourse
  <2>2. 0 \in 0..m
        OBVIOUS
  <2>. QED BY <2>1, <2>2
<1>2. ASSUME NEW k \in 1..m, k - 1 \in S PROVE k \in S
  <2>1. PICK g : FileCourse(g, k - 1, file)
        BY <1>2
  <2> DEFINE turn(f, n) == ReadLine(f[n - 1], file[n])
             h == [n \in 0..k |-> IF n = k THEN turn(g, k) ELSE g[n]]
  <2>2. ASSUME NEW n \in 0..k PROVE h[n] = IF n = 0 THEN Unread ELSE turn(h, n)
    <3>1. CASE n = k
      <4>1. h[n] = turn(g, k) /\ h[n - 1] = g[k - 1]
            BY <3>1
      <4>. QED BY <3>1, <4>1
    <3>2. CASE n # k /\ n # 0
      <4>1. n \in 0..(k - 1) /\ n - 1 \in 0..k /\ n - 1 # k
            BY <3>2
      <4>2. h[n] = g[n] /\ h[n - 1] = g[n - 1]
            BY <3>2, <4>1
      <4>3. g[n] = turn(g, n)
            BY <2>1, <3>2, <4>1 DEF FileCourse
      <4>. QED BY <3>2, <4>2, <4>3
    <3>3. CASE n # k /\ n = 0
      <4>1. h[n] = g[n] /\ n \in 0..(k - 1)
            BY <3>3
      <4>. QED BY <2>1, <3>3, <4>1 DEF FileCourse
    <3>. QED BY <3>1, <3>2, <3>3
  <2>3. h = [n \in 0..k |-> h[n]]
        OBVIOUS
  <2> HIDE DEF h
  <2>4. FileCourse(h, k, file)
        BY <2>2, <2>3 DEF FileCourse
  <2>. QED BY <2>4
<1> HIDE DEF S
<1>3. m \in S
      BY <1>1, <1>2, Upward
<1>. QED BY <1>3 DEF S

\* Groups are of fields.
LEMMA GroupsRead ==
  ASSUME NEW file \in Scripts, NEW i \in 0..Len(file)
  PROVE  \A k \in DOMAIN Load(file)[i].groups : Load(file)[i].groups[k] \in Seq(Token)
<1> DEFINE m == Len(file)
<1>1. m \in Nat /\ \A n \in 1..m : file[n] \in Seq(Token)
      BY DEF Scripts
<1>2. PICK f : FileCourse(f, m, file) /\ Load(file) = f
  <2>1. FileCourse(CHOOSE f : FileCourse(f, m, file), m, file)
        BY <1>1, FileCourseExists
  <2>2. Load(file) = CHOOSE f : FileCourse(f, m, file)
        BY Zenon DEF Load, FileCourse, Unread
  <2>. QED BY <2>1, <2>2
<1> HIDE DEF m
<1>3. /\ f[0] = Unread
      /\ \A n \in 1..m : f[n] = ReadLine(f[n - 1], file[n])
  <2> DEFINE e(n) == IF n = 0 THEN Unread ELSE ReadLine(f[n - 1], file[n])
  <2>1. f = [n \in 0..m |-> e(n)]
        BY <1>2 DEF FileCourse
  <2> HIDE DEF e
  <2>2. \A n \in 0..m : f[n] = e(n)
        BY <2>1
  <2>. QED BY <1>1, <2>2 DEF e
<1> DEFINE Has(n, v) == \E u, w, z : f[n] = [groups |-> v, next |-> u, entries |-> w, err |-> z]
           OfFields(v) == \A k \in DOMAIN v : v[k] \in Seq(Token)
           P(n) == \E v : Has(n, v) /\ OfFields(v)
           S == {n \in 0..m : P(n)}
<1>4. P(0)
  <2>1. Has(0, NoGroups)
        BY <1>3, Zenon DEF Unread
  <2>2. OfFields(NoGroups)
        BY DEF NoGroups
  <2> HIDE DEF Has, OfFields
  <2>. QED BY <2>1, <2>2
<1>5. ASSUME NEW n \in 1..m, P(n - 1) PROVE P(n)
  <2>1. PICK v, u, w, z : /\ f[n - 1] = [groups |-> v, next |-> u, entries |-> w, err |-> z]
                          /\ OfFields(v)
        BY <1>5
  <2> DEFINE acc == f[n - 1]
             l == file[n]
             more == [k \in DOMAIN v \cup {l[1][2]} |-> IF k = l[1][2] THEN Tail(l) ELSE v[k]]
  <2>2. l \in Seq(Token) /\ f[n] = ReadLine(acc, l)
        BY <1>1, <1>3
  <2>3. l # <<>> => Tail(l) \in Seq(Token)
        BY <2>2
  <2>4. l # <<>> => OfFields(more)
        BY <2>1, <2>3
  <2>5. acc.groups = v
        BY <2>1
  <2>6. \/ f[n] = acc
        \/ \E x : f[n] = [acc EXCEPT !.err = x]
        \/ l # <<>> /\ f[n] = [acc EXCEPT !.groups = more]
        \/ \E x, y : f[n] = [groups |-> v, next |-> x, err |-> FALSE, entries |-> y]
    <3> HIDE DEF acc, l
    <3>. QED BY <2>2, <2>5 DEF ReadLine
  <2>7. CASE f[n] = acc
        BY <2>1, <2>7
  <2>8. CASE \E x : f[n] = [acc EXCEPT !.err = x]
    <3>1. PICK x : f[n] = [acc EXCEPT !.err = x]
          BY <2>8
    <3>2. f[n] = [groups |-> v, next |-> u, entries |-> w, err |-> x]
          BY <2>1, <3>1
    <3> HIDE DEF OfFields
    <3>. QED BY <2>1, <3>2
  <2>9. CASE l # <<>> /\ f[n] = [acc EXCEPT !.groups = more]
    <3> HIDE DEF OfFields, more
    <3>1. f[n] = [groups |-> more, next |-> u, entries |-> w, err |-> z]
          BY <2>1, <2>9
    <3>. QED BY <2>4, <2>9, <3>1
  <2>10. CASE \E x, y : f[n] = [groups |-> v, next |-> x, err |-> FALSE, entries |-> y]
    <3>1. PICK x, y : f[n] = [groups |-> v, next |-> x, err |-> FALSE, entries |-> y]
          BY <2>10
    <3>2. f[n] = [groups |-> v, next |-> x, entries |-> y, err |-> FALSE]
          BY <3>1
    <3> HIDE DEF OfFields
    <3>. QED BY <2>1, <3>2
  <2>. QED BY <2>6, <2>7, <2>8, <2>9, <2>10
<1> HIDE DEF P
<1>6. \A n \in 0..m : n \in S
  <2>1. 0 \in S /\ \A n \in 1..m : n - 1 \in S => n \in S
        BY <1>1, <1>4, <1>5
  <2> HIDE DEF S
  <2>. QED BY <1>1, <2>1, Upward
<1>7. PICK v : Has(i, v) /\ OfFields(v)
  <2>1. i \in S
        BY <1>6 DEF m
  <2>. QED BY <2>1 DEF P
<1>. QED BY <1>2, <1>7

\* What is chosen of a list of names is a list of names.
LEMMA ChosenType ==
  ASSUME NEW names \in Seq(STRING), NEW allowed
  PROVE  Chosen(names, allowed) \in Seq(STRING)
<1> DEFINE m == Len(names)
           A == Seq(STRING)
           turn(u, n) == IF names[n] \in allowed \ ToSet(u) THEN Append(u, names[n]) ELSE u
           st == [x \in A \X (1..m) |-> turn(x[1], x[2])]
           Ran(f) == f = [n \in 0..m |->
                            IF n = 0 THEN <<>>
                            ELSE IF names[n] \in allowed \ ToSet(f[n - 1])
                              THEN Append(f[n - 1], names[n])
                            ELSE f[n - 1]]
<1>1. m \in Nat /\ <<>> \in A /\ \A u \in A, n \in 1..m : turn(u, n) \in A
  <2>1. m \in Nat /\ <<>> \in A /\ \A n \in 1..m : names[n] \in STRING
        OBVIOUS
  <2>2. \A u \in A, n \in 1..m : Append(u, names[n]) \in A
        BY <2>1
  <2> HIDE DEF A
  <2>. QED BY <2>1, <2>2
<1>2. \A u \in A, n \in 1..m : st[<<u, n>>] = turn(u, n)
  <2> HIDE DEF turn
  <2>. QED OBVIOUS
<1>3. \A f : Ran(f) <=> f = [n \in 0..m |-> IF n = 0 THEN <<>> ELSE turn(f[n - 1], n)]
      BY Zenon
<1> HIDE DEF st, m, A, turn
<1>4. PICK f : Loop(f, A, <<>>, m, st)
  <2>1. Within(A, m, st)
        BY <1>1, <1>2 DEF Within
  <2>. QED BY <1>1, <2>1, LoopExists
<1>5. \A n \in 0..m : f[n] = IF n = 0 THEN <<>> ELSE turn(f[n - 1], n)
  <2> TAKE n \in 0..m
  <2>1. n # 0 => n \in 1..m /\ f[n - 1] \in A
        BY <1>1, <1>4 DEF Loop
  <2>. QED BY <1>2, <1>4, <2>1 DEF Loop
<1>6. f = [n \in 0..m |-> IF n = 0 THEN <<>> ELSE turn(f[n - 1], n)]
  <2>1. f = [n \in 0..m |-> f[n]]
        BY <1>4 DEF Loop
  <2>. QED BY <1>5, <2>1
<1>7. PICK g : Ran(g) /\ Chosen(names, allowed) = g[m]
  <2>1. Ran(CHOOSE g : Ran(g))
    <3>1. Ran(f)
          BY <1>3, <1>6
    <3> HIDE DEF Ran
    <3>. QED BY <3>1
  <2>2. Chosen(names, allowed) = (CHOOSE g : Ran(g))[m]
        BY Zenon DEF Chosen, m
  <2> HIDE DEF Ran
  <2>. QED BY <2>1, <2>2
<1>8. g = [n \in 0..m |-> IF n = 0 THEN <<>> ELSE turn(g[n - 1], n)]
      BY <1>3, <1>7
<1> HIDE DEF Ran
<1>9. g[0] = <<>> /\ \A n \in 1..m : g[n] = turn(g[n - 1], n)
  <2> DEFINE e(n) == IF n = 0 THEN <<>> ELSE turn(g[n - 1], n)
  <2>1. g = [n \in 0..m |-> e(n)]
        BY <1>8
  <2> HIDE DEF e
  <2>2. \A n \in 0..m : g[n] = e(n)
        BY <2>1
  <2>. QED BY <1>1, <2>2 DEF e
<1> DEFINE S == {n \in 0..m : g[n] \in A}
<1>10. 0 \in S /\ \A n \in 1..m : n - 1 \in S => n \in S
      BY <1>1, <1>9
<1> HIDE DEF S
<1>11. m \in S
  <2>1. \A n \in 0..m : n \in S
        BY <1>1, <1>10, Upward
  <2>. QED BY <1>1, <2>1
<1>. QED BY <1>7, <1>11 DEF S, A

LEMMA NewIniType == NewIni \in Scripts
<1> DEFINE games == [i \in DOMAIN Catalog |-> Catalog[i].game]
           R == [game : STRING, base : STRING, force : BOOLEAN,
                 layers : [ToSet(Layers) -> Seq(Seq(Files))]]
<1>1. games \in Seq(STRING)
  <2>1. Catalog \in Seq(R)
        BY CatalogAssumption, Zenon
  <2>2. \A e \in R : e.game \in STRING
        OBVIOUS
  <2> HIDE DEF R
  <2>3. \A i \in 1..Len(Catalog) : Catalog[i].game \in STRING
        BY <2>1, <2>2
  <2>4. DOMAIN Catalog = 1..Len(Catalog) /\ Len(Catalog) \in Nat
        BY <2>1
  <2>. QED BY <2>3, <2>4
<1>2. SelectGames \in Seq(STRING)
  <2> DEFINE names == IF Wanted = <<"all">> THEN games ELSE Wanted
  <2>1. names \in Seq(STRING)
        BY <1>1, ConfigAssumption
  <2>2. SelectGames = Chosen(names, ToSet(games) \ {""})
        BY DEF SelectGames
  <2> HIDE DEF names, games
  <2>. QED BY <2>1, <2>2, ChosenType
<1>3. ASSUME NEW g \in STRING PROVE LaunchLine(g) \in Seq(Token)
  <2>0. \A a, b \in Text : <<a, b>> \in Token
        BY DEF Token
  <2>1. /\ Word("nqserver") \in Token /\ <<"@", "def">> \in Token
        /\ GameKey \in Token /\ Word(g) \in Token
        BY <2>0 DEF Text, Word, GameKey
  <2>. QED BY <2>1 DEF LaunchLine
<1>4. [i \in DOMAIN SelectGames |-> LaunchLine(SelectGames[i])] \in Seq(Seq(Token))
  <2>1. DOMAIN SelectGames = 1..Len(SelectGames) /\ Len(SelectGames) \in Nat
        BY <1>2
  <2>2. \A i \in 1..Len(SelectGames) : SelectGames[i] \in STRING
        BY <1>2
  <2>3. \A i \in 1..Len(SelectGames) : LaunchLine(SelectGames[i]) \in Seq(Token)
        BY <1>3, <2>2
  <2>. QED BY <2>1, <2>3
<1>. QED BY <1>4, ConfigAssumption, FieldsAreTokens DEF NewIni, Scripts

\* servers.ini is a file of fields, whoever wrote it.
IniType == ini \in Scripts

LEMMA IniHolds == NexusSafety => []IniType
<1>1. NexusInit => IniType
      BY InisAssumption, FieldsAreTokens DEF NexusInit, IniType
<1>2. IniType /\ [NexusNext]_allVars => IniType'
  <2> SUFFICES ASSUME ini \in Scripts, [NexusNext]_allVars PROVE ini' \in Scripts
      BY DEF IniType
  <2>1. CASE UNCHANGED allVars
        BY <2>1 DEF allVars, runVars, qvars, gameDir
  <2>2. CASE MainStep
        BY <2>2 DEF MainStep, Quit, qvars, gameDir
  <2>3. CASE InstallStep
    <3>1. <<>> \in Scripts
          BY DEF Scripts
    <3>. QED BY <2>3, <3>1, NewIniType
             DEF InstallStep, QuickstartStep, Stat, CreateIni, WriteIni, List, InstallLayer,
                 InstallFromSource, LayerDone, MkdirAll, CreateFile, CopyFile, SourceDone, Finish, gameDir
  <2>4. CASE Restart
        BY <2>4 DEF Restart, gameDir
  <2>5. CASE EditIni
        BY <2>5, InisAssumption, FieldsAreTokens DEF EditIni
  <2>6. CASE \E s \in Slots : EditLayer(s)
        BY <2>6 DEF EditLayer
  <2>. QED BY <2>1, <2>2, <2>3, <2>4, <2>5, <2>6 DEF NexusNext
<1>. QED BY <1>1, <1>2, PTL DEF NexusSafety

\* Whatever servers.ini holds, mergeLaunchGroups makes of each launch line exactly
\* its own fields and, in place of each reference, the fields of the group whose
\* key neither the line nor an earlier turn of a group has provided: the single
\* pass with its skipping of words computes what is documented.
THEOREM MergesAreRight == NexusSafety => []MergeIsRight
<1>1. IniType => MergeIsRight
  <2> SUFFICES ASSUME ini \in Scripts, NEW i \in DOMAIN ini
               PROVE  LET line   == ini[i]
                          groups == Load(ini)[i - 1].groups
                          merged == MergeLaunchGroups(line, groups)
                          kept   == Kept(line, groups)
                      IN /\ Len(merged) = Cardinality(kept)
                         /\ \A x \in kept :
                              merged[Cardinality({y \in kept : NotAfter(y, x)})]
                                = FieldAt(line, groups, x)
      BY DEF IniType, MergeIsRight
  <2>1. i - 1 \in 0..Len(ini) /\ ini[i] \in Seq(Token)
        BY DEF Scripts
  <2>2. Shape(ini[i], Load(ini)[i - 1].groups)
        BY <2>1, GroupsRead DEF Shape
  <2>. QED BY <2>2, MergeFacts DEF Filled
<1>. QED BY <1>1, IniHolds, PTL

-----------------------------------------------------------------------------
(* What the startup monitor hears *)

Lines == {"banner", "echo", "head", "dir", "port", "online"} \X Nat

\* The callbacks a monitor may make.
Calls == ({"port"} \X (Nat \ {0})) \cup ({"path"} \X Seq(Nat))

IsMon(m) ==
  /\ m = [pc |-> m.pc, path |-> m.path, port |-> m.port, gotPath |-> m.gotPath,
          gotPort |-> m.gotPort, collecting |-> m.collecting, entries |-> m.entries,
          calls |-> m.calls]
  /\ m.entries \in Seq(Nat) /\ m.calls \in Seq(Calls)
  /\ m.path \in BOOLEAN /\ m.gotPath \in BOOLEAN /\ m.collecting \in BOOLEAN

StartType ==
  /\ load \in Loads /\ gen \in Nat /\ port \in Nat /\ (alive => port # 0)
  /\ op = "spawn" => gen < Len(load.ports)
  /\ rec = [running |-> rec.running, port |-> rec.port, path |-> rec.path,
            awaiting |-> rec.awaiting, ready |-> rec.ready, timedOut |-> rec.timedOut]
  /\ says \in Seq(Lines) /\ chan \in Seq(Lines)
  /\ alive \in BOOLEAN /\ lost \in BOOLEAN /\ stale \in BOOLEAN
  /\ IsMon(mon) /\ late \in [Runs -> Seq(Calls)]

\* Every line about the port or a directory is right by itself.
Truthful(l) == (l[1] = "port" => l[2] = port /\ port # 0) /\ (l[1] = "dir" => l[2] \in 1..load.dirs)

LinesInv ==
  /\ \A l \in ToSet(says) \cup ToSet(chan) : Truthful(l)
  /\ \A c \in ToSet(mon.calls) : c[1] = "port" => c[2] = port
  /\ alive /\ "mon" \notin subs => chan = <<>> /\ ~mon.collecting
  /\ mon.collecting => mon.path
  /\ ~mon.gotPath /\ ~mon.collecting => mon.entries = <<>>
  /\ mon.pc = "call" => mon.calls # <<>>

\* May the line b follow a?  A directory follows the one before it or the head
\* of the list, or else a line at which the monitor gives the list up.
Follows(a, b) ==
  b[1] = "dir" => /\ a[1] = "dir" => b[2] = a[2] + 1
                  /\ a[1] = "head" => b[2] = 1
                  /\ a[1] # "banner"

Chained(a, s) == \A i \in DOMAIN s : Follows(IF i = 1 THEN a ELSE s[i - 1], s[i])
End(a, s) == IF s = <<>> THEN a ELSE s[Len(s)]

\* The last line of the list the monitor has, if it is at one.
Before(m) ==
  IF ~m.collecting \/ m.gotPath THEN <<"echo", 0>>
  ELSE IF m.entries = <<>> THEN <<"head", 0>>
  ELSE <<"dir", Len(m.entries)>>

\* So far it has the list from the start, and what comes continues it.
Counts(e) == Len(e) <= load.dirs /\ \A i \in DOMAIN e : e[i] = i

StreamInv ==
  ~lost => /\ Chained(Before(mon), chan) /\ Chained(End(Before(mon), chan), says)
           /\ ~mon.gotPath => Counts(mon.entries)
           /\ \A c \in ToSet(mon.calls) : c[1] = "path" => Counts(c[2])

\* What the record has: nothing while it is cleared, then what its process said.
RecordInv ==
  /\ indexed = {rec.port} \ {None}
  /\ ~stale /\ op = "spawn" => rec.port = None /\ rec.path = <<>>
  /\ ~stale /\ op # "spawn" => /\ rec.port \in {None, port}
                               /\ ~lost => rec.path \in Seq(Nat) /\ Counts(rec.path)

StartInv == StartType /\ LinesInv /\ StreamInv /\ RecordInv

LEMMA AppendElements ==
  ASSUME NEW R, NEW s \in Seq(R), NEW x \in R
  PROVE  Append(s, x) \in Seq(R) /\ ToSet(Append(s, x)) = ToSet(s) \cup {x}
<1>1. /\ Append(s, x) \in Seq(R) /\ Len(s) \in Nat /\ DOMAIN s = 1..Len(s)
      /\ DOMAIN Append(s, x) = 1..(Len(s) + 1)
      /\ \A i \in 1..Len(s) : Append(s, x)[i] = s[i]
      /\ Append(s, x)[Len(s) + 1] = x
      OBVIOUS
<1>2. \A i \in DOMAIN Append(s, x) : i = Len(s) + 1 \/ i \in DOMAIN s
      BY <1>1
<1>3. Len(s) + 1 \in DOMAIN Append(s, x) /\ \A i \in DOMAIN s : i \in DOMAIN Append(s, x)
      BY <1>1
<1>4. \A y \in ToSet(Append(s, x)) : y = x \/ y \in ToSet(s)
  <2>1. \A i \in DOMAIN Append(s, x) : Append(s, x)[i] = x \/ \E j \in DOMAIN s : Append(s, x)[i] = s[j]
        BY <1>1, <1>2
  <2>. QED BY <2>1, Zenon DEF ToSet
<1>5. x \in ToSet(Append(s, x)) /\ \A y \in ToSet(s) : y \in ToSet(Append(s, x))
  <2>1. \A i \in DOMAIN s : \E j \in DOMAIN Append(s, x) : s[i] = Append(s, x)[j]
        BY <1>1, <1>3
  <2>2. \E j \in DOMAIN Append(s, x) : x = Append(s, x)[j]
        BY <1>1, <1>3
  <2>3. x \in ToSet(Append(s, x))
        BY <2>2, Zenon DEF ToSet
  <2>4. ASSUME NEW y \in ToSet(s) PROVE y \in ToSet(Append(s, x))
        BY <2>1, <2>4, Zenon DEF ToSet
  <2>. QED BY <2>3, <2>4, Zenon
<1>. QED BY <1>1, <1>4, <1>5

LEMMA EmptyElements == ToSet(<<>>) = {}
BY DEF ToSet

-----------------------------------------------------------------------------
(* Lines that follow one another *)

LEMMA ChainedEmpty ==
  ASSUME NEW a
  PROVE  Chained(a, <<>>) /\ End(a, <<>>) = a
BY DEF Chained, End

LEMMA ChainedAppend ==
  ASSUME NEW a, NEW s \in Seq(Lines), NEW x \in Lines, Chained(a, s), Follows(End(a, s), x)
  PROVE  Chained(a, Append(s, x)) /\ End(a, Append(s, x)) = x
<1> DEFINE u == Append(s, x)
           n == Len(s)
<1>1. /\ n \in Nat /\ DOMAIN s = 1..n /\ DOMAIN u = 1..(n + 1) /\ Len(u) = n + 1
      /\ \A i \in 1..n : u[i] = s[i]
      /\ u[n + 1] = x /\ u # <<>>
      OBVIOUS
<1>2. (s = <<>> <=> n = 0)
      OBVIOUS
<1> HIDE DEF u, n
<1>3. ASSUME NEW i \in DOMAIN u PROVE Follows(IF i = 1 THEN a ELSE u[i - 1], u[i])
  <2>1. CASE i \in 1..n
    <3>1. i # 1 => i - 1 \in 1..n
          BY <2>1, <1>1
    <3>2. Follows(IF i = 1 THEN a ELSE s[i - 1], s[i])
          BY <1>1, <2>1 DEF Chained
    <3>. QED BY <1>1, <2>1, <3>1, <3>2
  <2>2. CASE i = n + 1 /\ n = 0
    <3>1. End(a, s) = a
          BY <1>2, <2>2 DEF End
    <3>. QED BY <1>1, <2>2, <3>1
  <2>3. CASE i = n + 1 /\ n # 0
    <3>1. End(a, s) = s[n]
          BY <1>2, <2>3 DEF End, n
    <3>2. n \in 1..n /\ i - 1 = n /\ i # 1
          BY <1>1, <2>3
    <3>. QED BY <1>1, <2>3, <3>1, <3>2
  <2>. QED BY <1>1, <2>1, <2>2, <2>3
<1>4. Chained(a, u)
      BY <1>3 DEF Chained
<1>5. End(a, u) = x
      BY <1>1 DEF End
<1>. QED BY <1>4, <1>5 DEF u

LEMMA ChainedTail ==
  ASSUME NEW a, NEW s \in Seq(Lines), s # <<>>, Chained(a, s)
  PROVE  /\ Follows(a, Head(s)) /\ Chained(Head(s), Tail(s))
         /\ End(a, s) = End(Head(s), Tail(s)) /\ Tail(s) \in Seq(Lines) /\ Head(s) \in Lines
<1> DEFINE t == Tail(s)
           n == Len(s)
<1>1. /\ n \in Nat \ {0} /\ DOMAIN s = 1..n /\ DOMAIN t = 1..(n - 1) /\ Len(t) = n - 1
      /\ \A i \in 1..(n - 1) : t[i] = s[i + 1]
      /\ Head(s) = s[1] /\ t \in Seq(Lines) /\ Head(s) \in Lines
      OBVIOUS
<1> HIDE DEF t
<1>2. t = <<>> <=> n = 1
  <2>1. t = <<>> <=> Len(t) = 0
        BY <1>1
  <2>. QED BY <1>1, <2>1
<1>3. Follows(a, Head(s))
  <2>1. 1 \in DOMAIN s
        BY <1>1
  <2>. QED BY <1>1, <2>1 DEF Chained
<1>4. Chained(Head(s), t)
  <2> SUFFICES ASSUME NEW i \in DOMAIN t PROVE Follows(IF i = 1 THEN Head(s) ELSE t[i - 1], t[i])
      BY DEF Chained
  <2>1. i + 1 \in DOMAIN s /\ i + 1 # 1 /\ (i + 1) - 1 = i /\ (i # 1 => i - 1 \in 1..(n - 1) /\ (i - 1) + 1 = i)
        BY <1>1
  <2>2. Follows(s[i], s[i + 1])
        BY <2>1 DEF Chained
  <2>3. s[i] = IF i = 1 THEN Head(s) ELSE t[i - 1]
        BY <1>1, <2>1
  <2>. QED BY <1>1, <2>2, <2>3
<1>5. End(a, s) = End(Head(s), t)
      BY <1>1, <1>2 DEF End
<1>. QED BY <1>1, <1>3, <1>4, <1>5 DEF t

\* Nothing is lost by a line that rules out less.
LEMMA ChainedLooser ==
  ASSUME NEW a, NEW c, NEW s \in Seq(Lines), Chained(a, s),
         \A b \in Lines : Follows(a, b) => Follows(c, b)
  PROVE  Chained(c, s)
<1>1. \A i \in DOMAIN s : s[i] \in Lines
      OBVIOUS
<1>. QED BY <1>1 DEF Chained

\* The monitor takes a line and is left with c.
LEMMA ChainedStep ==
  ASSUME NEW a, NEW c, NEW s \in Seq(Lines), NEW u \in Seq(Lines), s # <<>>,
         Chained(a, s), Chained(End(a, s), u),
         \A b \in Lines : Follows(Head(s), b) => Follows(c, b)
  PROVE  Chained(c, Tail(s)) /\ Chained(End(c, Tail(s)), u)
<1>1. /\ Chained(Head(s), Tail(s)) /\ End(a, s) = End(Head(s), Tail(s)) /\ Tail(s) \in Seq(Lines)
      BY ChainedTail
<1> DEFINE t == Tail(s)
<1> HIDE DEF t
<1>2. Chained(c, t)
      BY <1>1, ChainedLooser DEF t
<1>3. CASE t = <<>>
  <2>1. End(Head(s), t) = Head(s) /\ End(c, t) = c
        BY <1>3 DEF End
  <2>. QED BY <1>1, <1>2, <2>1, ChainedLooser DEF t
<1>4. CASE t # <<>>
  <2>1. End(Head(s), t) = End(c, t)
        BY <1>4 DEF End
  <2>. QED BY <1>1, <1>2, <2>1 DEF t
<1>. QED BY <1>3, <1>4

\* After an echo anything may come.
LEMMA EchoIsFree ==
  /\ \A a, b : b[1] # "dir" => Follows(a, b)
  /\ \A b : Follows(<<"echo", 0>>, b)
BY DEF Follows

LEMMA OutputFacts ==
  ASSUME NEW cmd, load.dirs \in Nat, port \in Nat \ {0}
  PROVE  /\ Output(cmd) \in Seq(Lines) /\ \A l \in ToSet(Output(cmd)) : Truthful(l)
         /\ \A a : Chained(a, Output(cmd))
<1>1. CASE cmd = "path"
  <2> DEFINE n == load.dirs
             h == <<<<"head", 0>>>>
             d == [i \in 1..n |-> <<"dir", i>>]
             u == h \o d
  <2>1. h \in Seq(Lines) /\ d \in Seq(Lines) /\ Len(h) = 1 /\ Len(d) = n
        BY DEF Lines
  <2>2. /\ u \in Seq(Lines) /\ DOMAIN u = 1..(n + 1) /\ u[1] = <<"head", 0>>
        /\ \A i \in 2..(n + 1) : u[i] = <<"dir", i - 1>>
        BY <2>1
  <2> HIDE DEF u, n
  <2>3. \A i \in DOMAIN u : i = 1 \/ i \in 2..(n + 1)
        BY <2>2 DEF n
  <2>4. \A l \in ToSet(u) : Truthful(l)
    <3>1. ASSUME NEW i \in DOMAIN u PROVE Truthful(u[i])
      <4>1. CASE i = 1
            BY <2>2, <4>1 DEF Truthful
      <4>2. CASE i \in 2..(n + 1)
        <5>1. u[i] = <<"dir", i - 1>> /\ i - 1 \in 1..n
              BY <2>2, <4>2 DEF n
        <5>. QED BY <5>1 DEF Truthful, n
      <4>. QED BY <2>3, <4>1, <4>2
    <3>. QED BY <3>1 DEF ToSet
  <2>5. ASSUME NEW a PROVE Chained(a, u)
    <3> SUFFICES ASSUME NEW i \in DOMAIN u PROVE Follows(IF i = 1 THEN a ELSE u[i - 1], u[i])
        BY DEF Chained
    <3>1. CASE i = 1
          BY <2>2, <3>1, EchoIsFree
    <3>2. CASE i = 2
          BY <2>2, <2>3, <3>2 DEF Follows
    <3>3. CASE i \notin {1, 2}
      <4>1. i \in 2..(n + 1) /\ i - 1 \in 2..(n + 1)
            BY <2>3, <3>3 DEF n
      <4>2. u[i - 1] = <<"dir", (i - 1) - 1>> /\ u[i] = <<"dir", i - 1>> /\ i - 1 = ((i - 1) - 1) + 1
            BY <2>2, <4>1 DEF n
      <4>. QED BY <3>3, <4>2 DEF Follows
    <3>. QED BY <3>1, <3>2, <3>3
  <2>6. Output(cmd) = u
        BY <1>1 DEF Output, u, n
  <2>. QED BY <2>2, <2>4, <2>5, <2>6
<1>2. ASSUME NEW l \in Lines, l[1] # "dir", Truthful(l), Output(cmd) = <<l>>
      PROVE  /\ Output(cmd) \in Seq(Lines) /\ \A x \in ToSet(Output(cmd)) : Truthful(x)
             /\ \A a : Chained(a, Output(cmd))
  <2>1. <<l>> \in Seq(Lines) /\ DOMAIN <<l>> = {1} /\ <<l>>[1] = l
        OBVIOUS
  <2>2. ToSet(<<l>>) = {l}
        BY <2>1 DEF ToSet
  <2>3. \A a : Chained(a, <<l>>)
        BY <1>2, <2>1, EchoIsFree DEF Chained
  <2>. QED BY <1>2, <2>1, <2>2, <2>3
<1>3. CASE cmd = "port"
  <2>1. Output(cmd) = <<<<"port", port>>>>
        BY <1>3 DEF Output
  <2>2. <<"port", port>> \in Lines /\ Truthful(<<"port", port>>) /\ <<"port", port>>[1] # "dir"
        BY DEF Lines, Truthful
  <2>. QED BY <1>2, <2>1, <2>2
<1>4. CASE cmd # "path" /\ cmd # "port"
  <2>1. Output(cmd) = <<<<"online", 0>>>>
        BY <1>4 DEF Output
  <2>2. <<"online", 0>> \in Lines /\ Truthful(<<"online", 0>>) /\ <<"online", 0>>[1] # "dir"
        BY DEF Lines, Truthful
  <2>. QED BY <1>2, <2>1, <2>2
<1>. QED BY <1>1, <1>3, <1>4

-----------------------------------------------------------------------------
(* The monitor, line by line *)

LEMMA AtFacts ==
  ASSUME NEW m, IsMon(m)
  PROVE  /\ IsMon(At(m)) /\ At(m).path = m.path /\ At(m).gotPath = m.gotPath
         /\ At(m).collecting = m.collecting /\ At(m).entries = m.entries /\ At(m).calls = m.calls
         /\ At(m).pc = "call" => m.calls # <<>>
<1> DEFINE p == IF m.calls # <<>> THEN "call" ELSE "recv"
<1>1. At(m) = [m EXCEPT !.pc = p]
      BY DEF At
<1> HIDE DEF p
<1>2. At(m) = [pc |-> p, path |-> m.path, port |-> m.port, gotPath |-> m.gotPath,
               gotPort |-> m.gotPort, collecting |-> m.collecting, entries |-> m.entries,
               calls |-> m.calls]
      BY <1>1 DEF IsMon
<1>3. At(m).pc = p
      BY <1>2
<1>4. p = "call" => m.calls # <<>>
      BY DEF p
<1>. QED BY <1>2, <1>3, <1>4 DEF IsMon

LEMMA ParsedFacts ==
  ASSUME NEW m, IsMon(m), NEW l \in Lines, l[1] = "port" => l[2] # 0
  PROVE  LET port1 == m.port /\ ~m.gotPort /\ l[1] = "port"
             path1 == m.path /\ ~m.gotPath
             ends  == path1 /\ m.collecting /\ l[1] # "dir" /\ m.entries # <<>>
             p == Parsed(m, l)
         IN /\ IsMon(p) /\ p.path = m.path
            /\ p.gotPath = (m.gotPath \/ ends)
            /\ p.collecting = IF ~path1 THEN m.collecting
                              ELSE IF m.collecting THEN l[1] = "dir" ELSE l[1] = "head"
            /\ p.entries = IF ends \/ ~path1 THEN <<>>
                           ELSE IF m.collecting /\ l[1] = "dir" THEN Append(m.entries, l[2]) ELSE m.entries
            /\ \A c \in ToSet(p.calls) : \/ c \in ToSet(m.calls)
                                         \/ c = <<"port", l[2]>> /\ l[1] = "port"
                                         \/ c = <<"path", m.entries>> /\ ends
<1> DEFINE port1 == m.port /\ ~m.gotPort /\ l[1] = "port"
           path1 == m.path /\ ~m.gotPath
           ends  == path1 /\ m.collecting /\ l[1] # "dir" /\ m.entries # <<>>
           p == Parsed(m, l)
           A == IF port1 THEN <<<<"port", l[2]>>>> ELSE <<>>
           B == IF ends THEN <<<<"path", m.entries>>>> ELSE <<>>
           g == m.gotPort \/ port1
           h == m.gotPath \/ ends
           c == IF ~path1 THEN m.collecting ELSE IF m.collecting THEN l[1] = "dir" ELSE l[1] = "head"
           e == IF ends \/ ~path1 THEN <<>>
                ELSE IF m.collecting /\ l[1] = "dir" THEN Append(m.entries, l[2]) ELSE m.entries
<1>1. p = [m EXCEPT !.calls = m.calls \o A \o B, !.gotPort = g, !.gotPath = h, !.collecting = c,
                    !.entries = e]
      BY DEF Parsed
<1>2. A \in Seq(Calls) /\ \A x \in ToSet(A) : x = <<"port", l[2]>> /\ l[1] = "port"
  <2>1. CASE port1
    <3>1. <<"port", l[2]>> \in Calls
          BY <2>1 DEF Calls, Lines
    <3>2. A = <<<<"port", l[2]>>>>
          BY <2>1
    <3> HIDE DEF A
    <3>. QED BY <2>1, <3>1, <3>2 DEF ToSet
  <2>2. CASE ~port1
    <3>1. A = <<>>
          BY <2>2
    <3> HIDE DEF A
    <3>. QED BY <3>1, EmptyElements
  <2>. QED BY <2>1, <2>2
<1>3. B \in Seq(Calls) /\ \A x \in ToSet(B) : x = <<"path", m.entries>> /\ ends
  <2>1. CASE ends
    <3>1. <<"path", m.entries>> \in Calls
          BY DEF Calls, IsMon
    <3>2. B = <<<<"path", m.entries>>>>
          BY <2>1
    <3> HIDE DEF B
    <3>. QED BY <2>1, <3>1, <3>2 DEF ToSet
  <2>2. CASE ~ends
    <3>1. B = <<>>
          BY <2>2
    <3> HIDE DEF B
    <3>. QED BY <3>1, EmptyElements
  <2>. QED BY <2>1, <2>2
<1>4. h \in BOOLEAN /\ c \in BOOLEAN /\ e \in Seq(Nat)
  <2>1. m.entries \in Seq(Nat) /\ l[2] \in Nat /\ m.collecting \in BOOLEAN
        BY DEF IsMon, Lines
  <2>2. Append(m.entries, l[2]) \in Seq(Nat) /\ <<>> \in Seq(Nat)
        BY <2>1
  <2>. QED BY <2>1, <2>2
<1> HIDE DEF A, B, g, h, c, e
<1>5. m.calls \o A \o B \in Seq(Calls) /\ ToSet(m.calls \o A \o B) = ToSet(m.calls) \cup ToSet(A) \cup ToSet(B)
  <2>1. m.calls \in Seq(Calls)
        BY DEF IsMon
  <2>2. m.calls \o A \in Seq(Calls) /\ ToSet(m.calls \o A) = ToSet(m.calls) \cup ToSet(A)
        BY <1>2, <2>1, ConcatFacts
  <2> DEFINE D == m.calls \o A
  <2> HIDE DEF D
  <2>3. D \in Seq(Calls) /\ B \in Seq(Calls)
        BY <1>3, <2>2 DEF D
  <2>4. D \o B \in Seq(Calls) /\ ToSet(D \o B) = ToSet(D) \cup ToSet(B)
        BY <2>3, ConcatFacts
  <2>. QED BY <2>2, <2>4 DEF D
<1> DEFINE k == m.calls \o A \o B
<1> HIDE DEF k
<1>6. p = [pc |-> m.pc, path |-> m.path, port |-> m.port, gotPath |-> h, gotPort |-> g,
           collecting |-> c, entries |-> e, calls |-> k]
      BY <1>1 DEF IsMon, k
<1> HIDE DEF p
<1>7. IsMon(p) /\ p.path = m.path /\ p.gotPath = h /\ p.collecting = c /\ p.entries = e /\ p.calls = k
      BY <1>4, <1>5, <1>6 DEF IsMon, k
<1>8. \A x \in ToSet(p.calls) : x \in ToSet(m.calls) \/ x \in ToSet(A) \/ x \in ToSet(B)
      BY <1>5, <1>7 DEF k
<1>. QED BY <1>2, <1>3, <1>7, <1>8 DEF p, h, c, e

LEMMA ClosingFacts ==
  ASSUME NEW m, IsMon(m)
  PROVE  /\ IsMon(Closing(m)) /\ Closing(m).path = m.path /\ Closing(m).collecting = m.collecting
         /\ Closing(m).entries = m.entries /\ (m.gotPath => Closing(m).gotPath)
         /\ Closing(m) # m => Closing(m).gotPath
         /\ \A c \in ToSet(Closing(m).calls) : c \in ToSet(m.calls) \/ (~m.gotPath /\ c = <<"path", m.entries>>)
<1>1. CASE ~(m.collecting /\ ~m.gotPath /\ m.entries # <<>>)
  <2>1. Closing(m) = m
        BY <1>1 DEF Closing
  <2>. QED BY <2>1
<1>2. CASE m.collecting /\ ~m.gotPath /\ m.entries # <<>>
  <2> DEFINE k == Append(m.calls, <<"path", m.entries>>)
  <2>1. Closing(m) = [m EXCEPT !.gotPath = TRUE, !.calls = k]
        BY <1>2 DEF Closing
  <2>2. <<"path", m.entries>> \in Calls /\ m.calls \in Seq(Calls)
        BY DEF Calls, IsMon
  <2>3. k \in Seq(Calls) /\ ToSet(k) = ToSet(m.calls) \cup {<<"path", m.entries>>}
        BY <2>2, AppendElements
  <2> HIDE DEF k
  <2>4. Closing(m) = [pc |-> m.pc, path |-> m.path, port |-> m.port, gotPath |-> TRUE,
                      gotPort |-> m.gotPort, collecting |-> m.collecting, entries |-> m.entries,
                      calls |-> k]
        BY <2>1 DEF IsMon
  <2>. QED BY <1>2, <2>3, <2>4 DEF IsMon
<1>. QED BY <1>1, <1>2

\* What the monitor of a dead run reads to the end of its channel.
Reading(f, n) == f = [i \in 0..n |-> IF i = 0 THEN mon ELSE Parsed(f[i - 1], chan[i])]

LEMMA ReadingExists ==
  ASSUME NEW k \in Nat
  PROVE  \E f : Reading(f, k)
<1> DEFINE T == {m \in Nat : ~\E f : Reading(f, m)}
<1>1. SUFFICES ASSUME T # {} PROVE FALSE
      OBVIOUS
<1>2. PICK m \in T : \A y \in T : m <= y
      BY <1>1, Least
<1>3. m # 0
  <2>1. Reading([n \in 0..0 |-> mon], 0)
        BY DEF Reading
  <2>. QED BY <2>1
<1>4. m - 1 \in Nat /\ m - 1 \notin T
      BY <1>2, <1>3
<1>5. PICK g : Reading(g, m - 1)
      BY <1>4
<1> DEFINE turn(f, n) == Parsed(f[n - 1], chan[n])
           h == [n \in 0..m |-> IF n = m THEN turn(g, m) ELSE g[n]]
<1>6. ASSUME NEW n \in 0..m PROVE h[n] = IF n = 0 THEN mon ELSE turn(h, n)
  <2>1. CASE n = m
    <3>1. h[n] = turn(g, m) /\ h[n - 1] = g[m - 1]
          BY <1>3, <2>1
    <3>. QED BY <1>3, <2>1, <3>1
  <2>2. CASE n # m /\ n # 0
    <3>1. n \in 0..(m - 1) /\ n - 1 \in 0..m /\ n - 1 # m
          BY <2>2
    <3>2. h[n] = g[n] /\ h[n - 1] = g[n - 1]
          BY <2>2, <3>1
    <3>3. g[n] = turn(g, n)
          BY <1>5, <2>2, <3>1 DEF Reading
    <3>. QED BY <2>2, <3>2, <3>3
  <2>3. CASE n # m /\ n = 0
    <3>1. h[n] = g[n] /\ n \in 0..(m - 1)
          BY <2>3
    <3>. QED BY <1>5, <2>3, <3>1 DEF Reading
  <2>. QED BY <2>1, <2>2, <2>3
<1>7. Reading(h, m)
  <2>1. h = [n \in 0..m |-> h[n]]
        OBVIOUS
  <2> HIDE DEF h
  <2>. QED BY <1>6, <2>1 DEF Reading
<1>. QED BY <1>7

LEMMA RemainingFacts ==
  ASSUME IsMon(mon), chan \in Seq(Lines), \A l \in ToSet(chan) : Truthful(l)
  PROVE  Remaining \in Seq(Calls)
<1> DEFINE K == Len(chan)
<1>1. K \in Nat /\ DOMAIN chan = 1..K /\ \A i \in 1..K : chan[i] \in Lines
      OBVIOUS
<1>2. PICK f : Reading(f, K) /\ Remaining = Closing(f[K]).calls
  <2>1. \E f : Reading(f, K)
        BY <1>1, ReadingExists
  <2>2. Reading(CHOOSE f : Reading(f, K), K)
        BY <2>1
  <2>3. Remaining = Closing((CHOOSE f : Reading(f, K))[K]).calls
        BY Zenon DEF Remaining, Reading
  <2>. QED BY <2>2, <2>3
<1> HIDE DEF K
<1>3. f[0] = mon /\ \A i \in 1..K : f[i] = Parsed(f[i - 1], chan[i])
  <2> DEFINE e(i) == IF i = 0 THEN mon ELSE Parsed(f[i - 1], chan[i])
  <2>1. f = [i \in 0..K |-> e(i)]
        BY <1>2 DEF Reading
  <2> HIDE DEF e
  <2>2. \A i \in 0..K : f[i] = e(i)
        BY <2>1
  <2>. QED BY <1>1, <2>2 DEF e
<1> DEFINE A(i) == IsMon(f[i])
           T == {i \in 0..K : ~A(i)}
<1>4. T = {}
  <2>1. SUFFICES ASSUME T # {} PROVE FALSE
        OBVIOUS
  <2>2. PICK i \in T : \A y \in T : i <= y
    <3>1. T \subseteq Nat
          BY <1>1
    <3> HIDE DEF T
    <3>. QED BY <2>1, <3>1, Least
  <2>3. i # 0
        BY <1>3
  <2>4. i \in 1..K /\ i - 1 \in 0..K /\ A(i - 1)
    <3> HIDE DEF A
    <3>. QED BY <1>1, <2>2, <2>3
  <2>5. chan[i] \in Lines /\ Truthful(chan[i])
        BY <1>1, <2>4 DEF ToSet
  <2>6. IsMon(Parsed(f[i - 1], chan[i]))
        BY <2>4, <2>5, ParsedFacts DEF Truthful
  <2>. QED BY <1>3, <2>4, <2>6
<1>5. A(K)
  <2> HIDE DEF A
  <2>. QED BY <1>1, <1>4
<1>. QED BY <1>2, <1>5, ClosingFacts DEF IsMon

-----------------------------------------------------------------------------
(* Each step keeps the invariant *)

\* A step that changes neither what the monitor hears nor what it makes of it.
LEMMA QuietKeeps ==
  ASSUME StartInv, UNCHANGED <<load, gen, port, alive, says, chan, mon, late, lost, subs>>,
         stale' = stale, rec'.port = rec.port, rec'.path = rec.path, indexed' = indexed,
         rec' = [running |-> rec'.running, port |-> rec'.port, path |-> rec'.path,
                 awaiting |-> rec'.awaiting, ready |-> rec'.ready, timedOut |-> rec'.timedOut],
         op' # "spawn", op # "spawn"
  PROVE  StartInv'
<1>1. StartType'
      BY DEF StartInv, StartType
<1>2. LinesInv' /\ StreamInv'
      BY DEF StartInv, LinesInv, StreamInv, Truthful, Counts
<1>3. RecordInv'
      BY DEF StartInv, RecordInv, Counts
<1>. QED BY <1>1, <1>2, <1>3 DEF StartInv

\* The same, with op as it is.
LEMMA QuieterKeeps ==
  ASSUME StartInv, UNCHANGED <<load, gen, port, alive, says, chan, mon, late, lost, op>>,
         "mon" \in subs => "mon" \in subs',
         stale' = stale, rec'.port = rec.port, rec'.path = rec.path, indexed' = indexed,
         rec' = [running |-> rec'.running, port |-> rec'.port, path |-> rec'.path,
                 awaiting |-> rec'.awaiting, ready |-> rec'.ready, timedOut |-> rec'.timedOut]
  PROVE  StartInv'
<1>1. StartType'
      BY DEF StartInv, StartType
<1>2. LinesInv' /\ StreamInv'
      BY DEF StartInv, LinesInv, StreamInv, Truthful, Counts
<1>3. RecordInv'
      BY DEF StartInv, RecordInv, Counts
<1>. QED BY <1>1, <1>2, <1>3 DEF StartInv

\* A step of the console or the monitor leaves the record alone.
LEMMA HearingKeeps ==
  ASSUME StartInv, UNCHANGED <<load, record, port, late, stale>>, lost => lost', alive' => alive,
         alive' \in BOOLEAN, lost' \in BOOLEAN, says' \in Seq(Lines), chan' \in Seq(Lines), IsMon(mon'),
         LinesInv', StreamInv'
  PROVE  StartInv'
<1>1. StartType'
      BY DEF StartInv, StartType, record
<1>2. RecordInv'
      BY DEF StartInv, RecordInv, Counts, record
<1>. QED BY <1>1, <1>2 DEF StartInv

LEMMA Published ==
  ASSUME StartInv, NEW l \in Lines, Publish(l)
  PROVE  /\ (lost => lost') /\ lost' \in BOOLEAN
         /\ chan' = chan \/ (chan' = Append(chan, l) /\ "mon" \in subs)
         /\ ~lost' => ~lost /\ chan' = IF "mon" \in subs THEN Append(chan, l) ELSE chan
         /\ chan' \in Seq(Lines) /\ ToSet(chan') \subseteq ToSet(chan) \cup {l}
<1>1. PICK full \in SUBSET subs :
        /\ chan' = IF "mon" \in subs \ full THEN Append(chan, l) ELSE chan
        /\ lost' = (lost \/ full # {})
      BY DEF Publish
<1>2. chan \in Seq(Lines) /\ lost \in BOOLEAN
      BY DEF StartInv, StartType
<1>3. Append(chan, l) \in Seq(Lines) /\ ToSet(Append(chan, l)) = ToSet(chan) \cup {l}
      BY <1>2, AppendElements
<1>. QED BY <1>1, <1>2, <1>3

LEMMA EmitKeeps ==
  ASSUME StartInv, UNCHANGED load, Emit
  PROVE  StartInv'
<1> DEFINE l == Head(says)
           b == Before(mon)
<1>1. /\ alive /\ says # <<>> /\ says' = Tail(says) /\ Publish(l)
      /\ UNCHANGED <<load, record, alive, port, input, reader, subs, tasks, stale>>
      BY DEF Emit
<1>2. says \in Seq(Lines) /\ chan \in Seq(Lines) /\ IsMon(mon) /\ alive \in BOOLEAN
      BY DEF StartInv, StartType
<1>3. l \in Lines /\ Tail(says) \in Seq(Lines) /\ ToSet(says) = {l} \cup ToSet(Tail(says))
      BY <1>1, <1>2, TailFacts
<1>4. /\ (lost => lost') /\ lost' \in BOOLEAN
      /\ chan' = chan \/ (chan' = Append(chan, l) /\ "mon" \in subs)
      /\ ~lost' => ~lost /\ chan' = IF "mon" \in subs THEN Append(chan, l) ELSE chan
      /\ chan' \in Seq(Lines) /\ ToSet(chan') \subseteq ToSet(chan) \cup {l}
      BY <1>1, <1>3, Published
<1>5. mon' = mon /\ late' = late
      BY <1>1 DEF tasks
<1>6. LinesInv'
  <2>1. \A x \in ToSet(says') \cup ToSet(chan') : x \in ToSet(says) \cup ToSet(chan)
        BY <1>1, <1>3, <1>4
  <2>2. \A x : Truthful(x)' <=> Truthful(x)
        BY <1>1 DEF Truthful
  <2>. QED BY <1>1, <1>4, <1>5, <2>1, <2>2 DEF StartInv, LinesInv
<1>7. ASSUME ~lost' PROVE Chained(b, chan') /\ Chained(End(b, chan'), says')
  <2>1. Chained(b, chan) /\ Chained(End(b, chan), says)
        BY <1>4, <1>7 DEF StartInv, StreamInv
  <2>2. /\ Follows(End(b, chan), l) /\ Chained(l, Tail(says))
        BY <1>1, <1>2, <2>1, ChainedTail
  <2>3. CASE "mon" \in subs
    <3>1. chan' = Append(chan, l)
          BY <1>4, <1>7, <2>3
    <3>2. Chained(b, Append(chan, l)) /\ End(b, Append(chan, l)) = l
          BY <1>2, <1>3, <2>1, <2>2, ChainedAppend
    <3>. QED BY <1>1, <2>2, <3>1, <3>2
  <2>4. CASE "mon" \notin subs
    <3>1. chan' = chan /\ chan = <<>> /\ ~mon.collecting
          BY <1>1, <1>4, <1>7, <2>4 DEF StartInv, LinesInv
    <3>2. b = <<"echo", 0>> /\ End(b, chan) = b
          BY <3>1, ChainedEmpty DEF Before
    <3>3. Chained(b, Tail(says))
          BY <1>3, <2>2, <3>2, ChainedLooser, EchoIsFree
    <3>. QED BY <1>1, <2>1, <3>1, <3>2, <3>3
  <2>. QED BY <2>3, <2>4
<1>8. StreamInv'
      BY <1>1, <1>4, <1>5, <1>7 DEF StartInv, StreamInv, Counts
<1>9. /\ UNCHANGED <<load, record, port, late, stale>> /\ (lost => lost') /\ (alive' => alive)
      /\ alive' \in BOOLEAN /\ lost' \in BOOLEAN /\ says' \in Seq(Lines) /\ chan' \in Seq(Lines)
      /\ IsMon(mon')
  <2>1. UNCHANGED <<load, record, port, late, stale>> /\ (alive' => alive) /\ alive' \in BOOLEAN
        BY <1>1, <1>2, <1>5, Zenon
  <2>2. says' \in Seq(Lines) /\ chan' \in Seq(Lines) /\ IsMon(mon')
        BY <1>1, <1>2, <1>3, <1>4, <1>5, Zenon
  <2>. QED BY <1>4, <2>1, <2>2, Zenon
<1>. QED BY <1>6, <1>8, <1>9, HearingKeeps

LEMMA ExecuteKeeps ==
  ASSUME StartInv, UNCHANGED load, Execute
  PROVE  StartInv'
<1> DEFINE u == Output(Head(input))
<1>1. /\ alive /\ says = <<>> /\ says' = u
      /\ UNCHANGED <<load, record, alive, port, reader, subs, chan, mon, late, lost, stale>>
      BY DEF Execute, console, tasks, history
<1>2. load.dirs \in Nat /\ port \in Nat \ {0}
      BY <1>1, StartupAssumption DEF StartInv, StartType
<1>3. u \in Seq(Lines) /\ (\A l \in ToSet(u) : Truthful(l)) /\ \A a : Chained(a, u)
      BY <1>2, OutputFacts
<1> HIDE DEF u
<1>4. LinesInv'
  <2>1. \A x : Truthful(x)' <=> Truthful(x)
        BY <1>1 DEF Truthful
  <2>. QED BY <1>1, <1>3, <2>1 DEF StartInv, LinesInv
<1>5. StreamInv'
      BY <1>1, <1>3 DEF StartInv, StreamInv, Counts
<1>6. /\ UNCHANGED <<load, record, port, late, stale>> /\ (lost => lost') /\ (alive' => alive)
      /\ alive' \in BOOLEAN /\ lost' \in BOOLEAN /\ says' \in Seq(Lines) /\ chan' \in Seq(Lines)
      /\ IsMon(mon')
      BY <1>1, <1>3 DEF StartInv, StartType
<1>. QED BY <1>4, <1>5, <1>6, HearingKeeps

\* The process dies; its reader ends.
LEMMA EndsKeep ==
  ASSUME StartInv, UNCHANGED load, Die \/ ReaderEnds
  PROVE  StartInv'
<1>1. /\ UNCHANGED <<load, record, port, chan, mon, late, lost, stale>>
      /\ alive' = FALSE /\ says' \in {<<>>, says}
      BY DEF Die, ReaderEnds, console, tasks, history, process, StartInv, StartType
<1>2. LinesInv'
  <2>1. \A x : Truthful(x)' <=> Truthful(x)
        BY <1>1 DEF Truthful
  <2>2. ToSet(says') \subseteq ToSet(says)
        BY <1>1, EmptyElements
  <2>. QED BY <1>1, <2>1, <2>2 DEF StartInv, LinesInv
<1>3. StreamInv'
      BY <1>1, ChainedEmpty DEF StartInv, StreamInv, Counts
<1>4. /\ UNCHANGED <<load, record, port, late, stale>> /\ (lost => lost') /\ (alive' => alive)
      /\ alive' \in BOOLEAN /\ lost' \in BOOLEAN /\ says' \in Seq(Lines) /\ chan' \in Seq(Lines)
      /\ IsMon(mon')
  <2>1. <<>> \in Seq(Lines)
        OBVIOUS
  <2>. QED BY <1>1, <2>1 DEF StartInv, StartType
<1>. QED BY <1>2, <1>3, <1>4, HearingKeeps

\* What n has heard is what m has heard, whatever either waits for or has asked.
HeardSame(m, n) ==
  /\ n.gotPath = m.gotPath /\ n.collecting = m.collecting /\ n.entries = m.entries
  /\ n.calls = m.calls

\* A monitor of these fields, and the monitor at a point with the answers it has asked for.
MonOf(x, y, z, gp, gt, co, en, ca) ==
  [pc |-> x, path |-> y, port |-> z, gotPath |-> gp, gotPort |-> gt, collecting |-> co,
   entries |-> en, calls |-> ca]

Moved(m, x, y, z) ==
  MonOf(x, y, z, m.gotPath, m.gotPort, m.collecting, m.entries, m.calls)

LEMMA MonOfFields ==
  ASSUME NEW x, NEW y, NEW z, NEW gp, NEW gt, NEW co, NEW en, NEW ca, NEW n,
         n = MonOf(x, y, z, gp, gt, co, en, ca)
  PROVE  /\ n.pc = x /\ n.path = y /\ n.port = z /\ n.gotPath = gp /\ n.gotPort = gt
         /\ n.collecting = co /\ n.entries = en /\ n.calls = ca
BY DEF MonOf

LEMMA MovedFields ==
  ASSUME NEW m, NEW x, NEW y, NEW z
  PROVE  HeardSame(m, Moved(m, x, y, z)) /\ Moved(m, x, y, z).path = y
<1>1. /\ Moved(m, x, y, z).path = y /\ Moved(m, x, y, z).gotPath = m.gotPath
      /\ Moved(m, x, y, z).collecting = m.collecting /\ Moved(m, x, y, z).entries = m.entries
      /\ Moved(m, x, y, z).calls = m.calls
      BY MonOfFields DEF Moved
<1>. QED BY <1>1, Zenon DEF HeardSame

\* The monitor goes on to another point.
LEMMA MovesOn ==
  ASSUME NEW m, IsMon(m), NEW x, NEW y \in BOOLEAN, NEW z
  PROVE  IsMon(Moved(m, x, y, z))
<1>1. PICK n : n = MonOf(x, y, z, m.gotPath, m.gotPort, m.collecting, m.entries, m.calls)
      OBVIOUS
<1>2. /\ n.pc = x /\ n.path = y /\ n.port = z /\ n.gotPath = m.gotPath /\ n.gotPort = m.gotPort
      /\ n.collecting = m.collecting /\ n.entries = m.entries /\ n.calls = m.calls
      BY <1>1, MonOfFields
<1>3. n = MonOf(n.pc, n.path, n.port, n.gotPath, n.gotPort, n.collecting, n.entries, n.calls)
      BY <1>1, <1>2
<1>4. /\ n.entries \in Seq(Nat) /\ n.calls \in Seq(Calls)
      /\ n.path \in BOOLEAN /\ n.gotPath \in BOOLEAN /\ n.collecting \in BOOLEAN
  <2>1. /\ m.entries \in Seq(Nat) /\ m.calls \in Seq(Calls)
        /\ m.gotPath \in BOOLEAN /\ m.collecting \in BOOLEAN
        BY Zenon DEF IsMon
  <2>. QED BY <1>2, <2>1
<1>5. IsMon(n)
      BY <1>3, <1>4, Zenon DEF IsMon, MonOf
<1>. QED BY <1>1, <1>5 DEF Moved

LEMMA PointOnly ==
  ASSUME NEW m, IsMon(m), NEW x, NEW n, n = [m EXCEPT !.pc = x]
  PROVE  n = Moved(m, x, m.path, m.port) /\ m.path \in BOOLEAN
<1>1. n = [pc |-> x, path |-> m.path, port |-> m.port, gotPath |-> m.gotPath, gotPort |-> m.gotPort,
           collecting |-> m.collecting, entries |-> m.entries, calls |-> m.calls]
      BY DEF IsMon
<1>2. m.path \in BOOLEAN
      BY Zenon DEF IsMon
<1>. QED BY <1>1, <1>2, Zenon DEF Moved, MonOf

\* The monitor has asked for the path, or for the port.
LEMMA AsksPath ==
  ASSUME NEW m, IsMon(m), NEW x, NEW n, n = [m EXCEPT !.pc = x, !.path = TRUE]
  PROVE  n = Moved(m, x, TRUE, m.port) /\ m.path \in BOOLEAN
<1>1. n = [pc |-> x, path |-> TRUE, port |-> m.port, gotPath |-> m.gotPath, gotPort |-> m.gotPort,
           collecting |-> m.collecting, entries |-> m.entries, calls |-> m.calls]
      BY DEF IsMon
<1>2. m.path \in BOOLEAN
      BY Zenon DEF IsMon
<1>. QED BY <1>1, <1>2, Zenon DEF Moved, MonOf

LEMMA AsksPort ==
  ASSUME NEW m, IsMon(m), NEW x, NEW n, n = [m EXCEPT !.pc = x, !.port = TRUE]
  PROVE  n = Moved(m, x, m.path, TRUE) /\ m.path \in BOOLEAN
<1>1. n = [pc |-> x, path |-> m.path, port |-> TRUE, gotPath |-> m.gotPath, gotPort |-> m.gotPort,
           collecting |-> m.collecting, entries |-> m.entries, calls |-> m.calls]
      BY DEF IsMon
<1>2. m.path \in BOOLEAN
      BY Zenon DEF IsMon
<1>. QED BY <1>1, <1>2, Zenon DEF Moved, MonOf

LEMMA MonSubscribeKeeps ==
  ASSUME StartInv, UNCHANGED load, MonSubscribe
  PROVE  StartInv'
<1>1. /\ UNCHANGED <<load, record, port, alive, says, chan, late, lost, stale>>
      /\ mon' = [mon EXCEPT !.pc = "recv"] /\ "mon" \in subs'
      BY DEF MonSubscribe, process, history
<1>2. /\ IsMon(mon') /\ mon'.path = mon.path /\ mon'.gotPath = mon.gotPath
      /\ mon'.collecting = mon.collecting /\ mon'.entries = mon.entries /\ mon'.calls = mon.calls
  <2>1. IsMon(mon)
        BY DEF StartInv, StartType
  <2>2. mon' = Moved(mon, "recv", mon.path, mon.port) /\ mon.path \in BOOLEAN
        BY <1>1, <2>1, PointOnly
  <2>3. IsMon(mon') /\ HeardSame(mon, mon') /\ mon'.path = mon.path
        BY <2>1, <2>2, MovesOn, MovedFields
  <2>. QED BY <2>3 DEF HeardSame
<1>3. LinesInv'
  <2>1. \A x : Truthful(x)' <=> Truthful(x)
        BY <1>1 DEF Truthful
  <2>2. mon'.pc = "recv"
        BY <1>1 DEF StartInv, StartType, IsMon
  <2>. QED BY <1>1, <1>2, <2>1, <2>2 DEF StartInv, LinesInv
<1>4. StreamInv'
  <2>1. Before(mon') = Before(mon)
        BY <1>2 DEF Before
  <2>. QED BY <1>1, <1>2, <2>1 DEF StartInv, StreamInv, Counts
<1>5. /\ UNCHANGED <<load, record, port, late, stale>> /\ (lost => lost') /\ (alive' => alive)
      /\ alive' \in BOOLEAN /\ lost' \in BOOLEAN /\ says' \in Seq(Lines) /\ chan' \in Seq(Lines)
      BY <1>1 DEF StartInv, StartType
<1>. QED BY <1>2, <1>3, <1>4, <1>5, HearingKeeps

LEMMA MonWriteKeeps ==
  ASSUME StartInv, UNCHANGED load, MonWrite
  PROVE  StartInv'
<1> DEFINE l == <<"echo", 0>>
           b == Before(mon)
<1>1. UNCHANGED <<load, record, port, alive, says, subs, late, stale>>
      BY DEF MonWrite
<1>2. /\ IsMon(mon') /\ (mon.path => mon'.path) /\ mon'.gotPath = mon.gotPath
      /\ mon'.collecting = mon.collecting /\ mon'.entries = mon.entries /\ mon'.calls = mon.calls
  <2>1. PICK x : \/ mon' = [mon EXCEPT !.pc = x]
                 \/ mon' = [mon EXCEPT !.pc = x, !.path = TRUE]
                 \/ mon' = [mon EXCEPT !.pc = x, !.port = TRUE]
        BY Zenon DEF MonWrite
  <2>2. IsMon(mon)
        BY DEF StartInv, StartType
  <2>3. \E y, z : y \in BOOLEAN /\ (mon.path => y) /\ mon' = Moved(mon, x, y, z)
    <3>1. CASE mon' = [mon EXCEPT !.pc = x]
          BY <2>2, <3>1, PointOnly
    <3>2. CASE mon' = [mon EXCEPT !.pc = x, !.path = TRUE]
          BY <2>2, <3>2, AsksPath, Zenon
    <3>3. CASE mon' = [mon EXCEPT !.pc = x, !.port = TRUE]
          BY <2>2, <3>3, AsksPort, Zenon
    <3>. QED BY <2>1, <3>1, <3>2, <3>3, Zenon
  <2>4. PICK y, z : y \in BOOLEAN /\ (mon.path => y) /\ mon' = Moved(mon, x, y, z)
        BY <2>3, Zenon
  <2>5. IsMon(mon') /\ HeardSame(mon, mon') /\ mon'.path = y
        BY <2>2, <2>4, MovesOn, MovedFields
  <2>. QED BY <2>4, <2>5 DEF HeardSame
<1>3. /\ (lost => lost') /\ lost' \in BOOLEAN
      /\ ~lost' => ~lost /\ (chan' = chan \/ chan' = Append(chan, l))
      /\ chan' \in Seq(Lines) /\ ToSet(chan') \subseteq ToSet(chan) \cup {l}
      /\ chan' = chan \/ "mon" \in subs
  <2>1. CASE Publish(l)
    <3>1. l \in Lines
          BY DEF Lines
    <3>. QED BY <2>1, <3>1, Published
  <2>2. CASE UNCHANGED <<chan, lost>>
        BY <2>2 DEF StartInv, StartType
  <2>. QED BY <2>1, <2>2 DEF MonWrite
<1>4. LinesInv'
  <2>1. \A x : Truthful(x)' <=> Truthful(x)
        BY <1>1 DEF Truthful
  <2>2. Truthful(l)
        BY DEF Truthful
  <2>3. mon'.pc # "call"
        BY DEF MonWrite, StartInv, StartType, IsMon
  <2>. QED BY <1>1, <1>2, <1>3, <2>1, <2>2, <2>3 DEF StartInv, LinesInv
<1>5. ASSUME ~lost' PROVE Chained(b, chan') /\ Chained(End(b, chan'), says)
  <2>1. Chained(b, chan) /\ Chained(End(b, chan), says) /\ chan \in Seq(Lines) /\ says \in Seq(Lines)
        BY <1>3, <1>5 DEF StartInv, StreamInv, StartType
  <2>2. l \in Lines /\ Follows(End(b, chan), l)
        BY EchoIsFree DEF Lines
  <2>3. Chained(b, Append(chan, l)) /\ End(b, Append(chan, l)) = l
        BY <2>1, <2>2, ChainedAppend
  <2>4. Chained(l, says)
        BY <2>1, ChainedLooser, EchoIsFree
  <2>. QED BY <1>3, <1>5, <2>1, <2>3, <2>4
<1>6. StreamInv'
  <2>1. Before(mon') = b
        BY <1>2 DEF Before
  <2>. QED BY <1>1, <1>2, <1>3, <1>5, <2>1 DEF StartInv, StreamInv, Counts
<1>7. /\ UNCHANGED <<load, record, port, late, stale>> /\ (lost => lost') /\ (alive' => alive)
      /\ alive' \in BOOLEAN /\ lost' \in BOOLEAN /\ says' \in Seq(Lines) /\ chan' \in Seq(Lines)
      BY <1>1, <1>3 DEF StartInv, StartType
<1>. QED BY <1>2, <1>4, <1>6, <1>7, HearingKeeps

LEMMA MonReceiveKeeps ==
  ASSUME StartInv, UNCHANGED load, MonReceive
  PROVE  StartInv'
<1> DEFINE l == Head(chan)
           b == Before(mon)
           c == Before(mon')
<1>1. /\ chan # <<>> /\ chan' = Tail(chan)
      /\ mon' = IF l[1] = "banner" THEN [mon EXCEPT !.pc = "path"] ELSE At(Parsed(mon, l))
      /\ UNCHANGED <<load, record, port, alive, says, subs, late, lost, stale>>
      BY DEF MonReceive, process, history
<1>2. says \in Seq(Lines) /\ chan \in Seq(Lines) /\ IsMon(mon) /\ alive \in BOOLEAN /\ lost \in BOOLEAN
      BY DEF StartInv, StartType
<1>3. l \in Lines /\ Tail(chan) \in Seq(Lines) /\ ToSet(chan) = {l} \cup ToSet(Tail(chan))
      BY <1>1, <1>2, TailFacts
<1>4. Truthful(l)
      BY <1>3 DEF StartInv, LinesInv
<1> DEFINE path1 == mon.path /\ ~mon.gotPath
           ends  == path1 /\ mon.collecting /\ l[1] # "dir" /\ mon.entries # <<>>
           coll  == IF ~path1 THEN mon.collecting ELSE IF mon.collecting THEN l[1] = "dir" ELSE l[1] = "head"
           ent   == IF ends \/ ~path1 THEN <<>>
                    ELSE IF mon.collecting /\ l[1] = "dir" THEN Append(mon.entries, l[2]) ELSE mon.entries
<1>5. CASE l[1] = "banner"
  <2>1. /\ IsMon(mon') /\ mon'.path = mon.path /\ mon'.gotPath = mon.gotPath
        /\ mon'.collecting = mon.collecting /\ mon'.entries = mon.entries /\ mon'.calls = mon.calls
    <3>1. mon' = [mon EXCEPT !.pc = "path"]
          BY <1>1, <1>5
    <3>2. mon' = Moved(mon, "path", mon.path, mon.port) /\ mon.path \in BOOLEAN
          BY <1>2, <3>1, PointOnly
    <3>3. IsMon(mon') /\ HeardSame(mon, mon') /\ mon'.path = mon.path
          BY <1>2, <3>2, MovesOn, MovedFields
    <3>. QED BY <3>3 DEF HeardSame
  <2>2. LinesInv'
    <3>1. \A x : Truthful(x)' <=> Truthful(x)
          BY <1>1 DEF Truthful
    <3>2. chan = <<>> => chan' = <<>>
          BY <1>1
    <3>3. mon'.pc = "path"
          BY <1>1, <1>2, <1>5 DEF IsMon
    <3>. QED BY <1>1, <1>3, <2>1, <3>1, <3>2, <3>3 DEF StartInv, LinesInv
  <2>3. StreamInv'
    <3> SUFFICES ASSUME ~lost' PROVE StreamInv'
        BY DEF StreamInv
    <3>1. Chained(b, chan) /\ Chained(End(b, chan), says)
          BY <1>1 DEF StartInv, StreamInv
    <3>2. \A x \in Lines : Follows(l, x) => Follows(c, x)
          BY <1>5 DEF Follows
    <3>3. Chained(c, Tail(chan)) /\ Chained(End(c, Tail(chan)), says)
          BY <1>1, <1>2, <3>1, <3>2, ChainedStep
    <3>4. \A x : Counts(x)' <=> Counts(x)
          BY <1>1 DEF Counts
    <3>. QED BY <1>1, <2>1, <3>3, <3>4 DEF StartInv, StreamInv
  <2>4. /\ UNCHANGED <<load, record, port, late, stale>> /\ (lost => lost') /\ (alive' => alive)
        /\ alive' \in BOOLEAN /\ lost' \in BOOLEAN /\ says' \in Seq(Lines) /\ chan' \in Seq(Lines)
        BY <1>1, <1>2, <1>3
  <2>. QED BY <2>1, <2>2, <2>3, <2>4, HearingKeeps
<1>6. CASE l[1] # "banner"
  <2>1. /\ IsMon(mon') /\ mon'.path = mon.path /\ mon'.gotPath = (mon.gotPath \/ ends)
        /\ mon'.collecting = coll /\ mon'.entries = ent
        /\ \A k \in ToSet(mon'.calls) : \/ k \in ToSet(mon.calls)
                                        \/ k = <<"port", l[2]>> /\ l[1] = "port"
                                        \/ k = <<"path", mon.entries>> /\ ends
        /\ mon'.pc = "call" => mon'.calls # <<>>
    <3> DEFINE p == Parsed(mon, l)
    <3>1. l[1] = "port" => l[2] # 0
          BY <1>4 DEF Truthful
    <3>2. /\ IsMon(p) /\ p.path = mon.path /\ p.gotPath = (mon.gotPath \/ ends)
          /\ p.collecting = coll /\ p.entries = ent
          /\ \A k \in ToSet(p.calls) : \/ k \in ToSet(mon.calls)
                                       \/ k = <<"port", l[2]>> /\ l[1] = "port"
                                       \/ k = <<"path", mon.entries>> /\ ends
          BY <1>2, <1>3, <3>1, ParsedFacts
    <3> HIDE DEF p, coll, ent, ends
    <3>3. /\ IsMon(At(p)) /\ At(p).path = p.path /\ At(p).gotPath = p.gotPath
          /\ At(p).collecting = p.collecting /\ At(p).entries = p.entries /\ At(p).calls = p.calls
          /\ At(p).pc = "call" => p.calls # <<>>
          BY <3>2, AtFacts
    <3>4. mon' = At(p)
          BY <1>1, <1>6 DEF p
    <3>. QED BY <3>2, <3>3, <3>4
  <2>2. LinesInv'
    <3>1. \A x : Truthful(x)' <=> Truthful(x)
          BY <1>1 DEF Truthful
    <3>2. \A x \in ToSet(says') \cup ToSet(chan') : Truthful(x)'
          BY <1>1, <1>3, <3>1 DEF StartInv, LinesInv
    <3>3. \A k \in ToSet(mon'.calls) : k[1] = "port" => k[2] = port'
          BY <1>1, <1>4, <2>1 DEF StartInv, LinesInv, Truthful
    <3>4. alive' /\ "mon" \notin subs' => chan' = <<>> /\ ~mon'.collecting
          BY <1>1 DEF StartInv, LinesInv
    <3>5. mon'.collecting => mon'.path
      <4>. HIDE DEF ent
      <4>. QED BY <2>1 DEF StartInv, LinesInv
    <3>6. ~mon'.gotPath /\ ~mon'.collecting => mon'.entries = <<>>
          BY <2>1 DEF StartInv, LinesInv
    <3>. QED BY <2>1, <3>2, <3>3, <3>4, <3>5, <3>6 DEF LinesInv
  <2>3. ASSUME ~lost' PROVE StreamInv'
    <3>1. /\ Chained(b, chan) /\ Chained(End(b, chan), says)
          /\ ~mon.gotPath => Counts(mon.entries)
          /\ \A k \in ToSet(mon.calls) : k[1] = "path" => Counts(k[2])
          BY <1>1, <2>3 DEF StartInv, StreamInv
    <3>2. Follows(b, l)
          BY <1>1, <1>2, <3>1, ChainedTail
    <3>3. mon.entries \in Seq(Nat) /\ Len(mon.entries) \in Nat /\ (mon.entries = <<>> <=> Len(mon.entries) = 0)
          BY <1>2 DEF IsMon
    <3> DEFINE takes == path1 /\ mon.collecting /\ l[1] = "dir"
    <3>4. takes => /\ l[2] = Len(mon.entries) + 1 /\ l[2] \in 1..load.dirs
                   /\ ent = Append(mon.entries, l[2]) /\ ~(mon.gotPath \/ ends)
          BY <1>4, <3>2, <3>3 DEF Follows, Before, Truthful
    <3>5. Counts(<<>>)
      <4>1. load.dirs \in Nat /\ Len(<<>>) = 0 /\ DOMAIN <<>> = {}
            BY StartupAssumption DEF StartInv, StartType
      <4>. QED BY <4>1 DEF Counts
    <3>6. ~mon'.gotPath => Counts(mon'.entries)
      <4>1. CASE takes
        <5> DEFINE n == Len(mon.entries)
                   u == Append(mon.entries, n + 1)
        <5>1. Counts(mon.entries) /\ n + 1 \in 1..load.dirs /\ mon'.entries = u
              BY <2>1, <3>1, <3>4, <4>1
        <5>2. /\ Len(u) = n + 1 /\ DOMAIN u = 1..(n + 1) /\ u[n + 1] = n + 1
              /\ \A i \in 1..n : u[i] = mon.entries[i]
              /\ DOMAIN mon.entries = 1..n
              BY <3>3
        <5>3. load.dirs \in Nat
              BY StartupAssumption DEF StartInv, StartType
        <5> HIDE DEF u, n
        <5>4. \A i \in DOMAIN u : i \in 1..n \/ i = n + 1
              BY <3>3, <5>2 DEF n
        <5>5. \A i \in DOMAIN u : u[i] = i
              BY <5>1, <5>2, <5>4 DEF Counts
        <5>6. Len(u) <= load.dirs
              BY <3>3, <5>1, <5>2, <5>3 DEF n
        <5>. QED BY <5>1, <5>5, <5>6 DEF Counts
      <4>2. CASE ~takes
        <5>1. mon'.entries = <<>> \/ (mon'.entries = mon.entries /\ ~mon.gotPath)
              BY <2>1, <4>2
        <5>. QED BY <3>1, <3>5, <5>1
      <4>. QED BY <4>1, <4>2
    <3>7. \A k \in ToSet(mon'.calls) : k[1] = "path" => Counts(k[2])
          BY <2>1, <3>1
    <3>8. \A x \in Lines : Follows(l, x) => Follows(c, x)
      <4>1. CASE takes
        <5>1. mon'.entries = Append(mon.entries, l[2]) /\ ~mon'.gotPath /\ mon'.collecting
              BY <2>1, <3>4, <4>1
        <5>2. mon'.entries # <<>> /\ Len(mon'.entries) = l[2]
              BY <3>3, <3>4, <4>1, <5>1
        <5>3. c = <<"dir", l[2]>>
              BY <5>1, <5>2 DEF Before
        <5>. QED BY <4>1, <5>3 DEF Follows
      <4>2. CASE ~takes /\ (~mon'.collecting \/ mon'.gotPath)
        <5>1. c = <<"echo", 0>>
              BY <4>2 DEF Before
        <5>. QED BY <5>1, EchoIsFree
      <4>3. CASE ~takes /\ mon'.collecting /\ ~mon'.gotPath
        <5>1. path1
              BY <2>1, <4>3 DEF StartInv, LinesInv
        <5>2. ~mon.collecting /\ l[1] = "head"
              BY <2>1, <4>3, <5>1
        <5>3. mon.entries = <<>>
              BY <5>1, <5>2 DEF StartInv, LinesInv
        <5>4. mon'.entries = <<>>
              BY <2>1, <5>1, <5>2, <5>3
        <5>5. c = <<"head", 0>>
              BY <4>3, <5>4 DEF Before
        <5>. QED BY <5>2, <5>5 DEF Follows
      <4>. QED BY <4>1, <4>2, <4>3
    <3>9. Chained(c, Tail(chan)) /\ Chained(End(c, Tail(chan)), says)
          BY <1>1, <1>2, <3>1, <3>8, ChainedStep
    <3>10. \A x : Counts(x)' <=> Counts(x)
          BY <1>1 DEF Counts
    <3>. QED BY <1>1, <3>6, <3>7, <3>9, <3>10 DEF StreamInv
  <2>4. StreamInv'
        BY <2>3 DEF StreamInv
  <2>5. /\ UNCHANGED <<load, record, port, late, stale>> /\ (lost => lost') /\ (alive' => alive)
        /\ alive' \in BOOLEAN /\ lost' \in BOOLEAN /\ says' \in Seq(Lines) /\ chan' \in Seq(Lines)
        BY <1>1, <1>2, <1>3
  <2>. QED BY <2>1, <2>2, <2>4, <2>5, HearingKeeps
<1>. QED BY <1>5, <1>6

LEMMA CallbackFacts ==
  ASSUME StartInv, NEW c \in Calls, Callback(c)
  PROVE  /\ rec' = [running |-> rec'.running, port |-> rec'.port, path |-> rec'.path,
                    awaiting |-> rec'.awaiting, ready |-> rec'.ready, timedOut |-> rec'.timedOut]
         /\ indexed' = {rec'.port} \ {None}
         /\ rec'.port = rec.port \/ (c[1] = "port" /\ rec'.port = c[2])
         /\ rec'.path = rec.path \/ (c[1] = "path" /\ rec'.path = c[2] /\ c[2] \in Seq(Nat))
<1>1. /\ rec = [running |-> rec.running, port |-> rec.port, path |-> rec.path,
                awaiting |-> rec.awaiting, ready |-> rec.ready, timedOut |-> rec.timedOut]
      /\ indexed = {rec.port} \ {None}
      BY DEF StartInv, StartType, RecordInv
<1>2. CASE c[1] = "port" /\ rec.port = None
  <2>1. rec' = [rec EXCEPT !.port = c[2]] /\ indexed' = indexed \cup {c[2]} /\ c[2] # 0
        BY <1>2 DEF Callback, Calls
  <2>2. rec' = [running |-> rec.running, port |-> c[2], path |-> rec.path,
                awaiting |-> rec.awaiting, ready |-> rec.ready, timedOut |-> rec.timedOut]
        BY <1>1, <2>1
  <2>. QED BY <1>1, <1>2, <2>1, <2>2 DEF None
<1>3. CASE c[1] = "port" /\ rec.port # None
  <2>1. rec' = rec /\ indexed' = indexed
        BY <1>3 DEF Callback
  <2>. QED BY <1>1, <2>1
<1>4. CASE c[1] # "port"
  <2>1. rec' = [rec EXCEPT !.path = c[2]] /\ indexed' = indexed /\ c[1] = "path" /\ c[2] \in Seq(Nat)
        BY <1>4 DEF Callback, Calls
  <2>2. rec' = [running |-> rec.running, port |-> rec.port, path |-> c[2],
                awaiting |-> rec.awaiting, ready |-> rec.ready, timedOut |-> rec.timedOut]
        BY <1>1, <2>1
  <2>. QED BY <1>1, <2>1, <2>2
<1>. QED BY <1>2, <1>3, <1>4

LEMMA MonCallKeeps ==
  ASSUME StartInv, UNCHANGED load, MonCall
  PROVE  StartInv'
<1> DEFINE k == Head(mon.calls)
           m == [mon EXCEPT !.calls = Tail(mon.calls)]
<1>1. /\ mon.pc = "call" /\ Callback(k) /\ mon' = At(m)
      /\ stale' = (stale \/ (op = "spawn" /\ rec' # rec))
      /\ UNCHANGED <<load, op, gen, port, alive, says, chan, subs, late, lost>>
      BY DEF MonCall, process, console
<1>2. IsMon(mon) /\ mon.calls \in Seq(Calls) /\ mon.calls # <<>>
      BY <1>1 DEF StartInv, StartType, IsMon, LinesInv
<1>3. k \in Calls /\ Tail(mon.calls) \in Seq(Calls) /\ ToSet(mon.calls) = {k} \cup ToSet(Tail(mon.calls))
      BY <1>2, TailFacts
<1>4. /\ IsMon(mon') /\ mon'.path = mon.path /\ mon'.gotPath = mon.gotPath
      /\ mon'.collecting = mon.collecting /\ mon'.entries = mon.entries
      /\ mon'.calls = Tail(mon.calls) /\ (mon'.pc = "call" => mon'.calls # <<>>)
  <2> DEFINE q == Tail(mon.calls)
  <2>0. m = [mon EXCEPT !.calls = q]
        OBVIOUS
  <2> HIDE DEF q, m
  <2>1. m = [pc |-> mon.pc, path |-> mon.path, port |-> mon.port, gotPath |-> mon.gotPath,
             gotPort |-> mon.gotPort, collecting |-> mon.collecting, entries |-> mon.entries,
             calls |-> q]
        BY <1>2, <2>0 DEF IsMon
  <2>2. /\ IsMon(m) /\ m.path = mon.path /\ m.gotPath = mon.gotPath
        /\ m.collecting = mon.collecting /\ m.entries = mon.entries /\ m.calls = q
        BY <1>2, <1>3, <2>1 DEF IsMon, q
  <2>. QED BY <1>1, <2>2, AtFacts DEF q
<1>5. /\ rec' = [running |-> rec'.running, port |-> rec'.port, path |-> rec'.path,
                 awaiting |-> rec'.awaiting, ready |-> rec'.ready, timedOut |-> rec'.timedOut]
      /\ indexed' = {rec'.port} \ {None}
      /\ rec'.port = rec.port \/ (k[1] = "port" /\ rec'.port = k[2])
      /\ rec'.path = rec.path \/ (k[1] = "path" /\ rec'.path = k[2] /\ k[2] \in Seq(Nat))
      BY <1>1, <1>3, CallbackFacts
<1> HIDE DEF k, m
<1>6. StartType'
  <2>1. stale' \in BOOLEAN
        BY <1>1 DEF StartInv, StartType
  <2>. QED BY <1>1, <1>4, <1>5, <2>1 DEF StartInv, StartType
<1>7. LinesInv'
  <2>1. \A x : Truthful(x)' <=> Truthful(x)
        BY <1>1 DEF Truthful
  <2>. QED BY <1>1, <1>3, <1>4, <2>1 DEF StartInv, LinesInv
<1>8. \A x : Counts(x)' <=> Counts(x)
      BY <1>1 DEF Counts
<1>9. StreamInv'
  <2>1. Before(mon') = Before(mon)
        BY <1>4 DEF Before
  <2>. QED BY <1>1, <1>3, <1>4, <1>8, <2>1 DEF StartInv, StreamInv
<1>10. RecordInv'
  <2>1. ~stale' /\ op = "spawn" => ~stale /\ rec' = rec
        BY <1>1 DEF StartInv, StartType
  <2>2. ~stale' => ~stale
        BY <1>1 DEF StartInv, StartType
  <2>3. k[1] = "port" => k[2] = port
        BY <1>3 DEF StartInv, LinesInv
  <2>4. ~lost /\ k[1] = "path" => Counts(k[2])
        BY <1>3 DEF StartInv, StreamInv
  <2>5. ~stale /\ op # "spawn" => /\ rec.port \in {None, port}
                                  /\ ~lost => rec.path \in Seq(Nat) /\ Counts(rec.path)
        BY DEF StartInv, RecordInv
  <2>6. ~stale' /\ op # "spawn" => /\ rec'.port \in {None, port}
                                   /\ ~lost => rec'.path \in Seq(Nat) /\ Counts(rec'.path)
        BY <1>5, <2>2, <2>3, <2>4, <2>5
  <2>7. ~stale' /\ op = "spawn" => rec'.port = None /\ rec'.path = <<>>
        BY <2>1 DEF StartInv, RecordInv
  <2>. QED BY <1>1, <1>5, <1>8, <2>6, <2>7 DEF RecordInv, None
<1>. QED BY <1>6, <1>7, <1>9, <1>10 DEF StartInv

LEMMA LateCallKeeps ==
  ASSUME StartInv, UNCHANGED load, NEW r \in Runs, LateCall(r)
  PROVE  StartInv'
<1> DEFINE k == Head(late[r])
<1>1. /\ late[r] # <<>> /\ Callback(k) /\ late' = [late EXCEPT ![r] = Tail(late[r])]
      /\ stale' = (stale \/ rec' # rec)
      /\ UNCHANGED <<load, op, gen, port, alive, says, chan, subs, mon, lost>>
      BY DEF LateCall, process, console
<1>2. late \in [Runs -> Seq(Calls)] /\ late[r] \in Seq(Calls)
      BY DEF StartInv, StartType
<1>3. k \in Calls /\ Tail(late[r]) \in Seq(Calls)
      BY <1>1, <1>2
<1>4. /\ rec' = [running |-> rec'.running, port |-> rec'.port, path |-> rec'.path,
                 awaiting |-> rec'.awaiting, ready |-> rec'.ready, timedOut |-> rec'.timedOut]
      /\ indexed' = {rec'.port} \ {None}
      BY <1>1, <1>3, CallbackFacts
<1>5. StartType'
  <2>1. stale' \in BOOLEAN
        BY <1>1 DEF StartInv, StartType
  <2>2. late' \in [Runs -> Seq(Calls)]
        BY <1>1, <1>2, <1>3
  <2>. QED BY <1>1, <1>4, <2>1, <2>2 DEF StartInv, StartType
<1>6. LinesInv' /\ StreamInv'
      BY <1>1 DEF StartInv, LinesInv, StreamInv, Truthful, Counts
<1>7. RecordInv'
  <2>1. ~stale' => ~stale /\ rec' = rec
        BY <1>1 DEF StartInv, StartType
  <2>. QED BY <1>1, <1>4, <2>1 DEF StartInv, RecordInv, Counts, None
<1>. QED BY <1>5, <1>6, <1>7 DEF StartInv

LEMMA NoneCounts ==
  ASSUME StartInv
  PROVE  Counts(<<>>)
<1>1. load.dirs \in Nat /\ Len(<<>>) = 0 /\ DOMAIN <<>> = {}
      BY StartupAssumption DEF StartInv, StartType
<1>. QED BY <1>1 DEF Counts

\* A monitor that has heard nothing, or is done.
LEMMA FreshMon ==
  ASSUME NEW x, NEW m, m = [NoMon EXCEPT !.pc = x]
  PROVE  /\ IsMon(m) /\ ~m.path /\ ~m.gotPath /\ ~m.collecting /\ m.entries = <<>> /\ m.calls = <<>>
         /\ Before(m) = <<"echo", 0>>
<1> DEFINE f == FALSE
           e == <<>>
<1>1. m = [pc |-> x, path |-> f, port |-> f, gotPath |-> f, gotPort |-> f, collecting |-> f,
           entries |-> e, calls |-> e]
      BY DEF NoMon
<1>2. e \in Seq(Nat) /\ e \in Seq(Calls) /\ f \in BOOLEAN
      OBVIOUS
<1> HIDE DEF f, e
<1>3. /\ m = [pc |-> m.pc, path |-> m.path, port |-> m.port, gotPath |-> m.gotPath,
             gotPort |-> m.gotPort, collecting |-> m.collecting, entries |-> m.entries,
             calls |-> m.calls]
      /\ m.path = f /\ m.gotPath = f /\ m.collecting = f /\ m.entries = e /\ m.calls = e
  <2>1. \A g, d : m = [pc |-> x, path |-> g, port |-> g, gotPath |-> g, gotPort |-> g,
                       collecting |-> g, entries |-> d, calls |-> d]
                  => /\ m = [pc |-> m.pc, path |-> m.path, port |-> m.port, gotPath |-> m.gotPath,
                             gotPort |-> m.gotPort, collecting |-> m.collecting, entries |-> m.entries,
                             calls |-> m.calls]
                     /\ m.path = g /\ m.gotPath = g /\ m.collecting = g /\ m.entries = d /\ m.calls = d
        OBVIOUS
  <2>. QED BY <1>1, <2>1, Zenon
<1>4. IsMon(m)
      BY <1>2, <1>3 DEF IsMon
<1>. QED BY <1>3, <1>4 DEF Before, f, e

\* The monitor hears no more.
LEMMA MonEnds ==
  ASSUME StartInv, UNCHANGED <<load, record, port, alive, says, late, lost, stale>>,
         mon' = [NoMon EXCEPT !.pc = "done"], chan' = <<>>
  PROVE  StartInv'
<1>1. /\ IsMon(mon') /\ ~mon'.path /\ ~mon'.gotPath /\ ~mon'.collecting
      /\ mon'.entries = <<>> /\ mon'.calls = <<>> /\ Before(mon') = <<"echo", 0>>
      BY FreshMon
<1>2. mon'.pc = "done"
      BY DEF NoMon
<1>3. LinesInv'
  <2>1. \A x : Truthful(x)' <=> Truthful(x)
        BY DEF Truthful
  <2>. QED BY <1>1, <1>2, <2>1, EmptyElements DEF StartInv, LinesInv
<1>4. StreamInv'
  <2> SUFFICES ASSUME ~lost' PROVE StreamInv'
      BY DEF StreamInv
  <2>1. Chained(End(Before(mon), chan), says) /\ says \in Seq(Lines)
        BY DEF StartInv, StreamInv, StartType
  <2>2. Chained(<<"echo", 0>>, says)
        BY <2>1, ChainedLooser, EchoIsFree
  <2>3. Counts(<<>>)' 
        BY NoneCounts DEF Counts
  <2>. QED BY <1>1, <2>2, <2>3, ChainedEmpty, EmptyElements DEF StreamInv
<1>5. /\ UNCHANGED <<load, record, port, late, stale>> /\ (lost => lost') /\ (alive' => alive)
      /\ alive' \in BOOLEAN /\ lost' \in BOOLEAN /\ says' \in Seq(Lines) /\ chan' \in Seq(Lines)
  <2>1. <<>> \in Seq(Lines)
        OBVIOUS
  <2>. QED BY <2>1 DEF StartInv, StartType
<1>. QED BY <1>1, <1>3, <1>4, <1>5, HearingKeeps

LEMMA MonReturnsKeeps ==
  ASSUME StartInv, UNCHANGED load, MonReturns
  PROVE  StartInv'
BY MonEnds DEF MonReturns, process, history

LEMMA MonClosedKeeps ==
  ASSUME StartInv, UNCHANGED load, MonClosed
  PROVE  StartInv'
<1>1. /\ "mon" \notin subs /\ chan = <<>>
      /\ UNCHANGED <<load, record, port, alive, says, chan, subs, late, lost, stale>>
      BY DEF MonClosed, process, history, console
<1>2. CASE Closing(mon) = mon
  <2>1. mon' = [NoMon EXCEPT !.pc = "done"]
        BY <1>2 DEF MonClosed
  <2>. QED BY <1>1, <2>1, MonEnds
<1>3. CASE Closing(mon) # mon
  <2> DEFINE m == Closing(mon)
  <2>1. mon' = At(m) /\ IsMon(mon)
        BY <1>3 DEF MonClosed, StartInv, StartType
  <2>2. /\ IsMon(m) /\ m.path = mon.path /\ m.collecting = mon.collecting
        /\ m.entries = mon.entries /\ m.gotPath
        /\ \A c \in ToSet(m.calls) : c \in ToSet(mon.calls) \/ (~mon.gotPath /\ c = <<"path", mon.entries>>)
        BY <1>3, <2>1, ClosingFacts
  <2> HIDE DEF m
  <2>3. /\ IsMon(mon') /\ mon'.path = m.path /\ mon'.gotPath = m.gotPath
        /\ mon'.collecting = m.collecting /\ mon'.entries = m.entries
        /\ mon'.calls = m.calls /\ (mon'.pc = "call" => mon'.calls # <<>>)
        BY <2>1, <2>2, AtFacts
  <2>4. LinesInv'
    <3>1. \A x : Truthful(x)' <=> Truthful(x)
          BY <1>1 DEF Truthful
    <3>. QED BY <1>1, <2>2, <2>3, <3>1 DEF StartInv, LinesInv
  <2>5. StreamInv'
    <3> SUFFICES ASSUME ~lost' PROVE StreamInv'
        BY DEF StreamInv
    <3>1. /\ Chained(End(Before(mon), chan), says) /\ says \in Seq(Lines)
          /\ ~mon.gotPath => Counts(mon.entries)
          /\ \A c \in ToSet(mon.calls) : c[1] = "path" => Counts(c[2])
          BY <1>1 DEF StartInv, StreamInv, StartType
    <3>2. Chained(<<"echo", 0>>, says)
          BY <3>1, ChainedLooser, EchoIsFree
    <3>3. Before(mon') = <<"echo", 0>>
          BY <2>2, <2>3 DEF Before
    <3>4. \A x : Counts(x)' <=> Counts(x)
          BY <1>1 DEF Counts
    <3>5. \A c \in ToSet(mon'.calls) : c[1] = "path" => Counts(c[2])
          BY <2>2, <2>3, <3>1
    <3>. QED BY <1>1, <2>2, <2>3, <3>2, <3>3, <3>4, <3>5, ChainedEmpty DEF StreamInv
  <2>6. /\ UNCHANGED <<load, record, port, late, stale>> /\ (lost => lost') /\ (alive' => alive)
        /\ alive' \in BOOLEAN /\ lost' \in BOOLEAN /\ says' \in Seq(Lines) /\ chan' \in Seq(Lines)
        BY <1>1 DEF StartInv, StartType
  <2>. QED BY <2>3, <2>4, <2>5, <2>6, HearingKeeps
<1>. QED BY <1>2, <1>3

LEMMA ClearKeeps ==
  ASSUME StartInv, UNCHANGED load, Clear
  PROVE  StartInv'
<1>1. /\ gen < Len(load.ports) /\ rec' = [rec EXCEPT !.port = None, !.path = <<>>]
      /\ indexed' = indexed \ {rec.port} /\ op' = "spawn" /\ stale' = FALSE
      /\ UNCHANGED <<load, gen, port, alive, says, chan, subs, mon, late, lost>>
      BY DEF Clear, process, console, tasks
<1>2. rec' = [running |-> rec.running, port |-> None, path |-> <<>>, awaiting |-> rec.awaiting,
              ready |-> rec.ready, timedOut |-> rec.timedOut]
      BY <1>1 DEF StartInv, StartType
<1>3. StartType'
  <2>1. stale' \in BOOLEAN
        BY <1>1
  <2>2. rec' = [running |-> rec'.running, port |-> rec'.port, path |-> rec'.path,
                awaiting |-> rec'.awaiting, ready |-> rec'.ready, timedOut |-> rec'.timedOut]
        BY <1>2
  <2>. QED BY <1>1, <2>1, <2>2 DEF StartInv, StartType
<1>4. LinesInv' /\ StreamInv'
      BY <1>1 DEF StartInv, LinesInv, StreamInv, Truthful, Counts
<1>5. RecordInv'
  <2>1. rec'.port = None /\ rec'.path = <<>> /\ indexed' = {}
        BY <1>1, <1>2 DEF StartInv, RecordInv
  <2>. QED BY <1>1, <2>1 DEF RecordInv, None
<1>. QED BY <1>3, <1>4, <1>5 DEF StartInv

LEMMA SpawnKeeps ==
  ASSUME StartInv, UNCHANGED load, Spawn
  PROVE  StartInv'
<1>1. /\ op = "spawn" /\ gen' = gen + 1 /\ op' = "check"
      /\ late' = IF gen = 0 THEN late ELSE [late EXCEPT ![gen] = Remaining]
      /\ alive' = TRUE /\ port' = load.ports[gen'] /\ says' = Banner /\ chan' = <<>>
      /\ mon' = [NoMon EXCEPT !.pc = "new"] /\ lost' = FALSE
      /\ UNCHANGED <<load, rec, indexed, stale>>
      BY DEF Spawn
<1>2. gen \in Nat /\ gen < Len(load.ports) /\ load \in Loads
      BY <1>1 DEF StartInv, StartType
<1>3. port' \in Nat /\ port' # 0
  <2>1. load.ports \in Seq(Nat \ {0})
        BY <1>2, StartupAssumption
  <2>2. gen + 1 \in 1..Len(load.ports)
        BY <1>2, <2>1
  <2>. QED BY <1>1, <2>1, <2>2
<1>4. /\ IsMon(mon') /\ ~mon'.path /\ ~mon'.gotPath /\ ~mon'.collecting
      /\ mon'.entries = <<>> /\ mon'.calls = <<>> /\ Before(mon') = <<"echo", 0>>
      BY <1>1, FreshMon
<1>5. mon'.pc = "new"
      BY <1>1 DEF NoMon
<1>6. Banner \in Seq(Lines) /\ DOMAIN Banner = {1} /\ Banner[1] = <<"banner", 0>>
      BY DEF Banner, Lines
<1>7. \A l \in ToSet(Banner) : l = <<"banner", 0>>
      BY <1>6, Zenon DEF ToSet
<1>8. late' \in [Runs -> Seq(Calls)]
  <2>1. Remaining \in Seq(Calls)
        BY RemainingFacts DEF StartInv, StartType, LinesInv
  <2>. QED BY <1>1, <2>1 DEF StartInv, StartType
<1>9. StartType'
  <2>1. gen' \in Nat /\ <<>> \in Seq(Lines)
        BY <1>1, <1>2
  <2>2. alive' \in BOOLEAN /\ lost' \in BOOLEAN
        BY <1>1
  <2>. QED BY <1>1, <1>3, <1>4, <1>6, <1>8, <2>1, <2>2 DEF StartInv, StartType
<1>10. LinesInv'
  <2>1. Truthful(<<"banner", 0>>)'
        BY DEF Truthful
  <2>. QED BY <1>1, <1>4, <1>5, <1>7, <2>1, EmptyElements DEF LinesInv
<1>11. Counts(<<>>)'
      BY <1>1, NoneCounts DEF Counts
<1>12. StreamInv'
  <2>1. Chained(<<"echo", 0>>, Banner)
        BY <1>6, EchoIsFree DEF Chained
  <2>. QED BY <1>1, <1>4, <1>11, <2>1, ChainedEmpty, EmptyElements DEF StreamInv
<1>13. RecordInv'
  <2>1. <<>> \in Seq(Nat)
        OBVIOUS
  <2>2. ~stale => rec.port = None /\ rec.path = <<>>
        BY <1>1 DEF StartInv, RecordInv
  <2>. QED BY <1>1, <1>11, <2>1, <2>2 DEF StartInv, RecordInv, None
<1>. QED BY <1>9, <1>10, <1>12, <1>13 DEF StartInv

\* Check, Commit, Stop, ClearRunning: what runs is settled, what it resolved stays.
LEMMA OperatorKeeps ==
  ASSUME StartInv, UNCHANGED load, Check \/ Commit \/ Stop \/ ClearRunning
  PROVE  StartInv'
<1>1. /\ UNCHANGED <<load, gen, port, alive, says, chan, mon, late, lost, subs>>
      /\ stale' = stale /\ indexed' = indexed /\ op' # "spawn" /\ op # "spawn"
      BY DEF Check, Commit, Stop, ClearRunning, process, console, tasks, history
<1>2. PICK a, b, c, d : rec' = [running |-> a, port |-> rec.port, path |-> rec.path, awaiting |-> b,
                                ready |-> c, timedOut |-> d]
  <2>1. CASE rec' = rec
        BY <2>1 DEF StartInv, StartType
  <2>2. CASE rec' = NotRunning(rec)
    <3>1. rec' = [running |-> None, port |-> rec.port, path |-> rec.path, awaiting |-> FALSE,
                  ready |-> FALSE, timedOut |-> FALSE]
          BY <2>2 DEF StartInv, StartType, NotRunning
    <3>. QED BY <3>1
  <2>3. CASE rec' = [rec EXCEPT !.running = gen, !.awaiting = TRUE, !.ready = FALSE, !.timedOut = FALSE]
    <3>1. rec' = [running |-> gen, port |-> rec.port, path |-> rec.path, awaiting |-> TRUE,
                  ready |-> FALSE, timedOut |-> FALSE]
          BY <2>3 DEF StartInv, StartType
    <3>. QED BY <3>1
  <2>. QED BY <2>1, <2>2, <2>3 DEF Check, Commit, Stop, ClearRunning
<1>3. /\ rec' = [running |-> rec'.running, port |-> rec'.port, path |-> rec'.path,
                 awaiting |-> rec'.awaiting, ready |-> rec'.ready, timedOut |-> rec'.timedOut]
      /\ rec'.port = rec.port /\ rec'.path = rec.path
      BY <1>2
<1>. QED BY <1>1, <1>3, QuietKeeps

\* The relay, the poller and the timer change nothing that was resolved.
LEMMA OthersKeep ==
  ASSUME StartInv, UNCHANGED load,
         \/ Relay \/ Poll \/ WriteMarker
         \/ \E p \in Ports : UpdateGameState(p)
         \/ \E r \in Runs : Timeout(r)
  PROVE  StartInv'
<1>1. /\ UNCHANGED <<load, gen, port, alive, says, chan, mon, late, lost, op>>
      /\ stale' = stale /\ indexed' = indexed /\ ("mon" \in subs => "mon" \in subs')
      BY DEF Relay, RelSubscribe, RelReceive, RelClosed, Poll, WriteMarker, UpdateGameState, Timeout,
             record, process, console, tasks, history
<1>2. PICK a, b, c : rec' = [running |-> rec.running, port |-> rec.port, path |-> rec.path, awaiting |-> a,
                             ready |-> b, timedOut |-> c]
  <2>1. CASE rec' = rec
        BY <2>1 DEF StartInv, StartType
  <2>2. CASE rec' = [rec EXCEPT !.timedOut = TRUE]
    <3>1. rec' = [running |-> rec.running, port |-> rec.port, path |-> rec.path,
                  awaiting |-> rec.awaiting, ready |-> rec.ready, timedOut |-> TRUE]
          BY <2>2 DEF StartInv, StartType
    <3>. QED BY <3>1
  <2>3. CASE rec' = [rec EXCEPT !.awaiting = FALSE, !.ready = TRUE]
    <3>1. rec' = [running |-> rec.running, port |-> rec.port, path |-> rec.path,
                  awaiting |-> FALSE, ready |-> TRUE, timedOut |-> rec.timedOut]
          BY <2>3 DEF StartInv, StartType
    <3>. QED BY <3>1
  <2>. QED BY <2>1, <2>2, <2>3 DEF Relay, RelSubscribe, RelReceive, RelClosed, Poll, WriteMarker,
                                   UpdateGameState, Timeout, record
<1>3. /\ rec' = [running |-> rec'.running, port |-> rec'.port, path |-> rec'.path,
                 awaiting |-> rec'.awaiting, ready |-> rec'.ready, timedOut |-> rec'.timedOut]
      /\ rec'.port = rec.port /\ rec'.path = rec.path
      BY <1>2
<1>. QED BY <1>1, <1>3, QuieterKeeps

LEMMA StartInvInit ==
  ASSUME StartInit
  PROVE  StartInv
<1>1. /\ load \in Loads /\ op = "idle" /\ gen = 0 /\ indexed = {}
      /\ alive = FALSE /\ port = 0 /\ says = <<>> /\ chan = <<>> /\ lost = FALSE /\ stale = FALSE
      /\ mon = NoMon /\ late = [r \in Runs |-> <<>>]
      BY DEF StartInit, None
<1>2. rec = [running |-> 0, port |-> 0, path |-> <<>>, awaiting |-> FALSE, ready |-> FALSE,
             timedOut |-> FALSE]
      BY DEF StartInit, None
<1>3. mon = [NoMon EXCEPT !.pc = "off"]
      BY <1>1 DEF NoMon
<1>4. /\ IsMon(mon) /\ ~mon.path /\ ~mon.gotPath /\ ~mon.collecting /\ mon.entries = <<>>
      /\ mon.calls = <<>> /\ Before(mon) = <<"echo", 0>>
      BY <1>3, FreshMon
<1>5. mon.pc = "off"
      BY <1>1 DEF NoMon
<1>6. <<>> \in Seq(Lines) /\ <<>> \in Seq(Calls) /\ <<>> \in Seq(Nat) /\ Len(<<>>) = 0
      OBVIOUS
<1>7. Counts(<<>>)
  <2>1. load.dirs \in Nat /\ DOMAIN <<>> = {}
        BY <1>1, StartupAssumption
  <2>. QED BY <1>6, <2>1 DEF Counts
<1>8. StartType
  <2>1. late \in [Runs -> Seq(Calls)]
        BY <1>1, <1>6
  <2>2. rec = [running |-> rec.running, port |-> rec.port, path |-> rec.path,
               awaiting |-> rec.awaiting, ready |-> rec.ready, timedOut |-> rec.timedOut]
        BY <1>2
  <2>. QED BY <1>1, <1>4, <1>6, <2>1, <2>2 DEF StartType
<1>9. LinesInv
      BY <1>1, <1>4, <1>5, EmptyElements DEF LinesInv
<1>10. StreamInv
      BY <1>1, <1>4, <1>7, ChainedEmpty, EmptyElements DEF StreamInv
<1>11. RecordInv
      BY <1>1, <1>2, <1>6, <1>7 DEF RecordInv, None
<1>. QED BY <1>8, <1>9, <1>10, <1>11 DEF StartInv

LEMMA StartInvNext ==
  ASSUME StartInv, [StartNext]_startVars
  PROVE  StartInv'
<1>1. CASE UNCHANGED startVars
  <2>1. UNCHANGED <<load, op, gen, rec, indexed, port, alive, says, chan, subs, mon, late, lost, stale>>
        BY <1>1 DEF startVars, startRun, record, process, console, tasks, history
  <2>. QED BY <2>1 DEF StartInv, StartType, LinesInv, StreamInv, RecordInv, Truthful, Counts
<1>2. CASE UNCHANGED load /\ Operator
      BY <1>2, ClearKeeps, SpawnKeeps, OperatorKeeps DEF Operator
<1>3. CASE UNCHANGED load /\ (Process \/ Die \/ ReaderEnds)
      BY <1>3, EmitKeeps, ExecuteKeeps, EndsKeep DEF Process
<1>4. CASE UNCHANGED load /\ Monitor
      BY <1>4, MonSubscribeKeeps, MonReceiveKeeps, MonWriteKeeps, MonCallKeeps, MonReturnsKeeps,
         MonClosedKeeps DEF Monitor
<1>5. CASE UNCHANGED load /\ \E r \in Runs : LateCall(r)
      BY <1>5, LateCallKeeps
<1>6. CASE UNCHANGED load /\ (Relay \/ Poller \/ \E r \in Runs : Timeout(r))
      BY <1>6, OthersKeep DEF Poller
<1>. QED BY <1>1, <1>2, <1>3, <1>4, <1>5, <1>6 DEF StartNext

LEMMA CountsIsPrefix ==
  ASSUME NEW e \in Seq(Nat), Counts(e), load.dirs \in Nat
  PROVE  IsPrefix(e, Path)
<1>1. Path \in Seq(Nat) /\ Len(Path) = load.dirs /\ Len(e) \in Nat /\ DOMAIN e = 1..Len(e)
      BY DEF Path
<1>2. Len(e) <= load.dirs /\ \A i \in 1..Len(e) : e[i] = i /\ Path[i] = i
  <2>1. Len(e) <= load.dirs /\ \A i \in 1..Len(e) : e[i] = i
        BY <1>1 DEF Counts
  <2>2. \A i \in 1..load.dirs : Path[i] = i
        BY DEF Path
  <2>3. \A i \in 1..Len(e) : i \in 1..load.dirs
        BY <1>1, <2>1
  <2>. QED BY <2>1, <2>2, <2>3, Zenon
<1>3. SubSeq(e, 1, Len(e)) = [i \in 1..Len(e) |-> e[i]]
      BY <1>1
<1>4. SubSeq(Path, 1, Len(e)) = [i \in 1..Len(e) |-> Path[i]]
      BY <1>1, <1>2
<1>. QED BY <1>1, <1>2, <1>3, <1>4 DEF IsPrefix

\* A record resolves to its own process: in every behaviour of the startup, for
\* any number of runs, any ports, any length of the search path and of the
\* channel, the port and the path that startRecord's monitor wrote to the record
\* are those of the process that runs, unless a callback of an earlier run came
\* in after the record was cleared (which is what stale says); and the index by
\* port never has the record under another port.
THEOREM RecordResolvesItsOwn == StartSpec => []ResolvedIsOwn
<1>1. StartInit => StartInv
      BY StartInvInit
<1>2. StartInv /\ [StartNext]_startVars => StartInv'
      BY StartInvNext
<1>3. StartInv => ResolvedIsOwn
  <2> SUFFICES ASSUME StartInv, op # "spawn", ~stale
               PROVE  /\ rec.port \in {None, port} /\ indexed = {rec.port} \ {None}
                      /\ ~lost => IsPrefix(rec.path, Path)
      BY DEF ResolvedIsOwn
  <2>1. load.dirs \in Nat
        BY StartupAssumption DEF StartInv, StartType
  <2>. QED BY <2>1, CountsIsPrefix DEF StartInv, RecordInv
<1>. QED BY <1>1, <1>2, <1>3, PTL DEF StartSpec
=============================================================================
