---------------------------- MODULE AutoscaleProof ----------------------------
(***************************************************************************)
(* Proofs about autoscaling, for any number of ids and instances, any      *)
(* limits and any number of crashes.                                       *)
(*                                                                         *)
(* What the loop of decideServerActionsLocked leaves behind (SweepTo) is   *)
(* shown by induction over the instances it has visited, in the form of a  *)
(* least counterexample.                                                   *)
(***************************************************************************)
EXTENDS Autoscale, TLAPS, FiniteSetTheorems, SequenceTheorems, WellFoundedInduction

Lives  == {"warming", "active", "draining", "terminating"}
Points == {"idle", "decide", "launch", "start", "finish", "fail", "despawn", "stop"}

TypeInv ==
  /\ order \in Seq(Ids)
  /\ proc \in [Ids -> {"none", "up", "dead"}]
  /\ life \in [Ids -> Lives]
  /\ streak \in [Ids -> Nat]
  /\ inFlight \in BOOLEAN
  /\ pc \in [Reconcilers -> Points]
  /\ down \in [Reconcilers -> Ids \cup {None}]
  /\ crashes \in Nat

\* Every id is listed once, and one that is not listed is as good as new.
ListInv ==
  /\ \A j, k \in DOMAIN order : order[j] = order[k] => j = k
  /\ IsFiniteSet(Listed)
  /\ \A i \in Ids \ Listed : proc[i] = "none" /\ life[i] = "warming"

Launching == {r \in Reconcilers : pc[r] \in {"launch", "start", "finish", "fail"}}

\* One launch at a time, and its record is the last of the list until its
\* process has started or its start has failed: it is not running and nobody
\* else can have marked it.
LaunchInv ==
  /\ inFlight <=> Launching # {}
  /\ \A r, q \in Launching : r = q
  /\ \A r \in Reconcilers : pc[r] \in {"start", "fail"} =>
       order # <<>> /\ proc[Launched] = "none" /\ life[Launched] # "terminating"

\* An instance is terminating exactly while one reconciler has it to despawn.
OwnInv ==
  /\ \A r \in Reconcilers :
       /\ down[r] # None => down[r] \in Listed /\ life[down[r]] = "terminating"
       /\ pc[r] \in {"idle", "decide"} => down[r] = None
       /\ pc[r] \in {"despawn", "stop"} => down[r] # None
  /\ \A r, q \in Reconcilers : down[r] = down[q] /\ down[r] # None => r = q
  /\ \A i \in Ids : life[i] = "terminating" => \E r \in Reconcilers : down[r] = i

\* Room for the replica that is under way.
CapInv ==
  IF \E r \in Reconcilers : pc[r] \in {"launch", "start"}
    THEN Cardinality(Running) < MaxInstances
    ELSE Cardinality(Running) <= MaxInstances

\* Some instance that nobody is going to stop.
AliveInv == crashes = 0 => \E i \in Running : life[i] # "terminating"

AutoInv == TypeInv /\ ListInv /\ LaunchInv /\ OwnInv /\ CapInv /\ AliveInv
-----------------------------------------------------------------------------
(* Numbers and lists *)

\* A set of naturals has a least element.
LEMMA Least ==
  ASSUME NEW T, T \subseteq Nat, T # {}
  PROVE  \E x \in T : \A y \in T : x <= y
<1> DEFINE R == {ss \in Nat \X Nat : ss[1] < ss[2]}
<1>1. IsWellFoundedOn(R, Nat)
  <2>1. OpToRel(<, Nat) = R
        BY Zenon DEF OpToRel
  <2>2. IsWellFoundedOn(OpToRel(<, Nat), Nat)
        BY NatLessThanWellFounded
  <2>. QED BY <2>1, <2>2, Zenon
<1>2. \A x, y \in Nat : y < x => <<y, x>> \in R
  <2> TAKE x, y \in Nat
  <2> HAVE y < x
  <2>1. <<y, x>> \in Nat \X Nat
        OBVIOUS
  <2>2. <<y, x>>[1] < <<y, x>>[2]
        OBVIOUS
  <2>. QED BY <2>1, <2>2, Zenon
<1> HIDE DEF R
<1>3. \E x \in T : \A y \in T : ~(<<y, x>> \in R)
      BY <1>1, WFMin
<1>4. \E x \in T : \A y \in T : ~(y < x)
      BY <1>2, <1>3, Zenon
<1>. QED BY <1>4

\* A sequence without its kth element.
LEMMA RemoveAtFacts ==
  ASSUME NEW S, NEW s \in Seq(S), NEW k \in 1..Len(s)
  PROVE  /\ RemoveAt(s, k) \in Seq(S)
         /\ Len(RemoveAt(s, k)) = Len(s) - 1
         /\ \A i \in 1..(Len(s) - 1) :
              RemoveAt(s, k)[i] = IF i < k THEN s[i] ELSE s[i + 1]
<1> DEFINE a == SubSeq(s, 1, k - 1)
           b == SubSeq(s, k + 1, Len(s))
<1>1. a \in Seq(S) /\ Len(a) = k - 1 /\ \A i \in 1..(k - 1) : a[i] = s[i]
      OBVIOUS
<1>2. b \in Seq(S) /\ Len(b) = Len(s) - k /\ \A i \in 1..(Len(s) - k) : b[i] = s[i + k]
      OBVIOUS
<1>3. RemoveAt(s, k) = a \o b
      BY DEF RemoveAt
<1> HIDE DEF a, b
<1>4. /\ a \o b \in Seq(S)
      /\ Len(a \o b) = Len(a) + Len(b)
      /\ \A i \in 1..(Len(a) + Len(b)) :
           (a \o b)[i] = IF i <= Len(a) THEN a[i] ELSE b[i - Len(a)]
      BY <1>1, <1>2, ConcatProperties
<1>5. Len(s) \in Nat /\ Len(a) + Len(b) = Len(s) - 1
      BY <1>1, <1>2
<1>6. ASSUME NEW i \in 1..(Len(s) - 1)
      PROVE  (a \o b)[i] = IF i < k THEN s[i] ELSE s[i + 1]
  <2>1. CASE i < k
        BY <1>1, <1>4, <1>5, <2>1
  <2>2. CASE ~(i < k)
    <3>1. (a \o b)[i] = b[i - Len(a)]
          BY <1>1, <1>4, <1>5, <2>2
    <3>2. i - Len(a) \in 1..(Len(s) - k) /\ (i - Len(a)) + k = i + 1
          BY <1>1, <1>5, <2>2
    <3>. QED BY <1>2, <2>2, <3>1, <3>2
  <2>. QED BY <2>1, <2>2
<1>. QED BY <1>3, <1>4, <1>5, <1>6

Distinct(s) == \A j, k \in DOMAIN s : s[j] = s[k] => j = k

\* Taking an element out of a list of distinct elements.
LEMMA RemoveFirstFacts ==
  ASSUME NEW S, NEW s \in Seq(S), Distinct(s), NEW x \in ToSet(s)
  PROVE  /\ RemoveFirst(s, x) \in Seq(S)
         /\ Distinct(RemoveFirst(s, x))
         /\ ToSet(RemoveFirst(s, x)) = ToSet(s) \ {x}
         /\ Last(s) # x => RemoveFirst(s, x) # <<>> /\ Last(RemoveFirst(s, x)) = Last(s)
<1> DEFINE I == {i \in 1..Len(s) : s[i] = x}
           m == Min(I)
           t == RemoveFirst(s, x)
<1>1. I # {} /\ I \subseteq Nat /\ DOMAIN s = 1..Len(s) /\ Len(s) \in Nat
      BY DEF ToSet
<1>2. \E i \in I : \A j \in I : i <= j
      BY <1>1, Least
<1>3. m \in I
      BY <1>2 DEF Min
<1>4. t = RemoveAt(s, m)
  <2>1. \E i \in 1..Len(s) : s[i] = x
        BY <1>1
  <2>. QED BY <1>1, <2>1, Zenon DEF RemoveFirst, SelectInSeq
<1> HIDE DEF I, t
<1>5. m \in 1..Len(s) /\ s[m] = x
      BY <1>3 DEF I
<1> HIDE DEF m
<1>6. /\ t \in Seq(S) /\ Len(t) = Len(s) - 1
      /\ \A i \in 1..(Len(s) - 1) : t[i] = IF i < m THEN s[i] ELSE s[i + 1]
      BY <1>4, <1>5, RemoveAtFacts
<1>7. DOMAIN t = 1..(Len(s) - 1)
      BY <1>6
<1>8. Distinct(t)
      BY <1>1, <1>5, <1>6, <1>7 DEF Distinct
<1>9. ToSet(t) = ToSet(s) \ {x}
  <2>1. ASSUME NEW i \in 1..(Len(s) - 1) PROVE t[i] \in ToSet(s) \ {x}
    <3>1. PICK j \in 1..Len(s) : t[i] = s[j] /\ j # m
          BY <1>1, <1>5, <1>6
    <3>. QED BY <1>1, <1>5, <3>1 DEF Distinct, ToSet
  <2>2. ASSUME NEW j \in 1..Len(s), s[j] # x PROVE s[j] \in ToSet(t)
    <3>1. CASE j < m
          BY <1>1, <1>5, <1>6, <1>7, <3>1 DEF ToSet
    <3>2. CASE j > m
      <4>1. j - 1 \in 1..(Len(s) - 1) /\ ~(j - 1 < m) /\ (j - 1) + 1 = j
            BY <1>1, <1>5, <3>2
      <4>2. t[j - 1] = s[j]
            BY <1>6, <4>1
      <4>. QED BY <1>7, <4>1, <4>2 DEF ToSet
    <3>. QED BY <1>1, <1>5, <2>2, <3>1, <3>2
  <2>. QED BY <1>1, <1>7, <2>1, <2>2 DEF ToSet
<1>10. ASSUME Last(s) # x PROVE t # <<>> /\ Last(t) = Last(s)
  <2>1. m < Len(s)
        BY <1>1, <1>5, <1>10 DEF Last
  <2>2. t[Len(s) - 1] = s[Len(s)] /\ Len(s) - 1 >= 1
        BY <1>1, <1>5, <1>6, <2>1
  <2>. QED BY <1>6, <2>2 DEF Last
<1>. QED BY <1>6, <1>8, <1>9, <1>10 DEF t
-----------------------------------------------------------------------------
(* The loop of decideServerActionsLocked *)

Acc == [life : [Ids -> Lives], streak : [Ids -> Nat], active : Int,
        down : Ids \cup {None}]

ActiveIn(f) == {i \in Running : f[i] = "active"}

\* What holds after every instance of the loop: its count of active instances is
\* right, it has touched running instances only and marked one of them at most,
\* and not the last that nobody was going to stop.
SweepInv(acc) ==
  /\ acc \in Acc
  /\ acc.active = Cardinality(ActiveIn(acc.life))
  /\ acc.down # None => acc.down \in Running /\ life[acc.down] # "terminating"
  /\ \A i \in Ids : acc.life[i] = "terminating" <=> life[i] = "terminating" \/ i = acc.down
  /\ \A i \in Ids \ Running : acc.life[i] = life[i]
  /\ (\E i \in Running : life[i] # "terminating") => \E i \in Running : acc.life[i] # "terminating"

LEMMA RunningFinite ==
  ASSUME TypeInv, ListInv
  PROVE  Running \subseteq Ids /\ IsFiniteSet(Running) /\ Cardinality(Running) \in Nat
<1>1. Running \subseteq Listed /\ Listed \subseteq Ids
      BY DEF Running, Listed, ToSet, TypeInv
<1>2. IsFiniteSet(Running)
      BY <1>1, FS_Subset DEF ListInv
<1>. QED BY <1>1, <1>2, FS_CardinalityType

\* setInstanceLifecycle keeps the count.
LEMMA SetLifeFacts ==
  ASSUME TypeInv, ListInv, NEW acc \in Acc, acc.active = Cardinality(ActiveIn(acc.life)),
         NEW i \in Running, NEW next \in Lives
  PROVE  /\ SetLife(acc, i, next) \in Acc
         /\ SetLife(acc, i, next).life = [acc.life EXCEPT ![i] = next]
         /\ SetLife(acc, i, next).streak = acc.streak
         /\ SetLife(acc, i, next).down = acc.down
         /\ SetLife(acc, i, next).active = Cardinality(ActiveIn([acc.life EXCEPT ![i] = next]))
<1> DEFINE A == ActiveIn(acc.life)
           f == [acc.life EXCEPT ![i] = next]
           d == (IF next = "active" THEN 1 ELSE 0) - (IF acc.life[i] = "active" THEN 1 ELSE 0)
<1>1. i \in Ids /\ acc.life \in [Ids -> Lives] /\ acc.active \in Int
      BY RunningFinite DEF Acc
<1>2. IsFiniteSet(A)
      BY RunningFinite, FS_Subset DEF ActiveIn
<1>3. ActiveIn(f) = IF next = "active" THEN A \cup {i} ELSE A \ {i}
      BY <1>1, RunningFinite DEF ActiveIn
<1>4. i \in A <=> acc.life[i] = "active"
      BY DEF ActiveIn
<1>5. Cardinality(ActiveIn(f)) = Cardinality(A) + d
  <2>1. Cardinality(A) \in Nat
        BY <1>2, FS_CardinalityType
  <2>2. CASE next = "active"
    <3>1. CASE i \in A
      <4>1. A \cup {i} = A
            BY <3>1
      <4>. QED BY <1>3, <1>4, <2>1, <2>2, <3>1, <4>1
    <3>2. CASE i \notin A
      <4>1. Cardinality(A \cup {i}) = Cardinality(A) + 1
            BY <1>2, <3>2, FS_AddElement
      <4>. QED BY <1>3, <1>4, <2>1, <2>2, <3>2, <4>1
    <3>. QED BY <3>1, <3>2
  <2>3. CASE next # "active"
    <3>1. CASE i \in A
      <4>1. Cardinality(A \ {i}) = Cardinality(A) - 1
            BY <1>2, <3>1, FS_RemoveElement
      <4>. QED BY <1>3, <1>4, <2>1, <2>3, <3>1, <4>1
    <3>2. CASE i \notin A
      <4>1. A \ {i} = A
            BY <3>2
      <4>. QED BY <1>3, <1>4, <2>1, <2>3, <3>2, <4>1
    <3>. QED BY <3>1, <3>2
  <2>. QED BY <2>2, <2>3
<1>6. /\ SetLife(acc, i, next) \in Acc
      /\ SetLife(acc, i, next).life = f
      /\ SetLife(acc, i, next).streak = acc.streak
      /\ SetLife(acc, i, next).down = acc.down
      /\ SetLife(acc, i, next).active = acc.active + d
  <2> DEFINE n == SetLife(acc, i, next)
             x == IF next = "active" THEN 1 ELSE 0
             y == IF acc.life[i] = "active" THEN 1 ELSE 0
  <2>1. x \in Int /\ y \in Int /\ d = x - y
        OBVIOUS
  <2>2. n = [acc EXCEPT !.life[i] = next, !.active = @ + (x - y)]
        BY DEF SetLife
  <2> HIDE DEF n, x, y, d
  <2>3. n.life = f /\ n.streak = acc.streak /\ n.down = acc.down /\ n.active = acc.active + (x - y)
        BY <1>1, <2>2 DEF Acc
  <2>4. n.active = acc.active + d /\ n.active \in Int
        BY <1>1, <2>1, <2>3
  <2>5. f \in [Ids -> Lives]
        BY <1>1
  <2>6. n \in Acc
        BY <2>2, <2>3, <2>4, <2>5 DEF Acc
  <2>. QED BY <2>3, <2>4, <2>6 DEF n
<1>. QED BY <1>5, <1>6

LEMMA SettleFacts ==
  ASSUME TypeInv, ListInv, NEW acc \in Acc, acc.active = Cardinality(ActiveIn(acc.life)),
         NEW i \in Running, NEW next \in Lives
  PROVE  /\ Settle(acc, i, next) \in Acc
         /\ Settle(acc, i, next).life = [acc.life EXCEPT ![i] = next]
         /\ Settle(acc, i, next).down = acc.down
         /\ Settle(acc, i, next).active = Cardinality(ActiveIn([acc.life EXCEPT ![i] = next]))
<1> DEFINE n == SetLife(acc, i, next)
<1>1. /\ n \in Acc /\ n.life = [acc.life EXCEPT ![i] = next] /\ n.down = acc.down
      /\ n.active = Cardinality(ActiveIn([acc.life EXCEPT ![i] = next]))
      BY SetLifeFacts
<1>2. i \in Ids
      BY RunningFinite
<1> HIDE DEF n
<1>3. Settle(acc, i, next) = [n EXCEPT !.streak[i] = 0]
      BY DEF Settle, n
<1>. QED BY <1>1, <1>2, <1>3 DEF Acc

\* One instance of the loop.
LEMMA VisitKeeps ==
  ASSUME TypeInv, ListInv, NEW acc, SweepInv(acc), NEW i \in Ids
  PROVE  SweepInv(Visit(acc, i))
<1> DEFINE skip == i \notin Running \/ acc.life[i] = "terminating"
<1>0. acc \in Acc /\ acc.active = Cardinality(ActiveIn(acc.life))
      BY DEF SweepInv
<1>1. CASE skip
      BY <1>1 DEF Visit
<1>2. ASSUME ~skip, NEW next \in Lives \ {"terminating"} PROVE SweepInv(Settle(acc, i, next))
  <2> DEFINE n == Settle(acc, i, next)
  <2>1. /\ n \in Acc /\ n.life = [acc.life EXCEPT ![i] = next] /\ n.down = acc.down
        /\ n.active = Cardinality(ActiveIn([acc.life EXCEPT ![i] = next]))
        BY <1>0, <1>2, SettleFacts
  <2>2. life[i] # "terminating" /\ i # acc.down
        BY <1>2 DEF SweepInv
  <2> HIDE DEF n
  <2>3. n.life[i] # "terminating" /\ i \in Running
        BY <1>0, <1>2, <2>1 DEF Acc
  <2>4. \A j \in Ids \ {i} : n.life[j] = acc.life[j]
        BY <1>0, <2>1 DEF Acc
  <2>5. SweepInv(n)
        BY <2>1, <2>2, <2>3, <2>4 DEF SweepInv
  <2>. QED BY <2>5 DEF n
<1>3. ASSUME ~skip, CanDrain(acc, i) PROVE SweepInv(Drain(acc, i))
  <2> DEFINE s == SetLife(acc, i, "draining")
             d == [s EXCEPT !.streak[i] = @ + 1]
  <2>1. /\ s \in Acc /\ s.life = [acc.life EXCEPT ![i] = "draining"] /\ s.down = acc.down
        /\ s.active = Cardinality(ActiveIn([acc.life EXCEPT ![i] = "draining"]))
        BY <1>0, <1>3, SetLifeFacts DEF Lives
  <2> HIDE DEF s
  <2>2. /\ d \in Acc /\ d.life = [acc.life EXCEPT ![i] = "draining"] /\ d.down = acc.down
        /\ d.active = Cardinality(ActiveIn([acc.life EXCEPT ![i] = "draining"]))
        BY <2>1 DEF Acc
  <2>3. Drain(acc, i) = IF d.streak[i] >= DespawnPolls /\ acc.down = None
                          THEN [Settle(d, i, "terminating") EXCEPT !.down = i]
                          ELSE d
        BY DEF Drain, s
  <2> HIDE DEF d
  <2>4. life[i] # "terminating" /\ i # acc.down /\ i \in Running /\ acc.life[i] # "terminating"
        BY <1>3 DEF SweepInv
  <2>5. PICK o \in Running : o # i /\ acc.life[o] = "active"
    <3>1. acc.active > 1
          BY <1>3 DEF CanDrain
    <3>2. IsFiniteSet(ActiveIn(acc.life))
          BY RunningFinite, FS_Subset DEF ActiveIn
    <3>3. ~(ActiveIn(acc.life) \subseteq {i})
      <4>1. SUFFICES ASSUME ActiveIn(acc.life) \subseteq {i} PROVE FALSE
            OBVIOUS
      <4>2. IsFiniteSet({i}) /\ Cardinality({i}) = 1
            BY FS_Singleton
      <4>3. Cardinality(ActiveIn(acc.life)) <= 1
            BY <4>1, <4>2, FS_Subset
      <4>4. Cardinality(ActiveIn(acc.life)) \in Nat
            BY <3>2, FS_CardinalityType
      <4>. QED BY <1>0, <3>1, <4>3, <4>4
    <3>. QED BY <3>3 DEF ActiveIn
  <2>6. CASE d.streak[i] >= DespawnPolls /\ acc.down = None
    <3> DEFINE t == Settle(d, i, "terminating")
               n == [t EXCEPT !.down = i]
    <3>1. ActiveIn(d.life) = ActiveIn([acc.life EXCEPT ![i] = "draining"])
          BY <2>2
    <3>2. /\ t \in Acc /\ t.life = [d.life EXCEPT ![i] = "terminating"]
          /\ t.active = Cardinality(ActiveIn([d.life EXCEPT ![i] = "terminating"]))
          BY <2>2, <2>4, <3>1, SettleFacts DEF Lives
    <3> HIDE DEF t
    <3>3. n \in Acc /\ n.life = t.life /\ n.active = t.active /\ n.down = i
          BY <2>4, <3>2, RunningFinite DEF Acc
    <3> HIDE DEF n
    <3>4. n.life[i] = "terminating" /\ \A j \in Ids \ {i} : n.life[j] = acc.life[j]
          BY <1>0, <2>2, <2>4, <3>2, <3>3, RunningFinite DEF Acc
    <3>5. n.active = Cardinality(ActiveIn(n.life))
          BY <3>2, <3>3
    <3>6. n.life[o] # "terminating"
          BY <2>5, <3>4, RunningFinite
    <3>7. \A j \in Ids : n.life[j] = "terminating" <=> life[j] = "terminating" \/ j = n.down
      <4>1. None \notin Ids
            BY IdsAssumption DEF None
      <4>. QED BY <2>4, <2>6, <3>3, <3>4, <4>1 DEF SweepInv
    <3>8. SweepInv(n)
          BY <2>4, <2>5, <3>3, <3>4, <3>5, <3>6, <3>7 DEF SweepInv
    <3>. QED BY <2>3, <2>6, <3>8 DEF n, t
  <2>7. CASE ~(d.streak[i] >= DespawnPolls /\ acc.down = None)
    <3>1. d.life[i] # "terminating" /\ \A j \in Ids \ {i} : d.life[j] = acc.life[j]
          BY <1>0, <2>2, <2>4, RunningFinite DEF Acc
    <3>2. SweepInv(d)
          BY <2>2, <2>4, <3>1 DEF SweepInv
    <3>. QED BY <2>3, <2>7, <3>2
  <2>. QED BY <2>6, <2>7
<1>4. CASE ~skip
  <2>1. \/ \E next \in {"warming", "active"} : Visit(acc, i) = Settle(acc, i, next)
        \/ CanDrain(acc, i) /\ Visit(acc, i) = Drain(acc, i)
        BY <1>4 DEF Visit
  <2>. QED BY <1>2, <1>3, <1>4, <2>1 DEF Lives
<1>. QED BY <1>1, <1>4
Start0 == [life |-> life, streak |-> streak, active |-> Cardinality(Joinable), down |-> None]

\* f is the course of the loop over the first m instances.
Course(f, m) ==
  f = [k \in 0..m |-> IF k = 0 THEN Start0 ELSE Visit(f[k - 1], order[k])]

\* The recursion of SweepTo has a solution, so SweepTo is one.
LEMMA SweepToDef == ASSUME TypeInv PROVE Course(SweepTo, Len(order))
<1>1. Len(order) \in Nat
      BY DEF TypeInv
<1>2. \A m \in Nat : \E f : Course(f, m)
  <2> DEFINE T == {m \in Nat : ~\E f : Course(f, m)}
  <2>1. SUFFICES ASSUME T # {} PROVE FALSE
        OBVIOUS
  <2>2. PICK m \in T : \A y \in T : m <= y
        BY <2>1, Least
  <2>3. m # 0
    <3>1. Course([k \in 0..0 |-> Start0], 0)
          BY DEF Course
    <3>. QED BY <3>1
  <2>4. m - 1 \in Nat /\ m - 1 \notin T
        BY <2>2, <2>3
  <2>5. PICK g : Course(g, m - 1)
        BY <2>4
  <2> DEFINE h == [k \in 0..m |-> IF k = m THEN Visit(g[m - 1], order[m]) ELSE g[k]]
  <2>6. ASSUME NEW k \in 0..m
        PROVE  h[k] = IF k = 0 THEN Start0 ELSE Visit(h[k - 1], order[k])
    <3>1. CASE k = m
      <4>1. h[k] = Visit(g[m - 1], order[m]) /\ h[k - 1] = g[m - 1]
            BY <2>3, <3>1
      <4>. QED BY <2>3, <3>1, <4>1
    <3>2. CASE k # m /\ k # 0
      <4>1. k \in 0..(m - 1) /\ k - 1 \in 0..m /\ k - 1 # m
            BY <3>2
      <4>2. h[k] = g[k] /\ h[k - 1] = g[k - 1]
            BY <3>2, <4>1
      <4>3. g[k] = Visit(g[k - 1], order[k])
            BY <2>5, <3>2, <4>1 DEF Course
      <4>. QED BY <3>2, <4>2, <4>3
    <3>3. CASE k # m /\ k = 0
      <4>1. h[k] = g[k] /\ k \in 0..(m - 1)
            BY <3>3
      <4>. QED BY <2>5, <3>3, <4>1 DEF Course
    <3>. QED BY <3>1, <3>2, <3>3
  <2>7. Course(h, m)
    <3>1. h = [k \in 0..m |-> h[k]]
          OBVIOUS
    <3> HIDE DEF h
    <3>. QED BY <2>6, <3>1 DEF Course
  <2>. QED BY <2>7
<1>3. \E f : Course(f, Len(order))
      BY <1>1, <1>2
<1>4. \E f : f = [k \in 0..Len(order) |-> IF k = 0 THEN Start0 ELSE Visit(f[k - 1], order[k])]
      BY <1>3 DEF Course
<1>. QED BY <1>4, Zenon DEF Course, SweepTo, Start0

\* What the whole loop leaves behind.
LEMMA SweepHolds == ASSUME TypeInv, ListInv PROVE SweepInv(Sweep)
<1>1. Len(order) \in Nat /\ \A k \in 1..Len(order) : order[k] \in Ids
      BY DEF TypeInv
<1>2. /\ SweepTo[0] = Start0
      /\ \A k \in 1..Len(order) : SweepTo[k] = Visit(SweepTo[k - 1], order[k])
      BY <1>1, SweepToDef DEF Course
<1>3. SweepInv(Start0)
  <2>1. Start0 \in Acc
    <3>1. Cardinality(Joinable) \in Int
      <4>1. IsFiniteSet(Joinable)
            BY RunningFinite, FS_Subset DEF Joinable
      <4>. QED BY <4>1, FS_CardinalityType
    <3>. QED BY <3>1 DEF Start0, Acc, TypeInv
  <2>2. Start0.life = life /\ Start0.down = None /\ Start0.active = Cardinality(ActiveIn(life))
        BY DEF Start0, ActiveIn, Joinable
  <2>3. None \notin Ids
        BY IdsAssumption DEF None
  <2>. QED BY <2>1, <2>2, <2>3 DEF SweepInv
<1> DEFINE T == {k \in 0..Len(order) : ~SweepInv(SweepTo[k])}
<1>4. T = {}
  <2>1. SUFFICES ASSUME T # {} PROVE FALSE
        OBVIOUS
  <2>2. T \subseteq Nat
        BY <1>1
  <2>3. PICK m \in T : \A y \in T : m <= y
        BY <2>1, <2>2, Least
  <2>4. m # 0
        BY <1>2, <1>3
  <2>5. m \in 1..Len(order) /\ m - 1 \in 0..Len(order) /\ m - 1 \notin T
        BY <1>1, <2>3, <2>4
  <2>6. SweepInv(SweepTo[m - 1])
        BY <2>5
  <2>7. SweepInv(SweepTo[m])
        BY <1>1, <1>2, <2>5, <2>6, VisitKeeps
  <2>. QED BY <2>7
<1>. QED BY <1>1, <1>4 DEF Sweep
-----------------------------------------------------------------------------
(* The steps *)

\* A step after which every reconciler is where it was, or about to decide.
LEMMA QuietStep ==
  ASSUME AutoInv, UNCHANGED <<order, proc, life, streak, inFlight, down, crashes>>,
         pc' \in [Reconcilers -> Points],
         \A r \in Reconcilers : pc'[r] = pc[r] \/ (pc[r] = "idle" /\ pc'[r] = "decide")
  PROVE  AutoInv'
<1>1. Running' = Running /\ Listed' = Listed /\ Launched' = Launched
      BY DEF Running, Listed, Launched
<1>2. Launching' = Launching
      BY DEF Launching
<1>3. TypeInv' /\ ListInv' /\ AliveInv'
      BY <1>1 DEF AutoInv, TypeInv, ListInv, AliveInv
<1>4. LaunchInv'
      BY <1>1, <1>2 DEF AutoInv, LaunchInv
<1>5. OwnInv'
      BY <1>1 DEF AutoInv, OwnInv
<1>6. CapInv'
      BY <1>1 DEF AutoInv, CapInv
<1>. QED BY <1>3, <1>4, <1>5, <1>6 DEF AutoInv

LEMMA CrashStep == ASSUME AutoInv, NEW i \in Ids, Crash(i) PROVE AutoInv'
<1>1. /\ proc' = [proc EXCEPT ![i] = "dead"] /\ proc[i] = "up" /\ crashes' = crashes + 1
      /\ UNCHANGED <<order, life, streak, inFlight, pc, down>>
      BY DEF Crash, scale
<1>2. Listed' = Listed /\ Launched' = Launched /\ Launching' = Launching
      BY <1>1 DEF Listed, Launched, Launching
<1>3. Running' \subseteq Running
      BY <1>1, <1>2 DEF Running, Listed, ToSet, AutoInv, TypeInv
<1>4. Cardinality(Running') <= Cardinality(Running) /\ Cardinality(Running') \in Nat /\ Cardinality(Running) \in Nat
      BY <1>3, RunningFinite, FS_Subset, FS_CardinalityType DEF AutoInv
<1>5. TypeInv' /\ ListInv' /\ AliveInv'
      BY <1>1, <1>2 DEF AutoInv, TypeInv, ListInv, AliveInv
<1>6. LaunchInv'
      BY <1>1, <1>2 DEF AutoInv, LaunchInv, TypeInv
<1>7. OwnInv'
      BY <1>1, <1>2 DEF AutoInv, OwnInv
<1>8. CapInv'
      BY <1>1, <1>4, SizeAssumption DEF AutoInv, CapInv
<1>. QED BY <1>5, <1>6, <1>7, <1>8 DEF AutoInv

LEMMA DecideStep == ASSUME AutoInv, NEW r \in Reconcilers, Decide(r) PROVE AutoInv'
<1> DEFINE S == Sweep
           need == NeedsReplica
<1>1. /\ pc[r] = "decide" /\ life' = S.life /\ streak' = S.streak
      /\ down' = [down EXCEPT ![r] = S.down]
      /\ inFlight' = (inFlight \/ need)
      /\ pc' = [pc EXCEPT ![r] = IF need THEN "launch"
                                 ELSE IF S.down # None THEN "despawn" ELSE "idle"]
      /\ UNCHANGED <<order, proc, crashes>>
      BY DEF Decide, game
<1>2. SweepInv(S)
      BY SweepHolds DEF AutoInv
<1>3. need \in BOOLEAN /\ (need => ~inFlight /\ Cardinality(Running) < MaxInstances)
      BY DEF NeedsReplica
<1> HIDE DEF S, need
<1>4. Listed' = Listed /\ Running' = Running /\ Launched' = Launched
      BY <1>1 DEF Listed, Running, Launched
<1>5. S \in Acc
      BY <1>2 DEF SweepInv
<1>6. \A q \in Reconcilers \ {r} : pc'[q] = pc[q]
      BY <1>1 DEF AutoInv, TypeInv
<1>7. down'[r] = S.down /\ \A q \in Reconcilers \ {r} : down'[q] = down[q]
      BY <1>1 DEF AutoInv, TypeInv
<1>8. pc'[r] = IF need THEN "launch" ELSE IF S.down # None THEN "despawn" ELSE "idle"
      BY <1>1 DEF AutoInv, TypeInv
<1>9. TypeInv'
  <2>1. pc' \in [Reconcilers -> Points]
        BY <1>1, <1>6, <1>8 DEF AutoInv, TypeInv, Points
  <2>2. down' \in [Reconcilers -> Ids \cup {None}]
        BY <1>1, <1>5 DEF AutoInv, TypeInv, Acc
  <2>3. inFlight' \in BOOLEAN
        BY <1>1
  <2>. QED BY <1>1, <1>5, <2>1, <2>2, <2>3 DEF AutoInv, TypeInv, Acc
<1>10. ListInv'
  <2>1. \A i \in Ids \ Listed : i \notin Running
        BY DEF Running
  <2>. QED BY <1>1, <1>2, <1>4, <2>1 DEF AutoInv, ListInv, SweepInv
<1>11. LaunchInv'
  <2>1. Launching' = IF need THEN Launching \cup {r} ELSE Launching
        BY <1>1, <1>6, <1>8 DEF Launching
  <2>2. inFlight' <=> Launching' # {}
        BY <1>1, <2>1 DEF AutoInv, LaunchInv
  <2>3. \A p, q \in Launching' : p = q
        BY <1>3, <2>1 DEF AutoInv, LaunchInv
  <2>4. ASSUME NEW q \in Reconcilers, pc'[q] \in {"start", "fail"}
        PROVE  order' # <<>> /\ proc'[Launched'] = "none" /\ life'[Launched'] # "terminating"
    <3>1. pc[q] \in {"start", "fail"}
          BY <1>6, <1>8, <2>4
    <3>2. order # <<>> /\ proc[Launched] = "none" /\ life[Launched] # "terminating"
          BY <3>1 DEF AutoInv, LaunchInv
    <3>3. Launched \in Ids
          BY <3>2 DEF Launched, Last, AutoInv, TypeInv
    <3>4. Launched \in Ids \ Running
          BY <3>2, <3>3 DEF Running
    <3>. QED BY <1>1, <1>2, <1>4, <3>2, <3>4 DEF SweepInv
  <2>. QED BY <2>2, <2>3, <2>4 DEF LaunchInv
<1>12. OwnInv'
  <2>1. down[r] = None
        BY <1>1 DEF AutoInv, OwnInv
  <2>2. S.down # None => S.down \in Listed /\ S.down \in Ids
        BY <1>2, RunningFinite DEF SweepInv, Running, AutoInv
  <2>3. ASSUME NEW q \in Reconcilers, down'[q] # None
        PROVE  down'[q] \in Listed /\ life'[down'[q]] = "terminating"
    <3>1. CASE q = r
          BY <1>1, <1>2, <1>7, <2>2, <2>3, <3>1 DEF SweepInv
    <3>2. CASE q # r
      <4>1. down'[q] = down[q] /\ down[q] \in Ids
            BY <1>7, <2>3, <3>2 DEF AutoInv, TypeInv
      <4>2. down[q] \in Listed /\ life[down[q]] = "terminating"
            BY <2>3, <4>1 DEF AutoInv, OwnInv
      <4>. QED BY <1>1, <1>2, <4>1, <4>2 DEF SweepInv
    <3>. QED BY <3>1, <3>2
  <2>4. ASSUME NEW q \in Reconcilers
        PROVE  /\ pc'[q] \in {"idle", "decide"} => down'[q] = None
               /\ pc'[q] \in {"despawn", "stop"} => down'[q] # None
        BY <1>6, <1>7, <1>8 DEF AutoInv, OwnInv
  <2>5. ASSUME NEW p \in Reconcilers, NEW q \in Reconcilers,
               down'[p] = down'[q], down'[p] # None
        PROVE  p = q
    <3>1. S.down # None => \A o \in Reconcilers : down[o] # S.down
          BY <1>2 DEF SweepInv, AutoInv, OwnInv
    <3>. QED BY <1>7, <2>5, <3>1 DEF AutoInv, OwnInv
  <2>6. ASSUME NEW i \in Ids, life'[i] = "terminating"
        PROVE  \E q \in Reconcilers : down'[q] = i
    <3>1. life[i] = "terminating" \/ i = S.down
          BY <1>1, <1>2, <2>6 DEF SweepInv
    <3>2. CASE i = S.down
          BY <1>7, <3>2
    <3>3. CASE life[i] = "terminating"
      <4>1. PICK q \in Reconcilers : down[q] = i
            BY <3>3 DEF AutoInv, OwnInv
      <4>2. q # r
            BY <2>1, <4>1, IdsAssumption DEF None
      <4>. QED BY <1>7, <4>1, <4>2
    <3>. QED BY <3>1, <3>2, <3>3
  <2>. QED BY <1>4, <2>3, <2>4, <2>5, <2>6 DEF OwnInv
<1>13. CapInv'
  <2>1. Cardinality(Running) \in Nat /\ Cardinality(Running) <= MaxInstances
        BY RunningFinite, SizeAssumption DEF AutoInv, CapInv
  <2>2. CASE need
        BY <1>3, <1>4, <2>1, <2>2, SizeAssumption DEF CapInv
  <2>3. CASE ~need
    <3>1. \A q \in Reconcilers : pc'[q] \in {"launch", "start"} => pc[q] \in {"launch", "start"}
          BY <1>6, <1>8, <2>3
    <3>. QED BY <1>4, <2>1, <3>1 DEF AutoInv, CapInv
  <2>. QED BY <1>3, <2>2, <2>3
<1>14. AliveInv'
      BY <1>1, <1>2, <1>4 DEF AutoInv, AliveInv, SweepInv
<1>. QED BY <1>9, <1>10, <1>11, <1>12, <1>13, <1>14 DEF AutoInv
\* One reconciler moves and the others stay.
LEMMA OneMoves ==
  ASSUME TypeInv, NEW r \in Reconcilers, NEW p \in Points, pc' = [pc EXCEPT ![r] = p]
  PROVE  /\ pc' \in [Reconcilers -> Points] /\ pc'[r] = p
         /\ \A q \in Reconcilers \ {r} : pc'[q] = pc[q]
BY DEF TypeInv

LEMMA RegisterStep == ASSUME AutoInv, NEW r \in Reconcilers, Register(r) PROVE AutoInv'
<1>1. PICK i \in Fresh : order' = Append(order, i)
      BY DEF Register
<1>2. /\ pc[r] = "launch" /\ pc' = [pc EXCEPT ![r] = "start"]
      /\ UNCHANGED <<proc, life, streak, inFlight, down, crashes>>
      BY DEF Register, game, scale
<1>3. pc' \in [Reconcilers -> Points] /\ pc'[r] = "start" /\ \A q \in Reconcilers \ {r} : pc'[q] = pc[q]
      BY <1>2, OneMoves DEF AutoInv, Points
<1>4. i \in Ids /\ i \notin Listed
      BY <1>1 DEF Fresh
<1>5. proc[i] = "none" /\ life[i] = "warming"
      BY <1>4 DEF AutoInv, ListInv
<1>6. order \in Seq(Ids)
      BY DEF AutoInv, TypeInv
<1>7. /\ order' \in Seq(Ids) /\ Len(order') = Len(order) + 1 /\ order'[Len(order) + 1] = i
      /\ \A k \in 1..Len(order) : order'[k] = order[k]
      /\ DOMAIN order' = 1..(Len(order) + 1) /\ DOMAIN order = 1..Len(order) /\ Len(order) \in Nat
      BY <1>1, <1>4, <1>6
<1>8. Listed' = Listed \cup {i}
      BY <1>7 DEF Listed, ToSet
<1>9. Running' = Running
      BY <1>2, <1>5, <1>8 DEF Running
<1>10. Launched' = i /\ order' # <<>>
      BY <1>7 DEF Launched, Last
<1>11. TypeInv'
      BY <1>2, <1>3, <1>7 DEF AutoInv, TypeInv
<1>12. ListInv'
  <2>1. \A k \in 1..Len(order) : order[k] # i
        BY <1>4, <1>7 DEF Listed, ToSet
  <2>2. \A j, k \in DOMAIN order' : order'[j] = order'[k] => j = k
    <3>1. \A j, k \in 1..Len(order) : order[j] = order[k] => j = k
          BY <1>7 DEF AutoInv, ListInv
    <3>2. \A j \in DOMAIN order' : j \in 1..Len(order) \/ j = Len(order) + 1
          BY <1>7
    <3>. QED BY <1>7, <2>1, <3>1, <3>2
  <2>3. IsFiniteSet(Listed \cup {i})
        BY FS_AddElement DEF AutoInv, ListInv
  <2>. QED BY <1>2, <1>8, <2>2, <2>3 DEF AutoInv, ListInv
<1>13. LaunchInv'
  <2>1. Launching' = Launching
        BY <1>2, <1>3 DEF Launching
  <2>. QED BY <1>2, <1>5, <1>10, <2>1 DEF AutoInv, LaunchInv
<1>14. OwnInv'
      BY <1>2, <1>3, <1>8 DEF AutoInv, OwnInv
<1>15. CapInv'
      BY <1>2, <1>3, <1>9 DEF AutoInv, CapInv
<1>16. AliveInv'
      BY <1>2, <1>9 DEF AutoInv, AliveInv
<1>. QED BY <1>11, <1>12, <1>13, <1>14, <1>15, <1>16 DEF AutoInv

\* The record that is being launched.
LEMMA LaunchedFacts ==
  ASSUME AutoInv, NEW r \in Reconcilers, pc[r] \in {"start", "fail"}
  PROVE  /\ Launched \in Listed /\ Launched \in Ids \ Running
         /\ life[Launched] # "terminating"
         /\ \A q \in Reconcilers : down[q] # Launched
<1>1. order # <<>> /\ proc[Launched] = "none" /\ life[Launched] # "terminating"
      BY DEF AutoInv, LaunchInv
<1>2. Launched \in Listed /\ Launched \in Ids
      BY <1>1 DEF Launched, Last, Listed, ToSet, AutoInv, TypeInv
<1>3. Launched \notin Running
      BY <1>1 DEF Running
<1>4. \A q \in Reconcilers : down[q] # Launched
      BY <1>1, <1>2, IdsAssumption DEF AutoInv, OwnInv, None
<1>. QED BY <1>1, <1>2, <1>3, <1>4

LEMMA StartStep == ASSUME AutoInv, NEW r \in Reconcilers, Start(r) PROVE AutoInv'
<1>1. pc[r] = "start" /\ UNCHANGED <<order, life, streak, inFlight, down, crashes>>
      BY DEF Start, game, scale
<1>2. Launched \in Listed /\ Launched \in Ids \ Running
      BY <1>1, LaunchedFacts
<1>3. Listed' = Listed /\ Launched' = Launched
      BY <1>1 DEF Listed, Launched
<1>4. PICK p \in {"finish", "fail"} : pc' = [pc EXCEPT ![r] = p] /\ (p = "fail" => proc' = proc)
         /\ (p = "finish" => proc' = [proc EXCEPT ![Launched] = "up"])
      BY DEF Start
<1>5. pc' \in [Reconcilers -> Points] /\ pc'[r] = p /\ \A q \in Reconcilers \ {r} : pc'[q] = pc[q]
      BY <1>4, OneMoves DEF AutoInv, Points
<1>6. \A q \in Reconcilers \ {r} : pc[q] \notin {"launch", "start", "finish", "fail"}
      BY <1>1 DEF AutoInv, LaunchInv, Launching
<1>7. Launching' = Launching
      BY <1>1, <1>4, <1>5 DEF Launching
<1>8. TypeInv' /\ ListInv'
      BY <1>1, <1>2, <1>3, <1>4, <1>5 DEF AutoInv, TypeInv, ListInv
<1>9. LaunchInv'
      BY <1>1, <1>3, <1>4, <1>5, <1>6, <1>7 DEF AutoInv, LaunchInv
<1>10. OwnInv'
      BY <1>1, <1>3, <1>4, <1>5 DEF AutoInv, OwnInv
<1>11. Running' = IF p = "finish" THEN Running \cup {Launched} ELSE Running
  <2>1. CASE p = "finish"
    <3>1. \A i \in Ids : proc'[i] = IF i = Launched THEN "up" ELSE proc[i]
          BY <1>2, <1>4, <2>1 DEF AutoInv, TypeInv
    <3>2. Listed \subseteq Ids
          BY DEF Listed, ToSet, AutoInv, TypeInv
    <3>. QED BY <1>2, <1>3, <2>1, <3>1, <3>2 DEF Running
  <2>2. CASE p = "fail"
        BY <1>3, <1>4, <2>2 DEF Running
  <2>. QED BY <2>1, <2>2
<1>12. CapInv'
  <2>1. Cardinality(Running) \in Nat /\ Cardinality(Running) < MaxInstances
        BY <1>1, RunningFinite, SizeAssumption DEF AutoInv, CapInv
  <2>2. Cardinality(Running') <= MaxInstances
    <3>1. Cardinality(Running \cup {Launched}) = Cardinality(Running) + 1
          BY <1>2, RunningFinite, FS_AddElement DEF AutoInv
    <3>. QED BY <1>11, <2>1, <3>1, SizeAssumption
  <2>3. \A q \in Reconcilers : pc'[q] \notin {"launch", "start"}
        BY <1>4, <1>5, <1>6
  <2>. QED BY <2>2, <2>3 DEF CapInv
<1>13. AliveInv'
      BY <1>1, <1>11 DEF AutoInv, AliveInv
<1>. QED BY <1>8, <1>9, <1>10, <1>12, <1>13 DEF AutoInv

LEMMA FinishStep == ASSUME AutoInv, NEW r \in Reconcilers, Finish(r) PROVE AutoInv'
<1>1. /\ pc[r] = "finish" /\ inFlight' = FALSE /\ pc' = [pc EXCEPT ![r] = Afterwards(r)]
      /\ UNCHANGED <<order, proc, life, streak, down, crashes>>
      BY DEF Finish, records, game
<1>2. Afterwards(r) = IF down[r] # None THEN "despawn" ELSE "idle"
      BY DEF Afterwards
<1>3. pc' \in [Reconcilers -> Points] /\ pc'[r] = Afterwards(r) /\ \A q \in Reconcilers \ {r} : pc'[q] = pc[q]
      BY <1>1, <1>2, OneMoves DEF AutoInv, Points
<1>4. \A q \in Reconcilers \ {r} : pc[q] \notin {"launch", "start", "finish", "fail"}
      BY <1>1 DEF AutoInv, LaunchInv, Launching
<1>5. Launching' = {}
      BY <1>2, <1>3, <1>4 DEF Launching
<1>6. Listed' = Listed /\ Running' = Running
      BY <1>1 DEF Listed, Running
<1>7. TypeInv' /\ ListInv' /\ AliveInv'
      BY <1>1, <1>3, <1>6 DEF AutoInv, TypeInv, ListInv, AliveInv
<1>8. LaunchInv'
      BY <1>1, <1>2, <1>3, <1>4, <1>5 DEF LaunchInv
<1>9. OwnInv'
      BY <1>1, <1>2, <1>3, <1>6 DEF AutoInv, OwnInv
<1>10. CapInv'
      BY <1>2, <1>3, <1>4, <1>6, RunningFinite, SizeAssumption DEF AutoInv, CapInv
<1>. QED BY <1>7, <1>8, <1>9, <1>10 DEF AutoInv

\* A record leaves the list.
LEMMA RemoveFacts ==
  ASSUME TypeInv, ListInv, NEW i \in Listed, RemoveRecord(i)
  PROVE  /\ order' \in Seq(Ids) /\ Listed' = Listed \ {i} /\ IsFiniteSet(Listed')
         /\ \A j, k \in DOMAIN order' : order'[j] = order'[k] => j = k
         /\ Launched # i => order' # <<>> /\ Launched' = Launched
         /\ life' = [life EXCEPT ![i] = "warming"] /\ streak' = [streak EXCEPT ![i] = 0]
<1>1. order \in Seq(Ids) /\ Distinct(order) /\ i \in ToSet(order)
      BY DEF TypeInv, ListInv, Distinct, Listed
<1>2. order' = RemoveFirst(order, i)
      BY DEF RemoveRecord
<1>3. /\ order' \in Seq(Ids) /\ Distinct(order') /\ ToSet(order') = ToSet(order) \ {i}
      /\ Last(order) # i => order' # <<>> /\ Last(order') = Last(order)
      BY <1>1, <1>2, RemoveFirstFacts
<1>4. IsFiniteSet(Listed \ {i})
      BY FS_Subset DEF ListInv
<1>. QED BY <1>3, <1>4 DEF Listed, Distinct, Launched, RemoveRecord

LEMMA StartFailedStep == ASSUME AutoInv, NEW r \in Reconcilers, StartFailed(r) PROVE AutoInv'
<1> DEFINE l == Launched
<1>1. /\ pc[r] = "fail" /\ inFlight' = FALSE /\ pc' = [pc EXCEPT ![r] = Afterwards(r)]
      /\ RemoveRecord(l) /\ UNCHANGED <<proc, down, crashes>>
      BY DEF StartFailed, game
<1>2. /\ l \in Listed /\ l \in Ids \ Running /\ \A q \in Reconcilers : down[q] # l
      BY <1>1, LaunchedFacts
<1> HIDE DEF l
<1>3. /\ order' \in Seq(Ids) /\ Listed' = Listed \ {l} /\ IsFiniteSet(Listed')
      /\ \A j, k \in DOMAIN order' : order'[j] = order'[k] => j = k
      /\ life' = [life EXCEPT ![l] = "warming"] /\ streak' = [streak EXCEPT ![l] = 0]
      BY <1>1, <1>2, RemoveFacts DEF AutoInv
<1>4. Afterwards(r) = IF down[r] # None THEN "despawn" ELSE "idle"
      BY DEF Afterwards
<1>5. pc' \in [Reconcilers -> Points] /\ pc'[r] = Afterwards(r) /\ \A q \in Reconcilers \ {r} : pc'[q] = pc[q]
      BY <1>1, <1>4, OneMoves DEF AutoInv, Points
<1>6. \A q \in Reconcilers \ {r} : pc[q] \notin {"launch", "start", "finish", "fail"}
      BY <1>1 DEF AutoInv, LaunchInv, Launching
<1>7. Launching' = {}
      BY <1>4, <1>5, <1>6 DEF Launching
<1>8. Running' = Running
      BY <1>1, <1>2, <1>3 DEF Running
<1>9. TypeInv'
      BY <1>1, <1>2, <1>3, <1>5 DEF AutoInv, TypeInv, Lives
<1>10. life'[l] = "warming" /\ \A i \in Ids \ {l} : life'[i] = life[i]
      BY <1>2, <1>3 DEF AutoInv, TypeInv
<1>11. proc[l] = "none"
      BY <1>1 DEF AutoInv, LaunchInv, l
<1>12. ListInv'
      BY <1>1, <1>3, <1>10, <1>11 DEF AutoInv, ListInv
<1>13. LaunchInv'
      BY <1>1, <1>4, <1>5, <1>6, <1>7 DEF LaunchInv
<1>14. OwnInv'
  <2>1. \A q \in Reconcilers : down[q] # None => down[q] \in Listed' /\ life'[down[q]] = "terminating"
        BY <1>2, <1>3, <1>10 DEF AutoInv, OwnInv, TypeInv
  <2>. QED BY <1>1, <1>4, <1>5, <1>10, <2>1 DEF AutoInv, OwnInv
<1>15. CapInv'
      BY <1>4, <1>5, <1>6, <1>8, RunningFinite, SizeAssumption DEF AutoInv, CapInv
<1>16. AliveInv'
      BY <1>1, <1>2, <1>8, <1>10, RunningFinite DEF AutoInv, AliveInv
<1>. QED BY <1>9, <1>12, <1>13, <1>14, <1>15, <1>16 DEF AutoInv
LEMMA DespawnStep == ASSUME AutoInv, NEW r \in Reconcilers, Despawn(r) PROVE AutoInv'
<1> DEFINE i == down[r]
<1>1. pc[r] = "despawn" /\ UNCHANGED <<order, proc, inFlight, crashes>>
      BY DEF Despawn, game, scale
<1>2. i \in Listed /\ i \in Ids /\ life[i] = "terminating" /\ i # None
  <2>1. i \in Listed /\ life[i] = "terminating" /\ i # None
        BY <1>1 DEF AutoInv, OwnInv
  <2>. QED BY <2>1 DEF Listed, ToSet, AutoInv, TypeInv
<1>3. Listed' = Listed /\ Running' = Running /\ Launched' = Launched
      BY <1>1 DEF Listed, Running, Launched
<1>4. CASE pc' = [pc EXCEPT ![r] = "stop"] /\ UNCHANGED <<life, streak, down>>
  <2>1. pc' \in [Reconcilers -> Points] /\ pc'[r] = "stop" /\ \A q \in Reconcilers \ {r} : pc'[q] = pc[q]
        BY <1>4, OneMoves DEF AutoInv, Points
  <2>2. Launching' = Launching
        BY <1>1, <2>1 DEF Launching
  <2>3. TypeInv' /\ ListInv' /\ AliveInv'
        BY <1>1, <1>3, <1>4, <2>1 DEF AutoInv, TypeInv, ListInv, AliveInv
  <2>4. LaunchInv'
        BY <1>1, <1>3, <1>4, <2>1, <2>2 DEF AutoInv, LaunchInv
  <2>5. OwnInv'
        BY <1>1, <1>3, <1>4, <2>1 DEF AutoInv, OwnInv
  <2>6. CapInv'
        BY <1>1, <1>3, <2>1 DEF AutoInv, CapInv
  <2>. QED BY <2>3, <2>4, <2>5, <2>6 DEF AutoInv
<1>5. ASSUME NEW next \in {"warming", "active"}, SetInstanceLife(i, next), Idle(r) PROVE AutoInv'
  <2>1. /\ life' = [life EXCEPT ![i] = next] /\ streak' = [streak EXCEPT ![i] = 0]
        /\ pc' = [pc EXCEPT ![r] = "idle"] /\ down' = [down EXCEPT ![r] = None]
        BY <1>2, <1>5 DEF SetInstanceLife, Idle
  <2>2. pc' \in [Reconcilers -> Points] /\ pc'[r] = "idle" /\ \A q \in Reconcilers \ {r} : pc'[q] = pc[q]
        BY <2>1, OneMoves DEF AutoInv, Points
  <2>3. /\ life'[i] = next /\ \A j \in Ids \ {i} : life'[j] = life[j]
        /\ down'[r] = None /\ \A q \in Reconcilers \ {r} : down'[q] = down[q]
        BY <1>2, <2>1 DEF AutoInv, TypeInv
  <2>4. TypeInv'
        BY <1>1, <1>2, <2>1, <2>2 DEF AutoInv, TypeInv, Lives
  <2>5. ListInv'
        BY <1>1, <1>2, <1>3, <2>3 DEF AutoInv, ListInv
  <2>6. Launching' = Launching
        BY <1>1, <2>2 DEF Launching
  <2> HIDE DEF i
  <2>7. LaunchInv'
    <3>1. ASSUME NEW q \in Reconcilers, pc'[q] \in {"start", "fail"}
          PROVE  order' # <<>> /\ proc'[Launched'] = "none" /\ life'[Launched'] # "terminating"
      <4>1. pc[q] \in {"start", "fail"}
            BY <2>2, <3>1
      <4>2. Launched \in Ids /\ life[Launched] # "terminating" /\ order # <<>> /\ proc[Launched] = "none"
            BY <4>1, LaunchedFacts DEF AutoInv, LaunchInv
      <4>. QED BY <1>1, <1>2, <1>3, <2>3, <4>2
    <3>. QED BY <1>1, <2>6, <3>1 DEF AutoInv, LaunchInv
  <2>8. OwnInv'
    <3>1. \A q \in Reconcilers \ {r} : down[q] # i
          BY <1>2 DEF AutoInv, OwnInv, i
    <3>2. ASSUME NEW q \in Reconcilers, down'[q] # None
          PROVE  down'[q] \in Listed /\ life'[down'[q]] = "terminating"
      <4>1. q # r /\ down'[q] = down[q] /\ down[q] \in Ids \ {i}
            BY <2>3, <3>1, <3>2 DEF AutoInv, TypeInv
      <4>. QED BY <2>3, <3>2, <4>1 DEF AutoInv, OwnInv
    <3>3. ASSUME NEW j \in Ids, life'[j] = "terminating"
          PROVE  \E q \in Reconcilers : down'[q] = j
      <4>1. j # i /\ life[j] = "terminating"
            BY <2>3, <3>3
      <4>2. PICK q \in Reconcilers : down[q] = j
            BY <4>1 DEF AutoInv, OwnInv
      <4>. QED BY <2>3, <4>1, <4>2 DEF i
    <3>. QED BY <1>3, <2>2, <2>3, <3>2, <3>3 DEF AutoInv, OwnInv
  <2>9. CapInv'
        BY <1>1, <1>3, <2>2 DEF AutoInv, CapInv
  <2>10. AliveInv'
    <3>1. ASSUME NEW j \in Running, life[j] # "terminating" PROVE life'[j] # "terminating"
          BY <1>2, <2>3, <3>1, RunningFinite DEF AutoInv
    <3>. QED BY <1>1, <1>3, <3>1 DEF AutoInv, AliveInv
  <2>. QED BY <2>4, <2>5, <2>7, <2>8, <2>9, <2>10 DEF AutoInv
<1>6. \/ \E next \in {"warming", "active"} : SetInstanceLife(i, next) /\ Idle(r)
      \/ pc' = [pc EXCEPT ![r] = "stop"] /\ UNCHANGED <<life, streak, down>>
      BY DEF Despawn
<1>. QED BY <1>4, <1>5, <1>6

LEMMA StopStep == ASSUME AutoInv, NEW r \in Reconcilers, Stop(r) PROVE AutoInv'
<1> DEFINE i == down[r]
<1>1. /\ pc[r] = "stop" /\ Idle(r) /\ UNCHANGED <<inFlight, crashes>>
      BY DEF Stop, scale
<1>2. i \in Listed /\ i \in Ids /\ life[i] = "terminating" /\ i # None
  <2>1. i \in Listed /\ life[i] = "terminating" /\ i # None
        BY <1>1 DEF AutoInv, OwnInv
  <2>. QED BY <2>1 DEF Listed, ToSet, AutoInv, TypeInv
<1>3. pc' \in [Reconcilers -> Points] /\ pc'[r] = "idle" /\ \A q \in Reconcilers \ {r} : pc'[q] = pc[q]
      BY <1>1, OneMoves DEF AutoInv, Points, Idle
<1>4. down'[r] = None /\ \A q \in Reconcilers \ {r} : down'[q] = down[q]
      BY <1>1 DEF Idle, AutoInv, TypeInv
<1>5. down' \in [Reconcilers -> Ids \cup {None}]
      BY <1>1 DEF Idle, AutoInv, TypeInv
<1>6. Launching' = Launching
      BY <1>1, <1>3 DEF Launching
<1>7. \A q \in Reconcilers \ {r} : down[q] # i
      BY <1>2 DEF AutoInv, OwnInv
<1>8. PICK next \in {"warming", "active"} :
        /\ life' = [life EXCEPT ![i] = next] /\ streak' = [streak EXCEPT ![i] = 0]
        /\ \/ next = "active" /\ UNCHANGED <<proc, order>>
           \/ next = "warming" /\ proc' = [proc EXCEPT ![i] = "none"] /\ RemoveRecord(i)
      BY <1>2 DEF Stop, SetInstanceLife, RemoveRecord
<1>9. life'[i] = next /\ \A j \in Ids \ {i} : life'[j] = life[j]
      BY <1>2, <1>8 DEF AutoInv, TypeInv
<1> HIDE DEF i
<1>10. \A q \in Reconcilers : pc'[q] \in {"start", "fail"} =>
          Launched \in Ids \ {i} /\ order # <<>> /\ proc[Launched] = "none" /\ life[Launched] # "terminating"
  <2> TAKE q \in Reconcilers
  <2> HAVE pc'[q] \in {"start", "fail"}
  <2>1. pc[q] \in {"start", "fail"}
        BY <1>3
  <2>. QED BY <1>2, <2>1, LaunchedFacts DEF AutoInv, LaunchInv
<1>11. \A j \in Ids : life'[j] = "terminating" => \E q \in Reconcilers : down'[q] = j
  <2> TAKE j \in Ids
  <2> HAVE life'[j] = "terminating"
  <2>1. j # i /\ life[j] = "terminating"
        BY <1>9
  <2>2. PICK q \in Reconcilers : down[q] = j
        BY <2>1 DEF AutoInv, OwnInv
  <2>. QED BY <1>4, <2>1, <2>2 DEF i
<1>12. \A q \in Reconcilers : down'[q] # None => down'[q] \in Listed \ {i} /\ life'[down'[q]] = "terminating"
  <2> TAKE q \in Reconcilers
  <2> HAVE down'[q] # None
  <2>1. q # r /\ down'[q] = down[q] /\ down[q] \in Ids \ {i}
        BY <1>4, <1>7 DEF AutoInv, TypeInv
  <2>. QED BY <1>9, <2>1 DEF AutoInv, OwnInv
<1>13. \A j \in Running : life[j] # "terminating" => j # i /\ life'[j] # "terminating"
      BY <1>2, <1>9, RunningFinite DEF AutoInv
<1>14. CASE next = "active" /\ UNCHANGED <<proc, order>>
  <2>1. Listed' = Listed /\ Running' = Running /\ Launched' = Launched
        BY <1>14 DEF Listed, Running, Launched
  <2>2. TypeInv'
        BY <1>1, <1>2, <1>3, <1>5, <1>8, <1>14 DEF AutoInv, TypeInv, Lives
  <2>3. ListInv'
        BY <1>2, <1>9, <1>14, <2>1 DEF AutoInv, ListInv
  <2>4. LaunchInv'
        BY <1>1, <1>6, <1>9, <1>10, <1>14, <2>1 DEF AutoInv, LaunchInv
  <2>5. OwnInv'
        BY <1>3, <1>4, <1>11, <1>12, <2>1 DEF AutoInv, OwnInv
  <2>6. CapInv'
        BY <1>1, <1>3, <2>1 DEF AutoInv, CapInv
  <2>7. AliveInv'
        BY <1>1, <1>13, <2>1 DEF AutoInv, AliveInv
  <2>. QED BY <2>2, <2>3, <2>4, <2>5, <2>6, <2>7 DEF AutoInv
<1>15. CASE next = "warming" /\ proc' = [proc EXCEPT ![i] = "none"] /\ RemoveRecord(i)
  <2>1. /\ order' \in Seq(Ids) /\ Listed' = Listed \ {i} /\ IsFiniteSet(Listed')
        /\ \A j, k \in DOMAIN order' : order'[j] = order'[k] => j = k
        /\ Launched # i => order' # <<>> /\ Launched' = Launched
        BY <1>2, <1>15, RemoveFacts DEF AutoInv
  <2>2. proc'[i] = "none" /\ \A j \in Ids \ {i} : proc'[j] = proc[j]
        BY <1>2, <1>15 DEF AutoInv, TypeInv
  <2>3. TypeInv'
        BY <1>1, <1>2, <1>3, <1>5, <1>8, <1>15, <2>1 DEF AutoInv, TypeInv, Lives
  <2>4. ListInv'
        BY <1>2, <1>9, <1>15, <2>1, <2>2 DEF AutoInv, ListInv
  <2>5. LaunchInv'
        BY <1>1, <1>6, <1>9, <1>10, <2>1, <2>2 DEF AutoInv, LaunchInv
  <2>6. OwnInv'
        BY <1>3, <1>4, <1>11, <1>12, <2>1 DEF AutoInv, OwnInv
  <2>7. Running' = Running \ {i}
    <3>1. Listed \subseteq Ids
          BY DEF Listed, ToSet, AutoInv, TypeInv
    <3>. QED BY <2>1, <2>2, <3>1 DEF Running
  <2>8. CapInv'
    <3>1. /\ Cardinality(Running') <= Cardinality(Running)
          /\ Cardinality(Running') \in Nat /\ Cardinality(Running) \in Nat
          BY <2>7, RunningFinite, FS_Subset, FS_CardinalityType DEF AutoInv
    <3>2. \A q \in Reconcilers : pc'[q] \in {"launch", "start"} <=> pc[q] \in {"launch", "start"}
          BY <1>1, <1>3
    <3>. QED BY <3>1, <3>2, SizeAssumption DEF AutoInv, CapInv
  <2>9. AliveInv'
        BY <1>1, <1>13, <2>7 DEF AutoInv, AliveInv
  <2>. QED BY <2>3, <2>4, <2>5, <2>6, <2>8, <2>9 DEF AutoInv
<1>. QED BY <1>8, <1>14, <1>15

LEMMA AutoInit == Init => AutoInv
<1> SUFFICES ASSUME Init PROVE AutoInv
    OBVIOUS
<1>1. First \in Ids
  <2>1. \E i \in Ids : \A j \in Ids : i <= j
        BY IdsAssumption, Least
  <2>. QED BY <2>1 DEF First
<1>2. order \in Seq(Ids) /\ DOMAIN order = {1} /\ order[1] = First
      BY <1>1 DEF Init
<1>3. Listed = {First}
      BY <1>2 DEF Listed, ToSet
<1>4. Running = {First}
      BY <1>1, <1>3 DEF Running, Init
<1>5. IsFiniteSet({First}) /\ Cardinality({First}) = 1
      BY FS_Singleton
<1>6. TypeInv
      BY <1>2 DEF Init, TypeInv, Lives, Points
<1>7. ListInv
      BY <1>2, <1>3, <1>5 DEF Init, ListInv
<1>8. LaunchInv /\ OwnInv
      BY DEF Init, LaunchInv, Launching, OwnInv
<1>9. CapInv /\ AliveInv
      BY <1>1, <1>4, <1>5, SizeAssumption DEF Init, CapInv, AliveInv
<1>. QED BY <1>6, <1>7, <1>8, <1>9 DEF AutoInv

LEMMA AutoNext == AutoInv /\ [Next]_vars => AutoInv'
<1> SUFFICES ASSUME AutoInv, [Next]_vars PROVE AutoInv'
    OBVIOUS
<1>1. CASE \/ UNCHANGED vars \/ CooldownEnds
           \/ \E i \in Ids : Join(i) \/ Leave(i) \/ Reply(i)
  <2>1. UNCHANGED <<order, proc, life, streak, inFlight, down, crashes, pc>>
        BY <1>1 DEF vars, CooldownEnds, Join, Leave, Reply, records, game, scale, work
  <2>. QED BY <2>1, QuietStep DEF AutoInv, TypeInv
<1>2. CASE Tick \/ \E i \in Ids : UpdateGameState(i)
  <2>1. UNCHANGED <<order, proc, life, streak, inFlight, down, crashes>>
        BY <1>2 DEF Tick, UpdateGameState, records, game, scale
  <2>2. \/ pc' = pc
        \/ \E r \in Reconcilers : pc[r] = "idle" /\ pc' = [pc EXCEPT ![r] = "decide"]
        BY <1>2 DEF Tick, UpdateGameState, Reconcilers
  <2>3. pc' \in [Reconcilers -> Points]
        /\ \A r \in Reconcilers : pc'[r] = pc[r] \/ (pc[r] = "idle" /\ pc'[r] = "decide")
        BY <2>2 DEF AutoInv, TypeInv, Points
  <2>. QED BY <2>1, <2>3, QuietStep
<1>3. ASSUME NEW i \in Ids, Crash(i) PROVE AutoInv'
      BY <1>3, CrashStep
<1>4. ASSUME NEW r \in Reconcilers, Step(r) PROVE AutoInv'
      BY <1>4, DecideStep, RegisterStep, StartStep, FinishStep, StartFailedStep,
         DespawnStep, StopStep DEF Step, Launch
<1>. QED BY <1>1, <1>2, <1>3, <1>4 DEF Next

-----------------------------------------------------------------------------
(* The theorems *)

\* The cap on instances holds in every interleaving of the two reconcilers,
\* although the count is read long before the replica is up.
THEOREM CapHolds == Spec => []CapRespected
<1>1. AutoInv => CapRespected
      BY RunningFinite, SizeAssumption DEF AutoInv, CapInv, CapRespected
<1>. QED BY <1>1, AutoInit, AutoNext, PTL DEF Spec

\* The in-flight mark and the terminating marks have owners on every path: no
\* launch, despawn, failure or crash leaves one behind.
THEOREM MarksHaveOwners == Spec => []MarksOwned
<1>1. AutoInv => MarksOwned
  <2> SUFFICES ASSUME AutoInv PROVE MarksOwned
      OBVIOUS
  <2>1. Cardinality(Launching) = IF inFlight THEN 1 ELSE 0
    <3>1. CASE inFlight
      <4>1. PICK r \in Launching : TRUE
            BY <3>1 DEF AutoInv, LaunchInv
      <4>2. Launching = {r}
            BY <4>1 DEF AutoInv, LaunchInv
      <4>. QED BY <3>1, <4>2, FS_Singleton
    <3>2. CASE ~inFlight
      <4>1. Launching = {}
            BY <3>2 DEF AutoInv, LaunchInv
      <4>. QED BY <3>2, <4>1, FS_EmptySet
    <3>. QED BY <3>1, <3>2
  <2>2. ASSUME NEW i \in Running, life[i] = "terminating"
        PROVE  \E r \in Reconcilers : down[r] = i /\ pc[r] # "idle"
    <3>1. i \in Ids /\ i # None
          BY RunningFinite, IdsAssumption DEF AutoInv, None
    <3>2. PICK r \in Reconcilers : down[r] = i
          BY <2>2, <3>1 DEF AutoInv, OwnInv
    <3>. QED BY <3>1, <3>2 DEF AutoInv, OwnInv
  <2>. QED BY <2>1, <2>2 DEF MarksOwned, Launching
<1>. QED BY <1>1, AutoInit, AutoNext, PTL DEF Spec

\* As long as nothing crashes, autoscaling never stops the last running
\* instance, although the check and the stop are two steps and another
\* reconciler despawns in between.
THEOREM LastIsKept == Spec => []LastNeverDespawned
<1>1. AutoInv => LastNeverDespawned
  <2> SUFFICES ASSUME AutoInv, NEW r \in Reconcilers, pc[r] = "stop", crashes = 0
               PROVE  Running \ {down[r]} # {}
      BY DEF LastNeverDespawned
  <2>1. PICK j \in Running : life[j] # "terminating"
        BY DEF AutoInv, AliveInv
  <2>2. life[down[r]] = "terminating"
        BY DEF AutoInv, OwnInv
  <2>. QED BY <2>1, <2>2
<1>. QED BY <1>1, AutoInit, AutoNext, PTL DEF Spec
=============================================================================
