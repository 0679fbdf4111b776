------------------------------- MODULE OrchProof -------------------------------
(***************************************************************************)
(* Proofs about the server manager, for any number of admin requests at a  *)
(* time, of servers, records, processes and operations.                    *)
(*                                                                         *)
(* What the registry promises whatever interleaves (RegInv) is separate    *)
(* from what operations promise that do not overlap (AloneInv): of a       *)
(* thread that is alone, what it has read is still true.                   *)
(***************************************************************************)
EXTENDS Orch, TLAPS, FiniteSetTheorems, SequenceTheorems, WellFoundedInduction

AdminOps == {"none", "launch", "start", "stop", "restart", "remove", "replica", "despawn"}
MainOps  == {"none", "boot", "bootfail", "stopall"}

Working == {"find", "capture", "remove", "line", "append", "despawn", "register",
            "start", "spawn", "commit", "stop", "await", "forget"}
Points  == Working \cup {"idle", "boot", "serve", "shutdown", "close", "closed"}

Pairs == Recs \X (Procs \cup {None})

Jobs == [op : AdminOps \cup MainOps, target : Nat, last : Nat, line : Lines,
         obj : Objs \cup {None}, rec : Recs \cup {None}, srv : Procs \cup {None},
         todo : SUBSET (Recs \cup Pairs), failed : BOOLEAN]

RegTypes ==
  /\ table \in [Lines -> Objs \cup {None}]
  /\ insts \in [Objs -> Seq(Recs)]
  /\ owner \in [Recs -> Objs \cup {None}]
  /\ known \subseteq Recs
  /\ objs \in 0..MaxObjs
  /\ recs \in 0..MaxRecs

OsTypes ==
  /\ running \in [Recs -> Procs \cup {None}]
  /\ port \in [Recs -> Ports \cup {None}]
  /\ byPort \in [Ports -> SUBSET Recs]
  /\ alive \subseteq Procs
  /\ done \subseteq Procs
  /\ proc \in [Procs -> [port : Ports \cup {None}, rec : Recs \cup {None}, told : BOOLEAN]]

ThreadTypes ==
  /\ pc \in [Threads -> Points]
  /\ job \in [Threads -> Jobs]

\* What is known of a thread from where it is, with n records and m servers
\* created so far.
Fits(t, at, j, n, m) ==
  /\ at = "register" => j.line <= m + ConfigLines
  /\ at \in {"start", "spawn", "commit"} => j.todo \subseteq 1..n
  /\ at \in {"spawn", "commit"} => j.rec \in 1..n
  /\ at = "commit" => j.srv \in Procs
  /\ at \in {"despawn", "stop", "await", "forget"} => j.todo \subseteq Pairs
  /\ t # Main => at \in Working \cup {"idle"} /\ j.op \in AdminOps
  /\ t = Main =>
       \/ at \in {"boot", "serve", "shutdown", "closed"}
       \/ /\ at \in {"register", "start", "spawn", "commit"}
          /\ j.op = "boot" /\ j.line < ConfigLines
       \/ at \in {"capture", "stop", "await", "close"} /\ j.op \in {"stopall", "bootfail"}

JobOK(t) == Fits(t, pc[t], job[t], recs, objs)

TypeInv == RegTypes /\ OsTypes /\ ThreadTypes /\ \A t \in Threads : JobOK(t)

\* Only started processes run, are waited for or are recorded.
ProcInv ==
  /\ alive \cap done = {}
  /\ \A p \in Procs : proc[p] = NoProc \/ (proc[p].port \in Ports /\ proc[p].rec \in Recs)
  /\ \A p \in alive \cup done : proc[p] # NoProc
  /\ \A r \in Recs : running[r] # None => r <= recs /\ proc[running[r]] # NoProc

\* Ids are allotted in order and used once, lines one above another.
FreshInv ==
  /\ known \subseteq 1..recs
  /\ \A o \in Objs :
       /\ IsInjective(insts[o]) /\ \A r \in ToSet(insts[o]) : r <= recs
       /\ o > objs => insts[o] = <<>>
  /\ \A l \in Used : table[l] <= objs /\ l < objs + ConfigLines

\* A process about to be recorded has been started.
CommitInv == \A t \in Threads : pc[t] = "commit" => proc[job[t].srv] # NoProc

RegInv == ProcInv /\ FreshInv /\ IndexesAgree

Waiting == {"idle", "serve", "shutdown", "closed"}

\* A thread alone, at each of its points.
LocalAt(t, at, j) ==
  /\ at = "register" => table[j.line] = None
  /\ at \in {"boot", "register"} /\ t = Main => \A u \in Used : u < j.line
  /\ at \in {"start", "spawn", "commit"} =>
       /\ t = Main => \A u \in Used : u <= j.line
       /\ j.todo \subseteq known
       /\ j.op = "replica" => \A r \in j.todo : running[r] = None
  /\ at \in {"spawn", "commit"} =>
       j.rec \in known \ j.todo /\ running[j.rec] \notin alive
  /\ at \in {"stop", "await", "forget"} =>
       \A e \in j.todo : running[e[1]] \in alive => running[e[1]] = e[2]
  /\ at = "await" /\ running[j.rec] \in alive => running[j.rec] = j.srv
  /\ at = "forget" => running[j.rec] \notin alive
  /\ j.op = "restart" /\ at \in {"stop", "await", "forget", "find"} =>
       Found(j.target) /\ j.obj = table[At(j.target)]
  /\ at = "find" => j.op # "replica"
  /\ at = "despawn" => j.op = "despawn" /\ j.todo = {}
  /\ j.op \in {"stopall", "bootfail"} /\ ~j.failed =>
       /\ at = "stop" => alive \subseteq {e[2] : e \in j.todo}
       /\ at = "await" => alive \subseteq {j.srv} \cup {e[2] : e \in j.todo}
       /\ at \in {"close", "closed"} => alive = {}

Local(t) == LocalAt(t, pc[t], job[t])

\* Once main has closed nothing else is under way.
ClosedInv ==
  pc[Main] = "closed" =>
    StopsAll(Main) /\ \A u \in Threads \ {Main} : pc[u] = "idle"

Sole   == \A t, u \in Busy : t = u
Kept   == \A p \in alive : p \in Starting \/ \E r \in known : running[r] = p
Placed == \A r \in known : owner[r] # None => \E l \in Used : table[l] = owner[r]

Alone == Sole /\ Kept /\ Placed /\ ClosedInv /\ \A t \in Threads : Local(t)

AloneInv == ~overlapped => Alone

SafeInv == TypeInv /\ RegInv /\ CommitInv
-----------------------------------------------------------------------------
(* Numbers and lists *)

\* A set of naturals has a least element.
LEMMA Least ==
  ASSUME NEW T, T \subseteq Nat, T # {}
  PROVE  \E x \in T : \A y \in T : x <= y
<1> DEFINE R == {ss \in Nat \X Nat : ss[1] < ss[2]}
<1>1. IsWellFoundedOn(R, Nat)
  <2>1. OpToRel(<, Nat) = R
        BY Zenon DEF OpToRel
  <2>. QED BY <2>1, NatLessThanWellFounded, Zenon
<1>2. \A x, y \in Nat : y < x => <<y, x>> \in R
  <2> TAKE x, y \in Nat
  <2> HAVE y < x
  <2>1. <<y, x>> \in Nat \X Nat /\ <<y, x>>[1] < <<y, x>>[2]
        OBVIOUS
  <2>. QED BY <2>1, Zenon
<1> HIDE DEF R
<1>3. \E x \in T : \A y \in T : ~(<<y, x>> \in R)
      BY <1>1, WFMin
<1>4. \E x \in T : \A y \in T : ~(y < x)
      BY <1>2, <1>3, Zenon
<1>. QED BY <1>4

LEMMA AppendFacts ==
  ASSUME NEW R, NEW s \in Seq(R), NEW x \in R
  PROVE  /\ Append(s, x) \in Seq(R)
         /\ ToSet(Append(s, x)) = ToSet(s) \cup {x}
         /\ IsInjective(s) /\ x \notin ToSet(s) => IsInjective(Append(s, x))
<1>1. /\ Append(s, x) \in Seq(R)
      /\ Len(s) \in Nat /\ Len(Append(s, x)) = Len(s) + 1
      /\ \A i \in 1..Len(s) : Append(s, x)[i] = s[i]
      /\ Append(s, x)[Len(s) + 1] = x
      OBVIOUS
<1>2. DOMAIN s = 1..Len(s) /\ DOMAIN Append(s, x) = 1..(Len(s) + 1)
      OBVIOUS
<1>3. ToSet(Append(s, x)) = ToSet(s) \cup {x}
      BY <1>1, <1>2 DEF ToSet
<1>4. ASSUME IsInjective(s), x \notin ToSet(s) PROVE IsInjective(Append(s, x))
      BY <1>1, <1>2, <1>4 DEF ToSet, IsInjective
<1>. QED BY <1>1, <1>3, <1>4

\* The loop of Without, up to its mth turn.
Course(f, m, seq, S) ==
  f = [n \in 0..m |->
         IF n = 0 THEN <<>>
         ELSE IF seq[n] \in S THEN f[n - 1] ELSE Append(f[n - 1], seq[n])]

LEMMA CourseExists ==
  ASSUME NEW seq, NEW S, NEW k \in Nat
  PROVE  \E f : Course(f, k, seq, S)
<1> DEFINE T == {m \in Nat : ~\E f : Course(f, m, seq, S)}
<1>1. SUFFICES ASSUME T # {} PROVE FALSE
      OBVIOUS
<1>2. PICK m \in T : \A y \in T : m <= y
      BY <1>1, Least
<1>3. m # 0
  <2>1. Course([n \in 0..0 |-> <<>>], 0, seq, S)
        BY DEF Course
  <2>. QED BY <2>1
<1>4. m - 1 \in Nat /\ m - 1 \notin T
      BY <1>2, <1>3
<1>5. PICK g : Course(g, m - 1, seq, S)
      BY <1>4
<1> DEFINE turn(f, n) == IF seq[n] \in S THEN f[n - 1] ELSE Append(f[n - 1], seq[n])
           h == [n \in 0..m |-> IF n = m THEN turn(g, m) ELSE g[n]]
<1>6. ASSUME NEW n \in 0..m PROVE h[n] = IF n = 0 THEN <<>> ELSE turn(h, n)
  <2>1. CASE n = m
    <3>1. h[n] = turn(g, m) /\ h[n - 1] = g[m - 1]
          BY <1>3, <2>1
    <3>. QED BY <1>3, <2>1, <3>1
  <2>2. CASE n # m /\ n # 0
    <3>1. n \in 0..(m - 1) /\ n - 1 \in 0..m /\ n - 1 # m
          BY <2>2
    <3>2. h[n] = g[n] /\ h[n - 1] = g[n - 1]
          BY <2>2, <3>1
    <3>3. g[n] = turn(g, n)
          BY <1>5, <2>2, <3>1 DEF Course
    <3>. QED BY <2>2, <3>2, <3>3
  <2>3. CASE n # m /\ n = 0
    <3>1. h[n] = g[n] /\ n \in 0..(m - 1)
          BY <2>3
    <3>. QED BY <1>5, <2>3, <3>1 DEF Course
  <2>. QED BY <2>1, <2>2, <2>3
<1>7. Course(h, m, seq, S)
  <2>1. h = [n \in 0..m |-> h[n]]
        OBVIOUS
  <2> HIDE DEF h
  <2>. QED BY <1>6, <2>1 DEF Course
<1>. QED BY <1>7

\* What is left of a list without the members of S.
LEMMA WithoutFacts ==
  ASSUME NEW R, NEW seq \in Seq(R), NEW S, IsInjective(seq)
  PROVE  /\ Without(seq, S) \in Seq(R)
         /\ IsInjective(Without(seq, S))
         /\ ToSet(Without(seq, S)) = ToSet(seq) \ S
<1> DEFINE K == Len(seq)
<1>1. K \in Nat /\ DOMAIN seq = 1..K /\ \A i \in 1..K : seq[i] \in R
      OBVIOUS
<1>2. PICK f : Course(f, K, seq, S) /\ Without(seq, S) = f[K]
  <2>1. \E f : Course(f, K, seq, S)
        BY <1>1, CourseExists
  <2>2. Course(CHOOSE f : Course(f, K, seq, S), K, seq, S)
        BY <2>1
  <2>3. Without(seq, S) = (CHOOSE f : Course(f, K, seq, S))[K]
        BY Zenon DEF Without, Course
  <2>. QED BY <2>2, <2>3
<1> HIDE DEF K
<1>3. /\ f[0] = <<>>
      /\ \A n \in 1..K : f[n] = IF seq[n] \in S THEN f[n - 1] ELSE Append(f[n - 1], seq[n])
  <2> DEFINE e(n) == IF n = 0 THEN <<>>
                     ELSE IF seq[n] \in S THEN f[n - 1] ELSE Append(f[n - 1], seq[n])
  <2>1. f = [n \in 0..K |-> e(n)]
        BY <1>2 DEF Course
  <2> HIDE DEF e
  <2>2. \A n \in 0..K : f[n] = e(n)
        BY <2>1
  <2>3. 0 \in 0..K /\ \A n \in 1..K : n \in 0..K /\ n # 0
        BY <1>1
  <2>. QED BY <2>2, <2>3 DEF e
<1> DEFINE P(n) == /\ f[n] \in Seq(R) /\ IsInjective(f[n])
                   /\ ToSet(f[n]) = {seq[i] : i \in 1..n} \ S
           T == {n \in 0..K : ~P(n)}
<1>4. P(0)
      BY <1>3 DEF IsInjective, ToSet
<1>5. ASSUME NEW n \in 1..K, P(n - 1) PROVE P(n)
  <2>1. {seq[i] : i \in 1..n} = {seq[i] : i \in 1..(n - 1)} \cup {seq[n]}
        BY <1>1
  <2>2. seq[n] \notin {seq[i] : i \in 1..(n - 1)}
        BY <1>1 DEF IsInjective
  <2>3. CASE seq[n] \in S
        BY <1>3, <1>5, <2>1, <2>3
  <2>4. CASE seq[n] \notin S
    <3>1. f[n] = Append(f[n - 1], seq[n]) /\ seq[n] \in R
          BY <1>1, <1>3, <2>4
    <3>2. seq[n] \notin ToSet(f[n - 1])
          BY <1>5, <2>2
    <3>3. f[n] \in Seq(R) /\ IsInjective(f[n]) /\ ToSet(f[n]) = ToSet(f[n - 1]) \cup {seq[n]}
          BY <1>5, <3>1, <3>2, AppendFacts
    <3>. QED BY <1>5, <2>1, <2>4, <3>3
  <2>. QED BY <2>3, <2>4
<1> HIDE DEF P
<1>6. T = {}
  <2>1. SUFFICES ASSUME T # {} PROVE FALSE
        OBVIOUS
  <2>2. T \subseteq Nat
        BY <1>1
  <2>3. PICK m \in T : \A y \in T : m <= y
        BY <2>1, <2>2, Least
  <2>4. m \in 1..K /\ m - 1 \in 0..K /\ m - 1 \notin T
        BY <1>1, <1>4, <2>3
  <2>. QED BY <1>5, <2>3, <2>4
<1>7. P(K)
      BY <1>1, <1>6
<1>. QED BY <1>1, <1>2, <1>7 DEF P, ToSet
-----------------------------------------------------------------------------
(* The registry *)

USE OrchAssumption

LEMMA Numbers ==
  /\ ConfigLines \in Nat /\ MaxObjs \in Nat /\ MaxRecs \in Nat /\ MaxProcs \in Nat
  /\ None \notin Objs /\ None \notin Recs /\ None \notin Procs /\ None \notin Ports
  /\ \A l \in Lines : l \in Nat
  /\ 0 \in Lines
BY DEF None, Objs, Recs, Procs, Lines

LEMMA UsedFinite == IsFiniteSet(Used) /\ Cardinality(Used) \in Nat
<1>1. IsFiniteSet(Lines)
      BY Numbers, FS_Interval DEF Lines
<1>2. Used \subseteq Lines
      BY DEF Used
<1>. QED BY <1>1, <1>2, FS_Subset, FS_CardinalityType

\* findServerByIndexLocked: an index within bounds finds a registered server.
LEMMA AtIsUsed ==
  ASSUME NEW target \in Nat, Found(target)
  PROVE  At(target) \in Used
<1> DEFINE below(l) == {k \in Used : k <= l}
           T == {l \in Lines : Cardinality(below(l)) >= target}
           top == MaxObjs + ConfigLines
<1>1. \A l : IsFiniteSet(below(l)) /\ Cardinality(below(l)) \in Nat
      BY UsedFinite, FS_Subset, FS_CardinalityType
<1>2. top \in T
  <2>1. top \in Lines /\ \A l \in Lines : l <= top
        BY Numbers DEF Lines
  <2>2. below(top) = Used
        BY <2>1 DEF Used
  <2>3. Cardinality(Used) >= target
        BY UsedFinite DEF Found
  <2>. QED BY <2>1, <2>2, <2>3
<1>3. PICK l \in T : \A k \in T : l <= k
  <2>1. T \subseteq Nat
        BY Numbers
  <2>. QED BY <1>2, <2>1, Least
<1>4. target >= 1
      BY UsedFinite DEF Found
<1>5. l \in Used /\ Cardinality(below(l)) = target
  <2> HIDE DEF below
  <2>1. l \in Nat /\ Cardinality(below(l)) >= target
        BY Numbers, <1>3
  <2>2. PICK b : /\ IsFiniteSet(b) /\ Cardinality(b) \in Nat /\ Cardinality(b) < target
                 /\ below(l) = IF l \in Used THEN b \cup {l} ELSE b
    <3>1. CASE l = 0
      <4>1. \A k \in Used : k \in Nat
            BY Numbers DEF Used
      <4>2. below(l) = IF l \in Used THEN {} \cup {l} ELSE {}
            BY <3>1, <4>1 DEF below
      <4>3. IsFiniteSet({}) /\ Cardinality({}) = 0
            BY FS_EmptySet
      <4>. QED BY <1>4, <4>2, <4>3
    <3>2. CASE l # 0
      <4>1. l - 1 \in Lines /\ l - 1 \notin T
            BY Numbers, <1>3, <2>1, <3>2 DEF Lines
      <4>2. Cardinality(below(l - 1)) < target
            BY <1>1, <4>1
      <4>3. \A k \in Used : k \in Nat
            BY Numbers DEF Used
      <4>4. below(l) = IF l \in Used THEN below(l - 1) \cup {l} ELSE below(l - 1)
            BY <2>1, <4>3 DEF below
      <4>. QED BY <1>1, <4>2, <4>4
    <3>. QED BY <3>1, <3>2
  <2>3. l \in Used
        BY <2>1, <2>2
  <2>4. Cardinality(below(l)) <= Cardinality(b) + 1
    <3>1. Cardinality(b \cup {l}) \in {Cardinality(b), Cardinality(b) + 1}
          BY <2>2, FS_AddElement
    <3>. QED BY <2>2, <2>3, <3>1
  <2>5. Cardinality(below(l)) \in Nat
        BY <1>1
  <2>. QED BY <2>1, <2>2, <2>3, <2>4, <2>5
<1>. QED BY <1>5 DEF At

\* LaunchServer: there is a line above the last one in use.
LEMMA LineAbove ==
  ASSUME RegTypes, FreshInv
  PROVE  \E l \in Lines : /\ \A u \in Used : u < l
                          /\ l = 0 \/ l - 1 \in Used
                          /\ l <= objs + ConfigLines
<1> DEFINE T == {l \in Nat : \A u \in Used : u < l}
<1>1. objs + ConfigLines \in T /\ objs + ConfigLines \in Lines
      BY Numbers DEF RegTypes, FreshInv, Lines
<1>2. PICK l \in T : \A k \in T : l <= k
  <2>1. T \subseteq Nat
        OBVIOUS
  <2>. QED BY <1>1, <2>1, Least
<1>3. l \in Lines /\ l <= objs + ConfigLines
      BY Numbers, <1>1, <1>2 DEF Lines, RegTypes
<1>4. ASSUME l # 0, l - 1 \notin Used PROVE FALSE
  <2>1. \A u \in Used : u \in Nat /\ u < l /\ u # l - 1
        BY Numbers, <1>2, <1>4 DEF Used
  <2>2. l - 1 \in T
        BY <1>2, <1>4, <2>1
  <2>. QED BY <1>2, <2>2
<1>. QED BY <1>2, <1>3, <1>4

\* PickLine picks that line.
LEMMA PickedLine ==
  ASSUME RegTypes, FreshInv
  PROVE  LET l == CHOOSE l \in Lines : /\ \A u \in Used : u < l
                                       /\ l = 0 \/ l - 1 \in Used
         IN l \in Lines /\ (\A u \in Used : u < l) /\ l <= objs + ConfigLines
<1> DEFINE l == CHOOSE l \in Lines : /\ \A u \in Used : u < l
                                     /\ l = 0 \/ l - 1 \in Used
<1>1. l \in Lines /\ (\A u \in Used : u < l) /\ (l = 0 \/ l - 1 \in Used)
      BY LineAbove
<1> HIDE DEF l
<1>2. l <= objs + ConfigLines
  <2>1. CASE l = 0
        BY <2>1, Numbers DEF RegTypes
  <2>2. CASE l - 1 \in Used
        BY <1>1, <2>2, Numbers DEF RegTypes, FreshInv
  <2>. QED BY <1>1, <2>1, <2>2
<1>. QED BY <1>1, <1>2 DEF l

\* removeServerRecordLocked keeps the registry in order, also while servers go
\* from the table.
LEMMA RemoveFacts ==
  ASSUME RegTypes, OsTypes, FreshInv, IndexesAgree, NEW S,
         NEW tbl \in [Lines -> Objs \cup {None}], \A l \in Lines : tbl[l] \in {table[l], None},
         RemoveRecords(S, tbl)
  PROVE  /\ RegTypes' /\ FreshInv' /\ IndexesAgree'
         /\ port' = port /\ byPort' \in [Ports -> SUBSET Recs]
         /\ recs' = recs /\ objs' = objs
<1> DEFINE gone == S \cap known
           lost(o) == {r \in gone : owner[r] = o}
<1>1. /\ table' = tbl
      /\ known' = known \ gone
      /\ owner' = [r \in Recs |-> IF r \in gone THEN None ELSE owner[r]]
      /\ insts' = [o \in Objs |-> Without(insts[o], lost(o))]
      /\ byPort' = [p \in Ports |-> byPort[p] \ {r \in gone : port[r] = p}]
      /\ objs' = objs /\ recs' = recs /\ port' = port
      BY DEF RemoveRecords
<1>2. ASSUME NEW o \in Objs
      PROVE  /\ insts'[o] \in Seq(Recs) /\ IsInjective(insts'[o])
             /\ ToSet(insts'[o]) = ToSet(insts[o]) \ lost(o)
  <2>1. insts[o] \in Seq(Recs) /\ IsInjective(insts[o])
        BY DEF RegTypes, FreshInv
  <2>2. insts'[o] = Without(insts[o], lost(o))
        BY <1>1
  <2> HIDE DEF lost
  <2>. QED BY <2>1, <2>2, WithoutFacts
<1>3. Used' \subseteq Used /\ \A l \in Used' : table'[l] = table[l] /\ table[l] \in Objs
      BY <1>1, Numbers DEF Used, RegTypes
<1> HIDE DEF gone
<1>4. RegTypes' /\ byPort' \in [Ports -> SUBSET Recs]
  <2>1. insts' \in [Objs -> Seq(Recs)]
        BY <1>1, <1>2
  <2>2. owner' \in [Recs -> Objs \cup {None}]
        BY <1>1 DEF RegTypes
  <2>. QED BY <1>1, <2>1, <2>2 DEF RegTypes, OsTypes
<1>5. FreshInv'
  <2>1. ASSUME NEW o \in Objs, o > objs PROVE insts'[o] = <<>>
    <3>1. ToSet(insts[o]) = {}
          BY <2>1 DEF FreshInv, ToSet
    <3>2. ToSet(insts'[o]) = {}
          BY <1>2, <3>1
    <3>3. insts'[o] \in Seq(Recs)
          BY <1>2
    <3>4. Len(insts'[o]) = 0
      <4>1. ~(1 \in DOMAIN insts'[o])
            BY <3>2 DEF ToSet
      <4>. QED BY <3>3, <4>1
    <3>. QED BY <3>3, <3>4, EmptySeq
  <2>2. \A o \in Objs : IsInjective(insts'[o]) /\ \A r \in ToSet(insts'[o]) : r <= recs'
        BY <1>1, <1>2 DEF FreshInv
  <2>. QED BY <1>1, <1>3, <2>1, <2>2 DEF FreshInv
<1>6. IndexesAgree'
  <2>1. ASSUME NEW l \in Used'
        PROVE  /\ IsInjective(insts'[table'[l]])
               /\ \A r \in ToSet(insts'[table'[l]]) : r \in known' /\ owner'[r] = table'[l]
    <3> DEFINE o == table[l]
    <3>1. o \in Objs /\ table'[l] = o
          BY <1>3
    <3>2. \A r \in ToSet(insts[o]) : r \in known /\ owner[r] = o
          BY <1>3 DEF IndexesAgree
    <3>3. \A r \in ToSet(insts'[o]) : r \in known \ gone /\ owner[r] = o
          BY <1>2, <3>1, <3>2
    <3>. QED BY <1>1, <1>2, <3>1, <3>3 DEF RegTypes
  <2>2. ASSUME NEW r \in Recs, owner'[r] # None
        PROVE  r \in known' /\ r \in ToSet(insts'[owner'[r]])
    <3>1. r \notin gone /\ owner'[r] = owner[r] /\ owner[r] \in Objs
          BY <1>1, <2>2 DEF RegTypes
    <3>2. r \in known /\ r \in ToSet(insts[owner[r]])
          BY <2>2, <3>1 DEF IndexesAgree
    <3>. QED BY <1>1, <1>2, <3>1, <3>2
  <2>3. \A n \in Ports : \A r \in byPort'[n] : port'[r] = n
        BY <1>1 DEF IndexesAgree
  <2>. QED BY <2>1, <2>2, <2>3 DEF IndexesAgree
<1>. QED BY <1>1, <1>4, <1>5, <1>6

\* appendServerInstanceLocked keeps the registry in order: for a new server that
\* takes a line over, and for one that is registered.
LEMMA AppendRecordFacts ==
  ASSUME RegTypes, FreshInv, IndexesAgree, UNCHANGED ports,
         NEW o \in Objs, NEW tbl, AppendInstance(o, tbl),
         \/ UNCHANGED objs /\ tbl = table /\ \E l \in Used : o = table[l]
         \/ /\ o = objs + 1 /\ objs' = o
            /\ \E l \in Lines : l <= objs + ConfigLines /\ tbl = [table EXCEPT ![l] = o]
  PROVE  /\ RegTypes' /\ FreshInv' /\ IndexesAgree'
         /\ recs' = recs + 1 /\ recs' \in Recs /\ objs <= objs'
<1> DEFINE n == recs + 1
<1>1. /\ table' = tbl /\ recs' = n /\ known' = known \cup {n} /\ n \in Recs /\ recs \in Nat
      /\ owner' = [owner EXCEPT ![n] = o]
      /\ insts' = [insts EXCEPT ![o] = Append(@, n)]
      BY Numbers DEF AppendInstance, Recs, RegTypes
<1>2. \A q \in Objs : n \notin ToSet(insts[q])
  <2>1. \A q \in Objs : \A r \in ToSet(insts[q]) : r <= recs
        BY DEF FreshInv
  <2>2. ~(n <= recs)
        BY <1>1
  <2>. QED BY <2>1, <2>2
<1>3. /\ Append(insts[o], n) \in Seq(Recs) /\ IsInjective(Append(insts[o], n))
      /\ ToSet(Append(insts[o], n)) = ToSet(insts[o]) \cup {n}
      BY <1>1, <1>2, AppendFacts DEF RegTypes, FreshInv
<1>4. n \notin known /\ owner[n] = None
      BY <1>1 DEF FreshInv, IndexesAgree
<1>5. objs' \in 0..MaxObjs /\ objs <= objs' /\ o <= objs'
      BY Numbers DEF RegTypes, FreshInv, Objs
<1>6. table' \in [Lines -> Objs \cup {None}]
      BY <1>1 DEF RegTypes
<1>7. ASSUME NEW l \in Used'
      PROVE  /\ table'[l] \in Objs /\ table'[l] <= objs' /\ l < objs' + ConfigLines
             /\ table'[l] = o \/ (l \in Used /\ table'[l] = table[l])
             /\ table'[l] = o => insts[o] = <<>> \/ \E k \in Used : o = table[k]
  <2>1. CASE UNCHANGED objs /\ tbl = table
        BY <1>1, <1>5, <2>1, Numbers DEF Used, RegTypes, FreshInv
  <2>2. CASE /\ o = objs + 1 /\ objs' = o
             /\ \E k \in Lines : k <= objs + ConfigLines /\ tbl = [table EXCEPT ![k] = o]
    <3>1. PICK k \in Lines : k <= objs + ConfigLines /\ tbl = [table EXCEPT ![k] = o]
          BY <2>2
    <3>2. insts[o] = <<>> /\ objs \in Nat
          BY <2>2 DEF FreshInv, RegTypes
    <3>3. CASE l = k
      <4>1. table'[l] = o
            BY <1>1, <3>1, <3>3 DEF RegTypes
      <4>2. l \in Nat /\ l < objs' + ConfigLines
            BY <2>2, <3>1, <3>2, <3>3, Numbers
      <4>. QED BY <1>5, <3>2, <4>1, <4>2
    <3>4. CASE l # k
      <4>1. l \in Lines /\ table'[l] = table[l] /\ table[l] # None /\ table[l] \in Objs
            BY <1>1, <3>1, <3>4 DEF Used, RegTypes
      <4>2. l \in Used /\ table[l] <= objs /\ l < objs + ConfigLines
            BY <4>1 DEF Used, FreshInv
      <4>3. table[l] \in Nat /\ l \in Nat
            BY <4>1, Numbers DEF Objs
      <4>. QED BY <2>2, <3>2, <4>1, <4>2, <4>3, Numbers
    <3>. QED BY <3>3, <3>4
  <2>. QED BY <2>1, <2>2
<1> HIDE DEF n
<1>8. RegTypes'
  <2>1. insts' \in [Objs -> Seq(Recs)]
        BY <1>1, <1>3 DEF RegTypes
  <2>2. owner' \in [Recs -> Objs \cup {None}] /\ known' \subseteq Recs
        BY <1>1 DEF RegTypes
  <2>3. recs' \in 0..MaxRecs
        BY <1>1, Numbers DEF Recs
  <2>. QED BY <1>5, <1>6, <2>1, <2>2, <2>3 DEF RegTypes
<1>9. FreshInv'
  <2>1. known' \subseteq 1..recs'
    <3>1. known \subseteq 1..recs
          BY DEF FreshInv
    <3>. QED BY <1>1, <3>1 DEF n
  <2>2. ASSUME NEW q \in Objs
        PROVE  /\ IsInjective(insts'[q]) /\ \A r \in ToSet(insts'[q]) : r <= recs'
               /\ q > objs' => insts'[q] = <<>>
    <3>1. CASE q = o
      <4>1. insts'[q] = Append(insts[o], n)
            BY <1>1, <3>1 DEF RegTypes
      <4>2. \A r \in ToSet(insts[o]) : r \in Nat /\ r <= recs
            BY Numbers DEF FreshInv, RegTypes, ToSet, Recs
      <4>3. \A r \in ToSet(insts'[q]) : r <= recs'
        <5>1. recs' = recs + 1 /\ recs \in Nat /\ n = recs + 1
              BY <1>1 DEF n
        <5>2. \A r \in ToSet(insts'[q]) : r \in ToSet(insts[o]) \/ r = n
              BY <1>3, <4>1
        <5>. QED BY <4>2, <5>1, <5>2
      <4>4. ~(q > objs')
            BY <1>5, <3>1, Numbers DEF Objs
      <4>. QED BY <1>3, <4>1, <4>3, <4>4
    <3>2. CASE q # o
      <4>1. insts'[q] = insts[q]
            BY <1>1, <3>2 DEF RegTypes
      <4>2. \A r \in ToSet(insts[q]) : r \in Nat /\ r <= recs
            BY Numbers DEF FreshInv, RegTypes, ToSet, Recs
      <4>3. \A r \in ToSet(insts'[q]) : r <= recs'
            BY <1>1, <4>1, <4>2 DEF n
      <4>4. q > objs' => q > objs
            BY <1>5, Numbers DEF Objs, RegTypes
      <4>. QED BY <4>1, <4>3, <4>4 DEF FreshInv
    <3>. QED BY <3>1, <3>2
  <2>. QED BY <1>7, <2>1, <2>2 DEF FreshInv
<1>10. IndexesAgree'
  <2>1. ASSUME NEW l \in Used'
        PROVE  /\ IsInjective(insts'[table'[l]])
               /\ \A r \in ToSet(insts'[table'[l]]) : r \in known' /\ owner'[r] = table'[l]
    <3>1. CASE table'[l] = o
      <4>1. insts'[o] = Append(insts[o], n)
            BY <1>1 DEF RegTypes
      <4>2. \A r \in ToSet(insts[o]) : r \in known /\ owner[r] = o
        <5>1. CASE insts[o] = <<>>
              BY <5>1 DEF ToSet
        <5>2. CASE \E k \in Used : o = table[k]
              BY <5>2 DEF IndexesAgree
        <5>. QED BY <1>7, <3>1, <5>1, <5>2
      <4>. QED BY <1>1, <1>3, <1>4, <3>1, <4>1, <4>2 DEF RegTypes
    <3>2. CASE table'[l] # o
      <4>1. l \in Used /\ table'[l] = table[l] /\ table[l] \in Objs
            BY <1>7, <3>2
      <4>2. insts'[table[l]] = insts[table[l]]
            BY <1>1, <3>2, <4>1 DEF RegTypes
      <4>3. IsInjective(insts[table[l]]) /\ \A r \in ToSet(insts[table[l]]) : r \in known /\ owner[r] = table[l]
            BY <4>1 DEF IndexesAgree
      <4>. QED BY <1>1, <1>4, <4>1, <4>2, <4>3 DEF RegTypes
    <3>. QED BY <3>1, <3>2
  <2>2. ASSUME NEW r \in Recs, owner'[r] # None
        PROVE  r \in known' /\ r \in ToSet(insts'[owner'[r]])
    <3>1. CASE r = n
          BY <1>1, <1>3, <3>1 DEF RegTypes
    <3>2. CASE r # n
      <4>1. owner'[r] = owner[r] /\ owner[r] \in Objs
            BY <1>1, <2>2, <3>2 DEF RegTypes
      <4>2. r \in known /\ r \in ToSet(insts[owner[r]])
            BY <2>2, <4>1 DEF IndexesAgree
      <4>3. ToSet(insts[owner[r]]) \subseteq ToSet(insts'[owner[r]])
            BY <1>1, <1>3, <4>1 DEF RegTypes
      <4>. QED BY <1>1, <4>1, <4>2, <4>3
    <3>. QED BY <3>1, <3>2
  <2>3. \A p \in Ports : \A r \in byPort'[p] : port'[r] = p
        BY DEF IndexesAgree, ports
  <2>. QED BY <2>1, <2>2, <2>3 DEF IndexesAgree
<1>. QED BY <1>1, <1>5, <1>8, <1>9, <1>10 DEF n
-----------------------------------------------------------------------------
(* The types, and the registry, whatever interleaves *)

LEMMA Moves ==
  ASSUME TypeInv, RegTypes', recs <= recs', objs <= objs',
         NEW t \in Threads, NEW at \in Points, NEW k \in Jobs,
         Goto(t, at, k), Fits(t, at, k, recs', objs')
  PROVE  ThreadTypes' /\ \A u \in Threads : JobOK(u)'
<1>1. ThreadTypes' /\ pc' = [pc EXCEPT ![t] = at] /\ job' = [job EXCEPT ![t] = k]
      BY DEF TypeInv, ThreadTypes, Goto
<1>2. JobOK(t)'
      BY <1>1 DEF JobOK, TypeInv, ThreadTypes
<1>3. ASSUME NEW u \in Threads, u # t PROVE JobOK(u)'
  <2>1. pc'[u] = pc[u] /\ job'[u] = job[u] /\ job[u] \in Jobs
        BY <1>1, <1>3 DEF TypeInv, ThreadTypes
  <2>2. Fits(u, pc[u], job[u], recs, objs)
        BY DEF TypeInv, JobOK
  <2>3. recs \in Nat /\ recs' \in Nat /\ objs \in Nat /\ objs' \in Nat
        BY DEF TypeInv, RegTypes
  <2>4. 1..recs \subseteq 1..recs'
        BY <2>3
  <2>5. job[u].line \in Nat
        BY <2>1, Numbers DEF Jobs
  <2>6. job[u].line <= objs + ConfigLines => job[u].line <= objs' + ConfigLines
        BY <2>3, <2>5, Numbers
  <2>7. Fits(u, pc[u], job[u], recs', objs')
        BY <2>2, <2>4, <2>6 DEF Fits
  <2>. QED BY <2>1, <2>7 DEF JobOK
<1>. QED BY <1>1, <1>2, <1>3

\* A step that only moves a thread.
LEMMA QuietStep ==
  ASSUME TypeInv, RegInv, UNCHANGED <<registry, running, ports, os>>,
         NEW t \in Threads, NEW at \in Points, NEW k \in Jobs,
         Goto(t, at, k), Fits(t, at, k, recs, objs)
  PROVE  TypeInv' /\ RegInv'
<1>1. RegTypes' /\ OsTypes' /\ recs' = recs /\ objs' = objs /\ recs <= recs' /\ objs <= objs'
      BY DEF TypeInv, RegTypes, OsTypes, registry, ports, os
<1>2. ThreadTypes' /\ \A u \in Threads : JobOK(u)'
      BY <1>1, Moves
<1>3. RegInv'
      BY DEF RegInv, ProcInv, FreshInv, IndexesAgree, Used, registry, ports, os
<1>. QED BY <1>1, <1>2, <1>3 DEF TypeInv

\* Where an operation returns to.
LEMMA Returns ==
  ASSUME TypeInv, NEW t \in Threads, t # Main, Return(t)
  PROVE  \E at \in {"find", "capture", "idle"}, k \in Jobs :
           /\ Goto(t, at, k)
           /\ \A n, m : Fits(t, at, k, n, m)
           /\ at = "find" => k.op = "start"
           /\ k.op \in AdminOps
<1> DEFINE j == job[t]
<1>1. j \in Jobs /\ j.op \in AdminOps
      BY DEF TypeInv, ThreadTypes, JobOK, Fits
<1>2. CASE j.target < j.last
  <2> DEFINE at == IF j.op = "start" THEN "find" ELSE "capture"
             k == [j EXCEPT !.target = @ + 1, !.todo = {}]
  <2>1. Goto(t, at, k)
        BY <1>2 DEF Return
  <2>2. k \in Jobs /\ k.op = j.op /\ k.todo = {}
    <3>1. j.target \in Nat
          BY <1>1 DEF Jobs
    <3>2. k.op = j.op /\ k.todo = {}
          BY <1>1 DEF Jobs
    <3>3. \A x \in Jobs, i \in Nat : [x EXCEPT !.target = i, !.todo = {}] \in Jobs
          BY DEF Jobs
    <3>4. j.target + 1 \in Nat
          BY <3>1
    <3>. QED BY <1>1, <3>2, <3>3, <3>4
  <2>3. \A n, m : Fits(t, at, k, n, m)
        BY <1>1, <2>2 DEF Fits, Working
  <2>. QED BY <1>1, <2>1, <2>2, <2>3
<1>3. CASE ~(j.target < j.last)
  <2>1. Goto(t, "idle", NoJob)
        BY <1>3 DEF Return
  <2>2. NoJob \in Jobs /\ NoJob.op \in AdminOps
        BY Numbers DEF NoJob, Jobs, AdminOps, None
  <2>3. \A n, m : Fits(t, "idle", NoJob, n, m)
        BY <2>2 DEF Fits
  <2>. QED BY <2>1, <2>2, <2>3
<1>. QED BY <1>2, <1>3

LEMMA ReturnStep ==
  ASSUME TypeInv, RegInv, UNCHANGED <<registry, running, ports, os>>,
         NEW t \in Threads, t # Main, Return(t)
  PROVE  TypeInv' /\ RegInv'
<1>1. {"find", "capture", "idle"} \subseteq Points
      BY DEF Points, Working
<1>. QED BY <1>1, Returns, QuietStep

\* A step that takes records out of the registry and moves a thread.
LEMMA RemoveStep ==
  ASSUME TypeInv, RegInv, UNCHANGED <<alive, done, proc>>,
         running' \in [Recs -> Procs \cup {None}],
         \A r \in Recs : running'[r] \in {running[r], None},
         NEW S, NEW tbl \in [Lines -> Objs \cup {None}],
         \A l \in Lines : tbl[l] \in {table[l], None}, RemoveRecords(S, tbl),
         NEW t \in Threads, NEW at \in Points, NEW k \in Jobs,
         Goto(t, at, k), Fits(t, at, k, recs, objs)
  PROVE  TypeInv' /\ RegInv'
<1>1. /\ RegTypes' /\ FreshInv' /\ IndexesAgree'
      /\ port' = port /\ byPort' \in [Ports -> SUBSET Recs]
      /\ recs' = recs /\ objs' = objs
      BY RemoveFacts DEF TypeInv, RegInv
<1>2. OsTypes'
      BY <1>1 DEF TypeInv, OsTypes
<1>3. recs <= recs' /\ objs <= objs'
      BY <1>1 DEF TypeInv, RegTypes
<1>4. ThreadTypes' /\ \A u \in Threads : JobOK(u)'
      BY <1>1, <1>3, Moves
<1>5. ProcInv'
      BY <1>1 DEF RegInv, ProcInv
<1>. QED BY <1>1, <1>2, <1>4, <1>5 DEF TypeInv, RegInv

LEMMA JobForms ==
  /\ NoJob \in Jobs
  /\ \A op \in AdminOps \cup MainOps :
       /\ [NoJob EXCEPT !.op = op] \in Jobs
       /\ \A l \in Lines : [NoJob EXCEPT !.op = op, !.line = l] \in Jobs
       /\ \A r \in Recs : [NoJob EXCEPT !.op = op, !.rec = r] \in Jobs
       /\ \A i, n \in Nat : [NoJob EXCEPT !.op = op, !.target = i, !.last = n] \in Jobs
  /\ \A l \in Lines : [NoJob EXCEPT !.line = l] \in Jobs
<1>1. NoJob \in Jobs
      BY Numbers DEF NoJob, Jobs, AdminOps, None
<1>2. ASSUME NEW op \in AdminOps \cup MainOps
      PROVE  /\ [NoJob EXCEPT !.op = op] \in Jobs
             /\ \A l \in Lines : [NoJob EXCEPT !.op = op, !.line = l] \in Jobs
             /\ \A r \in Recs : [NoJob EXCEPT !.op = op, !.rec = r] \in Jobs
             /\ \A i, n \in Nat : [NoJob EXCEPT !.op = op, !.target = i, !.last = n] \in Jobs
  <2>1. [NoJob EXCEPT !.op = op] \in Jobs
        BY <1>1 DEF Jobs
  <2>2. \A l \in Lines : [NoJob EXCEPT !.op = op, !.line = l] \in Jobs
        BY <1>1 DEF Jobs
  <2>3. \A r \in Recs : [NoJob EXCEPT !.op = op, !.rec = r] \in Jobs
        BY <1>1 DEF Jobs
  <2>4. \A i, n \in Nat : [NoJob EXCEPT !.op = op, !.target = i, !.last = n] \in Jobs
        BY <1>1 DEF Jobs
  <2>. QED BY <2>1, <2>2, <2>3, <2>4, Zenon
<1>3. \A l \in Lines : [NoJob EXCEPT !.line = l] \in Jobs
      BY <1>1 DEF Jobs
<1>. QED BY <1>1, <1>2, <1>3, Zenon

LEMMA JobUpdates ==
  ASSUME NEW j \in Jobs
  PROVE  /\ \A l \in Lines : [j EXCEPT !.line = l] \in Jobs
         /\ \A T \in SUBSET (Recs \cup Pairs) :
              /\ [j EXCEPT !.todo = T] \in Jobs
              /\ \A o \in Objs \cup {None} :
                   /\ [j EXCEPT !.obj = o, !.todo = T] \in Jobs
                   /\ \A l \in Lines : [j EXCEPT !.line = l, !.obj = o, !.todo = T] \in Jobs
              /\ \A r \in Recs \cup {None} :
                   /\ [j EXCEPT !.rec = r, !.todo = T] \in Jobs
                   /\ \A p \in Procs \cup {None} :
                        [j EXCEPT !.rec = r, !.srv = p, !.todo = T] \in Jobs
         /\ \A p \in Procs \cup {None} :
              /\ [j EXCEPT !.srv = p] \in Jobs
              /\ \A r \in Recs \cup {None} : [j EXCEPT !.rec = r, !.srv = p] \in Jobs
         /\ [j EXCEPT !.failed = TRUE] \in Jobs
<1>1. \A l \in Lines : [j EXCEPT !.line = l] \in Jobs
      BY DEF Jobs
<1>2. ASSUME NEW T \in SUBSET (Recs \cup Pairs)
      PROVE  /\ [j EXCEPT !.todo = T] \in Jobs
             /\ \A o \in Objs \cup {None} :
                  /\ [j EXCEPT !.obj = o, !.todo = T] \in Jobs
                  /\ \A l \in Lines : [j EXCEPT !.line = l, !.obj = o, !.todo = T] \in Jobs
             /\ \A r \in Recs \cup {None} :
                  /\ [j EXCEPT !.rec = r, !.todo = T] \in Jobs
                  /\ \A p \in Procs \cup {None} :
                       [j EXCEPT !.rec = r, !.srv = p, !.todo = T] \in Jobs
  <2>1. [j EXCEPT !.todo = T] \in Jobs
        BY DEF Jobs
  <2>2. ASSUME NEW o \in Objs \cup {None}
        PROVE  /\ [j EXCEPT !.obj = o, !.todo = T] \in Jobs
               /\ \A l \in Lines : [j EXCEPT !.line = l, !.obj = o, !.todo = T] \in Jobs
    <3>1. [j EXCEPT !.obj = o, !.todo = T] \in Jobs
          BY DEF Jobs
    <3>2. \A l \in Lines : [j EXCEPT !.line = l, !.obj = o, !.todo = T] \in Jobs
          BY DEF Jobs
    <3>. QED BY <3>1, <3>2, Zenon
  <2>3. ASSUME NEW r \in Recs \cup {None}
        PROVE  /\ [j EXCEPT !.rec = r, !.todo = T] \in Jobs
               /\ \A p \in Procs \cup {None} : [j EXCEPT !.rec = r, !.srv = p, !.todo = T] \in Jobs
    <3>1. [j EXCEPT !.rec = r, !.todo = T] \in Jobs
          BY DEF Jobs
    <3>2. \A p \in Procs \cup {None} : [j EXCEPT !.rec = r, !.srv = p, !.todo = T] \in Jobs
          BY DEF Jobs
    <3>. QED BY <3>1, <3>2, Zenon
  <2>. QED BY <2>1, <2>2, <2>3, Zenon
<1>3. ASSUME NEW p \in Procs \cup {None}
      PROVE  /\ [j EXCEPT !.srv = p] \in Jobs
             /\ \A r \in Recs \cup {None} : [j EXCEPT !.rec = r, !.srv = p] \in Jobs
  <2>1. [j EXCEPT !.srv = p] \in Jobs
        BY DEF Jobs
  <2>2. \A r \in Recs \cup {None} : [j EXCEPT !.rec = r, !.srv = p] \in Jobs
        BY DEF Jobs
  <2>. QED BY <2>1, <2>2, Zenon
<1>4. [j EXCEPT !.failed = TRUE] \in Jobs
      BY DEF Jobs
<1>. QED BY <1>1, <1>2, <1>3, <1>4, Zenon

\* What holds of the thread that takes a step.
LEMMA Here ==
  ASSUME TypeInv, NEW t \in Threads
  PROVE  /\ job[t] \in Jobs /\ pc[t] \in Points
         /\ Fits(t, pc[t], job[t], recs, objs)
         /\ pc[t] \in Working \ {"register", "start", "spawn", "commit", "capture", "stop", "await"} => t # Main
         /\ t # Main => job[t].op \in AdminOps /\ ~StopsAll(t)
         /\ t = Main /\ pc[t] \in {"capture", "stop", "await", "close"} => StopsAll(t)
         /\ t = Main /\ pc[t] \in {"register", "start", "spawn", "commit"} =>
              job[t].op = "boot" /\ job[t].line < ConfigLines
         /\ recs \in Nat /\ objs \in Nat
BY DEF TypeInv, ThreadTypes, RegTypes, JobOK, Fits, StopsAll, AdminOps, Working

LEMMA BeginSafe ==
  ASSUME TypeInv, RegInv, NEW t \in Threads, Begin(t) \/ BeginLaunch(t) \/ BeginScale(t)
  PROVE  TypeInv' /\ RegInv'
<1>1. UNCHANGED <<registry, running, ports, os>>
      BY DEF Begin, BeginLaunch, BeginScale
<1>2. t # Main
      BY DEF Begin, BeginLaunch, BeginScale, Main
<1>3. CASE Begin(t)
  <2>1. PICK op \in Ops, target \in 1..Cardinality(Used), last \in {0, Cardinality(Used)} :
          /\ op \in Ops /\ op \notin {"launch"}
          /\ Goto(t, CASE op = "start"               -> "find"
                       [] op \in {"stop", "restart"} -> "capture"
                       [] op = "remove"              -> "remove",
                  [NoJob EXCEPT !.op = op, !.target = target, !.last = last])
        BY <1>3 DEF Begin
  <2> DEFINE k == [NoJob EXCEPT !.op = op, !.target = target, !.last = last]
  <2>2. \E at \in {"find", "capture", "remove"} : Goto(t, at, k)
        BY <2>1
  <2>3. target \in Nat /\ last \in Nat /\ op \in AdminOps
    <3>1. target \in Nat /\ last \in Nat
          BY UsedFinite
    <3>2. op \in AdminOps
          BY OrchAssumption DEF AdminOps
    <3>. QED BY <3>1, <3>2
  <2>4. k \in Jobs /\ k.op = op
        BY <2>3, JobForms DEF NoJob
  <2>5. \A at \in {"find", "capture", "remove"} : at \in Points /\ Fits(t, at, k, recs, objs)
        BY <1>2, <2>3, <2>4 DEF Fits, Points, Working
  <2>. QED BY <1>1, <2>2, <2>4, <2>5, QuietStep
<1>4. CASE BeginLaunch(t)
  <2> DEFINE k == [NoJob EXCEPT !.op = "launch"]
  <2>1. Goto(t, "line", k) /\ k \in Jobs /\ k.op = "launch"
        BY <1>4, JobForms DEF BeginLaunch, AdminOps, NoJob
  <2>2. "line" \in Points /\ Fits(t, "line", k, recs, objs)
        BY <1>2, <2>1 DEF Fits, Points, Working, AdminOps
  <2>. QED BY <1>1, <2>1, <2>2, QuietStep
<1>5. CASE BeginScale(t)
  <2>1. CASE \E l \in Used : Goto(t, "append", [NoJob EXCEPT !.op = "replica", !.line = l])
    <3>1. PICK l \in Lines : Goto(t, "append", [NoJob EXCEPT !.op = "replica", !.line = l])
          BY <2>1 DEF Used
    <3> DEFINE k == [NoJob EXCEPT !.op = "replica", !.line = l]
    <3>2. k \in Jobs /\ k.op = "replica"
          BY JobForms DEF AdminOps, NoJob
    <3>3. "append" \in Points /\ Fits(t, "append", k, recs, objs)
          BY <1>2, <3>2 DEF Fits, Points, Working, AdminOps
    <3>. QED BY <1>1, <3>1, <3>2, <3>3, QuietStep
  <2>2. CASE \E r \in known : Goto(t, "despawn", [NoJob EXCEPT !.op = "despawn", !.rec = r])
    <3>1. PICK r \in Recs : Goto(t, "despawn", [NoJob EXCEPT !.op = "despawn", !.rec = r])
          BY <2>2 DEF TypeInv, RegTypes
    <3> DEFINE k == [NoJob EXCEPT !.op = "despawn", !.rec = r]
    <3>2. k \in Jobs /\ k.op = "despawn" /\ k.todo = {}
          BY JobForms DEF AdminOps, NoJob
    <3>3. "despawn" \in Points /\ Fits(t, "despawn", k, recs, objs)
          BY <1>2, <3>2 DEF Fits, Points, Working, AdminOps
    <3>. QED BY <1>1, <3>1, <3>2, <3>3, QuietStep
  <2>. QED BY <1>5, <2>1, <2>2 DEF BeginScale
<1>. QED BY <1>3, <1>4, <1>5

LEMMA LaunchSafe ==
  ASSUME TypeInv, RegInv, NEW t \in Threads, PickLine(t) \/ RegisterLaunch(t)
  PROVE  TypeInv' /\ RegInv'
<1> DEFINE j == job[t]
<1>1. CASE PickLine(t)
  <2> DEFINE l == CHOOSE l \in Lines : /\ \A u \in Used : u < l
                                       /\ l = 0 \/ l - 1 \in Used
             k == [j EXCEPT !.line = l]
  <2>1. l \in Lines /\ l <= objs + ConfigLines
        BY PickedLine DEF TypeInv, RegInv
  <2>2. Goto(t, "register", k) /\ UNCHANGED <<registry, running, ports, os>> /\ pc[t] = "line"
        BY <1>1 DEF PickLine
  <2>3. j \in Jobs /\ t # Main /\ j.op \in AdminOps
        BY <2>2, Here DEF Working
  <2> HIDE DEF l
  <2>4. k \in Jobs /\ k.op = j.op /\ k.line = l
    <3>1. k \in Jobs
          BY <2>1, <2>3, JobUpdates
    <3>. QED BY <2>3, <3>1 DEF Jobs
  <2>5. "register" \in Points /\ Fits(t, "register", k, recs, objs)
        BY <2>1, <2>3, <2>4 DEF Fits, Points, Working
  <2>. QED BY <2>2, <2>4, <2>5, QuietStep
<1>2. CASE RegisterLaunch(t)
  <2> DEFINE o == objs + 1
             k == [j EXCEPT !.obj = o, !.todo = {recs + 1}]
  <2>1. /\ pc[t] = "register" /\ o \in Objs /\ objs' = o
        /\ AppendInstance(o, [table EXCEPT ![j.line] = o])
        /\ Goto(t, "start", k) /\ UNCHANGED <<running, ports, os>>
        BY <1>2, Numbers DEF RegisterLaunch, Objs, TypeInv, RegTypes
  <2>2. j \in Jobs /\ j.line \in Lines /\ j.line <= objs + ConfigLines /\ recs \in Nat
        BY <2>1, Here DEF Fits, Jobs
  <2>3. /\ RegTypes' /\ FreshInv' /\ IndexesAgree'
        /\ recs' = recs + 1 /\ recs' \in Recs /\ objs <= objs'
        BY <2>1, <2>2, AppendRecordFacts DEF TypeInv, RegInv
  <2>4. k \in Jobs /\ k.op = j.op /\ k.line = j.line /\ k.todo = {recs + 1}
    <3>1. {recs + 1} \in SUBSET (Recs \cup Pairs)
          BY <2>3
    <3>2. k \in Jobs
          BY <2>1, <2>2, <3>1, JobUpdates
    <3>. QED BY <2>2, <3>2 DEF Jobs
  <2>5. "start" \in Points /\ Fits(t, "start", k, recs', objs')
    <3>1. {recs + 1} \subseteq 1..recs'
          BY <2>2, <2>3
    <3>2. Fits(t, "register", j, recs, objs)
          BY <2>1, Here
    <3>. QED BY <2>4, <3>1, <3>2 DEF Fits, Points, Working
  <2>6. recs <= recs'
        BY <2>2, <2>3
  <2>7. ThreadTypes' /\ \A u \in Threads : JobOK(u)'
        BY <2>1, <2>3, <2>4, <2>5, <2>6, Moves
  <2>8. OsTypes'
        BY <2>1 DEF TypeInv, OsTypes, ports, os
  <2>9. ProcInv'
        BY <2>1, <2>2, <2>3 DEF RegInv, ProcInv, os, Recs
  <2>. QED BY <2>3, <2>7, <2>8, <2>9 DEF TypeInv, RegInv
<1>. QED BY <1>1, <1>2

LEMMA FindSafe ==
  ASSUME TypeInv, RegInv, NEW t \in Threads, Find(t)
  PROVE  TypeInv' /\ RegInv'
<1> DEFINE j == job[t]
<1>1. pc[t] = "find" /\ UNCHANGED <<registry, running, ports, os>>
      BY DEF Find
<1>2. j \in Jobs /\ t # Main /\ j.op \in AdminOps /\ j.target \in Nat
      BY <1>1, Here DEF Working, Jobs
<1>3. CASE ~Found(j.target)
      BY <1>1, <1>2, <1>3, ReturnStep DEF Find
<1>4. CASE Found(j.target)
  <2> DEFINE l == At(j.target)
             todo == ToSet(insts[table[l]]) \cap known
             k == [j EXCEPT !.line = l, !.obj = table[l], !.todo = todo]
             at == IF todo = {} THEN "append" ELSE "start"
  <2>1. Goto(t, at, k)
        BY <1>4 DEF Find
  <2>2. l \in Lines /\ table[l] \in Objs
        BY <1>2, <1>4, AtIsUsed DEF Used, TypeInv, RegTypes
  <2>3. todo \subseteq 1..recs /\ todo \in SUBSET (Recs \cup Pairs)
        BY DEF TypeInv, RegTypes, RegInv, FreshInv
  <2> HIDE DEF l, todo
  <2>4. k \in Jobs /\ k.op = j.op /\ k.todo = todo
    <3>1. k \in Jobs
          BY <1>2, <2>2, <2>3, JobUpdates
    <3>. QED BY <1>2, <3>1 DEF Jobs
  <2>5. at \in Points /\ Fits(t, at, k, recs, objs)
        BY <1>2, <2>3, <2>4 DEF Fits, Points, Working
  <2>. QED BY <1>1, <2>1, <2>4, <2>5, QuietStep
<1>. QED BY <1>3, <1>4

LEMMA AppendSafe ==
  ASSUME TypeInv, RegInv, NEW t \in Threads, AppendRecord(t)
  PROVE  TypeInv' /\ RegInv'
<1> DEFINE j == job[t]
<1>1. pc[t] = "append" /\ UNCHANGED <<running, ports, os>>
      BY DEF AppendRecord
<1>2. j \in Jobs /\ t # Main /\ j.op \in AdminOps /\ j.line \in Lines
      BY <1>1, Here DEF Working, Jobs
<1>3. CASE table[j.line] = None
      BY <1>1, <1>2, <1>3, ReturnStep DEF AppendRecord
<1>4. CASE table[j.line] # None
  <2> DEFINE o == table[j.line]
             k == [j EXCEPT !.todo = {recs + 1}]
  <2>1. o \in Objs /\ j.line \in Used
        BY <1>2, <1>4 DEF Used, TypeInv, RegTypes
  <2>2. AppendInstance(o, table) /\ Goto(t, "start", k) /\ UNCHANGED objs
        BY <1>4 DEF AppendRecord
  <2>3. /\ RegTypes' /\ FreshInv' /\ IndexesAgree'
        /\ recs' = recs + 1 /\ recs' \in Recs /\ objs <= objs'
        BY <1>1, <2>1, <2>2, AppendRecordFacts DEF TypeInv, RegInv
  <2>4. k \in Jobs /\ k.op = j.op /\ k.todo = {recs + 1}
    <3>1. {recs + 1} \in SUBSET (Recs \cup Pairs)
          BY <2>3
    <3>2. k \in Jobs
          BY <1>2, <3>1, JobUpdates
    <3>. QED BY <1>2, <3>2 DEF Jobs
  <2>5. recs \in Nat /\ recs <= recs' /\ {recs + 1} \subseteq 1..recs'
        BY <2>3 DEF TypeInv, RegTypes
  <2>6. "start" \in Points /\ Fits(t, "start", k, recs', objs')
        BY <1>2, <2>4, <2>5 DEF Fits, Points, Working
  <2>7. ThreadTypes' /\ \A u \in Threads : JobOK(u)'
        BY <2>2, <2>3, <2>4, <2>5, <2>6, Moves
  <2>8. OsTypes'
        BY <1>1 DEF TypeInv, OsTypes, ports, os
  <2>9. ProcInv'
        BY <1>1, <2>3, <2>5 DEF RegInv, ProcInv, os, Recs
  <2>. QED BY <2>3, <2>7, <2>8, <2>9 DEF TypeInv, RegInv
<1>. QED BY <1>3, <1>4

\* A step that moves a thread and may forget what a record runs.
LEMMA ClearStep ==
  ASSUME TypeInv, RegInv, UNCHANGED <<registry, ports, alive, proc>>, done' \subseteq done,
         running' \in [Recs -> Procs \cup {None}],
         \A r \in Recs : running'[r] \in {running[r], None},
         NEW t \in Threads, NEW at \in Points, NEW k \in Jobs,
         Goto(t, at, k), Fits(t, at, k, recs, objs)
  PROVE  TypeInv' /\ RegInv'
<1>1. RegTypes' /\ OsTypes' /\ recs' = recs /\ objs' = objs /\ recs <= recs' /\ objs <= objs'
      BY DEF TypeInv, RegTypes, OsTypes, registry, ports
<1>2. ThreadTypes' /\ \A u \in Threads : JobOK(u)'
      BY <1>1, Moves
<1>3. FreshInv' /\ IndexesAgree'
      BY DEF RegInv, FreshInv, IndexesAgree, Used, registry, ports
<1>4. ProcInv'
      BY <1>1 DEF RegInv, ProcInv
<1>. QED BY <1>1, <1>2, <1>3, <1>4 DEF TypeInv, RegInv

\* Where a thread goes when a start has failed.
LEMMA StartErrorMoves ==
  ASSUME TypeInv, RegInv, NEW t \in Threads, pc[t] \in {"start", "spawn"},
         NEW r \in Recs, StartError(t, r)
  PROVE  \E at \in {"find", "capture", "idle"}, k \in Jobs :
           /\ Goto(t, at, k) /\ Fits(t, at, k, recs, objs)
           /\ at = "find" => k.op = "start"
           /\ t # Main => k.op \in AdminOps
           /\ \/ job[t].op # "replica" /\ UNCHANGED <<registry, byPort, port>>
              \/ job[t].op = "replica" /\ RemoveRecords({r}, table)
<1> DEFINE j == job[t]
<1>1. j \in Jobs /\ Fits(t, pc[t], j, recs, objs)
      BY Here
<1>2. CASE j.op = "boot"
  <2> DEFINE k == [NoJob EXCEPT !.op = "bootfail"]
  <2>1. t = Main
        BY <1>1, <1>2 DEF Fits, AdminOps
  <2>2. Goto(t, "capture", k) /\ UNCHANGED <<registry, byPort, port>>
        BY <1>2 DEF StartError
  <2>3. k \in Jobs /\ k.op = "bootfail"
        BY JobForms DEF MainOps, NoJob
  <2>4. Fits(t, "capture", k, recs, objs)
        BY <2>1, <2>3 DEF Fits
  <2>. QED BY <1>2, <2>1, <2>2, <2>3, <2>4
<1>3. CASE j.op # "boot"
  <2>1. t # Main
        BY <1>1, <1>3 DEF Fits
  <2>2. Return(t)
        BY <1>3 DEF StartError
  <2>3. \/ j.op # "replica" /\ UNCHANGED <<registry, byPort, port>>
        \/ j.op = "replica" /\ RemoveRecords({r}, table)
        BY <1>3 DEF StartError
  <2>. QED BY <2>1, <2>2, <2>3, Returns
<1>. QED BY <1>2, <1>3

LEMMA StartErrorSafe ==
  ASSUME TypeInv, RegInv, NEW t \in Threads, pc[t] \in {"start", "spawn"},
         NEW r \in Recs, StartError(t, r), UNCHANGED os,
         running' \in [Recs -> Procs \cup {None}],
         \A q \in Recs : running'[q] \in {running[q], None}
  PROVE  TypeInv' /\ RegInv'
<1>1. PICK at \in {"find", "capture", "idle"}, k \in Jobs :
           /\ Goto(t, at, k) /\ Fits(t, at, k, recs, objs)
           /\ \/ UNCHANGED <<registry, byPort, port>>
              \/ RemoveRecords({r}, table)
      BY StartErrorMoves
<1>2. at \in Points
      BY DEF Points, Working
<1>3. CASE UNCHANGED <<registry, byPort, port>>
      BY <1>1, <1>2, <1>3, ClearStep DEF ports, os
<1>4. CASE RemoveRecords({r}, table)
  <2>1. table \in [Lines -> Objs \cup {None}] /\ \A l \in Lines : table[l] \in {table[l], None}
        BY DEF TypeInv, RegTypes
  <2>. QED BY <1>1, <1>2, <1>4, <2>1, RemoveStep DEF os
<1>. QED BY <1>1, <1>3, <1>4

LEMMA CheckSafe ==
  ASSUME TypeInv, RegInv, NEW t \in Threads, CheckRecord(t)
  PROVE  TypeInv' /\ RegInv'
<1> DEFINE j == job[t]
<1>1. pc[t] = "start" /\ UNCHANGED <<running, os>>
      BY DEF CheckRecord
<1>2. j \in Jobs /\ Fits(t, "start", j, recs, objs) /\ recs \in Nat
      BY <1>1, Here
<1>3. PICK r \in j.todo :
        IF ~basedir THEN StartError(t, r)
        ELSE IF InstanceRunning(r) THEN AlreadyRunning(t, r)
        ELSE /\ byPort' = Drop(byPort, port[r], r)
             /\ port' = [port EXCEPT ![r] = None]
             /\ Goto(t, "spawn", [j EXCEPT !.rec = r, !.todo = @ \ {r}])
             /\ UNCHANGED registry
      BY DEF CheckRecord
<1>4. r \in Recs /\ r \in 1..recs /\ j.todo \subseteq 1..recs /\ j.todo \ {r} \in SUBSET (Recs \cup Pairs)
  <2>1. j.todo \subseteq 1..recs /\ j.todo \in SUBSET (Recs \cup Pairs)
        BY <1>2 DEF Fits, Jobs
  <2>2. 1..recs \subseteq Recs
        BY Numbers DEF TypeInv, RegTypes, Recs
  <2>. QED BY <2>1, <2>2
<1>5. running' \in [Recs -> Procs \cup {None}] /\ \A q \in Recs : running'[q] \in {running[q], None}
      BY <1>1 DEF TypeInv, OsTypes
<1>6. CASE StartError(t, r)
      BY <1>1, <1>4, <1>5, <1>6, StartErrorSafe
<1>7. CASE /\ Goto(t, "start", [j EXCEPT !.todo = @ \ {r}])
           /\ UNCHANGED <<registry, byPort, port>>
  <2> DEFINE k == [j EXCEPT !.todo = @ \ {r}]
  <2>1. k \in Jobs /\ k.op = j.op /\ k.todo = j.todo \ {r} /\ k.line = j.line
    <3>1. k \in Jobs
          BY <1>2, <1>4, JobUpdates
    <3>. QED BY <1>2, <3>1 DEF Jobs
  <2>2. "start" \in Points /\ Fits(t, "start", k, recs, objs)
        BY <1>2, <1>4, <2>1 DEF Fits, Points, Working
  <2>. QED BY <1>1, <1>7, <2>1, <2>2, QuietStep DEF ports
<1>8. CASE /\ byPort' = Drop(byPort, port[r], r)
           /\ port' = [port EXCEPT ![r] = None]
           /\ Goto(t, "spawn", [j EXCEPT !.rec = r, !.todo = @ \ {r}])
           /\ UNCHANGED registry
  <2> DEFINE k == [j EXCEPT !.rec = r, !.todo = @ \ {r}]
  <2>1. k \in Jobs /\ k.op = j.op /\ k.todo = j.todo \ {r} /\ k.rec = r /\ k.line = j.line
    <3>1. k \in Jobs
          BY <1>2, <1>4, JobUpdates
    <3>. QED BY <1>2, <3>1 DEF Jobs
  <2>2. "spawn" \in Points /\ Fits(t, "spawn", k, recs, objs)
        BY <1>2, <1>4, <2>1 DEF Fits, Points, Working
  <2>3. RegTypes' /\ recs' = recs /\ objs' = objs /\ recs <= recs' /\ objs <= objs'
        BY <1>8 DEF TypeInv, RegTypes, registry
  <2>4. ThreadTypes' /\ \A u \in Threads : JobOK(u)'
        BY <1>8, <2>1, <2>2, <2>3, Moves
  <2>5. OsTypes'
        BY <1>1, <1>4, <1>8 DEF TypeInv, OsTypes, os, Drop
  <2>6. ProcInv' /\ FreshInv'
        BY <1>1, <1>8 DEF RegInv, ProcInv, FreshInv, Used, registry, os
  <2>7. \A n \in Ports : \A q \in byPort'[n] : port'[q] = n
    <3>1. \A n \in Ports : \A q \in byPort[n] : port[q] = n
          BY DEF RegInv, IndexesAgree
    <3>2. byPort \in [Ports -> SUBSET Recs] /\ port \in [Recs -> Ports \cup {None}]
          BY DEF TypeInv, OsTypes
    <3>3. \A n \in Ports : byPort'[n] \subseteq byPort[n] /\ r \notin byPort'[n]
          BY <1>4, <1>8, <3>1, <3>2, Numbers DEF Drop
    <3>. QED BY <1>4, <1>8, <3>1, <3>2, <3>3
  <2>8. IndexesAgree'
        BY <1>8, <2>7 DEF RegInv, IndexesAgree, Used, registry
  <2>. QED BY <2>3, <2>4, <2>5, <2>6, <2>8 DEF TypeInv, RegInv
<1>. QED BY <1>3, <1>6, <1>7, <1>8 DEF AlreadyRunning

LEMMA SpawnSafe ==
  ASSUME TypeInv, RegInv, NEW t \in Threads, Spawn(t)
  PROVE  TypeInv' /\ RegInv'
<1> DEFINE j == job[t]
           r == j.rec
<1>1. pc[t] = "spawn"
      BY DEF Spawn
<1>2. j \in Jobs /\ Fits(t, "spawn", j, recs, objs) /\ recs \in Nat
      BY <1>1, Here
<1>3. r \in Recs /\ r \in 1..recs
  <2>1. r \in 1..recs
        BY <1>2 DEF Fits
  <2>. QED BY <2>1, Numbers DEF TypeInv, RegTypes, Recs
<1>4. ASSUME NEW p \in Procs, NEW n \in Free, proc[p] = NoProc,
             proc' = [proc EXCEPT ![p] = [port |-> n, rec |-> r, told |-> FALSE]],
             alive' = alive \cup {p}, Goto(t, "commit", [j EXCEPT !.srv = p]),
             UNCHANGED <<done, running, registry, ports>>
      PROVE  TypeInv' /\ RegInv'
  <2> DEFINE k == [j EXCEPT !.srv = p]
  <2>1. k \in Jobs /\ k.op = j.op /\ k.todo = j.todo /\ k.rec = r /\ k.srv = p /\ k.line = j.line
    <3>1. k \in Jobs
          BY <1>2, JobUpdates
    <3>. QED BY <1>2, <3>1 DEF Jobs
  <2>2. "commit" \in Points /\ Fits(t, "commit", k, recs, objs)
        BY <1>2, <2>1 DEF Fits, Points, Working
  <2>3. RegTypes' /\ recs' = recs /\ objs' = objs /\ recs <= recs' /\ objs <= objs'
        BY <1>4 DEF TypeInv, RegTypes, registry
  <2>4. ThreadTypes' /\ \A u \in Threads : JobOK(u)'
        BY <1>4, <2>1, <2>2, <2>3, Moves
  <2>5. n \in Ports
        BY DEF Free
  <2>6. OsTypes'
        BY <1>3, <1>4, <2>5 DEF TypeInv, OsTypes, ports
  <2>7. ProcInv'
    <3>1. proc'[p].port = n /\ proc'[p].rec = r /\ proc'[p] # NoProc
          BY <1>4, <2>5, Numbers DEF TypeInv, OsTypes, NoProc
    <3>2. \A q \in Procs \ {p} : proc'[q] = proc[q]
          BY <1>4 DEF TypeInv, OsTypes
    <3>3. p \notin alive \cup done
          BY <1>4 DEF RegInv, ProcInv
    <3>4. alive' \cap done' = {} /\ \A q \in alive' \cup done' : q \in Procs /\ proc'[q] # NoProc
          BY <1>4, <3>1, <3>2, <3>3 DEF RegInv, ProcInv, TypeInv, OsTypes
    <3>5. \A q \in Procs : proc'[q] = NoProc \/ (proc'[q].port \in Ports /\ proc'[q].rec \in Recs)
          BY <1>3, <2>5, <3>1, <3>2 DEF RegInv, ProcInv
    <3>6. \A q \in Recs : running'[q] # None => q <= recs' /\ proc'[running'[q]] # NoProc
          BY <1>4, <2>3, <3>1, <3>2 DEF RegInv, ProcInv, TypeInv, OsTypes
    <3>. QED BY <3>4, <3>5, <3>6 DEF ProcInv
  <2>8. FreshInv' /\ IndexesAgree'
        BY <1>4 DEF RegInv, FreshInv, IndexesAgree, Used, registry, ports
  <2>. QED BY <2>3, <2>4, <2>6, <2>7, <2>8 DEF TypeInv, RegInv
<1>5. CASE /\ running' = [running EXCEPT ![r] = None]
           /\ StartError(t, r) /\ UNCHANGED <<alive, done, proc>>
  <2>1. running' \in [Recs -> Procs \cup {None}] /\ \A q \in Recs : running'[q] \in {running[q], None}
        BY <1>5 DEF TypeInv, OsTypes
  <2>. QED BY <1>1, <1>3, <1>5, <2>1, StartErrorSafe DEF os
<1>. QED BY <1>4, <1>5 DEF Spawn

LEMMA CommitSafe ==
  ASSUME TypeInv, RegInv, NEW t \in Threads, Commit(t), proc[job[t].srv] # NoProc
  PROVE  TypeInv' /\ RegInv'
<1> DEFINE j == job[t]
           k == [j EXCEPT !.rec = None, !.srv = None]
<1>1. /\ pc[t] = "commit" /\ running' = [running EXCEPT ![j.rec] = j.srv]
      /\ Goto(t, "start", k) /\ UNCHANGED <<registry, ports, os>>
      BY DEF Commit
<1>2. j \in Jobs /\ Fits(t, "commit", j, recs, objs) /\ recs \in Nat
      BY <1>1, Here
<1>3. k \in Jobs /\ k.op = j.op /\ k.todo = j.todo /\ k.line = j.line
  <2>1. k \in Jobs
        BY <1>2, JobUpdates
  <2>. QED BY <1>2, <2>1 DEF Jobs
<1>4. "start" \in Points /\ Fits(t, "start", k, recs, objs)
      BY <1>2, <1>3 DEF Fits, Points, Working
<1>5. RegTypes' /\ recs' = recs /\ objs' = objs /\ recs <= recs' /\ objs <= objs'
      BY <1>1 DEF TypeInv, RegTypes, registry
<1>6. ThreadTypes' /\ \A u \in Threads : JobOK(u)'
      BY <1>1, <1>3, <1>4, <1>5, Moves
<1>7. j.srv \in Procs /\ j.rec \in 1..recs
      BY <1>2 DEF Fits
<1>8. OsTypes'
      BY <1>1, <1>7 DEF TypeInv, OsTypes, ports, os
<1>9. ProcInv'
  <2>1. \A q \in Recs : running'[q] # None => q <= recs' /\ proc'[running'[q]] # NoProc
    <3>1. \A q \in Recs : running'[q] = IF q = j.rec THEN j.srv ELSE running[q]
          BY <1>1 DEF TypeInv, OsTypes
    <3>2. j.rec <= recs
          BY <1>2, <1>7
    <3>. QED BY <1>1, <1>5, <3>1, <3>2 DEF RegInv, ProcInv, os
  <2>. QED BY <1>1, <2>1 DEF RegInv, ProcInv, os
<1>10. FreshInv' /\ IndexesAgree'
       BY <1>1 DEF RegInv, FreshInv, IndexesAgree, Used, registry, ports
<1>. QED BY <1>5, <1>6, <1>8, <1>9, <1>10 DEF TypeInv, RegInv

LEMMA StartedSafe ==
  ASSUME TypeInv, RegInv, NEW t \in Threads, Started(t)
  PROVE  TypeInv' /\ RegInv'
<1> DEFINE j == job[t]
<1>1. pc[t] = "start" /\ UNCHANGED <<registry, running, ports, os>>
      BY DEF Started
<1>2. j \in Jobs /\ Fits(t, "start", j, recs, objs)
      BY <1>1, Here
<1>3. CASE j.op = "boot"
  <2>1. t = Main /\ j.line < ConfigLines /\ j.line \in Lines
        BY <1>2, <1>3 DEF Fits, AdminOps, Jobs
  <2> DEFINE k == [NoJob EXCEPT !.line = j.line + 1]
  <2>2. Goto(t, "boot", k)
        BY <1>3 DEF Started
  <2>3. k \in Jobs
    <3>1. j.line + 1 \in Lines
          BY <2>1, Numbers DEF Lines
    <3>. QED BY <3>1, JobForms
  <2>4. "boot" \in Points /\ Fits(t, "boot", k, recs, objs)
        BY <2>1 DEF Fits, Points
  <2>. QED BY <1>1, <2>2, <2>3, <2>4, QuietStep
<1>4. CASE j.op # "boot"
  <2>1. t # Main
        BY <1>2, <1>4 DEF Fits
  <2>2. Return(t)
        BY <1>4 DEF Started
  <2>. QED BY <1>1, <2>1, <2>2, ReturnStep
<1>. QED BY <1>3, <1>4

\* The entries of a stop are records with their processes.
LEMMA EntriesArePairs ==
  ASSUME TypeInv, NEW S, S \subseteq known
  PROVE  Entries(S) \subseteq Pairs /\ Entries(S) \in SUBSET (Recs \cup Pairs)
BY DEF Entries, Pairs, TypeInv, RegTypes, OsTypes

LEMMA CaptureSafe ==
  ASSUME TypeInv, RegInv, NEW t \in Threads, Capture(t)
  PROVE  TypeInv' /\ RegInv'
<1> DEFINE j == job[t]
<1>1. pc[t] = "capture" /\ UNCHANGED <<registry, running, ports, os>>
      BY DEF Capture
<1>2. j \in Jobs /\ Fits(t, "capture", j, recs, objs) /\ j.target \in Nat
      BY <1>1, Here DEF Jobs
<1>3. CASE StopsAll(t)
  <2> DEFINE T == Entries({r \in known : running[r] # None})
             k == [j EXCEPT !.todo = T]
  <2>1. Goto(t, "stop", k)
        BY <1>3 DEF Capture
  <2>2. T \subseteq Pairs /\ T \in SUBSET (Recs \cup Pairs)
        BY EntriesArePairs
  <2> HIDE DEF T
  <2>3. k \in Jobs /\ k.op = j.op /\ k.todo = T
    <3>1. k \in Jobs
          BY <1>2, <2>2, JobUpdates
    <3>. QED BY <1>2, <3>1 DEF Jobs
  <2>4. "stop" \in Points /\ Fits(t, "stop", k, recs, objs)
        BY <1>2, <1>3, <2>2, <2>3 DEF Fits, Points, Working, StopsAll, AdminOps
  <2>. QED BY <1>1, <2>1, <2>3, <2>4, QuietStep
<1>4. CASE ~StopsAll(t)
  <2>1. t # Main /\ j.op \in AdminOps
        BY <1>1, <1>4, Here
  <2>2. CASE ~Found(j.target)
        BY <1>1, <1>4, <2>1, <2>2, ReturnStep DEF Capture
  <2>3. CASE Found(j.target)
    <3> DEFINE o == table[At(j.target)]
               T == Entries(ToSet(insts[o]) \cap known)
               k == [j EXCEPT !.obj = o, !.todo = T]
    <3>1. Goto(t, "stop", k)
          BY <1>4, <2>3 DEF Capture
    <3>2. o \in Objs
          BY <1>2, <2>3, AtIsUsed DEF Used, TypeInv, RegTypes
    <3>3. T \subseteq Pairs /\ T \in SUBSET (Recs \cup Pairs)
          BY EntriesArePairs
    <3> HIDE DEF T, o
    <3>4. k \in Jobs /\ k.op = j.op /\ k.todo = T
      <4>1. k \in Jobs
            BY <1>2, <3>2, <3>3, JobUpdates
      <4>. QED BY <1>2, <4>1 DEF Jobs
    <3>5. "stop" \in Points /\ Fits(t, "stop", k, recs, objs)
          BY <2>1, <3>3, <3>4 DEF Fits, Points, Working
    <3>. QED BY <1>1, <3>1, <3>4, <3>5, QuietStep
  <2>. QED BY <2>2, <2>3
<1>. QED BY <1>3, <1>4

LEMMA DespawnSafe ==
  ASSUME TypeInv, RegInv, NEW t \in Threads, Despawn(t)
  PROVE  TypeInv' /\ RegInv'
<1> DEFINE j == job[t]
           k == [j EXCEPT !.srv = running[j.rec]]
<1>1. pc[t] = "despawn" /\ UNCHANGED <<registry, running, ports, os>>
      BY DEF Despawn
<1>2. j \in Jobs /\ t # Main /\ j.op \in AdminOps
      BY <1>1, Here DEF Working
<1>3. CASE Return(t)
      BY <1>1, <1>2, <1>3, ReturnStep
<1>4. CASE j.rec \in known /\ Goto(t, "await", k)
  <2>1. running[j.rec] \in Procs \cup {None}
        BY <1>4 DEF TypeInv, RegTypes, OsTypes
  <2>2. k \in Jobs /\ k.op = j.op /\ k.todo = j.todo
    <3>1. k \in Jobs
          BY <1>2, <2>1, JobUpdates
    <3>. QED BY <1>2, <3>1 DEF Jobs
  <2>3. Fits(t, "despawn", j, recs, objs)
        BY <1>1, Here
  <2>4. "await" \in Points /\ Fits(t, "await", k, recs, objs)
        BY <1>2, <2>2, <2>3 DEF Fits, Points, Working
  <2>. QED BY <1>1, <1>4, <2>2, <2>4, QuietStep
<1>. QED BY <1>3, <1>4 DEF Despawn

LEMMA NextEntrySafe ==
  ASSUME TypeInv, RegInv, NEW t \in Threads, NextEntry(t)
  PROVE  TypeInv' /\ RegInv'
<1> DEFINE j == job[t]
<1>1. pc[t] = "stop" /\ UNCHANGED <<running, os>>
      BY DEF NextEntry
<1>2. j \in Jobs /\ Fits(t, "stop", j, recs, objs)
      BY <1>1, Here
<1>3. PICK e \in j.todo :
        LET k == [j EXCEPT !.rec = e[1], !.srv = e[2], !.todo = @ \ {e}] IN
        IF ~StopsAll(t) /\ e[2] \notin alive
          THEN RemoveRecords({e[1]}, table) /\ Goto(t, "stop", k)
          ELSE Goto(t, "await", k) /\ UNCHANGED <<registry, ports>>
      BY DEF NextEntry
<1> DEFINE k == [j EXCEPT !.rec = e[1], !.srv = e[2], !.todo = @ \ {e}]
<1>4. k \in Jobs /\ k.op = j.op /\ k.todo = j.todo \ {e}
  <2>1. e[1] \in Recs /\ e[2] \in Procs \cup {None} /\ j.todo \ {e} \in SUBSET (Recs \cup Pairs)
        BY <1>2 DEF Fits, Pairs
  <2>2. k \in Jobs
        BY <1>2, <2>1, JobUpdates
  <2>. QED BY <1>2, <2>2 DEF Jobs
<1>5. \A at \in {"stop", "await"} : at \in Points /\ Fits(t, at, k, recs, objs)
      BY <1>2, <1>4 DEF Fits, Points, Working
<1>6. CASE RemoveRecords({e[1]}, table) /\ Goto(t, "stop", k)
  <2>1. /\ table \in [Lines -> Objs \cup {None}] /\ \A l \in Lines : table[l] \in {table[l], None}
        /\ running' \in [Recs -> Procs \cup {None}] /\ \A q \in Recs : running'[q] \in {running[q], None}
        BY <1>1 DEF TypeInv, RegTypes, OsTypes
  <2>. QED BY <1>1, <1>4, <1>5, <1>6, <2>1, RemoveStep DEF os
<1>7. CASE Goto(t, "await", k) /\ UNCHANGED <<registry, ports>>
      BY <1>1, <1>4, <1>5, <1>7, QuietStep
<1>. QED BY <1>3, <1>6, <1>7

LEMMA AwaitSafe ==
  ASSUME TypeInv, RegInv, NEW t \in Threads, AwaitExit(t) \/ GiveUp(t)
  PROVE  TypeInv' /\ RegInv'
<1> DEFINE j == job[t]
<1>1. pc[t] = "await" /\ UNCHANGED <<registry, ports>>
      BY DEF AwaitExit, GiveUp
<1>2. j \in Jobs /\ Fits(t, "await", j, recs, objs)
      BY <1>1, Here
<1>3. CASE AwaitExit(t)
  <2> DEFINE at == IF StopsAll(t) THEN "stop" ELSE "forget"
  <2>1. Goto(t, at, j) /\ done' \subseteq done /\ UNCHANGED <<alive, proc>>
        BY <1>3 DEF AwaitExit
  <2>2. running' \in [Recs -> Procs \cup {None}] /\ \A q \in Recs : running'[q] \in {running[q], None}
        BY <1>3 DEF AwaitExit, TypeInv, OsTypes
  <2>3. StopsAll(t) \/ t # Main
        BY <1>1, Here
  <2>4. at \in Points /\ Fits(t, at, j, recs, objs)
        BY <1>2, <2>3 DEF Fits, Points, Working
  <2>. QED BY <1>1, <1>2, <2>1, <2>2, <2>4, ClearStep
<1>4. CASE GiveUp(t)
  <2>0. UNCHANGED <<running, os>>
        BY <1>4 DEF GiveUp
  <2>1. CASE StopsAll(t)
    <3> DEFINE k == [j EXCEPT !.failed = TRUE]
    <3>1. k \in Jobs /\ k.op = j.op /\ k.todo = j.todo
      <4>1. k \in Jobs
            BY <1>2, JobUpdates
      <4>. QED BY <1>2, <4>1 DEF Jobs
    <3>2. Goto(t, "stop", k)
          BY <1>4, <2>1 DEF GiveUp
    <3>3. "stop" \in Points /\ Fits(t, "stop", k, recs, objs)
          BY <1>2, <3>1 DEF Fits, Points, Working
    <3>. QED BY <1>1, <2>0, <3>1, <3>2, <3>3, QuietStep
  <2>2. CASE ~StopsAll(t)
    <3>1. t # Main
          BY <1>1, <2>2, Here
    <3>. QED BY <1>1, <1>4, <2>0, <2>2, <3>1, ReturnStep DEF GiveUp
  <2>. QED BY <2>1, <2>2
<1>. QED BY <1>3, <1>4

LEMMA ForgetSafe ==
  ASSUME TypeInv, RegInv, NEW t \in Threads, Forget(t)
  PROVE  TypeInv' /\ RegInv'
<1> DEFINE j == job[t]
<1>1. pc[t] = "forget" /\ UNCHANGED <<running, os>>
      BY DEF Forget
<1>2. j \in Jobs /\ Fits(t, "forget", j, recs, objs) /\ t # Main /\ j.op \in AdminOps
      BY <1>1, Here DEF Working
<1>3. PICK at \in Points, k \in Jobs : Goto(t, at, k) /\ Fits(t, at, k, recs, objs)
  <2>1. CASE j.op = "despawn"
    <3>1. Return(t)
          BY <2>1 DEF Forget
    <3>2. {"find", "capture", "idle"} \subseteq Points
          BY DEF Points, Working
    <3>. QED BY <1>2, <3>1, <3>2, Returns
  <2>2. CASE j.op # "despawn"
    <3>1. Goto(t, "stop", j)
          BY <2>2 DEF Forget
    <3>2. "stop" \in Points /\ Fits(t, "stop", j, recs, objs)
          BY <1>2 DEF Fits, Points, Working
    <3>. QED BY <1>2, <3>1, <3>2
  <2>. QED BY <2>1, <2>2
<1>4. CASE UNCHANGED <<registry, ports>>
      BY <1>1, <1>3, <1>4, QuietStep
<1>5. CASE RemoveRecords({j.rec}, table)
  <2>1. /\ table \in [Lines -> Objs \cup {None}] /\ \A l \in Lines : table[l] \in {table[l], None}
        /\ running' \in [Recs -> Procs \cup {None}] /\ \A q \in Recs : running'[q] \in {running[q], None}
        BY <1>1 DEF TypeInv, RegTypes, OsTypes
  <2>. QED BY <1>1, <1>3, <1>5, <2>1, RemoveStep DEF os
<1>. QED BY <1>4, <1>5 DEF Forget

LEMMA StoppedSafe ==
  ASSUME TypeInv, RegInv, NEW t \in Threads, Stopped(t)
  PROVE  TypeInv' /\ RegInv'
<1> DEFINE j == job[t]
<1>1. pc[t] = "stop" /\ UNCHANGED <<registry, running, ports, os>>
      BY DEF Stopped
<1>2. j \in Jobs /\ Fits(t, "stop", j, recs, objs)
      BY <1>1, Here
<1>3. CASE StopsAll(t)
  <2>1. t = Main
        BY <1>3, Here
  <2>2. Goto(t, "close", j)
        BY <1>3 DEF Stopped, StopsAll
  <2>3. "close" \in Points /\ Fits(t, "close", j, recs, objs)
        BY <1>3, <2>1 DEF Fits, Points, StopsAll
  <2>. QED BY <1>1, <1>2, <2>2, <2>3, QuietStep
<1>4. CASE ~StopsAll(t)
  <2>1. t # Main /\ j.op \in AdminOps
        BY <1>1, <1>4, Here
  <2>2. CASE j.op = "restart"
    <3>1. Goto(t, "find", j)
          BY <1>4, <2>2 DEF Stopped
    <3>2. "find" \in Points /\ Fits(t, "find", j, recs, objs)
          BY <2>1 DEF Fits, Points, Working
    <3>. QED BY <1>1, <1>2, <3>1, <3>2, QuietStep
  <2>3. CASE j.op # "restart"
        BY <1>1, <1>4, <2>1, <2>3, ReturnStep DEF Stopped
  <2>. QED BY <2>2, <2>3
<1>. QED BY <1>3, <1>4

LEMMA RemoveServerSafe ==
  ASSUME TypeInv, RegInv, NEW t \in Threads, RemoveServer(t)
  PROVE  TypeInv' /\ RegInv'
<1> DEFINE j == job[t]
<1>1. pc[t] = "remove" /\ UNCHANGED os /\ Return(t)
      BY DEF RemoveServer
<1>2. j \in Jobs /\ t # Main /\ j.target \in Nat
      BY <1>1, Here DEF Working, Jobs
<1>3. CASE ~Found(j.target)
      BY <1>1, <1>2, <1>3, ReturnStep DEF RemoveServer
<1>4. CASE Found(j.target)
  <2> DEFINE l == At(j.target)
             o == table[l]
             tbl == IF Cleared(o) = ToSet(insts[o]) THEN [table EXCEPT ![l] = None] ELSE table
  <2>1. /\ running' = [r \in Recs |-> IF r \in Cleared(o) THEN None ELSE running[r]]
        /\ RemoveRecords(Cleared(o), tbl)
        BY <1>4 DEF RemoveServer
  <2>2. tbl \in [Lines -> Objs \cup {None}] /\ \A i \in Lines : tbl[i] \in {table[i], None}
        BY DEF TypeInv, RegTypes
  <2>3. running' \in [Recs -> Procs \cup {None}] /\ \A q \in Recs : running'[q] \in {running[q], None}
        BY <2>1 DEF TypeInv, OsTypes
  <2>4. PICK at \in Points, k \in Jobs : Goto(t, at, k) /\ Fits(t, at, k, recs, objs)
    <3>1. {"find", "capture", "idle"} \subseteq Points
          BY DEF Points, Working
    <3>. QED BY <1>1, <1>2, <3>1, Returns
  <2> HIDE DEF tbl
  <2>. QED BY <1>1, <2>1, <2>2, <2>3, <2>4, RemoveStep DEF os
<1>. QED BY <1>3, <1>4

LEMMA ExitSafe ==
  ASSUME TypeInv, RegInv, NEW p \in Procs, Exit(p)
  PROVE  TypeInv' /\ RegInv'
<1>1. /\ p \in alive /\ alive' = alive \ {p} /\ done' = done \cup {p}
      /\ UNCHANGED <<registry, running, ports, proc, threads>>
      BY DEF Exit
<1>2. TypeInv'
      BY <1>1 DEF TypeInv, RegTypes, OsTypes, ThreadTypes, JobOK, registry, ports, threads
<1>3. ProcInv'
      BY <1>1 DEF RegInv, ProcInv, registry
<1>4. FreshInv' /\ IndexesAgree'
      BY <1>1 DEF RegInv, FreshInv, IndexesAgree, Used, registry, ports
<1>. QED BY <1>2, <1>3, <1>4 DEF RegInv

\* assignPortLocked: a report that comes late, for a record that has a port by
\* now, changes nothing.
LEMMA PortSafe ==
  ASSUME TypeInv, RegInv, NEW p \in Procs, UpdatePort(p)
  PROVE  TypeInv' /\ RegInv' /\ \A q \in Procs : proc[q] # NoProc => proc'[q] # NoProc
<1> DEFINE r == proc[p].rec
           n == proc[p].port
<1>1. /\ ~proc[p].told /\ proc' = [proc EXCEPT ![p].told = TRUE]
      /\ \/ port[r] # None /\ UNCHANGED ports
         \/ /\ port[r] = None /\ port' = [port EXCEPT ![r] = n]
            /\ byPort' = [byPort EXCEPT ![n] = @ \cup {r}]
      /\ UNCHANGED <<registry, running, alive, done, threads>>
      BY DEF UpdatePort
<1>2. proc[p] # NoProc /\ r \in Recs /\ n \in Ports
      BY <1>1 DEF RegInv, ProcInv, NoProc
<1>3. /\ proc' \in [Procs -> [port : Ports \cup {None}, rec : Recs \cup {None}, told : BOOLEAN]]
      /\ proc'[p].port = n /\ proc'[p].rec = r
      /\ \A q \in Procs \ {p} : proc'[q] = proc[q]
  <2>1. proc \in [Procs -> [port : Ports \cup {None}, rec : Recs \cup {None}, told : BOOLEAN]]
        BY DEF TypeInv, OsTypes
  <2>2. PICK u : u = [proc[p] EXCEPT !.told = TRUE]
        OBVIOUS
  <2>3. /\ u \in [port : Ports \cup {None}, rec : Recs \cup {None}, told : BOOLEAN]
        /\ u.port = n /\ u.rec = r
        BY <2>1, <2>2
  <2>4. proc' = [proc EXCEPT ![p] = u]
        BY <1>1, <2>2
  <2>. QED BY <2>1, <2>3, <2>4
<1>4. proc'[p] # NoProc
      BY <1>2, <1>3, Numbers DEF NoProc
<1>5. port' \in [Recs -> Ports \cup {None}] /\ byPort' \in [Ports -> SUBSET Recs]
      BY <1>1, <1>2 DEF TypeInv, OsTypes, ports
<1>6. TypeInv'
      BY <1>1, <1>3, <1>5 DEF TypeInv, RegTypes, OsTypes, ThreadTypes, JobOK, registry, threads
<1>7. ProcInv'
  <2>1. \A q \in Procs : proc'[q] = NoProc \/ (proc'[q].port \in Ports /\ proc'[q].rec \in Recs)
        BY <1>2, <1>3 DEF RegInv, ProcInv
  <2>2. \A q \in Procs : proc[q] # NoProc => proc'[q] # NoProc
        BY <1>3, <1>4
  <2>3. \A q \in alive' \cup done' : proc'[q] # NoProc
        BY <1>1, <2>2 DEF RegInv, ProcInv, TypeInv, OsTypes
  <2>4. \A q \in Recs : running'[q] # None => q <= recs' /\ proc'[running'[q]] # NoProc
        BY <1>1, <2>2 DEF RegInv, ProcInv, TypeInv, OsTypes, registry
  <2>. QED BY <1>1, <2>1, <2>3, <2>4 DEF RegInv, ProcInv
<1>8. FreshInv'
      BY <1>1 DEF RegInv, FreshInv, Used, registry
<1>9. \A i \in Ports : \A q \in byPort'[i] : port'[q] = i
  <2>1. \A i \in Ports : \A q \in byPort[i] : q \in Recs /\ port[q] = i
        BY DEF RegInv, IndexesAgree, TypeInv, OsTypes
  <2>2. CASE UNCHANGED ports
        BY <2>1, <2>2 DEF ports
  <2>3. CASE /\ port[r] = None /\ port' = [port EXCEPT ![r] = n]
             /\ byPort' = [byPort EXCEPT ![n] = @ \cup {r}]
    <3>1. \A i \in Ports : r \notin byPort[i]
          BY <2>1, <2>3, Numbers
    <3>2. port'[r] = n /\ \A q \in Recs \ {r} : port'[q] = port[q]
          BY <1>2, <2>3 DEF TypeInv, OsTypes
    <3>3. \A i \in Ports : \A q \in byPort'[i] : q \in byPort[i] \/ (q = r /\ i = n)
          BY <1>2, <2>3 DEF TypeInv, OsTypes
    <3> HIDE DEF r, n
    <3>4. ASSUME NEW i \in Ports, NEW q \in byPort'[i] PROVE port'[q] = i
      <4>1. CASE q \in byPort[i]
        <5>1. q \in Recs \ {r} /\ port[q] = i
              BY <2>1, <3>1, <4>1
        <5>. QED BY <3>2, <5>1
      <4>2. CASE q = r /\ i = n
            BY <3>2, <4>2
      <4>. QED BY <3>3, <4>1, <4>2
    <3>. QED BY <3>4
  <2>. QED BY <1>1, <2>2, <2>3
<1>10. IndexesAgree'
       BY <1>1, <1>9 DEF RegInv, IndexesAgree, Used, registry
<1>. QED BY <1>3, <1>4, <1>6, <1>7, <1>8, <1>10 DEF RegInv

LEMMA MainSafe ==
  ASSUME TypeInv, RegInv, Boot \/ Shutdown \/ Drained
  PROVE  TypeInv' /\ RegInv'
<1>0. Main \in Threads
      BY DEF Threads
<1>1. UNCHANGED <<registry, running, ports, os>>
      BY DEF Boot, Shutdown, Drained
<1>2. job[Main] \in Jobs /\ job[Main].line \in Lines
      BY <1>0, Here DEF Jobs
<1>3. \E at \in Points, k \in Jobs : Goto(Main, at, k) /\ Fits(Main, at, k, recs, objs)
  <2>1. CASE Boot
    <3> DEFINE l == job[Main].line
               k == [NoJob EXCEPT !.op = "boot", !.line = l]
    <3>1. CASE l < ConfigLines
      <4>1. Goto(Main, "register", k)
            BY <2>1, <3>1 DEF Boot
      <4>2. k \in Jobs /\ k.op = "boot" /\ k.line = l
            BY <1>2, JobForms DEF NoJob, MainOps
      <4>3. l <= objs + ConfigLines
            BY <1>2, <3>1, Numbers DEF TypeInv, RegTypes
      <4>4. "register" \in Points /\ Fits(Main, "register", k, recs, objs)
            BY <3>1, <4>2, <4>3 DEF Fits, Points, Working
      <4>. QED BY <4>1, <4>2, <4>4
    <3>2. CASE ~(l < ConfigLines)
      <4>1. Goto(Main, "serve", NoJob)
            BY <2>1, <3>2 DEF Boot
      <4>2. "serve" \in Points /\ Fits(Main, "serve", NoJob, recs, objs)
            BY DEF Fits, Points
      <4>. QED BY <4>1, <4>2, JobForms
    <3>. QED BY <3>1, <3>2
  <2>2. CASE Shutdown
    <3>1. Goto(Main, "shutdown", NoJob)
          BY <2>2 DEF Shutdown
    <3>2. "shutdown" \in Points /\ Fits(Main, "shutdown", NoJob, recs, objs)
          BY DEF Fits, Points
    <3>. QED BY <3>1, <3>2, JobForms
  <2>3. CASE Drained
    <3> DEFINE k == [NoJob EXCEPT !.op = "stopall"]
    <3>1. Goto(Main, "capture", k)
          BY <2>3 DEF Drained
    <3>2. k \in Jobs /\ k.op = "stopall"
          BY JobForms DEF NoJob, MainOps
    <3>3. "capture" \in Points /\ Fits(Main, "capture", k, recs, objs)
          BY <3>2 DEF Fits, Points, Working
    <3>. QED BY <3>1, <3>2, <3>3
  <2>. QED BY <2>1, <2>2, <2>3
<1>. QED BY <1>0, <1>1, <1>3, QuietStep

\* closeServerRegistry empties the table and forgets the owners.
LEMMA CloseSafe ==
  ASSUME TypeInv, RegInv, Close
  PROVE  TypeInv' /\ RegInv'
<1>0. Main \in Threads
      BY DEF Threads
<1>1. /\ table' = [l \in Lines |-> None] /\ owner' = [r \in Recs |-> None]
      /\ pc' = [pc EXCEPT ![Main] = "closed"]
      /\ UNCHANGED <<insts, known, objs, recs, running, ports, os, job>>
      BY DEF Close
<1>2. RegTypes' /\ OsTypes' /\ recs <= recs' /\ objs <= objs' /\ recs' = recs /\ objs' = objs
      BY <1>1 DEF TypeInv, RegTypes, OsTypes, ports, os
<1>3. ThreadTypes' /\ \A u \in Threads : JobOK(u)'
  <2>1. Goto(Main, "closed", job[Main])
        BY <1>1 DEF Goto, TypeInv, ThreadTypes
  <2>2. job[Main] \in Jobs
        BY <1>0, Here
  <2>3. "closed" \in Points /\ Fits(Main, "closed", job[Main], recs', objs')
        BY DEF Fits, Points
  <2>. QED BY <1>0, <1>2, <2>1, <2>2, <2>3, Moves
<1>4. Used' = {}
      BY <1>1 DEF Used
<1>5. ProcInv'
      BY <1>1 DEF RegInv, ProcInv, os
<1>6. FreshInv'
      BY <1>1, <1>4 DEF RegInv, FreshInv
<1>7. IndexesAgree'
      BY <1>1, <1>4 DEF RegInv, IndexesAgree, ports
<1>. QED BY <1>2, <1>3, <1>5, <1>6, <1>7 DEF TypeInv, RegInv

\* Every step but Spawn takes its thread somewhere else than to "commit".
Elsewhere(t) == (\E at, k : at # "commit" /\ Goto(t, at, k)) /\ UNCHANGED proc

LEMMA OnlySpawnCommits ==
  ASSUME TypeInv, NEW t \in Threads, Step(t), ~Spawn(t)
  PROVE  Elsewhere(t)
<1>1. ASSUME Return(t) PROVE \E at, k : at # "commit" /\ Goto(t, at, k)
      BY <1>1 DEF Return
<1>2. ASSUME NEW r, StartError(t, r) PROVE \E at, k : at # "commit" /\ Goto(t, at, k)
      BY <1>1, <1>2 DEF StartError
<1>3. CASE Begin(t)
  <2>1. PICK op, target, last :
          /\ op \in Ops /\ op \notin {"launch"}
          /\ Goto(t, CASE op = "start"               -> "find"
                       [] op \in {"stop", "restart"} -> "capture"
                       [] op = "remove"              -> "remove",
                  [NoJob EXCEPT !.op = op, !.target = target, !.last = last])
        BY <1>3 DEF Begin
  <2>2. op \in {"start", "stop", "restart", "remove"}
        BY <2>1
  <2>. QED BY <1>3, <2>1, <2>2 DEF Begin, Elsewhere, os
<1>4. CASE BeginLaunch(t) \/ BeginScale(t)
      BY <1>4 DEF BeginLaunch, BeginScale, Elsewhere, os
<1>5. CASE PickLine(t) \/ RegisterLaunch(t)
      BY <1>5 DEF PickLine, RegisterLaunch, Elsewhere, os
<1>6. CASE Find(t)
      BY <1>1, <1>6 DEF Find, Elsewhere, os
<1>7. CASE AppendRecord(t)
      BY <1>1, <1>7 DEF AppendRecord, Elsewhere, os
<1>8. CASE CheckRecord(t)
      BY <1>2, <1>8 DEF CheckRecord, AlreadyRunning, Elsewhere, os
<1>9. CASE Commit(t) \/ Started(t)
      BY <1>1, <1>9 DEF Commit, Started, Elsewhere, os
<1>10. CASE Capture(t) \/ Despawn(t)
       BY <1>1, <1>10 DEF Capture, Despawn, Elsewhere, os
<1>11. CASE NextEntry(t)
       BY <1>11 DEF NextEntry, Elsewhere, os
<1>12. CASE AwaitExit(t) \/ GiveUp(t)
       BY <1>1, <1>12 DEF AwaitExit, GiveUp, Elsewhere, os
<1>13. CASE Forget(t)
       BY <1>1, <1>13 DEF Forget, Elsewhere, os
<1>14. CASE Stopped(t)
       BY <1>1, <1>14 DEF Stopped, Elsewhere, os
<1>15. CASE RemoveServer(t)
       BY <1>1, <1>15 DEF RemoveServer, Elsewhere, os
<1>. QED BY <1>3, <1>4, <1>5, <1>6, <1>7, <1>8, <1>9, <1>10, <1>11, <1>12, <1>13, <1>14, <1>15
         DEF Step

LEMMA ElsewhereSafe ==
  ASSUME TypeInv, CommitInv, NEW t \in Threads, Elsewhere(t)
  PROVE  CommitInv'
<1>1. PICK at, k : at # "commit" /\ pc' = [pc EXCEPT ![t] = at] /\ job' = [job EXCEPT ![t] = k]
      BY DEF Elsewhere, Goto
<1>2. pc'[t] = at /\ \A u \in Threads \ {t} : pc'[u] = pc[u] /\ job'[u] = job[u]
      BY <1>1 DEF TypeInv, ThreadTypes
<1>. QED BY <1>1, <1>2 DEF CommitInv, Elsewhere

LEMMA SpawnCommits ==
  ASSUME TypeInv, RegInv, CommitInv, NEW t \in Threads, Spawn(t)
  PROVE  CommitInv'
<1> DEFINE j == job[t]
<1>1. j \in Jobs /\ pc[t] = "spawn"
      BY Here DEF Spawn
<1>2. CASE StartError(t, j.rec) /\ UNCHANGED proc
  <2>1. \E at, k : at # "commit" /\ Goto(t, at, k)
        BY <1>2 DEF StartError, Return
  <2>. QED BY <1>2, <2>1, ElsewhereSafe DEF Elsewhere
<1>3. CASE \E p \in Procs, n \in Free :
             /\ proc[p] = NoProc
             /\ proc' = [proc EXCEPT ![p] = [port |-> n, rec |-> j.rec, told |-> FALSE]]
             /\ Goto(t, "commit", [j EXCEPT !.srv = p])
  <2>1. PICK p \in Procs, n \in Free :
             /\ proc[p] = NoProc
             /\ proc' = [proc EXCEPT ![p] = [port |-> n, rec |-> j.rec, told |-> FALSE]]
             /\ Goto(t, "commit", [j EXCEPT !.srv = p])
        BY <1>3
  <2>2. proc'[p] # NoProc /\ \A q \in Procs \ {p} : proc'[q] = proc[q]
        BY <2>1 DEF NoProc, TypeInv, OsTypes
  <2>3. /\ job'[t] = [j EXCEPT !.srv = p]
        /\ \A u \in Threads \ {t} : pc'[u] = pc[u] /\ job'[u] = job[u]
        BY <2>1 DEF Goto, TypeInv, ThreadTypes
  <2>4. job'[t].srv = p
        BY <1>1, <2>3 DEF Jobs
  <2>5. \A u \in Threads : pc[u] = "commit" => job[u].srv \in Procs
        BY DEF TypeInv, JobOK, Fits
  <2>6. ASSUME NEW u \in Threads, pc'[u] = "commit" PROVE proc'[job'[u].srv] # NoProc
    <3>1. CASE u = t
          BY <2>2, <2>4, <3>1
    <3>2. CASE u # t
      <4>1. pc[u] = "commit" /\ job'[u].srv = job[u].srv /\ job[u].srv \in Procs
            BY <2>3, <2>5, <2>6, <3>2
      <4>2. proc[job[u].srv] # NoProc
            BY <4>1 DEF CommitInv
      <4>. QED BY <2>2, <4>1, <4>2
    <3>. QED BY <3>1, <3>2
  <2>. QED BY <2>6 DEF CommitInv
<1>. QED BY <1>2, <1>3 DEF Spawn

LEMMA SafeNext == SafeInv /\ [Next]_vars => SafeInv'
<1> SUFFICES ASSUME SafeInv, [Next]_vars PROVE SafeInv'
    OBVIOUS
<1>0. TypeInv /\ RegInv /\ CommitInv /\ Main \in Threads
      BY DEF SafeInv, Threads
<1>1. ASSUME NEW t \in Threads, Step(t) PROVE SafeInv'
  <2>1. TypeInv' /\ RegInv'
    <3>1. CASE Commit(t)
      <4>1. proc[job[t].srv] # NoProc
            BY <1>0, <3>1 DEF CommitInv, Commit
      <4>. QED BY <1>0, <3>1, <4>1, CommitSafe
    <3>2. CASE ~Commit(t)
          BY <1>0, <1>1, <3>2, BeginSafe, LaunchSafe, FindSafe, AppendSafe, CheckSafe, SpawnSafe,
             StartedSafe, CaptureSafe, DespawnSafe, NextEntrySafe, AwaitSafe, ForgetSafe,
             StoppedSafe, RemoveServerSafe
          DEF Step
    <3>. QED BY <3>1, <3>2
  <2>2. CommitInv'
        BY <1>0, <1>1, OnlySpawnCommits, ElsewhereSafe, SpawnCommits
  <2>. QED BY <2>1, <2>2 DEF SafeInv
<1>2. ASSUME NEW p \in Procs, Exit(p) PROVE SafeInv'
  <2>1. CommitInv'
        BY <1>0, <1>2 DEF Exit, CommitInv, threads
  <2>. QED BY <1>0, <1>2, <2>1, ExitSafe DEF SafeInv
<1>3. ASSUME NEW p \in Procs, UpdatePort(p) PROVE SafeInv'
  <2>1. TypeInv' /\ RegInv' /\ \A q \in Procs : proc[q] # NoProc => proc'[q] # NoProc
        BY <1>0, <1>3, PortSafe
  <2>2. \A u \in Threads : pc[u] = "commit" => job[u].srv \in Procs
        BY <1>0 DEF TypeInv, JobOK, Fits
  <2>3. CommitInv'
        BY <1>0, <1>3, <2>1, <2>2 DEF UpdatePort, CommitInv, threads
  <2>. QED BY <2>1, <2>3 DEF SafeInv
<1>4. CASE Boot \/ Shutdown \/ Drained
  <2>1. Elsewhere(Main)
        BY <1>4 DEF Boot, Shutdown, Drained, Elsewhere, os
  <2>. QED BY <1>0, <1>4, <2>1, MainSafe, ElsewhereSafe DEF SafeInv
<1>5. CASE Close
  <2>1. CommitInv'
        BY <1>0, <1>5 DEF Close, CommitInv, TypeInv, ThreadTypes, os
  <2>. QED BY <1>0, <1>5, <2>1, CloseSafe DEF SafeInv
<1>6. CASE UNCHANGED vars
  <2>1. TypeInv' /\ CommitInv'
        BY <1>0, <1>6 DEF vars, registry, ports, os, threads, TypeInv, RegTypes, OsTypes,
           ThreadTypes, JobOK, CommitInv
  <2>2. RegInv'
        BY <1>0, <1>6 DEF vars, registry, ports, os, RegInv, ProcInv, FreshInv, IndexesAgree, Used
  <2>. QED BY <2>1, <2>2 DEF SafeInv
<1>. QED BY <1>1, <1>2, <1>3, <1>4, <1>5, <1>6 DEF Next

LEMMA SafeInit == Init => SafeInv
<1> SUFFICES ASSUME Init PROVE SafeInv
    OBVIOUS
<1>1. RegTypes /\ OsTypes
      BY Numbers, EmptySeq DEF Init, RegTypes, OsTypes, NoProc
<1>2. ThreadTypes /\ \A t \in Threads : JobOK(t)
      BY JobForms DEF Init, ThreadTypes, JobOK, Fits, Points, Working, NoJob, AdminOps
<1>3. Used = {}
      BY DEF Init, Used
<1>4. ProcInv
      BY DEF Init, ProcInv
<1>5. \A o \in Objs : IsInjective(insts[o]) /\ ToSet(insts[o]) = {}
      BY DEF Init, IsInjective, ToSet
<1>6. FreshInv /\ IndexesAgree
      BY <1>3, <1>5 DEF Init, FreshInv, IndexesAgree
<1>7. CommitInv
      BY DEF Init, CommitInv
<1>. QED BY <1>1, <1>2, <1>4, <1>6, <1>7 DEF SafeInv, TypeInv, RegInv

\* registry.go, ops.go, state.go: however requests, the autoscaler, boot, shutdown
\* and late port reports interleave, the maps of the registry agree.
THEOREM RegistryIsConsistent == Spec => []IndexesAgree
<1>1. SafeInv => IndexesAgree
      BY DEF SafeInv, RegInv
<1>. QED BY <1>1, SafeInit, SafeNext, PTL DEF Spec
-----------------------------------------------------------------------------
(* Operations that do not overlap *)

LEMMA SoleNext ==
  ASSUME ~(Cardinality(Busy') > 1) PROVE Sole'
<1>1. IsFiniteSet(Threads)
  <2>1. IsFiniteSet({Main})
        BY FS_Singleton
  <2>2. IsFiniteSet({Main} \cup Admins)
        BY <2>1, FS_Union
  <2>3. IsFiniteSet(({Main} \cup Admins) \cup Scaler)
        BY <2>2, FS_Union
  <2>. QED BY <2>3 DEF Threads
<1>2. IsFiniteSet(Busy')
  <2>1. Busy' \subseteq Threads
        BY DEF Busy
  <2>. QED BY <1>1, <2>1, FS_Subset
<1>3. ASSUME NEW t \in Busy', NEW u \in Busy', t # u PROVE FALSE
  <2>1. IsFiniteSet({t}) /\ Cardinality({t}) = 1
        BY FS_Singleton
  <2>2. Cardinality({t} \cup {u}) = 2
    <3>1. u \notin {t}
          BY <1>3
    <3>2. Cardinality({t} \cup {u}) = Cardinality({t}) + 1
          BY <2>1, <3>1, FS_AddElement
    <3>. QED BY <2>1, <3>2
  <2>3. Cardinality({t} \cup {u}) <= Cardinality(Busy') /\ Cardinality(Busy') \in Nat
    <3>1. {t} \cup {u} \subseteq Busy'
          OBVIOUS
    <3>. QED BY <1>2, <3>1, FS_Subset, FS_CardinalityType
  <2>. QED BY <2>2, <2>3
<1>. QED BY <1>3 DEF Sole

\* While a thread is at work, or begins, every other one waits.
LEMMA OthersWait ==
  ASSUME TypeInv, Sole, Sole', NEW t \in Threads, NEW at, NEW k, Goto(t, at, k),
         pc[t] \notin Waiting \/ at \notin Waiting
  PROVE  /\ pc'[t] = at /\ job'[t] = k
         /\ \A u \in Threads \ {t} : pc'[u] = pc[u] /\ job'[u] = job[u] /\ pc[u] \in Waiting
<1>1. /\ pc'[t] = at /\ job'[t] = k
      /\ \A u \in Threads \ {t} : pc'[u] = pc[u] /\ job'[u] = job[u]
      BY DEF Goto, TypeInv, ThreadTypes
<1>2. ASSUME NEW u \in Threads \ {t}, pc[u] \notin Waiting PROVE FALSE
  <2>1. u \in Busy /\ u \in Busy' /\ (t \in Busy \/ t \in Busy')
        BY <1>1, <1>2 DEF Busy, Waiting
  <2>. QED BY <1>2, <2>1 DEF Sole
<1>. QED BY <1>1, <1>2

\* A thread that waits has nothing to lose, except that main has closed.
LEMMA WaitingIsLocal ==
  ASSUME NEW t, NEW at \in Waiting \ {"closed"}, NEW j
  PROVE  LocalAt(t, at, j)
BY DEF LocalAt, Waiting

LEMMA LocalOfOthers ==
  ASSUME TypeInv, NEW t \in Threads, NEW at, NEW k,
         pc'[t] = at, job'[t] = k, at # "closed", pc[Main] # "closed",
         \A u \in Threads \ {t} : pc'[u] = pc[u] /\ job'[u] = job[u] /\ pc[u] \in Waiting,
         LocalAt(t, at, k)'
  PROVE  ClosedInv' /\ \A u \in Threads : Local(u)'
<1>1. \A u \in Threads : u # Main => pc[u] # "closed"
      BY DEF TypeInv, JobOK, Fits, Working
<1>2. Main \in Threads
      BY DEF Threads
<1>3. ClosedInv'
      BY <1>2 DEF ClosedInv
<1>4. Local(t)'
      BY DEF Local
<1>5. ASSUME NEW u \in Threads \ {t} PROVE Local(u)'
  <2>1. pc'[u] \in Waiting \ {"closed"}
        BY <1>1, <1>5
  <2>2. LocalAt(u, pc[u], job[u])'
        BY <2>1 DEF LocalAt, Waiting
  <2>. QED BY <2>2 DEF Local
<1>. QED BY <1>3, <1>4, <1>5

\* Nothing moves once main has closed.
LEMMA NotClosed ==
  ASSUME ClosedInv, NEW t \in Threads, Step(t)
  PROVE  pc[Main] # "closed"
<1>1. CASE Begin(t) \/ BeginLaunch(t) \/ BeginScale(t)
      BY <1>1 DEF Begin, BeginLaunch, BeginScale, Serving
<1>2. CASE ~(Begin(t) \/ BeginLaunch(t) \/ BeginScale(t))
  <2>1. pc[t] # "idle" /\ pc[t] # "closed"
        BY <1>2 DEF Step, PickLine, RegisterLaunch, Find, AppendRecord, CheckRecord, Spawn, Commit,
           Started, Capture, Despawn, NextEntry, AwaitExit, GiveUp, Forget, Stopped, RemoveServer
  <2>. QED BY <2>1 DEF ClosedInv
<1>. QED BY <1>1, <1>2

\* A step that moves the only thread and touches neither the registry nor a process.
LEMMA QuietAlone ==
  ASSUME SafeInv, Alone, Sole', pc[Main] # "closed", UNCHANGED <<registry, running, alive>>,
         NEW t \in Threads, NEW at, NEW k, Goto(t, at, k),
         pc[t] \notin Waiting \/ at \notin Waiting,
         pc[t] # "commit", at \notin {"commit", "closed"}, LocalAt(t, at, k)
  PROVE  Alone'
<1>0. TypeInv /\ Sole
      BY DEF SafeInv, Alone
<1>1. /\ pc'[t] = at /\ job'[t] = k
      /\ \A u \in Threads \ {t} : pc'[u] = pc[u] /\ job'[u] = job[u] /\ pc[u] \in Waiting
      BY <1>0, OthersWait
<1>2. Starting = {} /\ Starting' = {}
      BY <1>1 DEF Starting, Waiting
<1>3. Kept' /\ Placed'
      BY <1>2 DEF Alone, Kept, Placed, Used, registry
<1>4. LocalAt(t, at, k)'
      BY DEF LocalAt, Used, Found, At, registry
<1>5. ClosedInv' /\ \A u \in Threads : Local(u)'
      BY <1>0, <1>1, <1>4, LocalOfOthers
<1>. QED BY <1>3, <1>5 DEF Alone

\* Where an operation returns to, nothing has to hold.
LEMMA ReturnAlone ==
  ASSUME SafeInv, Alone, Sole', pc[Main] # "closed", UNCHANGED <<registry, running, alive>>,
         NEW t \in Threads, t # Main, Return(t), pc[t] \notin Waiting \cup {"commit"}
  PROVE  Alone'
<1>1. TypeInv
      BY DEF SafeInv
<1>2. PICK at \in {"find", "capture", "idle"}, k \in Jobs :
        Goto(t, at, k) /\ (at = "find" => k.op = "start")
      BY <1>1, Returns
<1>3. LocalAt(t, at, k)
      BY <1>2 DEF LocalAt
<1>. QED BY <1>2, <1>3, QuietAlone

LEMMA BeginAlone ==
  ASSUME SafeInv, Alone, Sole', pc[Main] # "closed",
         NEW t \in Threads, Begin(t) \/ BeginLaunch(t) \/ BeginScale(t)
  PROVE  Alone'
<1>1. UNCHANGED <<registry, running, alive>> /\ t # Main /\ pc[t] = "idle"
      BY DEF Begin, BeginLaunch, BeginScale, os, Main
<1>2. \E at, k :
        /\ at \in {"find", "capture", "remove", "line", "append", "despawn"}
        /\ Goto(t, at, k)
        /\ at = "find" => k.op = "start"
        /\ at = "despawn" => k.op = "despawn" /\ k.todo = {}
  <2>1. CASE Begin(t)
    <3>1. PICK op, target, last :
            /\ op \in Ops /\ op \notin {"launch"}
            /\ Goto(t, CASE op = "start"               -> "find"
                         [] op \in {"stop", "restart"} -> "capture"
                         [] op = "remove"              -> "remove",
                    [NoJob EXCEPT !.op = op, !.target = target, !.last = last])
          BY <2>1 DEF Begin
    <3>2. op \in {"start", "stop", "restart", "remove"}
          BY <3>1
    <3> DEFINE k == [NoJob EXCEPT !.op = op, !.target = target, !.last = last]
    <3>3. k.op = op
          BY DEF NoJob
    <3> HIDE DEF k
    <3>4. CASE op = "start"
      <4>1. Goto(t, "find", k)
            BY <3>1, <3>4 DEF k
      <4>. QED BY <3>3, <3>4, <4>1
    <3>5. CASE op \in {"stop", "restart"}
      <4>1. Goto(t, "capture", k)
            BY <3>1, <3>5 DEF k
      <4>. QED BY <4>1
    <3>6. CASE op = "remove"
      <4>1. Goto(t, "remove", k)
            BY <3>1, <3>6 DEF k
      <4>. QED BY <4>1
    <3>. QED BY <3>2, <3>4, <3>5, <3>6
  <2>2. CASE BeginLaunch(t)
        BY <2>2 DEF BeginLaunch
  <2>3. CASE BeginScale(t)
    <3> DEFINE Begun == \E at, k : /\ at \in {"append", "despawn"} /\ Goto(t, at, k)
                                   /\ at = "despawn" => k.op = "despawn" /\ k.todo = {}
    <3>1. ASSUME NEW l \in Used, Goto(t, "append", [NoJob EXCEPT !.op = "replica", !.line = l])
          PROVE  Begun
          BY <3>1
    <3>2. ASSUME NEW r \in known, Goto(t, "despawn", [NoJob EXCEPT !.op = "despawn", !.rec = r])
          PROVE  Begun
      <4>1. PICK k : k = [NoJob EXCEPT !.op = "despawn", !.rec = r]
            OBVIOUS
      <4>2. k.op = "despawn" /\ k.todo = {}
            BY <4>1 DEF NoJob
      <4>. QED BY <3>2, <4>1, <4>2
    <3>3. Begun
      <4> HIDE DEF Begun
      <4>. QED BY <2>3, <3>1, <3>2 DEF BeginScale
    <3>4. PICK at, k : /\ at \in {"append", "despawn"} /\ Goto(t, at, k)
                       /\ at = "despawn" => k.op = "despawn" /\ k.todo = {}
          BY <3>3
    <3>. QED BY <3>4
  <2>. QED BY <2>1, <2>2, <2>3
<1>3. PICK at, k :
        /\ at \in {"find", "capture", "remove", "line", "append", "despawn"}
        /\ Goto(t, at, k)
        /\ at = "find" => k.op = "start"
        /\ at = "despawn" => k.op = "despawn" /\ k.todo = {}
      BY <1>2
<1>4. LocalAt(t, at, k)
      BY <1>1, <1>3 DEF LocalAt
<1>. QED BY <1>1, <1>3, <1>4, QuietAlone DEF Waiting

LEMMA PickAlone ==
  ASSUME SafeInv, Alone, Sole', pc[Main] # "closed", NEW t \in Threads, PickLine(t)
  PROVE  Alone'
<1> DEFINE j == job[t]
           l == CHOOSE l \in Lines : /\ \A u \in Used : u < l
                                     /\ l = 0 \/ l - 1 \in Used
<1>1. pc[t] = "line" /\ UNCHANGED <<registry, running, alive>> /\ Goto(t, "register", [j EXCEPT !.line = l])
      BY DEF PickLine, os
<1>2. l \in Lines /\ \A u \in Used : u < l
      BY PickedLine DEF SafeInv, TypeInv, RegInv
<1>3. l \notin Used
      BY <1>2, Numbers
<1>4. t # Main /\ j \in Jobs /\ j.op \in AdminOps
      BY <1>1, Here DEF SafeInv, Working
<1> HIDE DEF l
<1>5. PICK k : k = [j EXCEPT !.line = l]
      OBVIOUS
<1>6. k.line = l /\ k.op = j.op
      BY <1>4, <1>5 DEF Jobs
<1>7. LocalAt(t, "register", k)
      BY <1>2, <1>3, <1>4, <1>6 DEF LocalAt, Used, AdminOps
<1>. QED BY <1>1, <1>5, <1>7, QuietAlone DEF Waiting

LEMMA FindAlone ==
  ASSUME SafeInv, Alone, Sole', pc[Main] # "closed", NEW t \in Threads, Find(t)
  PROVE  Alone'
<1> DEFINE j == job[t]
<1>1. pc[t] = "find" /\ UNCHANGED <<registry, running, alive>>
      BY DEF Find, os
<1>2. t # Main /\ j \in Jobs /\ j.op \in AdminOps
      BY <1>1, Here DEF SafeInv, Working
<1>3. CASE ~Found(j.target)
      BY <1>1, <1>2, <1>3, ReturnAlone DEF Find, Waiting
<1>4. CASE Found(j.target)
  <2> DEFINE l == At(j.target)
             todo == ToSet(insts[table[l]]) \cap known
  <2>1. PICK at, k : /\ at = IF todo = {} THEN "append" ELSE "start"
                     /\ k = [j EXCEPT !.line = l, !.obj = table[l], !.todo = todo]
        OBVIOUS
  <2>2. Goto(t, at, k)
        BY <1>4, <2>1 DEF Find
  <2> HIDE DEF l, todo
  <2>3. k.op = j.op /\ k.todo = todo
        BY <1>2, <2>1 DEF Jobs
  <2>4. LocalAt(t, at, k)
    <3>1. todo \subseteq known
          BY DEF todo
    <3>2. j.op # "replica"
          BY <1>1 DEF Alone, Local, LocalAt
    <3>. QED BY <1>2, <2>1, <2>3, <3>1, <3>2 DEF LocalAt, AdminOps
  <2>. QED BY <1>1, <2>1, <2>2, <2>4, QuietAlone DEF Waiting
<1>. QED BY <1>3, <1>4

LEMMA StartedAlone ==
  ASSUME SafeInv, Alone, Sole', pc[Main] # "closed", NEW t \in Threads, Started(t)
  PROVE  Alone'
<1> DEFINE j == job[t]
<1>1. pc[t] = "start" /\ UNCHANGED <<registry, running, alive>>
      BY DEF Started, os
<1>2. j \in Jobs /\ (t # Main => j.op \in AdminOps) /\ (t = Main => j.op = "boot")
      BY <1>1, Here DEF SafeInv
<1>3. CASE j.op = "boot"
  <2>1. t = Main /\ j.line \in Nat /\ \A u \in Used : u <= j.line /\ u \in Nat
        BY <1>1, <1>2, <1>3, Numbers DEF Alone, Local, LocalAt, AdminOps, Jobs, Used
  <2>2. PICK k : k = [NoJob EXCEPT !.line = j.line + 1]
        OBVIOUS
  <2>3. Goto(t, "boot", k)
        BY <1>3, <2>2 DEF Started
  <2>4. k.line = j.line + 1 /\ k.op = "none"
        BY <2>2 DEF NoJob
  <2>5. LocalAt(t, "boot", k)
        BY <2>1, <2>4 DEF LocalAt
  <2>. QED BY <1>1, <2>3, <2>5, QuietAlone DEF Waiting
<1>4. CASE j.op # "boot"
      BY <1>1, <1>2, <1>4, ReturnAlone DEF Started, Waiting
<1>. QED BY <1>3, <1>4

\* StopServer and StopAll take note of what runs now; StopAll of all of it.
LEMMA CaptureAlone ==
  ASSUME SafeInv, Alone, Sole', pc[Main] # "closed", NEW t \in Threads, Capture(t)
  PROVE  Alone'
<1> DEFINE j == job[t]
<1>1. pc[t] = "capture" /\ UNCHANGED <<registry, running, alive>>
      BY DEF Capture, os
<1>2. j \in Jobs /\ TypeInv
      BY <1>1, Here DEF SafeInv
<1>3. CASE StopsAll(t)
  <2> DEFINE S == {r \in known : running[r] # None}
  <2>1. PICK k : k = [j EXCEPT !.todo = Entries(S)]
        OBVIOUS
  <2>2. Goto(t, "stop", k)
        BY <1>3, <2>1 DEF Capture
  <2>3. k.op = j.op /\ k.todo = Entries(S)
        BY <1>2, <2>1 DEF Jobs
  <2>4. alive \subseteq {e[2] : e \in Entries(S)}
    <3>1. Starting = {}
      <4>1. \A u \in Threads : pc[u] # "commit"
        <5>1. ASSUME NEW u \in Threads, pc[u] = "commit" PROVE FALSE
              BY <1>1, <5>1 DEF Alone, Sole, Busy
        <5>. QED BY <5>1
      <4>. QED BY <4>1 DEF Starting
    <3>2. ASSUME NEW p \in alive PROVE \E r \in S : running[r] = p
          BY <1>2, <3>1, <3>2, Numbers DEF Alone, Kept, TypeInv, OsTypes
    <3>3. ASSUME NEW p \in alive PROVE p \in {e[2] : e \in Entries(S)}
      <4>1. PICK r \in S : running[r] = p
            BY <3>2, <3>3
      <4>2. <<r, running[r]>> \in Entries(S) /\ <<r, running[r]>>[2] = p
            BY <4>1 DEF Entries
      <4>. QED BY <4>2
    <3>. QED BY <3>3
  <2>5. \A e \in Entries(S) : running[e[1]] = e[2]
        BY DEF Entries
  <2>6. LocalAt(t, "stop", k)
        BY <1>3, <2>3, <2>4, <2>5 DEF LocalAt, StopsAll
  <2>. QED BY <1>1, <2>2, <2>6, QuietAlone DEF Waiting
<1>4. CASE ~StopsAll(t)
  <2>1. t # Main /\ j.op \in AdminOps
        BY <1>1, <1>2, <1>4, Here
  <2>2. CASE ~Found(j.target)
        BY <1>1, <1>4, <2>1, <2>2, ReturnAlone DEF Capture, Waiting
  <2>3. CASE Found(j.target)
    <3> DEFINE o == table[At(j.target)]
               S == ToSet(insts[o]) \cap known
    <3>1. PICK k : k = [j EXCEPT !.obj = o, !.todo = Entries(S)]
          OBVIOUS
    <3>2. Goto(t, "stop", k)
          BY <1>4, <2>3, <3>1 DEF Capture
    <3>3. k.op = j.op /\ k.todo = Entries(S) /\ k.obj = o /\ k.target = j.target
          BY <1>2, <3>1 DEF Jobs
    <3>4. \A e \in Entries(S) : running[e[1]] = e[2]
          BY DEF Entries
    <3> HIDE DEF S
    <3>5. LocalAt(t, "stop", k)
          BY <1>4, <2>3, <3>3, <3>4 DEF LocalAt, StopsAll
    <3>. QED BY <1>1, <3>2, <3>5, QuietAlone DEF Waiting
  <2>. QED BY <2>2, <2>3
<1>. QED BY <1>3, <1>4

LEMMA DespawnAlone ==
  ASSUME SafeInv, Alone, Sole', pc[Main] # "closed", NEW t \in Threads, Despawn(t)
  PROVE  Alone'
<1> DEFINE j == job[t]
<1>1. pc[t] = "despawn" /\ UNCHANGED <<registry, running, alive>>
      BY DEF Despawn, os
<1>2. j \in Jobs /\ t # Main /\ j.op \in AdminOps
      BY <1>1, Here DEF SafeInv, Working
<1>3. CASE Return(t)
      BY <1>1, <1>2, <1>3, ReturnAlone DEF Waiting
<1>4. CASE Goto(t, "await", [j EXCEPT !.srv = running[j.rec]])
  <2>1. PICK k : k = [j EXCEPT !.srv = running[j.rec]]
        OBVIOUS
  <2>2. k.op = j.op /\ k.todo = j.todo /\ k.rec = j.rec /\ k.srv = running[j.rec]
        BY <1>2, <2>1 DEF Jobs
  <2>3. j.op = "despawn" /\ j.todo = {}
        BY <1>1 DEF Alone, Local, LocalAt
  <2>4. LocalAt(t, "await", k)
        BY <2>2, <2>3 DEF LocalAt
  <2>. QED BY <1>1, <1>4, <2>1, <2>4, QuietAlone DEF Waiting
<1>. QED BY <1>3, <1>4 DEF Despawn

\* Giving up records that run nothing, and servers none of whose records stay.
LEMMA LoseAlone ==
  ASSUME SafeInv, Alone, Sole', pc[Main] # "closed", UNCHANGED alive,
         NEW S, \A r \in S \cap known : running[r] \notin alive,
         \A r \in Recs : r \notin S => running'[r] = running[r],
         known \ S \subseteq known', known' \subseteq known,
         \A r \in known' : owner'[r] = owner[r],
         \A l \in Used : table'[l] = table[l] \/ \A r \in known' : owner[r] # table[l],
         NEW t \in Threads, NEW at, NEW k, Goto(t, at, k),
         pc[t] \notin Waiting \cup {"commit"}, at \notin {"commit", "closed"}, LocalAt(t, at, k)'
  PROVE  Alone'
<1>0. TypeInv /\ Sole /\ known \subseteq Recs
      BY DEF SafeInv, Alone, TypeInv, RegTypes
<1>1. /\ pc'[t] = at /\ job'[t] = k
      /\ \A u \in Threads \ {t} : pc'[u] = pc[u] /\ job'[u] = job[u] /\ pc[u] \in Waiting
      BY <1>0, OthersWait
<1>2. Starting = {}
      BY <1>1 DEF Starting, Waiting
<1>3. Kept'
  <2>1. ASSUME NEW p \in alive PROVE \E r \in known' : running'[r] = p
    <3>1. PICK r \in known : running[r] = p
          BY <1>2, <2>1 DEF Alone, Kept
    <3>2. r \notin S /\ r \in Recs
          BY <1>0, <2>1, <3>1
    <3>. QED BY <3>1, <3>2
  <2>. QED BY <2>1 DEF Kept
<1>4. Placed'
  <2>1. ASSUME NEW r \in known', owner'[r] # None PROVE \E l \in Used' : table'[l] = owner'[r]
    <3>1. PICK l \in Used : table[l] = owner[r]
          BY <2>1 DEF Alone, Placed
    <3>2. table'[l] = table[l]
          BY <2>1, <3>1
    <3>3. l \in Used'
          BY <2>1, <3>1, <3>2 DEF Used
    <3>. QED BY <2>1, <3>1, <3>2, <3>3
  <2>. QED BY <2>1 DEF Placed
<1>5. ClosedInv' /\ \A u \in Threads : Local(u)'
      BY <1>0, <1>1, LocalOfOthers
<1>. QED BY <1>3, <1>4, <1>5 DEF Alone

\* The same of removeServerRecordLocked.
LEMMA RemoveAlone ==
  ASSUME SafeInv, Alone, Sole', pc[Main] # "closed", UNCHANGED alive,
         NEW S, NEW tbl, RemoveRecords(S, tbl),
         \A r \in S \cap known : running[r] \notin alive,
         \A r \in Recs : r \notin S => running'[r] = running[r],
         \A l \in Used : tbl[l] = table[l] \/ \A r \in known : owner[r] = table[l] => r \in S,
         NEW t \in Threads, NEW at, NEW k, Goto(t, at, k),
         pc[t] \notin Waiting \cup {"commit"}, at \notin {"commit", "closed"}, LocalAt(t, at, k)'
  PROVE  Alone'
<1>1. known \subseteq Recs
      BY DEF SafeInv, TypeInv, RegTypes
<1>2. /\ table' = tbl /\ known' = known \ S
      /\ \A r \in known' : owner'[r] = owner[r]
      BY <1>1 DEF RemoveRecords
<1>3. \A l \in Used : table'[l] = table[l] \/ \A r \in known' : owner[r] # table[l]
      BY <1>2
<1>. QED BY <1>2, <1>3, LoseAlone

LEMMA SameTable ==
  ASSUME table' = table, NEW i
  PROVE  Found(i)' = Found(i) /\ At(i)' = At(i) /\ Used' = Used
BY DEF Found, At, Used

LEMMA NextEntryAlone ==
  ASSUME SafeInv, Alone, Sole', pc[Main] # "closed", NEW t \in Threads, NextEntry(t)
  PROVE  Alone'
<1> DEFINE j == job[t]
<1>1. pc[t] = "stop" /\ UNCHANGED <<running, alive>>
      BY DEF NextEntry, os
<1>2. j \in Jobs /\ j.todo \subseteq Pairs
      BY <1>1, Here DEF SafeInv, Fits
<1>3. PICK e \in j.todo :
        LET k == [j EXCEPT !.rec = e[1], !.srv = e[2], !.todo = @ \ {e}] IN
        IF ~StopsAll(t) /\ e[2] \notin alive
          THEN RemoveRecords({e[1]}, table) /\ Goto(t, "stop", k)
          ELSE Goto(t, "await", k) /\ UNCHANGED <<registry, ports>>
      BY DEF NextEntry
<1>4. PICK k : k = [j EXCEPT !.rec = e[1], !.srv = e[2], !.todo = @ \ {e}]
      OBVIOUS
<1>5. /\ k.op = j.op /\ k.todo = j.todo \ {e} /\ k.rec = e[1] /\ k.srv = e[2]
      /\ k.target = j.target /\ k.obj = j.obj /\ k.failed = j.failed
      BY <1>2, <1>4 DEF Jobs
<1>6. LocalAt(t, "stop", j)
      BY <1>1 DEF Alone, Local
<1>7. running[e[1]] \in alive => running[e[1]] = e[2]
      BY <1>6 DEF LocalAt
<1>8. CASE ~StopsAll(t) /\ e[2] \notin alive
  <2>1. RemoveRecords({e[1]}, table) /\ Goto(t, "stop", k)
        BY <1>3, <1>4, <1>8
  <2>2. table' = table
        BY <2>1 DEF RemoveRecords
  <2>3. \A i : Found(i)' = Found(i) /\ At(i)' = At(i)
        BY <2>2, SameTable
  <2>4. LocalAt(t, "stop", k)'
        BY <1>1, <1>5, <1>6, <1>8, <2>2, <2>3 DEF LocalAt, StopsAll
  <2>. QED BY <1>1, <1>7, <1>8, <2>1, <2>4, RemoveAlone DEF Waiting
<1>9. CASE ~(~StopsAll(t) /\ e[2] \notin alive)
  <2>1. Goto(t, "await", k) /\ UNCHANGED registry
        BY <1>3, <1>4, <1>9
  <2>2. alive \subseteq {d[2] : d \in j.todo} => alive \subseteq {k.srv} \cup {d[2] : d \in k.todo}
        BY <1>5
  <2>3. LocalAt(t, "await", k)
        BY <1>5, <1>6, <1>7, <2>2 DEF LocalAt
  <2>. QED BY <1>1, <2>1, <2>3, QuietAlone DEF Waiting
<1>. QED BY <1>8, <1>9

LEMMA GiveUpAlone ==
  ASSUME SafeInv, Alone, Sole', pc[Main] # "closed", NEW t \in Threads, GiveUp(t)
  PROVE  Alone'
<1> DEFINE j == job[t]
<1>1. pc[t] = "await" /\ UNCHANGED <<registry, running, alive>>
      BY DEF GiveUp, os
<1>2. j \in Jobs
      BY <1>1, Here DEF SafeInv
<1>3. CASE StopsAll(t)
  <2>1. PICK k : k = [j EXCEPT !.failed = TRUE]
        OBVIOUS
  <2>2. k.op = j.op /\ k.todo = j.todo /\ k.failed
        BY <1>2, <2>1 DEF Jobs
  <2>3. LocalAt(t, "await", j)
        BY <1>1 DEF Alone, Local
  <2>4. LocalAt(t, "stop", k)
        BY <1>3, <2>2, <2>3 DEF LocalAt, StopsAll
  <2>5. Goto(t, "stop", k)
        BY <1>3, <2>1 DEF GiveUp
  <2>. QED BY <1>1, <2>4, <2>5, QuietAlone DEF Waiting
<1>4. CASE ~StopsAll(t)
  <2>1. t # Main
        BY <1>1, <1>4, Here DEF SafeInv
  <2>. QED BY <1>1, <1>4, <2>1, ReturnAlone DEF GiveUp, Waiting
<1>. QED BY <1>3, <1>4

LEMMA StoppedAlone ==
  ASSUME SafeInv, Alone, Sole', pc[Main] # "closed", NEW t \in Threads, Stopped(t)
  PROVE  Alone'
<1>1. PICK j : j = job[t]
      OBVIOUS
<1>2. pc[t] = "stop" /\ j.todo = {} /\ UNCHANGED <<registry, running, alive>>
      BY <1>1 DEF Stopped, os
<1>3. LocalAt(t, "stop", j)
      BY <1>1, <1>2 DEF Alone, Local
<1>4. CASE StopsAll(t)
  <2>1. Goto(t, "close", j)
        BY <1>1, <1>4 DEF Stopped, StopsAll
  <2>2. LocalAt(t, "close", j)
        BY <1>1, <1>2, <1>3, <1>4 DEF LocalAt, StopsAll
  <2>. QED BY <1>2, <2>1, <2>2, QuietAlone DEF Waiting
<1>5. CASE ~StopsAll(t) /\ j.op = "restart"
  <2>1. Goto(t, "find", j)
        BY <1>1, <1>5 DEF Stopped
  <2>2. LocalAt(t, "find", j)
        BY <1>3, <1>5 DEF LocalAt
  <2>. QED BY <1>2, <2>1, <2>2, QuietAlone DEF Waiting
<1>6. CASE ~StopsAll(t) /\ j.op # "restart"
  <2>1. t # Main
        BY <1>2, <1>6, Here DEF SafeInv
  <2>2. Return(t)
        BY <1>1, <1>6 DEF Stopped
  <2>. QED BY <1>2, <2>1, <2>2, ReturnAlone DEF Waiting
<1>. QED BY <1>4, <1>5, <1>6

LEMMA ForgetAlone ==
  ASSUME SafeInv, Alone, Sole', pc[Main] # "closed", NEW t \in Threads, Forget(t)
  PROVE  Alone'
<1>1. PICK j : j = job[t]
      OBVIOUS
<1>2. pc[t] = "forget" /\ UNCHANGED <<running, alive>> /\ table' = table
      BY DEF Forget, os, registry, RemoveRecords
<1>3. t # Main /\ TypeInv
      BY <1>2, Here DEF SafeInv, Working
<1>4. LocalAt(t, "forget", j)
      BY <1>1, <1>2 DEF Alone, Local
<1>5. \E at, k : /\ at \in {"find", "capture", "idle", "stop"}
                /\ Goto(t, at, k) /\ LocalAt(t, at, k)'
  <2>1. CASE j.op = "despawn"
    <3>1. PICK at \in {"find", "capture", "idle"}, k \in Jobs :
            Goto(t, at, k) /\ (at = "find" => k.op = "start")
          BY <1>1, <1>3, <2>1, Returns DEF Forget
    <3>2. LocalAt(t, at, k)'
          BY <3>1 DEF LocalAt
    <3>. QED BY <3>1, <3>2
  <2>2. CASE j.op # "despawn"
    <3>1. Goto(t, "stop", j)
          BY <1>1, <2>2 DEF Forget
    <3>2. \A i : Found(i)' = Found(i) /\ At(i)' = At(i)
          BY <1>2, SameTable
    <3>3. j.op \in AdminOps
          BY <1>1, <1>3, Here
    <3>4. LocalAt(t, "stop", j)'
          BY <1>2, <1>4, <3>2, <3>3 DEF LocalAt, AdminOps
    <3>. QED BY <3>1, <3>4
  <2>. QED BY <2>1, <2>2
<1>6. PICK at, k : /\ at \in {"find", "capture", "idle", "stop"}
                  /\ Goto(t, at, k) /\ LocalAt(t, at, k)'
      BY <1>5
<1>7. CASE UNCHANGED registry
  <2>1. UNCHANGED <<known, owner, table>>
        BY <1>7 DEF registry
  <2>. QED BY <1>2, <1>6, <2>1, LoseAlone DEF Waiting
<1>8. CASE RemoveRecords({j.rec}, table)
  <2>1. running[j.rec] \notin alive
        BY <1>4 DEF LocalAt
  <2>. QED BY <1>2, <1>6, <1>8, <2>1, RemoveAlone DEF Waiting
<1>. QED BY <1>1, <1>7, <1>8 DEF Forget

LEMMA RemoveServerAlone ==
  ASSUME SafeInv, Alone, Sole', pc[Main] # "closed", NEW t \in Threads, RemoveServer(t)
  PROVE  Alone'
<1>1. PICK i : i = job[t].target
      OBVIOUS
<1>2. pc[t] = "remove" /\ UNCHANGED alive /\ Return(t)
      BY DEF RemoveServer, os
<1>3. t # Main /\ TypeInv
      BY <1>2, Here DEF SafeInv, Working
<1>4. CASE ~Found(i)
      BY <1>1, <1>2, <1>3, <1>4, ReturnAlone DEF RemoveServer, Waiting
<1>5. CASE Found(i)
  <2> DEFINE l == At(i)
             o == table[l]
             S == Cleared(o)
             tbl == IF S = ToSet(insts[o]) THEN [table EXCEPT ![l] = None] ELSE table
  <2>1. /\ running' = [r \in Recs |-> IF r \in S THEN None ELSE running[r]]
        /\ RemoveRecords(S, tbl)
        BY <1>1, <1>5 DEF RemoveServer
  <2>2. \A r \in S : running[r] \notin alive
    <3>1. ASSUME NEW r \in S PROVE running[r] \notin alive
      <4>1. PICK n \in DOMAIN insts[o] : insts[o][n] = r
            BY DEF Cleared, ToSet
      <4>2. l \in Used /\ o \in Objs /\ n \in Nat
            BY <1>1, <1>3, <1>5, <4>1, AtIsUsed, Here DEF Jobs, Used, TypeInv, RegTypes
      <4>. QED BY <4>1, <4>2 DEF Cleared, InstanceRunning
    <3>. QED BY <3>1
  <2>3. \A u \in Used : tbl[u] = table[u] \/ \A r \in known : owner[r] = table[u] => r \in S
    <3>1. ASSUME NEW u \in Used, tbl[u] # table[u], NEW r \in known, owner[r] = table[u]
          PROVE  r \in S
      <4>1. u = l /\ S = ToSet(insts[o])
            BY <3>1 DEF TypeInv, RegTypes
      <4>2. r \in Recs /\ owner[r] = o /\ o # None
            BY <1>3, <3>1, <4>1 DEF Used, TypeInv, RegTypes
      <4>3. r \in ToSet(insts[o])
            BY <4>2 DEF SafeInv, RegInv, IndexesAgree
      <4>. QED BY <4>1, <4>3
    <3>. QED BY <3>1
  <2>4. PICK at \in {"find", "capture", "idle"}, k \in Jobs :
          Goto(t, at, k) /\ (at = "find" => k.op = "start")
        BY <1>2, <1>3, Returns
  <2>5. LocalAt(t, at, k)'
        BY <2>4 DEF LocalAt
  <2>6. \A r \in Recs : r \notin S => running'[r] = running[r]
        BY <2>1
  <2> HIDE DEF S, tbl
  <2>. QED BY <1>2, <2>1, <2>2, <2>3, <2>4, <2>5, <2>6, RemoveAlone DEF Waiting
<1>. QED BY <1>4, <1>5

\* A start that fails: a replica's record goes again, and it ran nothing.
LEMMA StartErrorAlone ==
  ASSUME SafeInv, Alone, Sole', pc[Main] # "closed", NEW t \in Threads,
         pc[t] \in {"start", "spawn"}, NEW r \in Recs, StartError(t, r), UNCHANGED alive,
         running[r] \notin alive \/ (UNCHANGED running /\ job[t].op # "replica"),
         \A q \in Recs \ {r} : running'[q] = running[q]
  PROVE  Alone'
<1>1. TypeInv /\ RegInv
      BY DEF SafeInv
<1>2. PICK at \in {"find", "capture", "idle"}, k \in Jobs :
           /\ Goto(t, at, k)
           /\ at = "find" => k.op = "start"
           /\ \/ job[t].op # "replica" /\ UNCHANGED <<registry, byPort, port>>
              \/ job[t].op = "replica" /\ RemoveRecords({r}, table)
      BY <1>1, StartErrorMoves
<1>3. LocalAt(t, at, k)'
      BY <1>2 DEF LocalAt
<1>4. CASE job[t].op # "replica" /\ UNCHANGED <<registry, byPort, port>>
  <2>1. UNCHANGED <<known, owner, table>>
        BY <1>4 DEF registry
  <2>2. PICK S : S = IF running[r] \in alive THEN {} ELSE {r}
        OBVIOUS
  <2>3. \A q \in S \cap known : running[q] \notin alive
        BY <2>2
  <2>4. \A q \in Recs : q \notin S => running'[q] = running[q]
        BY <2>2
  <2>. QED BY <1>2, <1>3, <2>1, <2>3, <2>4, LoseAlone DEF Waiting
<1>5. CASE job[t].op = "replica" /\ RemoveRecords({r}, table)
      BY <1>2, <1>3, <1>5, RemoveAlone DEF Waiting
<1>. QED BY <1>2, <1>4, <1>5

LEMMA CheckAlone ==
  ASSUME SafeInv, Alone, Sole', pc[Main] # "closed", NEW t \in Threads, CheckRecord(t)
  PROVE  Alone'
<1> DEFINE j == job[t]
<1>1. pc[t] = "start" /\ UNCHANGED <<running, alive>>
      BY DEF CheckRecord, os
<1>2. j \in Jobs /\ TypeInv /\ (t # Main => j.op \in AdminOps)
      BY <1>1, Here DEF SafeInv
<1>3. PICK r \in j.todo :
        IF ~basedir THEN StartError(t, r)
        ELSE IF InstanceRunning(r) THEN AlreadyRunning(t, r)
        ELSE /\ byPort' = Drop(byPort, port[r], r)
             /\ port' = [port EXCEPT ![r] = None]
             /\ Goto(t, "spawn", [j EXCEPT !.rec = r, !.todo = @ \ {r}])
             /\ UNCHANGED registry
      BY DEF CheckRecord
<1>4. LocalAt(t, "start", j)
      BY <1>1 DEF Alone, Local
<1>5. r \in known /\ r \in Recs
      BY <1>2, <1>4 DEF LocalAt, TypeInv, RegTypes
<1>6. CASE StartError(t, r)
  <2>1. j.op = "replica" => running[r] \notin alive
        BY <1>2, <1>4, Numbers DEF LocalAt, TypeInv, OsTypes
  <2>. QED BY <1>1, <1>5, <1>6, <2>1, StartErrorAlone
<1>7. CASE Goto(t, "start", [j EXCEPT !.todo = @ \ {r}]) /\ UNCHANGED registry
  <2>1. PICK k : k = [j EXCEPT !.todo = @ \ {r}]
        OBVIOUS
  <2>2. k.op = j.op /\ k.todo = j.todo \ {r} /\ k.line = j.line
        BY <1>2, <2>1 DEF Jobs
  <2>3. LocalAt(t, "start", k)
        BY <1>4, <2>2 DEF LocalAt
  <2>. QED BY <1>1, <1>7, <2>1, <2>3, QuietAlone DEF Waiting
<1>8. CASE /\ ~InstanceRunning(r) /\ UNCHANGED registry
           /\ Goto(t, "spawn", [j EXCEPT !.rec = r, !.todo = @ \ {r}])
  <2>1. PICK k : k = [j EXCEPT !.rec = r, !.todo = @ \ {r}]
        OBVIOUS
  <2>2. k.op = j.op /\ k.todo = j.todo \ {r} /\ k.line = j.line /\ k.rec = r
        BY <1>2, <2>1 DEF Jobs
  <2>3. LocalAt(t, "spawn", k)
        BY <1>4, <1>5, <1>8, <2>2 DEF LocalAt, InstanceRunning
  <2>. QED BY <1>1, <1>8, <2>1, <2>3, QuietAlone DEF Waiting
<1>. QED BY <1>3, <1>6, <1>7, <1>8 DEF AlreadyRunning

LEMMA SpawnAlone ==
  ASSUME SafeInv, Alone, Sole', pc[Main] # "closed", NEW t \in Threads, Spawn(t)
  PROVE  Alone'
<1> DEFINE j == job[t]
           r == j.rec
<1>1. pc[t] = "spawn" /\ TypeInv /\ Sole /\ ProcInv
      BY DEF Spawn, SafeInv, RegInv, Alone
<1>2. j \in Jobs /\ (t # Main => j.op \in AdminOps) /\ (t = Main => j.op = "boot")
      BY <1>1, Here
<1>3. LocalAt(t, "spawn", j)
      BY <1>1 DEF Alone, Local
<1>4. r \in known /\ r \in Recs /\ running[r] \notin alive
      BY <1>1, <1>3 DEF LocalAt, TypeInv, RegTypes
<1>5. ASSUME NEW p \in Procs, proc[p] = NoProc, alive' = alive \cup {p},
             Goto(t, "commit", [j EXCEPT !.srv = p]), UNCHANGED <<running, registry>>
      PROVE  Alone'
  <2>1. PICK k : k = [j EXCEPT !.srv = p]
        OBVIOUS
  <2>2. k.op = j.op /\ k.todo = j.todo /\ k.line = j.line /\ k.rec = r /\ k.srv = p
        BY <1>2, <2>1 DEF Jobs
  <2>3. /\ pc'[t] = "commit" /\ job'[t] = k
        /\ \A u \in Threads \ {t} : pc'[u] = pc[u] /\ job'[u] = job[u] /\ pc[u] \in Waiting
        BY <1>1, <1>5, <2>1, OthersWait DEF Waiting
  <2>4. Starting = {} /\ p \in Starting'
        BY <1>1, <2>2, <2>3 DEF Starting, Waiting
  <2>5. UNCHANGED <<known, owner, table>>
        BY <1>5 DEF registry
  <2>6. Kept' /\ Placed'
        BY <1>5, <2>4, <2>5 DEF Alone, Kept, Placed, Used
  <2>7. running[r] # p
        BY <1>1, <1>4, <1>5, Numbers DEF ProcInv, TypeInv, OsTypes
  <2>8. LocalAt(t, "commit", k)'
        BY <1>2, <1>3, <1>4, <1>5, <2>2, <2>5, <2>7 DEF LocalAt, Used, AdminOps
  <2>9. ClosedInv' /\ \A u \in Threads : Local(u)'
        BY <1>1, <2>3, <2>8, LocalOfOthers
  <2>. QED BY <2>6, <2>9 DEF Alone
<1>6. CASE /\ running' = [running EXCEPT ![r] = None]
           /\ StartError(t, r) /\ UNCHANGED alive
  <2>1. \A q \in Recs \ {r} : running'[q] = running[q]
        BY <1>1, <1>6 DEF TypeInv, OsTypes
  <2>. QED BY <1>1, <1>4, <1>6, <2>1, StartErrorAlone
<1>. QED BY <1>5, <1>6 DEF Spawn

LEMMA CommitAlone ==
  ASSUME SafeInv, Alone, Sole', pc[Main] # "closed", NEW t \in Threads, Commit(t)
  PROVE  Alone'
<1> DEFINE j == job[t]
<1>1. /\ pc[t] = "commit" /\ running' = [running EXCEPT ![j.rec] = j.srv]
      /\ Goto(t, "start", [j EXCEPT !.rec = None, !.srv = None])
      /\ UNCHANGED <<registry, alive>> /\ TypeInv /\ Sole
      BY DEF Commit, os, SafeInv, Alone
<1>2. j \in Jobs /\ (t # Main => j.op \in AdminOps) /\ (t = Main => j.op = "boot")
      BY <1>1, Here
<1>3. LocalAt(t, "commit", j)
      BY <1>1 DEF Alone, Local
<1>4. j.rec \in known \ j.todo /\ j.rec \in Recs /\ running[j.rec] \notin alive /\ j.todo \subseteq known
      BY <1>1, <1>3 DEF LocalAt, TypeInv, RegTypes
<1>5. \A q \in Recs : running'[q] = IF q = j.rec THEN j.srv ELSE running[q]
      BY <1>1 DEF TypeInv, OsTypes
<1>6. PICK k : k = [j EXCEPT !.rec = None, !.srv = None]
      OBVIOUS
<1>7. k.op = j.op /\ k.todo = j.todo /\ k.line = j.line
      BY <1>2, <1>6 DEF Jobs
<1>8. /\ pc'[t] = "start" /\ job'[t] = k
      /\ \A u \in Threads \ {t} : pc'[u] = pc[u] /\ job'[u] = job[u] /\ pc[u] \in Waiting
      BY <1>1, <1>6, OthersWait DEF Waiting
<1>9. Starting = {j.srv}
      BY <1>1, <1>8 DEF Starting, Waiting
<1>10. UNCHANGED <<known, owner, table>> /\ known \subseteq Recs
       BY <1>1 DEF registry, TypeInv, RegTypes
<1>11. Kept'
  <2>1. ASSUME NEW p \in alive PROVE \E q \in known : running'[q] = p
    <3>1. CASE p = j.srv
          BY <1>4, <1>5, <3>1
    <3>2. CASE p # j.srv
      <4>1. PICK q \in known : running[q] = p
            BY <1>9, <2>1, <3>2 DEF Alone, Kept
      <4>2. q # j.rec
            BY <1>4, <2>1, <4>1
      <4>. QED BY <1>5, <1>10, <4>1, <4>2
    <3>. QED BY <3>1, <3>2
  <2>. QED BY <1>1, <1>10, <2>1 DEF Kept
<1>12. Placed'
       BY <1>10 DEF Alone, Placed, Used
<1>13. LocalAt(t, "start", k)'
  <2>1. \A q \in j.todo : running'[q] = running[q]
        BY <1>4, <1>5, <1>10
  <2>. QED BY <1>2, <1>3, <1>7, <1>10, <2>1 DEF LocalAt, Used, AdminOps
<1>14. ClosedInv' /\ \A u \in Threads : Local(u)'
       BY <1>1, <1>8, <1>13, LocalOfOthers
<1>. QED BY <1>11, <1>12, <1>14 DEF Alone

LEMMA AwaitAlone ==
  ASSUME SafeInv, Alone, Sole', pc[Main] # "closed", NEW t \in Threads, AwaitExit(t)
  PROVE  Alone'
<1>1. PICK j, at : j = job[t] /\ at = IF StopsAll(t) THEN "stop" ELSE "forget"
      OBVIOUS
<1>2. /\ pc[t] = "await" /\ j.srv \in done
      /\ running' = [running EXCEPT ![j.rec] = IF @ = j.srv THEN None ELSE @]
      /\ Goto(t, at, j) /\ UNCHANGED <<registry, alive>>
      BY <1>1 DEF AwaitExit
<1>3. TypeInv /\ j.srv \notin alive /\ j \in Jobs /\ j.todo \subseteq Pairs
      BY <1>1, <1>2, Here DEF SafeInv, RegInv, ProcInv, Fits
<1>4. LocalAt(t, "await", j)
      BY <1>1, <1>2 DEF Alone, Local
<1>5. running[j.rec] \notin alive
      BY <1>3, <1>4 DEF LocalAt
<1>6. UNCHANGED <<known, owner, table>>
      BY <1>2 DEF registry
<1>7. None \notin alive
      BY <1>3, Numbers DEF TypeInv, OsTypes
<1>8. \A q \in Recs : running'[q] = running[q] \/ (q = j.rec /\ running'[q] = None)
      BY <1>2, <1>3 DEF TypeInv, OsTypes
<1>9. LocalAt(t, at, j)'
  <2>1. \A i : Found(i)' = Found(i) /\ At(i)' = At(i)
        BY <1>6, SameTable
  <2>2. \A e \in j.todo : running'[e[1]] \in alive => running'[e[1]] = e[2]
    <3>1. \A e \in j.todo : e[1] \in Recs
          BY <1>3 DEF Pairs
    <3>. QED BY <1>4, <1>7, <1>8, <3>1 DEF LocalAt
  <2>3. running'[j.rec] \notin alive
    <3>1. CASE j.rec \in Recs
          BY <1>5, <1>7, <1>8, <3>1
    <3>2. CASE j.rec \notin Recs
      <4>1. running' = running
            BY <1>2, <1>3, <3>2 DEF TypeInv, OsTypes
      <4>. QED BY <1>5, <4>1
    <3>. QED BY <3>1, <3>2
  <2>4. StopsAll(t) /\ ~j.failed => alive \subseteq {e[2] : e \in j.todo}
        BY <1>1, <1>3, <1>4 DEF LocalAt, StopsAll
  <2>5. CASE StopsAll(t)
    <3>1. at = "stop" /\ j.op # "restart"
          BY <1>1, <2>5 DEF StopsAll
    <3>. QED BY <1>2, <2>2, <2>4, <2>5, <3>1 DEF LocalAt
  <2>6. CASE ~StopsAll(t)
    <3>1. at = "forget"
          BY <1>1, <2>6
    <3>. QED BY <1>2, <1>4, <1>6, <2>1, <2>2, <2>3, <3>1 DEF LocalAt
  <2>. QED BY <2>5, <2>6
<1>. QED
  <2>1. \A q \in Recs : q \notin {j.rec} => running'[q] = running[q]
        BY <1>8
  <2>2. at \in {"stop", "forget"}
        BY <1>1
  <2>. QED BY <1>2, <1>5, <1>6, <1>9, <2>1, <2>2, LoseAlone DEF Waiting

\* A new record, of a server that has a line.
LEMMA GrowAlone ==
  ASSUME SafeInv, Alone, Sole', pc[Main] # "closed", UNCHANGED <<running, alive>>,
         NEW n, known' = known \cup {n}, \E l \in Lines : table'[l] = owner'[n],
         \A r \in known : owner'[r] = owner[r],
         \A l \in Used : table'[l] = table[l],
         NEW t \in Threads, NEW k, Goto(t, "start", k),
         pc[t] \notin Waiting \cup {"commit"}, LocalAt(t, "start", k)'
  PROVE  Alone'
<1>0. TypeInv /\ Sole
      BY DEF SafeInv, Alone
<1>1. /\ pc'[t] = "start" /\ job'[t] = k
      /\ \A u \in Threads \ {t} : pc'[u] = pc[u] /\ job'[u] = job[u] /\ pc[u] \in Waiting
      BY <1>0, OthersWait
<1>2. Starting = {}
      BY <1>1 DEF Starting, Waiting
<1>3. Kept'
      BY <1>2 DEF Alone, Kept
<1>4. Placed'
  <2>1. ASSUME NEW r \in known', owner'[r] # None PROVE \E l \in Used' : table'[l] = owner'[r]
    <3>1. CASE r \in known
      <4>1. PICK l \in Used : table[l] = owner[r]
            BY <2>1, <3>1 DEF Alone, Placed
      <4>2. table'[l] = owner'[r] /\ l \in Used'
            BY <2>1, <3>1, <4>1 DEF Used
      <4>. QED BY <4>2
    <3>2. CASE r = n
          BY <2>1, <3>2 DEF Used
    <3>. QED BY <3>1, <3>2
  <2>. QED BY <2>1 DEF Placed
<1>5. ClosedInv' /\ \A u \in Threads : Local(u)'
      BY <1>0, <1>1, LocalOfOthers
<1>. QED BY <1>3, <1>4, <1>5 DEF Alone

LEMMA RegisterAlone ==
  ASSUME SafeInv, Alone, Sole', pc[Main] # "closed", NEW t \in Threads, RegisterLaunch(t)
  PROVE  Alone'
<1> DEFINE j == job[t]
           o == objs + 1
           n == recs + 1
<1>1. /\ pc[t] = "register" /\ UNCHANGED <<running, alive>>
      /\ table' = [table EXCEPT ![j.line] = o] /\ known' = known \cup {n}
      /\ owner' = [owner EXCEPT ![n] = o] /\ recs < MaxRecs
      /\ Goto(t, "start", [j EXCEPT !.obj = o, !.todo = {n}])
      BY DEF RegisterLaunch, AppendInstance, os
<1>2. j \in Jobs /\ TypeInv /\ (t # Main => j.op \in AdminOps) /\ (t = Main => j.op = "boot")
      BY <1>1, Here DEF SafeInv
<1>3. table[j.line] = None /\ (t = Main => \A u \in Used : u < j.line)
      BY <1>1 DEF Alone, Local, LocalAt
<1>4. n \in Recs /\ n \notin known /\ running[n] = None
  <2>1. recs \in Nat /\ n \in Recs
        BY <1>1, <1>2, Numbers DEF TypeInv, RegTypes, Recs
  <2>2. ~(n <= recs) /\ n \notin 1..recs
        BY <2>1
  <2>. QED BY <2>1, <2>2 DEF SafeInv, RegInv, FreshInv, ProcInv
<1>5. j.line \in Lines /\ j.line \in Nat
      BY <1>2, Numbers DEF Jobs
<1>6. /\ table'[j.line] = owner'[n]
      /\ \A r \in known : owner'[r] = owner[r]
      /\ \A l \in Used : table'[l] = table[l]
      BY <1>1, <1>2, <1>3, <1>4, <1>5 DEF TypeInv, RegTypes, Used
<1>7. PICK k : k = [j EXCEPT !.obj = o, !.todo = {n}]
      OBVIOUS
<1>8. k.op = j.op /\ k.todo = {n} /\ k.line = j.line
      BY <1>2, <1>7 DEF Jobs
<1>9. LocalAt(t, "start", k)'
  <2>1. t = Main => \A u \in Used' : u <= j.line
    <3>1. \A u \in Used' : u \in Used \/ u = j.line
          BY <1>1, <1>2, <1>5 DEF Used, TypeInv, RegTypes
    <3>2. \A u \in Used : u \in Nat
          BY Numbers DEF Used
    <3>. QED BY <1>3, <1>5, <3>1, <3>2
  <2>. QED BY <1>1, <1>2, <1>4, <1>8, <2>1 DEF LocalAt, AdminOps
<1> HIDE DEF n
<1>. QED BY <1>1, <1>5, <1>6, <1>7, <1>9, GrowAlone DEF Waiting

LEMMA AppendAlone ==
  ASSUME SafeInv, Alone, Sole', pc[Main] # "closed", NEW t \in Threads, AppendRecord(t)
  PROVE  Alone'
<1> DEFINE j == job[t]
           n == recs + 1
<1>1. pc[t] = "append" /\ UNCHANGED <<running, alive>>
      BY DEF AppendRecord, os
<1>2. j \in Jobs /\ TypeInv /\ t # Main /\ j.op \in AdminOps
      BY <1>1, Here DEF SafeInv, Working
<1>3. CASE table[j.line] = None
      BY <1>1, <1>2, <1>3, ReturnAlone DEF AppendRecord, Waiting
<1>4. CASE table[j.line] # None
  <2>1. /\ table' = table /\ known' = known \cup {n} /\ recs < MaxRecs
        /\ owner' = [owner EXCEPT ![n] = table[j.line]]
        /\ Goto(t, "start", [j EXCEPT !.todo = {n}])
        BY <1>4 DEF AppendRecord, AppendInstance
  <2>2. n \in Recs /\ n \notin known /\ running[n] = None
    <3>1. recs \in Nat /\ n \in Recs
          BY <1>2, <2>1, Numbers DEF TypeInv, RegTypes, Recs
    <3>2. ~(n <= recs) /\ n \notin 1..recs
          BY <3>1
    <3>. QED BY <3>1, <3>2 DEF SafeInv, RegInv, FreshInv, ProcInv
  <2>3. /\ j.line \in Lines /\ table'[j.line] = owner'[n]
        /\ \A r \in known : owner'[r] = owner[r]
        BY <1>2, <2>1, <2>2 DEF TypeInv, RegTypes, Jobs
  <2>4. PICK k : k = [j EXCEPT !.todo = {n}]
        OBVIOUS
  <2>5. k.op = j.op /\ k.todo = {n}
        BY <1>2, <2>4 DEF Jobs
  <2>6. LocalAt(t, "start", k)'
        BY <1>1, <1>2, <2>1, <2>2, <2>5 DEF LocalAt, AdminOps
  <2> HIDE DEF n
  <2>. QED BY <1>1, <2>1, <2>3, <2>4, <2>6, GrowAlone DEF Waiting
<1>. QED BY <1>3, <1>4

LEMMA BootAlone ==
  ASSUME SafeInv, Alone, Sole', Boot \/ Drained
  PROVE  Alone'
<1>0. Main \in Threads
      BY DEF Threads
<1>1. UNCHANGED <<registry, running, alive>>
      BY DEF Boot, Drained, os
<1>2. CASE Boot
  <2> DEFINE l == job[Main].line
  <2>1. pc[Main] = "boot" /\ \A u \in Used : u < l
        BY <1>0, <1>2 DEF Boot, Alone, Local, LocalAt
  <2>2. CASE l < ConfigLines
    <3>1. PICK k : k = [NoJob EXCEPT !.op = "boot", !.line = l]
          OBVIOUS
    <3>2. k.op = "boot" /\ k.line = l
          BY <3>1 DEF NoJob
    <3>3. l \in Lines /\ l \notin Used
          BY <1>0, <2>1, Here, Numbers DEF SafeInv, Jobs
    <3>4. LocalAt(Main, "register", k)
          BY <2>1, <3>2, <3>3 DEF LocalAt, Used
    <3>5. Goto(Main, "register", k)
          BY <1>2, <2>2, <3>1 DEF Boot
    <3>. QED BY <1>0, <1>1, <2>1, <3>4, <3>5, QuietAlone DEF Waiting
  <2>3. CASE ~(l < ConfigLines)
    <3>1. Goto(Main, "serve", NoJob)
          BY <1>2, <2>3 DEF Boot
    <3>2. LocalAt(Main, "serve", NoJob)
          BY WaitingIsLocal DEF Waiting
    <3>. QED BY <1>0, <1>1, <2>1, <3>1, <3>2, QuietAlone DEF Waiting
  <2>. QED BY <2>2, <2>3
<1>3. CASE Drained
  <2>1. PICK k : k = [NoJob EXCEPT !.op = "stopall"]
        OBVIOUS
  <2>2. pc[Main] = "shutdown" /\ Goto(Main, "capture", k)
        BY <1>3, <2>1 DEF Drained
  <2>3. LocalAt(Main, "capture", k)
        BY DEF LocalAt
  <2>. QED BY <1>0, <1>1, <2>2, <2>3, QuietAlone DEF Waiting
<1>. QED BY <1>2, <1>3

\* What holds of a thread depends on the registry, on what the records run and
\* on the processes, and gets no harder when a process ends.
LEMMA LocalStays ==
  ASSUME NEW t, NEW at, NEW j, LocalAt(t, at, j), UNCHANGED <<table, known, running>>,
         alive' \subseteq alive
  PROVE  LocalAt(t, at, j)'
<1>1. \A i : Found(i)' = Found(i) /\ At(i)' = At(i)
      BY SameTable
<1>2. Used' = Used
      BY SameTable
<1>. QED BY <1>1, <1>2 DEF LocalAt

\* Steps that move no thread that works: the end of a process, the report of a
\* port, the signal.
LEMMA OutsideAlone ==
  ASSUME TypeInv, Alone, Sole', UNCHANGED <<registry, running>>, alive' \subseteq alive,
         \/ UNCHANGED threads
         \/ /\ pc[Main] = "serve" /\ pc' = [pc EXCEPT ![Main] = "shutdown"]
            /\ job' = [job EXCEPT ![Main] = NoJob]
  PROVE  Alone'
<1>0. Main \in Threads /\ UNCHANGED <<table, known, owner>>
      BY DEF Threads, registry
<1>1. \A u \in Threads :
        \/ pc'[u] = pc[u] /\ job'[u] = job[u]
        \/ u = Main /\ pc[u] = "serve" /\ pc'[u] = "shutdown"
      BY DEF threads, TypeInv, ThreadTypes
<1>2. Starting' = Starting
  <2>1. \A u \in Threads : (pc'[u] = "commit") = (pc[u] = "commit")
        BY <1>1
  <2>2. {u \in Threads : pc'[u] = "commit"} = {u \in Threads : pc[u] = "commit"}
        BY <2>1
  <2>3. \A u \in {u \in Threads : pc[u] = "commit"} : job'[u] = job[u]
        BY <1>1
  <2>. QED BY <2>2, <2>3 DEF Starting
<1>3. Kept' /\ Placed'
      BY <1>0, <1>2 DEF Alone, Kept, Placed, Used
<1>4. ClosedInv'
      BY <1>0, <1>1 DEF Alone, ClosedInv, StopsAll
<1>5. ASSUME NEW u \in Threads PROVE Local(u)'
  <2>1. CASE pc'[u] = pc[u] /\ job'[u] = job[u]
    <3>1. LocalAt(u, pc[u], job[u])
          BY DEF Alone, Local
    <3>2. PICK at, j : at = pc[u] /\ j = job[u]
          OBVIOUS
    <3>3. LocalAt(u, at, j)'
          BY <1>0, <3>1, <3>2, LocalStays
    <3>. QED BY <2>1, <3>2, <3>3 DEF Local
  <2>2. CASE pc'[u] = "shutdown"
        BY <2>2 DEF Local, LocalAt
  <2>. QED BY <1>1, <2>1, <2>2
<1>. QED BY <1>3, <1>4, <1>5 DEF Alone

\* When StopAll has gone through all it noted, nothing runs.
LEMMA CloseAlone ==
  ASSUME SafeInv, Alone, Sole', Close
  PROVE  Alone'
<1>0. Main \in Threads /\ TypeInv /\ Sole
      BY DEF Threads, SafeInv, Alone
<1>1. /\ pc[Main] = "close" /\ owner' = [r \in Recs |-> None]
      /\ pc' = [pc EXCEPT ![Main] = "closed"]
      /\ UNCHANGED <<known, running, alive, job>>
      BY DEF Close, os
<1>2. Goto(Main, "closed", job[Main])
      BY <1>0, <1>1 DEF Goto, TypeInv, ThreadTypes
<1>3. /\ pc'[Main] = "closed"
      /\ \A u \in Threads \ {Main} : pc'[u] = pc[u] /\ pc[u] \in Waiting
      BY <1>0, <1>1, <1>2, OthersWait DEF Waiting
<1>4. \A u \in Threads \ {Main} : pc'[u] = "idle"
      BY <1>0, <1>3 DEF TypeInv, JobOK, Fits, Working, Waiting
<1>5. StopsAll(Main) /\ job' = job
      BY <1>0, <1>1, Here
<1>6. Starting = {} /\ Kept'
      BY <1>1, <1>3 DEF Starting, Waiting, Alone, Kept
<1>7. Placed' /\ ClosedInv'
  <2>1. known \subseteq Recs
        BY <1>0 DEF TypeInv, RegTypes
  <2>. QED BY <1>1, <1>4, <1>5, <2>1 DEF Placed, ClosedInv, StopsAll
<1>8. \A u \in Threads : Local(u)'
  <2>1. LocalAt(Main, "close", job[Main])
        BY <1>0, <1>1 DEF Alone, Local
  <2>2. Local(Main)'
        BY <1>1, <1>3, <1>5, <2>1 DEF Local, LocalAt, StopsAll
  <2>3. ASSUME NEW u \in Threads \ {Main} PROVE Local(u)'
        BY <1>4, <2>3 DEF Local, LocalAt
  <2>. QED BY <2>2, <2>3
<1>. QED BY <1>6, <1>7, <1>8 DEF Alone

LEMMA AloneNext == SafeInv /\ AloneInv /\ [Next]_vars => AloneInv'
<1> SUFFICES ASSUME SafeInv, AloneInv, [Next]_vars, ~overlapped' PROVE Alone'
    BY DEF AloneInv
<1>0. TypeInv
      BY DEF SafeInv
<1>1. CASE UNCHANGED vars
  <2>1. Alone /\ UNCHANGED <<registry, running, alive, threads, pc>>
        BY <1>1 DEF AloneInv, vars, os, threads
  <2>2. Sole'
        BY <2>1 DEF Alone, Sole, Busy
  <2>. QED BY <1>0, <2>1, <2>2, OutsideAlone
<1>2. CASE Next
  <2>1. Alone /\ Sole'
        BY <1>2, SoleNext DEF Next, AloneInv
  <2>2. ASSUME NEW t \in Threads, Step(t) PROVE Alone'
    <3>1. pc[Main] # "closed"
          BY <2>1, <2>2, NotClosed DEF Alone
    <3>. QED BY <2>1, <2>2, <3>1, BeginAlone, PickAlone, RegisterAlone, FindAlone, AppendAlone,
             CheckAlone, SpawnAlone, CommitAlone, StartedAlone, CaptureAlone, DespawnAlone,
             NextEntryAlone, AwaitAlone, GiveUpAlone, ForgetAlone, StoppedAlone,
             RemoveServerAlone DEF Step
  <2>3. ASSUME NEW p \in Procs, Exit(p) PROVE Alone'
    <3>1. UNCHANGED <<registry, running, threads>> /\ alive' \subseteq alive
          BY <2>3 DEF Exit
    <3>. QED BY <1>0, <2>1, <3>1, OutsideAlone
  <2>4. ASSUME NEW p \in Procs, UpdatePort(p) PROVE Alone'
    <3>1. UNCHANGED <<registry, running, threads>> /\ alive' \subseteq alive
          BY <2>4 DEF UpdatePort
    <3>. QED BY <1>0, <2>1, <3>1, OutsideAlone
  <2>5. CASE Boot \/ Drained
        BY <2>1, <2>5, BootAlone
  <2>6. CASE Shutdown
    <3>1. UNCHANGED <<registry, running>> /\ alive' \subseteq alive
          BY <2>6 DEF Shutdown, os
    <3>. QED BY <1>0, <2>1, <2>6, <3>1, OutsideAlone DEF Shutdown, Goto
  <2>7. CASE Close
        BY <2>1, <2>7, CloseAlone
  <2>. QED BY <1>2, <2>2, <2>3, <2>4, <2>5, <2>6, <2>7 DEF Next
<1>. QED BY <1>1, <1>2

LEMMA AloneInit == Init => AloneInv
<1> SUFFICES ASSUME Init PROVE Alone
    BY DEF AloneInv
<1>0. Used = {} /\ Main \in Threads
      BY DEF Init, Used, Threads
<1>1. \A t \in Threads : pc[t] = (IF t = Main THEN "boot" ELSE "idle") /\ job[t] = NoJob
      BY DEF Init
<1>2. Sole
      BY <1>1 DEF Sole, Busy
<1>3. Kept /\ Placed
      BY DEF Kept, Placed, Init
<1>4. ClosedInv
      BY <1>0, <1>1 DEF ClosedInv
<1>5. ASSUME NEW t \in Threads PROVE Local(t)
  <2>1. NoJob.op = "none"
        BY DEF NoJob
  <2>. QED BY <1>0, <1>1, <2>1 DEF Local, LocalAt
<1>. QED BY <1>2, <1>3, <1>4, <1>5 DEF Alone

LEMMA AloneAlways == Spec => [](SafeInv /\ AloneInv)
BY SafeInit, SafeNext, AloneInit, AloneNext, PTL DEF Spec

\* Every server process that runs is recorded by a known record, or about to be,
\* unless operations have overlapped: startRecord, which unlocks to start the
\* process, loses none by itself, nor does StopServer or RemoveServer.
THEOREM NoProcessIsOrphaned == Spec => []NoOrphan
<1>1. AloneInv => NoOrphan
      BY DEF AloneInv, Alone, Kept, NoOrphan
<1>. QED BY <1>1, AloneAlways, PTL

\* Every known record that has a server is reached from the registry's table,
\* unless operations have overlapped: the line a new server takes over is free.
THEOREM InstancesAreReachable == Spec => []Reachable
<1>1. AloneInv => Reachable
      BY DEF AloneInv, Alone, Placed, Reachable
<1>. QED BY <1>1, AloneAlways, PTL

\* When StopAll has returned and none of its waits gave up, nothing runs, unless
\* operations have overlapped.
THEOREM StopAllLeavesNothing == Spec => []NothingLeftRunning
<1>1. AloneInv => NothingLeftRunning
  <2>1. SUFFICES ASSUME AloneInv, pc[Main] = "closed", ~job[Main].failed, ~overlapped
                 PROVE  alive = {}
        BY DEF NothingLeftRunning
  <2>2. Local(Main) /\ StopsAll(Main)
        BY <2>1 DEF AloneInv, Alone, ClosedInv, Threads
  <2>. QED BY <2>1, <2>2 DEF Local, LocalAt, StopsAll
<1>. QED BY <1>1, AloneAlways, PTL

\* RestartServer starts the server it has stopped, unless operations have
\* overlapped: the index it looks up a second time still names that server.
THEOREM RestartKeepsItsServer == Spec => RestartsTheSame
<1> DEFINE Same ==
      \A t \in Threads :
        (/\ pc[t] = "find" /\ pc'[t] \in {"append", "start"}
         /\ job[t].op = "restart" /\ ~overlapped)
          => job'[t].obj = job[t].obj
<1>1. SafeInv /\ AloneInv /\ [Next]_vars => [Same]_vars
  <2> SUFFICES ASSUME SafeInv, AloneInv, Next, NEW t \in Threads,
                      pc[t] = "find", pc'[t] \in {"append", "start"},
                      job[t].op = "restart", ~overlapped
               PROVE  job'[t].obj = job[t].obj
      OBVIOUS
  <2>1. Found(job[t].target) /\ job[t].obj = table[At(job[t].target)]
        BY DEF AloneInv, Alone, Local, LocalAt
  <2>2. TypeInv /\ t # Main /\ job[t] \in Jobs
        BY Here DEF SafeInv, Working
  <2>3. Find(t)
    <3>1. PICK u \in Threads : Step(u)
      <4>1. ASSUME Boot \/ Shutdown \/ Drained \/ Close \/ \E p \in Procs : Exit(p) \/ UpdatePort(p)
            PROVE  pc'[t] = pc[t]
            BY <2>2, <4>1 DEF Boot, Shutdown, Drained, Close, Exit, UpdatePort, Goto, threads,
               TypeInv, ThreadTypes
      <4>. QED BY <4>1 DEF Next
    <3>2. u = t
      <4>1. SUFFICES ASSUME u # t PROVE FALSE
            OBVIOUS
      <4>2. PICK at, k : Goto(u, at, k)
        <5>1. CASE Spawn(u)
          <6>1. ASSUME StartError(u, job[u].rec) PROVE \E at, k : Goto(u, at, k)
                BY <6>1 DEF StartError, Return
          <6>. QED BY <5>1, <6>1 DEF Spawn
        <5>2. CASE ~Spawn(u)
              BY <2>2, <3>1, <5>2, OnlySpawnCommits DEF Elsewhere
        <5>. QED BY <5>1, <5>2
      <4>3. pc'[t] = pc[t]
            BY <2>2, <4>1, <4>2 DEF Goto, TypeInv, ThreadTypes
      <4>. QED BY <4>3
    <3>3. ~(Begin(t) \/ BeginLaunch(t) \/ BeginScale(t))
          BY DEF Begin, BeginLaunch, BeginScale
    <3>. QED BY <3>1, <3>2, <3>3 DEF Step, PickLine, RegisterLaunch, AppendRecord, CheckRecord, Spawn,
             Commit, Started, Capture, Despawn, NextEntry, AwaitExit, GiveUp, Forget, Stopped,
             RemoveServer
  <2>4. Goto(t, pc'[t], [job[t] EXCEPT !.line = At(job[t].target), !.obj = table[At(job[t].target)],
                   !.todo = ToSet(insts[table[At(job[t].target)]]) \cap known])
        BY <2>1, <2>2, <2>3 DEF Find, Goto, TypeInv, ThreadTypes
  <2>5. job'[t] = [job[t] EXCEPT !.line = At(job[t].target), !.obj = table[At(job[t].target)],
                   !.todo = ToSet(insts[table[At(job[t].target)]]) \cap known]
        BY <2>2, <2>4 DEF Goto, TypeInv, ThreadTypes
  <2>. QED BY <2>1, <2>2, <2>5 DEF Jobs
<1>. QED BY <1>1, AloneAlways, PTL DEF Spec, RestartsTheSame
=============================================================================
