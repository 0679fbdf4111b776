----------------------------- MODULE LaunchPlan -----------------------------
(***************************************************************************)
(* servers.ini, as the two readers of the file take it                     *)
(* (orch/launch_plan.go, assets/quickstart.go).                            *)
(*                                                                         *)
(* A file is a sequence of lines, a line the sequence of its fields, and a *)
(* field <<mark, name>>: mark "-" or "+" for a key, "@" for a group, "%"   *)
(* for a template, "" for any other word.  A blank or a comment is <<>>, a *)
(* line that cannot be split is Bad.                                       *)
(***************************************************************************)
EXTENDS Naturals, Sequences, FiniteSets, SequencesExt

Field == STRING \X STRING
Inis  == Seq(Seq(Field))

Bad == <<<<"!", "">>>>

Word(w) == <<"", w>>
GameKey == <<"-", "game">>

IsLaunchKeyToken(t) == t[1] \in {"-", "+"}
IsGroupLine(line)   == line # <<>> /\ line[1][1] = "@"
IsLaunchLine(line)  == line \notin {<<>>, Bad} /\ ~IsGroupLine(line)

UnsupportedLaunchArgs == {<<"-", k>> : k \in {"basedir", "hipnotic", "path", "rogue"}}

KeysOf(fields) == {f[2] : f \in {g \in ToSet(fields) : IsLaunchKeyToken(g)}}

-----------------------------------------------------------------------------
(* mergeLaunchGroups, applyLaunchArgTemplates *)

\* Mutant: only what a group has already inserted is skipped.
Taken_inserted(explicit, inserted) == inserted
\* The keys that a group may not provide.
Taken(explicit, inserted) == explicit \cup inserted

\* One field of a group: a key that is taken goes with the words after it.
\* acc: the fields so far, the keys inserted, and whether words are skipped.
InsertField(explicit, acc, t) ==
  IF ~IsLaunchKeyToken(t)
    THEN IF acc.skip THEN acc ELSE [acc EXCEPT !.out = Append(@, t)]
  ELSE IF t[2] \in Taken(explicit, acc.inserted) THEN [acc EXCEPT !.skip = TRUE]
  ELSE [out |-> Append(acc.out, t), inserted |-> acc.inserted \cup {t[2]}, skip |-> FALSE]

\* What a reference inserts: the fields of its group, one after the other.
InsertGroup(explicit, acc, group) ==
  LET at[n \in 0..Len(group)] ==
        IF n = 0 THEN [acc EXCEPT !.skip = FALSE]
                 ELSE InsertField(explicit, at[n - 1], group[n])
  IN at[Len(group)]

IsReference(t, groups) == t[1] = "@" /\ t[2] \in DOMAIN groups

MergeField(explicit, groups, acc, t) ==
  IF IsReference(t, groups) THEN InsertGroup(explicit, acc, groups[t[2]])
                            ELSE [acc EXCEPT !.out = Append(@, t)]

\* The fields of a launch line, with each group it refers to in its place.
MergeLaunchGroups(fields, groups) ==
  LET at[n \in 0..Len(fields)] ==
        IF n = 0 THEN [out |-> <<>>, inserted |-> {}, skip |-> FALSE]
                 ELSE MergeField(KeysOf(Tail(fields)), groups, at[n - 1], fields[n])
  IN at[Len(fields)].out

\* The places of key k that are followed by a value.
Valued(args, k) ==
  {i \in 1..Len(args) - 1 : /\ IsLaunchKeyToken(args[i]) /\ args[i][2] = k
                            /\ ~IsLaunchKeyToken(args[i + 1])}

FirstValue(args, k) ==
  args[1 + (CHOOSE i \in Valued(args, k) : \A j \in Valued(args, k) : i <= j)]

\* %key stands for the first value of key.
ApplyLaunchArgTemplates(args) ==
  [i \in 1..Len(args) |->
     IF args[i][1] = "%" /\ Valued(args, args[i][2]) # {}
       THEN FirstValue(args, args[i][2])
       ELSE args[i]]

-----------------------------------------------------------------------------
(* loadServersIni *)

NoGroups == [k \in {} |-> <<>>]

\* One line: a group replaces one of its name and counts for the lines below it;
\* a launch line takes the next number, also when it is then left out.
ReadLine(acc, line) ==
  IF acc.err \/ line = <<>> THEN acc
  ELSE IF line = Bad THEN [acc EXCEPT !.err = TRUE]
  ELSE IF IsGroupLine(line)
    THEN IF line[1][2] = "" THEN [acc EXCEPT !.err = TRUE]
         ELSE [acc EXCEPT !.groups = [k \in DOMAIN @ \cup {line[1][2]} |->
                                         IF k = line[1][2] THEN Tail(line) ELSE @[k]]]
    ELSE LET args == ApplyLaunchArgTemplates(Tail(MergeLaunchGroups(line, acc.groups)))
         IN [groups |-> acc.groups, next |-> acc.next + 1, err |-> FALSE,
             entries |-> IF ToSet(args) \cap UnsupportedLaunchArgs # {} THEN acc.entries
                         ELSE Append(acc.entries, [line |-> acc.next, args |-> args])]

\* What has been read after each number of lines.
Load(ini) ==
  LET at[n \in 0..Len(ini)] ==
        IF n = 0 THEN [groups |-> NoGroups, next |-> 0, entries |-> <<>>, err |-> FALSE]
                 ELSE ReadLine(at[n - 1], ini[n])
  IN at

\* The entries to launch; a file that cannot be read, or that launches nothing,
\* is an error.
LoadServersIni(ini) ==
  LET l == Load(ini)[Len(ini)] IN [entries |-> l.entries, err |-> l.err \/ l.entries = <<>>]

-----------------------------------------------------------------------------
(* listGamesInServersIni *)

\* What follows -game on the launch lines.  Groups are not looked into, and a line
\* that cannot be split is passed over.
ListGamesInServersIni(ini) ==
  UNION {{line[i + 1] : i \in {j \in 1..Len(line) - 1 : line[j] = GameKey}} :
           line \in {l \in ToSet(ini) : IsLaunchLine(l)}}
=============================================================================
