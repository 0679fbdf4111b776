-------------------------------- MODULE Nexus --------------------------------
(***************************************************************************)
(* Nexus from boot to boot: the process (Lifecycle), the installation it   *)
(* runs while it starts (Quickstart), the launch plan it reads when it     *)
(* starts the servers (LaunchPlan), and GAME_DIR, which outlives it.  An   *)
(* operator works on GAME_DIR while Nexus is down, and starts it again.    *)
(* The servers of Lifecycle are the lines of servers.ini, by number.       *)
(***************************************************************************)
EXTENDS Lifecycle, Quickstart

CONSTANTS
  Worlds,   \* what GAME_DIR may hold at first, [ini, disk], and how many times
            \* Nexus is started on it: [.., boots]
  Edits     \* the servers.ini files that the operator may put there

ASSUME InisAssumption == Edits \subseteq Inis /\ \A w \in Worlds : w.ini \in Inis

\* Before Nexus has ever run, what is in the layers is the operator's.
ASSUME WorldsAssumption ==
  \A w \in Worlds : w.disk \in [Slots -> [Files -> {"none", "user"}]]

VARIABLES
  world, boots,
  edited,     \* the operator has had a hand in it
  ownIni      \* the servers.ini that the operator provided, or NoFile

operator == <<world, boots, edited, ownIni>>
lifecycle == <<pc, exit, gate, nets, rest, game>>
runVars  == <<lifecycle, qvars, boots, edited, ownIni>>
allVars  == <<runVars, world>>

NexusInit ==
  /\ Init /\ QInit
  /\ world \in Worlds /\ boots = 1 /\ edited = FALSE
  /\ ini = world.ini /\ disk = world.disk /\ ownIni = world.ini

-----------------------------------------------------------------------------
\* What StartAll finds to launch.
Entries == LoadServersIni(ini).entries

Main ==
  \/ Boot \/ WindDown \/ Signal \/ ServeFails \/ DeadlinePasses
  \/ \E b \in Browsers : OpenStream(b) \/ CloseStream(b)
  \/ \E g \in Games : GameExits(g)

\* A step of the process.  Its start goes on when Quickstart is done, StartAll
\* launches the entries of the plan or fails without any, and when it ends the
\* installation ends with it.
MainStep ==
  /\ Main
  /\ pc = "init" /\ pc' = "serve" => qpc = "done"
  /\ pc = "start" /\ pc' = "poller" =>
       /\ ~LoadServersIni(ini).err
       /\ \A g \in Games : game'[g] = "up" => \E e \in ToSet(Entries) : e.line = g
  /\ IF pc # "gone" /\ pc' = "gone" THEN Quit ELSE UNCHANGED qvars
  /\ UNCHANGED <<boots, edited, ownIni>>

InstallStep ==
  /\ pc = "init" /\ QuickstartStep
  /\ UNCHANGED <<lifecycle, boots, edited, ownIni>>

\* Nexus is started again; what the last one left running is gone by then.
Restart ==
  /\ pc = "gone" /\ boots < world.boots
  /\ boots' = boots + 1
  /\ pc' = "tls" /\ exit' = "none"
  /\ attempt' = 0 /\ cert' = FALSE /\ http' = "off" /\ wt' = "off" /\ stream' = {}
  /\ runCtx' = TRUE /\ poller' = FALSE /\ signalled' = FALSE /\ deadline' = FALSE
  /\ todo' = <<>> /\ game' = [g \in Games |-> "down"]
  /\ qpc' = "stat"
  /\ UNCHANGED <<tls, gameDir, pending, srcs, files, edited, ownIni>>

\* The operator puts a servers.ini, or a file into a layer, or empties a layer.
EditIni ==
  /\ pc = "gone" /\ ~edited
  /\ \E f \in Edits : ini' = f /\ ownIni' = f
  /\ edited' = TRUE
  /\ UNCHANGED <<lifecycle, qpc, disk, cut, pending, srcs, files, boots>>

EditLayer(s) ==
  /\ pc = "gone" /\ ~edited
  /\ \/ \E f \in Files : disk' = [disk EXCEPT ![s][f] = "user"] /\ UNCHANGED cut
     \/ disk' = [disk EXCEPT ![s] = [f \in Files |-> "none"]] /\ cut' = cut \ {s}
  /\ edited' = TRUE
  /\ UNCHANGED <<lifecycle, qpc, ini, pending, srcs, files, boots, ownIni>>

NexusNext ==
  /\ world.boots > 0
  /\ MainStep \/ InstallStep \/ Restart \/ EditIni \/ \E s \in Slots : EditLayer(s)
  /\ UNCHANGED world

NexusSpec ==
  /\ NexusInit /\ [][NexusNext]_allVars
  /\ WF_lifecycle(WindDown) /\ WF_lifecycle(DeadlinePasses)

-----------------------------------------------------------------------------
(* Properties *)

\* "If it exists, it is never modified" (QuickstartGame, of servers.ini): no
\* number of boots, failed, killed or complete, changes the file the operator
\* provided, nor a file the operator put into a layer, unless the catalog forces
\* the installation of that game.
OperatorFilesKept ==
  [][/\ ownIni # NoFile /\ ownIni' = ownIni => ini' = ini
     /\ \A s \in Slots, f \in Files :
          (/\ disk[s][f] = "user" /\ edited' = edited
           /\ \A e \in ToSet(Catalog) : EntryName(e) = s[1] => ~e.force)
            => disk'[s][f] = "user"]_allVars

\* A layer is complete: every file of every source, or the operator's own.
Complete(e, l) ==
  \/ \E f \in Files : disk[<<EntryName(e), l>>][f] = "user"
  \/ \A s \in ToSet(e.layers[l]), f \in Files :
       f \in ToSet(s) => disk[<<EntryName(e), l>>][f] = "packed"

\* The launch line of number g.
OwnLine(g) ==
  {ini[n] : n \in {m \in DOMAIN ini :
                     /\ IsLaunchLine(ini[m])
                     /\ Cardinality({k \in 1..m - 1 : IsLaunchLine(ini[k])}) = g}}

\* The entries that a server of line g needs: the base, and the game its own
\* line in servers.ini names (a -game that comes from a group is not installed).
NeededBy(g) ==
  {i \in DOMAIN Catalog :
     /\ \A j \in 1..i - 1 : EntryName(Catalog[j]) # EntryName(Catalog[i])
     /\ \/ Catalog[i].base # ""
        \/ /\ Catalog[i].game # ""
           /\ \E line \in OwnLine(g) : Word(Catalog[i].game) \in ListGamesInServersIni(<<line>>)}

\* However the boots before this one ended, a server that Nexus runs has all its
\* data: the only layers it may miss files of are those that an earlier boot left
\* half installed, which Quickstart takes for installed ever after.
LaunchedIsInstalled ==
  \A g \in Games : pc # "gone" /\ game[g] = "up" =>
    \A i \in NeededBy(g), l \in ToSet(Layers) :
      Complete(Catalog[i], l) \/ <<EntryName(Catalog[i]), l>> \in cut

References(line, groups) == {r \in DOMAIN line : IsReference(line[r], groups)}

\* The turns of a launch line, and the field that has each.
Turns(line, groups) ==
  {<<r, 0>> : r \in DOMAIN line \ References(line, groups)}
    \cup UNION {{r} \X DOMAIN groups[line[r][2]] : r \in References(line, groups)}

FieldAt(line, groups, x) == IF x[2] = 0 THEN line[x[1]] ELSE groups[line[x[1]][2]][x[2]]

NotAfter(x, y) == x[1] < y[1] \/ (x[1] = y[1] /\ x[2] <= y[2])

\* The turns in which a group has a key, and those of them that provide it.
KeyTurns(line, groups) ==
  {x \in Turns(line, groups) : x[2] # 0 /\ IsLaunchKeyToken(FieldAt(line, groups, x))}

Free(line, groups) ==
  {x \in KeyTurns(line, groups) :
     LET key(y) == FieldAt(line, groups, y)[2]
     IN /\ key(x) \notin KeysOf(Tail(line))
        /\ \A y \in KeyTurns(line, groups) : NotAfter(y, x) /\ key(y) = key(x) => y = x}

\* The key that a group's field goes with is the last one not after it.
Kept(line, groups) ==
  {x \in Turns(line, groups) :
     \A y \in KeyTurns(line, groups) :
       (/\ y[1] = x[1] /\ NotAfter(y, x)
        /\ \A z \in KeyTurns(line, groups) : z[1] = x[1] /\ NotAfter(z, x) => NotAfter(z, y))
         => y \in Free(line, groups)}

\* "The launch line's explicit args win over group-provided defaults", and a key
\* is skipped that an earlier group has provided (mergeLaunchGroups), stated
\* without the scan.  Every field of a launch line, <<r, 0>>, and every field j of
\* the group it refers to, <<r, j>>, has its turn.  A group's key is free when the
\* line has no such key of its own and no group has it in an earlier turn; what is
\* kept of a group is its free keys, with the words behind them, and the words
\* before its first key.  The merged line is what is kept, in turn, and no more.
MergeIsRight ==
  ini # NoFile => \A i \in DOMAIN ini : IsLaunchLine(ini[i]) =>
    LET line   == ini[i]
        groups == Load(ini)[i - 1].groups
        merged == MergeLaunchGroups(line, groups)
        kept   == Kept(line, groups)
    IN /\ Len(merged) = Cardinality(kept)
       /\ \A x \in kept :
            merged[Cardinality({y \in kept : NotAfter(y, x)})] = FieldAt(line, groups, x)
=============================================================================
