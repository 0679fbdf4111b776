----------------------------- MODULE Quickstart -----------------------------
(***************************************************************************)
(* QuickstartGame (assets/quickstart.go, quickstart_install.go,            *)
(* quickstart_extract.go): at every boot servers.ini is written if there   *)
(* is none, and the data of the games it names is installed where a layer  *)
(* of a game has no files yet.  All it knows of an earlier boot is what it *)
(* finds in GAME_DIR.                                                      *)
(*                                                                         *)
(* qpc: "off", "stat", "create" (servers.ini is missing), "write" (it is   *)
(* open and empty), "list", "layer", "source", "file", "copy" (a file is   *)
(* open and not complete), "done".                                         *)
(***************************************************************************)
EXTENDS LaunchPlan

CONSTANTS
  Catalog,    \* game.json: entries [game, base ("" if unset), layers, force], where
              \* layers gives the sources of each layer, a source being the
              \* sequence of the files it unpacks to
  Wanted,     \* the names in QUICKSTART; <<"all">> for every game
  DefaultIni, \* CFG_DIR/servers.ini
  Files       \* file names

Layers == <<"common", "server", "client">>

ASSUME CatalogAssumption ==
  Catalog \in Seq([game : STRING, base : STRING, force : BOOLEAN,
                   layers : [ToSet(Layers) -> Seq(Seq(Files))]])

ASSUME ConfigAssumption == Wanted \in Seq(STRING) /\ DefaultIni \in Inis

NoFile == <<<<<<"?", "no file">>>>>>

VARIABLES
  qpc,
  ini,    \* GAME_DIR/servers.ini, or NoFile
  disk,   \* each layer of each game: its files, "none", "dir" (the directory for it is
          \* there), "torn", "packed" (complete, from a source) or "user" (put there by
          \* the operator)
  pending,   \* the layers still to be looked at: [slot, sources, force]
  srcs,   \* the sources still to be installed in the first of them
  files,  \* the files still to be written from the first of those
  cut     \* layers whose installation was given up half-way

gameDir == <<ini, disk, cut>>
qvars   == <<qpc, gameDir, pending, srcs, files>>

EntryName(e) == IF e.base # "" THEN e.base ELSE e.game
Names == {EntryName(e) : e \in ToSet(Catalog)}
Slots == Names \X ToSet(Layers)

\* Of the names, those allowed, each once.
Chosen(names, allowed) ==
  LET at[n \in 0..Len(names)] ==
        IF n = 0 THEN <<>>
        ELSE IF names[n] \in allowed \ ToSet(at[n - 1]) THEN Append(at[n - 1], names[n])
        ELSE at[n - 1]
  IN at[Len(names)]

\* selectGamesFromQuickstart: unknown names are skipped.
SelectGames ==
  LET games == [i \in DOMAIN Catalog |-> Catalog[i].game]
  IN Chosen(IF Wanted = <<"all">> THEN games ELSE Wanted, ToSet(games) \ {""})

\* createDefaultServersIni: one line for each selected game.
LaunchLine(g) == <<Word("nqserver"), <<"@", "def">>, GameKey, Word(g)>>
NewIni == DefaultIni \o [i \in DOMAIN SelectGames |-> LaunchLine(SelectGames[i])]

\* quickstartInstallPlan: of the entries of one name the first, if servers.ini
\* names it or it is a base.
Planned(i) ==
  LET name == EntryName(Catalog[i]) IN
  /\ name # ""
  /\ \A j \in 1..i - 1 : EntryName(Catalog[j]) # name
  /\ \/ Word(name) \in ListGamesInServersIni(ini)
     \/ \E e \in ToSet(Catalog) : e.base = name

PlanLayers ==
  LET layersOf(i) == [l \in DOMAIN Layers |->
                        [slot |-> <<EntryName(Catalog[i]), Layers[l]>>,
                         sources |-> Catalog[i].layers[Layers[l]], force |-> Catalog[i].force]]
  IN FlattenSeq([i \in DOMAIN Catalog |-> IF Planned(i) THEN layersOf(i) ELSE <<>>])

DirHasEntries(slot) == \E f \in Files : disk[slot][f] # "none"

\* Mutant: a game with any files is taken for installed.
LayerNeedsInstall_perGame(t) ==
  t.sources # <<>> /\ (t.force \/ \A l \in ToSet(Layers) : ~DirHasEntries(<<t.slot[1], l>>))
LayerNeedsInstall(t) ==
  t.sources # <<>> /\ (t.force \/ ~DirHasEntries(t.slot))

QInit ==
  /\ qpc = "stat" /\ pending = <<>> /\ srcs = <<>> /\ files = <<>> /\ cut = {}

-----------------------------------------------------------------------------
\* Mutant: a file without launch lines counts as missing.
Stat_content ==
  /\ qpc = "stat"
  /\ qpc' = IF ini = NoFile \/ LoadServersIni(ini).err THEN "create" ELSE "list"
  /\ UNCHANGED <<gameDir, pending, srcs, files>>

Stat ==
  /\ qpc = "stat"
  /\ qpc' = IF ini = NoFile THEN "create" ELSE "list"
  /\ UNCHANGED <<gameDir, pending, srcs, files>>

\* os.WriteFile opens the file first, which makes it exist and empty.
CreateIni ==
  /\ qpc = "create" /\ qpc' = "write"
  /\ ini' = <<>>
  /\ UNCHANGED <<disk, cut, pending, srcs, files>>

WriteIni ==
  /\ qpc = "write" /\ qpc' = "list"
  /\ ini' = NewIni
  /\ UNCHANGED <<disk, cut, pending, srcs, files>>

List ==
  /\ qpc = "list" /\ qpc' = "layer"
  /\ pending' = PlanLayers
  /\ UNCHANGED <<gameDir, srcs, files>>

\* installLayer looks at the directory when the layer's turn comes.
InstallLayer ==
  /\ qpc = "layer" /\ pending # <<>>
  /\ IF LayerNeedsInstall(Head(pending))
       THEN qpc' = "source" /\ srcs' = Head(pending).sources /\ UNCHANGED pending
       ELSE pending' = Tail(pending) /\ UNCHANGED <<qpc, srcs>>
  /\ UNCHANGED <<gameDir, files>>

\* installFromSource: downloaded and opened, or it is an error (Quit) ...
InstallFromSource ==
  /\ qpc = "source" /\ srcs # <<>>
  /\ qpc' = "file" /\ files' = Head(srcs) /\ srcs' = Tail(srcs)
  /\ UNCHANGED <<gameDir, pending>>

LayerDone ==
  /\ qpc = "source" /\ srcs = <<>>
  /\ qpc' = "layer" /\ pending' = Tail(pending) /\ cut' = cut \ {Head(pending).slot}
  /\ UNCHANGED <<ini, disk, srcs, files>>

\* ... then unpacked in place, file by file (copyToFile).  A file of a
\* subdirectory has that made first, which is an entry of the layer already.
MkdirAll ==
  /\ qpc = "file" /\ files # <<>> /\ disk[Head(pending).slot][Head(files)] = "none"
  /\ disk' = [disk EXCEPT ![Head(pending).slot][Head(files)] = "dir"]
  /\ UNCHANGED <<qpc, ini, cut, pending, srcs, files>>

CreateFile ==
  /\ qpc = "file" /\ files # <<>>
  /\ qpc' = "copy" /\ disk' = [disk EXCEPT ![Head(pending).slot][Head(files)] = "torn"]
  /\ UNCHANGED <<ini, cut, pending, srcs, files>>

CopyFile ==
  /\ qpc = "copy" /\ qpc' = "file"
  /\ disk' = [disk EXCEPT ![Head(pending).slot][Head(files)] = "packed"]
  /\ files' = Tail(files)
  /\ UNCHANGED <<ini, cut, pending, srcs>>

SourceDone ==
  /\ qpc = "file" /\ files = <<>>
  /\ qpc' = "source"
  /\ UNCHANGED <<gameDir, pending, srcs, files>>

Finish ==
  /\ qpc = "layer" /\ pending = <<>>
  /\ qpc' = "done"
  /\ UNCHANGED <<gameDir, pending, srcs, files>>

QuickstartStep ==
  \/ Stat \/ CreateIni \/ WriteIni \/ List \/ InstallLayer \/ InstallFromSource
  \/ LayerDone \/ MkdirAll \/ CreateFile \/ CopyFile \/ SourceDone \/ Finish

\* An error, which main makes fatal, or the end of the process: what is written
\* stays as it is.
Quit ==
  /\ qpc' = "off" /\ pending' = <<>> /\ srcs' = <<>> /\ files' = <<>>
  /\ cut' = IF qpc \in {"source", "file", "copy"} /\ DirHasEntries(Head(pending).slot)
               THEN cut \cup {Head(pending).slot} ELSE cut
  /\ UNCHANGED <<ini, disk>>
=============================================================================
