------------------------------- MODULE MCNexus -------------------------------
(* Nexus for TLC.  A base game of two sources, a game of two layers and a mod  *)
(* that is installed anew at every boot; a GAME_DIR that is empty, and one     *)
(* with the operator's own servers.ini, each started twice; and every small    *)
(* servers.ini of two groups and a launch line, which is only read.            *)
EXTENDS Nexus

NoSources == [l \in ToSet(Layers) |-> <<>>]

MCCatalog == <<
  [game |-> "ffa", base |-> "", force |-> FALSE,
   layers |-> [NoSources EXCEPT !["common"] = <<<<"f1">>>>, !["server"] = <<<<"f1">>>>]],
  [game |-> "mod", base |-> "", force |-> TRUE,
   layers |-> [NoSources EXCEPT !["server"] = <<<<"f1">>>>]],
  [game |-> "", base |-> "id1", force |-> FALSE,
   layers |-> [NoSources EXCEPT !["common"] = <<<<"f1">>, <<"f2">>>>]]>>

MCWanted == <<"ffa", "none">>

Group(n) == <<"@", n>>

MCDefaultIni == <<<<Group("def"), <<"+", "host">>, <<"%", "game">>>>>>

\* An operator's file: the mod's name comes from a group, and a line is left out.
OwnIni == <<<<Group("mod"), GameKey, Word("ffa")>>,
            <<Word("nqserver"), <<"-", "path">>>>,
            <<Word("nqserver"), Group("mod")>>>>

Empty == [s \in Slots |-> [f \in Files |-> "none"]]

GroupFields == {GameKey, <<"+", "map">>, Word("a")}
LineFields  == {Group("x"), Group("y"), <<"+", "game">>, <<"-", "map">>, Word("b")}

SmallInis ==
  {<<<<Group("x")>> \o g, <<Group("y"), <<"+", "map">>, Word("c")>>, <<Word("nqserver")>> \o l>> :
     g \in BoundedSeq(GroupFields, 3), l \in BoundedSeq(LineFields, 3)}

MCWorlds ==
  {[ini |-> NoFile, disk |-> Empty, boots |-> 2], [ini |-> OwnIni, disk |-> Empty, boots |-> 2]}
  \cup {[ini |-> f, disk |-> Empty, boots |-> 0] : f \in SmallInis}

\* A file that launches nothing, and one that launches two servers.
MCEdits == {MCDefaultIni, <<LaunchLine("ffa"), LaunchLine("mod")>>}
=============================================================================
