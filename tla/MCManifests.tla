----------------------------- MODULE MCManifests -----------------------------
(* Manifests for TLC: every small tree, scanned once; PAKs that are replaced    *)
(* and removed under two scans; and three manifests, with time and a request    *)
(* for an address; and one of a file that may be gone by then.                  *)
EXTENDS Manifests
CONSTANTS r1, r2, r3, g1

\* pak10 sorts after pak2 by number and before it by name.
MCPakSortKey == ("pak2" :> <<0, 2, 2>>) @@ ("pak10" :> <<0, 10, 1>>) @@ ("xtra" :> <<1, 0, 3>>)
MCLoose == <<"A", "a">>
MCKey   == ("A" :> "a") @@ ("a" :> "a") @@ ("b" :> "b")
MCEntries == <<{"a"}, {"A", "b"}, {"b"}, Malformed>>

Tree(pak, loose) == [pak |-> pak, loose |-> loose]
None == [p \in Paks |-> 0]
In(l, x, y) == ("common" :> IF l = "common" THEN x ELSE y) @@ ("client" :> IF l = "client" THEN x ELSE y)

\* One layer with up to two PAKs, beside one with a PAK, and any loose files.
Trees ==
  {Tree(In(l, p, [None EXCEPT !["pak2"] = v]), f) :
     l \in LayerNames, v \in {0, 2},
     p \in {q \in [Paks -> {0, 1, 2, 4}] : \E x \in Paks : q[x] = 0},
     f \in [LayerNames -> SUBSET {"A", "a"}]}

MCLoads ==
  {[disk |-> t, changes |-> 0, time |-> 0, refs |-> {r1}, gets |-> {}] : t \in Trees}
  \cup {[disk |-> Tree(In("common", [None EXCEPT !["pak2"] = 1], None), In("client", {}, {})),
         changes |-> 2, time |-> 0, refs |-> {r1, r2}, gets |-> {}]}
  \cup {[disk |-> Tree(In("common", None, None), In("client", {"a"}, {})),
         changes |-> 0, time |-> 3, refs |-> {r1, r2, r3}, gets |-> {g1}],
        [disk |-> Tree(In("common", None, None), In("client", {"a"}, {})),
         changes |-> 1, time |-> 2, refs |-> {r1}, gets |-> {g1}]}
=============================================================================
