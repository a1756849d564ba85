----------------------------- MODULE MCNameList -----------------------------
(* An instance of NameList for TLC.                                        *)
EXTENDS NameList

\* The first word is a prefix of the second one.
MCQueries == {<<1, 1>>, <<1, 2>>, <<2, 2>>, <<3, 3>>}

MCWatched == {<<2, 2, 0>>}

\* Users come, go and change their names.
FullNames(u) == CASE u = 1 -> {{1, 2}, {2, 3}} [] u = 2 -> {{1, 2}} [] OTHER -> {{2, 3}}
Entries(u, words) == {<<w, u, 0>> : w \in words}
MCCalls ==
  UNION {{[add |-> Entries(u, new), del |-> Entries(u, old)] :
            new \in FullNames(u) \cup {{}}, old \in FullNames(u) \cup {{}}} : u \in 1 .. Values}
    \ {[add |-> {}, del |-> {}]}
=============================================================================
