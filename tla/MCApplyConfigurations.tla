------------------------ MODULE MCApplyConfigurations ------------------------
(* What a configuration comes to when it is sent, and what calls on others do *)
(* to it: values are followed through pointers and maps, recursively.         *)
EXTENDS ApplyConfigurations

\* The maps below a value.
RECURSIVE Within(_)
Within(v) ==
    CASE v[1] \in {"unset", "value"} -> {}
      [] v[1] = "pointer" -> Within(Struct(v[2]))
      [] v[1] = "map"     -> {v} \cup UNION {Within(maps[v[2]][k]) : k \in DOMAIN maps[v[2]]}
      [] OTHER            -> UNION {Within(v[2][i]) : i \in DOMAIN v[2]}

\* What a value comes to when it is sent.
RECURSIVE Shown(_)
Shown(v) ==
    CASE v[1] \in {"unset", "value"} -> v
      [] v[1] = "pointer" -> Shown(Struct(v[2]))
      [] v[1] = "map"     -> <<"map", [k \in DOMAIN maps[v[2]] |-> Shown(maps[v[2]][k])]>>
      [] OTHER            -> <<v[1], [i \in DOMAIN v[2] |-> Shown(v[2][i])]>>

Configures(b) == Shown(Struct(b))

\* A call about one builder changes what another configures only through a
\* pointer to it, or through a map it had made before its struct was copied:
\* a copied struct is a snapshot but for its maps.
SnapshotsStaySnapshots ==
    [][\A c \in DOMAIN builders :
        LET call == log'[Len(log')]
            before == builders[call.on].fields[call.field]
        IN  c # call.on /\ Configures(c)' # Configures(c) =>
               \/ \E f \in DOMAIN builders[c].fields :
                    /\ Setters[builders[c].of][f].by = "pointer"
                    /\ builders[c].fields[f] = <<"pointer", call.on>>
               \/ before[1] = "map" /\ before \in Within(Struct(c))]_vars
===========================================================================
