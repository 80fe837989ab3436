----------------------------- MODULE MCEntangled -----------------------------
(***************************************************************************)
(* Instances of the entangled timelines.                                   *)
(***************************************************************************)
EXTENDS EntangledProperties, TLC

Simple(kind) == [kind |-> kind]

\* Union and Intersect settle the fields one by one, here by what "default" says.
PerField(kind, default, onInvalid) ==
    [kind |-> kind, rules |-> <<>>, default |-> default, onInvalid |-> onInvalid]

EntanglementStrategies == {PerField("Union", FirstWins, NoReversion)}

AllStrategies ==
    {[kind |-> "Priority", branch |-> "c"], Simple("Auto"),
     PerField("Union", Simple("Auto"), [branch |-> "c", anchor |-> "a"]),
     PerField("Intersect", Simple("Decay"), [branch |-> "main", anchor |-> "a"])}

Entangling == Literals \union {"expression", "assign", "update", "match", "decay",
                                "entangle", "split", "merge"}
Budgeting == {"scalar", "struct", "topology", "nested", "assign", "update", "match", "decay",
              "isolate", "commit"}
Reconciling == {"scalar", "struct", "topology", "decay", "anchor", "rewind",
                "split", "merge"}
Decaying == {"scalar", "expression", "decay", "entangle", "split"}

\* Permutations of names the specification does not tell apart.
Names == Permutations(Name) \union Permutations(Field)
Symmetry == Names \union Permutations(Branch \ {Root})
==============================================================================
