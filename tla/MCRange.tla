------------------------------ MODULE MCRange -------------------------------
(***************************************************************************)
(* Nine keys, two rows to a leaf and three children to a branch.  One      *)
(* table is a root with three leaves; the other one has three levels, a    *)
(* root with three branches, of which the last one has three leaves: a     *)
(* range may take whole branches, whole leaves and single rows.            *)
(***************************************************************************)
EXTENDS BTreeRange

MCKeys == 1..9
MCKeySize == [k \in MCKeys |-> 90]
MCValues == {1}
MCValueSize == <<0>>
MCLoaded == {<<1, 2, 3, 4, 5, 6>>, <<8, 5, 4, 2, 9, 6, 1, 7, 3>>}
MCPuts == {}
MCGets == {<<"SET_RANGE", k>> : k \in {4, 7, 8}}
MCScrolls == {-3}
MCRanges == {<<1, 2, FALSE>>, <<1, 2, TRUE>>, <<0, 1, TRUE>>, <<1, 0, TRUE>>}
MCBunches == OM!Actions

(* A table of which less is left is not followed any further. *)
Wide == tree.items >= IF tree.height < 3 THEN 5 ELSE 8
=============================================================================
