--------------------------- MODULE MCNodeSelection ---------------------------
(* NodeSelection for TLC: a subscription with nested groups, one with two groups of the same     *)
(* size, of which an update takes a node away, and one with a group that cannot be set.          *)
EXTENDS NodeSelection, TLC

CONSTANTS n1, n2, top, manual, auto

Nodes == {n1, n2}

Groups == {top, manual, auto}

NoDefault == [g \in Groups |-> None]

(* 节点选择 over 自动选择 and 手动切换, as the comment of selectNode has it *)
Nested ==
  [order |-> <<manual, auto, top>>,
   lists |-> {(top :> <<auto, manual>>) @@ (auto :> <<n1, n2>>) @@ (manual :> <<n1, n2>>)},
   selector |-> {top, manual}, hidden |-> {}, selectAble |-> Groups,
   default |-> NoDefault, root |-> top]

(* Two visible selectors with as many nodes, and a hidden one with a default *)
Flat ==
  [order |-> <<auto, top, manual>>,
   lists |-> {(top :> <<n1, manual>>) @@ (auto :> <<n1, n2>>) @@ (manual :> m) : m \in {<<n2>>, <<n1, n2>>}},
   selector |-> {top, manual, auto}, hidden |-> {auto}, selectAble |-> Groups,
   default |-> [NoDefault EXCEPT ![auto] = n2], root |-> top]

(* Only a group that balances, which nobody can set, under the name of a selector of the others *)
Balanced ==
  [order |-> <<manual>>,
   lists |-> {(top :> <<>>) @@ (auto :> <<>>) @@ (manual :> <<n1, n2>>)},
   selector |-> {}, hidden |-> {}, selectAble |-> {}, default |-> NoDefault, root |-> manual]

Profiles == {Nested, Flat, Balanced}

OneProfile == {Nested}
=============================================================================
