-------------------------- MODULE MCRelationDetail --------------------------
(* Three files whose functions form two candidate pairs with one in common. *)
EXTENDS RelationDetail

CONSTANTS py, ts, js, old, new

MCPairs == {<<py, ts>>, <<ts, js>>}
=============================================================================
