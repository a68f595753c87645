--------------------------- MODULE MCKameletInformer ---------------------------
(* Values for model-checking KameletInformer.                                *)
EXTENDS KameletInformer

MCNamespaces   == {"ns1", "ns2"}
MCNames        == {"a"}
MCFactoryScope == [namespace |-> "ns1", tweak |-> "labelled"]
MCScopes       == {MCFactoryScope, [namespace |-> "all", tweak |-> "nil"]}
=============================================================================
