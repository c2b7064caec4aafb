------------------------------ MODULE MCCatalog ------------------------------
(* Small instances of Catalog for TLC. *)
EXTENDS Catalog

OneChain == CHOOSE c \in Chains : TRUE
OneKey == {CHOOSE k \in Keys : TRUE}
OneProv == {CHOOSE p \in Provs : TRUE}
NoProxies == {}
=============================================================================
