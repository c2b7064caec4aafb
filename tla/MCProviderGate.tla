--------------------------- MODULE MCProviderGate ---------------------------
(***************************************************************************)
(* An instance of ProviderGate for TLC.                                    *)
(***************************************************************************)
EXTENDS ProviderGate

CONSTANTS c1, c2

Callers == {c1, c2}

=============================================================================
