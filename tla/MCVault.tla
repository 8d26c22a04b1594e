-------------------------------- MODULE MCVault --------------------------------
(***************************************************************************)
(* The vault with amounts at the rounding boundary of a 0.50% fee (199 pays *)
(* nothing, 200 pays one unit), one above the protocol limit, a supply that *)
(* does not fit the width, and rates of 0.50%, the configurable maximum and *)
(* above the whole.                                                         *)
(***************************************************************************)
EXTENDS Vault

MCAmounts == {0, 1, 199, 200, 201}
MCRates == {50, 1000, 10001}
=============================================================================
