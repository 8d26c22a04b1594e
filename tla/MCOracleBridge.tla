---------------------------- MODULE MCOracleBridge ----------------------------
(***************************************************************************)
(* Small bridges: deposits of 400 (fee 2 at 50 bps); burns of 200, the      *)
(* least with a fee (1), and of 199.                                        *)
(***************************************************************************)
EXTENDS OracleBridge

CONSTANTS
    Oversized,      \* deposits above the limit of one transaction
    FreeOfFee       \* orders too small for one

MCEventGross == [e \in Events |-> IF e \in Oversized THEN 600 ELSE 400]
MCOrderGross == [o \in Orders |-> IF o \in FreeOfFee THEN 199 ELSE 200]
=============================================================================
