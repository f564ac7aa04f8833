----------------------------- MODULE MCSavedConfig -----------------------------
(* Three configurations: a change, the change after it and the one before.     *)
EXTENDS SavedConfig, TLC

CONSTANTS R1, R2, R3, NoRev

MCRevs == {R1, R2, R3}
MCGuarded == [r \in MCRevs |-> IF r = R1 THEN R3 ELSE r]
===============================================================================
