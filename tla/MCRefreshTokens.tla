-------------------------- MODULE MCRefreshTokens --------------------------
(***************************************************************************)
(* Instances of RefreshTokens for TLC: client b1 has two tabs and sends    *)
(* its refresh cookie to logout too (no browser does); b2 has one tab.     *)
(***************************************************************************)
EXTENDS RefreshTokens

CONSTANTS b1, b2, t1, t2, t3

TwoBrowsers == {b1, b2}
ThreeTabs == {t1, t2, t3}
TabHome == [r \in ThreeTabs |-> IF r = t3 THEN b2 ELSE b1]

=============================================================================
