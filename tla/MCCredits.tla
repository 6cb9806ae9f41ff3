----------------------------- MODULE MCCredits ------------------------------
(* An instance of Credits for TLC with all eight settings of the coin       *)
(* switches.  The bound MaxCoins lets the settings that give four plays a  *)
(* coin reach, and pass, the limit of 90 plays.                            *)
EXTENDS Credits

MCCoinModes == 0 .. 7
=============================================================================
