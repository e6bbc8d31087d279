---------------------------- MODULE MCDongleBoot ----------------------------
(* DongleBoot for TLC: the constants are ordinary assignments and model     *)
(* values, given in the configuration files.                               *)
EXTENDS DongleBoot
=============================================================================
