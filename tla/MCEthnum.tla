------------------------------ MODULE MCEthnum ------------------------------
(* The widths of the code, 64 and 8 bits, scaled to 2: words of 4 bits,      *)
(* integers of 8, and radices 4, 3 and 4 for 8, 10 and 16, so that HEX again *)
(* divides a half word evenly, DEC does not, and HEX digits fill the type.   *)
EXTENDS EthnumRoundTrip
=============================================================================
