--------------------------- MODULE MCParaStorage ----------------------------
(* ParaStorage on a small device: two settings, two application            *)
(* configurations, three updates, one pair whose CRC-16 happens to be 0.   *)
EXTENDS ParaStorage

CONSTANTS dflt, wifi, other, u0, u1, xFF

MCZeroCrc == {<<[seed |-> 2, settings |-> wifi], u1>>}
=============================================================================
