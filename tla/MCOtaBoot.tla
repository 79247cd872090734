----------------------------- MODULE MCOtaBoot ------------------------------
(* OtaBoot with two images of two chunks, the first one installed.         *)
EXTENDS OtaBoot

CONSTANTS dflt, other, v1, v2, xFF, junk
=============================================================================
