-------------------------- MODULE MCMetadataExchange --------------------------
(* Instances of MetadataExchange for TLC.               *)
EXTENDS MetadataExchange, TLC
CONSTANTS a, b, c
OneContent == {a}
TwoContents == {a, b}
ThreeContents == {a, b, c}
=============================================================================
