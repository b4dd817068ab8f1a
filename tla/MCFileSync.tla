------------------------------ MODULE MCFileSync ------------------------------
(* Instances of FileSync for TLC.                                           *)
EXTENDS FileSyncExchange
CONSTANTS a, b, c
OneContent == {a}
TwoContents == {a, b}
ThreeContents == {a, b, c}
SmallContent == {b}
NoContent == {}
=============================================================================
