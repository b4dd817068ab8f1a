--------------------------- MODULE MCExchangeHistory ---------------------------
(* Instances of ExchangeHistory for TLC.               *)
EXTENDS ExchangeHistory, TLC
CONSTANTS a, b, c
OneContent == {a}
TwoContents == {a, b}
ThreeContents == {a, b, c}
ContentSymmetry == Permutations(Content)
=============================================================================
