--------------------------- MODULE MCTokenTransport ---------------------------
(* Instances of TokenTransport for TLC.                                    *)
EXTENDS TokenTransport, TLC

CONSTANTS a, b, r1, r2

MCToken    == {a, b}
OneReader  == {r1}
TwoReaders == {r1, r2}
=============================================================================
