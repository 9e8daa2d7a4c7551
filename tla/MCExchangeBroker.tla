-------------------------- MODULE MCExchangeBroker --------------------------
(* A broker with two objects and three contents, one of them refused by the *)
(* validator, small enough for TLC.                                         *)
EXTENDS ExchangeBroker

CONSTANTS o1, o2, v1, v2, bad

MCOid           == {o1, o2}
MCInstance      == {v1, v2, bad}
MCValidInstance == {v1, v2}
=============================================================================
