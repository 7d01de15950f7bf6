-------------------------- MODULE MCBulletinBoard --------------------------
(* Small instances of BulletinBoard for TLC.                               *)
EXTENDS CategoryRegistry, TLC

CONSTANTS w1, w2, w3, b1, b2, c1, c2

(* Each page registers once, under an id of its own.                       *)
OwnBoards == [w \in Sockets |-> w]

(* w3 is opened by the page of w1: it registers a second time.             *)
ReconnectingBoards == [w \in Sockets |-> IF w = w2 THEN b2 ELSE b1]

(* Tables small enough for the second socket to find one full.             *)
TightRoom == [n \in 0..Cardinality(Sockets) |-> n + 1]
=============================================================================
