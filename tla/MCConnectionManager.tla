------------------------ MODULE MCConnectionManager ------------------------
(* Small instances of ConnectionManager for TLC.                           *)
EXTENDS ConnectionManager, TLC

CONSTANTS w1, w2, w3, w4, w5, w6, b1, b2, b3

(* w1 and w4 are opened by the same board, the second as a reconnection.   *)
ReconnectingBoards == w1 :> b1 @@ w2 :> b2 @@ w3 :> b3 @@ w4 :> b1

(* Every socket is opened by a board of its own.                           *)
OwnBoards == [w \in Sockets |-> w]

(* A table small enough to be rebuilt by three or four sockets.            *)
TightRoom == [n \in 0..Cardinality(Sockets) |-> n + 2]

(* The rooms CPython builds: tables of 8, 16 and 32, a third kept free, of *)
(* which the first with more than three times the live entries is taken.   *)
CPythonRoom ==
    [n \in 0..Cardinality(Sockets) |-> IF n <= 2 THEN 5 ELSE IF n <= 5 THEN 10 ELSE 21]

SocketSymmetry == Permutations(Sockets)
=============================================================================
