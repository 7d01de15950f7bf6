-------------------------- MODULE CategoryRegistry --------------------------
(***************************************************************************)
(* The ConnectionManager of one category, as the handlers of BulletinBoard *)
(* use it, is the one of module ConnectionManager: what holds of that      *)
(* module, whoever calls it, holds of every category of the board.         *)
(***************************************************************************)
EXTENDS BulletinBoard

CONSTANT TheCategory

ASSUME CategoryAssumption == TheCategory \in Categories

(* A socket is new to the registry until its accept is over.               *)
RegistryClient ==
    [w \in Sockets |-> IF joined[w] = TheCategory /\ pc[w] # "accepting"
                       THEN client[w] ELSE "new"]

RegistryCasts ==
    [a \in Ads |-> IF sentTo[a] = TheCategory THEN casts[a] ELSE NoCast]

Registry == INSTANCE ConnectionManager WITH
    table <- table[TheCategory], client <- RegistryClient, casts <- RegistryCasts

(* Every step of the board is a step of the category's ConnectionManager   *)
(* or leaves it alone: the routers never use it in a way it leaves open.   *)
RegistrySpec == Registry!Spec
=============================================================================
