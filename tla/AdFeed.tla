------------------------------- MODULE AdFeed -------------------------------
(***************************************************************************)
(* What the bulletin board promises its users, without the processes,      *)
(* connections and tables it takes: an ad is published once, in one        *)
(* category, for good; a display subscribes to one category and is shown   *)
(* only ads already published there, and what it was shown it has seen.    *)
(* Nothing is taken back when the server ends and starts again.            *)
(***************************************************************************)
EXTENDS Sequences

CONSTANTS Sockets, Categories, NoCategory, Ads

VARIABLES
    published,      \* the ads of each category, oldest first
    subscribed,     \* the category of each display
    seen            \* the ads each display has been shown

feed == <<published, subscribed, seen>>

PublishedIn(c) == {published[c][i] : i \in DOMAIN published[c]}

Init ==
    /\ published = [c \in Categories |-> <<>>]
    /\ subscribed = [w \in Sockets |-> NoCategory]
    /\ seen = [w \in Sockets |-> {}]

Subscribe(w, c) ==
    /\ subscribed[w] = NoCategory
    /\ subscribed' = [subscribed EXCEPT ![w] = c]
    /\ UNCHANGED <<published, seen>>

(* Publishing may show the ad to a display of the category right away.     *)
Publish(a, c) ==
    /\ \A d \in Categories : a \notin PublishedIn(d)
    /\ published' = [published EXCEPT ![c] = Append(@, a)]
    /\ \/ UNCHANGED seen
       \/ \E w \in Sockets :
             /\ subscribed[w] = c
             /\ seen' = [seen EXCEPT ![w] = @ \cup {a}]
    /\ UNCHANGED subscribed

Show(w, a) ==
    /\ subscribed[w] \in Categories
    /\ a \in PublishedIn(subscribed[w])
    /\ seen' = [seen EXCEPT ![w] = @ \cup {a}]
    /\ UNCHANGED <<published, subscribed>>

Next ==
    \/ \E w \in Sockets, c \in Categories : Subscribe(w, c)
    \/ \E a \in Ads, c \in Categories : Publish(a, c)
    \/ \E w \in Sockets, a \in Ads : Show(w, a)

Spec == Init /\ [][Next]_feed
=============================================================================
