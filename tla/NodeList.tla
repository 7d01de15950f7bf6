------------------------------ MODULE NodeList ------------------------------
(***************************************************************************)
(* c/Z2/common: linked lists of nodes on the heap (node.c) and their       *)
(* serialised form (serialize.c), with the reader of that form in          *)
(* python/Z2.  Bytes are digits to the base Base, so that the widths of    *)
(* the code's integers (two and four bytes) keep their meaning.  A text is *)
(* the sequence of its characters without the terminator.                  *)
(***************************************************************************)
EXTENDS Integers, Sequences, SequencesExt

CONSTANTS Base,      \* 256 in the code
          Garbled    \* the texts that are not UTF-8: bytes.decode raises

ASSUME NodeListAssumption ==
    /\ Base \in Nat \ {0, 1}
    /\ Garbled \subseteq Seq(0..(Base - 1))

-----------------------------------------------------------------------------
(* The heap: node p is the p-th that create_node made, live are those that *)
(* are not freed, bad says that a node was used after it was freed.        *)
NULL == 0

EmptyHeap == [next |-> <<>>, val |-> <<>>, live |-> {}, bad |-> FALSE]

(* create_node's initial values; its text is "test".                       *)
Blank == [a |-> 0, b |-> 0, text |-> <<1, 1, 1, 1>>]

NewNode(h) == Len(h.next) + 1

(* create_node: the node NewNode(h).                                       *)
CreateNode(h) ==
    [h EXCEPT !.next = Append(@, NULL), !.val = Append(@, Blank),
              !.live = @ \cup {NewNode(h)}]

(* Nodes are read or written.                                              *)
Used(h, nodes) == [h EXCEPT !.bad = @ \/ ~(nodes \subseteq h.live)]

(* assign_text: strncpy copies len bytes of the text with its terminator,  *)
(* and the node's text ends where the copy, or the copied string, does.    *)
CString(s) ==
    LET ends == {j \in DOMAIN s : s[j] = 0}
    IN IF ends = {} THEN s ELSE SubSeq(s, 1, Min(ends) - 1)

AssignText(text, len) == CString(SubSeq(Append(text, 0), 1, len))

(* set_values; the lengths it is given are those of the texts.             *)
SetValues(h, p, v) == [Used(h, {p}) EXCEPT !.val[p] = v]

(* The nodes from p on, as the loops over node->next visit them.           *)
Chain(h, p) ==
    LET from[q \in 0..Len(h.next)] ==
            IF q = NULL THEN <<>> ELSE <<q>> \o from[h.next[q]]
    IN from[p]

ListOf(h, p) == [i \in DOMAIN Chain(h, p) |-> h.val[Chain(h, p)[i]]]

(* add_node: behind the last node reached from root.                       *)
AddNode(h, root, p) ==
    [Used(h, ToSet(Chain(h, root))) EXCEPT !.next[Last(Chain(h, root))] = p]

(* delete_node.                                                            *)
DeleteNode(h, p) == [Used(h, {p}) EXCEPT !.live = @ \ {p}]

(* Mutation: a node is deleted before its next is read.                    *)
DeleteListThenStep(h, root) ==
    FoldLeft(LAMBDA g, p : Used(DeleteNode(g, p), {p}), h, Front(Chain(h, root)))

(* delete_list: each node up to the last, which is not deleted.            *)
DeleteList(h, root) ==
    LET chain == Chain(h, root)
        after[i \in 0..(Len(chain) - 1)] ==
            IF i = 0 THEN h ELSE DeleteNode(after[i - 1], chain[i])
    IN Used(after[Len(chain) - 1], {Last(chain)})

-----------------------------------------------------------------------------
(* Serialisation.                                                          *)
U16 == Base * Base

Packu16(i) == <<(i \div Base) % Base, i % Base>>

(* Mutation: the lower half first.                                         *)
Packu32LowFirst(i) == Packu16(i % U16) \o Packu16((i \div U16) % U16)

Packu32(i) == Packu16((i \div U16) % U16) \o Packu16(i % U16)

Unpacku16(buf, at) == buf[at + 1] * Base + buf[at + 2]
Unpacku32(buf, at) == Unpacku16(buf, at) * U16 + Unpacku16(buf, at + 2)

(* One turn of pack's loop: the fields of a node.                          *)
PackedNode(v) ==
    Packu16(v.a) \o Packu32(v.b) \o Packu16(Len(v.text) % U16) \o v.text

PackedNodes(list) ==
    LET upTo[i \in 0..Len(list)] ==
            IF i = 0 THEN <<>> ELSE upTo[i - 1] \o PackedNode(list[i])
    IN upTo[Len(list)]

(* Mutation: the two bytes of the number of nodes are not in the size.     *)
PackSizeOfNodes(list) ==
    [buf |-> Packu16(Len(list) % U16) \o PackedNodes(list),
     size |-> Len(PackedNodes(list)) % U16]

(* Mutation: the size counts the terminators of the texts.                 *)
PackSizeWithTerminators(list) ==
    [buf |-> Packu16(Len(list) % U16) \o PackedNodes(list),
     size |-> (2 + Len(PackedNodes(list)) + Len(list)) % U16]

(* pack: what is in buf afterwards and the size it returns, number of      *)
(* nodes and size being two bytes wide.                                    *)
Pack(list) ==
    [buf |-> Packu16(Len(list) % U16) \o PackedNodes(list),
     size |-> (2 + Len(PackedNodes(list))) % U16]

(* The node that starts at offset at of buf.                               *)
TextEnd(buf, at) == at + 8 + Unpacku16(buf, at + 6)

FieldsAt(buf, at) ==
    [a |-> Unpacku16(buf, at), b |-> Unpacku32(buf, at + 2),
     text |-> SubSeq(buf, at + 9, TextEnd(buf, at))]

(* unpack hands assign_text the length and one more, in two bytes: the     *)
(* longest text gives zero, and is lost.                                   *)
NodeAt(buf, at) ==
    [FieldsAt(buf, at) EXCEPT !.text = AssignText(@, (Len(@) + 1) % U16)]

(* One turn of unpack's loop, with the list so far and its place in buf.   *)
NodeRead(buf, acc) ==
    [list |-> Append(acc.list, NodeAt(buf, acc.at)), at |-> TextEnd(buf, acc.at)]

(* unpack, for a buffer that holds what its counts say.                    *)
Unpack(buf) ==
    LET upTo[i \in 0..Unpacku16(buf, 0)] ==
            IF i = 0 THEN [list |-> <<>>, at |-> 2] ELSE NodeRead(buf, upTo[i - 1])
    IN upTo[Unpacku16(buf, 0)].list

-----------------------------------------------------------------------------
(* unpack_data of the Python servers: struct.unpack_from raises when the   *)
(* data ends inside a field, and bytes.decode when a text is not UTF-8;    *)
(* there is no list then.  A str stands for the one text that encodes it.  *)
Error == [ok |-> FALSE]

(* Mutation: the text is a slice of data, which may be short.              *)
NextNodeBySlice(buf, acc) ==
    IF ~acc.ok \/ acc.at + 8 > Len(buf) THEN Error
    ELSE [ok |-> TRUE, at |-> TextEnd(buf, acc.at),
          list |-> Append(acc.list,
              [a |-> Unpacku16(buf, acc.at), b |-> Unpacku32(buf, acc.at + 2),
               text |-> SubSeq(buf, acc.at + 9,
                               IF TextEnd(buf, acc.at) > Len(buf) THEN Len(buf)
                               ELSE TextEnd(buf, acc.at))])]

(* One turn of its loop.                                                   *)
NextNode(buf, acc) ==
    IF ~acc.ok \/ acc.at + 8 > Len(buf) THEN Error
    ELSE IF TextEnd(buf, acc.at) > Len(buf) THEN Error
    ELSE IF FieldsAt(buf, acc.at).text \in Garbled THEN Error
    ELSE [ok |-> TRUE, at |-> TextEnd(buf, acc.at),
          list |-> Append(acc.list, FieldsAt(buf, acc.at))]

UnpackData(buf) ==
    LET upTo[i \in 0..Unpacku16(buf, 0)] ==
            IF i = 0 THEN [ok |-> TRUE, list |-> <<>>, at |-> 2]
            ELSE NextNode(buf, upTo[i - 1])
    IN IF Len(buf) < 2 THEN Error ELSE upTo[Unpacku16(buf, 0)]
=============================================================================
