----------------------------- MODULE AtomicList -----------------------------
(***************************************************************************)
(* What the server expects of its list of rooms: a room enters at the head, *)
(* a room leaves from wherever it is, and nothing else ever happens.        *)
(***************************************************************************)
EXTENDS Naturals, Sequences

CONSTANT Rooms

VARIABLE list

Members == {list[k] : k \in DOMAIN list}

Init == list = << >>

Enters(r) ==
    /\ r \notin Members
    /\ list' = <<r>> \o list

Leaves(r) ==
    \E k \in DOMAIN list :
        /\ list[k] = r
        /\ list' = [j \in 1 .. Len(list) - 1 |-> IF j < k THEN list[j] ELSE list[j + 1]]

Next == \E r \in Rooms : Enters(r) \/ Leaves(r)

Spec == Init /\ [][Next]_list
=============================================================================
