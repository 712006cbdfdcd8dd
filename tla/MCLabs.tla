------------------------------- MODULE MCLabs -------------------------------
(* Channels of up to nine bytes, three capabilities and three messages, so *)
(* that each capacity in turn is the one that is short; pipes of up to     *)
(* four bytes, as the lab's; every placement of a request, aligned or not, *)
(* among up to two ranges. The passing run sends messages no smaller than  *)
(* what recv pops, and its ranges end below the top of the addresses.      *)
EXTENDS Labs

MCRooms == [bytes : 0..9, caps : 0..3, msgs : 0..3]
MCMessages == [bytes : 2..3, caps : 1..2]
MCAnyMessages == [bytes : 1..3, caps : 0..2]
MCOffers == [bytes : 1..3, caps : 0..2]

MCBytes == {8, 9}
MCCapacities == 0..4
MCUsers == {"reader", "writer"}

MCSlotCounts == 0..4
MCIds == {42, 43}

MCRanges == [start : {0, 4, 8, 12}, size : {4, 8}]
MCSpaces == {<< >>} \cup {<<r>> : r \in MCRanges} \cup {<<r, s>> : r, s \in MCRanges}
MCRequests == [start : 0..13, size : 1..9]
=============================================================================
