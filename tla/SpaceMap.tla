------------------------------ MODULE SpaceMap ------------------------------
(***************************************************************************)
(* The decision whether a range may be mapped into an address space, of    *)
(* src-c/08/02-space-map-overlap-sim: the request is aligned to pages and  *)
(* compared with each range already mapped, one step per range. Addresses  *)
(* and sizes are of type size_t.                                           *)
(***************************************************************************)
EXTENDS Integers, Sequences

CONSTANTS
    PAGE,           \* bytes of a page
    SizeMod,        \* size_t counts modulo this (2^64)
    Spaces,         \* what may be mapped before: sequences of ranges
    Requests        \* what may be asked for

Sizes == 0..SizeMod - 1
Range == [start : Sizes, size : Sizes]

SpaceMapConstants ==
    /\ PAGE \in Nat \ {0} /\ SizeMod \in Nat
    /\ \A s \in Spaces : s \in Seq(Range)
    /\ Requests \subseteq Range

VARIABLES
    mapped,         \* the ranges already mapped
    asked,          \* the request as it came
    req,            \* and aligned
    i,              \* ranges compared
    ok,             \* no overlap so far
    pc

vars == <<mapped, asked, req, i, ok, pc>>

Plus(a, b) == (a + b) % SizeMod

alignUp(x) == ((Plus(x, PAGE - 1) \div PAGE) * PAGE) % SizeMod

(* Mutant of overlaps: ranges that touch overlap.                          *)
overlapsTouching(r, o) ==
    /\ r.start <= Plus(o.start, o.size)
    /\ o.start <= Plus(r.start, r.size)

overlaps(r, o) ==
    /\ r.start < Plus(o.start, o.size)
    /\ o.start < Plus(r.start, r.size)

Init ==
    /\ mapped \in Spaces /\ asked \in Requests
    /\ req = asked
    /\ i = 0 /\ ok = TRUE
    /\ pc = "align"

Align ==
    /\ pc = "align"
    /\ req' = [start |-> alignUp(asked.start), size |-> alignUp(asked.size)]
    /\ pc' = "compare"
    /\ UNCHANGED <<mapped, asked, i, ok>>

Compare ==
    /\ pc = "compare"
    /\ i < Len(mapped)
    /\ ok' = (ok /\ ~overlaps(mapped[i + 1], req))
    /\ i' = i + 1
    /\ UNCHANGED <<mapped, asked, req, pc>>

Decide ==
    /\ pc = "compare"
    /\ i = Len(mapped)
    /\ pc' = "decided"
    /\ UNCHANGED <<mapped, asked, req, i, ok>>

Decided ==
    /\ pc = "decided"
    /\ UNCHANGED vars

Next == Align \/ Compare \/ Decide \/ Decided

Spec == Init /\ [][Next]_vars
-----------------------------------------------------------------------------
(* Properties.                                                             *)

(* Every variable has its type, and the request compared is of whole pages.*)
TypeOK ==
    /\ mapped \in Spaces /\ asked \in Requests
    /\ req \in Range
    /\ i \in 0..Len(mapped) /\ ok \in BOOLEAN
    /\ pc \in {"align", "compare", "decided"}
    /\ pc # "align" => req.start % PAGE = 0 /\ req.size % PAGE = 0

Covered(r) == {a \in r.start .. r.start + r.size - 1 : a < SizeMod}

(* A range not empty whose pages end below the top of the addresses.       *)
Regular(r) == r.size > 0 /\ r.start + r.size + PAGE <= SizeMod
PagesOf(r) == {a \div PAGE : a \in Covered(r)}

(* For a request that starts at a page, it and the ranges all regular, the *)
(* decision is right: the request as it was asked for is refused exactly   *)
(* when a page it reaches into is a page of a range mapped already. It     *)
(* does not hold of other requests: Align moves an unaligned one up to the *)
(* next page, and a range that ends at the top of the addresses ends at 0. *)
DecisionRight ==
    (/\ pc = "decided"
     /\ asked.start % PAGE = 0
     /\ Regular(asked) /\ \A n \in DOMAIN mapped : Regular(mapped[n])) =>
        (ok <=> \A n \in DOMAIN mapped : PagesOf(asked) \cap PagesOf(mapped[n]) = {})
=============================================================================
