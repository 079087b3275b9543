-------------------------------- MODULE Lists --------------------------------
(***************************************************************************)
(* Lists that are filtered: the entries that a loop appends to its result  *)
(* are those at a set of places, in the order of the places.               *)
(*                                                                         *)
(* A place of a list is a number, and one of a list of lists a pair: the   *)
(* number of the inner list, and the place in it.                          *)
(***************************************************************************)
EXTENDS Integers, FiniteSets

\* The places of I in order: the k-th is the one with k of I up to it.
InOrder(I) ==
    [k \in 1 .. Cardinality(I) |->
        CHOOSE i \in I : Cardinality({j \in I : j <= i}) = k]

EntriesAt(s, I) == [k \in 1 .. Cardinality(I) |-> s[InOrder(I)[k]]]

-----------------------------------------------------------------------------
Places(lists) == UNION {{g} \X DOMAIN lists[g] : g \in DOMAIN lists}

UpTo(p, q) == p[1] < q[1] \/ (p[1] = q[1] /\ p[2] <= q[2])

PairsInOrder(P) ==
    [k \in 1 .. Cardinality(P) |->
        CHOOSE p \in P : Cardinality({q \in P : UpTo(q, p)}) = k]

ItemsAt(lists, P) ==
    [k \in 1 .. Cardinality(P) |->
        LET p == PairsInOrder(P)[k] IN lists[p[1]][p[2]]]

=============================================================================
