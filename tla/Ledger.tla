-------------------------------- MODULE Ledger --------------------------------
(***************************************************************************)
(* What the extractions table promises to the users of the service.  Each  *)
(* writer adds at most one row, for good: content and owner never change.  *)
(* A row may be retired (deleted_at), once, and only in the step that adds *)
(* a row of the same owner for the same document.                          *)
(***************************************************************************)
CONSTANTS Writers, Owners, Documents, NoRow

VARIABLE rows

Row == [owner : Owners, doc : Documents, live : BOOLEAN]

\* The table starts with whatever earlier writers left in it.
Init == rows \in [Writers -> {NoRow} \cup Row]

\* q is a live row that the new row r retires, or q is left as it is.
RetiredOrSame(q, r) ==
    \/ rows'[q] = rows[q]
    \/ /\ rows[q] \in Row /\ rows[q].live
       /\ rows[q].owner = r.owner /\ rows[q].doc = r.doc
       /\ rows'[q] = [owner |-> r.owner, doc |-> r.doc, live |-> FALSE]

Append(w) ==
    /\ rows[w] = NoRow
    /\ rows'[w] \in Row /\ rows'[w].live
    /\ \A q \in Writers \ {w} : RetiredOrSame(q, rows'[w])
    /\ rows' = [q \in Writers |-> rows'[q]]

Next == \E w \in Writers : Append(w)

Spec == Init /\ [][Next]_rows

=============================================================================
