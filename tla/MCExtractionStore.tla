-------------------------- MODULE MCExtractionStore --------------------------
(***************************************************************************)
(* ExtractionStore for TLC.                                                *)
(***************************************************************************)
EXTENDS ExtractionStore

MCCall(r, s, d) == [replace |-> r, subject |-> s, doc |-> d]

\* Two users share a document; one of them has a second document.
MCCalls == {MCCall(TRUE, "ann", "cv"), MCCall(TRUE, "bob", "cv"),
            MCCall(FALSE, "ann", "cv"), MCCall(FALSE, "ann", "id")}

MCReplaces == [replace : {TRUE}, subject : Subjects, doc : Documents]

=============================================================================
