--------------------------- MODULE MCExtractHandler ---------------------------
(***************************************************************************)
(* ExtractHandler for TLC: requests of users with a token of their own and *)
(* through the BFF's service account.                                      *)
(***************************************************************************)
EXTENDS ExtractHandler, TLC

RequestSymmetry == Permutations(Requests)

NoHeaders == [sub |-> "", email |-> "", secret |-> ""]
Forward(sub, secret) == [sub |-> sub, email |-> "", secret |-> secret]

Person(sub, kind, scopes) ==
    [subject |-> sub, client |-> "kalke-cli", email |-> "mail", kind |-> kind,
     scopes |-> scopes]
Bff == [subject |-> "svc", client |-> "pde-m2m", email |-> "", kind |-> "jwt",
        scopes |-> {"extract:write"}]
Ann == Person("ann", "jwt", {"extract:write"})
Bob == Person("bob", "pat", {"admin"})
Guest == Person("guest", "jwt", {"profile"})

Upload(p, h, doc, refresh, consent) ==
    [p |-> p, hdr |-> h, bearer |-> TRUE, doc |-> doc, sha |-> "s1",
     refresh |-> refresh, consent |-> consent, form |-> "ok"]

ID == "identity_document"

\* Two users on one document: one refreshes, one comes through the BFF.
MCSharedInputs ==
    {Upload(Ann, NoHeaders, ID, TRUE, "yes"),
     Upload(Bff, Forward("bob", "key"), ID, FALSE, "lgpd-extract-v1")}

\* One upload as two document types and one unknown; refusals of every kind,
\* among them the consents that would do for the other document type.
MCTypedInputs ==
    {Upload(Ann, NoHeaders, ID, FALSE, "yes"),
     Upload(Bob, NoHeaders, CV, FALSE, "lgpd-cv-store-v1"),
     Upload(Bob, NoHeaders, CV, TRUE, "lgpd-cv-store-v1"),
     Upload(Bob, NoHeaders, CV, FALSE, "yes"),
     Upload(Bob, NoHeaders, CV, FALSE, "lgpd-extract-v1"),
     Upload(Ann, NoHeaders, ID, FALSE, "lgpd-cv-store-v1"),
     Upload(Ann, NoHeaders, ID, FALSE, ""),
     Upload(Bff, Forward("ann", "guess"), "passport", FALSE, "yes"),
     Upload(Guest, NoHeaders, ID, FALSE, "yes"),
     [Upload(Ann, NoHeaders, ID, FALSE, "yes") EXCEPT !.bearer = FALSE],
     [Upload(Ann, NoHeaders, ID, FALSE, "yes") EXCEPT !.form = "large"],
     [Upload(Ann, NoHeaders, ID, FALSE, "yes") EXCEPT !.form = "bad"]}

=============================================================================
