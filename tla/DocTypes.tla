------------------------------- MODULE DocTypes -------------------------------
(***************************************************************************)
(* From the paper to the stored result: the model reads a document, perhaps *)
(* one digit of an identifier wrongly, its answer is decoded, and the      *)
(* document type normalizes it.                                            *)
(*                                                                         *)
(* A curriculum may give its skills as an object, which is decoded through *)
(* a Go map: the groups come in any order.                                 *)
(***************************************************************************)
EXTENDS CurriculumVitae

CONSTANTS Papers   \* documents as printed: the answer of a faithful reading

\* What the struct of a document type holds before it is normalized.
Identifier == Seq(Digit \cup {Punct})
Token == [t : {"num"}, v : Nat, w : Nat]
         \cup {Mark(c) : c \in {"/", "-", ".", " "}}
         \cup {Word(v, f) : v \in 0..12, f \in {"January", "Jan", "janeiro", "jan", "other"}}
Text == Seq(Token)
Strings == Seq([key : STRING, spelling : STRING])
SkillGroup == [category : Category, items : Strings]

IdentityResult ==
    [tipo : STRING, cpf : Identifier, numero_documento : Identifier,
     data_nascimento : Text, validade : Text]
Party == [cnpj : Identifier, cpf : Identifier]
InvoiceResult == [emitente : Party, destinatario : Party, data_emissao : Text]
AddressResult ==
    [uf : [name : STRING, len : Nat, ascii : BOOLEAN], cep : Identifier, data : Text]
CVResult ==
    [email : Emails, phone : [plus : BOOLEAN, digits : Nat], skills : Seq(SkillGroup),
     languages : Seq([name : STRING, level : STRING]),
     experience : Seq([company : STRING, title : STRING, start : Text, end : Text,
                       current : BOOLEAN, highlights : Strings]),
     education : Seq([institution : STRING, degree : STRING, start : Text, end : Text]),
     certifications : Seq([name : STRING, date : Text])]

ASSUME PapersAssumption ==
    \A p \in Papers :
        \/ p \in [doc : {"identity_document"}, fields : IdentityResult]
        \/ p \in [doc : {"invoice_nf"}, fields : InvoiceResult]
        \/ p \in [doc : {"address_proof"}, fields : AddressResult]
        \/ p \in [doc : {"curriculum_vitae"}, skillsAs : {"groups", "flat", "object"},
                 fields : CVResult]

\* The check digits as the registry computes them: 11 - r, or 0 if r < 2.
IssuedCPF(d) ==
    /\ Len(d) = 11 /\ ~AllSameDigits(d)
    /\ d[10] = Complement(CPFSum1(d)) /\ d[11] = Complement(CPFSum2(d))
IssuedCNPJ(d) ==
    /\ Len(d) = 14 /\ ~AllSameDigits(d)
    /\ d[13] = Complement(CNPJSum1(d)) /\ d[14] = Complement(CNPJSum2(d))

\* A document bears identifiers that were issued, or none.
ASSUME IssuedAssumption ==
    \A p \in Papers :
        /\ p.doc = "identity_document" =>
               \/ DigitsOnly(p.fields.cpf) = Absent
               \/ IssuedCPF(DigitsOnly(p.fields.cpf))
        /\ p.doc = "invoice_nf" =>
               /\ \/ DigitsOnly(p.fields.emitente.cnpj) = Absent
                  \/ IssuedCNPJ(DigitsOnly(p.fields.emitente.cnpj))
               /\ \/ DigitsOnly(p.fields.destinatario.cpf) = Absent
                  \/ IssuedCPF(DigitsOnly(p.fields.destinatario.cpf))

VARIABLES
    stage,    \* "paper", "answer", "decode" or "stored"
    paper,    \* the document
    fields,   \* what the model answered, then its decoded and stored form
    pending,  \* groups of the skills object that the map has not given yet
    misread   \* history: the answer differs from the paper

vars == <<stage, paper, fields, pending, misread>>

-----------------------------------------------------------------------------
(***************************************************************************)
(* Normalize of the document types.                                        *)
(***************************************************************************)
CanonicalizeTipo(s) ==
    CASE s \in {"CNH", "CNH-E", "CNHE"} -> "CNH"
      [] s = "RG" -> "RG"
      [] s = ""   -> ""
      [] OTHER    -> "outro"

NormalizeIdentity(r) ==
    [r EXCEPT !.tipo = CanonicalizeTipo(@), !.cpf = CPF(@),
              !.numero_documento = DigitsOnly(@),
              !.data_nascimento = DateToISO(@), !.validade = DateToISO(@)]

NormalizeParty(p) == [p EXCEPT !.cnpj = CNPJ(@), !.cpf = CPF(@)]

NormalizeInvoice(r) ==
    [r EXCEPT !.emitente = NormalizeParty(@), !.destinatario = NormalizeParty(@),
              !.data_emissao = DateToISO(@)]

\* Two letters A to Z, in upper case.
UF(name, len, ascii) == [name |-> name, len |-> len, ascii |-> ascii]
CanonicalizeUF(s) == IF s.len = 2 /\ s.ascii THEN s ELSE UF("", 0, TRUE)

NormalizeAddress(r) ==
    [r EXCEPT !.uf = CanonicalizeUF(@), !.cep = CEP(@), !.data = DateToISO(@)]

NormalizeResult(doc, r) ==
    CASE doc = "identity_document" -> NormalizeIdentity(r)
      [] doc = "invoice_nf"        -> NormalizeInvoice(r)
      [] doc = "address_proof"     -> NormalizeAddress(r)
      [] doc = "curriculum_vitae"  -> NormalizeCV(r)

-----------------------------------------------------------------------------
(***************************************************************************)
(* The steps.                                                              *)
(***************************************************************************)
\* s with one digit replaced by another.
Misread(s) ==
    {[s EXCEPT ![i] = x] : i \in {j \in DOMAIN s : s[j] \in Digit}, x \in Digit}

Misreadings(p) ==
    CASE p.doc = "identity_document" ->
             {[p.fields EXCEPT !.cpf = s] : s \in Misread(p.fields.cpf)}
      [] p.doc = "invoice_nf" ->
             {[p.fields EXCEPT !.emitente.cnpj = s] : s \in Misread(p.fields.emitente.cnpj)}
      [] OTHER -> {}

Init ==
    /\ stage = "paper" /\ paper \in Papers
    /\ fields = paper.fields /\ pending = {} /\ misread = FALSE

ModelAnswers ==
    /\ stage = "paper"
    /\ fields' \in {paper.fields} \cup Misreadings(paper)
    /\ misread' = (fields' # paper.fields)
    /\ stage' = "answer"
    /\ UNCHANGED <<paper, pending>>

Flat(skills) == <<[category |-> Named("other"),
                   items |-> ItemsAt(ItemsOf(skills), Places(ItemsOf(skills)))]>>

\* decodeInto; Skills.UnmarshalJSON takes a list of groups, a flat list, or
\* an object, which names each of its keys once (of one that is literally
\* repeated Go keeps the last; two spellings of a category are two keys).
Decode ==
    /\ stage = "answer"
    /\ stage' = "decode"
    /\ IF paper.doc # "curriculum_vitae" THEN UNCHANGED <<fields, pending>>
       ELSE CASE paper.skillsAs = "groups" -> UNCHANGED <<fields, pending>>
              [] paper.skillsAs = "flat"   ->
                   /\ fields' = [fields EXCEPT !.skills = Flat(@)]
                   /\ UNCHANGED pending
              [] paper.skillsAs = "object" ->
                   /\ pending' = Range(fields.skills)
                   /\ fields' = [fields EXCEPT !.skills = <<>>]
    /\ UNCHANGED <<paper, misread>>

\* The next group of the loop over the map.
NextOfMap(g) ==
    /\ stage = "decode" /\ g \in pending
    /\ pending' = pending \ {g}
    /\ fields' = [fields EXCEPT !.skills = Append(@, g)]
    /\ UNCHANGED <<stage, paper, misread>>

Store ==
    /\ stage = "decode" /\ pending = {}
    /\ fields' = NormalizeResult(paper.doc, fields)
    /\ stage' = "stored"
    /\ UNCHANGED <<paper, pending, misread>>

Next == ModelAnswers \/ Decode \/ (\E g \in pending : NextOfMap(g)) \/ Store

Spec == Init /\ [][Next]_vars

-----------------------------------------------------------------------------
(***************************************************************************)
(* Properties                                                              *)
(***************************************************************************)
\* The identifiers of a document that have check digits, printed and stored.
Identifiers ==
    CASE paper.doc = "identity_document" ->
             {<<"cpf", paper.fields.cpf, fields.cpf>>}
      [] paper.doc = "invoice_nf" ->
             {<<"cnpj", paper.fields.emitente.cnpj, fields.emitente.cnpj>>,
              <<"cpf", paper.fields.destinatario.cpf, fields.destinatario.cpf>>}
      [] OTHER -> {}

\* ValidCPF and ValidCNPJ let an identifier through that was read as printed,
\* and catch a digit that the model misread: what is stored is then empty.
\* The remainders 0 and 1 share the check digit 0, so that a wrong first or
\* sixth digit of a CPF, or first, fifth or ninth of a CNPJ, may pass, but
\* only if the first sum has one of these remainders.
MisreadRefused ==
    stage = "stored" => \A id \in Identifiers :
        LET printed == DigitsOnly(id[2])
            stored  == id[3]
            first   == IF id[1] = "cpf" THEN CPFSum1(printed) ELSE CNPJSum1(printed)
        IN  \/ stored = printed
            \/ misread /\ stored = Absent
            \/ /\ misread /\ first % 11 \in {0, 1}
               /\ \E i \in IF id[1] = "cpf" THEN {1, 6} ELSE {1, 5, 9} :
                      \A j \in DOMAIN printed \ {i} : stored[j] = printed[j]

\* The dates of a document, as printed and as stored.
Dates ==
    CASE paper.doc = "identity_document" ->
             {<<paper.fields.data_nascimento, fields.data_nascimento>>,
              <<paper.fields.validade, fields.validade>>}
      [] paper.doc = "invoice_nf"    -> {<<paper.fields.data_emissao, fields.data_emissao>>}
      [] paper.doc = "address_proof" -> {<<paper.fields.data, fields.data>>}
      [] paper.doc = "curriculum_vitae" ->
             LET printed == paper.fields.experience
                 kept    == InOrder(KeptExperience(printed))
             IN  {<<printed[kept[k]].start, fields.experience[k].start>> :
                      k \in DOMAIN fields.experience}

\* What a reader in Brazil takes a printed date for: the year is the number
\* of four digits, or the last, and the month is in the middle or, in a date
\* without a day, beside the year, perhaps by name.
DayMeant(n) ==
    IF n[1].w = 4 THEN [y |-> n[1].v, m |-> n[2].v, d |-> n[3].v]
                  ELSE [y |-> Year(n[3]), m |-> n[2].v, d |-> n[1].v]
MonthMeant(text, n) ==
    IF text[1].t # "num" THEN [y |-> n[1].v, m |-> text[1].v]
    ELSE IF n[1].w = 4 THEN [y |-> n[1].v, m |-> n[2].v]
                       ELSE [y |-> Year(n[2]), m |-> n[1].v]

\* DateToISO and normalizeCVDate return at the first layout that parses, and
\* the latter tries the Portuguese month names in random order.  In whatever
\* order, a stored date is the one that was printed; a day of the calendar in
\* the usual form is not lost; and no two Portuguese names both fit.
DateStoredAsPrinted ==
    stage = "stored" => \A pair \in Dates :
        LET text   == pair[1]
            stored == pair[2]
            n      == EntriesAt(text, {i \in DOMAIN text : text[i].t = "num"})
            usual  == /\ Len(text) = 5 /\ Len(n) = 3
                      /\ \A i \in {2, 4} : text[i].t \in {"/", "-", "."}
                      /\ n[2].w \in {1, 2}
                      /\ \/ n[1].w \in {1, 2} /\ n[3].w \in {2, 4}
                         \/ n[1].w = 4 /\ n[3].w \in {1, 2}
        IN  /\ Len(stored) = 5 => stored = ISO(DayMeant(n))
            /\ Len(stored) = 3 => /\ stored[1].v = MonthMeant(text, n).y
                                  /\ stored[3].v = MonthMeant(text, n).m
            /\ usual /\ DayMeant(n).m \in 1..12
                     /\ DayMeant(n).d \in 1..DaysIn(DayMeant(n).m, DayMeant(n).y)
               => Len(stored) = 5
            /\ \A a, b \in PtReadings(Slashed(text)) : a = b

\* Whatever order the map gave its groups in, each category holds every skill
\* of its groups, once, and nothing else; only its spelling and its place
\* depend on the order.
SkillsKept ==
    stage = "stored" /\ paper.doc = "curriculum_vitae" =>
        LET printed == paper.fields.skills
            stored  == fields.skills
            of(g)   == IF paper.skillsAs = "flat" THEN "other"
                       ELSE CanonicalizeSkillCategory(g.category)
            keys(items) == {items[i].key : i \in DOMAIN items} \ {""}
            expected(cat) == UNION {keys(g.items) : g \in {h \in Range(printed) : of(h) = cat}}
            found(cat) == UNION {keys(g.items) : g \in {h \in Range(stored) : h.category.alias = cat}}
        IN  /\ \A cat \in Categories : found(cat) = expected(cat)
            /\ \A i, j \in DOMAIN stored : stored[i].category = stored[j].category => i = j
            /\ \A g \in Range(stored) : Cardinality(keys(g.items)) = Len(g.items)

\* Normalizing a stored result changes nothing: every form that a document
\* type stores (an ISO date, a year and month, digits, a canonical name) is
\* read back as what it is.  The one exception is an e-mail whose local part
\* needs quotes: normalizeEmail stores the address without them, and would take
\* the next layer off, or empty it, and touch nothing else.
NormalizeIdempotent ==
    stage = "stored" =>
        \/ NormalizeResult(paper.doc, fields) = fields
        \/ /\ paper.doc = "curriculum_vitae" /\ fields.email.kind = "odd"
           /\ NormalizeResult(paper.doc, fields)
                 = [fields EXCEPT !.email = NormalizeEmail(fields.email)]

=============================================================================
