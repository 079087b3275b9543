----------------------------- MODULE MCDocTypes -----------------------------
(***************************************************************************)
(* DocTypes for TLC.                                                       *)
(***************************************************************************)
EXTENDS DocTypes

\* Valid identifiers around a fixed one, with every digit at three places.
CPFBases == {<<a, 2, 3, 4, 5, b, 7, 8, c>> : a \in Digit, b \in Digit, c \in {0, 4}}
CNPJBases == {<<a, 1, 2, 2, b, 3, 3, 0, c, 0, 0, 1>> : a \in Digit, b \in {0, 5},
              c \in Digit}

CPFs == {d \in {base \o <<x, y>> : base \in CPFBases, x \in Digit, y \in Digit} :
             IssuedCPF(d)}
CNPJs == {d \in {base \o <<x, y>> : base \in CNPJBases, x \in Digit, y \in Digit} :
              IssuedCNPJ(d)}

\* ###.###.###-##
Punctuated(d) == SubSeq(d, 1, 3) \o <<Punct>> \o SubSeq(d, 4, 6) \o <<Punct>>
                 \o SubSeq(d, 7, 9) \o <<Punct>> \o SubSeq(d, 10, 11)

Date == <<Num(31, 2), Mark("/"), Num(12, 2), Mark("/"), Num(2030, 4)>>
OldDate == <<Num(1, 1), Mark("."), Num(2, 2), Mark("."), Num(69, 2)>>

Identity(tipo, cpf) ==
    [doc |-> "identity_document",
     fields |-> [tipo |-> tipo, cpf |-> cpf, numero_documento |-> <<1, Punct, 2>>,
                 data_nascimento |-> OldDate, validade |-> Date]]

PartyOf(cnpj, cpf) == [cnpj |-> cnpj, cpf |-> cpf]
Invoice(cnpj, cpf) ==
    [doc |-> "invoice_nf",
     fields |-> [emitente |-> PartyOf(cnpj, Absent), destinatario |-> PartyOf(Absent, cpf),
                 data_emissao |-> Date]]

Address(uf, cep, date) ==
    [doc |-> "address_proof", fields |-> [uf |-> uf, cep |-> cep, data |-> date]]

\* Three numbers with separators, perhaps followed by a time of day.
DateNumbers == {Num(0, 2), Num(2, 1), Num(5, 2), Num(12, 2), Num(29, 2), Num(31, 2),
                Num(45, 2), Num(70, 2), Num(2023, 4), Num(2024, 4)}
Tails == {<<>>, <<Mark(" "), Num(10, 2), Word(0, "other")>>}
DayTexts ==
    {<<a, Mark(s), b, Mark(s), c>> \o t : a \in DateNumbers, b \in DateNumbers,
        c \in DateNumbers, s \in {"/", "-", " "}, t \in Tails}

\* A month and a year, in numbers or with a name in either language.
Months == DateNumbers \cup
          {Word(m, f) : m \in {1, 2, 3, 5}, f \in {"January", "Jan", "janeiro", "jan"}}
MonthTexts ==
    {<<a, Mark(s), b>> \o t : a \in Months, b \in DateNumbers,
        s \in {"/", "-", " "}, t \in Tails}
    \cup {<<a, Mark(" "), Word(0, "other"), Mark(" "), b>> : a \in Months, b \in DateNumbers}
    \cup {<<a, b>> : a \in Months, b \in DateNumbers}

Item(k, spelling) == [key |-> k, spelling |-> spelling]
Raw(alias, contains) == [alias |-> alias, contains |-> contains]

CV(skillsAs, skills, date) ==
    [doc |-> "curriculum_vitae", skillsAs |-> skillsAs,
     fields |->
       [email |-> [kind |-> "plain", quotes |-> 0],
        phone |-> [plus |-> TRUE, digits |-> IF skills = <<>> THEN 7 ELSE 8],
        skills |-> skills,
        languages |-> <<[name |-> "", level |-> "C1"], [name |-> "en", level |-> ""]>>,
        experience |-> <<[company |-> "", title |-> "dev", start |-> date, end |-> date,
                          current |-> skills = <<>>, highlights |-> <<Item("", "")>>],
                         [company |-> "", title |-> "", start |-> date, end |-> date,
                          current |-> FALSE, highlights |-> <<>>]>>,
        education |-> <<[institution |-> "usp", degree |-> "", start |-> date, end |-> date]>>,
        certifications |-> <<[name |-> "cka", date |-> date], [name |-> "", date |-> date]>>]]

WithEmail(p, e) == [p EXCEPT !.fields.email = e]
MCEmails == {NoEmail} \cup {[kind |-> "odd", quotes |-> n] : n \in 0..2}

SkillItems == {<<>>, <<Item("go", "Go"), Item("", "")>>,
               <<Item("react", "React"), Item("go", "GO"), Item("react", "react")>>}
SkillNames == {Named("backend"), Raw("backend", {}), Raw("", {"backend", "data"}), Raw("", {})}
SkillSets ==
    {<<[category |-> a, items |-> i], [category |-> b, items |-> j],
       [category |-> c, items |-> k]>> :
         a \in SkillNames, b \in SkillNames, c \in SkillNames,
         i \in SkillItems, j \in SkillItems, k \in SkillItems}
Distinct(s) == \A i, j \in DOMAIN s : s[i].category = s[j].category => i = j

MCPapers ==
    {Identity("CNH-E", d) : d \in CPFs}
    \cup {Identity(t, Punctuated(<<1, 1, 1, 4, 4, 4, 7, 7, 7, 3, 5>>)) :
              t \in {"RG", "", "passport"}}
    \cup {Invoice(d, <<1, 1, 1, 4, 4, 4, 7, 7, 7, 3, 5>>) : d \in CNPJs}
    \cup {Address(UF("SP", 2, TRUE), <<0, 1, 0, 0, 1, Punct, 0, 0, 0>>, s) : s \in DayTexts}
    \cup {Address(u, <<0, 1>>, Absent) : u \in {UF("Rio", 3, TRUE), UF("1", 2, FALSE)}}
    \cup {CV("groups", <<>>, s) : s \in MonthTexts}
    \cup {WithEmail(CV("groups", <<>>, Date), e) : e \in MCEmails}
    \cup {CV(as, s, Date) : as \in {"groups", "flat", "object"},
                            s \in {t \in SkillSets : Distinct(t)}}

=============================================================================
