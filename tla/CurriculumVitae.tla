--------------------------- MODULE CurriculumVitae ---------------------------
(***************************************************************************)
(* The document type curriculum_vitae: how the lists of a decoded answer   *)
(* are cleaned.                                                            *)
(*                                                                         *)
(* A text is "" when it is blank.  An item of a list of strings has a key, *)
(* its lower case, and a spelling.  The category of a group of skills is   *)
(* the name it is an alias of, or "", and the names that occur in it.      *)
(***************************************************************************)
EXTENDS Normalize, SequencesExt

SkillCategoryOrder ==
    <<"frontend", "backend", "mobile", "devops", "cloud", "data", "tools", "soft",
      "other">>
Categories == Range(SkillCategoryOrder)

Category == [alias : Categories \cup {""}, contains : SUBSET Categories]

\* The category that bears a canonical name.
Named(cat) == [alias |-> cat, contains |-> {cat}]

CanonicalizeSkillCategory(c) ==
    IF c.alias # "" THEN c.alias
    ELSE IF c.contains = {} THEN "other"
    ELSE SkillCategoryOrder[Min({i \in DOMAIN SkillCategoryOrder :
                                     SkillCategoryOrder[i] \in c.contains})]

\* cleanStrings: neither blanks nor repetitions, whatever their case.
CleanPlaces(items) ==
    {i \in DOMAIN items : /\ items[i].key # ""
                          /\ \A j \in 1 .. i - 1 : items[j].key # items[i].key}
CleanStrings(items) == EntriesAt(items, CleanPlaces(items))

\* cleanSkills: the groups of a category become one, with an item at the first
\* of its places in them, and the categories come in the order of the names.
InCategory(skills, cat) ==
    {g \in DOMAIN skills : CanonicalizeSkillCategory(skills[g].category) = cat}

MergedPlacesByGroup(skills, cat) ==
    UNION {{g} \X CleanPlaces(skills[g].items) : g \in InCategory(skills, cat)}
MergedPlaces(skills, cat) ==
    {p \in UNION {{g} \X CleanPlaces(skills[g].items) : g \in InCategory(skills, cat)} :
        \A h \in InCategory(skills, cat) : h < p[1] =>
            \A i \in DOMAIN skills[h].items :
                skills[h].items[i].key # skills[p[1]].items[p[2]].key}

ItemsOf(skills) == [g \in DOMAIN skills |-> skills[g].items]
Merged(skills, cat) == ItemsAt(ItemsOf(skills), MergedPlaces(skills, cat))

CleanSkills(skills) ==
    LET all == [i \in DOMAIN SkillCategoryOrder |->
                   [category |-> Named(SkillCategoryOrder[i]),
                    items |-> Merged(skills, SkillCategoryOrder[i])]]
    IN  EntriesAt(all, {i \in DOMAIN all : all[i].items # <<>>})

-----------------------------------------------------------------------------
MonthLayouts ==
    << <<"2006", "/", "01">>, <<"2006", "/", "1">>, <<"01", "/", "2006">>,
       <<"1", "/", "2006">>, <<"01", "/", "06">>, <<"1", "/", "06">>,
       <<"January", " ", "2006">>, <<"Jan", " ", "2006">>,
       <<"January", "/", "2006">>, <<"Jan", "/", "2006">> >>

\* The Portuguese names that a word begins with, and what is left of the word.
PtPrefixes(tok) ==
    CASE tok.t = "janeiro" -> {[form |-> "janeiro", left |-> <<>>],
                               [form |-> "jan", left |-> <<Word(0, "other")>>]}
      [] tok.t = "jan"     -> {[form |-> "jan", left |-> <<>>]}
      [] tok.t \in {"January", "Jan"} /\ tok.v \in SharedShort ->
             {[form |-> "jan",
               left |-> IF tok.t = "Jan" THEN <<>> ELSE <<Word(0, "other")>>]}
      [] OTHER             -> {}

\* What follows the name, without the spaces and separators in front.
AfterName(s) ==
    LET tail == Tail(s)
        n == {i \in DOMAIN tail : tail[i].t \notin {" ", "/"}}
    IN  IF n = {} THEN <<>> ELSE SubSeq(tail, Min(n), Len(tail))

PtLayouts == << <<"January", " ", "2006">>, <<"Jan", " ", "2006">> >>
PtTry(s, p) ==
    <<Word(s[1].v, IF p.form = "jan" THEN "Jan" ELSE "January"), Mark(" ")>>
    \o p.left \o AfterName(s)

\* The loop over the Portuguese names: it tries the ones that the text begins
\* with in the random order of a Go map, so any of these may be returned.
PtReadings(s) ==
    IF s = <<>> THEN {}
    ELSE {FirstReading(PtLayouts, PtTry(s, p)) : p \in PtPrefixes(s[1])} \ {NoDate}

MonthOf(s) ==
    LET numeric == FirstReading(MonthLayouts, Slashed(s))
        pt == PtReadings(Slashed(s))
    IN  IF numeric # NoDate THEN numeric
        ELSE IF pt # {} THEN CHOOSE date \in pt : TRUE ELSE NoDate

ShortYearMonth(date) == <<Num(date.y % 100, 2), Mark("-"), Num(date.m, 2)>>
YearMonth(date) == <<Num(date.y, 4), Mark("-"), Num(date.m, 2)>>

NormalizeCVDate(s) ==
    IF DateToISO(s) # Absent THEN DateToISO(s)
    ELSE IF MonthOf(s) # NoDate THEN YearMonth(MonthOf(s)) ELSE Absent

-----------------------------------------------------------------------------
KeptExperience(list) ==
    {i \in DOMAIN list : list[i].company # "" \/ list[i].title # ""}
CleanExperience(list) ==
    LET kept == EntriesAt(list, KeptExperience(list))
        clean(e) == [e EXCEPT !.start = NormalizeCVDate(e.start),
                              !.end = IF e.current THEN Absent
                                      ELSE NormalizeCVDate(e.end),
                              !.highlights = CleanStrings(e.highlights)]
    IN  [i \in DOMAIN kept |-> clean(kept[i])]

CleanEducation(list) ==
    LET kept == EntriesAt(list, {i \in DOMAIN list :
                                    list[i].institution # "" \/ list[i].degree # ""})
    IN  [i \in DOMAIN kept |-> [kept[i] EXCEPT !.start = NormalizeCVDate(@),
                                               !.end = NormalizeCVDate(@)]]

CleanCertifications(list) ==
    LET kept == EntriesAt(list, {i \in DOMAIN list : list[i].name # ""})
    IN  [i \in DOMAIN kept |-> [kept[i] EXCEPT !.date = NormalizeCVDate(@)]]

CleanLanguages(list) == EntriesAt(list, {i \in DOMAIN list : list[i].name # ""})

\* At least eight digits, and a + only in front.
NormalizePhone(p) == IF p.digits < 8 THEN [plus |-> FALSE, digits |-> 0] ELSE p

\* An e-mail is blank, plain (mail.ParseAddress reads it, and reads what is
\* stored of it as the same), or odd: its local part is legal only in quotes, of
\* which it has so many layers.  Address is the local part with a layer less;
\* without any the e-mail does not parse, like any that is none.
Emails == [kind : {"", "plain", "odd"}, quotes : Nat]
NoEmail == [kind |-> "", quotes |-> 0]
NormalizeEmail(e) ==
    IF e.kind # "odd" THEN e
    ELSE IF e.quotes = 0 THEN NoEmail ELSE [e EXCEPT !.quotes = @ - 1]

NormalizeCV(r) ==
    [r EXCEPT !.email = NormalizeEmail(@), !.phone = NormalizePhone(@),
              !.skills = CleanSkills(@), !.languages = CleanLanguages(@),
              !.experience = CleanExperience(@),
              !.education = CleanEducation(@),
              !.certifications = CleanCertifications(@)]

=============================================================================
