--------------------------- MODULE DocTypesProofs ---------------------------
(***************************************************************************)
(* What is stored of a document, for every set of papers.                  *)
(***************************************************************************)
EXTENDS DocTypes, NormalizeProofs

\* What the model answered.
Answered(f) == f = paper.fields \/ (misread /\ f \in Misreadings(paper))

\* The curriculum of which the groups of rest are still to be decoded.
Decoding(f, rest) ==
    /\ f.skills \in Seq(SkillGroup)
    /\ f = [paper.fields EXCEPT !.skills = f.skills]
    /\ CASE paper.skillsAs = "groups" -> f.skills = paper.fields.skills /\ rest = {}
         [] paper.skillsAs = "flat"   -> f.skills = Flat(paper.fields.skills) /\ rest = {}
         [] paper.skillsAs = "object" ->
                Range(f.skills) \cup rest = Range(paper.fields.skills)

Decoded(f, rest) ==
    IF paper.doc = "curriculum_vitae" THEN Decoding(f, rest)
    ELSE Answered(f) /\ rest = {}

\* The inductive invariant: what fields holds at each stage.
Inv ==
    /\ paper \in Papers
    /\ stage = "paper"  => fields = paper.fields /\ pending = {}
    /\ stage = "answer" => Answered(fields) /\ pending = {}
    /\ stage = "decode" => Decoded(fields, pending)
    /\ stage = "stored" =>
           \E f : Decoded(f, {}) /\ fields = NormalizeResult(paper.doc, f)

-----------------------------------------------------------------------------
(***************************************************************************)
(* Identifiers                                                             *)
(***************************************************************************)

LEMMA IssuedIsValid ==
  ASSUME NEW d \in Seq(Digit)
  PROVE  (IssuedCPF(d) => ValidCPF(d)) /\ (IssuedCNPJ(d) => ValidCNPJ(d))
<1>1. ASSUME IssuedCPF(d) PROVE ValidCPF(d)
  <2>1. Len(d) = 11
    BY <1>1 DEF IssuedCPF
  <2>2. d \in [1 .. 11 -> Nat]
    <3>1. d \in [1 .. 11 -> Digit]
      BY <2>1, LenProperties
    <3>2. \A i \in 1 .. 11 : d[i] \in Nat
      BY <3>1 DEF Digit
    <3> QED
      BY <3>1, <3>2
  <2>3. CPFSum1(d) \in Nat /\ CPFSum2(d) \in Nat
    BY <2>2, CPFSums
  <2> QED
    BY <1>1, <2>3, CheckDigitsAgree DEF IssuedCPF, ValidCPF
<1> QED
  BY <1>1 DEF IssuedCNPJ, ValidCNPJ

\* An issued identifier is stored as printed ...
LEMMA IssuedStored ==
  ASSUME NEW n \in Nat, NEW s, DOMAIN s = 1 .. n
  PROVE  /\ DigitsOnly(s) = Absent => CPF(s) = Absent /\ CNPJ(s) = Absent
         /\ IssuedCPF(DigitsOnly(s)) => CPF(s) = DigitsOnly(s)
         /\ IssuedCNPJ(DigitsOnly(s)) => CNPJ(s) = DigitsOnly(s)
<1>1. DigitsOnly(s) \in Seq(Digit)
  BY DigitsTwice
<1>2. /\ IssuedCPF(DigitsOnly(s)) => ValidCPF(DigitsOnly(s))
      /\ IssuedCNPJ(DigitsOnly(s)) => ValidCNPJ(DigitsOnly(s))
  BY <1>1, IssuedIsValid
<1> QED
  BY <1>2 DEF CPF, CNPJ

\* ... and one that was misread is refused, but for the digits that the check
\* digits do not protect.
LEMMA CPFRefused ==
  ASSUME NEW n \in Nat, NEW s, s = [j \in 1 .. n |-> s[j]],
         IssuedCPF(DigitsOnly(s)), NEW t \in Misread(s)
  PROVE  \/ CPF(t) = DigitsOnly(s)
         \/ CPF(t) = Absent
         \/ /\ CPFSum1(DigitsOnly(s)) % 11 \in {0, 1}
            /\ \E i \in {1, 6} : \A j \in DOMAIN DigitsOnly(s) \ {i} :
                   CPF(t)[j] = DigitsOnly(s)[j]
<1> DEFINE d == DigitsOnly(s)
<1>1. d \in Seq(Digit) /\ Len(d) = 11
  BY DigitsTwice DEF IssuedCPF
<1> HIDE DEF d
<1>2. d \in [1 .. 11 -> Digit] /\ ValidCPF(d)
  BY <1>1, LenProperties, IssuedIsValid DEF d
<1>3. PICK i \in 1 .. n, x \in Digit : s[i] \in Digit /\ t = [s EXCEPT ![i] = x]
  BY DEF Misread
<1>4. PICK k \in DOMAIN d : d[k] = s[i] /\ DigitsOnly(t) = [d EXCEPT ![k] = x]
  <2>1. DiffersAt(s, t, n, i) /\ t[i] = x
    BY <1>3 DEF DiffersAt
  <2>2. DigitChanged(d, DigitsOnly(t), s[i], t[i])
    BY <2>1, OneDigitReplaced DEF d
  <2> QED
    BY <2>1, <2>2, Zenon DEF DigitChanged
<1>5. CASE ~ValidCPF(DigitsOnly(t))
  BY <1>5 DEF CPF
<1>6. CASE x = d[k]
  <2>1. DigitsOnly(t) = d
    BY <1>2, <1>4, <1>6
  <2> QED
    BY <1>2, <2>1 DEF CPF, d
<1>7. CASE x # d[k] /\ ValidCPF(DigitsOnly(t))
  <2>1. k \in 1 .. 11
    BY <1>2
  <2>2. ValidCPF([d EXCEPT ![k] = x])
    BY <1>4, <1>7, Zenon
  <2>4. k \in {1, 6} /\ CPFSum1(d) % 11 \in {0, 1}
    BY <1>2, <1>3, <1>7, <2>1, <2>2, CPFMisread, Zenon
  <2>3. \A j \in DOMAIN d \ {k} : CPF(t)[j] = d[j]
    BY <1>2, <1>4, <1>7 DEF CPF
  <2> QED
    BY <2>3, <2>4 DEF d
<1> QED
  BY <1>5, <1>6, <1>7

LEMMA CNPJRefused ==
  ASSUME NEW n \in Nat, NEW s, s = [j \in 1 .. n |-> s[j]],
         IssuedCNPJ(DigitsOnly(s)), NEW t \in Misread(s)
  PROVE  \/ CNPJ(t) = DigitsOnly(s)
         \/ CNPJ(t) = Absent
         \/ /\ CNPJSum1(DigitsOnly(s)) % 11 \in {0, 1}
            /\ \E i \in {1, 5, 9} : \A j \in DOMAIN DigitsOnly(s) \ {i} :
                   CNPJ(t)[j] = DigitsOnly(s)[j]
<1> DEFINE d == DigitsOnly(s)
<1>1. d \in Seq(Digit) /\ Len(d) = 14
  BY DigitsTwice DEF IssuedCNPJ
<1> HIDE DEF d
<1>2. d \in [1 .. 14 -> Digit] /\ ValidCNPJ(d)
  BY <1>1, LenProperties, IssuedIsValid DEF d
<1>3. PICK i \in 1 .. n, x \in Digit : s[i] \in Digit /\ t = [s EXCEPT ![i] = x]
  BY DEF Misread
<1>4. PICK k \in DOMAIN d : d[k] = s[i] /\ DigitsOnly(t) = [d EXCEPT ![k] = x]
  <2>1. DiffersAt(s, t, n, i) /\ t[i] = x
    BY <1>3 DEF DiffersAt
  <2>2. DigitChanged(d, DigitsOnly(t), s[i], t[i])
    BY <2>1, OneDigitReplaced DEF d
  <2> QED
    BY <2>1, <2>2, Zenon DEF DigitChanged
<1>5. CASE ~ValidCNPJ(DigitsOnly(t))
  BY <1>5 DEF CNPJ
<1>6. CASE x = d[k]
  <2>1. DigitsOnly(t) = d
    BY <1>2, <1>4, <1>6
  <2> QED
    BY <1>2, <2>1 DEF CNPJ, d
<1>7. CASE x # d[k] /\ ValidCNPJ(DigitsOnly(t))
  <2>1. k \in 1 .. 14
    BY <1>2
  <2>2. ValidCNPJ([d EXCEPT ![k] = x])
    BY <1>4, <1>7, Zenon
  <2>4. k \in {1, 5, 9} /\ CNPJSum1(d) % 11 \in {0, 1}
    BY <1>2, <1>3, <1>7, <2>1, <2>2, CNPJMisread, Zenon
  <2>3. \A j \in DOMAIN d \ {k} : CNPJ(t)[j] = d[j]
    BY <1>2, <1>4, <1>7 DEF CNPJ
  <2> QED
    BY <2>3, <2>4 DEF d
<1> QED
  BY <1>5, <1>6, <1>7

-----------------------------------------------------------------------------
(***************************************************************************)
(* The inductive invariant                                                 *)
(***************************************************************************)

\* What is gathered from lists of S is a list of S.
LEMMA GatheredType ==
  ASSUME NEW S, NEW n \in Nat, NEW lists \in [1 .. n -> Seq(S)],
         NEW P \in SUBSET Places(lists)
  PROVE  /\ P \in SUBSET (Nat \X Nat) /\ IsFiniteSet(P)
         /\ ItemsAt(lists, P) \in Seq(S)
<1> DEFINE D == [g \in 1 .. n |-> DOMAIN lists[g]]
<1>1. \A g \in 1 .. n : D[g] \in SUBSET Nat /\ IsFiniteSet(D[g])
  <2>1. ASSUME NEW g \in 1 .. n PROVE D[g] \in SUBSET Nat /\ IsFiniteSet(D[g])
    <3>1. lists[g] \in Seq(S)
      OBVIOUS
    <3>2. PICK m \in Nat : D[g] = 1 .. m
      BY <3>1, LenProperties
    <3>3. IsFiniteSet(1 .. m) /\ 1 .. m \in SUBSET Nat
      BY FS_Interval
    <3> QED
      BY <3>2, <3>3
  <2> QED
    BY <2>1
<1>2. D \in [1 .. n -> SUBSET Nat]
  BY <1>1
<1>3. Places(lists) = UNION {{g} \X D[g] : g \in 1 .. n}
  BY DEF Places
<1> HIDE DEF D
<1>4. Places(lists) \in SUBSET (Nat \X Nat) /\ IsFiniteSet(Places(lists))
  BY <1>1, <1>2, <1>3, FinitelyManyPlaces, Zenon
<1>5. P \in SUBSET (Nat \X Nat) /\ IsFiniteSet(P)
  BY <1>4, FS_Subset
<1>6. ASSUME NEW p \in P PROVE lists[p[1]][p[2]] \in S
  <2>1. PICK g \in 1 .. n : p \in {g} \X D[g]
    BY <1>3
  <2>2. p[1] = g /\ p[2] \in DOMAIN lists[g]
    BY <2>1 DEF D
  <2>3. lists[g] \in Seq(S)
    OBVIOUS
  <2> QED
    BY <2>2, <2>3, ElementOfSeq, LenProperties
<1> DEFINE c == Cardinality(P)
           v == ItemsAt(lists, P)
<1>7. /\ DOMAIN v = 1 .. c /\ c \in Nat
      /\ \A k \in 1 .. c : \E p \in P : v[k] = lists[p[1]][p[2]]
  <2>1. DOMAIN v = 1 .. c
    BY <1>5, Gathered, Zenon
  <2>2. c \in Nat
    BY <1>5, FS_CardinalityType, Zenon
  <2>3. ASSUME NEW k \in 1 .. c PROVE \E p \in P : v[k] = lists[p[1]][p[2]]
    <3>1. PICK q : q = PairsInOrder(P)
      OBVIOUS
    <3>2. q \in [1 .. c -> P]
      BY <1>5, <3>1, OrderedPairs, Zenon
    <3>3. v = [i \in 1 .. c |-> lists[q[i][1]][q[i][2]]]
      BY <3>1, Zenon DEF ItemsAt
    <3>4. v[k] = lists[q[k][1]][q[k][2]]
      BY <3>3, Zenon
    <3>5. q[k] \in P
      BY <3>2
    <3> QED
      BY <3>4, <3>5, Zenon
  <2> QED
    BY <2>1, <2>2, <2>3, Zenon
<1>8. v = [k \in 1 .. c |-> v[k]]
  BY DEF ItemsAt
<1> HIDE DEF c, v
<1>9. \A k \in 1 .. c : v[k] \in S
  BY <1>6, <1>7
<1>10. v \in Seq(S)
  BY <1>7, <1>8, <1>9, IsASeq
<1> QED
  BY <1>5, <1>10 DEF v

LEMMA ItemsOfType ==
  ASSUME NEW skills \in Seq(SkillGroup)
  PROVE  /\ Len(skills) \in Nat
         /\ ItemsOf(skills) \in [1 .. Len(skills) -> Strings]
         /\ \A g \in 1 .. Len(skills) :
                /\ skills[g] \in SkillGroup /\ skills[g].category \in Category
                /\ skills[g].items \in Strings /\ ItemsOf(skills)[g] = skills[g].items
<1>1. Len(skills) \in Nat /\ DOMAIN skills = 1 .. Len(skills)
  BY LenProperties
<1>2. \A g \in 1 .. Len(skills) : skills[g] \in SkillGroup
  BY ElementOfSeq
<1>3. \A g \in 1 .. Len(skills) : skills[g].items \in Strings /\ skills[g].category \in Category
  BY <1>2 DEF SkillGroup
<1>4. ItemsOf(skills) = [g \in 1 .. Len(skills) |-> skills[g].items]
  BY <1>1 DEF ItemsOf
<1> QED
  BY <1>1, <1>2, <1>3, <1>4

\* A flat list of skills is one group.
LEMMA FlatType ==
  ASSUME NEW skills \in Seq(SkillGroup) PROVE Flat(skills) \in Seq(SkillGroup)
<1> DEFINE lists == ItemsOf(skills)
           items == ItemsAt(lists, Places(lists))
<1>1. Len(skills) \in Nat /\ lists \in [1 .. Len(skills) -> Strings]
  BY ItemsOfType
<1>2. items \in Strings
  <2> HIDE DEF lists
  <2> QED
    BY <1>1, GatheredType DEF Strings
<1>3. Named("other") \in Category
  BY DEF Named, Category, Categories, SkillCategoryOrder, Range
<1> HIDE DEF items
<1>4. [category |-> Named("other"), items |-> items] \in SkillGroup
  BY <1>2, <1>3 DEF SkillGroup
<1>5. Flat(skills) = <<[category |-> Named("other"), items |-> items]>>
  BY DEF Flat, items
<1> QED
  BY <1>4, <1>5

LEMMA PaperType ==
  ASSUME paper \in Papers
  PROVE  /\ paper.doc \in {"identity_document", "invoice_nf", "address_proof",
                           "curriculum_vitae"}
         /\ paper.doc = "identity_document" => paper.fields \in IdentityResult
         /\ paper.doc = "invoice_nf" => paper.fields \in InvoiceResult
         /\ paper.doc = "address_proof" => paper.fields \in AddressResult
         /\ paper.doc = "curriculum_vitae" =>
                /\ paper.fields \in CVResult
                /\ paper.skillsAs \in {"groups", "flat", "object"}
<1>0. PICK q : q = paper
  OBVIOUS
<1>1. \/ q \in [doc : {"identity_document"}, fields : IdentityResult]
      \/ q \in [doc : {"invoice_nf"}, fields : InvoiceResult]
      \/ q \in [doc : {"address_proof"}, fields : AddressResult]
      \/ q \in [doc : {"curriculum_vitae"}, skillsAs : {"groups", "flat", "object"},
                fields : CVResult]
  BY <1>0, PapersAssumption, Zenon
<1>2. CASE q \in [doc : {"identity_document"}, fields : IdentityResult]
  BY <1>0, <1>2
<1>3. CASE q \in [doc : {"invoice_nf"}, fields : InvoiceResult]
  BY <1>0, <1>3
<1>4. CASE q \in [doc : {"address_proof"}, fields : AddressResult]
  BY <1>0, <1>4
<1>5. CASE q \in [doc : {"curriculum_vitae"}, skillsAs : {"groups", "flat", "object"},
                  fields : CVResult]
  BY <1>0, <1>5
<1> QED
  BY <1>1, <1>2, <1>3, <1>4, <1>5

LEMMA InitInv == Init => Inv
BY DEF Init, Inv

LEMMA AnswersInv == Inv /\ ModelAnswers => Inv'
<1> SUFFICES ASSUME Inv, ModelAnswers PROVE Inv'
  OBVIOUS
<1>1. /\ paper \in Papers /\ paper' = paper /\ stage' = "answer" /\ pending' = {}
      /\ fields' \in {paper.fields} \cup Misreadings(paper)
      /\ fields' # paper.fields => misread'
  BY DEF Inv, ModelAnswers
<1>2. Answered(fields)'
  BY <1>1 DEF Answered
<1> QED
  BY <1>1, <1>2 DEF Inv

LEMMA DecodeInv == Inv /\ Decode => Inv'
<1> SUFFICES ASSUME Inv, Decode PROVE Inv'
  OBVIOUS
<1>1. /\ paper \in Papers /\ paper' = paper /\ stage' = "decode" /\ misread' = misread
      /\ Answered(fields) /\ pending = {}
  BY DEF Inv, Decode
<1>2. CASE paper.doc # "curriculum_vitae"
  <2>1. fields' = fields /\ pending' = pending
    BY <1>2 DEF Decode
  <2>2. Decoded(fields, pending)'
    BY <1>1, <1>2, <2>1 DEF Decoded, Answered
  <2> QED
    BY <1>1, <2>2 DEF Inv
<1>3. CASE paper.doc = "curriculum_vitae"
  <2>1. Misreadings(paper) = {}
    BY <1>3 DEF Misreadings
  <2>2. fields = paper.fields
    BY <1>1, <2>1 DEF Answered
  <2> DEFINE r == paper.fields
  <2>3. r \in CVResult /\ paper.skillsAs \in {"groups", "flat", "object"}
    BY <1>1, <1>3, PaperType
  <2>4. r.skills \in Seq(SkillGroup)
    BY <2>3 DEF CVResult
  <2>5. \A x : /\ [r EXCEPT !.skills = x].skills = x
               /\ [r EXCEPT !.skills = [r EXCEPT !.skills = x].skills] = [r EXCEPT !.skills = x]
    BY <2>3 DEF CVResult
  <2>6. r = [r EXCEPT !.skills = r.skills]
    BY <2>3 DEF CVResult
  <2>7. CASE paper.skillsAs = "groups"
    <3>1. fields' = r /\ pending' = {}
      BY <1>1, <1>3, <2>2, <2>7 DEF Decode
    <3>2. Decoding(fields, pending)'
      BY <1>1, <2>4, <2>6, <2>7, <3>1 DEF Decoding
    <3> QED
      BY <1>1, <1>3, <3>2 DEF Inv, Decoded
  <2>8. CASE paper.skillsAs = "flat"
    <3>1. fields' = [r EXCEPT !.skills = Flat(r.skills)] /\ pending' = {}
      BY <1>1, <1>3, <2>2, <2>8 DEF Decode
    <3>2. Flat(r.skills) \in Seq(SkillGroup)
      BY <2>4, FlatType
    <3>3. fields'.skills = Flat(r.skills) /\ fields' = [r EXCEPT !.skills = fields'.skills]
      BY <3>1, <2>5
    <3>4. Decoding(fields, pending)'
      BY <1>1, <2>8, <3>1, <3>2, <3>3 DEF Decoding
    <3> QED
      BY <1>1, <1>3, <3>4 DEF Inv, Decoded
  <2>9. CASE paper.skillsAs = "object"
    <3>1. fields' = [r EXCEPT !.skills = <<>>] /\ pending' = Range(r.skills)
      BY <1>1, <1>3, <2>2, <2>9 DEF Decode
    <3>2. <<>> \in Seq(SkillGroup) /\ Range(<<>>) = {}
      BY DEF Range
    <3>3. fields'.skills = <<>> /\ fields' = [r EXCEPT !.skills = fields'.skills]
      BY <3>1, <2>5
    <3>4. Decoding(fields, pending)'
      BY <1>1, <2>9, <3>1, <3>2, <3>3 DEF Decoding
    <3> QED
      BY <1>1, <1>3, <3>4 DEF Inv, Decoded
  <2> QED
    BY <2>3, <2>7, <2>8, <2>9
<1> QED
  BY <1>2, <1>3

LEMMA NextOfMapInv == ASSUME NEW g \in pending PROVE Inv /\ NextOfMap(g) => Inv'
<1> SUFFICES ASSUME Inv, NextOfMap(g) PROVE Inv'
  OBVIOUS
<1>1. /\ paper \in Papers /\ paper' = paper /\ stage' = stage /\ stage = "decode"
      /\ Decoded(fields, pending) /\ pending' = pending \ {g}
      /\ fields' = [fields EXCEPT !.skills = Append(fields.skills, g)]
  BY DEF Inv, NextOfMap
<1>2. paper.doc = "curriculum_vitae" /\ Decoding(fields, pending)
  BY <1>1 DEF Decoded
<1> DEFINE r == paper.fields
           list == fields.skills
<1>3. /\ list \in Seq(SkillGroup) /\ fields = [r EXCEPT !.skills = list]
      /\ paper.skillsAs \in {"groups", "flat", "object"}
  BY <1>1, <1>2, PaperType DEF Decoding
<1>4. paper.skillsAs = "object" /\ Range(list) \cup pending = Range(r.skills)
  BY <1>2, <1>3 DEF Decoding
<1>5. r \in CVResult /\ r.skills \in Seq(SkillGroup)
  BY <1>1, <1>2, PaperType DEF CVResult
<1>6. g \in SkillGroup
  <2>1. g \in Range(r.skills)
    BY <1>4
  <2>2. PICK i \in DOMAIN r.skills : g = r.skills[i]
    BY <2>1 DEF Range
  <2> QED
    BY <2>2, <1>5, ElementOfSeq, LenProperties
<1>7. /\ Append(list, g) \in Seq(SkillGroup)
      /\ Range(Append(list, g)) = Range(list) \cup {g}
  <2> HIDE DEF list
  <2>1. /\ Append(list, g) \in Seq(SkillGroup)
        /\ Len(Append(list, g)) = Len(list) + 1
        /\ \A i \in 1 .. Len(list) : Append(list, g)[i] = list[i]
        /\ Append(list, g)[Len(list) + 1] = g
    BY <1>3, <1>6, AppendProperties
  <2>2. /\ DOMAIN list = 1 .. Len(list) /\ Len(list) \in Nat
        /\ DOMAIN Append(list, g) = 1 .. Len(list) + 1
    BY <1>3, <2>1, LenProperties
  <2>3. DOMAIN Append(list, g) = DOMAIN list \cup {Len(list) + 1}
    BY <2>2
  <2>4. /\ \A i \in DOMAIN list : Append(list, g)[i] = list[i]
    BY <2>1, <2>2
  <2> QED
    BY <2>1, <2>3, <2>4 DEF Range
<1>8. /\ fields'.skills = Append(list, g)
      /\ fields' = [r EXCEPT !.skills = fields'.skills]
  <2>1. fields' = [r EXCEPT !.skills = Append(list, g)]
    BY <1>1, <1>3, <1>5 DEF CVResult
  <2> QED
    BY <2>1, <1>5 DEF CVResult
<1>9. Decoding(fields, pending)'
  <2>1. Range(fields'.skills) \cup pending' = Range(r.skills)
    BY <1>1, <1>4, <1>7, <1>8
  <2> QED
    BY <1>1, <1>4, <1>7, <1>8, <2>1 DEF Decoding
<1> QED
  BY <1>1, <1>2, <1>9 DEF Inv, Decoded

LEMMA StoreInv == Inv /\ Store => Inv'
<1> SUFFICES ASSUME Inv, Store PROVE Inv'
  OBVIOUS
<1>1. /\ paper \in Papers /\ paper' = paper /\ stage' = "stored" /\ misread' = misread
      /\ Decoded(fields, {}) /\ fields' = NormalizeResult(paper.doc, fields)
  BY DEF Inv, Store
<1>2. ASSUME NEW f, Decoded(f, {}) PROVE Decoded(f, {})'
  BY <1>1, <1>2 DEF Decoded, Answered, Decoding
<1>3. \E f : Decoded(f, {})' /\ fields' = NormalizeResult(paper'.doc, f)
  BY <1>1, <1>2
<1> QED
  BY <1>1, <1>3 DEF Inv

LEMMA StepInv == Inv /\ [Next]_vars => Inv'
<1> SUFFICES ASSUME Inv, [Next]_vars PROVE Inv'
  OBVIOUS
<1>1. CASE UNCHANGED vars
  <2>1. /\ paper' = paper /\ stage' = stage /\ misread' = misread
        /\ fields' = fields /\ pending' = pending
    BY <1>1 DEF vars
  <2> QED
    BY <2>1 DEF Inv, Decoded, Answered, Decoding
<1>2. CASE Next
  BY <1>2, AnswersInv, DecodeInv, NextOfMapInv, StoreInv DEF Next
<1> QED
  BY <1>1, <1>2

LEMMA AlwaysInv == Spec => []Inv
BY InitInv, StepInv, PTL DEF Spec

-----------------------------------------------------------------------------
(***************************************************************************)
(* Misread identifiers                                                     *)
(***************************************************************************)

\* What MisreadRefused says of an identifier of a kind in a text, and of what
\* is stored of it.
Refused(kind, text, stored) ==
    LET printed == DigitsOnly(text)
        first   == IF kind = "cpf" THEN CPFSum1(printed) ELSE CNPJSum1(printed)
    IN  \/ stored = printed
        \/ misread /\ stored = Absent
        \/ /\ misread /\ first % 11 \in {0, 1}
           /\ \E i \in IF kind = "cpf" THEN {1, 6} ELSE {1, 5, 9} :
                  \A j \in DOMAIN printed \ {i} : stored[j] = printed[j]

LEMMA IdentifierType ==
  ASSUME NEW s \in Identifier
  PROVE  Len(s) \in Nat /\ DOMAIN s = 1 .. Len(s) /\ s = [j \in 1 .. Len(s) |-> s[j]]
BY LenProperties DEF Identifier

\* A text without a digit cannot be misread.
LEMMA NoDigitToMisread ==
  ASSUME NEW n \in Nat, NEW s, s = [j \in 1 .. n |-> s[j]], DigitsOnly(s) = Absent,
         NEW t \in Misread(s)
  PROVE  FALSE
<1>1. PICK i \in DOMAIN s, x \in Digit : s[i] \in Digit /\ t = [s EXCEPT ![i] = x]
  BY DEF Misread
<1>2. DiffersAt(s, t, n, i)
  BY <1>1 DEF DiffersAt
<1>3. DigitChanged(DigitsOnly(s), DigitsOnly(t), s[i], t[i])
  BY <1>2, OneDigitReplaced
<1>4. DOMAIN Absent = {}
  BY DEF Absent
<1> QED
  BY <1>3, <1>4 DEF DigitChanged

\* A text that bears an issued CPF or none, read right or wrong in a digit.
LEMMA CPFKept ==
  ASSUME NEW s \in Identifier, NEW t,
         DigitsOnly(s) = Absent \/ IssuedCPF(DigitsOnly(s)),
         t = s \/ (misread /\ t \in Misread(s))
  PROVE  Refused("cpf", s, CPF(t))
<1>1. Len(s) \in Nat /\ DOMAIN s = 1 .. Len(s) /\ s = [j \in 1 .. Len(s) |-> s[j]]
  BY IdentifierType
<1>2. CPF(s) = DigitsOnly(s)
  BY <1>1, IssuedStored
<1>3. CASE t = s
  BY <1>2, <1>3 DEF Refused
<1>4. CASE misread /\ t \in Misread(s) /\ IssuedCPF(DigitsOnly(s))
  <2>1. \/ CPF(t) = DigitsOnly(s)
        \/ CPF(t) = Absent
        \/ /\ CPFSum1(DigitsOnly(s)) % 11 \in {0, 1}
           /\ \E i \in {1, 6} : \A j \in DOMAIN DigitsOnly(s) \ {i} :
                  CPF(t)[j] = DigitsOnly(s)[j]
    BY <1>1, <1>4, CPFRefused, Zenon
  <2> QED
    BY <1>4, <2>1 DEF Refused
<1>5. CASE misread /\ t \in Misread(s) /\ DigitsOnly(s) = Absent
  BY <1>1, <1>5, NoDigitToMisread
<1> QED
  BY <1>3, <1>4, <1>5

LEMMA CNPJKept ==
  ASSUME NEW s \in Identifier, NEW t,
         DigitsOnly(s) = Absent \/ IssuedCNPJ(DigitsOnly(s)),
         t = s \/ (misread /\ t \in Misread(s))
  PROVE  Refused("cnpj", s, CNPJ(t))
<1>1. Len(s) \in Nat /\ DOMAIN s = 1 .. Len(s) /\ s = [j \in 1 .. Len(s) |-> s[j]]
  BY IdentifierType
<1>2. CNPJ(s) = DigitsOnly(s)
  BY <1>1, IssuedStored
<1>3. CASE t = s
  BY <1>2, <1>3 DEF Refused
<1>4. CASE misread /\ t \in Misread(s) /\ IssuedCNPJ(DigitsOnly(s))
  <2>1. \/ CNPJ(t) = DigitsOnly(s)
        \/ CNPJ(t) = Absent
        \/ /\ CNPJSum1(DigitsOnly(s)) % 11 \in {0, 1}
           /\ \E i \in {1, 5, 9} : \A j \in DOMAIN DigitsOnly(s) \ {i} :
                  CNPJ(t)[j] = DigitsOnly(s)[j]
    BY <1>1, <1>4, CNPJRefused
  <2> QED
    BY <1>4, <2>1 DEF Refused
<1>5. CASE misread /\ t \in Misread(s) /\ DigitsOnly(s) = Absent
  BY <1>1, <1>5, NoDigitToMisread
<1> QED
  BY <1>3, <1>4, <1>5

LEMMA IdentityRefused ==
  ASSUME Inv, stage = "stored", paper.doc = "identity_document"
  PROVE  Refused("cpf", paper.fields.cpf, fields.cpf)
<1>1. PICK f : Answered(f) /\ fields = NormalizeResult(paper.doc, f)
  BY DEF Inv, Decoded
<1> DEFINE r == paper.fields
<1>2. /\ r \in IdentityResult /\ r.cpf \in Identifier
      /\ DigitsOnly(r.cpf) = Absent \/ IssuedCPF(DigitsOnly(r.cpf))
  BY PaperType, IssuedAssumption DEF Inv, IdentityResult
<1>3. Misreadings(paper) = {[r EXCEPT !.cpf = s] : s \in Misread(r.cpf)}
  BY Zenon DEF Misreadings
<1>4. /\ f.cpf = r.cpf \/ (misread /\ f.cpf \in Misread(r.cpf))
      /\ DOMAIN f = {"tipo", "cpf", "numero_documento", "data_nascimento", "validade"}
  <2>1. CASE f = r
    BY <2>1, <1>2 DEF IdentityResult
  <2>2. CASE misread /\ f \in Misreadings(paper)
    <3>1. PICK s \in Misread(r.cpf) : f = [r EXCEPT !.cpf = s]
      BY <2>2, <1>3
    <3> QED
      BY <2>2, <3>1, <1>2 DEF IdentityResult
  <2> QED
    BY <1>1, <2>1, <2>2 DEF Answered
<1>5. fields = NormalizeIdentity(f)
  BY <1>1 DEF NormalizeResult
<1>6. fields.cpf = CPF(f.cpf)
  BY <1>4, <1>5 DEF NormalizeIdentity
<1>7. Refused("cpf", r.cpf, CPF(f.cpf))
  BY <1>2, <1>4, CPFKept
<1> QED
  BY <1>6, <1>7

LEMMA InvoiceRefused ==
  ASSUME Inv, stage = "stored", paper.doc = "invoice_nf"
  PROVE  /\ Refused("cnpj", paper.fields.emitente.cnpj, fields.emitente.cnpj)
         /\ Refused("cpf", paper.fields.destinatario.cpf, fields.destinatario.cpf)
<1>1. PICK f : Answered(f) /\ fields = NormalizeResult(paper.doc, f)
  BY DEF Inv, Decoded
<1> DEFINE r == paper.fields
<1>2. /\ r \in InvoiceResult /\ r.emitente \in Party /\ r.destinatario \in Party
      /\ DigitsOnly(r.emitente.cnpj) = Absent \/ IssuedCNPJ(DigitsOnly(r.emitente.cnpj))
      /\ DigitsOnly(r.destinatario.cpf) = Absent \/ IssuedCPF(DigitsOnly(r.destinatario.cpf))
  BY PaperType, IssuedAssumption DEF Inv, InvoiceResult
<1>3. r.emitente.cnpj \in Identifier /\ r.destinatario.cpf \in Identifier
  BY <1>2 DEF Party
<1>4. Misreadings(paper) = {[r EXCEPT !.emitente.cnpj = s] : s \in Misread(r.emitente.cnpj)}
  BY DEF Misreadings
<1>5. /\ \/ f.emitente.cnpj = r.emitente.cnpj
         \/ misread /\ f.emitente.cnpj \in Misread(r.emitente.cnpj)
      /\ f.destinatario = r.destinatario
      /\ DOMAIN f = {"emitente", "destinatario", "data_emissao"}
      /\ DOMAIN f.emitente = {"cnpj", "cpf"}
  <2>1. CASE f = r
    BY <2>1, <1>2 DEF InvoiceResult, Party
  <2>2. CASE misread /\ f \in Misreadings(paper)
    <3>1. PICK s \in Misread(r.emitente.cnpj) : f = [r EXCEPT !.emitente.cnpj = s]
      BY <2>2, <1>4
    <3> QED
      BY <2>2, <3>1, <1>2 DEF InvoiceResult, Party
  <2> QED
    BY <1>1, <2>1, <2>2 DEF Answered
<1>6. fields = NormalizeInvoice(f)
  BY <1>1 DEF NormalizeResult
<1>7. /\ fields.emitente = NormalizeParty(f.emitente)
      /\ fields.destinatario = NormalizeParty(r.destinatario)
  BY <1>5, <1>6 DEF NormalizeInvoice
<1>8. /\ fields.emitente.cnpj = CNPJ(f.emitente.cnpj)
      /\ fields.destinatario.cpf = CPF(r.destinatario.cpf)
  BY <1>2, <1>5, <1>7 DEF NormalizeParty, Party
<1>9. Refused("cnpj", r.emitente.cnpj, CNPJ(f.emitente.cnpj))
  BY <1>2, <1>3, <1>5, CNPJKept
<1>10. Refused("cpf", r.destinatario.cpf, CPF(r.destinatario.cpf))
  BY <1>2, <1>3, CPFKept
<1> QED
  BY <1>8, <1>9, <1>10

\* Whatever papers are processed, a misread digit of an identifier is refused
\* by ValidCPF or ValidCNPJ unless it is one that the check digits do not
\* protect, and an identifier that was read as printed is stored.
THEOREM MisreadsRefused == Spec => []MisreadRefused
<1>1. Inv => MisreadRefused
  <2> SUFFICES ASSUME Inv, stage = "stored", NEW id \in Identifiers
               PROVE  Refused(id[1], id[2], id[3])
    BY Zenon DEF MisreadRefused, Refused
  <2>1. CASE paper.doc = "identity_document"
    <3>1. Identifiers = {<<"cpf", paper.fields.cpf, fields.cpf>>}
      BY <2>1, Zenon DEF Identifiers
    <3> QED
      BY <2>1, <3>1, IdentityRefused
  <2>2. CASE paper.doc = "invoice_nf"
    <3>1. Identifiers = {<<"cnpj", paper.fields.emitente.cnpj, fields.emitente.cnpj>>,
                         <<"cpf", paper.fields.destinatario.cpf, fields.destinatario.cpf>>}
      BY <2>2 DEF Identifiers
    <3> QED
      BY <2>2, <3>1, InvoiceRefused
  <2>3. CASE paper.doc \notin {"identity_document", "invoice_nf"}
    BY <2>3 DEF Identifiers
  <2> QED
    BY <2>1, <2>2, <2>3
<1> QED
  BY <1>1, AlwaysInv, PTL

-----------------------------------------------------------------------------
(***************************************************************************)
(* The dates of a curriculum                                               *)
(***************************************************************************)

\* What a layout of a month and a year reads.
LEMMA ParseMonth ==
  ASSUME NEW layout, NEW s, Len(layout) = 3, DOMAIN layout = 1 .. 3, Len(s) = 3,
         NEW iy \in {1, 3}, NEW im \in {1, 3}, iy # im, Elements(layout[iy]) = "year",
         Elements(layout[im]) = "month", Elements(layout[2]) = "mark"
  PROVE  Parse(layout, s) =
           IF (\A i \in 1 .. 3 : Fits(layout[i], s[i])) /\ s[im].v \in 1 .. 12
           THEN Day(Year(s[iy]), s[im].v, 1) ELSE NoDate
<1> DEFINE at(kind) == {i \in DOMAIN layout : Elements(layout[i]) = kind}
           val(kind) == s[CHOOSE i \in at(kind) : TRUE]
           y == Year(val("year"))
           m == val("month").v
           d == IF at("day") = {} THEN 1 ELSE val("day").v
           fails == Len(s) # Len(layout) \/ \E i \in DOMAIN layout : ~Fits(layout[i], s[i])
<1>1. Parse(layout, s) = IF fails THEN NoDate
                         ELSE IF m \in 1..12 /\ d \in 1..DaysIn(m, y)
                         THEN Day(y, m, d) ELSE NoDate
  BY Zenon DEF Parse, Day
<1>2. 1 .. 3 = {1, 2, 3}
  OBVIOUS
<1>3. at("year") = {iy} /\ at("month") = {im} /\ at("day") = {}
  BY <1>2
<1>4. y = Year(s[iy]) /\ m = s[im].v /\ d = 1
  <2>1. /\ (CHOOSE i \in at("year") : TRUE) = iy
        /\ (CHOOSE i \in at("month") : TRUE) = im
    <3> HIDE DEF at
    <3> QED
      BY <1>3
  <2> HIDE DEF at
  <2>2. val("year") = s[iy] /\ val("month") = s[im]
    BY <2>1
  <2> HIDE DEF val
  <2> QED
    BY <1>3, <2>2
<1>5. \A k, l : 1 \in 1 .. DaysIn(k, l)
  BY DEF DaysIn
<1>6. fails <=> ~\A i \in 1 .. 3 : Fits(layout[i], s[i])
  BY Zenon
<1> HIDE DEF y, m, d, fails
<1>7. CASE fails
  BY <1>1, <1>6, <1>7, Zenon
<1>8. CASE ~fails
  BY <1>1, <1>4, <1>5, <1>6, <1>8, Zenon
<1> QED
  BY <1>7, <1>8

\* The layouts of normalizeCVDate, with the year first, with numbers, and with
\* a name.
LEMMA MonthShapes ==
  /\ DOMAIN MonthLayouts = 1 .. 10
  /\ \A i \in 1 .. 10 :
         /\ Len(MonthLayouts[i]) = 3 /\ DOMAIN MonthLayouts[i] = 1 .. 3
         /\ MonthLayouts[i][2] \in {"/", " "}
         /\ \/ MonthLayouts[i][1] = "2006" /\ MonthLayouts[i][3] \in {"01", "1"}
            \/ MonthLayouts[i][1] \in {"01", "1"} /\ MonthLayouts[i][3] \in {"2006", "06"}
            \/ MonthLayouts[i][1] \in {"January", "Jan"} /\ MonthLayouts[i][3] = "2006"
  /\ MonthLayouts[1] = <<"2006", "/", "01">>
<1>1. DOMAIN MonthLayouts = 1 .. 10 /\ 1 .. 10 = {1, 2, 3, 4, 5, 6, 7, 8, 9, 10}
  BY DEF MonthLayouts
<1>2. /\ MonthLayouts[1] = <<"2006", "/", "01">> /\ MonthLayouts[2] = <<"2006", "/", "1">>
      /\ MonthLayouts[3] = <<"01", "/", "2006">> /\ MonthLayouts[4] = <<"1", "/", "2006">>
      /\ MonthLayouts[5] = <<"01", "/", "06">> /\ MonthLayouts[6] = <<"1", "/", "06">>
      /\ MonthLayouts[7] = <<"January", " ", "2006">> /\ MonthLayouts[8] = <<"Jan", " ", "2006">>
      /\ MonthLayouts[9] = <<"January", "/", "2006">> /\ MonthLayouts[10] = <<"Jan", "/", "2006">>
  BY DEF MonthLayouts
<1>4. \A i \in 1 .. 10 : \E e1, e2, e3 :
         /\ MonthLayouts[i] = <<e1, e2, e3>> /\ e2 \in {"/", " "}
         /\ \/ e1 = "2006" /\ e3 \in {"01", "1"}
            \/ e1 \in {"01", "1"} /\ e3 \in {"2006", "06"}
            \/ e1 \in {"January", "Jan"} /\ e3 = "2006"
  BY <1>1, <1>2
<1>5. ASSUME NEW i \in 1 .. 10
      PROVE  /\ Len(MonthLayouts[i]) = 3 /\ DOMAIN MonthLayouts[i] = 1 .. 3
             /\ MonthLayouts[i][2] \in {"/", " "}
             /\ \/ MonthLayouts[i][1] = "2006" /\ MonthLayouts[i][3] \in {"01", "1"}
                \/ MonthLayouts[i][1] \in {"01", "1"} /\ MonthLayouts[i][3] \in {"2006", "06"}
                \/ MonthLayouts[i][1] \in {"January", "Jan"} /\ MonthLayouts[i][3] = "2006"
  <2>1. PICK e1, e2, e3 :
           /\ MonthLayouts[i] = <<e1, e2, e3>> /\ e2 \in {"/", " "}
           /\ \/ e1 = "2006" /\ e3 \in {"01", "1"}
              \/ e1 \in {"01", "1"} /\ e3 \in {"2006", "06"}
              \/ e1 \in {"January", "Jan"} /\ e3 = "2006"
    BY <1>4
  <2>2. /\ Len(MonthLayouts[i]) = 3 /\ DOMAIN MonthLayouts[i] = 1 .. 3
        /\ MonthLayouts[i][1] = e1 /\ MonthLayouts[i][2] = e2 /\ MonthLayouts[i][3] = e3
    <3>1. PICK l : l = MonthLayouts[i]
      OBVIOUS
    <3>2. l = <<e1, e2, e3>>
      BY <2>1, <3>1
    <3>3. Len(l) = 3 /\ DOMAIN l = 1 .. 3 /\ l[1] = e1 /\ l[2] = e2 /\ l[3] = e3
      BY <3>2
    <3> QED
      BY <3>1, <3>3
  <2> QED
    BY <2>1, <2>2, Zenon
<1> QED
  BY <1>1, <1>2, <1>5

LEMMA PtShapes ==
  /\ DOMAIN PtLayouts = 1 .. 2
  /\ \A i \in 1 .. 2 :
         /\ Len(PtLayouts[i]) = 3 /\ DOMAIN PtLayouts[i] = 1 .. 3
         /\ PtLayouts[i][1] \in {"January", "Jan"} /\ PtLayouts[i][2] = " "
         /\ PtLayouts[i][3] = "2006"
BY DEF PtLayouts

LEMMA ReadByOne ==
  ASSUME NEW n \in Nat, NEW layouts, DOMAIN layouts = 1 .. n, NEW t,
         FirstReading(layouts, t) # NoDate
  PROVE  \E i \in 1 .. n : Parse(layouts[i], t) = FirstReading(layouts, t)
BY FirstThatParses

LEMMA FirstOne ==
  ASSUME NEW n \in Nat, NEW layouts, DOMAIN layouts = 1 .. n, NEW t, NEW k \in 1 .. n,
         Parse(layouts[k], t) # NoDate, \A j \in 1 .. n : ~(j < k)
  PROVE  FirstReading(layouts, t) = Parse(layouts[k], t)
<1>1. PICK R : R = FirstReading(layouts, t)
  OBVIOUS
<1>2. \/ R = NoDate /\ \A i \in 1 .. n : Parse(layouts[i], t) = NoDate
      \/ \E i \in 1 .. n : /\ Parse(layouts[i], t) = R
                            /\ \A j \in 1 .. n : j < i => Parse(layouts[j], t) = NoDate
  BY <1>1, FirstThatParses
<1>3. PICK i \in 1 .. n : /\ Parse(layouts[i], t) = R
                          /\ \A j \in 1 .. n : j < i => Parse(layouts[j], t) = NoDate
  BY <1>2, Zenon
<1>4. i = k
  <2>1. ~(k < i)
    BY <1>3, Zenon
  <2>2. ~(i < k)
    OBVIOUS
  <2> QED
    BY <2>1, <2>2
<1> QED
  BY <1>1, <1>3, <1>4, Zenon

LEMMA ReadingIsMonth ==
  ASSUME NEW n \in Nat, NEW layouts, DOMAIN layouts = 1 .. n, NEW t,
         FirstReading(layouts, t) # NoDate
  PROVE  FirstReading(layouts, t).m \in 1 .. 12
<1>1. PICK i \in 1 .. n : Parse(layouts[i], t) = FirstReading(layouts, t)
  BY FirstThatParses
<1>2. PICK y, m, d : FirstReading(layouts, t) = Day(y, m, d) /\ m \in 1 .. 12
  BY <1>1, ParseIsDay
<1> QED
  BY <1>2 DEF Day

\* Every month that normalizeCVDate reads is one of the calendar.
LEMMA MonthOfIsMonth ==
  ASSUME NEW s, MonthOf(s) # NoDate PROVE MonthOf(s).m \in 1 .. 12
<1>1. 10 \in Nat /\ 2 \in Nat
  OBVIOUS
<1> DEFINE numeric == FirstReading(MonthLayouts, Slashed(s))
           pt == PtReadings(Slashed(s))
<1>2. MonthOf(s) = IF numeric # NoDate THEN numeric
                   ELSE IF pt # {} THEN CHOOSE date \in pt : TRUE ELSE NoDate
  BY Zenon DEF MonthOf
<1>3. CASE numeric # NoDate
  <2>1. MonthOf(s) = numeric
    BY <1>2, <1>3, Zenon
  <2>2. numeric.m \in 1 .. 12
    BY <1>1, <1>3, MonthShapes, ReadingIsMonth, Zenon
  <2> QED
    BY <2>1, <2>2
<1>4. CASE numeric = NoDate
  <2>1. pt # {} /\ MonthOf(s) \in pt
    BY <1>2, <1>4, Zenon
  <2>2. PICK p : MonthOf(s) = FirstReading(PtLayouts, PtTry(Slashed(s), p))
    BY <2>1, Zenon DEF PtReadings
  <2>3. FirstReading(PtLayouts, PtTry(Slashed(s), p)).m \in 1 .. 12
    BY <1>1, <2>2, PtShapes, ReadingIsMonth, Zenon
  <2> QED
    BY <2>2, <2>3
<1> QED
  BY <1>3, <1>4

\* A text without a space, of other than five tokens, is no day.
LEMMA NoDay ==
  ASSUME NEW s, NEW n \in Nat, n # 5, DOMAIN s = 1 .. n,
         \A i \in 1 .. n : s[i].t # " "
  PROVE  DateToISO(s) = Absent
<1> DEFINE q == Slashed(s)
           sp == {i \in DOMAIN q : q[i].t = " "}
<1>1. q = [i \in 1 .. n |-> IF s[i].t \in {".", "-"} THEN Mark("/") ELSE s[i]]
  BY DEF Slashed
<1>2. DOMAIN q = 1 .. n /\ Len(q) = n
  <2>1. q = [i \in 1 .. n |-> q[i]]
    BY <1>1
  <2> HIDE DEF q
  <2> QED
    BY <2>1, LengthOf
<1>3. sp = {}
  <2>1. Mark("/").t = "/"
    BY DEF Mark
  <2>2. \A i \in 1 .. n : q[i].t # " "
    BY <1>1, <2>1
  <2> HIDE DEF q
  <2> QED
    BY <1>2, <2>2
<1>4. BeforeSpace(q) = Absent
  <2>1. BeforeSpace(q) = IF sp = {} THEN Absent
                         ELSE SubSeq(q, 1, (CHOOSE i \in sp : \A j \in sp : i <= j) - 1)
    BY Zenon DEF BeforeSpace
  <2> HIDE DEF sp
  <2> QED
    BY <1>3, <2>1
<1>5. ASSUME NEW i \in 1 .. 6 PROVE Parse(DayLayouts[i], q) = NoDate
  <2>1. Len(DayLayouts[i]) = 5
    BY LayoutsOfFive
  <2>2. Len(q) # Len(DayLayouts[i])
    BY <1>2, <2>1
  <2> QED
    BY <2>2, WrongLength
<1>6. FirstReading(DayLayouts, q) = NoDate
  BY <1>5, FirstOfReadings
<1>7. DateOf(s) = NoDate
  BY <1>4, <1>6, NoDateInAbsent, Zenon DEF DateOf
<1> QED
  BY <1>7, Zenon DEF DateToISO

\* The form in which a month is stored is read back as that month ...
LEMMA YearMonthReadBack ==
  ASSUME NEW date, date.m \in 1 .. 12
  PROVE  NormalizeCVDate(YearMonth(date)) = YearMonth(date)
<1> DEFINE a == Num(date.y, 4)
           b == Num(date.m, 2)
           s == YearMonth(date)
           q == Slashed(s)
           layout == MonthLayouts[1]
           back == Day(date.y, date.m, 1)
<1>1. /\ a.t = "num" /\ a.v = date.y /\ a.w = 4 /\ b.t = "num" /\ b.v = date.m /\ b.w = 2
      /\ Mark("-").t = "-" /\ Mark("/").t = "/"
  BY DEF Num, Mark
<1>2. s = <<a, Mark("-"), b>>
  BY DEF YearMonth
<1> HIDE DEF a, b, s
<1>3. /\ DOMAIN s = 1 .. 3 /\ s[1] = a /\ s[2] = Mark("-") /\ s[3] = b
  BY <1>2
<1>4. 1 .. 3 = {1, 2, 3} /\ 3 \in Nat /\ 3 # 5 /\ 1 \in 1 .. 3 /\ 2 \in 1 .. 3 /\ 3 \in 1 .. 3
  OBVIOUS
<1>5. DateToISO(s) = Absent
  <2>1. \A i \in 1 .. 3 : s[i].t # " "
    BY <1>1, <1>3, <1>4
  <2> QED
    BY <1>3, <1>4, <2>1, NoDay
<1>6. Len(q) = 3 /\ q[1] = a /\ q[2] = Mark("/") /\ q[3] = b
  <2>1. q = [i \in 1 .. 3 |-> IF s[i].t \in {".", "-"} THEN Mark("/") ELSE s[i]]
    BY <1>3 DEF Slashed
  <2>2. q = [i \in 1 .. 3 |-> q[i]]
    BY <2>1
  <2> HIDE DEF q
  <2> QED
    BY <1>1, <1>3, <1>4, <2>1, <2>2, LengthOf
<1> HIDE DEF q
<1>7. /\ Len(layout) = 3 /\ DOMAIN layout = 1 .. 3
      /\ layout[1] = "2006" /\ layout[2] = "/" /\ layout[3] = "01"
  <2>1. layout = <<"2006", "/", "01">>
    BY MonthShapes, Zenon
  <2> HIDE DEF layout
  <2> QED
    BY <2>1
<1> HIDE DEF layout
<1>8. Elements("2006") = "year" /\ Elements("/") = "mark" /\ Elements("01") = "month"
  BY DEF Elements
<1>9. \A i \in 1 .. 3 : Fits(layout[i], q[i])
  <2>1. Widths("2006") = {4} /\ Widths("01") = {2}
    BY DEF Widths
  <2>2. Fits("2006", a) /\ Fits("/", Mark("/")) /\ Fits("01", b)
    BY <1>1, <2>1 DEF Fits
  <2> QED
    BY <1>4, <1>6, <1>7, <2>2
<1>10. Year(a) = date.y
  BY <1>1 DEF Year
<1>11. Parse(layout, q) = back
  <2>1. Parse(layout, q) =
          IF (\A i \in 1 .. 3 : Fits(layout[i], q[i])) /\ q[3].v \in 1 .. 12
          THEN Day(Year(q[1]), q[3].v, 1) ELSE NoDate
    BY <1>6, <1>7, <1>8, ParseMonth
  <2> QED
    BY <1>1, <1>6, <1>9, <1>10, <2>1
<1>12. back # NoDate
  BY DayIsDate
<1> HIDE DEF back
<1>13. FirstReading(MonthLayouts, q) = back
  <2>1. 10 \in Nat /\ DOMAIN MonthLayouts = 1 .. 10
    BY MonthShapes
  <2>2. 1 \in 1 .. 10 /\ Parse(MonthLayouts[1], q) = back
    BY <1>11 DEF layout
  <2>3. \A j \in 1 .. 10 : ~(j < 1)
    OBVIOUS
  <2>4. Parse(MonthLayouts[1], q) # NoDate
    BY <1>12, <2>2, Zenon
  <2>5. FirstReading(MonthLayouts, q) = Parse(MonthLayouts[1], q)
    BY <2>1, <2>2, <2>3, <2>4, FirstOne, Zenon
  <2> QED
    BY <2>2, <2>5, Zenon
<1>14. MonthOf(s) = back
  BY <1>12, <1>13, Zenon DEF MonthOf, q
<1>15. YearMonth(back) = s
  <2>1. back.y = date.y /\ back.m = date.m
    BY DEF back, Day
  <2> QED
    BY <2>1, Zenon DEF YearMonth, s
<1>16. NormalizeCVDate(s) = s
  BY <1>5, <1>12, <1>14, <1>15, Zenon DEF NormalizeCVDate
<1> QED
  BY <1>16 DEF s

LEMMA AbsentCVDate == NormalizeCVDate(Absent) = Absent
<1>1. DOMAIN Absent = 1 .. 0 /\ Len(Absent) = 0 /\ Slashed(Absent) = Absent
  BY DEF Absent, Slashed
<1>2. DateToISO(Absent) = Absent
  <2>1. 0 \in Nat /\ 0 # 5 /\ \A i \in 1 .. 0 : Absent[i].t # " "
    OBVIOUS
  <2> QED
    BY <1>1, <2>1, NoDay
<1>3. FirstReading(MonthLayouts, Absent) = NoDate
  <2>1. ASSUME NEW i \in 1 .. 10 PROVE Parse(MonthLayouts[i], Absent) = NoDate
    <3>1. Len(MonthLayouts[i]) = 3
      BY MonthShapes
    <3>2. Len(Absent) # Len(MonthLayouts[i])
      BY <1>1, <3>1
    <3> QED
      BY <3>2, WrongLength
  <2>2. 10 \in Nat /\ DOMAIN MonthLayouts = 1 .. 10
    BY MonthShapes
  <2> QED
    BY <2>1, <2>2, FirstThatParses
<1>4. PtReadings(Absent) = {}
  BY DEF PtReadings, Absent
<1>5. MonthOf(Absent) = NoDate
  BY <1>1, <1>3, <1>4, Zenon DEF MonthOf
<1> QED
  BY <1>2, <1>5, Zenon DEF NormalizeCVDate

\* ... so that normalizing a date of a curriculum again changes nothing.
THEOREM CVDateIdempotent ==
  ASSUME NEW s PROVE NormalizeCVDate(NormalizeCVDate(s)) = NormalizeCVDate(s)
<1>1. CASE DateToISO(s) # Absent
  BY <1>1, DateIdempotent, Zenon DEF NormalizeCVDate
<1>2. CASE DateToISO(s) = Absent /\ MonthOf(s) # NoDate
  <2>1. NormalizeCVDate(s) = YearMonth(MonthOf(s))
    BY <1>2, Zenon DEF NormalizeCVDate
  <2>2. MonthOf(s).m \in 1 .. 12
    BY <1>2, MonthOfIsMonth
  <2> QED
    BY <2>1, <2>2, YearMonthReadBack
<1>3. CASE DateToISO(s) = Absent /\ MonthOf(s) = NoDate
  <2>1. NormalizeCVDate(s) = Absent
    BY <1>3, Zenon DEF NormalizeCVDate
  <2> QED
    BY <2>1, AbsentCVDate
<1> QED
  BY <1>1, <1>2, <1>3

-----------------------------------------------------------------------------
(***************************************************************************)
(* Lists of strings                                                        *)
(***************************************************************************)

\* The keys of the items that are not blank.
Keys(items) == {items[i].key : i \in DOMAIN items} \ {""}

\* A list of n items of which none is blank and no two have the same key.
Tidy(items, n) ==
    /\ items = [k \in 1 .. n |-> items[k]]
    /\ \A k \in 1 .. n : items[k].key # ""
    /\ \A k, l \in 1 .. n : items[k].key = items[l].key => k = l

LEMMA Earlier ==
  ASSUME NEW n \in Nat, NEW a \in 1 .. n, NEW b \in 1 .. a - 1
  PROVE  b \in 1 .. n /\ ~(a <= b) /\ b # a
OBVIOUS

\* cleanStrings keeps an item of every key, at its first place.
LEMMA CleanPlace ==
  ASSUME NEW n \in Nat, NEW items, DOMAIN items = 1 .. n, NEW i \in 1 .. n,
         items[i].key # ""
  PROVE  \E j \in CleanPlaces(items) : items[j].key = items[i].key
<1> DEFINE J == {j \in 1 .. n : items[j].key = items[i].key}
<1>1. J \in SUBSET (1 .. n) /\ J # {}
  OBVIOUS
<1>2. PICK j \in J : \A k \in J : j <= k
  <2> HIDE DEF J
  <2> QED
    BY <1>1, FirstPlace
<1>3. j \in 1 .. n /\ items[j].key = items[i].key
  OBVIOUS
<1>4. ASSUME NEW k \in 1 .. j - 1 PROVE items[k].key # items[j].key
  <2>1. k \in 1 .. n /\ ~(j <= k)
    BY <1>3, Earlier, Zenon
  <2>2. k \notin J
    <3> HIDE DEF J
    <3> QED
      BY <1>2, <2>1
  <2> QED
    BY <2>1, <2>2, <1>3
<1>5. j \in CleanPlaces(items)
  BY <1>3, <1>4 DEF CleanPlaces
<1> QED
  BY <1>3, <1>5

\* What cleanStrings returns is tidy ...
LEMMA CleanIsTidy ==
  ASSUME NEW n \in Nat, NEW items, DOMAIN items = 1 .. n
  PROVE  \E c \in Nat : Tidy(CleanStrings(items), c)
<1> DEFINE I == CleanPlaces(items)
           c == Cardinality(I)
           out == CleanStrings(items)
<1>0. /\ I \in SUBSET (1 .. n)
      /\ \A i \in I : items[i].key # "" /\ \A j \in 1 .. i - 1 : items[j].key # items[i].key
  BY Zenon DEF CleanPlaces
<1> HIDE DEF I
<1>1. /\ I \in SUBSET (1 .. n)
      /\ \A i \in I : items[i].key # ""
      /\ \A i, j \in I : j < i => items[j].key # items[i].key
  <2>1. ASSUME NEW i \in I, NEW j \in I, j < i PROVE j \in 1 .. i - 1
    <3>1. i \in 1 .. n /\ j \in 1 .. n
      BY <1>0
    <3> QED
      BY <2>1, <3>1
  <2> QED
    BY <1>0, <2>1, Zenon
<1>2. /\ c \in Nat
      /\ InOrder(I) \in [1 .. c -> I]
      /\ \A k, l \in 1 .. c : k < l => InOrder(I)[k] < InOrder(I)[l]
  <2>1. CountedOff(I)
    BY <1>1, OrderedPlaces
  <2> QED
    BY <2>1 DEF CountedOff
<1>3. out = [k \in 1 .. c |-> items[InOrder(I)[k]]]
  BY DEF CleanStrings, EntriesAt, I
<1> HIDE DEF c, out
<1>4. ASSUME NEW k \in 1 .. c, NEW l \in 1 .. c, k < l PROVE out[k].key # out[l].key
  BY <1>1, <1>2, <1>3, <1>4
<1>5. ASSUME NEW k \in 1 .. c, NEW l \in 1 .. c, out[k].key = out[l].key PROVE k = l
  <2>1. k < l \/ l < k \/ k = l
    BY <1>2
  <2> QED
    BY <1>4, <1>5, <2>1
<1>6. \A k \in 1 .. c : out[k].key # ""
  BY <1>1, <1>2, <1>3
<1>7. out = [k \in 1 .. c |-> out[k]]
  BY <1>3
<1>8. Tidy(out, c)
  BY <1>5, <1>6, <1>7 DEF Tidy
<1> QED
  BY <1>2, <1>8 DEF out

\* ... and of a tidy list it keeps every item.
LEMMA TidyStays ==
  ASSUME NEW n \in Nat, NEW items, Tidy(items, n)
  PROVE  CleanPlaces(items) = 1 .. n /\ CleanStrings(items) = items
<1>1. /\ items = [k \in 1 .. n |-> items[k]] /\ DOMAIN items = 1 .. n
      /\ \A k \in 1 .. n : items[k].key # ""
      /\ \A k, l \in 1 .. n : items[k].key = items[l].key => k = l
  BY LengthOf DEF Tidy
<1>2. ASSUME NEW i \in 1 .. n, NEW j \in 1 .. i - 1 PROVE items[j].key # items[i].key
  <2>1. j \in 1 .. n /\ j # i
    OBVIOUS
  <2> QED
    BY <1>1, <2>1
<1>3. CleanPlaces(items) = 1 .. n
  BY <1>1, <1>2, Zenon DEF CleanPlaces
<1>4. EntriesAt(items, 1 .. n) = items
  BY <1>1, FilterAll
<1> QED
  BY <1>3, <1>4 DEF CleanStrings

LEMMA CleanStringsTwice ==
  ASSUME NEW n \in Nat, NEW items, DOMAIN items = 1 .. n
  PROVE  CleanStrings(CleanStrings(items)) = CleanStrings(items)
BY CleanIsTidy, TidyStays

\* A tidy list has as many keys as items.
LEMMA TidyCount ==
  ASSUME NEW n \in Nat, NEW items, Tidy(items, n)
  PROVE  Cardinality(Keys(items)) = Len(items)
<1>1. /\ items = [k \in 1 .. n |-> items[k]] /\ DOMAIN items = 1 .. n /\ Len(items) = n
      /\ \A k \in 1 .. n : items[k].key # ""
      /\ \A k, l \in 1 .. n : items[k].key = items[l].key => k = l
  BY LengthOf DEF Tidy
<1> DEFINE f == [k \in 1 .. n |-> items[k].key]
           K == Keys(items)
<1>2. K = {items[k].key : k \in 1 .. n}
  <2>1. Keys(items) = {items[k].key : k \in 1 .. n} \ {""}
    BY <1>1, Zenon DEF Keys
  <2>2. "" \notin {items[k].key : k \in 1 .. n}
    BY <1>1, Zenon
  <2> QED
    BY <2>1, <2>2, Zenon
<1>3. f \in Surjection(1 .. n, K) /\ f \in Injection(1 .. n, K)
  BY <1>1, <1>2 DEF Surjection, Injection, IsInjective
<1>4. IsFiniteSet(1 .. n) /\ Cardinality(1 .. n) = n
  BY FS_Interval
<1> HIDE DEF f, K
<1>5. Cardinality(K) = Cardinality(1 .. n)
  BY <1>3, <1>4, FS_Surjection
<1> QED
  BY <1>1, <1>4, <1>5 DEF K

-----------------------------------------------------------------------------
(***************************************************************************)
(* The skills of a curriculum                                              *)
(***************************************************************************)

\* Item i of group g is the first of its key in the groups of a category.
FirstOf(skills, cat, g, i) ==
    /\ g \in InCategory(skills, cat) /\ i \in CleanPlaces(skills[g].items)
    /\ \A h \in InCategory(skills, cat) : h < g =>
           \A j \in DOMAIN skills[h].items :
               skills[h].items[j].key # skills[g].items[i].key

LEMMA MergedPlace ==
  ASSUME NEW skills, NEW cat
  PROVE  /\ \A p \in MergedPlaces(skills, cat) :
                p = <<p[1], p[2]>> /\ FirstOf(skills, cat, p[1], p[2])
         /\ \A g, i : FirstOf(skills, cat, g, i) => <<g, i>> \in MergedPlaces(skills, cat)
<1> DEFINE U == UNION {{g} \X CleanPlaces(skills[g].items) : g \in InCategory(skills, cat)}
<1>1. ASSUME NEW p \in MergedPlaces(skills, cat)
      PROVE  p = <<p[1], p[2]>> /\ FirstOf(skills, cat, p[1], p[2])
  <2>1. /\ p \in U
        /\ \A h \in InCategory(skills, cat) : h < p[1] =>
               \A j \in DOMAIN skills[h].items :
                   skills[h].items[j].key # skills[p[1]].items[p[2]].key
    BY <1>1, Zenon DEF MergedPlaces
  <2>2. PICK g \in InCategory(skills, cat) : p \in {g} \X CleanPlaces(skills[g].items)
    BY <2>1, Zenon
  <2>3. p = <<p[1], p[2]>> /\ p[1] = g /\ p[2] \in CleanPlaces(skills[g].items)
    BY <2>2
  <2> QED
    BY <2>1, <2>2, <2>3, Zenon DEF FirstOf
<1>2. ASSUME NEW g, NEW i, FirstOf(skills, cat, g, i)
      PROVE  <<g, i>> \in MergedPlaces(skills, cat)
  <2> DEFINE p == <<g, i>>
  <2>1. p[1] = g /\ p[2] = i /\ p \in {g} \X {i}
    OBVIOUS
  <2>2. g \in InCategory(skills, cat) /\ i \in CleanPlaces(skills[g].items)
    BY <1>2, Zenon DEF FirstOf
  <2>3. p \in {g} \X CleanPlaces(skills[g].items)
    BY <2>2
  <2> HIDE DEF p
  <2>4. p \in U
    BY <2>2, <2>3
  <2>5. \A h \in InCategory(skills, cat) : h < p[1] =>
            \A j \in DOMAIN skills[h].items :
                skills[h].items[j].key # skills[p[1]].items[p[2]].key
    BY <1>2, <2>1, Zenon DEF FirstOf
  <2>6. p \in MergedPlaces(skills, cat)
    BY <2>4, <2>5, Zenon DEF MergedPlaces
  <2> QED
    BY <2>6 DEF p
<1> QED
  BY <1>1, <1>2

LEMMA InCategoryType ==
  ASSUME NEW skills \in Seq(SkillGroup), NEW cat
  PROVE  /\ InCategory(skills, cat) \in SUBSET (1 .. Len(skills))
         /\ Len(skills) \in Nat /\ DOMAIN skills = 1 .. Len(skills)
         /\ \A g \in 1 .. Len(skills) :
                /\ skills[g].items \in Strings
                /\ Len(skills[g].items) \in Nat
                /\ DOMAIN skills[g].items = 1 .. Len(skills[g].items)
                /\ CleanPlaces(skills[g].items) \in SUBSET DOMAIN skills[g].items
<1>1. Len(skills) \in Nat /\ DOMAIN skills = 1 .. Len(skills)
  BY LenProperties
<1>2. InCategory(skills, cat) \in SUBSET (1 .. Len(skills))
  BY <1>1, Zenon DEF InCategory
<1>3. ASSUME NEW g \in 1 .. Len(skills)
      PROVE  /\ skills[g].items \in Strings
             /\ Len(skills[g].items) \in Nat
             /\ DOMAIN skills[g].items = 1 .. Len(skills[g].items)
             /\ CleanPlaces(skills[g].items) \in SUBSET DOMAIN skills[g].items
  <2>1. PICK it : it = skills[g].items
    OBVIOUS
  <2>2. it \in Strings
    BY <2>1, ItemsOfType
  <2>3. Len(it) \in Nat /\ DOMAIN it = 1 .. Len(it)
    BY <2>2, LenProperties DEF Strings
  <2>4. CleanPlaces(it) \in SUBSET DOMAIN it
    BY Zenon DEF CleanPlaces
  <2> QED
    BY <2>1, <2>2, <2>3, <2>4, Zenon
<1> QED
  BY <1>1, <1>2, <1>3

\* The places that are merged: two of them do not hold the same key.
LEMMA MergedApart ==
  ASSUME NEW skills \in Seq(SkillGroup), NEW cat,
         NEW p \in MergedPlaces(skills, cat), NEW q \in MergedPlaces(skills, cat),
         skills[p[1]].items[p[2]].key = skills[q[1]].items[q[2]].key
  PROVE  p = q
<1>0. PICK g, i, h, j : g = p[1] /\ i = p[2] /\ h = q[1] /\ j = q[2]
  OBVIOUS
<1>1. p = <<g, i>> /\ q = <<h, j>>
  BY <1>0, MergedPlace, Zenon
<1>2. FirstOf(skills, cat, g, i) /\ FirstOf(skills, cat, h, j)
  BY <1>0, MergedPlace, Zenon
<1>3. skills[g].items[i].key = skills[h].items[j].key
  BY <1>0, Zenon
<1>4. /\ g \in InCategory(skills, cat) /\ h \in InCategory(skills, cat)
      /\ g \in 1 .. Len(skills) /\ h \in 1 .. Len(skills) /\ Len(skills) \in Nat
      /\ i \in CleanPlaces(skills[g].items) /\ j \in CleanPlaces(skills[h].items)
      /\ i \in DOMAIN skills[g].items /\ j \in DOMAIN skills[h].items
  BY <1>2, InCategoryType, Zenon DEF FirstOf
<1>5. g < h \/ h < g \/ g = h
  BY <1>4
<1>6. ~(g < h) /\ ~(h < g)
  BY <1>2, <1>3, <1>4, Zenon DEF FirstOf
<1>7. g = h
  BY <1>5, <1>6
<1>8. PICK it : it = skills[g].items
  OBVIOUS
<1>n. PICK n \in Nat : DOMAIN it = 1 .. n
  BY <1>4, <1>8, InCategoryType, Zenon
<1>9. /\ i \in 1 .. n /\ j \in 1 .. n /\ it[i].key = it[j].key
      /\ \A k \in 1 .. i - 1 : it[k].key # it[i].key
      /\ \A k \in 1 .. j - 1 : it[k].key # it[j].key
  BY <1>3, <1>4, <1>7, <1>8, <1>n, Zenon DEF CleanPlaces
<1>10. i \in 1 .. j - 1 \/ j \in 1 .. i - 1 \/ i = j
  <2>1. i \in 1 .. n /\ j \in 1 .. n
    BY <1>9
  <2> QED
    BY <2>1
<1>11. i = j
  BY <1>9, <1>10, Zenon
<1> QED
  BY <1>1, <1>7, <1>11

\* What is merged: items of the groups, each place once.
LEMMA MergedItems ==
  ASSUME NEW skills \in Seq(SkillGroup), NEW cat
  PROVE  /\ MergedPlaces(skills, cat) \in SUBSET (Nat \X Nat)
         /\ IsFiniteSet(MergedPlaces(skills, cat))
         /\ Merged(skills, cat) \in Strings
         /\ \A p \in MergedPlaces(skills, cat) :
                ItemsOf(skills)[p[1]][p[2]] = skills[p[1]].items[p[2]]
<1> DEFINE P == MergedPlaces(skills, cat)
           lists == ItemsOf(skills)
<1>1. Len(skills) \in Nat /\ lists \in [1 .. Len(skills) -> Seq([key : STRING, spelling : STRING])]
  BY ItemsOfType DEF Strings
<1>2. /\ InCategory(skills, cat) \in SUBSET (1 .. Len(skills))
      /\ \A g \in 1 .. Len(skills) :
             /\ lists[g] = skills[g].items
             /\ CleanPlaces(skills[g].items) \in SUBSET DOMAIN skills[g].items
  BY InCategoryType, ItemsOfType, Zenon
<1>3. ASSUME NEW p \in P
      PROVE  /\ p = <<p[1], p[2]>> /\ p[1] \in 1 .. Len(skills)
             /\ p[2] \in DOMAIN skills[p[1]].items /\ lists[p[1]] = skills[p[1]].items
  BY <1>2, MergedPlace, Zenon DEF FirstOf
<1>4. P \in SUBSET Places(lists)
  <2>1. DOMAIN lists = 1 .. Len(skills)
    BY <1>1
  <2> HIDE DEF P, lists
  <2>2. ASSUME NEW p \in P PROVE p \in Places(lists)
    <3>1. PICK g \in DOMAIN lists : g = p[1]
      BY <1>3, <2>1
    <3>2. p = <<g, p[2]>> /\ p[2] \in DOMAIN lists[g]
      BY <1>3, <3>1, Zenon
    <3>3. p \in {g} \X DOMAIN lists[g]
      BY <3>2
    <3> QED
      BY <3>3 DEF Places
  <2> QED
    BY <2>2
<1>5. P \in SUBSET (Nat \X Nat) /\ IsFiniteSet(P) /\ ItemsAt(lists, P) \in Strings
  <2> HIDE DEF P, lists
  <2> QED
    BY <1>1, <1>4, GatheredType, Zenon DEF Strings
<1> QED
  BY <1>3, <1>5, Zenon DEF Merged

\* The items of a category are tidy ...
LEMMA MergedTidy ==
  ASSUME NEW skills \in Seq(SkillGroup), NEW cat
  PROVE  /\ Tidy(Merged(skills, cat), Cardinality(MergedPlaces(skills, cat)))
         /\ Cardinality(MergedPlaces(skills, cat)) \in Nat
<1> DEFINE P == MergedPlaces(skills, cat)
           c == Cardinality(P)
           q == PairsInOrder(P)
           m == Merged(skills, cat)
<1>1. /\ P \in SUBSET (Nat \X Nat) /\ IsFiniteSet(P)
      /\ \A p \in P : ItemsOf(skills)[p[1]][p[2]] = skills[p[1]].items[p[2]]
  BY MergedItems
<1>2. /\ c \in Nat /\ q \in [1 .. c -> P]
      /\ \A k \in 1 .. c : Cardinality({p \in P : UpTo(p, q[k])}) = k
  <2> HIDE DEF P
  <2> QED
    BY <1>1, OrderedPairs, Zenon
<1>3. m = [k \in 1 .. c |-> ItemsOf(skills)[q[k][1]][q[k][2]]]
  BY DEF Merged, ItemsAt
<1> HIDE DEF P, c, q, m
<1>4. \A k \in 1 .. c : q[k] \in P
  BY <1>2
<1>5. \A k \in 1 .. c : m[k] = skills[q[k][1]].items[q[k][2]]
  <2>1. \A k \in 1 .. c : m[k] = ItemsOf(skills)[q[k][1]][q[k][2]]
    BY <1>3
  <2> QED
    BY <1>1, <1>4, <2>1, Zenon
<1>6. ASSUME NEW k \in 1 .. c PROVE m[k].key # ""
  <2>1. PICK p : p = q[k]
    OBVIOUS
  <2>2. p \in P /\ m[k] = skills[p[1]].items[p[2]]
    BY <1>4, <1>5, <2>1, Zenon
  <2>3. p[2] \in CleanPlaces(skills[p[1]].items)
    BY <2>2, MergedPlace, Zenon DEF P, FirstOf
  <2>4. skills[p[1]].items[p[2]].key # ""
    BY <2>3, Zenon DEF CleanPlaces
  <2> QED
    BY <2>2, <2>4, Zenon
<1>7. ASSUME NEW k \in 1 .. c, NEW l \in 1 .. c, m[k].key = m[l].key PROVE k = l
  <2>1. q[k] = q[l]
    BY <1>4, <1>5, <1>7, MergedApart, Zenon DEF P
  <2> QED
    BY <1>2, <2>1, Zenon
<1>8. m = [k \in 1 .. c |-> m[k]]
  BY <1>3
<1>9. Tidy(m, c)
  BY <1>6, <1>7, <1>8, Zenon DEF Tidy
<1> QED
  BY <1>2, <1>9 DEF m, c, P

\* ... and have the keys of its groups.
LEMMA MergedKeys ==
  ASSUME NEW skills \in Seq(SkillGroup), NEW cat
  PROVE  Keys(Merged(skills, cat))
           = UNION {Keys(skills[g].items) : g \in InCategory(skills, cat)}
<1> DEFINE P == MergedPlaces(skills, cat)
           c == Cardinality(P)
           m == Merged(skills, cat)
           G == InCategory(skills, cat)
<1>1. /\ P \in SUBSET (Nat \X Nat) /\ IsFiniteSet(P)
      /\ \A p \in P : ItemsOf(skills)[p[1]][p[2]] = skills[p[1]].items[p[2]]
  BY MergedItems
<1>2. /\ DOMAIN m = 1 .. c
      /\ \A k \in 1 .. c : \E p \in P : m[k] = ItemsOf(skills)[p[1]][p[2]]
      /\ \A p \in P : \E k \in 1 .. c : m[k] = ItemsOf(skills)[p[1]][p[2]]
  <2>1. PICK lists : lists = ItemsOf(skills)
    OBVIOUS
  <2>2. m = ItemsAt(lists, P)
    BY <2>1 DEF Merged
  <2> HIDE DEF P, m
  <2>3. /\ DOMAIN ItemsAt(lists, P) = 1 .. c
        /\ \A k \in 1 .. c : \E p \in P : ItemsAt(lists, P)[k] = lists[p[1]][p[2]]
        /\ \A p \in P : \E k \in 1 .. c : ItemsAt(lists, P)[k] = lists[p[1]][p[2]]
    BY <1>1, Gathered
  <2> QED
    BY <2>1, <2>2, <2>3, Zenon
<1>3. /\ \A k \in 1 .. c : \E p \in P : m[k] = skills[p[1]].items[p[2]]
      /\ \A p \in P : \E k \in 1 .. c : m[k] = skills[p[1]].items[p[2]]
  BY <1>1, <1>2, Zenon
<1>4. /\ G \in SUBSET (1 .. Len(skills)) /\ Len(skills) \in Nat
      /\ \A g \in G : /\ Len(skills[g].items) \in Nat
                      /\ DOMAIN skills[g].items = 1 .. Len(skills[g].items)
                      /\ CleanPlaces(skills[g].items) \in SUBSET DOMAIN skills[g].items
  BY InCategoryType, Zenon
<1> HIDE DEF c, m, G, P
<1>5. ASSUME NEW x \in Keys(m) PROVE \E g \in G : x \in Keys(skills[g].items)
  <2>1. PICK k \in 1 .. c : x = m[k].key /\ x # ""
    BY <1>2, <1>5, Zenon DEF Keys
  <2>2. PICK p \in P : m[k] = skills[p[1]].items[p[2]]
    BY <1>3
  <2>3. p[1] \in G /\ p[2] \in CleanPlaces(skills[p[1]].items)
    BY MergedPlace, Zenon DEF P, G, FirstOf
  <2>4. p[2] \in DOMAIN skills[p[1]].items
    BY <1>4, <2>3, Zenon
  <2>5. x \in Keys(skills[p[1]].items)
    BY <2>1, <2>2, <2>4, Zenon DEF Keys
  <2> QED
    BY <2>3, <2>5, Zenon
<1>6. ASSUME NEW g \in G, NEW x \in Keys(skills[g].items) PROVE x \in Keys(m)
  <2> DEFINE H == {h \in G : x \in Keys(skills[h].items)}
  <2>1. PICK h \in H : \A l \in H : h <= l
    <3>1. H \in SUBSET (1 .. Len(skills)) /\ H # {}
      BY <1>4, <1>6, Zenon
    <3> HIDE DEF H
    <3> QED
      BY <1>4, <3>1, FirstPlace, Zenon
  <2>2. h \in G /\ h \in 1 .. Len(skills) /\ x \in Keys(skills[h].items)
    BY <1>4, Zenon
  <2>3. PICK it : it = skills[h].items
    OBVIOUS
  <2>4. PICK i \in DOMAIN it : it[i].key = x /\ x # ""
    BY <2>2, <2>3, Zenon DEF Keys
  <2>5. PICK n \in Nat : DOMAIN it = 1 .. n
    BY <1>4, <2>2, <2>3, Zenon
  <2>6. PICK j \in CleanPlaces(it) : it[j].key = x
    BY <2>4, <2>5, CleanPlace, Zenon
  <2>7. ASSUME NEW l \in G, l < h, NEW o \in DOMAIN skills[l].items, skills[l].items[o].key = x
        PROVE  FALSE
    <3>1. l \in H
      BY <2>4, <2>7, Zenon DEF Keys
    <3>2. h <= l
      BY <2>1, <3>1, Zenon
    <3>3. h \in Int /\ l \in Int
      BY <1>4, <2>2, <2>7
    <3> QED
      BY <2>7, <3>2, <3>3
  <2>8. FirstOf(skills, cat, h, j)
    BY <2>2, <2>3, <2>6, <2>7, Zenon DEF FirstOf, G
  <2>9. PICK p : p = <<h, j>>
    OBVIOUS
  <2>10. p \in P /\ p[1] = h /\ p[2] = j
    BY <2>8, <2>9, MergedPlace DEF P
  <2>11. PICK k \in 1 .. c : m[k] = skills[h].items[j]
    BY <1>3, <2>10, Zenon
  <2>12. m[k].key = x
    BY <2>3, <2>6, <2>11, Zenon
  <2> QED
    BY <1>2, <2>4, <2>12, Zenon DEF Keys
<1>7. Keys(m) = UNION {Keys(skills[g].items) : g \in G}
  BY <1>5, <1>6, Zenon
<1> QED
  BY <1>7 DEF m, G

LEMMA CategoryNames ==
  /\ DOMAIN SkillCategoryOrder = 1 .. 9
  /\ Categories = {SkillCategoryOrder[i] : i \in 1 .. 9}
  /\ \A i \in 1 .. 9 : SkillCategoryOrder[i] # ""
  /\ \A i, j \in 1 .. 9 : SkillCategoryOrder[i] = SkillCategoryOrder[j] => i = j
<1>0. 1 .. 9 = {1, 2, 3, 4, 5, 6, 7, 8, 9}
  OBVIOUS
<1>1. DOMAIN SkillCategoryOrder = 1 .. 9
  BY DEF SkillCategoryOrder
<1>2. Categories = {SkillCategoryOrder[i] : i \in 1 .. 9}
  BY <1>1, Zenon DEF Categories, Range
<1>n. /\ SkillCategoryOrder[1] = "frontend" /\ SkillCategoryOrder[2] = "backend"
      /\ SkillCategoryOrder[3] = "mobile" /\ SkillCategoryOrder[4] = "devops"
      /\ SkillCategoryOrder[5] = "cloud" /\ SkillCategoryOrder[6] = "data"
      /\ SkillCategoryOrder[7] = "tools" /\ SkillCategoryOrder[8] = "soft"
      /\ SkillCategoryOrder[9] = "other"
  BY DEF SkillCategoryOrder
<1>3. \A i \in 1 .. 9 : SkillCategoryOrder[i] # ""
  BY <1>0, <1>n, Zenon
<1>4. \A i, j \in 1 .. 9 : SkillCategoryOrder[i] = SkillCategoryOrder[j] => i = j
  BY <1>0, <1>n
<1> QED
  BY <1>1, <1>2, <1>3, <1>4

LEMMA NamedIsCanonical ==
  ASSUME NEW cat, cat # ""
  PROVE  CanonicalizeSkillCategory(Named(cat)) = cat /\ Named(cat).alias = cat
<1>1. Named(cat).alias = cat
  BY DEF Named
<1> QED
  BY <1>1, Zenon DEF CanonicalizeSkillCategory

LEMMA NamedType == ASSUME NEW cat \in Categories PROVE Named(cat) \in Category
BY DEF Named, Category

\* The categories that cleanSkills returns: the q[k]-th of the names is the
\* k-th of them.
Kept(skills) == {i \in 1 .. 9 : Merged(skills, SkillCategoryOrder[i]) # <<>>}
Grouped(skills, out, c, q) ==
    /\ c \in Nat /\ q \in [1 .. c -> Kept(skills)]
    /\ \A i \in Kept(skills) : \E k \in 1 .. c : q[k] = i
    /\ \A k, l \in 1 .. c : q[k] = q[l] => k = l
    /\ out = [k \in 1 .. c |-> out[k]] /\ DOMAIN out = 1 .. c /\ Len(out) = c
    /\ \A k \in 1 .. c :
           /\ out[k] = [category |-> Named(SkillCategoryOrder[q[k]]),
                        items |-> Merged(skills, SkillCategoryOrder[q[k]])]
           /\ out[k].category = Named(SkillCategoryOrder[q[k]])
           /\ out[k].items = Merged(skills, SkillCategoryOrder[q[k]])
    /\ out \in Seq(SkillGroup)

LEMMA SkillsGrouped ==
  ASSUME NEW skills \in Seq(SkillGroup)
  PROVE  \E c, q : Grouped(skills, CleanSkills(skills), c, q)
<1> DEFINE I == Kept(skills)
           c == Cardinality(I)
           q == InOrder(I)
           out == CleanSkills(skills)
           group(i) == [category |-> Named(SkillCategoryOrder[i]),
                        items |-> Merged(skills, SkillCategoryOrder[i])]
           all == [i \in 1 .. 9 |-> group(i)]
<1>1. I \in SUBSET (1 .. 9)
  BY DEF Kept
<1>2. /\ c \in Nat /\ q \in [1 .. c -> I]
      /\ \A i \in I : \E k \in 1 .. c : q[k] = i
      /\ \A k, l \in 1 .. c : k < l => q[k] < q[l]
  <2> HIDE DEF I
  <2>1. CountedOff(I)
    BY <1>1, OrderedPlaces
  <2> QED
    BY <2>1 DEF CountedOff
<1>3. out = EntriesAt(all, {i \in DOMAIN all : all[i].items # <<>>})
  BY CategoryNames DEF CleanSkills
<1>4. {i \in DOMAIN all : all[i].items # <<>>} = I
  BY DEF Kept
<1>5. out = [k \in 1 .. c |-> all[q[k]]]
  BY <1>3, <1>4 DEF EntriesAt
<1>6. \A i \in 1 .. 9 : all[i] = group(i)
  OBVIOUS
<1> HIDE DEF I, c, q, out, all
<1>7. \A k \in 1 .. c : q[k] \in I /\ q[k] \in 1 .. 9
  BY <1>1, <1>2
<1>8. DOMAIN out = 1 .. c /\ Len(out) = c /\ out = [k \in 1 .. c |-> out[k]]
  BY <1>2, <1>5
<1>9. ASSUME NEW k \in 1 .. c
      PROVE  /\ out[k] = group(q[k]) /\ out[k] \in SkillGroup
             /\ out[k].category = Named(SkillCategoryOrder[q[k]])
             /\ out[k].items = Merged(skills, SkillCategoryOrder[q[k]])
  <2>1. out[k] = all[q[k]]
    BY <1>5
  <2>2. out[k] = group(q[k])
    BY <1>6, <1>7, <2>1, Zenon
  <2>3. Named(SkillCategoryOrder[q[k]]) \in Category
    BY <1>7, CategoryNames, NamedType, Zenon
  <2>4. Merged(skills, SkillCategoryOrder[q[k]]) \in Strings
    BY MergedItems, Zenon
  <2> QED
    BY <2>2, <2>3, <2>4 DEF SkillGroup
<1>10. ASSUME NEW k \in 1 .. c, NEW l \in 1 .. c, q[k] = q[l] PROVE k = l
  <2>1. k < l \/ l < k \/ k = l
    BY <1>2
  <2>2. q[k] \in Int /\ q[l] \in Int
    BY <1>7
  <2> QED
    BY <1>2, <1>10, <2>1, <2>2
<1>11. out \in Seq(SkillGroup)
  <2>1. \A k \in 1 .. c : out[k] \in SkillGroup
    BY <1>9, Zenon
  <2> QED
    BY <1>2, <1>8, <2>1, IsASeq
<1>12. Grouped(skills, out, c, q)
  BY <1>2, <1>8, <1>9, <1>10, <1>11, Zenon DEF Grouped, I
<1> QED
  BY <1>12, Zenon DEF out

\* The group of a category among those that cleanSkills returned.
LEMMA OneGroup ==
  ASSUME NEW skills, NEW out, NEW c, NEW q, Grouped(skills, out, c, q),
         NEW i \in 1 .. 9
  PROVE  InCategory(out, SkillCategoryOrder[i]) = {k \in 1 .. c : q[k] = i}
<1>1. ASSUME NEW k \in 1 .. c
      PROVE  /\ q[k] \in 1 .. 9
             /\ out[k].category.alias = SkillCategoryOrder[q[k]]
             /\ CanonicalizeSkillCategory(out[k].category) = SkillCategoryOrder[q[k]]
  <2>1. q[k] \in 1 .. 9
    BY DEF Grouped, Kept
  <2>2. out[k].category = Named(SkillCategoryOrder[q[k]])
    BY Zenon DEF Grouped
  <2>3. SkillCategoryOrder[q[k]] # ""
    BY <2>1, CategoryNames, Zenon
  <2> QED
    BY <2>1, <2>2, <2>3, NamedIsCanonical, Zenon
<1>2. ASSUME NEW k \in 1 .. c
      PROVE  CanonicalizeSkillCategory(out[k].category) = SkillCategoryOrder[i] <=> q[k] = i
  BY <1>1, CategoryNames, Zenon
<1>3. DOMAIN out = 1 .. c
  BY Zenon DEF Grouped
<1> QED
  BY <1>2, <1>3, Zenon DEF InCategory

\* A group that is alone in its category, and tidy, stays as it is.
LEMMA AloneStays ==
  ASSUME NEW skills \in Seq(SkillGroup), NEW cat, NEW k \in Nat,
         InCategory(skills, cat) = {k},
         NEW n \in Nat, Tidy(skills[k].items, n)
  PROVE  Merged(skills, cat) = skills[k].items
<1>1. CleanPlaces(skills[k].items) = 1 .. n
  BY TidyStays, Zenon
<1> DEFINE P == MergedPlaces(skills, cat)
<1>2. ASSUME NEW p \in P PROVE p \in {k} \X (1 .. n)
  <2>1. p = <<p[1], p[2]>> /\ p[1] = k /\ p[2] \in 1 .. n
    BY <1>1, <1>2, MergedPlace, Zenon DEF FirstOf
  <2> QED
    BY <2>1
<1>3. ASSUME NEW p \in {k} \X (1 .. n) PROVE p \in P
  <2>1. PICK i \in 1 .. n : p = <<k, i>>
    OBVIOUS
  <2>2. ~(k < k)
    OBVIOUS
  <2>3. FirstOf(skills, cat, k, i)
    BY <1>1, <2>2, Zenon DEF FirstOf
  <2> QED
    BY <2>1, <2>3, MergedPlace, Zenon
<1>4. P = {k} \X (1 .. n)
  BY <1>2, <1>3, Zenon
<1>5. Merged(skills, cat) = [j \in 1 .. n |-> ItemsOf(skills)[k][j]]
  <2>1. PICK lists : lists = ItemsOf(skills)
    OBVIOUS
  <2>2. Merged(skills, cat) = ItemsAt(lists, {k} \X (1 .. n))
    BY <1>4, <2>1, Zenon DEF Merged
  <2>3. ItemsAt(lists, {k} \X (1 .. n)) = [j \in 1 .. n |-> lists[k][j]]
    BY GatherOne
  <2> QED
    BY <2>1, <2>2, <2>3, Zenon
<1>6. ItemsOf(skills)[k] = skills[k].items
  <2>1. k \in DOMAIN skills
    BY Zenon DEF InCategory
  <2> QED
    BY <2>1 DEF ItemsOf
<1>7. skills[k].items = [j \in 1 .. n |-> skills[k].items[j]]
  BY Zenon DEF Tidy
<1> QED
  BY <1>5, <1>6, <1>7, Zenon

LEMMA NoneMerged ==
  ASSUME NEW skills, NEW cat, InCategory(skills, cat) = {}
  PROVE  Merged(skills, cat) = <<>>
<1>1. MergedPlaces(skills, cat) = {}
  BY MergedPlace, Zenon DEF FirstOf
<1>2. Cardinality(MergedPlaces(skills, cat)) = 0
  BY <1>1, FS_EmptySet
<1>3. Merged(skills, cat) = [k \in 1 .. 0 |->
          ItemsOf(skills)[PairsInOrder(MergedPlaces(skills, cat))[k][1]]
                         [PairsInOrder(MergedPlaces(skills, cat))[k][2]]]
  BY <1>2 DEF Merged, ItemsAt
<1> QED
  BY <1>3

LEMMA MergedAgain ==
  ASSUME NEW skills \in Seq(SkillGroup), NEW i \in 1 .. 9
  PROVE  Merged(CleanSkills(skills), SkillCategoryOrder[i])
           = Merged(skills, SkillCategoryOrder[i])
<1>1. PICK out : out = CleanSkills(skills)
  OBVIOUS
<1>2. PICK c, q : Grouped(skills, out, c, q)
  BY <1>1, SkillsGrouped, Zenon
<1>3. PICK cat : cat = SkillCategoryOrder[i]
  OBVIOUS
<1>4. InCategory(out, cat) = {k \in 1 .. c : q[k] = i}
  <2>1. InCategory(out, SkillCategoryOrder[i]) = {k \in 1 .. c : q[k] = i}
    BY <1>2, OneGroup
  <2> QED
    BY <1>3, <2>1, Zenon
<1>5. CASE i \in Kept(skills)
  <2>1. PICK k \in 1 .. c : q[k] = i
    BY <1>2, <1>5, Zenon DEF Grouped
  <2>2. \A l \in 1 .. c : q[l] = i => l = k
    BY <1>2, <2>1, Zenon DEF Grouped
  <2>3. InCategory(out, cat) = {k}
    BY <1>4, <2>1, <2>2, Zenon
  <2>4. out[k].items = Merged(skills, cat) /\ out \in Seq(SkillGroup)
    BY <1>2, <1>3, <2>1, Zenon DEF Grouped
  <2>5. PICK n \in Nat : Tidy(out[k].items, n)
    BY <2>4, MergedTidy, Zenon
  <2>6. k \in Nat
    BY <1>2, <2>1 DEF Grouped
  <2> QED
    BY <1>1, <1>3, <2>3, <2>4, <2>5, <2>6, AloneStays, Zenon
<1>6. CASE i \notin Kept(skills)
  <2>1. InCategory(out, cat) = {}
    BY <1>2, <1>4, <1>6 DEF Grouped
  <2>2. Merged(skills, cat) = <<>>
    BY <1>3, <1>6, Zenon DEF Kept
  <2> QED
    BY <1>1, <1>3, <2>1, <2>2, NoneMerged, Zenon
<1> QED
  BY <1>5, <1>6

\* cleanSkills leaves what it returned as it is.
THEOREM SkillsIdempotent ==
  ASSUME NEW skills \in Seq(SkillGroup)
  PROVE  CleanSkills(CleanSkills(skills)) = CleanSkills(skills)
<1> DEFINE all(s) == [i \in 1 .. 9 |-> [category |-> Named(SkillCategoryOrder[i]),
                                        items |-> Merged(s, SkillCategoryOrder[i])]]
<1>1. ASSUME NEW s
      PROVE  CleanSkills(s) = EntriesAt(all(s), {i \in DOMAIN all(s) : all(s)[i].items # <<>>})
  BY CategoryNames, Zenon DEF CleanSkills
<1>2. all(CleanSkills(skills)) = all(skills)
  BY MergedAgain, Zenon
<1> HIDE DEF all
<1>3. CleanSkills(CleanSkills(skills))
        = EntriesAt(all(CleanSkills(skills)),
                    {i \in DOMAIN all(CleanSkills(skills)) :
                        all(CleanSkills(skills))[i].items # <<>>})
  BY <1>1, Zenon
<1> QED
  BY <1>1, <1>2, <1>3, Zenon

\* The keys of the groups of a list that are of a category.
KeysIn(groups, cat) ==
    UNION {Keys(g.items) : g \in {h \in groups : CanonicalizeSkillCategory(h.category) = cat}}

LEMMA KeysByPlace ==
  ASSUME NEW skills, NEW cat
  PROVE  UNION {Keys(skills[g].items) : g \in InCategory(skills, cat)}
           = KeysIn(Range(skills), cat)
<1>1. ASSUME NEW x, NEW g \in InCategory(skills, cat), x \in Keys(skills[g].items)
      PROVE  \E h \in Range(skills) :
                 CanonicalizeSkillCategory(h.category) = cat /\ x \in Keys(h.items)
  BY <1>1, Zenon DEF InCategory, Range
<1>2. ASSUME NEW x, NEW h \in Range(skills), CanonicalizeSkillCategory(h.category) = cat,
             x \in Keys(h.items)
      PROVE  \E g \in InCategory(skills, cat) : x \in Keys(skills[g].items)
  BY <1>2, Zenon DEF InCategory, Range
<1> QED
  BY <1>1, <1>2, Zenon DEF KeysIn

\* A flat list is decoded as one group of the category other.
LEMMA FlatKeys ==
  ASSUME NEW skills \in Seq(SkillGroup), NEW cat
  PROVE  KeysIn(Range(Flat(skills)), cat)
           = IF cat = "other" THEN UNION {Keys(g.items) : g \in Range(skills)} ELSE {}
<1> DEFINE lists == ItemsOf(skills)
           P == Places(lists)
           items == ItemsAt(lists, P)
           c == Cardinality(P)
           one == [category |-> Named("other"), items |-> items]
<1>1. /\ Len(skills) \in Nat /\ DOMAIN skills = 1 .. Len(skills)
      /\ lists \in [1 .. Len(skills) -> Seq([key : STRING, spelling : STRING])]
      /\ \A g \in 1 .. Len(skills) : lists[g] = skills[g].items
  BY ItemsOfType, LenProperties DEF Strings
<1>2. P \in SUBSET (Nat \X Nat) /\ IsFiniteSet(P)
  <2>1. P \in SUBSET Places(lists)
    OBVIOUS
  <2> HIDE DEF P, lists
  <2>3. PICK T : T = [key : STRING, spelling : STRING]
    OBVIOUS
  <2>4. PICK m \in Nat : m = Len(skills)
    BY <1>1
  <2>5. lists \in [1 .. m -> Seq(T)]
    BY <1>1, <2>3, <2>4, Zenon
  <2> QED
    BY <2>1, <2>5, GatheredType
<1>3. Range(Flat(skills)) = {one}
  BY DEF Flat, Range
<1>4. one.items = items /\ one.category = Named("other")
  OBVIOUS
<1>5. CanonicalizeSkillCategory(Named("other")) = "other"
  <2>1. "other" # ""
    OBVIOUS
  <2> QED
    BY <2>1, NamedIsCanonical, Zenon
<1>6. /\ DOMAIN items = 1 .. c
      /\ \A k \in 1 .. c : \E p \in P : items[k] = lists[p[1]][p[2]]
      /\ \A p \in P : \E k \in 1 .. c : items[k] = lists[p[1]][p[2]]
  <2> HIDE DEF P, lists
  <2> QED
    BY <1>2, Gathered
<1>7. /\ \A p \in P : p[1] \in 1 .. Len(skills) /\ p[2] \in DOMAIN lists[p[1]]
      /\ \A g \in 1 .. Len(skills) : \A i \in DOMAIN lists[g] :
             \E p \in P : p[1] = g /\ p[2] = i
  <2>1. DOMAIN lists = 1 .. Len(skills)
    BY <1>1
  <2> HIDE DEF lists
  <2>2. ASSUME NEW p \in P PROVE p[1] \in 1 .. Len(skills) /\ p[2] \in DOMAIN lists[p[1]]
    <3>1. PICK g \in 1 .. Len(skills) : p \in {g} \X DOMAIN lists[g]
      BY <2>1, Zenon DEF Places
    <3> QED
      BY <3>1
  <2>3. ASSUME NEW g \in 1 .. Len(skills), NEW i \in DOMAIN lists[g]
        PROVE  \E p \in P : p[1] = g /\ p[2] = i
    <3>1. PICK p : p = <<g, i>>
      OBVIOUS
    <3>2. p \in {g} \X DOMAIN lists[g] /\ p[1] = g /\ p[2] = i
      BY <3>1
    <3>3. p \in P
      BY <2>1, <3>2, Zenon DEF Places
    <3> QED
      BY <3>2, <3>3
  <2> QED
    BY <2>2, <2>3
<1> HIDE DEF lists, P, items, c, one
<1>8. Keys(items) = UNION {Keys(g.items) : g \in Range(skills)}
  <2>1. ASSUME NEW x \in Keys(items) PROVE \E g \in Range(skills) : x \in Keys(g.items)
    <3>1. PICK k \in 1 .. c : x = items[k].key /\ x # ""
      BY <1>6, <2>1, Zenon DEF Keys
    <3>2. PICK p \in P : items[k] = lists[p[1]][p[2]]
      BY <1>6
    <3>3. PICK h : h = skills[p[1]]
      OBVIOUS
    <3>4. h \in Range(skills) /\ lists[p[1]] = h.items /\ p[2] \in DOMAIN h.items
      BY <1>1, <1>7, <3>3, Zenon DEF Range
    <3>5. x = h.items[p[2]].key
      BY <3>1, <3>2, <3>4, Zenon
    <3> QED
      BY <3>1, <3>4, <3>5, Zenon DEF Keys
  <2>2. ASSUME NEW h \in Range(skills), NEW x \in Keys(h.items) PROVE x \in Keys(items)
    <3>1. PICK g \in 1 .. Len(skills) : h = skills[g]
      BY <1>1, <2>2, Zenon DEF Range
    <3>2. h.items = lists[g]
      BY <1>1, <3>1, Zenon
    <3>3. PICK i \in DOMAIN lists[g] : x = lists[g][i].key /\ x # ""
      BY <2>2, <3>2, Zenon DEF Keys
    <3>4. PICK k \in 1 .. c : items[k] = lists[g][i]
      <4>1. PICK p \in P : p[1] = g /\ p[2] = i
        BY <1>7, Zenon
      <4>2. PICK k \in 1 .. c : items[k] = lists[p[1]][p[2]]
        BY <1>6, <4>1
      <4>3. items[k] = lists[g][i]
        BY <4>1, <4>2, Zenon
      <4> QED
        BY <4>3
    <3>5. x = items[k].key
      BY <3>3, <3>4, Zenon
    <3> QED
      BY <1>6, <3>3, <3>5, Zenon DEF Keys
  <2> QED
    BY <2>1, <2>2, Zenon
<1>9. CASE cat = "other"
  <2>1. {h \in {one} : CanonicalizeSkillCategory(h.category) = cat} = {one}
    BY <1>4, <1>5, <1>9, Zenon
  <2>2. KeysIn({one}, cat) = Keys(items)
    BY <1>4, <2>1, Zenon DEF KeysIn
  <2> QED
    BY <1>3, <1>8, <1>9, <2>2, Zenon
<1>10. CASE cat # "other"
  <2>1. {h \in {one} : CanonicalizeSkillCategory(h.category) = cat} = {}
    BY <1>4, <1>5, <1>10, Zenon
  <2>2. KeysIn({one}, cat) = {}
    BY <2>1, Zenon DEF KeysIn
  <2> QED
    BY <1>3, <1>10, <2>2, Zenon
<1> QED
  BY <1>9, <1>10

\* What was decoded of a curriculum and is normalized.
LEMMA DecodedCV ==
  ASSUME Inv, stage = "stored", paper.doc = "curriculum_vitae"
  PROVE  \E f : /\ f \in CVResult /\ f.skills \in Seq(SkillGroup)
                /\ Decoding(f, {}) /\ fields = NormalizeCV(f)
<1>1. PICK f : Decoding(f, {}) /\ fields = NormalizeResult(paper.doc, f)
  BY DEF Inv, Decoded
<1>2. paper.fields \in CVResult
  BY PaperType DEF Inv
<1>3. f.skills \in Seq(SkillGroup) /\ f = [paper.fields EXCEPT !.skills = f.skills]
  BY <1>1, Zenon DEF Decoding
<1>4. f \in CVResult
  <2>1. PICK r, s : r = paper.fields /\ s = f.skills
    OBVIOUS
  <2>2. r \in CVResult /\ s \in Seq(SkillGroup) /\ f = [r EXCEPT !.skills = s]
    BY <1>2, <1>3, <2>1, Zenon
  <2> QED
    BY <2>2 DEF CVResult
<1>5. fields = NormalizeCV(f)
  BY <1>1 DEF NormalizeResult
<1> QED
  BY <1>1, <1>3, <1>4, <1>5, Zenon

\* The keys of a category, as decoded and as printed.
LEMMA DecodedKeys ==
  ASSUME paper.skillsAs \in {"groups", "flat", "object"},
         paper.fields.skills \in Seq(SkillGroup), NEW f, Decoding(f, {}), NEW cat
  PROVE  KeysIn(Range(f.skills), cat)
           = UNION {Keys(g.items) : g \in {h \in Range(paper.fields.skills) :
                       (IF paper.skillsAs = "flat" THEN "other"
                        ELSE CanonicalizeSkillCategory(h.category)) = cat}}
<1> DEFINE printed == paper.fields.skills
<1>1. CASE paper.skillsAs = "flat"
  <2>1. f.skills = Flat(printed)
    BY <1>1 DEF Decoding
  <2>2. CASE cat = "other"
    <3>1. {h \in Range(printed) :
             (IF paper.skillsAs = "flat" THEN "other"
              ELSE CanonicalizeSkillCategory(h.category)) = cat} = Range(printed)
      BY <1>1, <2>2, Zenon
    <3>2. KeysIn(Range(f.skills), cat) = UNION {Keys(g.items) : g \in Range(printed)}
      BY <2>1, <2>2, FlatKeys, Zenon
    <3> QED
      BY <3>1, <3>2, Zenon
  <2>3. CASE cat # "other"
    <3>1. {h \in Range(printed) :
             (IF paper.skillsAs = "flat" THEN "other"
              ELSE CanonicalizeSkillCategory(h.category)) = cat} = {}
      BY <1>1, <2>3, Zenon
    <3>2. KeysIn(Range(f.skills), cat) = {}
      BY <2>1, <2>3, FlatKeys, Zenon
    <3> QED
      BY <3>1, <3>2, Zenon
  <2> QED
    BY <2>2, <2>3
<1>2. CASE paper.skillsAs # "flat"
  <2>1. Range(f.skills) = Range(printed)
    BY <1>2 DEF Decoding
  <2>2. {h \in Range(printed) :
             (IF paper.skillsAs = "flat" THEN "other"
              ELSE CanonicalizeSkillCategory(h.category)) = cat}
          = {h \in Range(printed) : CanonicalizeSkillCategory(h.category) = cat}
    BY <1>2, Zenon
  <2> QED
    BY <2>1, <2>2, Zenon DEF KeysIn
<1> QED
  BY <1>1, <1>2

\* The keys of a category, as stored.
LEMMA StoredKeys ==
  ASSUME NEW skills \in Seq(SkillGroup), NEW out, NEW c, NEW q,
         Grouped(skills, out, c, q), NEW cat \in Categories
  PROVE  UNION {Keys(g.items) : g \in {h \in Range(out) : h.category.alias = cat}}
           = Keys(Merged(skills, cat))
<1>1. PICK i \in 1 .. 9 : cat = SkillCategoryOrder[i]
  BY CategoryNames, Zenon
<1> DEFINE G == {h \in Range(out) : h.category.alias = cat}
<1>2. ASSUME NEW h \in G PROVE i \in Kept(skills) /\ h.items = Merged(skills, cat)
  <2>1. PICK k \in 1 .. c : h = out[k]
    BY <1>2, Zenon DEF Range, Grouped
  <2>2. q[k] \in Kept(skills) /\ q[k] \in 1 .. 9
    BY DEF Grouped, Kept
  <2>3. /\ h.category = Named(SkillCategoryOrder[q[k]])
        /\ h.items = Merged(skills, SkillCategoryOrder[q[k]])
    BY <2>1, Zenon DEF Grouped
  <2>4. SkillCategoryOrder[q[k]] # ""
    BY <2>2, CategoryNames, Zenon
  <2>5. h.category.alias = SkillCategoryOrder[q[k]]
    BY <2>3, <2>4, NamedIsCanonical, Zenon
  <2>6. q[k] = i
    BY <1>1, <1>2, <2>2, <2>5, CategoryNames, Zenon
  <2> QED
    BY <1>1, <2>2, <2>3, <2>6, Zenon
<1>3. CASE i \in Kept(skills)
  <2>1. PICK k \in 1 .. c : q[k] = i
    BY <1>3, Zenon DEF Grouped
  <2>2. out[k] \in Range(out) /\ out[k].category = Named(cat)
    BY <1>1, <2>1, Zenon DEF Grouped, Range
  <2>3. cat # ""
    BY <1>1, CategoryNames, Zenon
  <2>4. out[k] \in G
    BY <2>2, <2>3, NamedIsCanonical, Zenon
  <2> QED
    BY <1>2, <2>4, Zenon
<1>4. CASE i \notin Kept(skills)
  <2>1. G = {}
    BY <1>2, <1>4, Zenon
  <2>2. Merged(skills, cat) = <<>>
    BY <1>1, <1>4, Zenon DEF Kept
  <2>3. Keys(<<>>) = {}
    BY DEF Keys
  <2> QED
    BY <2>1, <2>2, <2>3, Zenon
<1> QED
  BY <1>3, <1>4

\* Whatever papers are processed, and in whatever order the map gives the
\* groups of an object, cleanSkills keeps every skill in the category that its
\* group is of, once, and puts nothing else there.
THEOREM AllSkillsKept == Spec => []SkillsKept
<1>1. Inv => SkillsKept
  <2> SUFFICES ASSUME Inv, stage = "stored", paper.doc = "curriculum_vitae"
               PROVE  SkillsKept
    BY Zenon DEF SkillsKept
  <2>1. PICK f : /\ f \in CVResult /\ f.skills \in Seq(SkillGroup)
                 /\ Decoding(f, {}) /\ fields = NormalizeCV(f)
    BY DecodedCV, Zenon
  <2>2. fields.skills = CleanSkills(f.skills)
    BY <2>1 DEF NormalizeCV, CVResult
  <2>3. PICK out : out = fields.skills
    OBVIOUS
  <2>4. PICK c, q : Grouped(f.skills, out, c, q)
    BY <2>1, <2>2, <2>3, SkillsGrouped, Zenon
  <2>5. /\ paper.skillsAs \in {"groups", "flat", "object"}
        /\ paper.fields.skills \in Seq(SkillGroup)
    BY PaperType DEF Inv, CVResult
  <2>6. ASSUME NEW cat \in Categories
        PROVE  UNION {Keys(g.items) : g \in {h \in Range(out) : h.category.alias = cat}}
                 = UNION {Keys(g.items) : g \in {h \in Range(paper.fields.skills) :
                             (IF paper.skillsAs = "flat" THEN "other"
                              ELSE CanonicalizeSkillCategory(h.category)) = cat}}
    <3>1. Keys(Merged(f.skills, cat)) = KeysIn(Range(f.skills), cat)
      BY <2>1, MergedKeys, KeysByPlace, Zenon
    <3>2. UNION {Keys(g.items) : g \in {h \in Range(out) : h.category.alias = cat}}
            = Keys(Merged(f.skills, cat))
      BY <2>1, <2>4, StoredKeys, Zenon
    <3>3. KeysIn(Range(f.skills), cat)
            = UNION {Keys(g.items) : g \in {h \in Range(paper.fields.skills) :
                        (IF paper.skillsAs = "flat" THEN "other"
                         ELSE CanonicalizeSkillCategory(h.category)) = cat}}
      BY <2>1, <2>5, DecodedKeys, Zenon
    <3> QED
      BY <3>1, <3>2, <3>3, Zenon
  <2>7. ASSUME NEW k \in DOMAIN out, NEW l \in DOMAIN out, out[k].category = out[l].category
        PROVE  k = l
    <3>1. /\ k \in 1 .. c /\ l \in 1 .. c
          /\ out[k].category = Named(SkillCategoryOrder[q[k]])
          /\ out[l].category = Named(SkillCategoryOrder[q[l]])
      BY <2>4, Zenon DEF Grouped
    <3>2. q[k] \in 1 .. 9 /\ q[l] \in 1 .. 9
      BY <2>4, <3>1 DEF Grouped, Kept
    <3>3. SkillCategoryOrder[q[k]] # "" /\ SkillCategoryOrder[q[l]] # ""
      BY <3>2, CategoryNames, Zenon
    <3>4. SkillCategoryOrder[q[k]] = SkillCategoryOrder[q[l]]
      <4>1. Named(SkillCategoryOrder[q[k]]) = Named(SkillCategoryOrder[q[l]])
        BY <2>7, <3>1, Zenon
      <4>2. /\ Named(SkillCategoryOrder[q[k]]).alias = SkillCategoryOrder[q[k]]
            /\ Named(SkillCategoryOrder[q[l]]).alias = SkillCategoryOrder[q[l]]
        BY <3>3, NamedIsCanonical, Zenon
      <4> QED
        BY <4>1, <4>2, Zenon
    <3>5. q[k] = q[l]
      BY <3>2, <3>4, CategoryNames, Zenon
    <3> QED
      BY <2>4, <3>1, <3>5, Zenon DEF Grouped
  <2>8. ASSUME NEW g \in Range(out) PROVE Cardinality(Keys(g.items)) = Len(g.items)
    <3>1. PICK k \in 1 .. c : g = out[k]
      BY <2>4, <2>8, Zenon DEF Range, Grouped
    <3>2. g.items = Merged(f.skills, SkillCategoryOrder[q[k]])
      BY <2>4, <3>1, Zenon DEF Grouped
    <3>3. PICK n \in Nat : Tidy(g.items, n)
      BY <2>1, <3>2, MergedTidy, Zenon
    <3> QED
      BY <3>3, TidyCount, Zenon
  <2> QED
    BY <2>3, <2>6, <2>7, <2>8, Zenon DEF SkillsKept, Keys
<1> QED
  BY <1>1, AlwaysInv, PTL

-----------------------------------------------------------------------------
(***************************************************************************)
(* Normalizing twice                                                       *)
(***************************************************************************)

\* The entries that a filter of a list of n keeps.
Selected(list, I, c, q) ==
    /\ c \in Nat /\ q \in [1 .. c -> I]
    /\ EntriesAt(list, I) = [k \in 1 .. c |-> list[q[k]]]
    /\ DOMAIN EntriesAt(list, I) = 1 .. c

LEMMA SelectedBy ==
  ASSUME NEW n \in Nat, NEW I \in SUBSET (1 .. n), NEW list
  PROVE  \E c, q : Selected(list, I, c, q)
<1> DEFINE c == Cardinality(I)
           q == InOrder(I)
<1>1. CountedOff(I)
  BY OrderedPlaces
<1>2. c \in Nat /\ q \in [1 .. c -> I]
  BY <1>1, Zenon DEF CountedOff
<1>3. EntriesAt(list, I) = [k \in 1 .. c |-> list[q[k]]]
  BY Zenon DEF EntriesAt
<1> HIDE DEF c, q
<1>4. Selected(list, I, c, q)
  BY <1>2, <1>3 DEF Selected
<1> QED
  BY <1>4, Zenon

Job == [company : STRING, title : STRING, start : Text, end : Text,
        current : BOOLEAN, highlights : Strings]
CleanJob(e) == [e EXCEPT !.start = NormalizeCVDate(e.start),
                         !.end = IF e.current THEN Absent ELSE NormalizeCVDate(e.end),
                         !.highlights = CleanStrings(e.highlights)]

LEMMA CleanJobTwice ==
  ASSUME NEW e \in Job
  PROVE  /\ CleanJob(CleanJob(e)) = CleanJob(e)
         /\ CleanJob(e).company = e.company /\ CleanJob(e).title = e.title
<1> DEFINE D == {"company", "title", "start", "end", "current", "highlights"}
<1>1. e = [x \in D |-> e[x]] /\ e.highlights \in Strings
  BY DEF Job
<1>2. PICK s, t, h :
        /\ s = NormalizeCVDate(e.start) /\ h = CleanStrings(e.highlights)
        /\ t = (IF e.current THEN Absent ELSE NormalizeCVDate(e.end))
  BY Zenon
<1>3. PICK f : f = CleanJob(e)
  OBVIOUS
<1>4. f = [e EXCEPT !.start = s, !.end = t, !.highlights = h]
  BY <1>2, <1>3, Zenon DEF CleanJob
<1>5. /\ f.start = s /\ f.end = t /\ f.highlights = h
      /\ f.company = e.company /\ f.title = e.title /\ f.current = e.current
      /\ f = [x \in D |-> f[x]]
  BY <1>1, <1>4
<1>6. NormalizeCVDate(s) = s
  BY <1>2, CVDateIdempotent, Zenon
<1>7. (IF f.current THEN Absent ELSE NormalizeCVDate(t)) = t
  BY <1>2, <1>5, CVDateIdempotent, Zenon
<1>8. CleanStrings(h) = h
  <2>1. PICK n \in Nat : DOMAIN e.highlights = 1 .. n
    BY <1>1, LenProperties DEF Strings
  <2> QED
    BY <1>2, <2>1, CleanStringsTwice, Zenon
<1>9. CleanJob(f) = [f EXCEPT !.start = s, !.end = t, !.highlights = h]
  BY <1>5, <1>6, <1>7, <1>8, Zenon DEF CleanJob
<1>10. [f EXCEPT !.start = s, !.end = t, !.highlights = h] = f
  BY <1>5
<1> QED
  BY <1>3, <1>5, <1>9, <1>10, Zenon

LEMMA ExperienceByJob ==
  ASSUME NEW list
  PROVE  LET kept == EntriesAt(list, KeptExperience(list))
         IN  CleanExperience(list) = [i \in DOMAIN kept |-> CleanJob(kept[i])]
BY Zenon DEF CleanExperience, CleanJob

LEMMA ExperienceTwice ==
  ASSUME NEW list \in Seq(Job)
  PROVE  CleanExperience(CleanExperience(list)) = CleanExperience(list)
<1>1. Len(list) \in Nat /\ DOMAIN list = 1 .. Len(list) /\ \A i \in 1 .. Len(list) : list[i] \in Job
  BY LenProperties, ElementOfSeq
<1>2. PICK I : I = KeptExperience(list)
  OBVIOUS
<1>3. /\ I \in SUBSET (1 .. Len(list))
      /\ \A i \in I : list[i].company # "" \/ list[i].title # ""
  BY <1>1, <1>2, Zenon DEF KeptExperience
<1>4. PICK c, q : Selected(list, I, c, q)
  BY <1>1, <1>3, SelectedBy, Zenon
<1>5. PICK out : out = CleanExperience(list)
  OBVIOUS
<1>6. out = [k \in 1 .. c |-> CleanJob(EntriesAt(list, I)[k])]
  BY <1>2, <1>4, <1>5, ExperienceByJob, Zenon DEF Selected
<1>7. ASSUME NEW k \in 1 .. c
      PROVE  /\ CleanJob(out[k]) = out[k]
             /\ out[k].company # "" \/ out[k].title # ""
  <2>1. PICK e : e = list[q[k]]
    OBVIOUS
  <2>2. q[k] \in I
    BY <1>4 DEF Selected
  <2>3. e \in Job /\ (e.company # "" \/ e.title # "")
    BY <1>1, <1>3, <2>1, <2>2, Zenon
  <2>4. EntriesAt(list, I)[k] = e
    BY <1>4, <2>1 DEF Selected
  <2>5. out[k] = CleanJob(e)
    BY <1>6, <2>4
  <2> QED
    BY <2>3, <2>5, CleanJobTwice, Zenon
<1>8. c \in Nat
  BY <1>4, Zenon DEF Selected
<1>9. out = [k \in 1 .. c |-> out[k]] /\ DOMAIN out = 1 .. c
  BY <1>6
<1>10. KeptExperience(out) = 1 .. c
  BY <1>7, <1>9, Zenon DEF KeptExperience
<1>11. EntriesAt(out, 1 .. c) = out
  BY <1>8, <1>9, FilterAll, Zenon
<1>12. CleanExperience(out) = [k \in 1 .. c |-> CleanJob(out[k])]
  BY <1>9, <1>10, <1>11, ExperienceByJob, Zenon
<1>13. CleanExperience(out) = [k \in 1 .. c |-> out[k]]
  BY <1>7, <1>12, Zenon
<1> QED
  BY <1>5, <1>9, <1>13, Zenon

Study == [institution : STRING, degree : STRING, start : Text, end : Text]
CleanStudy(e) == [e EXCEPT !.start = NormalizeCVDate(@), !.end = NormalizeCVDate(@)]

LEMMA CleanStudyTwice ==
  ASSUME NEW e \in Study
  PROVE  CleanStudy(CleanStudy(e)) = CleanStudy(e) /\ CleanStudy(e).institution = e.institution /\ CleanStudy(e).degree = e.degree
<1> DEFINE D == {"institution", "degree", "start", "end"}
<1>1. e = [x \in D |-> e[x]]
  BY DEF Study
<1>2. PICK s, t : s = NormalizeCVDate(e.start) /\ t = NormalizeCVDate(e.end)
  BY Zenon
<1>3. PICK f : f = CleanStudy(e)
  OBVIOUS
<1>4. f = [e EXCEPT !.start = s, !.end = t]
  BY <1>2, <1>3, Zenon DEF CleanStudy
<1>5. /\ f.start = s /\ f.end = t
      /\ f.institution = e.institution /\ f.degree = e.degree /\ f = [x \in D |-> f[x]]
  BY <1>1, <1>4
<1>6. NormalizeCVDate(s) = s /\ NormalizeCVDate(t) = t
  BY <1>2, CVDateIdempotent, Zenon
<1>7. CleanStudy(f) = [f EXCEPT !.start = s, !.end = t]
  BY <1>5, <1>6, Zenon DEF CleanStudy
<1>8. [f EXCEPT !.start = s, !.end = t] = f
  BY <1>5
<1> QED
  BY <1>3, <1>5, <1>7, <1>8, Zenon

LEMMA EducationTwice ==
  ASSUME NEW list \in Seq(Study)
  PROVE  CleanEducation(CleanEducation(list)) = CleanEducation(list)
<1> DEFINE K(l) == {i \in DOMAIN l : l[i].institution # "" \/ l[i].degree # ""}
<1>0. \A l : CleanEducation(l)
               = [i \in DOMAIN EntriesAt(l, K(l)) |-> CleanStudy(EntriesAt(l, K(l))[i])]
  BY Zenon DEF CleanEducation, CleanStudy
<1>1. Len(list) \in Nat /\ DOMAIN list = 1 .. Len(list) /\ \A i \in 1 .. Len(list) : list[i] \in Study
  BY LenProperties, ElementOfSeq
<1>2. PICK I : I = K(list)
  OBVIOUS
<1>3. I \in SUBSET (1 .. Len(list)) /\ \A i \in I : list[i].institution # "" \/ list[i].degree # ""
  BY <1>1, <1>2, Zenon
<1>4. PICK c, q : Selected(list, I, c, q)
  BY <1>1, <1>3, SelectedBy, Zenon
<1>5. PICK out : out = CleanEducation(list)
  OBVIOUS
<1>6. out = [k \in 1 .. c |-> CleanStudy(EntriesAt(list, I)[k])]
  BY <1>0, <1>2, <1>4, <1>5, Zenon DEF Selected
<1>7. ASSUME NEW k \in 1 .. c PROVE CleanStudy(out[k]) = out[k] /\ (out[k].institution # "" \/ out[k].degree # "")
  <2>1. PICK e : e = list[q[k]]
    OBVIOUS
  <2>2. q[k] \in I
    BY <1>4 DEF Selected
  <2>3. e \in Study /\ (e.institution # "" \/ e.degree # "")
    BY <1>1, <1>3, <2>1, <2>2, Zenon
  <2>4. EntriesAt(list, I)[k] = e
    BY <1>4, <2>1 DEF Selected
  <2>5. out[k] = CleanStudy(e)
    BY <1>6, <2>4
  <2> QED
    BY <2>3, <2>5, CleanStudyTwice, Zenon
<1>8. c \in Nat
  BY <1>4, Zenon DEF Selected
<1>9. out = [k \in 1 .. c |-> out[k]] /\ DOMAIN out = 1 .. c
  BY <1>6
<1>10. K(out) = 1 .. c
  BY <1>7, <1>9, Zenon
<1>11. EntriesAt(out, 1 .. c) = out
  BY <1>8, <1>9, FilterAll, Zenon
<1>12. CleanEducation(out) = [k \in 1 .. c |-> CleanStudy(out[k])]
  BY <1>0, <1>9, <1>10, <1>11, Zenon
<1>13. CleanEducation(out) = [k \in 1 .. c |-> out[k]]
  BY <1>7, <1>12, Zenon
<1> QED
  BY <1>5, <1>9, <1>13, Zenon

Certificate == [name : STRING, date : Text]
CleanCertificate(e) == [e EXCEPT !.date = NormalizeCVDate(@)]

LEMMA CleanCertificateTwice ==
  ASSUME NEW e \in Certificate
  PROVE  CleanCertificate(CleanCertificate(e)) = CleanCertificate(e) /\ CleanCertificate(e).name = e.name
<1> DEFINE D == {"name", "date"}
<1>1. e = [x \in D |-> e[x]]
  BY DEF Certificate
<1>2. PICK s : s = NormalizeCVDate(e.date)
  BY Zenon
<1>3. PICK f : f = CleanCertificate(e)
  OBVIOUS
<1>4. f = [e EXCEPT !.date = s]
  BY <1>2, <1>3, Zenon DEF CleanCertificate
<1>5. /\ f.date = s
      /\ f.name = e.name /\ f = [x \in D |-> f[x]]
  BY <1>1, <1>4
<1>6. NormalizeCVDate(s) = s
  BY <1>2, CVDateIdempotent, Zenon
<1>7. CleanCertificate(f) = [f EXCEPT !.date = s]
  BY <1>5, <1>6, Zenon DEF CleanCertificate
<1>8. [f EXCEPT !.date = s] = f
  BY <1>5
<1> QED
  BY <1>3, <1>5, <1>7, <1>8, Zenon

LEMMA CertificationsTwice ==
  ASSUME NEW list \in Seq(Certificate)
  PROVE  CleanCertifications(CleanCertifications(list)) = CleanCertifications(list)
<1> DEFINE K(l) == {i \in DOMAIN l : l[i].name # ""}
<1>0. \A l : CleanCertifications(l)
               = [i \in DOMAIN EntriesAt(l, K(l)) |-> CleanCertificate(EntriesAt(l, K(l))[i])]
  BY Zenon DEF CleanCertifications, CleanCertificate
<1>1. Len(list) \in Nat /\ DOMAIN list = 1 .. Len(list) /\ \A i \in 1 .. Len(list) : list[i] \in Certificate
  BY LenProperties, ElementOfSeq
<1>2. PICK I : I = K(list)
  OBVIOUS
<1>3. I \in SUBSET (1 .. Len(list)) /\ \A i \in I : list[i].name # ""
  BY <1>1, <1>2, Zenon
<1>4. PICK c, q : Selected(list, I, c, q)
  BY <1>1, <1>3, SelectedBy, Zenon
<1>5. PICK out : out = CleanCertifications(list)
  OBVIOUS
<1>6. out = [k \in 1 .. c |-> CleanCertificate(EntriesAt(list, I)[k])]
  BY <1>0, <1>2, <1>4, <1>5, Zenon DEF Selected
<1>7. ASSUME NEW k \in 1 .. c PROVE CleanCertificate(out[k]) = out[k] /\ (out[k].name # "")
  <2>1. PICK e : e = list[q[k]]
    OBVIOUS
  <2>2. q[k] \in I
    BY <1>4 DEF Selected
  <2>3. e \in Certificate /\ (e.name # "")
    BY <1>1, <1>3, <2>1, <2>2, Zenon
  <2>4. EntriesAt(list, I)[k] = e
    BY <1>4, <2>1 DEF Selected
  <2>5. out[k] = CleanCertificate(e)
    BY <1>6, <2>4
  <2> QED
    BY <2>3, <2>5, CleanCertificateTwice, Zenon
<1>8. c \in Nat
  BY <1>4, Zenon DEF Selected
<1>9. out = [k \in 1 .. c |-> out[k]] /\ DOMAIN out = 1 .. c
  BY <1>6
<1>10. K(out) = 1 .. c
  BY <1>7, <1>9, Zenon
<1>11. EntriesAt(out, 1 .. c) = out
  BY <1>8, <1>9, FilterAll, Zenon
<1>12. CleanCertifications(out) = [k \in 1 .. c |-> CleanCertificate(out[k])]
  BY <1>0, <1>9, <1>10, <1>11, Zenon
<1>13. CleanCertifications(out) = [k \in 1 .. c |-> out[k]]
  BY <1>7, <1>12, Zenon
<1> QED
  BY <1>5, <1>9, <1>13, Zenon

Language == [name : STRING, level : STRING]

LEMMA LanguagesTwice ==
  ASSUME NEW list \in Seq(Language)
  PROVE  CleanLanguages(CleanLanguages(list)) = CleanLanguages(list)
<1> DEFINE K(l) == {i \in DOMAIN l : l[i].name # ""}
<1>0. \A l : CleanLanguages(l) = EntriesAt(l, K(l))
  BY Zenon DEF CleanLanguages
<1>1. Len(list) \in Nat /\ DOMAIN list = 1 .. Len(list)
  BY LenProperties
<1>2. PICK I : I = K(list)
  OBVIOUS
<1>3. I \in SUBSET (1 .. Len(list)) /\ \A i \in I : list[i].name # ""
  BY <1>1, <1>2, Zenon
<1>4. PICK c, q : Selected(list, I, c, q)
  BY <1>1, <1>3, SelectedBy, Zenon
<1>5. PICK out : out = EntriesAt(list, I)
  OBVIOUS
<1>6. c \in Nat /\ out = [k \in 1 .. c |-> out[k]] /\ DOMAIN out = 1 .. c
  BY <1>4, <1>5 DEF Selected
<1>7. ASSUME NEW k \in 1 .. c PROVE out[k].name # ""
  <2>1. q[k] \in I /\ out[k] = list[q[k]]
    BY <1>4, <1>5 DEF Selected
  <2> QED
    BY <1>3, <2>1, Zenon
<1>8. K(out) = 1 .. c
  BY <1>6, <1>7, Zenon
<1>9. EntriesAt(out, 1 .. c) = out
  BY <1>6, FilterAll, Zenon
<1> QED
  BY <1>0, <1>2, <1>5, <1>8, <1>9, Zenon

LEMMA TipoTwice ==
  ASSUME NEW s PROVE CanonicalizeTipo(CanonicalizeTipo(s)) = CanonicalizeTipo(s)
<1>1. CanonicalizeTipo(s) \in {"CNH", "RG", "", "outro"}
  BY DEF CanonicalizeTipo
<1>2. \A t \in {"CNH", "RG", "", "outro"} : CanonicalizeTipo(t) = t
  BY DEF CanonicalizeTipo
<1> QED
  BY <1>1, <1>2

LEMMA UFTwice ==
  ASSUME NEW s PROVE CanonicalizeUF(CanonicalizeUF(s)) = CanonicalizeUF(s)
<1>1. UF("", 0, TRUE).len # 2
  BY DEF UF
<1> QED
  BY <1>1, Zenon DEF CanonicalizeUF

LEMMA PhoneTwice ==
  ASSUME NEW p PROVE NormalizePhone(NormalizePhone(p)) = NormalizePhone(p)
<1>1. [plus |-> FALSE, digits |-> 0].digits < 8
  OBVIOUS
<1> QED
  BY <1>1, Zenon DEF NormalizePhone

LEMMA TextTwice ==
  ASSUME NEW s \in Identifier
  PROVE  /\ CPF(CPF(s)) = CPF(s) /\ CNPJ(CNPJ(s)) = CNPJ(s) /\ CEP(CEP(s)) = CEP(s)
         /\ DigitsOnly(DigitsOnly(s)) = DigitsOnly(s)
BY IdentifierType, IdentifierIdempotent, DigitsTwice

LEMMA MisreadType ==
  ASSUME NEW s \in Identifier, NEW t \in Misread(s) PROVE t \in Identifier
<1>1. PICK i \in DOMAIN s, x \in Digit : t = [s EXCEPT ![i] = x]
  BY DEF Misread
<1>2. DOMAIN s = 1 .. Len(s)
  BY IdentifierType
<1> QED
  BY <1>1, <1>2, ExceptSeq DEF Identifier

LEMMA IdentityTwice ==
  ASSUME NEW f \in IdentityResult
  PROVE  NormalizeIdentity(NormalizeIdentity(f)) = NormalizeIdentity(f)
<1> DEFINE D == {"tipo", "cpf", "numero_documento", "data_nascimento", "validade"}
<1>1. f = [x \in D |-> f[x]] /\ f.cpf \in Identifier /\ f.numero_documento \in Identifier
  BY DEF IdentityResult
<1>2. PICK a, b, c, d, e :
        /\ a = CanonicalizeTipo(f.tipo) /\ b = CPF(f.cpf) /\ c = DigitsOnly(f.numero_documento)
        /\ d = DateToISO(f.data_nascimento) /\ e = DateToISO(f.validade)
  BY Zenon
<1>3. PICK g : g = NormalizeIdentity(f)
  OBVIOUS
<1>4. g = [f EXCEPT !.tipo = a, !.cpf = b, !.numero_documento = c,
                    !.data_nascimento = d, !.validade = e]
  BY <1>2, <1>3, Zenon DEF NormalizeIdentity
<1>5. /\ g.tipo = a /\ g.cpf = b /\ g.numero_documento = c /\ g.data_nascimento = d
      /\ g.validade = e /\ g = [x \in D |-> g[x]]
  BY <1>1, <1>4
<1>6. CanonicalizeTipo(a) = a /\ DateToISO(d) = d /\ DateToISO(e) = e
  BY <1>2, TipoTwice, DateIdempotent, Zenon
<1>7. CPF(b) = b /\ DigitsOnly(c) = c
  BY <1>1, <1>2, TextTwice, Zenon
<1>8. NormalizeIdentity(g) = [g EXCEPT !.tipo = a, !.cpf = b, !.numero_documento = c,
                                       !.data_nascimento = d, !.validade = e]
  BY <1>5, <1>6, <1>7, Zenon DEF NormalizeIdentity
<1>9. NormalizeIdentity(g) = g
  BY <1>5, <1>8
<1> QED
  BY <1>3, <1>9, Zenon

LEMMA PartyTwice ==
  ASSUME NEW p \in Party PROVE NormalizeParty(NormalizeParty(p)) = NormalizeParty(p)
<1> DEFINE D == {"cnpj", "cpf"}
<1>1. p = [x \in D |-> p[x]] /\ p.cnpj \in Identifier /\ p.cpf \in Identifier
  BY DEF Party
<1>2. PICK a, b : a = CNPJ(p.cnpj) /\ b = CPF(p.cpf)
  BY Zenon
<1>3. PICK g : g = NormalizeParty(p)
  OBVIOUS
<1>4. g = [p EXCEPT !.cnpj = a, !.cpf = b]
  BY <1>2, <1>3, Zenon DEF NormalizeParty
<1>5. g.cnpj = a /\ g.cpf = b /\ g = [x \in D |-> g[x]]
  BY <1>1, <1>4
<1>6. CNPJ(a) = a /\ CPF(b) = b
  BY <1>1, <1>2, TextTwice, Zenon
<1>7. NormalizeParty(g) = [g EXCEPT !.cnpj = a, !.cpf = b]
  BY <1>5, <1>6, Zenon DEF NormalizeParty
<1>8. NormalizeParty(g) = g
  BY <1>5, <1>7
<1> QED
  BY <1>3, <1>8, Zenon

LEMMA InvoiceTwice ==
  ASSUME NEW f \in InvoiceResult
  PROVE  NormalizeInvoice(NormalizeInvoice(f)) = NormalizeInvoice(f)
<1> DEFINE D == {"emitente", "destinatario", "data_emissao"}
<1>1. f = [x \in D |-> f[x]] /\ f.emitente \in Party /\ f.destinatario \in Party
  BY DEF InvoiceResult
<1>2. PICK a, b, c : /\ a = NormalizeParty(f.emitente) /\ b = NormalizeParty(f.destinatario)
                     /\ c = DateToISO(f.data_emissao)
  BY Zenon
<1>3. PICK g : g = NormalizeInvoice(f)
  OBVIOUS
<1>4. g = [f EXCEPT !.emitente = a, !.destinatario = b, !.data_emissao = c]
  BY <1>2, <1>3, Zenon DEF NormalizeInvoice
<1>5. g.emitente = a /\ g.destinatario = b /\ g.data_emissao = c /\ g = [x \in D |-> g[x]]
  BY <1>1, <1>4
<1>6. NormalizeParty(a) = a /\ NormalizeParty(b) = b /\ DateToISO(c) = c
  BY <1>1, <1>2, PartyTwice, DateIdempotent, Zenon
<1>7. NormalizeInvoice(g) = [g EXCEPT !.emitente = a, !.destinatario = b, !.data_emissao = c]
  BY <1>5, <1>6, Zenon DEF NormalizeInvoice
<1>8. NormalizeInvoice(g) = g
  BY <1>5, <1>7
<1> QED
  BY <1>3, <1>8, Zenon

LEMMA AddressTwice ==
  ASSUME NEW f \in AddressResult
  PROVE  NormalizeAddress(NormalizeAddress(f)) = NormalizeAddress(f)
<1> DEFINE D == {"uf", "cep", "data"}
<1>1. f = [x \in D |-> f[x]] /\ f.cep \in Identifier
  BY DEF AddressResult
<1>2. PICK a, b, c : a = CanonicalizeUF(f.uf) /\ b = CEP(f.cep) /\ c = DateToISO(f.data)
  BY Zenon
<1>3. PICK g : g = NormalizeAddress(f)
  OBVIOUS
<1>4. g = [f EXCEPT !.uf = a, !.cep = b, !.data = c]
  BY <1>2, <1>3, Zenon DEF NormalizeAddress
<1>5. g.uf = a /\ g.cep = b /\ g.data = c /\ g = [x \in D |-> g[x]]
  BY <1>1, <1>4
<1>6. CanonicalizeUF(a) = a /\ CEP(b) = b /\ DateToISO(c) = c
  BY <1>1, <1>2, UFTwice, TextTwice, DateIdempotent, Zenon
<1>7. NormalizeAddress(g) = [g EXCEPT !.uf = a, !.cep = b, !.data = c]
  BY <1>5, <1>6, Zenon DEF NormalizeAddress
<1>8. NormalizeAddress(g) = g
  BY <1>5, <1>7
<1> QED
  BY <1>3, <1>8, Zenon

LEMMA CVTwice ==
  ASSUME NEW f \in CVResult, NEW g, g = NormalizeCV(f)
  PROVE  \/ NormalizeCV(g) = g
         \/ /\ g.email.kind = "odd"
            /\ NormalizeCV(g) = [g EXCEPT !.email = NormalizeEmail(g.email)]
<1> DEFINE D == {"email", "phone", "skills", "languages", "experience", "education",
                 "certifications"}
<1>1. /\ f = [x \in D |-> f[x]] /\ f.skills \in Seq(SkillGroup)
      /\ f.languages \in Seq(Language) /\ f.experience \in Seq(Job)
      /\ f.education \in Seq(Study) /\ f.certifications \in Seq(Certificate)
  BY DEF CVResult, Language, Job, Study, Certificate
<1>2. PICK m, a, b, c, d, e, h :
        /\ m = NormalizeEmail(f.email) /\ a = NormalizePhone(f.phone) /\ b = CleanSkills(f.skills)
        /\ c = CleanLanguages(f.languages) /\ d = CleanExperience(f.experience)
        /\ e = CleanEducation(f.education) /\ h = CleanCertifications(f.certifications)
  BY Zenon
<1>3. PICK n : n = NormalizeEmail(m) /\ (m.kind # "odd" => n = m)
  BY Zenon DEF NormalizeEmail
<1>4. g = [f EXCEPT !.email = m, !.phone = a, !.skills = b, !.languages = c,
                    !.experience = d, !.education = e, !.certifications = h]
  BY <1>2, Zenon DEF NormalizeCV
<1>5. /\ g.email = m /\ g.phone = a /\ g.skills = b /\ g.languages = c /\ g.experience = d
      /\ g.education = e /\ g.certifications = h /\ g = [x \in D |-> g[x]]
  BY <1>1, <1>4
<1>6. NormalizePhone(a) = a /\ CleanSkills(b) = b /\ CleanLanguages(c) = c
  BY <1>1, <1>2, PhoneTwice, SkillsIdempotent, LanguagesTwice, Zenon
<1>7. CleanExperience(d) = d /\ CleanEducation(e) = e /\ CleanCertifications(h) = h
  BY <1>1, <1>2, ExperienceTwice, EducationTwice, CertificationsTwice, Zenon
<1>8. NormalizeCV(g) = [g EXCEPT !.email = n, !.phone = a, !.skills = b, !.languages = c,
                                 !.experience = d, !.education = e, !.certifications = h]
  BY <1>3, <1>5, <1>6, <1>7, Zenon DEF NormalizeCV
<1>9. PICK k : k = [x \in D |-> IF x = "email" THEN n ELSE g[x]]
  OBVIOUS
<1>10. NormalizeCV(g) = k
  BY <1>5, <1>8, <1>9
<1>11. [g EXCEPT !.email = n] = k
  BY <1>5, <1>9
<1>12. n = m => k = g
  BY <1>5, <1>9
<1> QED
  BY <1>3, <1>5, <1>10, <1>11, <1>12, Zenon

\* An answer has the fields of its document type.
LEMMA AnsweredType ==
  ASSUME paper \in Papers, NEW f, Answered(f)
  PROVE  /\ paper.doc = "identity_document" => f \in IdentityResult
         /\ paper.doc = "invoice_nf" => f \in InvoiceResult
         /\ paper.doc = "address_proof" => f \in AddressResult
<1>1. PICK r : r = paper.fields
  OBVIOUS
<1>2. ASSUME paper.doc = "identity_document" PROVE f \in IdentityResult
  <2>1. r \in IdentityResult /\ r.cpf \in Identifier
    BY <1>1, <1>2, PaperType DEF IdentityResult
  <2>2. CASE f = r
    BY <2>1, <2>2
  <2>3. CASE f # r
    <3>1. Misreadings(paper) = {[r EXCEPT !.cpf = s] : s \in Misread(r.cpf)}
      BY <1>1, <1>2, Zenon DEF Misreadings
    <3>2. PICK s \in Misread(r.cpf) : f = [r EXCEPT !.cpf = s]
      BY <1>1, <2>3, <3>1, Zenon DEF Answered
    <3>3. s \in Identifier
      BY <2>1, <3>2, MisreadType, Zenon
    <3> QED
      BY <2>1, <3>2, <3>3 DEF IdentityResult
  <2> QED
    BY <2>2, <2>3
<1>3. ASSUME paper.doc = "invoice_nf" PROVE f \in InvoiceResult
  <2>1. r \in InvoiceResult /\ r.emitente \in Party /\ r.emitente.cnpj \in Identifier
    BY <1>1, <1>3, PaperType DEF InvoiceResult, Party
  <2>2. CASE f = r
    BY <2>1, <2>2
  <2>3. CASE f # r
    <3>1. Misreadings(paper)
            = {[r EXCEPT !.emitente.cnpj = s] : s \in Misread(r.emitente.cnpj)}
      BY <1>1, <1>3 DEF Misreadings
    <3>2. PICK s \in Misread(r.emitente.cnpj) : f = [r EXCEPT !.emitente.cnpj = s]
      BY <1>1, <2>3, <3>1 DEF Answered
    <3>3. s \in Identifier
      BY <2>1, <3>2, MisreadType, Zenon
    <3>4. [r.emitente EXCEPT !.cnpj = s] \in Party
      BY <2>1, <3>3 DEF Party
    <3>5. f = [r EXCEPT !.emitente = [r.emitente EXCEPT !.cnpj = s]]
      BY <3>2
    <3> QED
      BY <2>1, <3>4, <3>5 DEF InvoiceResult
  <2> QED
    BY <2>2, <2>3
<1>4. ASSUME paper.doc = "address_proof" PROVE f \in AddressResult
  <2>1. Misreadings(paper) = {}
    BY <1>4 DEF Misreadings
  <2> QED
    BY <1>4, <2>1, PaperType DEF Answered
<1> QED
  BY <1>2, <1>3, <1>4

\* Whatever papers are processed, normalizing a stored result again changes
\* nothing but an e-mail whose local part needs quotes: each other form that
\* Normalize stores is one that it leaves alone.
THEOREM ResultIdempotent == Spec => []NormalizeIdempotent
<1>1. Inv => NormalizeIdempotent
  <2> SUFFICES ASSUME Inv, stage = "stored"
               PROVE  NormalizeIdempotent
    BY Zenon DEF NormalizeIdempotent
  <2>1. PICK f : Decoded(f, {}) /\ fields = NormalizeResult(paper.doc, f)
    BY DEF Inv
  <2>2. /\ paper \in Papers
        /\ paper.doc \in {"identity_document", "invoice_nf", "address_proof",
                          "curriculum_vitae"}
    BY PaperType DEF Inv
  <2>3. CASE paper.doc = "identity_document"
    <3>1. f \in IdentityResult
      BY <2>1, <2>2, <2>3, AnsweredType DEF Decoded
    <3>2. \A r : NormalizeResult(paper.doc, r) = NormalizeIdentity(r)
      BY <2>3 DEF NormalizeResult
    <3> QED
      BY <2>1, <3>1, <3>2, IdentityTwice, Zenon DEF NormalizeIdempotent
  <2>4. CASE paper.doc = "invoice_nf"
    <3>1. f \in InvoiceResult
      BY <2>1, <2>2, <2>4, AnsweredType DEF Decoded
    <3>2. \A r : NormalizeResult(paper.doc, r) = NormalizeInvoice(r)
      BY <2>4 DEF NormalizeResult
    <3> QED
      BY <2>1, <3>1, <3>2, InvoiceTwice, Zenon DEF NormalizeIdempotent
  <2>5. CASE paper.doc = "address_proof"
    <3>1. f \in AddressResult
      BY <2>1, <2>2, <2>5, AnsweredType DEF Decoded
    <3>2. \A r : NormalizeResult(paper.doc, r) = NormalizeAddress(r)
      BY <2>5 DEF NormalizeResult
    <3> QED
      BY <2>1, <3>1, <3>2, AddressTwice, Zenon DEF NormalizeIdempotent
  <2>6. CASE paper.doc = "curriculum_vitae"
    <3>1. PICK g : g \in CVResult /\ fields = NormalizeCV(g)
      BY <2>6, DecodedCV, Zenon
    <3>2. \A r : NormalizeResult(paper.doc, r) = NormalizeCV(r)
      BY <2>6 DEF NormalizeResult
    <3> QED
      BY <2>6, <3>1, <3>2, CVTwice, Zenon DEF NormalizeIdempotent
  <2> QED
    BY <2>2, <2>3, <2>4, <2>5, <2>6
<1> QED
  BY <1>1, AlwaysInv, PTL

-----------------------------------------------------------------------------
(***************************************************************************)
(* Dates as printed                                                        *)
(***************************************************************************)

\* What a layout of a day reads.
LEMMA ParseDay ==
  ASSUME NEW layout, NEW s, Len(layout) = 5, DOMAIN layout = 1 .. 5, Len(s) = 5,
         NEW iy \in {1, 5}, NEW id \in {1, 5}, iy # id, Elements(layout[iy]) = "year",
         Elements(layout[id]) = "day", Elements(layout[3]) = "month",
         Elements(layout[2]) = "mark", Elements(layout[4]) = "mark"
  PROVE  Parse(layout, s) =
           IF /\ \A i \in 1 .. 5 : Fits(layout[i], s[i])
              /\ s[3].v \in 1 .. 12 /\ s[id].v \in 1 .. DaysIn(s[3].v, Year(s[iy]))
           THEN Day(Year(s[iy]), s[3].v, s[id].v) ELSE NoDate
<1> DEFINE at(kind) == {i \in DOMAIN layout : Elements(layout[i]) = kind}
           val(kind) == s[CHOOSE i \in at(kind) : TRUE]
           y == Year(val("year"))
           m == val("month").v
           d == IF at("day") = {} THEN 1 ELSE val("day").v
           fails == Len(s) # Len(layout) \/ \E i \in DOMAIN layout : ~Fits(layout[i], s[i])
<1>1. Parse(layout, s) = IF fails THEN NoDate
                         ELSE IF m \in 1..12 /\ d \in 1..DaysIn(m, y)
                         THEN Day(y, m, d) ELSE NoDate
  BY Zenon DEF Parse, Day
<1>2. 1 .. 5 = {1, 2, 3, 4, 5}
  OBVIOUS
<1>3. at("year") = {iy} /\ at("month") = {3} /\ at("day") = {id}
  BY <1>2
<1>4. y = Year(s[iy]) /\ m = s[3].v /\ d = s[id].v
  <2>1. /\ (CHOOSE i \in at("year") : TRUE) = iy
        /\ (CHOOSE i \in at("month") : TRUE) = 3
        /\ (CHOOSE i \in at("day") : TRUE) = id
    <3> HIDE DEF at
    <3> QED
      BY <1>3
  <2> HIDE DEF at
  <2>2. val("year") = s[iy] /\ val("month") = s[3] /\ val("day") = s[id]
    BY <2>1
  <2> HIDE DEF val
  <2> QED
    BY <1>3, <2>2
<1>6. fails <=> ~\A i \in 1 .. 5 : Fits(layout[i], s[i])
  BY Zenon
<1> HIDE DEF y, m, d, fails
<1>7. CASE fails
  BY <1>1, <1>6, <1>7, Zenon
<1>8. CASE ~fails
  BY <1>1, <1>4, <1>6, <1>8, Zenon
<1> QED
  BY <1>7, <1>8

LEMMA DayShapes ==
  ASSUME NEW i \in 1 .. 6
  PROVE  /\ Len(DayLayouts[i]) = 5 /\ DOMAIN DayLayouts[i] = 1 .. 5
         /\ DayLayouts[i][2] = "/" /\ DayLayouts[i][4] = "/"
         /\ DayLayouts[i][3] \in {"01", "1"}
         /\ \/ DayLayouts[i][1] = "2006" /\ DayLayouts[i][5] \in {"02", "2"}
            \/ DayLayouts[i][1] \in {"02", "2"} /\ DayLayouts[i][5] \in {"2006", "06"}
<1>1. PICK e1, e3, e5 :
        /\ DayLayouts[i] = <<e1, "/", e3, "/", e5>> /\ e3 \in {"01", "1"}
        /\ \/ e1 = "2006" /\ e5 \in {"02", "2"}
           \/ e1 \in {"02", "2"} /\ e5 \in {"2006", "06"}
  <2>1. 1 .. 6 = {1, 2, 3, 4, 5, 6}
    OBVIOUS
  <2> QED
    BY <2>1, SixLayouts
<1>2. PICK l : l = DayLayouts[i]
  OBVIOUS
<1>3. l = <<e1, "/", e3, "/", e5>>
  BY <1>1, <1>2
<1>4. /\ Len(l) = 5 /\ DOMAIN l = 1 .. 5 /\ l[1] = e1 /\ l[2] = "/" /\ l[3] = e3
      /\ l[4] = "/" /\ l[5] = e5
  BY <1>3
<1> QED
  BY <1>1, <1>2, <1>4, Zenon

\* What fits an element.
LEMMA FitsNumber ==
  ASSUME NEW e \in {"02", "2", "01", "1", "2006", "06"}, NEW tok
  PROVE  Fits(e, tok) <=> tok.t = "num" /\ tok.w \in Widths(e)
BY DEF Fits

LEMMA FitsMark ==
  ASSUME NEW e \in {"/", " "}, NEW tok PROVE Fits(e, tok) <=> tok.t = e
<1>1. Widths(e) = {}
  BY DEF Widths
<1> QED
  BY <1>1 DEF Fits

LEMMA FitsName ==
  ASSUME NEW e \in {"January", "Jan"}, NEW tok, Fits(e, tok)
  PROVE  tok.t \in {"January", "Jan", "jan"}
<1>1. Widths(e) = {}
  BY DEF Widths
<1>2. e \in English(tok)
  BY <1>1 DEF Fits
<1> QED
  BY <1>2 DEF English

LEMMA ElementWidths ==
  /\ Widths("02") = {2} /\ Widths("2") = {1, 2} /\ Widths("01") = {2}
  /\ Widths("1") = {1, 2} /\ Widths("2006") = {4} /\ Widths("06") = {2}
BY DEF Widths

LEMMA ElementKinds ==
  /\ Elements("02") = "day" /\ Elements("2") = "day"
  /\ Elements("01") = "month" /\ Elements("1") = "month"
  /\ Elements("January") = "month" /\ Elements("Jan") = "month"
  /\ Elements("2006") = "year" /\ Elements("06") = "year"
  /\ Elements("/") = "mark" /\ Elements(" ") = "mark"
BY DEF Elements

\* The day that three numbers between marks mean, wherever they stand.
DayAt(s) == IF s[1].w = 4 THEN Day(s[1].v, s[3].v, s[5].v)
            ELSE Day(Year(s[5]), s[3].v, s[1].v)
ThreeNumbers(s) ==
    /\ s[1].t = "num" /\ s[3].t = "num" /\ s[5].t = "num"
    /\ s[2].t = "/" /\ s[4].t = "/"

\* Whichever layout reads a day, it is the day that the numbers mean.
LEMMA DayRead ==
  ASSUME NEW s, NEW i \in 1 .. 6, Parse(DayLayouts[i], s) # NoDate
  PROVE  Len(s) = 5 /\ ThreeNumbers(s) /\ Parse(DayLayouts[i], s) = DayAt(s)
<1>1. PICK l : l = DayLayouts[i]
  OBVIOUS
<1>2. /\ Len(l) = 5 /\ DOMAIN l = 1 .. 5
      /\ l[2] = "/" /\ l[4] = "/" /\ l[3] \in {"01", "1"}
      /\ \/ l[1] = "2006" /\ l[5] \in {"02", "2"}
         \/ l[1] \in {"02", "2"} /\ l[5] \in {"2006", "06"}
  BY <1>1, DayShapes, Zenon
<1>3. Len(s) = 5
  BY <1>1, <1>2, WrongLength, Zenon
<1>n. 1 \in 1 .. 5 /\ 2 \in 1 .. 5 /\ 3 \in 1 .. 5 /\ 4 \in 1 .. 5 /\ 5 \in 1 .. 5
  OBVIOUS
<1>4. /\ Elements(l[2]) = "mark" /\ Elements(l[4]) = "mark" /\ Elements(l[3]) = "month"
  BY <1>2, ElementKinds
<1>5. ASSUME \A j \in 1 .. 5 : Fits(l[j], s[j]) PROVE ThreeNumbers(s)
  <2>1. Fits(l[1], s[1]) /\ Fits(l[2], s[2]) /\ Fits(l[3], s[3]) /\ Fits(l[4], s[4]) /\ Fits(l[5], s[5])
    BY <1>5, <1>n
  <2>2. s[2].t = "/" /\ s[4].t = "/"
    BY <1>2, <2>1, FitsMark
  <2>3. s[1].t = "num" /\ s[3].t = "num" /\ s[5].t = "num"
    BY <1>2, <2>1, FitsNumber
  <2> QED
    BY <2>2, <2>3 DEF ThreeNumbers
<1>6. CASE l[1] = "2006" /\ l[5] \in {"02", "2"}
  <2>1. Elements(l[1]) = "year" /\ Elements(l[5]) = "day"
    BY <1>6, ElementKinds
  <2>2. Parse(l, s) = IF /\ \A j \in 1 .. 5 : Fits(l[j], s[j])
                         /\ s[3].v \in 1 .. 12 /\ s[5].v \in 1 .. DaysIn(s[3].v, Year(s[1]))
                      THEN Day(Year(s[1]), s[3].v, s[5].v) ELSE NoDate
    BY <1>2, <1>3, <1>4, <2>1, ParseDay
  <2>3. (\A j \in 1 .. 5 : Fits(l[j], s[j])) /\ Parse(l, s) = Day(Year(s[1]), s[3].v, s[5].v)
    BY <1>1, <2>2, Zenon
  <2>4. s[1].w = 4
    BY <1>6, <1>n, <2>3, FitsNumber, ElementWidths
  <2>5. Year(s[1]) = s[1].v
    BY <2>4 DEF Year
  <2>6. DayAt(s) = Day(s[1].v, s[3].v, s[5].v)
    BY <2>4, Zenon DEF DayAt
  <2> QED
    BY <1>1, <1>3, <1>5, <2>3, <2>5, <2>6, Zenon
<1>7. CASE l[1] \in {"02", "2"} /\ l[5] \in {"2006", "06"}
  <2>1. Elements(l[1]) = "day" /\ Elements(l[5]) = "year"
    BY <1>7, ElementKinds
  <2>2. Parse(l, s) = IF /\ \A j \in 1 .. 5 : Fits(l[j], s[j])
                         /\ s[3].v \in 1 .. 12 /\ s[1].v \in 1 .. DaysIn(s[3].v, Year(s[5]))
                      THEN Day(Year(s[5]), s[3].v, s[1].v) ELSE NoDate
    BY <1>2, <1>3, <1>4, <2>1, ParseDay
  <2>3. (\A j \in 1 .. 5 : Fits(l[j], s[j])) /\ Parse(l, s) = Day(Year(s[5]), s[3].v, s[1].v)
    BY <1>1, <2>2, Zenon
  <2>4. s[1].w # 4
    BY <1>7, <1>n, <2>3, FitsNumber, ElementWidths
  <2>5. DayAt(s) = Day(Year(s[5]), s[3].v, s[1].v)
    BY <2>4, Zenon DEF DayAt
  <2> QED
    BY <1>1, <1>3, <1>5, <2>3, <2>5, Zenon
<1> QED
  BY <1>2, <1>6, <1>7

\* A day of the calendar in the usual form is read by some layout.
LEMMA UsualRead ==
  ASSUME NEW s, Len(s) = 5, ThreeNumbers(s), s[3].w \in {1, 2},
         \/ s[1].w \in {1, 2} /\ s[5].w \in {2, 4}
         \/ s[1].w = 4 /\ s[5].w \in {1, 2},
         NEW y, NEW m, NEW d, DayAt(s) = Day(y, m, d), m \in 1 .. 12, d \in 1 .. DaysIn(m, y)
  PROVE  \E i \in 1 .. 6 : Parse(DayLayouts[i], s) # NoDate
<1>0. /\ 2 \in 1 .. 6 /\ 4 \in 1 .. 6 /\ 6 \in 1 .. 6 /\ 1 .. 5 = {1, 2, 3, 4, 5}
      /\ 1 \in {1, 5} /\ 5 \in {1, 5} /\ 1 # 5
  OBVIOUS
<1>1. ASSUME NEW i \in {2, 4}, s[1].w \in {1, 2}, s[5].w \in Widths(DayLayouts[i][5])
      PROVE  Parse(DayLayouts[i], s) # NoDate
  <2>1. PICK l : l = DayLayouts[i]
    OBVIOUS
  <2>2. /\ Len(l) = 5 /\ DOMAIN l = 1 .. 5 /\ l[1] = "2" /\ l[2] = "/" /\ l[3] = "1"
        /\ l[4] = "/" /\ l[5] \in {"2006", "06"}
    BY <2>1, SixLayouts
  <2>3. \A j \in 1 .. 5 : Fits(l[j], s[j])
    <3>1. Fits(l[2], s[2]) /\ Fits(l[4], s[4])
      BY <2>2, FitsMark DEF ThreeNumbers
    <3>2. Fits(l[1], s[1]) /\ Fits(l[3], s[3])
      BY <1>1, <2>2, FitsNumber, ElementWidths DEF ThreeNumbers
    <3>3. Fits(l[5], s[5])
      BY <1>1, <2>1, <2>2, FitsNumber DEF ThreeNumbers
    <3> QED
      BY <1>0, <3>1, <3>2, <3>3
  <2>4. /\ Elements(l[1]) = "day" /\ Elements(l[5]) = "year" /\ Elements(l[3]) = "month"
        /\ Elements(l[2]) = "mark" /\ Elements(l[4]) = "mark"
    BY <2>2, ElementKinds
  <2>5. Parse(l, s) = IF /\ \A j \in 1 .. 5 : Fits(l[j], s[j])
                         /\ s[3].v \in 1 .. 12 /\ s[1].v \in 1 .. DaysIn(s[3].v, Year(s[5]))
                      THEN Day(Year(s[5]), s[3].v, s[1].v) ELSE NoDate
    BY <1>0, <2>2, <2>4, ParseDay
  <2>6. y = Year(s[5]) /\ m = s[3].v /\ d = s[1].v
    BY <1>1 DEF DayAt, Day
  <2>7. Parse(l, s) = Day(y, m, d)
    BY <2>3, <2>5, <2>6, Zenon
  <2> QED
    BY <2>1, <2>7, DayIsDate, Zenon
<1>2. ASSUME s[1].w = 4, s[5].w \in {1, 2} PROVE Parse(DayLayouts[6], s) # NoDate
  <2>1. PICK l : l = DayLayouts[6]
    OBVIOUS
  <2>2. /\ Len(l) = 5 /\ DOMAIN l = 1 .. 5 /\ l[1] = "2006" /\ l[2] = "/" /\ l[3] = "1"
        /\ l[4] = "/" /\ l[5] = "2"
    BY <2>1, SixLayouts
  <2>3. \A j \in 1 .. 5 : Fits(l[j], s[j])
    <3>1. Fits(l[2], s[2]) /\ Fits(l[4], s[4])
      BY <2>2, FitsMark DEF ThreeNumbers
    <3>2. Fits(l[1], s[1]) /\ Fits(l[3], s[3]) /\ Fits(l[5], s[5])
      BY <1>2, <2>2, FitsNumber, ElementWidths DEF ThreeNumbers
    <3> QED
      BY <1>0, <3>1, <3>2
  <2>4. /\ Elements(l[1]) = "year" /\ Elements(l[5]) = "day" /\ Elements(l[3]) = "month"
        /\ Elements(l[2]) = "mark" /\ Elements(l[4]) = "mark"
    BY <2>2, ElementKinds
  <2>5. Parse(l, s) = IF /\ \A j \in 1 .. 5 : Fits(l[j], s[j])
                         /\ s[3].v \in 1 .. 12 /\ s[5].v \in 1 .. DaysIn(s[3].v, Year(s[1]))
                      THEN Day(Year(s[1]), s[3].v, s[5].v) ELSE NoDate
    BY <1>0, <2>2, <2>4, ParseDay
  <2>6. y = Year(s[1]) /\ m = s[3].v /\ d = s[5].v
    BY <1>2 DEF DayAt, Day, Year
  <2>7. Parse(l, s) = Day(y, m, d)
    BY <2>3, <2>5, <2>6, Zenon
  <2> QED
    BY <2>1, <2>7, DayIsDate, Zenon
<1>3. CASE s[1].w \in {1, 2} /\ s[5].w \in {2, 4}
  <2>1. Widths(DayLayouts[2][5]) = {4} /\ Widths(DayLayouts[4][5]) = {2}
    BY SixLayouts, ElementWidths
  <2> QED
    BY <1>0, <1>1, <1>3, <2>1
<1>4. CASE s[1].w = 4 /\ s[5].w \in {1, 2}
  BY <1>0, <1>2, <1>4
<1> QED
  BY <1>3, <1>4

\* The k-th of the places is the one with k of them up to it.
LEMMA Nth ==
  ASSUME NEW n \in Nat, NEW I \in SUBSET (1 .. n), NEW i \in I, NEW text
  PROVE  EntriesAt(text, I)[Cardinality({j \in I : j <= i})] = text[i]
<1>1. CountedOff(I)
  BY OrderedPlaces
<1>2. PICK k \in 1 .. Cardinality(I) : InOrder(I)[k] = i
  BY <1>1, Zenon DEF CountedOff
<1>3. Cardinality({j \in I : j <= i}) = k
  BY <1>1, <1>2, Zenon DEF CountedOff
<1>4. EntriesAt(text, I)[k] = text[InOrder(I)[k]]
  BY DEF EntriesAt
<1> QED
  BY <1>2, <1>3, <1>4, Zenon

LEMMA OddPlaces ==
  /\ Cardinality({1}) = 1 /\ Cardinality({1, 3}) = 2 /\ Cardinality({1, 3, 5}) = 3
  /\ IsFiniteSet({1, 3, 5})
<1>1. IsFiniteSet({1}) /\ Cardinality({1}) = 1
  BY FS_Singleton
<1>2. /\ {1, 3} = {1} \cup {3} /\ {1, 3, 5} = {1, 3} \cup {5}
      /\ 3 \notin {1} /\ 5 \notin {1, 3}
  OBVIOUS
<1>3. IsFiniteSet({1, 3}) /\ Cardinality({1, 3}) = 2
  BY <1>1, <1>2, FS_AddElement
<1>4. IsFiniteSet({1, 3, 5}) /\ Cardinality({1, 3, 5}) = 3
  BY <1>2, <1>3, FS_AddElement
<1> QED
  BY <1>1, <1>3, <1>4

\* The numbers of a text, in order.
NumberPlaces(text) == {i \in DOMAIN text : text[i].t = "num"}
NumbersOf(text) == EntriesAt(text, NumberPlaces(text))

LEMMA ThreeInFront ==
  ASSUME NEW N \in Nat, N >= 5, NEW text, DOMAIN text = 1 .. N,
         text[1].t = "num", text[3].t = "num", text[5].t = "num",
         text[2].t # "num", text[4].t # "num"
  PROVE  /\ NumbersOf(text)[1] = text[1] /\ NumbersOf(text)[2] = text[3]
         /\ NumbersOf(text)[3] = text[5]
<1>1. PICK I : I = NumberPlaces(text)
  OBVIOUS
<1>2. /\ I \in SUBSET (1 .. N) /\ 1 \in I /\ 3 \in I /\ 5 \in I
      /\ \A j \in I : j \in 1 .. N /\ j # 2 /\ j # 4
  BY <1>1 DEF NumberPlaces
<1>3. {j \in I : j <= 1} = {1}
  <2>1. ASSUME NEW j \in I, j <= 1 PROVE j = 1
    <3>1. j \in 1 .. N
      BY <1>2, Zenon
    <3> QED
      BY <2>1, <3>1
  <2>2. 1 <= 1
    OBVIOUS
  <2> QED
    BY <1>2, <2>1, <2>2, Zenon
<1>4. {j \in I : j <= 3} = {1, 3}
  <2>1. ASSUME NEW j \in I, j <= 3 PROVE j \in {1, 3}
    <3>1. j \in 1 .. N /\ j # 2
      BY <1>2, Zenon
    <3>2. j \in {1, 2, 3}
      BY <2>1, <3>1
    <3> QED
      BY <3>1, <3>2, Zenon
  <2>2. 1 <= 3 /\ 3 <= 3
    OBVIOUS
  <2> QED
    BY <1>2, <2>1, <2>2, Zenon
<1>5. {j \in I : j <= 5} = {1, 3, 5}
  <2>1. ASSUME NEW j \in I, j <= 5 PROVE j \in {1, 3, 5}
    <3>1. j \in 1 .. N /\ j # 2 /\ j # 4
      BY <1>2
    <3>2. j \in {1, 2, 3, 4, 5}
      BY <2>1, <3>1
    <3> QED
      BY <3>1, <3>2, Zenon
  <2>2. 1 <= 5 /\ 3 <= 5 /\ 5 <= 5
    OBVIOUS
  <2> QED
    BY <1>2, <2>1, <2>2, Zenon
<1>6. /\ Cardinality({j \in I : j <= 1}) = 1 /\ Cardinality({j \in I : j <= 3}) = 2
      /\ Cardinality({j \in I : j <= 5}) = 3
  BY <1>3, <1>4, <1>5, OddPlaces, Zenon
<1>7. \A i \in I : EntriesAt(text, I)[Cardinality({j \in I : j <= i})] = text[i]
  BY <1>2, Nth, Zenon
<1>8. EntriesAt(text, I)[1] = text[1] /\ EntriesAt(text, I)[2] = text[3] /\ EntriesAt(text, I)[3] = text[5]
  BY <1>2, <1>6, <1>7, Zenon
<1> QED
  BY <1>1, <1>8, Zenon DEF NumbersOf

\* Slashed changes marks only.
LEMMA SlashedText ==
  ASSUME NEW N \in Nat, NEW text, DOMAIN text = 1 .. N
  PROVE  /\ DOMAIN Slashed(text) = 1 .. N /\ Len(Slashed(text)) = N
         /\ \A i \in 1 .. N :
                \/ Slashed(text)[i] = text[i] /\ text[i].t \notin {".", "-"}
                \/ Slashed(text)[i].t = "/" /\ text[i].t \in {".", "-"}
<1>1. PICK s : s = Slashed(text)
  OBVIOUS
<1>2. s = [i \in 1 .. N |-> IF text[i].t \in {".", "-"} THEN Mark("/") ELSE text[i]]
  BY <1>1 DEF Slashed
<1>3. s = [i \in 1 .. N |-> s[i]]
  BY <1>2
<1>4. DOMAIN s = 1 .. N /\ Len(s) = N
  BY <1>3, LengthOf, Zenon
<1>5. Mark("/").t = "/"
  BY DEF Mark
<1>6. \A i \in 1 .. N : s[i] = IF text[i].t \in {".", "-"} THEN Mark("/") ELSE text[i]
  BY <1>2
<1>7. ASSUME NEW i \in 1 .. N
      PROVE  \/ s[i] = text[i] /\ text[i].t \notin {".", "-"}
             \/ s[i].t = "/" /\ text[i].t \in {".", "-"}
  BY <1>5, <1>6, Zenon
<1> QED
  BY <1>1, <1>4, <1>7, Zenon

\* Three numbers that Slashed leaves in front are the first of the text.
LEMMA NumbersInFront ==
  ASSUME NEW N \in Nat, N >= 5, NEW text, DOMAIN text = 1 .. N, ThreeNumbers(Slashed(text))
  PROVE  DayMeant(NumbersOf(text)) = DayAt(Slashed(text))
<1>1. PICK s : s = Slashed(text)
  OBVIOUS
<1>n. 1 \in 1 .. N /\ 2 \in 1 .. N /\ 3 \in 1 .. N /\ 4 \in 1 .. N /\ 5 \in 1 .. N
  OBVIOUS
<1>2. \A i \in 1 .. N : \/ s[i] = text[i] /\ text[i].t \notin {".", "-"}
                        \/ s[i].t = "/" /\ text[i].t \in {".", "-"}
  BY <1>1, SlashedText, Zenon
<1>3. /\ s[1].t = "num" /\ s[3].t = "num" /\ s[5].t = "num" /\ s[2].t = "/" /\ s[4].t = "/"
  BY <1>1, Zenon DEF ThreeNumbers
<1>4. s[1] = text[1] /\ s[3] = text[3] /\ s[5] = text[5]
  BY <1>2, <1>3, <1>n
<1>5. text[1].t = "num" /\ text[3].t = "num" /\ text[5].t = "num"
  BY <1>3, <1>4
<1>6. text[2].t # "num" /\ text[4].t # "num"
  BY <1>2, <1>3, <1>n
<1>7. PICK n : n = NumbersOf(text)
  OBVIOUS
<1>8. n[1] = s[1] /\ n[2] = s[3] /\ n[3] = s[5]
  BY <1>4, <1>5, <1>6, <1>7, ThreeInFront, Zenon
<1>9. DayMeant(n) = DayAt(s)
  BY <1>8, Zenon DEF DayMeant, DayAt, Day
<1> QED
  BY <1>1, <1>7, <1>9, Zenon

\* What is before the first space is the front of the text.
LEMMA FrontOf ==
  ASSUME NEW N \in Nat, NEW s, DOMAIN s = 1 .. N, BeforeSpace(s) # Absent
  PROVE  \E k \in 1 .. N : /\ Len(BeforeSpace(s)) = k - 1
                           /\ \A i \in 1 .. k - 1 : BeforeSpace(s)[i] = s[i]
<1> DEFINE sp == {i \in DOMAIN s : s[i].t = " "}
           k == CHOOSE i \in sp : \A j \in sp : i <= j
<1>1. BeforeSpace(s) = IF sp = {} THEN Absent ELSE SubSeq(s, 1, k - 1)
  BY Zenon DEF BeforeSpace
<1>2. sp # {} /\ sp \in SUBSET (1 .. N)
  BY <1>1, Zenon
<1>3. k \in 1 .. N
  <2>1. \E i \in sp : \A j \in sp : i <= j
    <3> HIDE DEF sp
    <3> QED
      BY <1>2, FirstPlace
  <2>2. k \in sp
    BY <2>1, Zenon
  <2> QED
    BY <1>2, <2>2, Zenon
<1>4. BeforeSpace(s) = SubSeq(s, 1, k - 1)
  BY <1>1, <1>2, Zenon
<1> HIDE DEF sp, k
<1>5. Len(SubSeq(s, 1, k - 1)) = k - 1 /\ \A i \in 1 .. k - 1 : SubSeq(s, 1, k - 1)[i] = s[i]
  <2>1. PICK T : T = {s[i] : i \in 1 .. k - 1}
    OBVIOUS
  <2>2. \A i \in 1 .. k - 1 : s[i] \in T
    BY <2>1
  <2>3. k - 1 \in Int /\ k - 1 \in Nat
    BY <1>3
  <2>4. /\ Len(SubSeq(s, 1, k - 1)) = IF 1 <= k - 1 THEN (k - 1) - 1 + 1 ELSE 0
        /\ \A i \in 1 .. (k - 1) - 1 + 1 : SubSeq(s, 1, k - 1)[i] = s[1 + i - 1]
    BY <2>2, <2>3, SubSeqProperties
  <2> QED
    BY <2>3, <2>4
<1> QED
  BY <1>3, <1>4, <1>5, Zenon

\* Every day that DateToISO reads is the one that was printed.
LEMMA DayAsPrinted ==
  ASSUME NEW N \in Nat, NEW text, DOMAIN text = 1 .. N, DateOf(text) # NoDate
  PROVE  DateOf(text) = DayMeant(NumbersOf(text))
<1>1. PICK s : s = Slashed(text)
  OBVIOUS
<1>2. DOMAIN s = 1 .. N /\ Len(s) = N
  BY <1>1, SlashedText, Zenon
<1>3. DateOf(text) = IF FirstReading(DayLayouts, s) # NoDate THEN FirstReading(DayLayouts, s)
                     ELSE FirstReading(DayLayouts, BeforeSpace(s))
  BY <1>1, Zenon DEF DateOf
<1>4. PICK t : /\ t \in {s, BeforeSpace(s)} /\ DateOf(text) = FirstReading(DayLayouts, t)
  BY <1>3
<1>5. PICK i \in 1 .. 6 : Parse(DayLayouts[i], t) = DateOf(text)
  BY <1>4, FirstOfReadings
<1>6. Len(t) = 5 /\ ThreeNumbers(t) /\ DateOf(text) = DayAt(t)
  BY <1>5, DayRead, Zenon
<1>7. N >= 5 /\ t[1] = s[1] /\ t[2] = s[2] /\ t[3] = s[3] /\ t[4] = s[4] /\ t[5] = s[5]
  <2>1. CASE t = s
    <3>1. N = 5
      BY <1>2, <1>6, <2>1, Zenon
    <3>2. N >= 5
      BY <3>1
    <3> QED
      BY <2>1, <3>2, Zenon
  <2>2. CASE t = BeforeSpace(s)
    <3>1. Len(Absent) = 0
      BY DEF Absent
    <3>2. BeforeSpace(s) # Absent
      BY <1>6, <2>2, <3>1
    <3>3. PICK k \in 1 .. N : Len(t) = k - 1 /\ \A j \in 1 .. k - 1 : t[j] = s[j]
      <4>1. \E k \in 1 .. N : /\ Len(BeforeSpace(s)) = k - 1
                              /\ \A j \in 1 .. k - 1 : BeforeSpace(s)[j] = s[j]
        BY <1>2, <3>2, FrontOf
      <4> QED
        BY <2>2, <4>1, Zenon
    <3>4. k - 1 = 5 /\ \A j \in 1 .. 5 : t[j] = s[j]
      BY <1>6, <3>3, Zenon
    <3>5. N >= 5
      BY <3>4
    <3>6. 1 \in 1 .. 5 /\ 2 \in 1 .. 5 /\ 3 \in 1 .. 5 /\ 4 \in 1 .. 5 /\ 5 \in 1 .. 5
      OBVIOUS
    <3> QED
      BY <3>4, <3>5, <3>6, Zenon
  <2> QED
    BY <1>4, <2>1, <2>2
<1>8. ThreeNumbers(s) /\ DayAt(t) = DayAt(s)
  BY <1>6, <1>7, Zenon DEF ThreeNumbers, DayAt
<1>9. DayMeant(NumbersOf(text)) = DayAt(s)
  BY <1>1, <1>7, <1>8, NumbersInFront, Zenon
<1> QED
  BY <1>6, <1>8, <1>9, Zenon

\* The usual form of a day.
Usual(text, n) ==
    /\ Len(text) = 5 /\ Len(n) = 3
    /\ \A i \in {2, 4} : text[i].t \in {"/", "-", "."}
    /\ n[2].w \in {1, 2}
    /\ \/ n[1].w \in {1, 2} /\ n[3].w \in {2, 4}
       \/ n[1].w = 4 /\ n[3].w \in {1, 2}

LEMMA UsualNumbers ==
  ASSUME NEW text, DOMAIN text = 1 .. 5, Usual(text, NumbersOf(text))
  PROVE  ThreeNumbers(Slashed(text))
<1>1. PICK I : I = NumberPlaces(text)
  OBVIOUS
<1>2. /\ text[2].t \in {"/", "-", "."} /\ text[4].t \in {"/", "-", "."}
  BY Zenon DEF Usual
<1>3. I \in SUBSET {1, 3, 5}
  <2>1. 1 .. 5 = {1, 2, 3, 4, 5}
    OBVIOUS
  <2>2. \A i \in I : i \in {1, 2, 3, 4, 5} /\ text[i].t = "num"
    BY <1>1, <2>1, Zenon DEF NumberPlaces
  <2>3. text[2].t # "num" /\ text[4].t # "num"
    BY <1>2
  <2> QED
    BY <2>2, <2>3, Zenon
<1>4. Cardinality(I) = 3
  <2>1. 5 \in Nat /\ I \in SUBSET (1 .. 5)
    BY <1>3
  <2>2. Len(EntriesAt(text, I)) = Cardinality(I)
    BY <2>1, Filtered, Zenon
  <2>3. Len(EntriesAt(text, I)) = 3
    BY <1>1, Zenon DEF Usual, NumbersOf
  <2> QED
    BY <2>2, <2>3, Zenon
<1>5. I = {1, 3, 5}
  BY <1>3, <1>4, OddPlaces, FS_Subset
<1>6. text[1].t = "num" /\ text[3].t = "num" /\ text[5].t = "num"
  <2>1. 1 \in I /\ 3 \in I /\ 5 \in I
    BY <1>5, Zenon
  <2> QED
    BY <1>1, <2>1, Zenon DEF NumberPlaces
<1>7. PICK s : s = Slashed(text)
  OBVIOUS
<1>8. \A i \in 1 .. 5 : \/ s[i] = text[i] /\ text[i].t \notin {".", "-"}
                        \/ s[i].t = "/" /\ text[i].t \in {".", "-"}
  <2>1. 5 \in Nat
    OBVIOUS
  <2> QED
    BY <1>7, <2>1, SlashedText, Zenon
<1>9. s[1].t = "num" /\ s[3].t = "num" /\ s[5].t = "num"
  BY <1>6, <1>8
<1>10. s[2].t = "/" /\ s[4].t = "/"
  BY <1>2, <1>8
<1> QED
  BY <1>7, <1>9, <1>10, Zenon DEF ThreeNumbers

\* A day of the calendar in the usual form is not lost.
LEMMA UsualKept ==
  ASSUME NEW text, DOMAIN text = 1 .. 5, NEW n, n = NumbersOf(text), Usual(text, n),
         DayMeant(n).m \in 1 .. 12,
         DayMeant(n).d \in 1 .. DaysIn(DayMeant(n).m, DayMeant(n).y)
  PROVE  DateOf(text) # NoDate
<1>1. PICK s : s = Slashed(text)
  OBVIOUS
<1>0. 5 \in Nat /\ 5 >= 5 /\ 1 \in 1 .. 5 /\ 2 \in 1 .. 5 /\ 3 \in 1 .. 5 /\ 4 \in 1 .. 5 /\ 5 \in 1 .. 5
  OBVIOUS
<1>2. Len(s) = 5 /\ ThreeNumbers(s)
  BY <1>0, <1>1, SlashedText, UsualNumbers, Zenon
<1>3. DayMeant(n) = DayAt(s)
  BY <1>0, <1>1, <1>2, NumbersInFront, Zenon
<1>4. n[1] = s[1] /\ n[2] = s[3] /\ n[3] = s[5]
  <2>1. \A i \in 1 .. 5 : \/ s[i] = text[i] /\ text[i].t \notin {".", "-"}
                          \/ s[i].t = "/" /\ text[i].t \in {".", "-"}
    BY <1>0, <1>1, SlashedText, Zenon
  <2>2. s[1] = text[1] /\ s[3] = text[3] /\ s[5] = text[5]
    BY <1>0, <1>2, <2>1 DEF ThreeNumbers
  <2>3. text[1].t = "num" /\ text[3].t = "num" /\ text[5].t = "num"
    BY <1>2, <2>2, Zenon DEF ThreeNumbers
  <2>4. text[2].t # "num" /\ text[4].t # "num"
    BY <1>0, <1>2, <2>1 DEF ThreeNumbers
  <2> QED
    BY <1>0, <2>2, <2>3, <2>4, ThreeInFront, Zenon
<1>5. /\ s[3].w \in {1, 2}
      /\ \/ s[1].w \in {1, 2} /\ s[5].w \in {2, 4}
         \/ s[1].w = 4 /\ s[5].w \in {1, 2}
  BY <1>4, Zenon DEF Usual
<1>6. PICK y, m, d : DayAt(s) = Day(y, m, d)
  BY Zenon DEF DayAt
<1>7. m \in 1 .. 12 /\ d \in 1 .. DaysIn(m, y)
  <2>1. DayMeant(n).y = y /\ DayMeant(n).m = m /\ DayMeant(n).d = d
    BY <1>3, <1>6 DEF Day
  <2> QED
    BY <2>1, Zenon
<1>8. \E i \in 1 .. 6 : Parse(DayLayouts[i], s) # NoDate
  BY <1>2, <1>5, <1>6, <1>7, UsualRead
<1>9. FirstReading(DayLayouts, s) # NoDate
  BY <1>8, FirstOfReadings, Zenon
<1> QED
  BY <1>1, <1>9, Zenon DEF DateOf

LEMMA OneNumber ==
  ASSUME NEW N \in Nat, NEW text, NEW k \in 1 .. N, NumberPlaces(text) = {k}
  PROVE  NumbersOf(text)[1] = text[k]
<1>1. PICK I : I = {k}
  OBVIOUS
<1>2. I \in SUBSET (1 .. N) /\ k \in I /\ {j \in I : j <= k} = {k}
  BY <1>1
<1>3. Cardinality({j \in I : j <= k}) = 1
  BY <1>2, FS_Singleton
<1>4. EntriesAt(text, I)[Cardinality({j \in I : j <= k})] = text[k]
  BY <1>2, Nth
<1> QED
  BY <1>1, <1>3, <1>4, Zenon DEF NumbersOf

LEMMA TwoNumbers ==
  ASSUME NEW text, NumberPlaces(text) = {1, 3}
  PROVE  NumbersOf(text)[1] = text[1] /\ NumbersOf(text)[2] = text[3]
<1>1. PICK I : I = {1, 3}
  OBVIOUS
<1>2. 3 \in Nat /\ I \in SUBSET (1 .. 3) /\ 1 \in I /\ 3 \in I
  BY <1>1
<1>3. {j \in I : j <= 1} = {1} /\ {j \in I : j <= 3} = {1, 3}
  BY <1>1
<1>4. Cardinality({j \in I : j <= 1}) = 1 /\ Cardinality({j \in I : j <= 3}) = 2
  BY <1>3, OddPlaces, Zenon
<1>5. \A i \in I : EntriesAt(text, I)[Cardinality({j \in I : j <= i})] = text[i]
  BY <1>2, Nth, Zenon
<1> QED
  BY <1>1, <1>2, <1>4, <1>5, Zenon DEF NumbersOf

\* A month that a layout reads in the whole text is the one that was printed.
LEMMA MonthRead ==
  ASSUME NEW N \in Nat, NEW text, DOMAIN text = 1 .. N, NEW i \in 1 .. 10,
         Parse(MonthLayouts[i], Slashed(text)) # NoDate
  PROVE  Parse(MonthLayouts[i], Slashed(text))
           = Day(MonthMeant(text, NumbersOf(text)).y, MonthMeant(text, NumbersOf(text)).m, 1)
<1>1. PICK s, l, n : s = Slashed(text) /\ l = MonthLayouts[i] /\ n = NumbersOf(text)
  BY Zenon
<1>2. /\ Len(l) = 3 /\ DOMAIN l = 1 .. 3 /\ l[2] \in {"/", " "}
      /\ \/ l[1] = "2006" /\ l[3] \in {"01", "1"}
         \/ l[1] \in {"01", "1"} /\ l[3] \in {"2006", "06"}
         \/ l[1] \in {"January", "Jan"} /\ l[3] = "2006"
  BY <1>1, MonthShapes, Zenon
<1>3. Len(s) = 3 /\ N = 3
  <2>1. Len(s) = N
    BY <1>1, SlashedText, Zenon
  <2>2. Len(s) = 3
    BY <1>1, <1>2, WrongLength, Zenon
  <2> QED
    BY <2>1, <2>2, Zenon
<1>4. 1 .. 3 = {1, 2, 3} /\ 1 \in {1, 3} /\ 3 \in {1, 3} /\ 1 # 3
  OBVIOUS
<1>5. \A j \in {1, 2, 3} : \/ s[j] = text[j] /\ text[j].t \notin {".", "-"}
                           \/ s[j].t = "/" /\ text[j].t \in {".", "-"}
  BY <1>1, <1>3, <1>4, SlashedText, Zenon
<1>6. Elements(l[2]) = "mark"
  BY <1>2, ElementKinds
<1>7. ASSUME \A j \in 1 .. 3 : Fits(l[j], s[j]) PROVE text[2].t # "num"
  <2>1. s[2].t = l[2]
    BY <1>2, <1>4, <1>7, FitsMark
  <2> QED
    BY <1>2, <1>5, <2>1
<1>8. CASE l[1] = "2006" /\ l[3] \in {"01", "1"}
  <2>1. Elements(l[1]) = "year" /\ Elements(l[3]) = "month"
    BY <1>8, ElementKinds
  <2>2. Parse(l, s) = IF (\A j \in 1 .. 3 : Fits(l[j], s[j])) /\ s[3].v \in 1 .. 12
                      THEN Day(Year(s[1]), s[3].v, 1) ELSE NoDate
    BY <1>2, <1>3, <1>4, <1>6, <2>1, ParseMonth
  <2>3. (\A j \in 1 .. 3 : Fits(l[j], s[j])) /\ Parse(l, s) = Day(Year(s[1]), s[3].v, 1)
    BY <1>1, <2>2, Zenon
  <2>4. s[1].t = "num" /\ s[1].w = 4 /\ s[3].t = "num"
    BY <1>4, <1>8, <2>3, FitsNumber, ElementWidths
  <2>5. text[1] = s[1] /\ text[3] = s[3]
    BY <1>5, <2>4
  <2>6. text[2].t # "num"
    BY <1>7, <2>3
  <2>7. NumberPlaces(text) = {1, 3}
    BY <1>3, <1>4, <2>4, <2>5, <2>6 DEF NumberPlaces
  <2>8. n[1] = s[1] /\ n[2] = s[3]
    BY <1>1, <2>5, <2>7, TwoNumbers, Zenon
  <2>9. MonthMeant(text, n) = [y |-> s[1].v, m |-> s[3].v]
    BY <2>4, <2>5, <2>8, Zenon DEF MonthMeant
  <2>10. Year(s[1]) = s[1].v
    BY <2>4 DEF Year
  <2>11. MonthMeant(text, n).y = s[1].v /\ MonthMeant(text, n).m = s[3].v
    BY <2>9
  <2> QED
    BY <1>1, <2>3, <2>10, <2>11, Zenon
<1>9. CASE l[1] \in {"01", "1"} /\ l[3] \in {"2006", "06"}
  <2>1. Elements(l[1]) = "month" /\ Elements(l[3]) = "year"
    BY <1>9, ElementKinds
  <2>2. Parse(l, s) = IF (\A j \in 1 .. 3 : Fits(l[j], s[j])) /\ s[1].v \in 1 .. 12
                      THEN Day(Year(s[3]), s[1].v, 1) ELSE NoDate
    BY <1>2, <1>3, <1>4, <1>6, <2>1, ParseMonth
  <2>3. (\A j \in 1 .. 3 : Fits(l[j], s[j])) /\ Parse(l, s) = Day(Year(s[3]), s[1].v, 1)
    BY <1>1, <2>2, Zenon
  <2>4. s[1].t = "num" /\ s[1].w # 4 /\ s[3].t = "num"
    BY <1>4, <1>9, <2>3, FitsNumber, ElementWidths
  <2>5. text[1] = s[1] /\ text[3] = s[3]
    BY <1>5, <2>4
  <2>6. text[2].t # "num"
    BY <1>7, <2>3
  <2>7. NumberPlaces(text) = {1, 3}
    BY <1>3, <1>4, <2>4, <2>5, <2>6 DEF NumberPlaces
  <2>8. n[1] = s[1] /\ n[2] = s[3]
    BY <1>1, <2>5, <2>7, TwoNumbers, Zenon
  <2>9. MonthMeant(text, n) = [y |-> Year(s[3]), m |-> s[1].v]
    BY <2>4, <2>5, <2>8, Zenon DEF MonthMeant
  <2>10. MonthMeant(text, n).y = Year(s[3]) /\ MonthMeant(text, n).m = s[1].v
    BY <2>9
  <2> QED
    BY <1>1, <2>3, <2>10, Zenon
<1>10. CASE l[1] \in {"January", "Jan"} /\ l[3] = "2006"
  <2>1. Elements(l[1]) = "month" /\ Elements(l[3]) = "year"
    BY <1>10, ElementKinds
  <2>2. Parse(l, s) = IF (\A j \in 1 .. 3 : Fits(l[j], s[j])) /\ s[1].v \in 1 .. 12
                      THEN Day(Year(s[3]), s[1].v, 1) ELSE NoDate
    BY <1>2, <1>3, <1>4, <1>6, <2>1, ParseMonth
  <2>3. (\A j \in 1 .. 3 : Fits(l[j], s[j])) /\ Parse(l, s) = Day(Year(s[3]), s[1].v, 1)
    BY <1>1, <2>2, Zenon
  <2>4. s[1].t \in {"January", "Jan", "jan"} /\ s[3].t = "num" /\ s[3].w = 4
    BY <1>4, <1>10, <2>3, FitsName, FitsNumber, ElementWidths
  <2>5. text[1] = s[1] /\ text[3] = s[3]
    BY <1>5, <2>4
  <2>6. text[2].t # "num"
    BY <1>7, <2>3
  <2>7. NumberPlaces(text) = {3} /\ 3 \in 1 .. 3 /\ text[1].t # "num"
    BY <1>3, <1>4, <2>4, <2>5, <2>6 DEF NumberPlaces
  <2>8. n[1] = s[3]
    BY <1>1, <1>3, <2>5, <2>7, OneNumber, Zenon
  <2>9. MonthMeant(text, n) = [y |-> s[3].v, m |-> s[1].v]
    BY <2>5, <2>7, <2>8, Zenon DEF MonthMeant
  <2>10. Year(s[3]) = s[3].v
    BY <2>4 DEF Year
  <2>11. MonthMeant(text, n).y = s[3].v /\ MonthMeant(text, n).m = s[1].v
    BY <2>9
  <2> QED
    BY <1>1, <2>3, <2>10, <2>11, Zenon
<1> QED
  BY <1>2, <1>8, <1>9, <1>10

\* The Portuguese names that a word begins with: one of them at most leaves
\* nothing of it.
LEMMA PtNames ==
  ASSUME NEW tok
  PROVE  /\ \A p \in PtPrefixes(tok) :
                /\ tok.t \in {"janeiro", "jan", "January", "Jan"}
                /\ p.left \in {<<>>, <<Word(0, "other")>>}
         /\ \A p, q \in PtPrefixes(tok) : p.left = <<>> /\ q.left = <<>> => p = q
<1> DEFINE whole == [form |-> "janeiro", left |-> <<>>]
           short == [form |-> "jan", left |-> <<>>]
           rest == [form |-> "jan", left |-> <<Word(0, "other")>>]
<1>1. /\ whole.left = <<>> /\ short.left = <<>> /\ rest.left = <<Word(0, "other")>>
      /\ <<Word(0, "other")>> # <<>>
  OBVIOUS
<1>2. \/ PtPrefixes(tok) = {whole, rest} /\ tok.t = "janeiro"
      \/ PtPrefixes(tok) = {short} /\ tok.t \in {"jan", "Jan"}
      \/ PtPrefixes(tok) = {rest} /\ tok.t = "January"
      \/ PtPrefixes(tok) = {}
  <2>1. CASE tok.t = "janeiro"
    BY <2>1, Zenon DEF PtPrefixes
  <2>2. CASE tok.t = "jan"
    <3>1. tok.t # "janeiro" /\ tok.t \notin {"January", "Jan"}
      BY <2>2
    <3> QED
      BY <2>2, <3>1, Zenon DEF PtPrefixes
  <2>3. CASE tok.t = "Jan" /\ tok.v \in SharedShort
    <3>1. tok.t # "janeiro" /\ tok.t # "jan"
      BY <2>3
    <3> QED
      BY <2>3, <3>1, Zenon DEF PtPrefixes
  <2>4. CASE tok.t = "January" /\ tok.v \in SharedShort
    <3>1. tok.t # "janeiro" /\ tok.t # "jan" /\ tok.t # "Jan"
      BY <2>4
    <3> QED
      BY <2>4, <3>1, Zenon DEF PtPrefixes
  <2>5. CASE /\ tok.t \notin {"janeiro", "jan"}
             /\ ~(tok.t \in {"January", "Jan"} /\ tok.v \in SharedShort)
    BY <2>5, Zenon DEF PtPrefixes
  <2> QED
    BY <2>1, <2>2, <2>3, <2>4, <2>5
<1> HIDE DEF whole, short, rest
<1> QED
  BY <1>1, <1>2

\* What follows a name, if it is one token: the last of the text, with marks
\* between.
LEMMA OneAfterName ==
  ASSUME NEW N \in Nat, N > 0, NEW s, s = [i \in 1 .. N |-> s[i]]
  PROVE  \E S : /\ AfterName(s) \in Seq(S)
                /\ Len(AfterName(s)) = 1 =>
                       /\ N > 1 /\ AfterName(s)[1] = s[N]
                       /\ \A i \in 2 .. N - 1 : s[i].t \in {" ", "/"}
<1>1. PICK S : S = {s[i] : i \in 1 .. N}
  OBVIOUS
<1>2. s \in Seq(S) /\ Len(s) = N /\ s # <<>>
  <2>1. \A i \in 1 .. N : s[i] \in S
    BY <1>1
  <2>2. Len(s) = N
    BY LengthOf, Zenon
  <2>3. s \in Seq(S)
    BY <2>1, IsASeq
  <2>4. s # <<>>
    BY <2>2
  <2> QED
    BY <2>2, <2>3, <2>4
<1>m. PICK M \in Nat : N = M + 1 /\ M = N - 1
  OBVIOUS
<1>3. PICK tail : tail = Tail(s)
  OBVIOUS
<1>4. /\ tail \in Seq(S) /\ Len(tail) = M /\ \A i \in 1 .. M : tail[i] = s[i + 1]
  <2>1. /\ Tail(s) \in Seq(S) /\ Len(Tail(s)) = Len(s) - 1
        /\ \A i \in 1 .. Len(Tail(s)) : Tail(s)[i] = s[i + 1]
    BY <1>2, HeadTailProperties
  <2> QED
    BY <1>2, <1>3, <1>m, <2>1, Zenon
<1>5. DOMAIN tail = 1 .. M /\ \A i \in 1 .. M : tail[i] \in S
  BY <1>4, LenProperties, ElementOfSeq
<1> DEFINE n == {i \in DOMAIN tail : tail[i].t \notin {" ", "/"}}
           k == Min(n)
<1>6. AfterName(s) = IF n = {} THEN <<>> ELSE SubSeq(tail, k, Len(tail))
  BY <1>3, Zenon DEF AfterName
<1>7. CASE n = {}
  <2>1. AfterName(s) = <<>>
    BY <1>6, <1>7, Zenon
  <2>2. AfterName(s) \in Seq(S) /\ Len(AfterName(s)) # 1
    BY <2>1
  <2> QED
    BY <2>2, Zenon
<1>8. CASE n # {}
  <2>1. n \in SUBSET (1 .. M)
    BY <1>5, Zenon
  <2>2. \E i \in n : \A j \in n : i <= j
    <3> HIDE DEF n
    <3> QED
      BY <1>8, <2>1, FirstPlace
  <2>3. k \in n /\ \A j \in n : k <= j
    BY <2>2, Zenon DEF Min
  <2>4. AfterName(s) = SubSeq(tail, k, M)
    BY <1>4, <1>6, <1>8, Zenon
  <2>n. \A j \in 1 .. M : j \notin n => tail[j].t \in {" ", "/"}
    BY <1>5, Zenon
  <2> HIDE DEF k, n
  <2>5. k \in 1 .. M
    BY <2>1, <2>3
  <2>6. /\ SubSeq(tail, k, M) \in Seq(S)
        /\ Len(SubSeq(tail, k, M)) = IF k <= M THEN M - k + 1 ELSE 0
        /\ \A i \in 1 .. M - k + 1 : SubSeq(tail, k, M)[i] = tail[k + i - 1]
    <3>1. \A i \in k .. M : tail[i] \in S
      BY <1>5, <2>5
    <3>2. k \in Int /\ M \in Int
      BY <2>5
    <3> QED
      BY <3>1, <3>2, SubSeqProperties
  <2>7. ASSUME Len(AfterName(s)) = 1
        PROVE  /\ N > 1 /\ AfterName(s)[1] = s[N]
               /\ \A i \in 2 .. N - 1 : s[i].t \in {" ", "/"}
    <3>1. Len(SubSeq(tail, k, M)) = 1
      BY <2>4, <2>7, Zenon
    <3>0. k <= M /\ M - k + 1 = 1
      <4>1. k <= M
        BY <2>5
      <4> QED
        BY <2>6, <3>1, <4>1, Zenon
    <3>2. k = M /\ N > 1
      <4>1. PICK j \in 1 .. M : j = k
        BY <2>5
      <4>2. M - j + 1 = 1
        BY <3>0, <4>1, Zenon
      <4>3. j = M /\ M >= 1
        BY <4>2
      <4>4. N > 1
        BY <1>m, <4>3
      <4> QED
        BY <4>1, <4>3, <4>4, Zenon
    <3>3. SubSeq(tail, k, M)[1] = tail[M]
      <4>1. 1 \in 1 .. 1 /\ k + 1 - 1 = M
        BY <3>2
      <4> QED
        BY <2>6, <3>0, <4>1, Zenon
    <3>4. tail[M] = s[N]
      <4>1. M \in 1 .. M
        BY <2>5
      <4> QED
        BY <1>4, <1>m, <4>1, Zenon
    <3>5. ASSUME NEW i \in 2 .. N - 1 PROVE s[i].t \in {" ", "/"}
      <4>1. i - 1 \in 1 .. M /\ ~(k <= i - 1) /\ (i - 1) + 1 = i
        BY <1>m, <3>2
      <4>2. i - 1 \notin n
        BY <2>3, <4>1
      <4>3. tail[i - 1].t \in {" ", "/"}
        BY <2>n, <4>1, <4>2, Zenon
      <4>4. tail[i - 1] = s[i]
        BY <1>4, <4>1, Zenon
      <4> QED
        BY <4>3, <4>4, Zenon
    <3> QED
      BY <2>4, <3>2, <3>3, <3>4, <3>5, Zenon
  <2> QED
    BY <2>4, <2>6, <2>7, Zenon
<1> QED
  BY <1>7, <1>8

\* Three lists in a row, of which the first has two entries.
InARow(S, a, b, L, B, t) ==
  /\ a \in S /\ b \in S /\ L \in Seq(S) /\ B \in Seq(S)
  /\ Len(L) \in {0, 1} /\ t = <<a, b>> \o L \o B /\ Len(t) = 3
ThirdIs(a, L, B, t) ==
  /\ t[1] = a
  /\ Len(L) = 0 => Len(B) = 1 /\ t[3] = B[1]
  /\ Len(L) = 1 => t[3] = L[1]
LEMMA Row ==
  ASSUME NEW S, NEW a, NEW b, NEW L, NEW B, NEW t, InARow(S, a, b, L, B, t)
  PROVE  ThirdIs(a, L, B, t)
<1>0. /\ a \in S /\ b \in S /\ L \in Seq(S) /\ B \in Seq(S)
      /\ Len(L) \in {0, 1} /\ t = <<a, b>> \o L \o B /\ Len(t) = 3
  BY Zenon DEF InARow
<1>1. PICK A : A = <<a, b>>
  OBVIOUS
<1>2. A \in Seq(S) /\ Len(A) = 2 /\ A[1] = a
  BY <1>0, <1>1
<1>3. PICK C : C = A \o L
  OBVIOUS
<1>4. /\ C \in Seq(S) /\ Len(C) = 2 + Len(L)
      /\ \A i \in 1 .. 2 + Len(L) : C[i] = IF i <= 2 THEN A[i] ELSE L[i - 2]
  <2>1. /\ A \o L \in Seq(S) /\ Len(A \o L) = Len(A) + Len(L)
        /\ \A i \in 1 .. Len(A) + Len(L) : (A \o L)[i] = IF i <= Len(A) THEN A[i] ELSE L[i - Len(A)]
    BY <1>0, <1>2, ConcatProperties
  <2> QED
    BY <1>2, <1>3, <2>1, Zenon
<1>5. t = C \o B
  BY <1>0, <1>1, <1>3, Zenon
<1>6. /\ Len(t) = Len(C) + Len(B)
      /\ \A i \in 1 .. Len(C) + Len(B) : t[i] = IF i <= Len(C) THEN C[i] ELSE B[i - Len(C)]
  <2>1. /\ Len(C \o B) = Len(C) + Len(B)
        /\ \A i \in 1 .. Len(C) + Len(B) : (C \o B)[i] = IF i <= Len(C) THEN C[i] ELSE B[i - Len(C)]
    BY <1>0, <1>4, ConcatProperties
  <2> QED
    BY <1>5, <2>1, Zenon
<1>7. Len(B) \in Nat
  BY <1>0, LenProperties
<1>8. \A i \in 1 .. 3 : t[i] = IF i <= Len(C) THEN C[i] ELSE B[i - Len(C)]
  BY <1>0, <1>6, Zenon
<1>9. CASE Len(L) = 0
  <2>1. Len(C) = 2 /\ Len(B) = 1
    <3>1. 2 + 0 = 2
      OBVIOUS
    <3>2. Len(C) = 2
      BY <1>4, <1>9, <3>1, Zenon
    <3>3. PICK m \in Nat : m = Len(B)
      BY <1>7, Zenon
    <3>4. 3 = 2 + m
      BY <1>0, <1>6, <3>2, <3>3, Zenon
    <3>5. m = 1
      BY <3>4
    <3> QED
      BY <3>2, <3>3, <3>5, Zenon
  <2>2. t[1] = C[1] /\ t[3] = B[1]
    BY <1>8, <2>1
  <2>3. C[1] = A[1]
    BY <1>4, <1>9
  <2> QED
    BY <1>2, <1>9, <2>1, <2>2, <2>3 DEF ThirdIs
<1>10. CASE Len(L) = 1
  <2>1. Len(C) = 3
    BY <1>4, <1>10
  <2>2. t[1] = C[1] /\ t[3] = C[3]
    BY <1>8, <2>1
  <2>3. C[1] = A[1] /\ C[3] = L[1]
    BY <1>4, <1>10
  <2> QED
    BY <1>2, <1>10, <2>2, <2>3 DEF ThirdIs
<1> QED
  BY <1>0, <1>9, <1>10 DEF ThirdIs

LEMMA WiderSeq ==
  ASSUME NEW S, NEW X, NEW B \in Seq(S)
  PROVE  B \in Seq(S \cup X)
<1>1. Len(B) \in Nat /\ B = [i \in 1 .. Len(B) |-> B[i]]
  BY LenProperties
<1>2. \A i \in 1 .. Len(B) : B[i] \in S \cup X
  BY ElementOfSeq
<1>3. [i \in 1 .. Len(B) |-> B[i]] \in Seq(S \cup X)
  BY <1>1, <1>2, IsASeq
<1> QED
  BY <1>1, <1>3, Zenon

\* A Portuguese name is read with a year that is all that follows it.
LEMMA PtRead ==
  ASSUME NEW N \in Nat, N > 0, NEW s, s = [i \in 1 .. N |-> s[i]],
         NEW p \in PtPrefixes(s[1]), FirstReading(PtLayouts, PtTry(s, p)) # NoDate
  PROVE  /\ p.left = <<>> /\ Len(AfterName(s)) = 1
         /\ AfterName(s)[1].t = "num" /\ AfterName(s)[1].w = 4
         /\ FirstReading(PtLayouts, PtTry(s, p)) = Day(AfterName(s)[1].v, s[1].v, 1)
<1>1. PICK t, R : t = PtTry(s, p) /\ R = FirstReading(PtLayouts, PtTry(s, p))
  BY Zenon
<1>2. PICK i \in 1 .. 2 : Parse(PtLayouts[i], t) = R /\ R # NoDate
  <2>1. 2 \in Nat /\ DOMAIN PtLayouts = 1 .. 2
    BY PtShapes
  <2>2. \E i \in 1 .. 2 : Parse(PtLayouts[i], t) = FirstReading(PtLayouts, t)
    BY <1>1, <2>1, ReadByOne, Zenon
  <2> QED
    BY <1>1, <2>2, Zenon
<1>3. PICK l : l = PtLayouts[i]
  OBVIOUS
<1>4. /\ Len(l) = 3 /\ DOMAIN l = 1 .. 3 /\ l[1] \in {"January", "Jan"} /\ l[2] = " "
      /\ l[3] = "2006"
  BY <1>3, PtShapes, Zenon
<1>5. Len(t) = 3
  BY <1>2, <1>3, <1>4, WrongLength, Zenon
<1>6. Elements(l[1]) = "month" /\ Elements(l[2]) = "mark" /\ Elements(l[3]) = "year"
  BY <1>4, ElementKinds
<1>7. 1 .. 3 = {1, 2, 3} /\ 1 \in {1, 3} /\ 3 \in {1, 3} /\ 1 # 3
  OBVIOUS
<1>8. Parse(l, t) = IF (\A j \in 1 .. 3 : Fits(l[j], t[j])) /\ t[1].v \in 1 .. 12
                    THEN Day(Year(t[3]), t[1].v, 1) ELSE NoDate
  BY <1>4, <1>5, <1>6, <1>7, ParseMonth
<1>9. (\A j \in 1 .. 3 : Fits(l[j], t[j])) /\ R = Day(Year(t[3]), t[1].v, 1)
  BY <1>2, <1>3, <1>8, Zenon
<1>10. t[3].t = "num" /\ t[3].w = 4
  BY <1>4, <1>7, <1>9, FitsNumber, ElementWidths
<1>11. PICK w : w = Word(s[1].v, IF p.form = "jan" THEN "Jan" ELSE "January")
  OBVIOUS
<1>12. w.v = s[1].v /\ Word(0, "other").t = "other"
  BY <1>11 DEF Word
<1>13. PICK L, B : L = p.left /\ B = AfterName(s)
  BY Zenon
<1>14. t = <<w, Mark(" ")>> \o L \o B
  BY <1>1, <1>11, <1>13, Zenon DEF PtTry
<1>15. L \in {<<>>, <<Word(0, "other")>>}
  BY <1>13, PtNames, Zenon
<1>16. PICK S : B \in Seq(S)
  BY <1>13, OneAfterName, Zenon
<1>17. PICK U : U = S \cup {w, Mark(" "), Word(0, "other")}
  OBVIOUS
<1>18. /\ w \in U /\ Mark(" ") \in U /\ L \in Seq(U) /\ B \in Seq(U)
       /\ Len(L) \in {0, 1} /\ (Len(L) = 0 => L = <<>>) /\ (Len(L) = 1 => L[1].t = "other")
  <2>1. w \in U /\ Mark(" ") \in U /\ Word(0, "other") \in U
    BY <1>17
  <2>2. B \in Seq(U)
    BY <1>16, <1>17, WiderSeq
  <2>3. CASE L = <<>>
    <3>1. L \in Seq(U) /\ Len(L) = 0
      BY <2>3
    <3>2. 0 # 1 /\ 0 \in {0, 1}
      OBVIOUS
    <3> QED
      BY <2>1, <2>2, <2>3, <3>1, <3>2, Zenon
  <2>4. CASE L = <<Word(0, "other")>>
    <3>1. PICK o : o = Word(0, "other")
      OBVIOUS
    <3>2. L = <<o>> /\ o \in U /\ o.t = "other"
      BY <1>12, <2>1, <2>4, <3>1, Zenon
    <3>3. L \in Seq(U) /\ Len(L) = 1 /\ L[1] = o
      BY <3>2
    <3>4. L[1].t = "other"
      BY <3>2, <3>3, Zenon
    <3>5. 1 # 0 /\ 1 \in {0, 1}
      OBVIOUS
    <3> QED
      BY <2>1, <2>2, <3>3, <3>4, <3>5, Zenon
  <2> QED
    BY <1>15, <2>3, <2>4
<1>19. PICK b : b = Mark(" ")
  OBVIOUS
<1>20. /\ t[1] = w
       /\ Len(L) = 0 => Len(B) = 1 /\ t[3] = B[1]
       /\ Len(L) = 1 => t[3] = L[1]
  <2>1. b \in U /\ t = <<w, b>> \o L \o B
    BY <1>14, <1>18, <1>19, Zenon
  <2>2. w \in U /\ L \in Seq(U) /\ B \in Seq(U) /\ Len(L) \in {0, 1}
    BY <1>18, Zenon
  <2>3. InARow(U, w, b, L, B, t)
    BY <1>5, <2>1, <2>2, Zenon DEF InARow
  <2>4. ThirdIs(w, L, B, t)
    BY <2>3, Row, Zenon
  <2> QED
    BY <2>4, Zenon DEF ThirdIs
<1>21. Len(L) # 1
  <2>1. "other" # "num"
    OBVIOUS
  <2> QED
    BY <1>10, <1>18, <1>20, <2>1, Zenon
<1>22. L = <<>> /\ Len(B) = 1 /\ t[3] = B[1]
  BY <1>18, <1>20, <1>21
<1>23. Year(B[1]) = B[1].v
  BY <1>10, <1>22 DEF Year
<1>24. R = Day(B[1].v, s[1].v, 1)
  BY <1>9, <1>12, <1>20, <1>22, <1>23, Zenon
<1>25. B[1].t = "num" /\ B[1].w = 4
  BY <1>10, <1>22, Zenon
<1> QED
  BY <1>1, <1>13, <1>22, <1>24, <1>25, Zenon

\* No two Portuguese names both fit ...
LEMMA OnePtReading ==
  ASSUME NEW N \in Nat, NEW s, s = [i \in 1 .. N |-> s[i]],
         NEW a \in PtReadings(s), NEW b \in PtReadings(s)
  PROVE  a = b
<1>1. s # <<>>
  BY Zenon DEF PtReadings
<1>2. N > 0
  BY <1>1
<1>3. PICK p \in PtPrefixes(s[1]), q \in PtPrefixes(s[1]) :
        /\ a = FirstReading(PtLayouts, PtTry(s, p)) /\ a # NoDate
        /\ b = FirstReading(PtLayouts, PtTry(s, q)) /\ b # NoDate
  BY <1>1, Zenon DEF PtReadings
<1>4. p.left = <<>> /\ q.left = <<>>
  BY <1>2, <1>3, PtRead, Zenon
<1>5. p = q
  BY <1>4, PtNames, Zenon
<1> QED
  BY <1>3, <1>5, Zenon

LEMMA FirstMiddleLast ==
  ASSUME NEW N \in Nat, N > 1
  PROVE  1 \in 1 .. N /\ N \in 1 .. N /\ \A i \in 1 .. N : i = 1 \/ i = N \/ i \in 2 .. N - 1
OBVIOUS

\* ... and the month that is read is the one that was printed.
LEMMA PtMonth ==
  ASSUME NEW N \in Nat, NEW text, DOMAIN text = 1 .. N, NEW a \in PtReadings(Slashed(text))
  PROVE  a = Day(MonthMeant(text, NumbersOf(text)).y, MonthMeant(text, NumbersOf(text)).m, 1)
<1>1. PICK s, n : s = Slashed(text) /\ n = NumbersOf(text)
  BY Zenon
<1>2. /\ \A i \in 1 .. N : \/ s[i] = text[i] /\ text[i].t \notin {".", "-"}
                           \/ s[i].t = "/" /\ text[i].t \in {".", "-"}
      /\ DOMAIN s = 1 .. N
  BY <1>1, SlashedText, Zenon
<1>3. s = [i \in 1 .. N |-> s[i]]
  <2>1. s = [i \in 1 .. N |-> IF text[i].t \in {".", "-"} THEN Mark("/") ELSE text[i]]
    BY <1>1 DEF Slashed
  <2> QED
    BY <2>1
<1>4. s # <<>> /\ N > 0
  <2>1. s # <<>>
    BY <1>1, Zenon DEF PtReadings
  <2> QED
    BY <1>3, <2>1
<1>5. PICK p \in PtPrefixes(s[1]) : a = FirstReading(PtLayouts, PtTry(s, p)) /\ a # NoDate
  BY <1>1, <1>4, Zenon DEF PtReadings
<1>6. PICK B : B = AfterName(s)
  OBVIOUS
<1>7. Len(B) = 1 /\ B[1].t = "num" /\ B[1].w = 4 /\ a = Day(B[1].v, s[1].v, 1)
  BY <1>3, <1>4, <1>5, <1>6, PtRead, Zenon
<1>8. N > 1 /\ B[1] = s[N] /\ \A i \in 2 .. N - 1 : s[i].t \in {" ", "/"}
  BY <1>3, <1>4, <1>6, <1>7, OneAfterName, Zenon
<1>9. s[1].t \in {"janeiro", "jan", "January", "Jan"}
  BY PtNames, Zenon
<1>10. 1 \in 1 .. N /\ N \in 1 .. N /\ \A i \in 1 .. N : i = 1 \/ i = N \/ i \in 2 .. N - 1
  BY <1>8, FirstMiddleLast
<1>11. text[1] = s[1] /\ text[1].t # "num"
  BY <1>2, <1>9, <1>10
<1>12. text[N] = s[N] /\ text[N].t = "num"
  BY <1>2, <1>7, <1>8, <1>10
<1>13. ASSUME NEW i \in 1 .. N, text[i].t = "num" PROVE i = N
  <2>1. s[i] = text[i]
    BY <1>2, <1>13
  <2>2. i # 1
    BY <1>11, <1>13, Zenon
  <2>3. i \notin 2 .. N - 1
    <3>1. s[i].t \notin {" ", "/"}
      BY <1>13, <2>1
    <3> QED
      BY <1>8, <3>1, Zenon
  <2> QED
    BY <1>10, <2>2, <2>3, Zenon
<1>14. NumberPlaces(text) = {N}
  BY <1>10, <1>12, <1>13, Zenon DEF NumberPlaces
<1>15. n[1] = s[N]
  BY <1>1, <1>10, <1>12, <1>14, OneNumber, Zenon
<1>16. MonthMeant(text, n) = [y |-> B[1].v, m |-> s[1].v]
  BY <1>8, <1>11, <1>15, Zenon DEF MonthMeant
<1>17. MonthMeant(text, n).y = B[1].v /\ MonthMeant(text, n).m = s[1].v
  BY <1>16
<1> QED
  BY <1>1, <1>7, <1>17, Zenon

\* The month that normalizeCVDate reads, in figures or by name, is the one
\* that was printed.
LEMMA MonthAsPrinted ==
  ASSUME NEW N \in Nat, NEW text, DOMAIN text = 1 .. N, MonthOf(text) # NoDate
  PROVE  MonthOf(text)
           = Day(MonthMeant(text, NumbersOf(text)).y, MonthMeant(text, NumbersOf(text)).m, 1)
<1>1. PICK s, numeric, pt : /\ s = Slashed(text) /\ numeric = FirstReading(MonthLayouts, s)
                            /\ pt = PtReadings(s)
  BY Zenon
<1>2. MonthOf(text) = IF numeric # NoDate THEN numeric
                      ELSE IF pt # {} THEN CHOOSE date \in pt : TRUE ELSE NoDate
  BY <1>1, Zenon DEF MonthOf
<1>3. CASE numeric # NoDate
  <2>1. 10 \in Nat /\ DOMAIN MonthLayouts = 1 .. 10
    BY MonthShapes
  <2>2. PICK i \in 1 .. 10 : Parse(MonthLayouts[i], s) = numeric
    BY <1>1, <1>3, <2>1, ReadByOne, Zenon
  <2>3. Parse(MonthLayouts[i], Slashed(text)) # NoDate
    BY <1>1, <1>3, <2>2, Zenon
  <2>4. MonthOf(text) = Parse(MonthLayouts[i], Slashed(text))
    BY <1>1, <1>2, <1>3, <2>2, Zenon
  <2> QED
    BY <2>3, <2>4, MonthRead, Zenon
<1>4. CASE numeric = NoDate
  <2>1. MonthOf(text) \in PtReadings(Slashed(text))
    BY <1>1, <1>2, <1>4, Zenon
  <2> QED
    BY <2>1, PtMonth, Zenon
<1> QED
  BY <1>3, <1>4

\* What DateStoredAsPrinted asks of a date, printed and stored.
AsPrinted(text, stored) ==
  LET n == NumbersOf(text)
  IN  /\ Len(stored) = 5 => stored = ISO(DayMeant(n))
      /\ Len(stored) = 3 => /\ stored[1].v = MonthMeant(text, n).y
                            /\ stored[3].v = MonthMeant(text, n).m
      /\ Usual(text, n) /\ DayMeant(n).m \in 1 .. 12
                        /\ DayMeant(n).d \in 1 .. DaysIn(DayMeant(n).m, DayMeant(n).y)
         => Len(stored) = 5
      /\ \A a, b \in PtReadings(Slashed(text)) : a = b

LEMMA StoredForms ==
  /\ Len(Absent) = 0
  /\ \A date : Len(ISO(date)) = 5
  /\ \A date : /\ Len(YearMonth(date)) = 3
               /\ YearMonth(date)[1].v = date.y /\ YearMonth(date)[3].v = date.m
<1>1. Len(Absent) = 0
  BY DEF Absent
<1>2. ASSUME NEW date PROVE Len(ISO(date)) = 5
  BY DEF ISO
<1>3. ASSUME NEW date
      PROVE  /\ Len(YearMonth(date)) = 3
             /\ YearMonth(date)[1].v = date.y /\ YearMonth(date)[3].v = date.m
  <2>1. PICK y, m, a, b : y = date.y /\ m = date.m /\ a = Num(y, 4) /\ b = Num(m, 2)
    BY Zenon
  <2>2. a.v = y /\ b.v = m
    BY <2>1 DEF Num
  <2>3. YearMonth(date) = <<a, Mark("-"), b>>
    BY <2>1, Zenon DEF YearMonth
  <2>4. Len(YearMonth(date)) = 3 /\ YearMonth(date)[1] = a /\ YearMonth(date)[3] = b
    BY <2>3
  <2> QED
    BY <2>1, <2>2, <2>4, Zenon
<1> QED
  BY <1>1, <1>2, <1>3, Zenon

LEMMA TextPlaces ==
  ASSUME NEW text \in Text PROVE Len(text) \in Nat /\ DOMAIN text = 1 .. Len(text)
<1>1. text \in Seq(Token)
  BY Zenon DEF Text
<1> QED
  BY <1>1, LenProperties

\* No order of the Portuguese names changes what is read.
LEMMA OneName ==
  ASSUME NEW text \in Text PROVE \A a, b \in PtReadings(Slashed(text)) : a = b
<1>1. PICK N, s : N = Len(text) /\ s = Slashed(text)
  BY Zenon
<1>2. N \in Nat /\ DOMAIN text = 1 .. N
  BY <1>1, TextPlaces, Zenon
<1>3. s = [i \in 1 .. N |-> IF text[i].t \in {".", "-"} THEN Mark("/") ELSE text[i]]
  BY <1>1, <1>2 DEF Slashed
<1>4. s = [i \in 1 .. N |-> s[i]]
  BY <1>3
<1>5. \A a, b \in PtReadings(s) : a = b
  BY <1>2, <1>4, OnePtReading, Zenon
<1> QED
  BY <1>1, <1>5, Zenon

LEMMA UsualIsDay ==
  ASSUME NEW text \in Text, NEW n, n = NumbersOf(text), Usual(text, n),
         DayMeant(n).m \in 1 .. 12,
         DayMeant(n).d \in 1 .. DaysIn(DayMeant(n).m, DayMeant(n).y)
  PROVE  DateOf(text) # NoDate
<1>1. Len(text) = 5
  BY Zenon DEF Usual
<1>2. DOMAIN text = 1 .. 5
  BY <1>1, TextPlaces, Zenon
<1> QED
  BY <1>2, UsualKept, Zenon

\* DateToISO stores the day that was printed ...
LEMMA DayStored ==
  ASSUME NEW text \in Text PROVE AsPrinted(text, DateToISO(text))
<1>1. PICK n, stored : n = NumbersOf(text) /\ stored = DateToISO(text)
  BY Zenon
<1>2. 0 # 3 /\ 0 # 5 /\ 5 # 3
  OBVIOUS
<1>3. CASE DateOf(text) = NoDate
  <2>1. stored = Absent
    BY <1>1, <1>3, Zenon DEF DateToISO
  <2>2. Len(stored) = 0
    BY <2>1, StoredForms, Zenon
  <2>3. ~(/\ Usual(text, n) /\ DayMeant(n).m \in 1 .. 12
          /\ DayMeant(n).d \in 1 .. DaysIn(DayMeant(n).m, DayMeant(n).y))
    BY <1>1, <1>3, UsualIsDay, Zenon
  <2> QED
    BY <1>1, <1>2, <2>2, <2>3, OneName, Zenon DEF AsPrinted
<1>4. CASE DateOf(text) # NoDate
  <2>1. DateOf(text) = DayMeant(n)
    BY <1>1, <1>4, TextPlaces, DayAsPrinted, Zenon
  <2>2. stored = ISO(DayMeant(n))
    BY <1>1, <1>4, <2>1, Zenon DEF DateToISO
  <2>3. Len(stored) = 5
    BY <2>2, StoredForms, Zenon
  <2> QED
    BY <1>1, <1>2, <2>2, <2>3, OneName, Zenon DEF AsPrinted
<1> QED
  BY <1>3, <1>4

\* ... and normalizeCVDate the day or the month.
LEMMA MonthStored ==
  ASSUME NEW text \in Text PROVE AsPrinted(text, NormalizeCVDate(text))
<1>1. PICK n, stored : n = NumbersOf(text) /\ stored = NormalizeCVDate(text)
  BY Zenon
<1>2. 0 # 3 /\ 0 # 5 /\ 5 # 3
  OBVIOUS
<1>3. CASE DateToISO(text) # Absent
  <2>1. NormalizeCVDate(text) = DateToISO(text)
    BY <1>3, Zenon DEF NormalizeCVDate
  <2> QED
    BY <2>1, DayStored, Zenon
<1>4. CASE DateToISO(text) = Absent
  <2>1. DateOf(text) = NoDate
    <3>1. ASSUME DateOf(text) # NoDate PROVE FALSE
      <4>1. DateToISO(text) = ISO(DateOf(text))
        BY <3>1, Zenon DEF DateToISO
      <4> QED
        BY <1>2, <1>4, <4>1, StoredForms, Zenon
    <3> QED
      BY <3>1, Zenon
  <2>2. ~(/\ Usual(text, n) /\ DayMeant(n).m \in 1 .. 12
          /\ DayMeant(n).d \in 1 .. DaysIn(DayMeant(n).m, DayMeant(n).y))
    BY <1>1, <2>1, UsualIsDay, Zenon
  <2>3. CASE MonthOf(text) = NoDate
    <3>1. stored = Absent
      BY <1>1, <1>4, <2>3, Zenon DEF NormalizeCVDate
    <3>2. Len(stored) = 0
      BY <3>1, StoredForms, Zenon
    <3> QED
      BY <1>1, <1>2, <2>2, <3>2, OneName, Zenon DEF AsPrinted
  <2>4. CASE MonthOf(text) # NoDate
    <3>1. PICK y, m : y = MonthMeant(text, n).y /\ m = MonthMeant(text, n).m
      BY Zenon
    <3>2. MonthOf(text) = Day(y, m, 1)
      BY <1>1, <2>4, <3>1, TextPlaces, MonthAsPrinted, Zenon
    <3>3. stored = YearMonth(Day(y, m, 1))
      BY <1>1, <1>4, <2>4, <3>2, Zenon DEF NormalizeCVDate
    <3>4. Day(y, m, 1).y = y /\ Day(y, m, 1).m = m
      BY DEF Day
    <3>5. Len(stored) = 3 /\ stored[1].v = y /\ stored[3].v = m
      BY <3>3, <3>4, StoredForms, Zenon
    <3> QED
      BY <1>1, <1>2, <2>2, <3>1, <3>5, OneName, Zenon DEF AsPrinted
  <2> QED
    BY <2>3, <2>4
<1> QED
  BY <1>3, <1>4

\* The start of a job that is kept.
LEMMA JobDated ==
  ASSUME NEW list \in Seq(Job), NEW k \in DOMAIN CleanExperience(list), NEW e,
         e = list[InOrder(KeptExperience(list))[k]]
  PROVE  e.start \in Text /\ CleanExperience(list)[k].start = NormalizeCVDate(e.start)
<1>1. Len(list) \in Nat /\ DOMAIN list = 1 .. Len(list) /\ \A i \in 1 .. Len(list) : list[i] \in Job
  BY LenProperties, ElementOfSeq
<1>2. PICK I, kept, out : /\ I = KeptExperience(list) /\ kept = EntriesAt(list, I)
                          /\ out = CleanExperience(list)
  BY Zenon
<1>3. I \in SUBSET (1 .. Len(list))
  BY <1>1, <1>2, Zenon DEF KeptExperience
<1>4. out = [i \in DOMAIN kept |-> CleanJob(kept[i])]
  BY <1>2, ExperienceByJob, Zenon
<1>5. /\ DOMAIN kept = 1 .. Cardinality(I)
      /\ \A j \in 1 .. Cardinality(I) : InOrder(I)[j] \in I /\ kept[j] = list[InOrder(I)[j]]
  <2>1. PICK n \in Nat : n = Len(list)
    BY <1>1, Zenon
  <2>2. I \in SUBSET (1 .. n)
    BY <1>3, <2>1, Zenon
  <2>3. /\ DOMAIN EntriesAt(list, I) = 1 .. Cardinality(I)
        /\ \A j \in 1 .. Cardinality(I) :
               InOrder(I)[j] \in I /\ EntriesAt(list, I)[j] = list[InOrder(I)[j]]
    <3>1. CountedOff(I)
      BY <2>2, OrderedPlaces
    <3>2. PICK c, q : c = Cardinality(I) /\ q = InOrder(I)
      BY Zenon
    <3>3. q \in [1 .. c -> I]
      BY <3>1, <3>2, Zenon DEF CountedOff
    <3>4. PICK s : s = EntriesAt(list, I)
      OBVIOUS
    <3>5. s = [j \in 1 .. c |-> list[q[j]]]
      BY <3>2, <3>4, Zenon DEF EntriesAt
    <3>6. DOMAIN s = 1 .. c /\ \A j \in 1 .. c : q[j] \in I /\ s[j] = list[q[j]]
      BY <3>3, <3>5
    <3> QED
      BY <3>2, <3>4, <3>6, Zenon
  <2> QED
    BY <1>2, <2>3, Zenon
<1>6. k \in DOMAIN kept
  BY <1>2, <1>4
<1>7. kept[k] = e /\ e \in Job
  BY <1>1, <1>2, <1>3, <1>5, <1>6, Zenon
<1>8. out[k] = CleanJob(e)
  BY <1>4, <1>6, <1>7, Zenon
<1>9. PICK s, t, h :
        /\ s = NormalizeCVDate(e.start) /\ h = CleanStrings(e.highlights)
        /\ t = (IF e.current THEN Absent ELSE NormalizeCVDate(e.end))
  BY Zenon
<1>10. CleanJob(e) = [e EXCEPT !.start = s, !.end = t, !.highlights = h]
  BY <1>9, Zenon DEF CleanJob
<1>11. CleanJob(e).start = s /\ e.start \in Text
  BY <1>7, <1>10 DEF Job
<1> QED
  BY <1>2, <1>8, <1>9, <1>11, Zenon

LEMMA IdentityDates ==
  ASSUME Inv, stage = "stored", paper.doc = "identity_document"
  PROVE  /\ AsPrinted(paper.fields.data_nascimento, fields.data_nascimento)
         /\ AsPrinted(paper.fields.validade, fields.validade)
<1>1. PICK f : Answered(f) /\ fields = NormalizeResult(paper.doc, f)
  BY DEF Inv, Decoded
<1>2. PICK r : r = paper.fields
  OBVIOUS
<1>3. r \in IdentityResult
  BY <1>2, PaperType DEF Inv
<1>4. /\ f.data_nascimento = r.data_nascimento /\ f.validade = r.validade
      /\ DOMAIN f = {"tipo", "cpf", "numero_documento", "data_nascimento", "validade"}
  <2>1. Misreadings(paper) = {[r EXCEPT !.cpf = s] : s \in Misread(r.cpf)}
    BY <1>2, Zenon DEF Misreadings
  <2>2. f = r \/ \E s \in Misread(r.cpf) : f = [r EXCEPT !.cpf = s]
    BY <1>1, <1>2, <2>1, Zenon DEF Answered
  <2> QED
    BY <1>3, <2>2 DEF IdentityResult
<1>5. fields = NormalizeIdentity(f)
  BY <1>1 DEF NormalizeResult
<1>6. PICK a, b, c, d, e :
        /\ fields = [f EXCEPT !.tipo = a, !.cpf = b, !.numero_documento = c,
                              !.data_nascimento = d, !.validade = e]
        /\ d = DateToISO(f.data_nascimento) /\ e = DateToISO(f.validade)
  BY <1>5, Zenon DEF NormalizeIdentity
<1>7. fields.data_nascimento = d /\ fields.validade = e
  BY <1>4, <1>6
<1>8. r.data_nascimento \in Text /\ r.validade \in Text
  BY <1>3 DEF IdentityResult
<1>9. fields.data_nascimento = DateToISO(r.data_nascimento) /\ fields.validade = DateToISO(r.validade)
  BY <1>4, <1>6, <1>7, Zenon
<1> QED
  BY <1>2, <1>8, <1>9, DayStored, Zenon

LEMMA InvoiceDate ==
  ASSUME Inv, stage = "stored", paper.doc = "invoice_nf"
  PROVE  AsPrinted(paper.fields.data_emissao, fields.data_emissao)
<1>1. PICK f : Answered(f) /\ fields = NormalizeResult(paper.doc, f)
  BY DEF Inv, Decoded
<1>2. PICK r : r = paper.fields
  OBVIOUS
<1>3. r \in InvoiceResult
  BY <1>2, PaperType DEF Inv
<1>4. f.data_emissao = r.data_emissao /\ DOMAIN f = {"emitente", "destinatario", "data_emissao"}
  <2>1. Misreadings(paper)
          = {[r EXCEPT !.emitente.cnpj = s] : s \in Misread(r.emitente.cnpj)}
    BY <1>2 DEF Misreadings
  <2>2. f = r \/ \E s \in Misread(r.emitente.cnpj) : f = [r EXCEPT !.emitente.cnpj = s]
    BY <1>1, <1>2, <2>1 DEF Answered
  <2> QED
    BY <1>3, <2>2 DEF InvoiceResult
<1>5. fields = NormalizeInvoice(f)
  BY <1>1 DEF NormalizeResult
<1>6. PICK a, b, c :
        /\ fields = [f EXCEPT !.emitente = a, !.destinatario = b, !.data_emissao = c]
        /\ c = DateToISO(f.data_emissao)
  BY <1>5, Zenon DEF NormalizeInvoice
<1>7. fields.data_emissao = c
  BY <1>4, <1>6
<1>8. r.data_emissao \in Text
  BY <1>3 DEF InvoiceResult
<1>9. fields.data_emissao = DateToISO(r.data_emissao)
  BY <1>4, <1>6, <1>7, Zenon
<1> QED
  BY <1>2, <1>8, <1>9, DayStored, Zenon

LEMMA AddressDate ==
  ASSUME Inv, stage = "stored", paper.doc = "address_proof"
  PROVE  AsPrinted(paper.fields.data, fields.data)
<1>1. PICK f : Answered(f) /\ fields = NormalizeResult(paper.doc, f)
  BY DEF Inv, Decoded
<1>2. Misreadings(paper) = {}
  BY DEF Misreadings
<1>3. f = paper.fields /\ f \in AddressResult
  BY <1>1, <1>2, PaperType DEF Answered, Inv
<1>4. fields = NormalizeAddress(f)
  BY <1>1 DEF NormalizeResult
<1>5. PICK a, b, c : /\ fields = [f EXCEPT !.uf = a, !.cep = b, !.data = c]
                     /\ c = DateToISO(f.data)
  BY <1>4, Zenon DEF NormalizeAddress
<1>6. fields.data = c /\ f.data \in Text
  BY <1>3, <1>5 DEF AddressResult
<1>7. AsPrinted(f.data, c)
  BY <1>5, <1>6, DayStored, Zenon
<1> QED
  BY <1>3, <1>6, <1>7, Zenon

LEMMA CVDates ==
  ASSUME Inv, stage = "stored", paper.doc = "curriculum_vitae", NEW printed,
         printed = paper.fields.experience, NEW k \in DOMAIN fields.experience
  PROVE  AsPrinted(printed[InOrder(KeptExperience(printed))[k]].start,
                   fields.experience[k].start)
<1>1. PICK f : f \in CVResult /\ Decoding(f, {}) /\ fields = NormalizeCV(f)
  BY DecodedCV, Zenon
<1>2. PICK r, s : r = paper.fields /\ s = f.skills
  BY Zenon
<1>3. r \in CVResult
  BY <1>2, PaperType DEF Inv
<1>4. f = [r EXCEPT !.skills = s]
  BY <1>1, <1>2, Zenon DEF Decoding
<1>5. f.experience = printed /\ printed \in Seq(Job)
  <2>1. printed = r.experience
    BY <1>2, Zenon
  <2>2. f.experience = r.experience
    BY <1>3, <1>4 DEF CVResult
  <2>3. r.experience \in Seq(Job)
    BY <1>3 DEF CVResult, Job
  <2> QED
    BY <2>1, <2>2, <2>3, Zenon
<1>6. PICK m, a, b, c, d, e, h :
        /\ fields = [f EXCEPT !.email = m, !.phone = a, !.skills = b, !.languages = c,
                              !.experience = d, !.education = e, !.certifications = h]
        /\ d = CleanExperience(f.experience)
  BY <1>1, Zenon DEF NormalizeCV
<1>7. fields.experience = d
  BY <1>1, <1>6 DEF CVResult
<1>8. d = CleanExperience(printed)
  BY <1>5, <1>6, Zenon
<1>9. PICK job : job = printed[InOrder(KeptExperience(printed))[k]]
  OBVIOUS
<1>10. k \in DOMAIN CleanExperience(printed)
  BY <1>7, <1>8, Zenon
<1>11. job.start \in Text /\ CleanExperience(printed)[k].start = NormalizeCVDate(job.start)
  BY <1>5, <1>9, <1>10, JobDated, Zenon
<1>12. AsPrinted(job.start, fields.experience[k].start)
  BY <1>7, <1>8, <1>11, MonthStored, Zenon
<1> QED
  BY <1>9, <1>12, Zenon

\* Whatever papers are processed, a date that DateToISO or normalizeCVDate
\* stores is the one that was printed, whichever layout and whichever
\* Portuguese name was tried first, and a day in the usual form is not lost.
THEOREM DatesAsPrinted == Spec => []DateStoredAsPrinted
<1>1. Inv => DateStoredAsPrinted
  <2> SUFFICES ASSUME Inv, stage = "stored", NEW pair \in Dates
               PROVE  AsPrinted(pair[1], pair[2])
    BY Zenon DEF DateStoredAsPrinted, AsPrinted, Usual, NumbersOf, NumberPlaces
  <2>1. CASE paper.doc = "identity_document"
    <3>1. Dates = {<<paper.fields.data_nascimento, fields.data_nascimento>>,
                   <<paper.fields.validade, fields.validade>>}
      BY <2>1, Zenon DEF Dates
    <3> QED
      BY <2>1, <3>1, IdentityDates
  <2>2. CASE paper.doc = "invoice_nf"
    <3>1. Dates = {<<paper.fields.data_emissao, fields.data_emissao>>}
      BY <2>2 DEF Dates
    <3> QED
      BY <2>2, <3>1, InvoiceDate
  <2>3. CASE paper.doc = "address_proof"
    <3>1. Dates = {<<paper.fields.data, fields.data>>}
      BY <2>3 DEF Dates
    <3> QED
      BY <2>3, <3>1, AddressDate
  <2>4. CASE paper.doc = "curriculum_vitae"
    <3>1. PICK printed : printed = paper.fields.experience
      OBVIOUS
    <3>2. Dates = {<<printed[InOrder(KeptExperience(printed))[k]].start,
                     fields.experience[k].start>> : k \in DOMAIN fields.experience}
      BY <2>4, <3>1 DEF Dates
    <3>3. PICK k \in DOMAIN fields.experience :
            pair = <<printed[InOrder(KeptExperience(printed))[k]].start,
                     fields.experience[k].start>>
      BY <3>2, Zenon
    <3>4. AsPrinted(printed[InOrder(KeptExperience(printed))[k]].start,
                    fields.experience[k].start)
      BY <2>4, <3>1, CVDates, Zenon
    <3> QED
      BY <3>3, <3>4
  <2> QED
    BY <2>1, <2>2, <2>3, <2>4, PaperType DEF Inv
<1> QED
  BY <1>1, AlwaysInv, PTL

=============================================================================
