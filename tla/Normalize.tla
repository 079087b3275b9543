------------------------------ MODULE Normalize ------------------------------
(***************************************************************************)
(* internal/normalize: what the document types do with the identifiers and *)
(* the dates that the model read.                                          *)
(*                                                                         *)
(* A text is a sequence of tokens.  An identifier is a text of digits and  *)
(* of Punct, any other character.  A date is a text of numbers, each with  *)
(* its value and its number of digits, of separators and of words; its     *)
(* white space is already trimmed and collapsed.                           *)
(***************************************************************************)
EXTENDS Integers, Sequences, Lists

Punct == -1
Digit == 0..9

Absent == <<>>   \* "" and the nil date

-----------------------------------------------------------------------------
(***************************************************************************)
(* CPF, CNPJ and CEP.                                                      *)
(***************************************************************************)
DigitsOnly(s) == EntriesAt(s, {i \in DOMAIN s : s[i] \in Digit})

AllSameDigits(d) == \A i \in DOMAIN d : d[i] = d[1]

\* r := (sum * 10) % 11, and 10 stands for 0.
TimesTen(sum) == IF (sum * 10) % 11 = 10 THEN 0 ELSE (sum * 10) % 11

\* dv := 11 - sum % 11, and a remainder below 2 gives 0.
Complement(sum) == IF sum % 11 >= 2 THEN 11 - (sum % 11) ELSE 0

CPFSum1(d) == 10*d[1] + 9*d[2] + 8*d[3] + 7*d[4] + 6*d[5] + 5*d[6] + 4*d[7]
              + 3*d[8] + 2*d[9]
CPFSum2(d) == 11*d[1] + 10*d[2] + 9*d[3] + 8*d[4] + 7*d[5] + 6*d[6] + 5*d[7]
              + 4*d[8] + 3*d[9] + 2*d[10]

CNPJSum1(d) == 5*d[1] + 4*d[2] + 3*d[3] + 2*d[4] + 9*d[5] + 8*d[6] + 7*d[7]
               + 6*d[8] + 5*d[9] + 4*d[10] + 3*d[11] + 2*d[12]
CNPJSum2(d) == 6*d[1] + 5*d[2] + 4*d[3] + 3*d[4] + 2*d[5] + 9*d[6] + 8*d[7]
               + 7*d[8] + 6*d[9] + 5*d[10] + 4*d[11] + 3*d[12] + 2*d[13]

ValidCPFFirstDigitOnly(d) ==
    /\ Len(d) = 11 /\ ~AllSameDigits(d)
    /\ d[10] = TimesTen(CPFSum1(d))
ValidCPF(d) ==
    /\ Len(d) = 11 /\ ~AllSameDigits(d)
    /\ d[10] = TimesTen(CPFSum1(d)) /\ d[11] = TimesTen(CPFSum2(d))

ValidCNPJ(d) ==
    /\ Len(d) = 14 /\ ~AllSameDigits(d)
    /\ d[13] = Complement(CNPJSum1(d)) /\ d[14] = Complement(CNPJSum2(d))

CPF(s)  == IF ValidCPF(DigitsOnly(s)) THEN DigitsOnly(s) ELSE Absent
CNPJ(s) == IF ValidCNPJ(DigitsOnly(s)) THEN DigitsOnly(s) ELSE Absent
CEP(s)  == IF Len(DigitsOnly(s)) = 8 THEN DigitsOnly(s) ELSE Absent

-----------------------------------------------------------------------------
(***************************************************************************)
(* Dates.  A layout of time.Parse is a sequence of its elements.           *)
(***************************************************************************)
Num(v, w)      == [t |-> "num", v |-> v, w |-> w]
Mark(c)        == [t |-> c, v |-> 0, w |-> 0]
\* A month name, of form "January" or "Jan" (English), "janeiro" or "jan"
\* (Portuguese), or letters that are none, with v = 0 and form "other".
Word(v, form)  == [t |-> form, v |-> v, w |-> 0]

NoDate == [y |-> 0, m |-> 0, d |-> 0]

IsLeap(y) == y % 4 = 0 /\ (y % 100 # 0 \/ y % 400 = 0)
DaysIn(m, y) == IF m = 2 THEN (IF IsLeap(y) THEN 29 ELSE 28)
                ELSE IF m \in {4, 6, 9, 11} THEN 30 ELSE 31

\* The widths an element of a layout accepts; an unpadded one takes both.
Widths(e) == CASE e \in {"02", "01", "06"} -> {2}
               [] e \in {"2", "1"}         -> {1, 2}
               [] e = "2006"               -> {4}
               [] OTHER                    -> {}

Elements(e) ==
    CASE e \in {"02", "2"}    -> "day"
      [] e \in {"01", "1"}    -> "month"
      [] e \in {"2006", "06"} -> "year"
      [] e \in {"January", "Jan"} -> "month"
      [] OTHER                -> "mark"

\* Portuguese and English share the short names of these months, and May is
\* its own short name; time.Parse ignores case.
SharedShort == {1, 3, 6, 7, 11}
English(tok) == IF tok.t = "jan" /\ tok.v \in SharedShort THEN {"Jan"}
                ELSE IF tok.t \in {"January", "Jan"} /\ tok.v = 5
                THEN {"January", "Jan"} ELSE {tok.t} \cap {"January", "Jan"}

Fits(e, tok) ==
    \/ tok.t = "num" /\ tok.w \in Widths(e)
    \/ e \in {"January", "Jan"} /\ e \in English(tok)
    \/ e \in {"/", " "} /\ tok.t = e

Year(tok) == IF tok.w = 4 THEN tok.v
             ELSE IF tok.v >= 69 THEN 1900 + tok.v ELSE 2000 + tok.v

\* time.Parse; a layout without a day gives the first of the month.
Parse(layout, s) ==
    LET at(kind) == {i \in DOMAIN layout : Elements(layout[i]) = kind}
        val(kind) == s[CHOOSE i \in at(kind) : TRUE]
    IN  IF Len(s) # Len(layout) \/ \E i \in DOMAIN layout : ~Fits(layout[i], s[i])
        THEN NoDate
        ELSE LET y == Year(val("year"))
                 m == val("month").v
                 d == IF at("day") = {} THEN 1 ELSE val("day").v
             IN  IF m \in 1..12 /\ d \in 1..DaysIn(m, y)
                 THEN [y |-> y, m |-> m, d |-> d] ELSE NoDate

Readings(layouts, s) ==
    {i \in DOMAIN layouts : Parse(layouts[i], s) # NoDate}

\* The loop over the layouts returns at the first that parses.
FirstReading(layouts, s) ==
    LET ok == Readings(layouts, s)
    IN  IF ok = {} THEN NoDate
        ELSE Parse(layouts[CHOOSE i \in ok : \A j \in ok : i <= j], s)

MonthFirst ==
    << <<"01", "/", "02", "/", "2006">>, <<"2", "/", "1", "/", "2006">>,
       <<"02", "/", "01", "/", "06">>,   <<"2", "/", "1", "/", "06">>,
       <<"2006", "/", "01", "/", "02">>, <<"2006", "/", "1", "/", "2">> >>
DayLayouts ==
    << <<"02", "/", "01", "/", "2006">>, <<"2", "/", "1", "/", "2006">>,
       <<"02", "/", "01", "/", "06">>,   <<"2", "/", "1", "/", "06">>,
       <<"2006", "/", "01", "/", "02">>, <<"2006", "/", "1", "/", "2">> >>

Slashed(s) == [i \in DOMAIN s |-> IF s[i].t \in {".", "-"} THEN Mark("/") ELSE s[i]]

\* The text before its first space, if it has one that is not its first token.
BeforeSpace(s) ==
    LET sp == {i \in DOMAIN s : s[i].t = " "}
    IN  IF sp = {} THEN Absent
        ELSE SubSeq(s, 1, (CHOOSE i \in sp : \A j \in sp : i <= j) - 1)

ISO(date) == <<Num(date.y, 4), Mark("-"), Num(date.m, 2), Mark("-"), Num(date.d, 2)>>

DateOf(s) ==
    LET whole == FirstReading(DayLayouts, Slashed(s))
    IN  IF whole # NoDate THEN whole
        ELSE FirstReading(DayLayouts, BeforeSpace(Slashed(s)))

DateToISO(s) == IF DateOf(s) = NoDate THEN Absent ELSE ISO(DateOf(s))

=============================================================================
