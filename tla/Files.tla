------------------------------- MODULE Files -------------------------------
(***************************************************************************)
(* The files an export is offered as (web/export.go writeExport): CSV,     *)
(* a sheet (web/xlsx.go) and pages (web/pdfdoc.go), of one table.          *)
(*                                                                         *)
(* A table is [numeric, heads, rows]: which columns hold money, how long   *)
(* the headings are, and its rows in order, each [of, cells]: what it is   *)
(* about and how long its cells are.  Escapes and markup are left out.     *)
(***************************************************************************)
EXTENDS Integers, SequencesExt

CONSTANT TitleY     \* where the title of a page stands, in points (752)

LineH == 12
Bottom == 48
MaxChars == 110     \* characters between the margins
Widest == 44
Narrowest == 6

ASSUME FilesAssumption == TitleY \in Nat /\ TitleY >= 22 + 2 * LineH + Bottom

-----------------------------------------------------------------------------
(* Columns.                                                                *)

Capped(bound, n) == IF n > bound THEN bound ELSE n

LineLen(widths) == SumFunction(widths) + Len(widths) - 1

(* The column that gives way next: the first of the widest that hold text, *)
(* while it is wider than the narrowest.                                   *)
Victims(numeric, widths) ==
    LET text == {c \in DOMAIN widths : ~numeric[c]}
    IN  {c \in text :
            /\ widths[c] > Narrowest
            /\ \A d \in text :
                  widths[d] < widths[c] \/ (widths[d] = widths[c] /\ c <= d)}

Shrink(numeric, widths) ==
    LET victims == Victims(numeric, widths)
    IN  [c \in DOMAIN widths |-> IF c \in victims THEN widths[c] - 1 ELSE widths[c]]

FitWidths(t) ==
    LET wanted == [c \in DOMAIN t.heads |->
            Capped(Widest, Max({t.heads[c]} \cup {t.rows[k].cells[c] : k \in DOMAIN t.rows}))]
        fit[widths \in [DOMAIN t.heads -> 0..Widest]] ==
            IF LineLen(widths) <= MaxChars \/ Victims(t.numeric, widths) = {}
            THEN widths
            ELSE fit[Shrink(t.numeric, widths)]
    IN  fit[wanted]

(* What is left of a cell in a column, its mark of being cut, and spaces.  *)
CellFit(len, width) ==
    CASE len <= width               -> [kept |-> len, dots |-> 0, pad |-> width - len]
      [] len > width /\ width <= 2  -> [kept |-> width, dots |-> 0, pad |-> 0]
      [] len > width /\ width > 2   -> [kept |-> width - 2, dots |-> 2, pad |-> 0]

FormatRow(row, widths) ==
    [of |-> row.of, cells |-> [c \in DOMAIN widths |-> CellFit(row.cells[c], widths[c])]]

-----------------------------------------------------------------------------
(* Pages.                                                                  *)

(* Lines of the table that go below a title, the headings and a rule.      *)
PerPage == (TitleY - 22 - 2 * LineH - Bottom) \div LineH + 1

LineY(n) == TitleY - 22 - LineH - n * LineH

PageCount(n) == (n + PerPage - 1) \div PerPage

(* Mutant: a page ends one line late.                                      *)
PageLinesOver(lines, i) ==
    SubSeq(lines, i * PerPage + 1, Capped(Len(lines), i * PerPage + PerPage + 1))

(* Pages are counted from 0.                                               *)
PageLines(lines, i) ==
    SubSeq(lines, i * PerPage + 1, Capped(Len(lines), i * PerPage + PerPage))

(* Numbers of objects.                                                     *)
ContentObj(i) == 5 + 2 * i
PageObj(i) == 6 + 2 * i

NoRecords == [of |-> "no records", cells |-> << >>]

(* The objects of the file, as they are appended: an object's number is    *)
(* its place.                                                              *)
Pdf(t) ==
    LET widths == FitWidths(t)
        lines == IF t.rows = << >> THEN <<NoRecords>>
                 ELSE [k \in DOMAIN t.rows |-> FormatRow(t.rows[k], widths)]
        n == PageCount(Len(lines))
    IN  <<[root |-> 2], [kids |-> [k \in 1..n |-> PageObj(k - 1)]],
          [font |-> "Courier"], [font |-> "Helvetica-Bold"]>>
        \o FlattenSeq([k \in 1..n |->
               <<[lines |-> PageLines(lines, k - 1)], [contents |-> ContentObj(k - 1)]>>])

(* What a reader follows: from the root to the pages to their contents.    *)
PagesOf(pdf) ==
    LET kids == pdf[pdf[1].root].kids
    IN  [k \in DOMAIN kids |-> pdf[pdf[kids[k]].contents].lines]

-----------------------------------------------------------------------------
(* The other formats.                                                      *)

(* Data starts on row 2; money is a number, the rest text.                 *)
SheetRow(t, k) ==
    [r |-> k + 1, of |-> t.rows[k].of,
     cells |-> [c \in DOMAIN t.heads |-> IF t.numeric[c] THEN "number" ELSE "text"]]
Sheet(t) == [k \in DOMAIN t.rows |-> SheetRow(t, k)]

Csv(t) == [k \in DOMAIN t.rows |-> t.rows[k].of]

=============================================================================
