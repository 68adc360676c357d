------------------------------ MODULE LineItems ------------------------------
(***************************************************************************)
(* The lines of a quotation or an invoice: the editor (LineItemsEditor.tsx,*)
(* OverallDiscountField.tsx), which keeps with each line the total it      *)
(* shows, the totals of the form, and the server's own computation of      *)
(* them, by which it accepts or refuses a save (finance_totals.py).        *)
(* Quantity and price of a line are told by their product.  Amounts are    *)
(* integers, and an instance takes them such that no percentage of them    *)
(* has a fraction: floating point, and with it the server's tolerance of   *)
(* one cent, is left out.  Both may be negative: the inputs ask for no     *)
(* less than 0, but Save does not depend on that, and the server does not  *)
(* ask.                                                                    *)
(***************************************************************************)
EXTENDS Integers, Sequences

CONSTANTS
    Amounts,      \* gross amounts and flat discounts in an instance
    Percents,     \* discount percentages
    MaxLines      \* bound: lines of a document

ASSUME LineItemsAssumption ==
    Amounts \subseteq Int /\ Percents \subseteq Int /\ 0 \in Percents \cap Amounts
    /\ MaxLines \in Nat

VARIABLES
    lines,        \* line_items
    overall       \* the discount of the whole document

lineVars == <<lines, overall>>

Kinds == {"amount", "percent"}
Discount == [kind : Kinds, amount : Amounts, percent : Percents]
Line == [gross : Amounts, off : Discount, shown : Nat]

Larger(a, b) == IF a > b THEN a ELSE b
Smaller(a, b) == IF a < b THEN a ELSE b

\* Sums(s)[n]: the sum of the first n numbers of s, as `reduce` and `sum` build it up.
Sums(s) ==
    LET sum[n \in 0 .. Len(s)] == IF n = 0 THEN 0 ELSE sum[n - 1] + s[n]
    IN  sum
Total(s) == Sums(s)[Len(s)]
Gross(s) == [i \in DOMAIN s |-> s[i].gross]
LineTotals(s) == [i \in DOMAIN s |-> s[i].shown]
NoDiscount == [kind |-> "percent", amount |-> 0, percent |-> 0]

-----------------------------------------------------------------------------
(* What the editor and the server compute alike.                           *)

Of(off, base) == IF off.kind = "amount" THEN off.amount ELSE (base * off.percent) \div 100
LineDiscount(l) == Of(l.off, l.gross)
Discounts(s) == [i \in DOMAIN s |-> LineDiscount(s[i])]

ClampedOverall(raw, after) == Smaller(Larger(0, raw), after)

(* finance_totals.py                                                       *)
ComputeDocumentTotals(s, o) ==
    LET subtotal == Total(Gross(s))
        lineOff == Total(Discounts(s))
        after == Larger(0, subtotal - lineOff)
        off == lineOff + ClampedOverall(Of(o, after), after) IN
    [subtotal |-> subtotal, discount |-> off, total |-> subtotal - off]

(* verify_document_totals: a save whose figures differ is refused.         *)
Verified(s, o, claimed) == ComputeDocumentTotals(s, o) = claimed

(* LineItemsEditor.tsx: the lines only, and then the document.             *)
LinesOnly(s) == [subtotal |-> Total(Gross(s)), discount |-> Total(Discounts(s))]

OnSubtotal(s) == LinesOnly(s).subtotal      \* mutant: the discount before the lines'
AfterLines(s) == Larger(0, LinesOnly(s).subtotal - LinesOnly(s).discount)

FormTotals(s, o) ==
    LET off == LinesOnly(s).discount
               + Smaller(Larger(0, Of(o, AfterLines(s))), AfterLines(s)) IN
    [subtotal |-> LinesOnly(s).subtotal, discount |-> off,
     total |-> LinesOnly(s).subtotal - off]

-----------------------------------------------------------------------------
(* The editor: every change of a line computes what it shows anew.         *)

RecomputeNot(l) == l                        \* mutant: the shown total stays
Recompute(l) == [l EXCEPT !.shown = Larger(0, l.gross - LineDiscount(l))]

AddItem(price) ==
    /\ Len(lines) < MaxLines
    /\ lines' = Append(lines, Recompute([gross |-> price, off |-> NoDiscount, shown |-> 0]))
    /\ UNCHANGED overall

Change(i, l) == lines' = [lines EXCEPT ![i] = Recompute(l)] /\ UNCHANGED overall
UpdateField(i) ==
    \/ \E a \in Amounts : Change(i, [lines[i] EXCEPT !.gross = a])
    \/ \E a \in Amounts : Change(i, [lines[i] EXCEPT !.off.amount = a])
    \/ \E p \in Percents : Change(i, [lines[i] EXCEPT !.off.percent = p])
UpdateDiscountType(i) == \E k \in Kinds : Change(i, [lines[i] EXCEPT !.off.kind = k])
Without(s, i) == [j \in 1 .. Len(s) - 1 |-> s[IF j < i THEN j ELSE j + 1]]
RemoveLine(i) == lines' = Without(lines, i) /\ UNCHANGED overall

SetOverall ==
    /\ \/ \E k \in Kinds : overall' = [overall EXCEPT !.kind = k]
       \/ \E a \in Amounts : overall' = [overall EXCEPT !.amount = a]
       \/ \E p \in Percents : overall' = [overall EXCEPT !.percent = p]
    /\ UNCHANGED lines

LineInit == lines = <<>> /\ overall = NoDiscount

LineNext ==
    \/ \E a \in Amounts : AddItem(a)
    \/ \E i \in DOMAIN lines : UpdateField(i) \/ UpdateDiscountType(i) \/ RemoveLine(i)
    \/ SetOverall

LineSpec == LineInit /\ [][LineNext]_lineVars

-----------------------------------------------------------------------------
(* The server accepts the figures of the form, whatever has been entered.  *)
FormIsAccepted == Verified(lines, overall, FormTotals(lines, overall))

(* The totals of the lines as shown add up to the total, less the overall  *)
(* discount they give it, and it is neither negative nor more than they    *)
(* show -- as long as no line is discounted by more than its gross amount; *)
(* that line then shows 0, and the total is less than what the lines show. *)
LinesAddUp ==
    LET t == ComputeDocumentTotals(lines, overall)
        shown == Total(LineTotals(lines))
        total == shown - ClampedOverall(Of(overall, shown), shown) IN
    IF \A i \in DOMAIN lines : LineDiscount(lines[i]) <= lines[i].gross
    THEN t.total = total /\ t.total \in 0 .. shown
    ELSE t.total < shown

=============================================================================
