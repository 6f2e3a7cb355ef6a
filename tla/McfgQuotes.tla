----------------------------- MODULE McfgQuotes -----------------------------
(* The quotes of a string: in the text of a document every quote inside of a *)
(* string is doubled, in memory it is single.                                *)
EXTENDS SequencesExt

\* Mutant: every quote is dropped.
UndoubleAll(text) == SelectSeq(text, LAMBDA s : s # "'")

\* _process_mcfg_string: every '' becomes '.
Unpair(acc, s) ==
    IF s = "'" /\ acc.open
    THEN [acc EXCEPT !.open = FALSE]
    ELSE [text |-> Append(acc.text, s), open |-> s = "'"]

Undouble(text) == FoldLeft(Unpair, [text |-> << >>, open |-> FALSE], text).text

\* What undoes it: every ' becomes ''.
Doubled(s) == IF s = "'" THEN <<s, s>> ELSE <<s>>

Redouble(text) == FoldLeft(LAMBDA acc, s : acc \o Doubled(s), << >>, text)
=============================================================================
