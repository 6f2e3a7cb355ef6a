------------------------------ MODULE MCLexer ------------------------------
(* Lexer for TLC: every text of four symbols, and longer ones over the       *)
(* symbols of strings and of comments.                                       *)
EXTENDS Lexer, SequencesExt

Alphabet == {"end", "true", "1", "-", " ", "LF", "'", ",", ";", "w"}

AllTexts     == BoundedSeq(Alphabet, 4)
StringTexts  == BoundedSeq({"'", "LF", "w", " "}, 6)
CommentTexts == BoundedSeq({";", "LF", ",", "'"}, 6)

MCInputs  == AllTexts \cup StringTexts \cup CommentTexts
FewInputs == BoundedSeq({"'", "LF", "w", ",", ";"}, 4)

ZeroRoot  == [token |-> "TK_UNASSIGNED_TOKEN", line |-> 0, prev |-> "NULL"]
StaleRoot == [token |-> "garbage", line |-> 9, prev |-> "wild"]
WildRoot  == [token |-> "garbage", line |-> 0, prev |-> "wild"]
MCRoots   == {ZeroRoot, StaleRoot, WildRoot}
GoodRoots == {ZeroRoot}
=============================================================================
