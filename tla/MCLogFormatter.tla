--------------------------- MODULE MCLogFormatter ---------------------------
(* Every pattern of up to five characters, of each kind of character that  *)
(* the parser tells apart, and the pattern that loggers use.               *)
EXTENDS LogFormatter

MCLetter == {"d", "Y", "m", "H", "M", "S", "T", "t", "F", "p", "c", "f", "l", "n", "x"}
MCPatterns == BoundedSeq({"%", "{", "}", "d", "x", " "}, 5) \cup {StandardPattern}
=============================================================================
