------------------------------ MODULE MCLexer ------------------------------
(* All texts up to a length over alphabets chosen for one kind of token    *)
(* each, up to three over all characters that are told apart, and words.   *)
EXTENDS Lexicon

UpTo(n, chars) == UNION {[1 .. k -> chars] : k \in 0 .. n}

AllChars == {"a", "n", "x", "_", "0", "1", "8", "\"", "\\", "#", "NL", "CR", " ", "(", ";", "<",
             ">", "=", ":", "&", "|", "!", "-", ".", "$"}
Numbers  == UpTo(6, {"0", "1", "7", "x", "_", "f"}) \union UpTo(4, {"1", "2", "7", "8", "9", "F"})
Strings  == UpTo(6, {"\"", "\\", "n", "NL"})
Layout   == UpTo(7, {"a", "NL", "CR", "#"})
Operators == UpTo(4, {"<", ">", "=", ":", "&", "|", "!", "1"})
Words == {w \o s : w \in DOMAIN KeywordMap, s \in UpTo(1, {"a", " ", "_", "1", "("})}

MCTexts == UpTo(3, AllChars) \union Numbers \union Strings \union Layout \union Operators \union Words
=============================================================================
