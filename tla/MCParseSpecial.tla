--------------------------- MODULE MCParseSpecial ---------------------------
(* Every vector of at most MaxLen words, and the documented lines of at    *)
(* most three piped commands with up to two redirects after them.          *)
EXTENDS ParseSpecial, SequencesExt

CONSTANT MaxLen

Words    == {<<"word">>, <<"word", "word">>}
Pipeline == Words \cup {a \o <<"|">> \o b : a \in Words, b \in Words}
                  \cup {a \o <<"|">> \o b \o <<"|">> \o c :
                         a \in Words, b \in Words, c \in Words}
Tails    == {<<>>, <<"<", "word">>, <<">", "word">>, <<">>", "word">>,
             <<"))", "word">>, <<"((", "word", "word">>}

MCLines == (BoundedSeq(Token, MaxLen) \ {<<>>})
             \cup {p \o t \o u : p \in Pipeline, t \in Tails, u \in Tails}
=============================================================================
