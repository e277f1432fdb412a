---------------------------- MODULE MCParseInput ----------------------------
(* Every line of at most MaxLen characters over the three character        *)
(* classes parse_input distinguishes.                                      *)
EXTENDS ParseInput, SequencesExt

CONSTANT MaxLen

MCLines == BoundedSeq({"word", "space", "quote"}, MaxLen)
=============================================================================
