------------------------------ MODULE MCTopTod ------------------------------
(* Instances of TopTod for TLC: one logged channel and one that is not, an *)
(* ordinary nick, one with a backslash, whose pattern finds the ordinary   *)
(* one, and a bot.                                                         *)
EXTENDS TopTod

CONSTANTS ab, slashed, robot

MCLogged == <<"#pulina">>
MCChannels == {"#pulina", "#other"}
MCNiks == {ab, slashed, robot}
MCMatches == [n \in MCNiks |-> IF n = slashed THEN ab ELSE n]
MCTexts == {"-", "hi"}
MCWordsOf == [t \in MCTexts |-> 1]
=============================================================================
