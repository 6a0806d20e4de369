-------------------------------- MODULE MCSh --------------------------------
(* The shell for TLC.  Every line of up to five characters is parsed; those  *)
(* of up to two characters and some that are longer are run.                *)
EXTENDS Sh

Char  == Symbol \cup {"a", " "}
MCLines == UNION {[1..n -> Char] : n \in 0..5}
Short == {<<>>} \cup {<<c>> : c \in Char} \cup {<<c, d>> : c, d \in Char}
Long  == {<<"a", "|", "a", "|", "a">>,
          <<"a", "|", "a", ";", "a">>,
          <<"a", "|", "a", "&", ";", "a">>,
          <<"(", "a", ";", "a", ")", "|", "a">>,
          <<"a", "|", "(", "a", "&", ";", "a", ")">>,
          <<"a", "|", "a", "<", "a">>,
          <<"a", ">", "a", "|", "a">>,
          <<"a", "<", "a", ">", ">", "a">>,
          <<"(", "a", "|", "a", ")", ">", "a", ";">>,
          <<"(", "a", "|", "a", ")", "&", ";", "a">>,
          <<"a", "|", "a", " ", "a", ">", "a", "&">>,
          <<"a", " ", "a", " ", "a">>,
          <<"a", ">", "a", " ", "a", "<", "a">>}
MCTyped == Short \cup Long
=============================================================================
