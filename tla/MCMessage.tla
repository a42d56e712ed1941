------------------------------- MODULE MCMessage -------------------------------
(* Bytes of three values and a size of two bytes: the smallest instance in which  *)
(* the order of the bytes of a size matters.                                      *)
EXTENDS Message

MCData == {<<1>>, <<2>>, <<0, 2>>}
MCStrings == {<<>>, <<1>>, <<2, 0>>, <<1, 1, 2>>}
===============================================================================
