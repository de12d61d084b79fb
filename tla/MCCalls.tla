------------------------------ MODULE MCCalls ------------------------------
(***************************************************************************)
(* Small instances of Calls for TLC.  Bytes of a stream have one bit here: *)
(* a word has four bits, a string at most three bytes.                     *)
(***************************************************************************)
EXTENDS Calls

MCReceived == [1..3 -> Byte] \cup {<<0, 1, 1, 0, 1, 1, 0, 1>>}
MCNumbers == {-9, -8, -2, -1, 0, 1, 5, 8, 15, 16}
MCTexts == {<<>>, <<1>>, <<0, 1>>, <<1, 0, 1>>, <<1, 1, 1, 1>>}
=============================================================================
