----------------------------- MODULE MCDatalog ------------------------------
(* Small instances of Datalog: sectors of a few bytes, lines that cross the  *)
(* end of a sector at every alignment.                                       *)
EXTENDS Datalog

MCBytes == {"h", "a", "b", "nl", "0"}
MCCsvHeader == <<"h", "nl">>
MCLines == {<<"a">>, <<"b", "b">>}
MCCounts == {3, 5}
\* The run with failing writes flushes at every moment, and reads nothing back.
MCNoCount == {}
MCOneLine == {<<"b", "b">>}
=============================================================================
