------------------------------ MODULE MCConsole ------------------------------
(***************************************************************************)
(* Two terminals of three rows and three columns.  A tab fills a row; two  *)
(* tabs, or a tab and a text, scroll.                                      *)
(***************************************************************************)
EXTENDS Console

MCTermColor == [t \in Terminals |-> IF t = 0 THEN 2 ELSE 4]
MCTexts == {<<"a", "NL">>, <<"NUL", "a">>}
MCKeys == {"a"}
=============================================================================
