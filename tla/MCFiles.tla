------------------------------- MODULE MCFiles -------------------------------
(***************************************************************************)
(* A full directory on blocks of two bytes.  A program's file holds one    *)
(* byte, which says which it is; the blocks of a text lie in descending    *)
(* order.  "f" is longer than the buffer of cat and grep, a line goes over *)
(* the buffer's end, and one is as long as the buffer; "ab" fills two      *)
(* blocks; "e" is empty.                                                   *)
(***************************************************************************)
EXTENDS Programs

MCTexts == <<
  <<"C">>, <<"L">>, <<"G">>, <<"N">>, <<"S">>, <<"U">>,
  <<"a", "b", "NL", "c", "b", "b", "a", "NL", "NL",
    "x", "a", "b", "a", "b", "NL", "b">>,
  <<"b", "a", "b", "NL">>, <<>>>>

MCNames == << <<"c">>, <<"l">>, <<"g">>, <<"n">>, <<"s">>, <<"u">>, <<"f">>, <<"a", "b">>, <<"e">> >>

MCboot ==
  [total_dentries |-> 11, total_inodes |-> 10,
   dentries |-> [e \in 0..10 |->
     IF e = 0 THEN [file_name |-> <<".">>, type |-> 1, inode |-> 0]
     ELSE IF e = 1 THEN [file_name |-> <<"r", "t", "c">>, type |-> 0, inode |-> 0]
     ELSE [file_name |-> MCNames[e - 1], type |-> 2, inode |-> e - 1]]]

BlockOf(ino, n) == 10 * ino + 9 - n

MCinode_ptr ==
  [ino \in 1..9 |->
     [length |-> Len(MCTexts[ino]),
      data_block |-> [n \in 0..((Len(MCTexts[ino]) + 1) \div 2) - 1 |-> BlockOf(ino, n)]]]

MCdata_start ==
  [b \in {BlockOf(ino, n) : ino \in 1..9, n \in 0..9} |->
     LET ino == b \div 10  n == 9 - (b % 10)
     IN  [p \in 0..1 |-> IF 2 * n + p < Len(MCTexts[ino]) THEN MCTexts[ino][2 * n + p + 1]
                        ELSE "NUL"]]

MCLines == {<<"NL">>, <<"0", "NL">>, <<"1", "NL">>, <<"9", "NL">>, <<"x", "x", "NL">>}

MCCommands == {
  <<"c", " ", "f">>, <<"c", " ", " ", "f", " ">>, <<"c", " ", ".">>, <<"c", " ", "r", "t", "c">>,
  <<"c", " ", "a", "b">>, <<"c", " ", "e">>, <<"c", " ", "z", "z", "z", "z">>, <<"c">>,
  <<" ", "l">>, <<"l">>, <<"g", " ", "b">>, <<"g", " ", "a", " ", " ", "b">>, <<"g", " ", "a", "b">>,
  <<"n">>, <<"s">>, <<"u">>, <<"f">>, <<"z">>, <<"g">>, <<" ">>}

MCProgramOf ==
  [name \in {<<"c">>, <<"l">>, <<"g">>, <<"n">>, <<"s">>, <<"u">>} |->
     CASE name = <<"c">> -> "cat" [] name = <<"l">> -> "ls" [] name = <<"g">> -> "grep"
       [] name = <<"n">> -> "counter" [] name = <<"s">> -> "syserr" [] OTHER -> "user"]

\* Newlines on either side of the last byte, in it, and none.
MCGarbage == {[p \in 0..5 |-> IF p \in ends THEN "NL" ELSE IF p = 4 THEN "b" ELSE "NUL"] :
                ends \in {{}, {0, 2}, {5}}}

MCCounts == [d \in {"0", "1", "2"} |-> IF d = "0" THEN 3 ELSE IF d = "1" THEN 12 ELSE 21]
MCKnown == <<"a", "b">>
MCUserNames == {<<".">>, <<"r", "t", "c">>, <<"f">>, <<>>}
MCUserFds == {0, 1, 2, 3, 8}
MCUserSizes == {-1, 0, 3}
MCUserTexts == {<<"a", "NUL">>}
=============================================================================
