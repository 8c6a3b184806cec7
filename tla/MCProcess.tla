------------------------------ MODULE MCProcess ------------------------------
(***************************************************************************)
(* Small instances of Process: a shell that starts programs, one program   *)
(* that ends normally ("cat") and one that may also fault ("syserr").      *)
(***************************************************************************)
EXTENDS Process

MCPrograms  == {"shell", "cat", "syserr"}
MCLaunchers == {"shell"}
MCFaulty    == {"syserr"}
MCNoNames   == {}
MCBadNames  == {"nosuch"}
MCZeroOne   == {0, 1}
=============================================================================
