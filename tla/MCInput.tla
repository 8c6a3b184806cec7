------------------------------- MODULE MCInput -------------------------------
(***************************************************************************)
(* Small instances of Input: two letters, a short buffer and a few keys.   *)
(***************************************************************************)
EXTENDS Input

MCChars   == {"a", "b"}
MCKeys    == {"a", "b", "enter", "release", "backspace"}
MCAllKeys == MCKeys \cup {"tab", "swap"}
MCNested  == {"a", "b", "enter"}
MCSwap    == {"a", "enter", "release", "swap"}
=============================================================================
