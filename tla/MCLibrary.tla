----------------------------- MODULE MCLibrary -------------------------------
(* Instances of Library for TLC: file names are interchangeable.            *)
EXTENDS Library, TLC

FileSymmetry == Permutations(Files)

\* The user of account 2 may sign in where account 1 was meant.
OneGuest == {<<1, 2>>}
==============================================================================
