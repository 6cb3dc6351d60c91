------------------------------ MODULE MCFileIo ------------------------------
(* TLC instance of FileIo: a file that is longer than what one word counts. *)
EXTENDS FileIo

MCContents == {[i \in 1..(WordMod + 1) |-> 1]}
=============================================================================
