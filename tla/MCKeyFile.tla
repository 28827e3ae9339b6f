------------------------------ MODULE MCKeyFile ------------------------------
EXTENDS KeyFile

Name(n) == [i \in 1 .. n |-> 97]

\* Short, long, and one byte too long for its length byte.
MCPublicNames == {Name(1), Name(110), Name(256)}
MCForms == {{"order", "lower"}, {"entry", "twice", "block"}}
=============================================================================
