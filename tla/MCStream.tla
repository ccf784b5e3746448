------------------------------ MODULE MCStream ------------------------------
EXTENDS Stream

(* r, w, r+ (and w+), a and a+.                                            *)
AllModes ==
    {[read |-> TRUE,  write |-> FALSE, append |-> FALSE],
     [read |-> FALSE, write |-> TRUE,  append |-> FALSE],
     [read |-> TRUE,  write |-> TRUE,  append |-> FALSE],
     [read |-> FALSE, write |-> TRUE,  append |-> TRUE],
     [read |-> TRUE,  write |-> TRUE,  append |-> TRUE]}

TwoBytes == <<"old1", "old2">>

SomeData == {<<"new">>, <<"new", "newline">>, <<"newline", "new", "new">>}
=============================================================================
