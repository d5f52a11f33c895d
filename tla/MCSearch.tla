------------------------------ MODULE MCSearch ------------------------------
EXTENDS Search, Bitwise

\* Identifiers are numbers of three bits: this node is 0.
XorDistance(a, b) == a ^^ b

\* 1 and 4 are peers, 6 lies behind 1.
MCPath == 1 :> <<1>> @@ 4 :> <<2, 2>> @@ 6 :> <<1, 1, 1>>

MCLoopPath == <<1>>

MCLists == {<< >>, <<6, 4, 6>>, <<0, 6>>}

=============================================================================
