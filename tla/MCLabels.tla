------------------------------ MODULE MCLabels ------------------------------
EXTENDS Labels

\* Codes of 4, 7 and 10 bits in the dynamic scheme, and the special ones of the others.
Switches ==
    {[scheme |-> "dyn", back |-> 0, fwd |-> 33],
     [scheme |-> "dyn", back |-> 256, fwd |-> 8],
     [scheme |-> "8", back |-> 240, fwd |-> 16],
     [scheme |-> "4", back |-> 15, fwd |-> 2]}

MCLines == [1..4 -> Switches]

=============================================================================
