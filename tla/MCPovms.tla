------------------------------- MODULE MCPovms -------------------------------
EXTENDS PovmsObjects

\* A string and a truth value: with the class, one of each way to write and read.
MCScalars == [a |-> {[type |-> "UCS2String", data |-> <<1, 2>>]},
              b |-> {},
              l |-> {[type |-> "Bool", data |-> <<1>>]}]
MCNested == [a |-> {"Object"}, b |-> {"List"}]
MCClasses == {<<1>>}
Symmetry == Permutations(Objects)
=============================================================================
