-------------------------------- MODULE MCIjon --------------------------------
(* Ijon with small layouts: regions missing, of a size that is no power of two, *)
(* larger than the default, and maxima too small for one value.                 *)
EXTENDS Ijon, Bitwise

MCXor(a, b) == a ^^ b

\* The hash at a width of 8 bits, two sites in a file.
MCHashShifts == <<16, 8, 16>>
MCHashFactors == <<185, 235>>
MCSites == {[line |-> 1, file |-> <<5>>], [line |-> 2, file |-> <<5>>]}
MCStrings == {<<>>, <<1>>, <<1, 2>>}
MCStacks == {<<>>, <<3>>, <<3, 7>>}

MCLayouts == {[afl |-> 1, counter |-> 2, max |-> 2],
              [afl |-> 0, counter |-> 3, max |-> 2],
              [afl |-> 2, counter |-> 8, max |-> 1],
              [afl |-> 1, counter |-> 0, max |-> 4]}
===============================================================================
