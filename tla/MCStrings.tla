------------------------------ MODULE MCStrings ------------------------------
(***************************************************************************)
(* Values for the runs of Strings: two blocks, letters and separators.     *)
(***************************************************************************)
EXTENDS Strings

Sizes == [b \in Blocks |-> IF b = 1 THEN 5 ELSE 3]

\* 1 is a letter, 2 and 3 are separators, -1 a char above 127.
SomeTexts == {<<>>, <<1>>, <<2, 2>>, <<-1, 2>>, <<1, 2, 1, 3>>}
=============================================================================
