---------------------------- MODULE MCLegacyProduct ----------------------------
(***************************************************************************)
(* Products of 2 x 2 and 2 x 3 matrices for every older kernel, with the   *)
(* policies' macros scaled down to rows of up to five entries.             *)
(***************************************************************************)
EXTENDS LegacyProduct

\* Empty, one entry, two in any order, a factor of zero, a column out of range.
SomeLeftRows ==
    {<<>>, <<<<0, 1>>, <<1, 1>>>>, <<<<1, 2>>, <<0, -1>>>>, <<<<0, 0>>, <<1, 1>>>>, <<<<2, 1>>>>}

\* A run, a row out of order, repeated columns apart and side by side that
\* may cancel, and a column out of range alone and behind another.
SomeRightRows ==
    {<<>>, <<<<1, 1>>>>, <<<<0, 1>>, <<1, -2>>, <<2, 1>>>>, <<<<2, 1>>, <<0, 2>>, <<1, 1>>>>,
     <<<<0, 1>>, <<2, 1>>, <<0, -1>>>>, <<<<1, 1>>, <<1, 1>>>>,
     <<<<0, 1>>, <<1, 1>>, <<0, -1>>, <<2, 1>>, <<1, 1>>>>, <<<<3, 1>>>>, <<<<0, 1>>, <<3, 1>>>>}

===============================================================================
