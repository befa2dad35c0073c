------------------------------ MODULE MCGustavson ------------------------------
(***************************************************************************)
(* Products of a 3 x 2 and a 2 x 3 matrix whose rows are empty, canonical, *)
(* unsorted, or repeat a column.                                           *)
(***************************************************************************)
EXTENDS Gustavson

MCLeftRows == {<<>>, <<1>>, <<0, 1>>, <<1, 1>>}
MCRightRows == {<<>>, <<1>>, <<0, 1>>, <<2, 0>>, <<0, 1, 2>>, <<2, 1, 2>>}

===============================================================================
