------------------------------ MODULE MCColumnSort ------------------------------
(***************************************************************************)
(* Every order of up to four distinct columns, and a row that repeats one, *)
(* for matrices whose last column has one, two and three binary digits.    *)
(***************************************************************************)
EXTENDS ColumnSort

Orders(m, len) == {s \in [1 .. len -> 0 .. m] : \A k, l \in 1 .. len : k # l => s[k] # s[l]}
MCWeight == [p \in 0 .. 3 |-> 2 ^ p]
MCInputs ==
    UNION {Orders(m, len) \X {m} : m \in {1, 3, 6}, len \in 0 .. 4} \cup {<<<<5, 1, 5>>, 6>>}

===============================================================================
