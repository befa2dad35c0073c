------------------------------- MODULE MCBenchRun -------------------------------
(***************************************************************************)
(* Files of order two with up to three entries of every place and two      *)
(* values: general and symmetric, a pattern, short of what they announce,  *)
(* longer than that, without sizes, absent; one longer row; and pairs of   *)
(* files.  A float holds the even numbers only.  Requests of every way of  *)
(* drawing, with rows or columns, the odd orders among them, and those     *)
(* that go astray: no bandwidth, too much of it, no degree, an order of 1. *)
(* The benchmark squares files that csr_check passed or not, and           *)
(* multiplies pairs that fit together or do not.                           *)
(***************************************************************************)
EXTENDS BenchRun

MCNumbers == {1, 2, 4, 8, 16}
MCAsFloat(x) == 2 * ((x + 1) \div 2)

Places == [row : 1 .. 2, col : 1 .. 2, val : {1, 4}]
File(b, pat, m, l, es) ==
    [opens |-> TRUE, sized |-> TRUE, banner |-> b, pattern |-> pat, M |-> m, L |-> l, entries |-> es]
E(r, c, v) == [row |-> r, col |-> c, val |-> v]

Short(b) == {File(b, FALSE, 2, 3, es) : es \in UNION {[1 .. n -> Places] : n \in 0 .. 2}}
Full == {File("general", FALSE, 2, 3, es) : es \in [1 .. 3 -> [row : 1 .. 2, col : 1 .. 2, val : {1}]]}
Others ==
    {[NoFile EXCEPT !.opens = TRUE], NoFile,
     File("general", FALSE, 0, 0, <<>>),
     File("symmetric", TRUE, 2, 2, <<E(1, 1, 4), E(2, 1, 4), E(2, 2, 4)>>),
     File("missing", FALSE, 2, 2, <<E(2, 3, 1), E(1, 2, 4)>>),
     File("general", FALSE, 2, 5, <<E(2, 1, 1), E(1, 3, 2), E(1, 1, 4), E(1, 3, 8), E(1, 2, 16)>>)}
Tall == File("general", FALSE, 3, 2, <<E(3, 1, 1), E(1, 2, 4)>>)
Wide == File("general", FALSE, 2, 2, <<E(2, 3, 1), E(1, 1, 4)>>)
Empty == File("general", FALSE, 2, 0, <<>>)
Twice == File("symmetric", FALSE, 2, 3, <<E(2, 1, 1), E(2, 1, 4)>>)
BenchFiles == {Tall, Wide, Empty, Twice, NoFile}
MCFiles ==
    Short("general") \cup Short("symmetric") \cup Full \cup Others \cup BenchFiles
MCArgLists ==
    {<<>>} \cup {<<f>> : f \in MCFiles}
    \cup {<<f, g>> : f \in Others, g \in {File("general", FALSE, 1, 1, <<E(1, 2, 1)>>)}}
MCAllFiles == MCFiles \cup {File("general", FALSE, 1, 1, <<E(1, 2, 1)>>)}

Request(n, m, sym, column, l, u, mn, mx) ==
    [rows |-> n, cols |-> m, symmetric |-> sym, column |-> column, low |-> l, up |-> u,
     min |-> mn, max |-> mx]
MCRequests ==
    {Request(4, 4, FALSE, FALSE, l, u, 1, 2) : l \in 1 .. 3, u \in 1 .. 3}
    \cup {Request(3, 3, FALSE, TRUE, 2, 2, 1, 2)}
    \cup {Request(4, 4, TRUE, FALSE, l, 1, 1, 3) : l \in 1 .. 3}
    \cup {Request(6, 6, TRUE, FALSE, l, 1, 1, 2) : l \in {2, 3, 5}}
    \cup {Request(2, 3, FALSE, c, 1, 1, 1, 2) : c \in BOOLEAN}
    \cup {Request(2, 3, TRUE, FALSE, 1, 1, 1, 2)}
    \cup {Request(3, 3, TRUE, FALSE, l, 1, 1, 2) : l \in {1, 2}}
    \cup {Request(4, 4, FALSE, FALSE, b[1], b[2], 1, 2) : b \in {<<0, 0>>, <<0, 2>>, <<2, 0>>}}
    \cup {Request(4, 4, TRUE, FALSE, l, 1, 1, 2) : l \in {0, 4, 5}}
    \cup {Request(3, 3, FALSE, FALSE, b[1], b[2], 1, 2) : b \in {<<1, 4>>, <<4, 1>>, <<3, 3>>}}
    \cup {Request(4, 4, FALSE, FALSE, 3, 3, 0, 1), Request(2, 2, TRUE, FALSE, 1, 1, 1, 0)}
    \cup {Request(1, 1, sym, FALSE, 0, 0, 1, 1) : sym \in BOOLEAN}
    \cup {Request(3, 1, FALSE, FALSE, 2, 2, 1, 1)}

Job(mode, files, made, w, n) ==
    [mode |-> mode, files |-> files, made |-> made, warmup |-> w, runs |-> n]
Made(n, m, ptr, cs) ==
    [fields |-> Vectors, rows |-> n, cols |-> m, row_ptr |-> ptr, cells |-> cs]
At_(c) == [col |-> c, val |-> 1]
MCJobs ==
    {Job("mtx-sq", <<f>>, <<>>, 1, 2) : f \in BenchFiles}
    \cup {Job("mtx", <<f, g>>, <<>>, 1, 1) : f \in {Tall, Wide, Empty}, g \in {Tall, NoFile}}
    \cup {Job("gen", <<>>, <<Made(1, 2, (0 :> 0 @@ 1 :> 1), (0 :> At_(1))),
                             Made(2, 1, (0 :> 0 @@ 1 :> 1 @@ 2 :> 2), (0 :> At_(0) @@ 1 :> At_(0)))>>, 0, 1)}
===============================================================================
