------------------------------- MODULE SpgemmApi -------------------------------
(***************************************************************************)
(* What include/rv_sparse.h promises of the two-phase API, without the     *)
(* cache of column indices, the storage or the checks: a descriptor is     *)
(* created, analyses a pair of patterns, and computes products of that     *)
(* pair; a call may always fail, and a call that fails changes no output.  *)
(***************************************************************************)
EXTENDS RvStatus

CONSTANTS
    Handles, Outs,
    Pairs,      \* the pairs of patterns that can be analysed
    Product,    \* the structure of the product of a pair
    Unknown,    \* no structure
    Null

VARIABLES
    phase,      \* "none", "created" or "estimated"
    algo,       \* the strategy of a handle that is not "none"
    pair,       \* the patterns an estimated handle analysed
    result      \* the structure a reader of C sees, Unknown when it has none

apiVars == <<phase, algo, pair, result>>

ApiInit ==
    /\ phase = [h \in Handles |-> "none"]
    /\ algo = [h \in Handles |-> Null]
    /\ pair = [h \in Handles |-> Null]
    /\ result = [c \in Outs |-> Unknown]

ApiCreate(h) ==
    /\ phase[h] = "none"
    /\ phase' = [phase EXCEPT ![h] = "created"]
    /\ algo' = [algo EXCEPT ![h] = "DEFAULT"]
    /\ UNCHANGED <<pair, result>>

ApiDestroy(h) ==
    /\ phase[h] # "none"
    /\ phase' = [phase EXCEPT ![h] = "none"]
    /\ algo' = [algo EXCEPT ![h] = Null]
    /\ pair' = [pair EXCEPT ![h] = Null]
    /\ UNCHANGED result

\* The strategy can change until the structure is analysed.
ApiSetAlgo(h) ==
    /\ phase[h] = "created"
    /\ \E a \in Algos : algo' = [algo EXCEPT ![h] = a]
    /\ UNCHANGED <<phase, pair, result>>

\* A new analysis replaces the previous one, a failed one discards it.
ApiEstimate(h) ==
    /\ phase[h] # "none"
    /\ \/ \E p \in Pairs :
            /\ phase' = [phase EXCEPT ![h] = "estimated"]
            /\ pair' = [pair EXCEPT ![h] = p]
       \/ /\ phase' = [phase EXCEPT ![h] = "created"]
          /\ pair' = [pair EXCEPT ![h] = Null]
    /\ UNCHANGED <<algo, result>>

\* Every success writes the whole product of the analysed pair.
ApiCompute(h, c) ==
    /\ phase[h] = "estimated"
    /\ result' = [result EXCEPT ![c] = Product[pair[h]]]
    /\ UNCHANGED <<phase, algo, pair>>

\* The caller may give C new storage at any time.
ApiReplaceStorage(c) ==
    /\ result' = [result EXCEPT ![c] = Unknown]
    /\ UNCHANGED <<phase, algo, pair>>

ApiNext ==
    \/ \E h \in Handles :
         \/ ApiCreate(h) \/ ApiDestroy(h) \/ ApiSetAlgo(h) \/ ApiEstimate(h)
         \/ \E c \in Outs : ApiCompute(h, c)
    \/ \E c \in Outs : ApiReplaceStorage(c)

ApiSpec == ApiInit /\ [][ApiNext]_apiVars

===============================================================================
