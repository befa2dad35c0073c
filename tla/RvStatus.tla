------------------------------- MODULE RvStatus -------------------------------
(***************************************************************************)
(* The vocabulary every module of this project shares: the status codes of *)
(* rvsp_status_t, and the data types and accumulation strategies of the    *)
(* public headers.                                                         *)
(***************************************************************************)

Status ==
    {"SUCCESS", "NULL_POINTER", "INVALID_ARGUMENT", "UNSUPPORTED_BACKEND",
     "UNSUPPORTED_DTYPE", "ALLOCATION_FAILED", "INVALID_CSR"}

Dtypes == {"FP32", "FP64", "BF16", "INT8", "INT32"}

Algos == {"DEFAULT", "RVV", "CONTIG", "ADAPTIVE"}

\* Evaluates a list of checks the way a run of early returns does.
Then(first, second) == IF first # "SUCCESS" THEN first ELSE second
Fail(condition, error) == IF condition THEN error ELSE "SUCCESS"

===============================================================================
