----------------------------- MODULE MCBatchWrite ------------------------------
(***************************************************************************)
(* Five writes in chunks of two: the first chunk writes two keys, the      *)
(* second one key twice, and the last, which is not full, repeats a key of *)
(* the first.  MaxConcurrency is asked for less than one, and for two.  A  *)
(* BatchGet asks for both keys and for one nobody writes, in chunks of two.*)
(***************************************************************************)
EXTENDS BatchGet

CONSTANTS k, l, m

FiveWrites == <<k, l, k, k, l>>

Concurrencies == {-1, 2}

ThreeKeys == <<l, m, k>>

===============================================================================
