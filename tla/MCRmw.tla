-------------------------------- MODULE MCRmw ---------------------------------
(***************************************************************************)
(* Callers of ReadModifyWrite on one item: two with OptimisticLock that    *)
(* retry once and twice, one without OptimisticLock, and one whose         *)
(* MaxRetries is negative.  The version is a field of two bits.  Where the *)
(* item has one it is the highest, so that it wraps with the first change  *)
(* and the second is made to a version that has wrapped.                   *)
(***************************************************************************)
EXTENDS Rmw

CONSTANTS a, b, u, n

MCMaxRetries == [x \in Callers |-> CASE x = a -> 1 [] x = b -> 2 [] x = u -> 0 [] x = n -> -1]

AnyState == {Absent, Fresh(MaxVersion), Fresh(NoVersion)}

Lowest == -2

(* The callback leaves the version alone.                                  *)
Untouched(x, version) == version

===============================================================================
