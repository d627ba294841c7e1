-------------------------------- MODULE Values --------------------------------
(***************************************************************************)
(* Attribute values and their two orders.  A value is a pair of its type   *)
(* and its payload: a sequence of characters (naturals) for S and B, an    *)
(* integer for N.                                                          *)
(*                                                                         *)
(* The in-memory backend keeps its maps under keyString(value), and sorts  *)
(* those strings; it compares values of conditions by compareKeyValues.    *)
(* The two agree on S and B, and differ on N: "10" comes before "9".       *)
(***************************************************************************)
EXTENDS Integers, Sequences, SequencesExt

TypeOf(v) == v[1]

Payload(v) == v[2]

-------------------------------------------------------------------------------
(* The order of strings: byte by byte, a prefix first.                     *)

SeqLess(s, t) ==
  \/ IsStrictPrefix(s, t)
  \/ \E i \in DOMAIN s \cap DOMAIN t :
       s[i] < t[i] /\ \A j \in 1..(i - 1) : s[j] = t[j]

(* The decimal digits of a number; a minus sign comes before all digits.   *)
NatDigits[n \in Nat] ==
  IF n < 10 THEN <<n>> ELSE NatDigits[n \div 10] \o <<n % 10>>

Digits(n) == IF n < 0 THEN <<-1>> \o NatDigits[-n] ELSE NatDigits[n]

(* What keyString makes of a value, or "_" where there is no range key, as *)
(* far as the order of the strings goes: "B:" < "N:" < "S:" < "_".  The    *)
(* other types all give the empty string.                                  *)
KeyString(v) ==
  CASE TypeOf(v) = "B" -> <<0>> \o Payload(v)
    [] TypeOf(v) = "N" -> <<1>> \o Digits(Payload(v))
    [] TypeOf(v) = "S" -> <<2>> \o Payload(v)
    [] OTHER           -> <<>>

-------------------------------------------------------------------------------
(* compareKeyValues: -1, 0 or 1; values of different types, and values     *)
(* that are no keys, are all equal.                                        *)
CompareKeyValues(v, w) ==
  LET less(x, y) == IF TypeOf(x) = "N" THEN Payload(x) < Payload(y)
                    ELSE SeqLess(Payload(x), Payload(y))
  IN  IF TypeOf(v) # TypeOf(w) \/ TypeOf(v) \notin {"S", "N", "B"} THEN 0
      ELSE IF less(v, w) THEN -1
      ELSE IF less(w, v) THEN 1
      ELSE 0

===============================================================================
