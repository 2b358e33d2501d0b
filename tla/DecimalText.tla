----------------------------- MODULE DecimalText ----------------------------
(***************************************************************************)
(* Decimal strings as sequences of digits, as the Redis scripts handle     *)
(* them: Lua numbers are doubles, so tokens are compared and incremented   *)
(* as text.                                                                *)
(***************************************************************************)
EXTENDS Integers, Sequences

\* The numbers its prefixes denote.
PrefixValues(ds) == LET v[n \in 0..Len(ds)] == IF n = 0 THEN 0 ELSE 10 * v[n - 1] + ds[n] IN v

\* The number a text denotes: BigInt(text).
Value(ds) == PrefixValues(ds)[Len(ds)]

\* `a > b` on strings of equal length.
LexGreater(a, b) == \E i \in 1..Len(a) : a[i] > b[i] /\ \A j \in 1..(i - 1) : a[j] = b[j]
=============================================================================
