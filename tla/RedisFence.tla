------------------------------ MODULE RedisFence ----------------------------
(***************************************************************************)
(* persistence/redis/fenced-write.lua beside the helpers of fence.ts that  *)
(* are meant to decide alike.  One script run is one action; requests of   *)
(* any age come in any order, repeated or not.  Tokens are texts.  A field *)
(* that fails validation is represented by the code it fails with.         *)
(***************************************************************************)
EXTENDS DecimalText

CONSTANTS
    Texts,      \* what arrives as fencing token: digit sequences, and BAD
    MaxToken,   \* MAX_TOKEN, as digits
    OperationIds, Payloads,
    Defects,    \* validation codes a field may earn; none of the above
    CorruptPairs, \* damaged contents of the two keys at the start
    NULL, BAD, Malformed

VARIABLES
    hash,  \* the watermark hash, NULL when absent, BAD when not a hash
    value  \* the protected string, NULL when absent, BAD when not a string

fenceVars == <<hash, value>>

Fields == {"fencing_token", "operation_id", "payload_sha256", "holder", "lease_id"}

\* closed: exactly the declared fields (or arguments); meta: holder and leaseId,
\* which take no part in any decision.
Requests ==
    [closed : BOOLEAN, keys : {"tagged", "untagged", "equal"}, token : Texts, op : OperationIds \cup Defects,
     sha : Payloads \cup Defects, meta : {NULL} \cup Defects]

-----------------------------------------------------------------------------
(* The script.                                                             *)

canonical_token(t) ==
    /\ t \notin {BAD, NULL}
    /\ t # <<>> /\ Len(t) <= Len(MaxToken)
    /\ ~(Len(t) > 1 /\ t[1] = 0)
    /\ ~(Len(t) = Len(MaxToken) /\ LexGreater(t, MaxToken))

\* Mutant: strings of different lengths are compared as text.
compare_as_text(left, right) ==
    CASE left = right -> 0
      [] \E i \in 1..Len(left) : /\ i <= Len(right) => left[i] > right[i]
                                 /\ \A j \in 1..(i - 1) : j <= Len(right) /\ left[j] = right[j] -> 1
      [] OTHER -> -1

compare_decimal(left, right) ==
    CASE Len(left) < Len(right) -> -1
      [] Len(left) > Len(right) -> 1
      [] Len(left) = Len(right) /\ LexGreater(right, left) -> -1
      [] Len(left) = Len(right) /\ LexGreater(left, right) -> 1
      [] OTHER -> 0

\* Mutant: the optional metadata is not validated.
RequestRefusedLoose(r) ==
    \/ ~r.closed \/ r.keys # "tagged"
    \/ ~canonical_token(r.token)
    \/ r.op \in Defects \/ r.sha \in Defects

RequestRefused(r) ==
    \/ ~r.closed \/ r.keys # "tagged"
    \/ ~canonical_token(r.token)
    \/ r.op \in Defects \/ r.sha \in Defects \/ r.meta \in Defects

\* A hash h and a string v that are not both there, or not what HSet and SET leave.
Damaged(h, v) ==
    \/ h = BAD \/ v = BAD
    \/ (h = NULL) # (v = NULL)
    \/ h \notin {NULL, BAD} /\ (\/ DOMAIN h # Fields
                                \/ ~canonical_token(h.fencing_token)
                                \/ \E f \in Fields \ {"fencing_token"} : h[f] \in Defects)

\* The stored pair is validated completely before anything is written.
PairRefused == Damaged(hash, value)

Decision(r) ==
    IF RequestRefused(r) \/ PairRefused THEN "error"
    ELSE IF hash = NULL THEN "advanced"
    ELSE LET order == compare_decimal(r.token, hash.fencing_token) IN
         CASE order > 0 -> "advanced"
           [] order < 0 -> "stale"
           [] order = 0 /\ r.op = hash.operation_id /\ r.sha = hash.payload_sha256 -> "replay"
           [] OTHER -> "token_reuse"

HSet(r) ==
    [f \in Fields |-> CASE f = "fencing_token" -> r.token
                        [] f = "operation_id" -> r.op
                        [] f = "payload_sha256" -> r.sha
                        [] OTHER -> r.meta]

\* A payload digest stands for the value it digests.
FencedWrite(r) ==
    IF Decision(r) = "advanced"
    THEN hash' = HSet(r) /\ value' = r.sha
    ELSE UNCHANGED fenceVars

-----------------------------------------------------------------------------
(* fence.ts.                                                               *)

fencingTokenText(t) ==
    /\ t # BAD
    /\ t # <<>> /\ (t[1] = 0 => Len(t) = 1)
    /\ Value(t) <= Value(MaxToken)

\* Own data properties only, none unknown.
requestRecord(r) == r.closed

validateField(v) == v \notin Defects

validateOptionalField(v) == v # NULL => validateField(v)

fencedWriteRequest(r) ==
    /\ requestRecord(r)
    /\ validateField(r.op)
    /\ validateOptionalField(r.meta)
    /\ validateField(r.sha)
    /\ fencingTokenText(r.token)

Abstract(token, op, sha) ==
    [fencingToken |-> Value(token), operationId |-> op, payloadSha256 |-> sha]

Fence == INSTANCE FenceStore WITH
    FenceTokens <- 0..Value(MaxToken),
    watermark <- IF PairRefused THEN Malformed
                 ELSE IF hash = NULL THEN NULL
                 ELSE Abstract(hash.fencing_token, hash.operation_id, hash.payload_sha256),
    state <- IF PairRefused THEN NULL ELSE value

HelperDecision(r) ==
    IF ~fencedWriteRequest(r) THEN "error"
    ELSE Fence!evaluateFence(
            IF hash = NULL THEN NULL
            ELSE Abstract(hash.fencing_token, hash.operation_id, hash.payload_sha256),
            Abstract(r.token, r.op, r.sha))

-----------------------------------------------------------------------------
RedisFenceInit == \E pair \in {<<NULL, NULL>>} \cup CorruptPairs : hash = pair[1] /\ value = pair[2]

RedisFenceNext == \E r \in Requests : FencedWrite(r)

RedisFenceSpec == RedisFenceInit /\ [][RedisFenceNext]_fenceVars

-----------------------------------------------------------------------------
(* Properties.                                                             *)

\* README: the helpers of fence.ts "are semantic mirrors of the SQL and Redis
\* adapters".  For every request on its way and every sound pair the script can
\* be in, comparing texts by length and then by character and comparing bigints
\* decide alike, and both refuse the same requests.
MirrorsDecideAlike ==
    \A r \in Requests :
        (~PairRefused /\ r.keys = "tagged") => Decision(r) = HelperDecision(r)

\* The script implements the atomic fence: watermark and protected value change
\* together, for strictly newer tokens only, and a damaged pair (a partial or
\* padded hash, an orphan or a missing value, a wrong type) is neither repaired
\* by a newer token nor made by the script.
RedisFenceImplementsStore == Fence!StoreSpec
=============================================================================
