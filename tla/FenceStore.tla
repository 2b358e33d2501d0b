----------------------------- MODULE FenceStore -----------------------------
(***************************************************************************)
(* What fencing promises about one protected resource: the watermark (the  *)
(* last accepted request) and the protected state change together, in one  *)
(* atomic step, and only for a strictly newer token.  The decision is      *)
(* evaluateFence of fence.ts; the datastores (fencing.sql, fenced-write.lua)*)
(* implement this step.                                                    *)
(***************************************************************************)
EXTENDS Integers

CONSTANTS
    FenceTokens,  \* fencing tokens a request may carry
    OperationIds, \* caller idempotency keys
    Payloads,     \* payload digests; a digest stands for the value it digests
    Malformed,    \* a stored watermark that fails validation
    NULL

VARIABLES
    watermark, \* the last accepted request, NULL, or Malformed
    state      \* the protected state: the payload it was last set to, or NULL

storeVars == <<watermark, state>>

FencedWrites ==
    [fencingToken : FenceTokens, operationId : OperationIds, payloadSha256 : Payloads]

\* A restored or hand-edited database may start out malformed.
StoreInit == watermark \in {NULL, Malformed} /\ state = NULL

\* Mutant: any token other than the stored one is taken for a new one.
evaluateFenceUnordered(current, incoming) ==
    CASE current = NULL -> "advanced"
      [] current # NULL /\ incoming.fencingToken # current.fencingToken -> "advanced"
      [] current # NULL /\ incoming = current -> "replay"
      [] OTHER -> "token_reuse"

\* Same token, same operation and same payload is the same mutation.
evaluateFence(current, incoming) ==
    CASE current = NULL -> "advanced"
      [] current # NULL /\ incoming.fencingToken > current.fencingToken -> "advanced"
      [] current # NULL /\ incoming.fencingToken < current.fencingToken -> "stale"
      [] current # NULL /\ incoming = current -> "replay"
      [] OTHER -> "token_reuse"

\* A malformed watermark raises before anything is written.
FencedWrite(incoming) ==
    IF watermark # Malformed /\ evaluateFence(watermark, incoming) = "advanced"
    THEN watermark' = incoming /\ state' = incoming.payloadSha256
    ELSE UNCHANGED storeVars

StoreNext == \E incoming \in FencedWrites : FencedWrite(incoming)

StoreSpec == StoreInit /\ [][StoreNext]_storeVars
=============================================================================
