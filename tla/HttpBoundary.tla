---------------------------- MODULE HttpBoundary ----------------------------
(***************************************************************************)
(* The Worker in front of the Durable Object (index.js, http-boundary.js): *)
(* configuration, authentication, the bounded read of the body, validation *)
(* and authorization, in the order of the code, then one RPC; and the      *)
(* object's own stub.fetch, which repeats part of it.  One request at a    *)
(* time; the lease state behind the RPC is LeaseAuthority's.               *)
(*                                                                         *)
(* A body is a set of fields with a class of value each; keys and policy   *)
(* prefixes are paths whose components are texts.                          *)
(***************************************************************************)
EXTENDS Integers, Sequences, SequencesExt

CONSTANTS
    Envs,     \* Worker configurations
    Bodies,   \* JSON bodies: functions from field names
    Framings, \* declared length, and the sizes of the chunks that come
    MaxBody,  \* MAX_BODY_BYTES
    MaxTtl,   \* MAX_TTL_MS
    NULL

VARIABLES
    env,      \* the configuration
    entry,    \* "worker" or "stub": which fetch
    req,      \* the request line; framing and body as far as they have been read
    pc, total, chunk, \* the handler, bytes buffered, chunks read
    status,   \* of the response, or NULL
    executed  \* what the authority was called with, or NULL

vars == <<env, entry, req, pc, total, chunk, status, executed>>

Paths == {"acquire", "renew", "release"}

-----------------------------------------------------------------------------
(* The scope policy                                                        *)

Slash == <<"/">>

\* The texts of a path's first components, with slashes between them.
PrefixTexts(components) ==
    LET t[n \in 0..Len(components)] ==
            IF n = 0 THEN <<>> ELSE IF n = 1 THEN components[n] ELSE (t[n - 1] \o Slash) \o components[n]
    IN  t

\* The text of a path.
Text(components) == PrefixTexts(components)[Len(components)]

PrefixText(p) == Text(p.components) \o (IF p.slash THEN Slash ELSE <<>>)

\* Mutant: a prefix need not end in a slash.
validScopePrefixAnywhere(p) ==
    \A i \in 1..Len(p.components) : p.components[i] \notin {<<>>, <<".">>, <<".", ".">>}

validScopePrefix(p) ==
    /\ p.slash
    /\ \A i \in 1..Len(p.components) : p.components[i] \notin {<<>>, <<".">>, <<".", ".">>}

\* parsePublicScopePolicy of the raw policy, NULL when there is none.
Configured == env.raw # NULL
InvalidPolicy ==
    Configured /\ ( \/ ~env.raw.parses
                    \/ env.raw.prefixes = {} \/ \E p \in env.raw.prefixes : ~validScopePrefix(p)
                    \/ env.raw.operations = {} \/ ~(env.raw.operations \subseteq Paths)
                    \/ env.raw.maxTtl \notin 1..MaxTtl )

\* The answer of authorizePublicOperation, TRUE when allowed.
authorizePublicOperation(path, body) ==
    Configured =>
        /\ path \in env.raw.operations
        /\ \E p \in env.raw.prefixes : IsPrefix(PrefixText(p), Text(body.key))
        /\ path # "release" => body.ttl_ms <= env.raw.maxTtl

-----------------------------------------------------------------------------
(* Validation                                                              *)

PublicFields(path) ==
    {"key", "holder"} \cup (CASE path = "acquire" -> {"ttl_ms", "request_id"}
                              [] path = "renew" -> {"ttl_ms", "fencing_token"}
                              [] OTHER -> {"fencing_token"})

InternalFields(path) == PublicFields(path) \ {"key"}

\* A number that can be read exactly becomes its decimal text.
canonicalToken(t) == CASE t = "number" -> "text" [] t = "text" -> "text" [] OTHER -> NULL

Has(body, f, good) == f \in DOMAIN body /\ body[f] \in good

validateOperation(path, body, fields, requireKey) ==
    /\ DOMAIN body \subseteq fields
    /\ requireKey => "key" \in DOMAIN body /\ body["key"] # NULL
    /\ Has(body, "holder", {"good"})
    /\ (path = "acquire" /\ "request_id" \in DOMAIN body) => body["request_id"] \in {"good", NULL}
    /\ path # "release" => Has(body, "ttl_ms", 1..MaxTtl)
    /\ path # "acquire" => "fencing_token" \in DOMAIN body /\ canonicalToken(body["fencing_token"]) # NULL

\* What the RPC is called with.
internalBody(path, body) ==
    [f \in (DOMAIN body \ {"key"}) |-> IF f = "fencing_token" THEN canonicalToken(body[f]) ELSE body[f]]

-----------------------------------------------------------------------------
(* The handler                                                             *)

Respond(s) ==
    /\ status' = s /\ pc' = "done"
    /\ UNCHANGED <<env, entry, req, total, chunk, executed>>

Goto(p) ==
    /\ pc' = p
    /\ UNCHANGED <<env, entry, req, total, chunk, status, executed>>

\* Without a configured token nothing matches.
bearerMatches == env.token /\ req.bearer

Admit ==
    /\ pc = "arrived" /\ entry = "worker"
    /\ CASE req.path = "healthz" -> Respond(200)
         [] req.path \notin Paths \cup {"healthz"} -> Respond(404)
         [] req.path \in Paths /\ req.method # "POST" -> Respond(405)
         [] req.path \in Paths /\ req.method = "POST" ->
              IF InvalidPolicy \/ (env.production /\ (~Configured \/ env.open)) THEN Respond(503)
              ELSE IF ~env.token /\ ~env.open THEN Respond(503)
              ELSE IF ~env.open /\ ~bearerMatches THEN Respond(401)
              ELSE Goto("reading")

\* LockLeaseObject.fetch: only the binding can call it.
AdmitStub ==
    /\ pc = "arrived" /\ entry = "stub"
    /\ CASE req.method # "POST" -> Respond(405)
         [] req.method = "POST" /\ req.path \notin Paths -> Respond(404)
         [] OTHER -> Goto("reading")

\* readBoundedJson
CheckLength ==
    /\ pc = "reading"
    /\ \E f \in Framings :
        /\ req' = [req EXCEPT !.framing = f]
        /\ \/ f.declared = "bad" /\ status' = 400 /\ pc' = "done"
           \/ f.declared = "large" /\ status' = 413 /\ pc' = "done"
           \/ /\ f.declared \notin {"bad", "large"}
              /\ IF f.chunks = NULL THEN status' = 400 /\ pc' = "done" ELSE pc' = "streaming" /\ UNCHANGED status
    /\ UNCHANGED <<env, entry, total, chunk, executed>>

\* A chunk that would go past the limit is not kept and the stream is cancelled.
ReadChunk ==
    /\ pc = "streaming" /\ chunk < Len(req.framing.chunks)
    /\ IF total + req.framing.chunks[chunk + 1] > MaxBody THEN Respond(413)
       ELSE /\ chunk' = chunk + 1 /\ total' = total + req.framing.chunks[chunk + 1]
            /\ UNCHANGED <<env, entry, req, pc, status, executed>>

\* The client goes away in the middle of the stream.
ReadFails == pc = "streaming" /\ Respond(400)

\* JSON.parse (NULL when it fails), validation, and authorization for the Worker.
Decide ==
    /\ pc = "streaming" /\ chunk = Len(req.framing.chunks)
    /\ \E body \in Bodies \cup {NULL} :
        LET public == entry = "worker"
            fields == IF public THEN PublicFields(req.path) ELSE InternalFields(req.path)
            valid == body # NULL => validateOperation(req.path, body, fields, public)
            allowed == public => authorizePublicOperation(req.path, body)
        IN  /\ req' = [req EXCEPT !.body = body]
            /\ IF body = NULL \/ ~valid THEN status' = 400 /\ pc' = "done"
               ELSE IF ~allowed THEN status' = 403 /\ pc' = "done"
               ELSE pc' = "rpc" /\ UNCHANGED status
    /\ UNCHANGED <<env, entry, total, chunk, executed>>

\* The RPC throws, before or after it took effect.
InvokeFails ==
    /\ pc = "rpc"
    /\ executed' \in {NULL, internalBody(req.path, req.body)}
    /\ status' = (IF entry = "worker" THEN 503 ELSE 500) /\ pc' = "done"
    /\ UNCHANGED <<env, entry, req, total, chunk>>

\* getByName throws outside the try: the platform answers for the Worker.
StubFails == pc = "rpc" /\ entry = "worker" /\ Respond(500)

\* rpcStatus: an exhausted counter is 503 and changes nothing.  Its 400 is for
\* the typed errors of the authority's own validators, which the same
\* validators have ruled out when the body got here (BoundariesAgree).
Invoke ==
    /\ pc = "rpc"
    /\ \/ /\ executed' = internalBody(req.path, req.body)
          /\ status' = 200
       \/ /\ UNCHANGED executed
          /\ status' = 503 /\ req.path = "acquire"
    /\ pc' = "done"
    /\ UNCHANGED <<env, entry, req, total, chunk>>

-----------------------------------------------------------------------------
BoundaryInit ==
    /\ env \in Envs /\ entry \in {"worker", "stub"}
    /\ req \in [path : Paths \cup {"healthz", "other"}, method : {"POST", "GET"}, bearer : BOOLEAN,
                framing : {NULL}, body : {NULL}]
    /\ pc = "arrived" /\ total = 0 /\ chunk = 0 /\ status = NULL /\ executed = NULL

BoundaryNext ==
    Admit \/ AdmitStub \/ CheckLength \/ ReadChunk \/ ReadFails \/ Decide \/ StubFails \/ Invoke \/ InvokeFails

BoundarySpec == BoundaryInit /\ [][BoundaryNext]_vars

-----------------------------------------------------------------------------
(* Properties.                                                             *)

\* A key lies in the tree of a policy prefix, component by component.
Below(key, p) == IsStrictPrefix(p.components, key)

\* What the Worker lets through to the authority, whatever the order of its
\* checks: production is never open nor without a policy, the caller has the
\* token, and verb, tree and TTL are the policy's.  A credential for .../prod/
\* does not reach .../prod-shadow/.
OnlyAdmittedReach ==
    (executed # NULL /\ entry = "worker") =>
        /\ env.open => ~env.production
        /\ ~env.open => (env.token /\ req.bearer)
        /\ env.production => Configured
        /\ Configured =>
              /\ req.path \in env.raw.operations
              /\ \E p \in env.raw.prefixes : Below(req.body.key, p)
              /\ req.path # "release" => req.body.ttl_ms <= env.raw.maxTtl

\* No request makes the handler keep more than the limit, whatever length it
\* declared and however it is cut into chunks.
BufferBounded == total <= MaxBody

\* A refusal is definite: after any 4xx the authority was not called, so only
\* a 5xx leaves the caller in doubt.
RefusalsAreDefinite == (status # NULL /\ status \in 400..499) => executed = NULL

\* The two boundaries agree: what the Worker sends on would pass the object's
\* own validation, with an exact decimal token.
BoundariesAgree ==
    executed # NULL => /\ validateOperation(req.path, executed, InternalFields(req.path), FALSE)
                       /\ "fencing_token" \in DOMAIN executed => executed["fencing_token"] = "text"

\* What a caller may rely on at the boundary: nothing reaches the authority
\* that was not admitted, in the form the object accepts; nothing is kept that
\* exceeds the limit; and only a 5xx leaves open whether something happened.
BoundarySound == OnlyAdmittedReach /\ BoundariesAgree /\ BufferBounded /\ RefusalsAreDefinite
=============================================================================
