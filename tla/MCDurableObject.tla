-------------------------- MODULE MCDurableObject ---------------------------
(***************************************************************************)
(* TLC instance of the Durable Object: its lease state under any calls,    *)
(* and the HTTP boundary in front of it.  The boundary keeps no lease      *)
(* state and the object no HTTP state, so a run follows one of them,       *)
(* chosen in the initial state.  Policy trees are o/ and o/p/, keys o/p/x, *)
(* o/px and o.                                                             *)
(***************************************************************************)
EXTENDS LeaseAuthority, Sequences

CONSTANTS Envs, Bodies, Framings, MaxBody, BoundaryTtl,
          Characters \* of keys and prefixes

Tree(components, slash) == [components |-> components, slash |-> slash]
Trees == {Tree(<<<<"o">>, <<"p">>>>, TRUE), Tree(<<<<"o">>, <<"p">>>>, FALSE), Tree(<<<<"o">>, <<>>>>, TRUE), Tree(<<<<"o">>>>, TRUE)}
Policy(parses, prefixes, operations, maxTtl) ==
    [parses |-> parses, prefixes |-> prefixes, operations |-> operations, maxTtl |-> maxTtl]

Policies ==
    {Policy(TRUE, {p}, ops, t) : p \in Trees, ops \in {{"acquire", "renew", "release"}, {"renew"}}, t \in {1, 2}}
    \cup {Policy(FALSE, {}, {}, 0), Policy(TRUE, {}, {"acquire"}, 1), Policy(TRUE, Trees, {"steal"}, 1),
          Policy(TRUE, {Tree(<<<<"o">>>>, TRUE)}, {"renew"}, 3)}
MCEnvs == [production : BOOLEAN, open : BOOLEAN, token : BOOLEAN, raw : Policies \cup {NULL}]

Keys == {<<<<"o">>, <<"p">>, <<"x">>>>, <<<<"o">>, <<"p", "x">>>>, <<<<"o">>>>}
MCBodies ==
    {[key |-> k, holder |-> "good", ttl_ms |-> t] : k \in Keys, t \in {0, 2}}
    \cup {[key |-> k, holder |-> "good", ttl_ms |-> 1, request_id |-> r] : k \in Keys, r \in {"good", "bad", NULL}}
    \cup {[key |-> k, holder |-> "good", ttl_ms |-> 1, fencing_token |-> f] : k \in Keys, f \in {"text", "number", "bad"}}
    \cup {[key |-> k, holder |-> "good", fencing_token |-> "number"] : k \in Keys}
    \cup {[holder |-> "good", fencing_token |-> "number"], [holder |-> "good", ttl_ms |-> 1],
          [holder |-> "bad", ttl_ms |-> 1], [key |-> NULL, holder |-> "good", ttl_ms |-> 1]}

Framing(declared, chunks) == [declared |-> declared, chunks |-> chunks]
MCFramings ==
    {Framing(d, c) : d \in {"none", "bad", "large", "small"}, c \in {NULL, <<>>, <<3>>, <<2, 1>>, <<2, 2, 1>>}}

VARIABLES
    side, \* "object" or "boundary"
    env, entry, req, stage, total, chunk, status, called \* HttpBoundary's variables

httpVars == <<env, entry, req, stage, total, chunk, status, called>>

Http == INSTANCE HttpBoundary WITH MaxTtl <- BoundaryTtl, pc <- stage, executed <- called

\* A path as split('/') makes it: no component contains a slash.
Path(components) ==
    /\ components \in Seq(Seq(Characters))
    /\ \A i \in 1..Len(components) : \A j \in 1..Len(components[i]) : components[i][j] # "/"

\* A key and a prefix of a policy are paths, sizes are numbers.
ASSUME BoundaryAssumption ==
    /\ MaxBody \in Nat /\ NULL # "text" /\ "/" \in Characters
    /\ \A f \in Framings : f.chunks = NULL \/ f.chunks \in Seq(Nat)
    /\ \A e \in Envs : e.raw # NULL => \A p \in e.raw.prefixes : Path(p.components)
    /\ \A b \in Bodies : "key" \in DOMAIN b /\ b["key"] # NULL => Path(b["key"])

DurableInit ==
    /\ AuthorityInit
    /\ \/ side = "boundary" /\ Http!BoundaryInit
       \/ /\ side = "object"
          /\ env = NULL /\ entry = NULL /\ req = NULL /\ stage = "none"
          /\ total = 0 /\ chunk = 0 /\ status = NULL /\ called = NULL

DurableNext ==
    \/ side = "object" /\ AuthorityNext /\ UNCHANGED <<side, httpVars>>
    \/ side = "boundary" /\ Http!BoundaryNext /\ UNCHANGED <<side, authorityVars>>

DurableFairness ==
    /\ WF_authorityVars(side = "object" /\ AlarmDue)
    /\ WF_authorityVars(side = "object" /\ Tick)

DurableSpec == DurableInit /\ [][DurableNext]_<<side, authorityVars, httpVars>> /\ DurableFairness

\* The HTTP boundary admits, bounds and answers as HttpBoundary says.
BoundarySound == Http!BoundarySound
=============================================================================
