----------------------------- MODULE JwksCache ------------------------------
(***************************************************************************)
(* internal/middleware/auth.go: fetchJWKS, the cache of signing keys that  *)
(* all requests share, and the verification of a token with the keys it    *)
(* returns.                                                                *)
(*                                                                         *)
(* A worker is a goroutine serving one request after the other.  jwksMu is *)
(* held for the map read and for the map write only, never across the      *)
(* fetch: workers that miss at the same time fetch at the same time, and   *)
(* their writes may come in any order.  Entries are never changed in       *)
(* place, so reading one and comparing its expiry is one step.             *)
(*                                                                         *)
(* Time is a counter.  The fetch context bounds a fetch by FetchTimeout,   *)
(* the body included; what a worker computes between two calls is taken to *)
(* be shorter than one unit.  Keycloak publishes and retires keys at will. *)
(***************************************************************************)
EXTENDS Naturals, FiniteSets

CONSTANTS
    Workers,        \* goroutines serving requests
    Tenants,
    Keys,           \* keys Keycloak may publish
    SigningKeys,    \* those with kty RSA, use sig and a readable modulus
    TTL,            \* jwksCacheTTL
    FetchTimeout,   \* jwksFetchTimeout
    MaxTime         \* bound on the clock

ASSUME JwksAssumption ==
    /\ Tenants /= {} /\ Keys /= {}
    /\ SigningKeys \subseteq Keys
    /\ TTL \in Nat \ {0}
    /\ FetchTimeout \in Nat \ {0}
    /\ MaxTime \in Nat

VARIABLES
    now,            \* the clock
    published,      \* [Tenants -> SUBSET Keys], the key set of each realm
    cache,          \* jwksCache
    pc,             \* where each worker is
    token,          \* the token each worker verifies
    fetch,          \* the start, the body and the date of the body of its fetch
    keys,           \* the keys fetchJWKS returned to it
    verdict,        \* how its last request was decided
    retired,        \* history: when each key was last retired
    since           \* history: since when each key has been published

workerVars == <<pc, token, fetch, keys, verdict>>
history == <<retired, since>>
vars == <<now, published, cache, workerVars, history>>

Times == 0..MaxTime
Tokens == [tenant : Tenants, key : Keys, kid : BOOLEAN]
NoEntry == [keys |-> {}, expiresAt |-> 0]
NoFetch == [at |-> 0, keys |-> {}]
Verdicts == [ok : {"none", "accepted", "unknown", "unfetched"}, age : Times, known : Times]
Undecided == [ok |-> "none", age |-> 0, known |-> 0]

TypeOK ==
    /\ now \in Times
    /\ published \in [Tenants -> SUBSET Keys]
    /\ cache \in [Tenants -> [keys : SUBSET SigningKeys, expiresAt : 0..(MaxTime + TTL)]]
    /\ pc \in [Workers -> {"idle", "lookup", "fetch", "body", "verify", "done"}]
    /\ token \in [Workers -> Tokens]
    /\ fetch \in [Workers -> [at : Times, keys : SUBSET Keys]]
    /\ keys \in [Workers -> SUBSET SigningKeys]
    /\ verdict \in [Workers -> Verdicts]
    /\ retired \in [Tenants -> [Keys -> Times]]
    /\ since \in [Tenants -> [Keys -> Times]]

Init ==
    /\ now = 0
    /\ published \in [Tenants -> (SUBSET Keys) \ {{}}]
    /\ cache = [t \in Tenants |-> NoEntry]
    /\ pc = [w \in Workers |-> "idle"]
    /\ token = [w \in Workers |-> CHOOSE tok \in Tokens : TRUE]
    /\ fetch = [w \in Workers |-> NoFetch]
    /\ keys = [w \in Workers |-> {}]
    /\ verdict = [w \in Workers |-> Undecided]
    /\ retired = [t \in Tenants |-> [k \in Keys |-> 0]]
    /\ since = [t \in Tenants |-> [k \in Keys |-> 0]]

Tenant(w) == token[w].tenant

-----------------------------------------------------------------------------
(* Auth and fetchJWKS *)

\* A request with a readable Bearer token arrives.  The bound leaves room for
\* its fetch to time out before MaxTime.
Arrive(w) ==
    /\ pc[w] \in {"idle", "done"}
    /\ now + FetchTimeout <= MaxTime
    /\ \E tok \in Tokens : token' = [token EXCEPT ![w] = tok]
    /\ pc' = [pc EXCEPT ![w] = "lookup"]
    /\ verdict' = [verdict EXCEPT ![w] = Undecided]
    /\ keys' = [keys EXCEPT ![w] = {}]
    /\ UNCHANGED <<now, published, cache, fetch, history>>

\* Mutated: the expiry is not looked at.
Fresh_Always(t) == cache[t] /= NoEntry

\* time.Now().Before(entry.expiresAt); the missing entry expired long ago.
Fresh(t) == now < cache[t].expiresAt

CacheHit(w) ==
    /\ pc[w] = "lookup"
    /\ Fresh(Tenant(w))
    /\ keys' = [keys EXCEPT ![w] = cache[Tenant(w)].keys]
    /\ pc' = [pc EXCEPT ![w] = "verify"]
    /\ UNCHANGED <<now, published, cache, token, fetch, verdict, history>>

StartFetch(w) ==
    /\ pc[w] = "lookup"
    /\ ~Fresh(Tenant(w))
    /\ fetch' = [fetch EXCEPT ![w] = [at |-> now, keys |-> {}]]
    /\ pc' = [pc EXCEPT ![w] = "fetch"]
    /\ UNCHANGED <<now, published, cache, token, keys, verdict, history>>

\* Keycloak answers 200 with the keys of this moment.
Respond(w) ==
    /\ pc[w] = "fetch"
    /\ fetch' = [fetch EXCEPT ![w].keys = published[Tenant(w)]]
    /\ pc' = [pc EXCEPT ![w] = "body"]
    /\ UNCHANGED <<now, published, cache, token, keys, verdict, history>>

\* The keys the loop over jwks.Keys keeps.
Usable(ks) == ks \cap SigningKeys

\* Mutated: an entry that expired is extended instead of replaced.
Store_KeepsKeys(w) ==
    /\ pc[w] = "body"
    /\ cache' = [cache EXCEPT ![Tenant(w)] =
                    IF @ = NoEntry
                    THEN [keys |-> Usable(fetch[w].keys), expiresAt |-> now + TTL]
                    ELSE [keys |-> @.keys, expiresAt |-> now + TTL]]
    /\ keys' = [keys EXCEPT ![w] = Usable(fetch[w].keys)]
    /\ pc' = [pc EXCEPT ![w] = "verify"]
    /\ UNCHANGED <<now, published, token, fetch, verdict, history>>

\* The body has arrived.  The write under jwksMu replaces whatever another
\* fetch stored meanwhile.
Store(w) ==
    /\ pc[w] = "body"
    /\ cache' = [cache EXCEPT ![Tenant(w)] =
                    [keys |-> Usable(fetch[w].keys), expiresAt |-> now + TTL]]
    /\ keys' = [keys EXCEPT ![w] = Usable(fetch[w].keys)]
    /\ pc' = [pc EXCEPT ![w] = "verify"]
    /\ UNCHANGED <<now, published, token, fetch, verdict, history>>

Decide(w, v) ==
    /\ verdict' = [verdict EXCEPT ![w] = v]
    /\ pc' = [pc EXCEPT ![w] = "done"]
    /\ fetch' = [fetch EXCEPT ![w] = NoFetch]
    /\ UNCHANGED <<now, published, cache, token, keys, history>>

\* Mutated: the timeout covers the response header, not the body.
TimedOut_HeaderOnly(w) == pc[w] = "fetch" /\ now >= fetch[w].at + FetchTimeout

TimedOut(w) == pc[w] \in {"fetch", "body"} /\ now >= fetch[w].at + FetchTimeout

\* No connection, a status other than 200, or a body that does not decode.
FetchFails(w) ==
    /\ pc[w] \in {"fetch", "body"}
    /\ Decide(w, [Undecided EXCEPT !.ok = "unfetched"])

Verdict(w, ok) ==
    LET t == Tenant(w)
        k == token[w].key
    IN  [ok |-> ok,
         age |-> IF k \in published[t] THEN 0 ELSE now - retired[t][k],
         known |-> IF k \in published[t] THEN now - since[t][k] ELSE 0]

\* The key the callback of jwt.Parse picks: the one with the kid, or, without a
\* kid, the first one of a range over a map, which is any of them.
Candidates(w) == IF token[w].kid THEN keys[w] \cap {token[w].key} ELSE keys[w]

Accept(w) ==
    /\ pc[w] = "verify"
    /\ token[w].key \in Candidates(w)
    /\ Decide(w, Verdict(w, "accepted"))

Reject(w) ==
    /\ pc[w] = "verify"
    /\ Candidates(w) = {} \/ \E k \in Candidates(w) : k /= token[w].key
    /\ Decide(w, Verdict(w, "unknown"))

-----------------------------------------------------------------------------
(* Keycloak and the clock *)

Publish(t, k) ==
    /\ k \notin published[t]
    /\ published' = [published EXCEPT ![t] = @ \cup {k}]
    /\ since' = [since EXCEPT ![t][k] = now]
    /\ UNCHANGED <<now, cache, workerVars, retired>>

Retire(t, k) ==
    /\ k \in published[t]
    /\ published' = [published EXCEPT ![t] = @ \ {k}]
    /\ retired' = [retired EXCEPT ![t][k] = now]
    /\ UNCHANGED <<now, cache, workerVars, since>>

\* No worker is left computing, and no fetch outlives its context.
Tick ==
    /\ now < MaxTime
    /\ \A w \in Workers : pc[w] \notin {"lookup", "verify"} /\ ~TimedOut(w)
    /\ now' = now + 1
    /\ UNCHANGED <<published, cache, workerVars, history>>

\* What a worker does without waiting for Keycloak.
Step(w) == CacheHit(w) \/ StartFetch(w) \/ Accept(w) \/ Reject(w)

Next ==
    \/ \E w \in Workers : Arrive(w) \/ Step(w) \/ Respond(w) \/ Store(w) \/ FetchFails(w)
    \/ \E t \in Tenants, k \in Keys : Publish(t, k) \/ Retire(t, k)
    \/ Tick

Spec == Init /\ [][Next]_vars

(***************************************************************************)
(* A goroutine that can run does, time passes however busy the workers are *)
(* (hence strong fairness: a worker that computes holds the clock), and    *)
(* the context of a fetch ends it at its deadline.  Keycloak owes nothing, *)
(* not even an answer.                                                     *)
(***************************************************************************)
Fairness ==
    /\ SF_vars(Tick)
    /\ \A w \in Workers : WF_vars(Step(w)) /\ WF_vars(TimedOut(w) /\ FetchFails(w))

FairSpec == Spec /\ Fairness

-----------------------------------------------------------------------------
\* A token is accepted only if its key was in the realm's key set less than
\* TTL + FetchTimeout ago, although concurrent fetches may overwrite a newer
\* key set with an older one and then date it as new (the writes of fetchJWKS).
StaleKeyWindow ==
    \A w \in Workers : verdict[w].ok = "accepted" => verdict[w].age < TTL + FetchTimeout

\* A token that names its key is not refused as unknown once the key has been
\* published for TTL + FetchTimeout: the cache, which is never refreshed for an
\* unknown kid, hides a new key no longer than that.
RotationWindow ==
    \A w \in Workers :
        (verdict[w].ok = "unknown" /\ token[w].kid /\ token[w].key \in SigningKeys) =>
            verdict[w].known < TTL + FetchTimeout

\* Every request is decided, whatever Keycloak does: a fetch ends by its own
\* timeout, not by the request's context.
AuthDecides == \A w \in Workers : (pc[w] = "lookup") ~> (pc[w] = "done")
=============================================================================
