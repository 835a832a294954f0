----------------------------- MODULE JwksProofs -----------------------------
(***************************************************************************)
(* Proofs about JwksCache, for any number of workers, realms and keys and  *)
(* any durations.  A key set is true of the moment its body was written;   *)
(* WindowInv follows that moment from the fetch to the entry and on to the *)
(* worker that verifies a token with it.                                   *)
(***************************************************************************)
EXTENDS JwksCache, TLAPS

USE JwksAssumption DEF JwksAssumption

\* A fetch in flight has not passed its deadline, so that the clock bounds it.
FetchInv(w) ==
    pc[w] \in {"fetch", "body"} =>
        fetch[w].at <= now /\ now <= fetch[w].at + FetchTimeout

\* The histories lie in the past, and so does the moment an entry was stored.
PastInv ==
    \A t \in Tenants :
        /\ cache[t].expiresAt <= now + TTL
        /\ \A k \in Keys : retired[t][k] <= now /\ since[t][k] <= now

\* The key set ks was right at the moment m: a key in it was not retired before
\* m, and a key missing from it was not published before m.
RightAt(t, ks, m) ==
    /\ \A k \in ks : k \in published[t] \/ m <= retired[t][k]
    /\ \A k \in SigningKeys \cap published[t] : k \notin ks => m <= since[t][k]

\* The same, of a moment that is at most FetchTimeout + TTL before e.
RightUntil(t, ks, e) ==
    /\ \A k \in ks : k \in published[t] \/ e <= retired[t][k] + FetchTimeout + TTL
    /\ \A k \in SigningKeys \cap published[t] :
         k \notin ks => e <= since[t][k] + FetchTimeout + TTL

EntriesRight == \A t \in Tenants : RightUntil(t, cache[t].keys, cache[t].expiresAt)

WorkersRight ==
    \A w \in Workers :
        /\ FetchInv(w)
        /\ pc[w] = "body" => RightAt(Tenant(w), fetch[w].keys, fetch[w].at)
        /\ pc[w] = "verify" => RightUntil(Tenant(w), keys[w], now + 1)

WindowInv ==
    /\ TypeOK
    /\ PastInv
    /\ EntriesRight
    /\ WorkersRight
    /\ StaleKeyWindow
    /\ RotationWindow

LEMMA WindowInit == Init => WindowInv
<1> SUFFICES ASSUME Init PROVE WindowInv
  OBVIOUS
<1>1. TypeOK
  <2>0. PICK t \in Tenants, k \in Keys : TRUE
    OBVIOUS
  <2>1. [tenant |-> t, key |-> k, kid |-> TRUE] \in Tokens
    BY DEF Tokens
  <2>2. (CHOOSE tok \in Tokens : TRUE) \in Tokens
    BY <2>1
  <2> QED
    BY <2>2 DEF Init, TypeOK, NoEntry, NoFetch, Undecided, Verdicts, Times
<1>2. PastInv
  BY DEF Init, PastInv, NoEntry
<1>3. EntriesRight
  BY DEF Init, EntriesRight, RightUntil, NoEntry
<1>4. \A w \in Workers : pc[w] = "idle" /\ verdict[w] = Undecided
  BY DEF Init
<1> QED
  BY <1>1, <1>2, <1>3, <1>4
  DEF WindowInv, WorkersRight, FetchInv, StaleKeyWindow, RotationWindow, Undecided

LEMMA TypeStep == TypeOK /\ PastInv /\ [Next]_vars => TypeOK'
<1> SUFFICES ASSUME TypeOK, PastInv, [Next]_vars PROVE TypeOK'
  OBVIOUS
<1> USE DEF TypeOK, Times
<1>1. CASE UNCHANGED vars
  BY <1>1 DEF vars, workerVars, history
<1>2. ASSUME NEW w \in Workers PROVE Tenant(w) \in Tenants /\ token[w].key \in Keys
  BY DEF Tenant, Tokens
<1>3. ASSUME NEW w \in Workers, Arrive(w) PROVE TypeOK'
  BY <1>3 DEF Arrive, history, Undecided, Verdicts
<1>4. ASSUME NEW w \in Workers, CacheHit(w) PROVE TypeOK'
  BY <1>2, <1>4 DEF CacheHit, history
<1>5. ASSUME NEW w \in Workers, StartFetch(w) PROVE TypeOK'
  BY <1>2, <1>5 DEF StartFetch, history
<1>6. ASSUME NEW w \in Workers, Respond(w) PROVE TypeOK'
  BY <1>2, <1>6 DEF Respond, history
<1>7. ASSUME NEW w \in Workers, Store(w) PROVE TypeOK'
  BY <1>2, <1>7 DEF Store, history, Usable
<1>8. ASSUME NEW w \in Workers, NEW v \in Verdicts, Decide(w, v) PROVE TypeOK'
  BY <1>8 DEF Decide, history, NoFetch
<1>9. ASSUME NEW t \in Tenants, NEW k \in Keys, Publish(t, k) PROVE TypeOK'
  BY <1>9 DEF Publish, workerVars
<1>10. ASSUME NEW t \in Tenants, NEW k \in Keys, Retire(t, k) PROVE TypeOK'
  BY <1>10 DEF Retire, workerVars
<1>11. CASE Tick
  BY <1>11 DEF Tick, workerVars, history
<1>12. ASSUME NEW w \in Workers, FetchFails(w) PROVE TypeOK'
  <2>1. [Undecided EXCEPT !.ok = "unfetched"] \in Verdicts
    BY DEF Undecided, Verdicts
  <2> QED
    BY <1>8, <1>12, <2>1 DEF FetchFails
<1>13. ASSUME NEW w \in Workers, NEW ok \in {"accepted", "unknown"}
       PROVE Verdict(w, ok) \in Verdicts
  <2>1. retired[Tenant(w)][token[w].key] \in 0..now /\ since[Tenant(w)][token[w].key] \in 0..now
    BY <1>2 DEF PastInv
  <2> QED
    BY <2>1 DEF Verdict, Verdicts
<1>14. ASSUME NEW w \in Workers, Accept(w) PROVE TypeOK'
  BY <1>8, <1>13, <1>14 DEF Accept
<1>15. ASSUME NEW w \in Workers, Reject(w) PROVE TypeOK'
  BY <1>8, <1>13, <1>15 DEF Reject
<1> QED
  BY <1>1, <1>3, <1>4, <1>5, <1>6, <1>7, <1>9, <1>10, <1>11, <1>12, <1>14, <1>15 DEF Next, Step

LEMMA PastStep == TypeOK /\ PastInv /\ [Next]_vars => PastInv'
<1> SUFFICES ASSUME TypeOK, PastInv, [Next]_vars PROVE PastInv'
  OBVIOUS
<1> USE DEF TypeOK, Times, PastInv
<1>1. CASE UNCHANGED vars
  BY <1>1 DEF vars, workerVars, history
<1>2. ASSUME NEW w \in Workers, Store(w) PROVE PastInv'
  <2>1. Tenant(w) \in Tenants
    BY DEF Tenant, Tokens
  <2> QED
    BY <1>2, <2>1 DEF Store, history
<1>3. ASSUME NEW t \in Tenants, NEW k \in Keys, Publish(t, k) PROVE PastInv'
  BY <1>3 DEF Publish, workerVars
<1>4. ASSUME NEW t \in Tenants, NEW k \in Keys, Retire(t, k) PROVE PastInv'
  BY <1>4 DEF Retire, workerVars
<1>5. CASE Tick
  BY <1>5 DEF Tick, workerVars, history
<1>6. ASSUME NEW w \in Workers, Arrive(w) \/ Step(w) \/ Respond(w) \/ FetchFails(w) PROVE PastInv'
  <2>1. UNCHANGED <<now, cache, retired, since>>
    BY <1>6 DEF Arrive, Step, CacheHit, StartFetch, Respond, FetchFails, Accept, Reject,
                Decide, history
  <2> QED
    BY <2>1
<1> QED
  BY <1>1, <1>2, <1>3, <1>4, <1>5, <1>6 DEF Next

-----------------------------------------------------------------------------
(* The window of the entries *)

\* Whatever Keycloak does now, what was right until e stays so, if e is not
\* further away than the two durations.
LEMMA RightUntilKept ==
    ASSUME TypeOK, PastInv,
           NEW t \in Tenants, NEW ks \in SUBSET Keys, NEW e \in Nat,
           e <= now + FetchTimeout + TTL,
           RightUntil(t, ks, e),
           NEW u \in Tenants, NEW k \in Keys, Publish(u, k) \/ Retire(u, k)
    PROVE  RightUntil(t, ks, e)'
<1> USE DEF TypeOK, Times, RightUntil
<1>1. CASE Publish(u, k)
  BY <1>1 DEF Publish
<1>2. CASE Retire(u, k)
  BY <1>2 DEF Retire
<1> QED
  BY <1>1, <1>2

LEMMA RightAtKept ==
    ASSUME TypeOK, PastInv,
           NEW t \in Tenants, NEW ks \in SUBSET Keys, NEW m \in Nat,
           m <= now,
           RightAt(t, ks, m),
           NEW u \in Tenants, NEW k \in Keys, Publish(u, k) \/ Retire(u, k)
    PROVE  RightAt(t, ks, m)'
<1> USE DEF TypeOK, Times, RightAt
<1>1. CASE Publish(u, k)
  BY <1>1 DEF Publish
<1>2. CASE Retire(u, k)
  BY <1>2 DEF Retire
<1> QED
  BY <1>1, <1>2

\* What Store writes, and hands to its worker, was right when the body was
\* written, at most FetchTimeout ago.
LEMMA FetchedIsRight ==
    ASSUME WindowInv, NEW w \in Workers, pc[w] = "body"
    PROVE  RightUntil(Tenant(w), Usable(fetch[w].keys), now + TTL)
<1>1. Tenant(w) \in Tenants
  BY DEF WindowInv, TypeOK, Tenant, Tokens
<1>2. /\ fetch[w].at \in Nat /\ now \in Nat
      /\ now <= fetch[w].at + FetchTimeout
      /\ RightAt(Tenant(w), fetch[w].keys, fetch[w].at)
  BY DEF WindowInv, WorkersRight, FetchInv, TypeOK, Times
<1>3. \A k \in Keys : /\ retired[Tenant(w)][k] \in Nat
                      /\ since[Tenant(w)][k] \in Nat
  BY <1>1 DEF WindowInv, TypeOK, Times
<1>4. fetch[w].keys \subseteq Keys
  BY DEF WindowInv, TypeOK
<1> QED
  BY <1>1, <1>2, <1>3, <1>4 DEF RightAt, RightUntil, Usable

LEMMA EntriesStep == WindowInv /\ [Next]_vars => EntriesRight'
<1> SUFFICES ASSUME WindowInv, [Next]_vars, NEW t \in Tenants
             PROVE  RightUntil(t, cache[t].keys, cache[t].expiresAt)'
  BY DEF EntriesRight
<1>1. RightUntil(t, cache[t].keys, cache[t].expiresAt)
  BY DEF WindowInv, EntriesRight
<1>2. CASE UNCHANGED <<published, cache, history>>
  BY <1>1, <1>2 DEF RightUntil, history
<1>3. ASSUME NEW w \in Workers, Store(w)
      PROVE  RightUntil(t, cache[t].keys, cache[t].expiresAt)'
  <2>1. RightUntil(Tenant(w), Usable(fetch[w].keys), now + TTL)'
    BY <1>3, FetchedIsRight DEF Store, RightUntil, history, Tenant, Usable
  <2>2. CASE t = Tenant(w)
    <3>1. cache'[t] = [keys |-> Usable(fetch[w].keys), expiresAt |-> now + TTL]
      BY <1>3, <2>2 DEF Store, WindowInv, TypeOK
    <3> QED
      BY <1>3, <2>1, <2>2, <3>1 DEF Store, RightUntil, history, Tenant, Usable
  <2>3. CASE t /= Tenant(w)
    <3>1. cache'[t] = cache[t]
      BY <1>3, <2>3 DEF Store, WindowInv, TypeOK
    <3> QED
      BY <1>1, <1>3, <3>1 DEF Store, RightUntil, history
  <2> QED
    BY <2>2, <2>3
<1>4. ASSUME NEW u \in Tenants, NEW k \in Keys, Publish(u, k) \/ Retire(u, k)
      PROVE  RightUntil(t, cache[t].keys, cache[t].expiresAt)'
  <2> DEFINE ks == cache[t].keys
             e == cache[t].expiresAt
  <2>1. ks \in SUBSET Keys /\ e \in Nat /\ e <= now + FetchTimeout + TTL
    BY DEF WindowInv, TypeOK, Times, PastInv
  <2>2. cache' = cache
    BY <1>4 DEF Publish, Retire
  <2> QED
    BY <1>1, <1>4, <2>1, <2>2, RightUntilKept DEF WindowInv, RightUntil
<1> QED
  BY <1>2, <1>3, <1>4
  DEF Next, vars, Step, Arrive, CacheHit, StartFetch, Respond, FetchFails, Accept, Reject,
      Decide, Tick, workerVars

-----------------------------------------------------------------------------
(* The window of the workers *)

WorkerRight(w) ==
    /\ FetchInv(w)
    /\ pc[w] = "body" => RightAt(Tenant(w), fetch[w].keys, fetch[w].at)
    /\ pc[w] = "verify" => RightUntil(Tenant(w), keys[w], now + 1)

\* A step of another worker leaves this one alone.
LEMMA OthersKeepWorker ==
    ASSUME WindowInv, NEW d \in Workers,
           UNCHANGED <<now, published, history>>,
           pc'[d] = pc[d], token'[d] = token[d], fetch'[d] = fetch[d], keys'[d] = keys[d]
    PROVE  WorkerRight(d)'
BY DEF WindowInv, WorkersRight, WorkerRight, FetchInv, RightAt, RightUntil, Tenant, history

LEMMA WorkersStep == WindowInv /\ [Next]_vars => WorkersRight'
<1> SUFFICES ASSUME WindowInv, [Next]_vars, NEW d \in Workers PROVE WorkerRight(d)'
  BY DEF WorkersRight, WorkerRight
<1>1. TypeOK /\ PastInv /\ WorkerRight(d) /\ Tenant(d) \in Tenants
  BY DEF WindowInv, WorkersRight, WorkerRight, TypeOK, Tenant, Tokens
<1>2. CASE UNCHANGED vars
  BY <1>2, OthersKeepWorker DEF vars, workerVars, history
<1>3. ASSUME NEW w \in Workers, w /= d,
             Arrive(w) \/ Step(w) \/ Respond(w) \/ Store(w) \/ FetchFails(w)
      PROVE  WorkerRight(d)'
  <2>1. /\ UNCHANGED <<now, published, history>>
        /\ pc'[d] = pc[d] /\ token'[d] = token[d] /\ fetch'[d] = fetch[d] /\ keys'[d] = keys[d]
    BY <1>1, <1>3 DEF TypeOK, Arrive, Step, CacheHit, StartFetch, Respond, Store, FetchFails,
                      Accept, Reject, Decide
  <2> QED
    BY <2>1, OthersKeepWorker
<1>4. ASSUME Arrive(d) \/ Accept(d) \/ Reject(d) \/ FetchFails(d) PROVE WorkerRight(d)'
  <2>1. pc'[d] \in {"lookup", "done"}
    BY <1>1, <1>4 DEF TypeOK, Arrive, Accept, Reject, FetchFails, Decide
  <2> QED
    BY <2>1 DEF WorkerRight, FetchInv
<1>5. CASE CacheHit(d)
  <2>1. /\ pc'[d] = "verify" /\ keys'[d] = cache[Tenant(d)].keys
        /\ UNCHANGED <<now, published, token, retired, since>>
        /\ now < cache[Tenant(d)].expiresAt
    BY <1>1, <1>5 DEF TypeOK, CacheHit, Fresh, history
  <2>2. RightUntil(Tenant(d), cache[Tenant(d)].keys, cache[Tenant(d)].expiresAt)
    BY <1>1 DEF WindowInv, EntriesRight
  <2>3. /\ now \in Nat /\ cache[Tenant(d)].expiresAt \in Nat
        /\ cache[Tenant(d)].keys \subseteq Keys
        /\ \A k \in Keys : /\ retired[Tenant(d)][k] \in Nat
                            /\ since[Tenant(d)][k] \in Nat
    BY <1>1 DEF TypeOK, Times
  <2>4. RightUntil(Tenant(d), cache[Tenant(d)].keys, now + 1)
    BY <2>1, <2>2, <2>3 DEF RightUntil
  <2> QED
    BY <2>1, <2>4 DEF WorkerRight, FetchInv, RightUntil, Tenant
<1>6. CASE StartFetch(d)
  <2>1. pc'[d] = "fetch" /\ fetch'[d].at = now /\ now' = now
    BY <1>1, <1>6 DEF TypeOK, StartFetch
  <2> QED
    BY <1>1, <2>1 DEF WorkerRight, FetchInv, TypeOK, Times
<1>7. CASE Respond(d)
  <2>1. /\ pc[d] = "fetch" /\ pc'[d] = "body"
        /\ fetch'[d].at = fetch[d].at /\ fetch'[d].keys = published[Tenant(d)]
        /\ UNCHANGED <<now, published, token, retired, since>>
    BY <1>1, <1>7 DEF TypeOK, Respond, history
  <2> QED
    BY <1>1, <2>1 DEF WorkerRight, FetchInv, RightAt, Tenant
<1>8. CASE Store(d)
  <2>1. /\ pc[d] = "body" /\ pc'[d] = "verify" /\ keys'[d] = Usable(fetch[d].keys)
        /\ UNCHANGED <<now, published, token, retired, since>>
    BY <1>1, <1>8 DEF TypeOK, Store, history
  <2>2. RightUntil(Tenant(d), Usable(fetch[d].keys), now + TTL)
    BY <2>1, FetchedIsRight
  <2>3. /\ now \in Nat /\ Usable(fetch[d].keys) \subseteq Keys
        /\ \A k \in Keys : /\ retired[Tenant(d)][k] \in Nat
                            /\ since[Tenant(d)][k] \in Nat
    BY <1>1 DEF TypeOK, Times, Usable
  <2>4. RightUntil(Tenant(d), Usable(fetch[d].keys), now + 1)
    BY <2>2, <2>3 DEF RightUntil
  <2> QED
    BY <2>1, <2>4 DEF WorkerRight, FetchInv, RightUntil, Tenant
<1>9. ASSUME NEW u \in Tenants, NEW k \in Keys, Publish(u, k) \/ Retire(u, k)
      PROVE  WorkerRight(d)'
  <2>1. UNCHANGED <<now, pc, token, fetch, keys>>
    BY <1>9 DEF Publish, Retire, workerVars
  <2>2. FetchInv(d)'
    BY <1>1, <2>1 DEF WorkerRight, FetchInv
  <2>3. ASSUME pc[d] = "body" PROVE RightAt(Tenant(d), fetch[d].keys, fetch[d].at)'
    <3>1. /\ fetch[d].keys \in SUBSET Keys /\ fetch[d].at \in Nat /\ fetch[d].at <= now
          /\ RightAt(Tenant(d), fetch[d].keys, fetch[d].at)
      BY <1>1, <2>3 DEF WorkerRight, FetchInv, TypeOK, Times
    <3> QED
      BY <1>1, <1>9, <2>1, <3>1, RightAtKept DEF RightAt, Tenant
  <2>4. ASSUME pc[d] = "verify" PROVE RightUntil(Tenant(d), keys[d], now + 1)'
    <3>1. /\ keys[d] \in SUBSET Keys /\ now + 1 \in Nat
          /\ now + 1 <= now + FetchTimeout + TTL
          /\ RightUntil(Tenant(d), keys[d], now + 1)
      BY <1>1, <2>4 DEF WorkerRight, TypeOK, Times
    <3> QED
      BY <1>1, <1>9, <2>1, <3>1, RightUntilKept DEF RightUntil, Tenant
  <2> QED
    BY <2>1, <2>2, <2>3, <2>4 DEF WorkerRight
<1>10. CASE Tick
  <2>1. /\ pc[d] /= "verify" /\ ~TimedOut(d) /\ now' = now + 1
        /\ UNCHANGED <<published, pc, token, fetch, keys, retired, since>>
    BY <1>10 DEF Tick, workerVars, history
  <2>2. now \in Nat /\ fetch[d].at \in Nat
    BY <1>1 DEF TypeOK, Times
  <2>3. FetchInv(d)'
    BY <1>1, <2>1, <2>2 DEF WorkerRight, FetchInv, TimedOut
  <2> QED
    BY <1>1, <2>1, <2>3 DEF WorkerRight, RightAt, Tenant
<1> QED
  BY <1>2, <1>3, <1>4, <1>5, <1>6, <1>7, <1>8, <1>9, <1>10 DEF Next, Step

-----------------------------------------------------------------------------
(* The verdicts *)

VerdictRight(w) ==
    /\ verdict[w].ok = "accepted" => verdict[w].age < TTL + FetchTimeout
    /\ (verdict[w].ok = "unknown" /\ token[w].kid /\ token[w].key \in SigningKeys) =>
         verdict[w].known < TTL + FetchTimeout

LEMMA VerdictStep == WindowInv /\ [Next]_vars => (StaleKeyWindow /\ RotationWindow)'
<1> SUFFICES ASSUME WindowInv, [Next]_vars, NEW d \in Workers PROVE VerdictRight(d)'
  BY DEF StaleKeyWindow, RotationWindow, VerdictRight
<1>1. TypeOK /\ VerdictRight(d) /\ Tenant(d) \in Tenants /\ token[d].key \in Keys
  BY DEF WindowInv, VerdictRight, StaleKeyWindow, RotationWindow, TypeOK, Tenant, Tokens
<1>2. ASSUME verdict'[d] = verdict[d], token'[d] = token[d] PROVE VerdictRight(d)'
  BY <1>1, <1>2 DEF VerdictRight
<1>3. ASSUME verdict'[d].ok \in {"none", "unfetched"} PROVE VerdictRight(d)'
  BY <1>3 DEF VerdictRight
<1>4. CASE Arrive(d)
  BY <1>1, <1>3, <1>4 DEF Arrive, TypeOK, Undecided
<1>5. CASE FetchFails(d)
  <2>1. verdict'[d].ok = "unfetched"
    BY <1>1, <1>5 DEF FetchFails, Decide, TypeOK, Undecided
  <2> QED
    BY <1>3, <2>1
<1>6. ASSUME pc[d] = "verify"
      PROVE  LET t == Tenant(d)
                 k == token[d].key
             IN  /\ now \in Nat /\ retired[t][k] \in Nat /\ since[t][k] \in Nat
                 /\ k \in keys[d] => k \in published[t] \/ now < retired[t][k] + FetchTimeout + TTL
                 /\ (k \in SigningKeys /\ k \in published[t] /\ k \notin keys[d]) =>
                      now < since[t][k] + FetchTimeout + TTL
  BY <1>1, <1>6 DEF WindowInv, WorkersRight, RightUntil, TypeOK, Times
<1>7. CASE Accept(d)
  <2>1. pc[d] = "verify" /\ token[d].key \in keys[d] /\ verdict'[d] = Verdict(d, "accepted")
    BY <1>1, <1>7 DEF Accept, Candidates, Decide, TypeOK
  <2> QED
    BY <1>6, <2>1 DEF VerdictRight, Verdict
<1>8. CASE Reject(d)
  <2>1. /\ pc[d] = "verify" /\ verdict'[d] = Verdict(d, "unknown") /\ token' = token
        /\ token[d].kid => token[d].key \notin keys[d]
    BY <1>1, <1>8 DEF Reject, Candidates, Decide, TypeOK
  <2> QED
    BY <1>6, <2>1 DEF VerdictRight, Verdict
<1>9. ASSUME NEW w \in Workers, w /= d,
             Arrive(w) \/ Accept(w) \/ Reject(w) \/ FetchFails(w)
      PROVE  verdict'[d] = verdict[d] /\ token'[d] = token[d]
  BY <1>1, <1>9 DEF Arrive, Accept, Reject, FetchFails, Decide, TypeOK
<1>10. ASSUME NEW w \in Workers, CacheHit(w) \/ StartFetch(w) \/ Respond(w) \/ Store(w)
       PROVE  verdict'[d] = verdict[d] /\ token'[d] = token[d]
  BY <1>10 DEF CacheHit, StartFetch, Respond, Store
<1>11. CASE UNCHANGED vars \/ Tick \/ \E t \in Tenants, k \in Keys : Publish(t, k) \/ Retire(t, k)
  BY <1>2, <1>11 DEF vars, workerVars, Tick, Publish, Retire
<1> QED
  BY <1>2, <1>4, <1>5, <1>7, <1>8, <1>9, <1>10, <1>11 DEF Next, Step

LEMMA WindowCorrect == Spec => []WindowInv
<1>1. WindowInv /\ [Next]_vars => WindowInv'
  BY TypeStep, PastStep, EntriesStep, WorkersStep, VerdictStep DEF WindowInv
<1> QED
  BY <1>1, WindowInit, PTL DEF Spec

\* Every variable of the cache and of its workers keeps its type.
THEOREM CacheTypeCorrect == Spec => []TypeOK
BY WindowCorrect, PTL DEF WindowInv

\* A token signed with a retired key is accepted for less than TTL +
\* FetchTimeout after the key was retired, however the fetches overlap.
THEOREM StaleKeysExpire == Spec => []StaleKeyWindow
BY WindowCorrect, PTL DEF WindowInv

\* A token signed with a published key is refused as unknown only in the first
\* TTL + FetchTimeout after the key was published.
THEOREM NewKeysArrive == Spec => []RotationWindow
BY WindowCorrect, PTL DEF WindowInv
=============================================================================
