----------------------------- MODULE JwksCache ------------------------------
(***************************************************************************)
(* The cache of signing keys in app/auth/security.py, in one process whose *)
(* requests run in threads, with an identity provider that publishes and   *)
(* withdraws keys, fails, or answers with an error body.                   *)
(*                                                                         *)
(* Time is counted in ticks. What _get_jwks keeps is the time of the last  *)
(* fetch; the model keeps its age, up to the TTL. The keys and that time   *)
(* are written by two statements, between which other threads run. The     *)
(* checks on a token whose key is known (issuer, azp, roles) are left out. *)
(***************************************************************************)
EXTENDS Integers

CONSTANTS
    KeyIds,     \* key ids
    Threads,    \* requests that may be authenticated at once
    Ttl,        \* _JWKS_TTL
    Retry,      \* the pause after a fetch that raised
    MaxFetch    \* bound: the longest fetch. The client's timeout is one of each phase
                \* of a fetch, so that the code itself sets none.

ASSUME JwksAssumption ==
    /\ {Ttl, Retry, MaxFetch} \subseteq Nat
    /\ Retry \in 1..(Ttl - 1)

VARIABLES
    published,  \* the keys at the identity provider
    uptime,     \* of the host, up to Ttl: time.monotonic() counts from its start
    cache,      \* _jwks_cache: the keys in it, none after an error body
    age,        \* now - _jwks_fetched_at, up to Ttl
    request,    \* the request of each thread
    excuse      \* ghost: for how long the cache may be wrong about a key

jwksVars == <<published, uptime, cache, age, request, excuse>>

\* since: ticks since the request read the clock.
Requests ==
    [at: {"idle"}]
    \cup [at: {"fetch", "raised", "date"}, since: 0..MaxFetch]
    \cup [at: {"store"}, since: 0..MaxFetch, answer: SUBSET KeyIds]
    \cup [at: {"judge"}, keys: SUBSET KeyIds]

Capped(n) == IF n > Ttl THEN Ttl ELSE n

\* A process starts with no keys and a time of fetch of 0.0, so that the keys
\* are as old as the host.
Start(up) ==
    /\ cache' = {}
    /\ age' = up
    /\ request' = [t \in Threads |-> [at |-> "idle"]]
    /\ excuse' = [k \in KeyIds |-> Ttl - up]

JwksInit ==
    /\ published \in SUBSET KeyIds
    /\ uptime \in {0, Ttl}
    /\ cache = {}
    /\ age = uptime
    /\ request = [t \in Threads |-> [at |-> "idle"]]
    /\ excuse = [k \in KeyIds |-> Ttl - uptime]

Excused(keys, n) ==
    [k \in KeyIds |-> IF k \in keys /\ excuse[k] < n THEN n ELSE excuse[k]]

-----------------------------------------------------------------------------
(* A request *)

\* Fault: keys are fetched only when there are none.
FreshOnceFilled == age < Ttl \/ cache # {}

Fresh == age < Ttl

\* now = time.monotonic(), and the first return.
LookUp(t) ==
    /\ request[t].at = "idle"
    /\ request' = [request EXCEPT ![t] = IF Fresh THEN [at |-> "judge", keys |-> cache]
                                         ELSE [at |-> "fetch", since |-> 0]]
    /\ UNCHANGED <<published, uptime, cache, age, excuse>>

\* The keys as they are published now, or none: an error body, whose status
\* nobody looks at, has no "keys".
Answer(t) ==
    /\ request[t].at = "fetch"
    /\ \E answer \in {published, {}} :
        /\ request' = [request EXCEPT ![t] =
                          [at |-> "store", since |-> @.since, answer |-> answer]]
        /\ excuse' = IF answer = {} THEN Excused(KeyIds, Ttl + MaxFetch) ELSE excuse
    /\ UNCHANGED <<published, uptime, cache, age>>

\* No connection, a timeout, or a body that is not JSON.
Raise(t) ==
    /\ request[t].at = "fetch"
    /\ request' = [request EXCEPT ![t].at = "raised"]
    /\ UNCHANGED <<published, uptime, cache, age, excuse>>

\* _jwks_cache = fresh
StoreKeys(t) ==
    /\ request[t].at = "store"
    /\ cache' = request[t].answer
    /\ request' = [request EXCEPT ![t] = [at |-> "date", since |-> @.since]]
    /\ UNCHANGED <<published, uptime, age, excuse>>

Judge(t) == request' = [request EXCEPT ![t] = [at |-> "judge", keys |-> cache]]

\* _jwks_fetched_at = now, read before the fetch.
StoreTime(t) ==
    /\ request[t].at = "date"
    /\ age' = Capped(request[t].since)
    /\ Judge(t)
    /\ UNCHANGED <<published, uptime, cache, excuse>>

\* Fault: a fetch that raised counts as a fetch.
PostponeTtl(since) == Capped(since)

\* now - _JWKS_TTL + 30
Postpone(since) == Capped(since + Ttl - Retry)

FetchFailed(t) ==
    /\ request[t].at = "raised"
    /\ age' = Postpone(request[t].since)
    /\ excuse' = Excused(KeyIds, Retry)
    /\ Judge(t)
    /\ UNCHANGED <<published, uptime, cache>>

\* _decode_token with the keys returned: 401 or what is in the token.
Decode(t) ==
    /\ request[t].at = "judge"
    /\ request' = [request EXCEPT ![t] = [at |-> "idle"]]
    /\ UNCHANGED <<published, uptime, cache, age, excuse>>

-----------------------------------------------------------------------------
(* The rest of the world *)

\* The identity provider publishes or withdraws a key.
Rotate(k) ==
    /\ published' = IF k \in published THEN published \ {k} ELSE published \cup {k}
    /\ excuse' = Excused({k}, Ttl + MaxFetch)
    /\ UNCHANGED <<uptime, cache, age, request>>

\* Only a fetch takes time, and no more than its bound.
Waiting(t) ==
    \/ request[t].at = "idle"
    \/ request[t].at \in {"fetch", "store", "raised"} /\ request[t].since < MaxFetch

JwksTick ==
    /\ \A t \in Threads : Waiting(t)
    /\ uptime' = Capped(uptime + 1)
    /\ age' = Capped(age + 1)
    /\ request' = [t \in Threads |-> IF request[t].at = "idle" THEN request[t]
                                     ELSE [request[t] EXCEPT !.since = @ + 1]]
    /\ excuse' = [k \in KeyIds |-> IF excuse[k] = 0 THEN 0 ELSE excuse[k] - 1]
    /\ UNCHANGED <<published, cache>>

Restart == Start(uptime) /\ UNCHANGED <<published, uptime>>

RebootHost == Start(0) /\ uptime' = 0 /\ UNCHANGED published

JwksNext ==
    \/ \E t \in Threads : \/ LookUp(t) \/ Answer(t) \/ Raise(t) \/ StoreKeys(t) \/ StoreTime(t)
                          \/ FetchFailed(t) \/ Decode(t)
    \/ \E k \in KeyIds : Rotate(k)
    \/ JwksTick \/ Restart \/ RebootHost

JwksSpec == JwksInit /\ [][JwksNext]_jwksVars

-----------------------------------------------------------------------------
(* Properties *)

JwksTypeOK ==
    /\ published \subseteq KeyIds /\ cache \subseteq KeyIds
    /\ uptime \in 0..Ttl /\ age \in 0..Ttl
    /\ request \in [Threads -> Requests]
    /\ excuse \in [KeyIds -> 0..(Ttl + MaxFetch)]

Judged(t) == request[t].at = "judge"

\* "Key rotation doesn't require an app restart": a token signed with a
\* published key is refused only within a TTL and a fetch of the publication or
\* of an error body, within the pause after a failure, or while the host is
\* younger than the TTL. That holds although late answers overwrite
\* earlier ones and two threads may each write half of what is kept. (By
\* docs/architecture.md the cache is "never refreshed": the code refetches it.)
PublishedAccepted ==
    \A t \in Threads, k \in published :
        Judged(t) /\ k \notin request[t].keys => excuse[k] > 0

\* A token signed with a withdrawn key is accepted only within a TTL and a fetch
\* of the withdrawal, or within the pause after a failed fetch, in which the
\* stale keys are served ("falls back to the stale cache").
WithdrawnRefused ==
    \A t \in Threads, k \in KeyIds \ published :
        Judged(t) /\ k \in request[t].keys => excuse[k] > 0

=============================================================================
