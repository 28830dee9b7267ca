----------------------------- MODULE QueryCache -----------------------------
(***************************************************************************)
(* The answer cache of app/services/query_cache.py as run_agent_stream     *)
(* uses it, over the profile cache of app/services/memory_service.py from  *)
(* which an answer's data may come.                                        *)
(*                                                                         *)
(* A request that confirms no customer is looked up, first in Redis by its *)
(* exact key and then, by embedding, among similar queries of the same     *)
(* user and roles. Every answer the agent makes, confirmed customer or     *)
(* not, is stored in both layers under the key of an unconfirmed request,  *)
(* each by a thread of its own.                                            *)
(*                                                                         *)
(* A user stands for a user name with its roles. An answer carries what    *)
(* the properties tell apart: who it was made for, about which customer,   *)
(* and how old its oldest data is. Time is counted in ticks.               *)
(*                                                                         *)
(* A run whose profile is not cached reads it, and caches what it read up  *)
(* to ReadDelay ticks later: runs overlap, and a slow one may replace the  *)
(* profile that a later read has left. The threads that store the answers  *)
(* of two runs finish in either order too; those of the exact layer within *)
(* StoreDelay ticks of the moment the run had the profile.                 *)
(***************************************************************************)
EXTENDS Naturals, FiniteSets, FiniteSetsExt

CONSTANTS
    Users,
    Queries,
    Asked,            \* who asks what, pairs of a user and a query
    Customers,
    CustomerOf,       \* the customer a query names in full
    Ambiguous,        \* queries whose name needs the user's confirmation
    Hinted,           \* queries that contain one of _WRITE_HINTS
    Similar,          \* [Queries -> SUBSET Queries]: above the threshold
    CacheTTL,         \* _EXACT_TTL
    ProfileTTL,       \* _PROFILE_TTL
    MaxReading,       \* bound: runs between the read of a profile and its setex
    MaxPending,       \* bound: stores waiting for their thread
    ReadDelay,        \* bound: ticks from the read of a profile to its setex
    StoreDelay,       \* bound: ticks from having the profile to StoreExact
    SemanticLookups,  \* the similarity query can succeed
    MaxFaults,        \* bound: requests that Redis fails
    None

ASSUME CacheAssumption ==
    /\ Asked \subseteq Users \X Queries
    /\ CustomerOf \in [Queries -> Customers]
    /\ Ambiguous \subseteq Queries /\ Hinted \subseteq Queries
    /\ Similar \in [Queries -> SUBSET Queries]
    /\ CacheTTL \in Nat \ {0} /\ ProfileTTL \in Nat \ {0}
    /\ {MaxReading, MaxPending, ReadDelay, StoreDelay, MaxFaults} \subseteq Nat
    /\ SemanticLookups \in BOOLEAN

VARIABLES
    exact,      \* layer 1, per key
    semantic,   \* layer 2, per key
    profile,    \* the profile cache, per customer
    reading,    \* runs that have read a profile they have not cached yet
    pending,    \* stores handed to a thread
    served,     \* the request that the cache has just answered
    faults      \* requests that Redis has failed so far

vars == <<exact, semantic, profile, reading, pending, served, faults>>

\* Ages are counted up to MaxAge, beyond what any property allows.
MaxAge == CacheTTL + ProfileTTL + ReadDelay + StoreDelay + 1

Answers == [user: Users, query: Queries, customer: Customers, age: 0..MaxAge]

Layers == {"exact", "semantic"}

Keys == Users \X Queries

\* Fault: the user name is left out of the key.
KeyOfQuery(user, query) == <<CHOOSE u \in Users : TRUE, query>>

\* _exact_key and _scope_tag; the customer in them is always empty.
Key(user, query) == <<user, query>>

TypeOK ==
    /\ exact \in [Keys -> {None} \cup [answer: Answers, left: 1..CacheTTL]]
    /\ semantic \in [Keys -> {None} \cup Answers]
    /\ profile \in [Customers -> {None} \cup [left: 1..ProfileTTL, age: 0..MaxAge]]
    /\ reading \subseteq [user: Users, query: Queries, customer: Customers, waited: 0..ReadDelay]
    /\ pending \subseteq [layer: Layers, answer: Answers, waited: 0..StoreDelay]
    /\ served \in {None} \cup [user: Users, query: Queries, layer: Layers, answer: Answers]
    /\ faults \in 0..MaxFaults

Init ==
    /\ exact = [k \in Keys |-> None]
    /\ semantic = [k \in Keys |-> None]
    /\ profile = [c \in Customers |-> None]
    /\ reading = {}
    /\ pending = {}
    /\ served = None
    /\ faults = 0

-----------------------------------------------------------------------------
(* Lookup *)

\* Both modules answer a RedisError as if nothing were cached.
OnlyIfRedisFails(needed) ==
    IF needed
    THEN faults < MaxFaults /\ faults' = faults + 1
    ELSE UNCHANGED faults

IsCacheable(query) == query \notin Hinted

Serve(user, query, layer, answer) ==
    /\ served' = [user |-> user, query |-> query, layer |-> layer, answer |-> answer]
    /\ UNCHANGED <<exact, semantic, profile, reading, pending>>

ExactHit(user, query) == IsCacheable(query) /\ exact[Key(user, query)] # None

ServeExact(user, query) ==
    /\ ExactHit(user, query)
    /\ Serve(user, query, "exact", exact[Key(user, query)].answer)
    /\ UNCHANGED faults

\* The nearest stored query is some query similar to the one asked.
ServeSemantic(user, query) ==
    /\ SemanticLookups
    /\ IsCacheable(query)
    /\ OnlyIfRedisFails(ExactHit(user, query))
    /\ \E q \in Similar[query] :
        /\ semantic[Key(user, q)] # None
        /\ Serve(user, query, "semantic", semantic[Key(user, q)])

-----------------------------------------------------------------------------
(* The agent's run, and what it stores *)

\* Fault: a profile found in the cache is cached again.
RenewedByHit(customer) == [profile[customer] EXCEPT !.left = ProfileTTL]

\* get_cached_customer_profile leaves the entry and its TTL as they are.
LeftByHit(customer) == profile[customer]

\* Fault: the TTL is one tick too long.
CachedLonger(age) == [left |-> ProfileTTL + 1, age |-> age]

\* cache_customer_profile, of data read so many ticks ago.
Cached(age) == [left |-> ProfileTTL, age |-> age]

\* The ages of the semantic layer's answers have no bound: they are not counted.
Ageless(answer) == [answer EXCEPT !.age = 0]

\* store: a thread for each layer, with an answer from a profile of that age.
HandToThreads(user, query, customer, age) ==
    LET answer == [user |-> user, query |-> query, customer |-> customer, age |-> age] IN
    /\ Cardinality(pending) + 2 <= MaxPending
    /\ pending' = pending \cup {[layer |-> "exact", answer |-> answer, waited |-> 0],
                                [layer |-> "semantic", answer |-> Ageless(answer), waited |-> 0]}

\* A request that the agent serves: an unconfirmed one that missed both
\* layers, or one that confirms the customer of an ambiguous query. An
\* unconfirmed ambiguous query that misses is sent back to the user.
Serving(user, query, customer) ==
    query \in Ambiguous \/ customer = CustomerOf[query]

\* An unconfirmed request is looked up first.
Answerable(user, query) == query \notin Ambiguous /\ ExactHit(user, query)

\* The run finds the profile in the cache.
RunOnCached(user, query, customer) ==
    /\ Serving(user, query, customer)
    /\ profile[customer] # None
    /\ profile' = [profile EXCEPT ![customer] = LeftByHit(customer)]
    /\ HandToThreads(user, query, customer, profile[customer].age)
    /\ OnlyIfRedisFails(Answerable(user, query))
    /\ served' = None
    /\ UNCHANGED <<exact, semantic, reading>>

\* The run finds none, or Redis does not answer: it reads the profile from MCP
\* or from the database.
ReadProfile(user, query, customer) ==
    /\ Serving(user, query, customer)
    /\ OnlyIfRedisFails(Answerable(user, query) \/ profile[customer] # None)
    /\ Cardinality(reading) < MaxReading
    /\ reading' = reading \cup
           {[user |-> user, query |-> query, customer |-> customer, waited |-> 0]}
    /\ served' = None
    /\ UNCHANGED <<exact, semantic, profile, pending>>

\* setex of what was read, whatever is cached by now; the answer rests on what
\* was read even when Redis does not take it.
RunOnRead(run) ==
    /\ \/ /\ profile' = [profile EXCEPT ![run.customer] = Cached(run.waited)]
          /\ UNCHANGED faults
       \/ /\ OnlyIfRedisFails(TRUE)
          /\ UNCHANGED profile
    /\ HandToThreads(run.user, run.query, run.customer, run.waited)
    /\ reading' = reading \ {run}
    /\ served' = None
    /\ UNCHANGED <<exact, semantic>>

\* setex replaces what is there.
StoreExact(store) ==
    LET answer == store.answer IN
    /\ store.layer = "exact"
    /\ exact' = [exact EXCEPT ![Key(answer.user, answer.query)] =
                    [answer |-> answer, left |-> CacheTTL]]
    /\ pending' = pending \ {store}
    /\ served' = None
    /\ UNCHANGED <<semantic, profile, reading, faults>>

\* ON CONFLICT counts a hit and leaves the stored answer as it is, for ever.
StoreSemantic(store) ==
    LET key == Key(store.answer.user, store.answer.query) IN
    /\ store.layer = "semantic"
    /\ semantic' = [semantic EXCEPT ![key] = IF @ = None THEN store.answer ELSE @]
    /\ pending' = pending \ {store}
    /\ served' = None
    /\ UNCHANGED <<exact, profile, reading, faults>>

\* No embedding, Redis or PostgreSQL down: the thread swallows the error.
StoreFails(store) ==
    /\ pending' = pending \ {store}
    /\ served' = None
    /\ UNCHANGED <<exact, semantic, profile, reading, faults>>

-----------------------------------------------------------------------------
(* Time *)

Older(age) == Min({age + 1, MaxAge})

Aged(answer) == [answer EXCEPT !.age = Older(@)]

\* Only the exact layer's answers age: nothing depends on when a semantic store is done.
Delayed(store) ==
    IF store.layer = "exact" THEN [store EXCEPT !.waited = @ + 1, !.answer = Aged(@)] ELSE store

\* What one tick leaves of an entry with a TTL.
Expired(entry) == IF entry.left = 1 THEN None ELSE [entry EXCEPT !.left = @ - 1]

Tick ==
    /\ \A run \in reading : run.waited < ReadDelay
    /\ \A store \in pending : store.layer = "exact" => store.waited < StoreDelay
    /\ reading' = {[run EXCEPT !.waited = @ + 1] : run \in reading}
    /\ pending' = {Delayed(store) : store \in pending}
    /\ exact' = [k \in Keys |->
                    IF exact[k] = None THEN None
                    ELSE Expired([exact[k] EXCEPT !.answer = Aged(@)])]
    /\ profile' = [c \in Customers |->
                    IF profile[c] = None THEN None
                    ELSE Expired([profile[c] EXCEPT !.age = Older(@)])]
    /\ served' = None
    /\ UNCHANGED <<semantic, faults>>

-----------------------------------------------------------------------------

Next ==
    \/ \E user \in Users, query \in Queries :
        /\ <<user, query>> \in Asked
        /\ \/ ServeExact(user, query)
           \/ ServeSemantic(user, query)
           \/ \E customer \in Customers :
                RunOnCached(user, query, customer) \/ ReadProfile(user, query, customer)
    \/ \E run \in reading : RunOnRead(run)
    \/ \E store \in pending :
        StoreExact(store) \/ StoreSemantic(store) \/ StoreFails(store)
    \/ Tick

Spec == Init /\ [][Next]_vars

-----------------------------------------------------------------------------
(* Properties *)

\* The cache never answers a user with what was made for another user or for
\* other roles, whichever layer answers and whatever is stored meanwhile.
OwnAnswersOnly == served # None => served.answer.user = served.user

\* The exact layer's answers rest on data no older than its own TTL, the profile
\* cache's, and the delays of the write of either cache together: all four add
\* up, and no more, although a late write may replace a later one's entry with an
\* older profile or answer. (An entry with a TTL of n ticks is served for n - 1.)
ExactAnswersFresh ==
    served # None /\ served.layer = "exact" =>
        served.answer.age <= (CacheTTL - 1) + (ProfileTTL - 1) + ReadDelay + StoreDelay

=============================================================================
