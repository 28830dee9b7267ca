---------------------------- MODULE StoreProofs ----------------------------
(***************************************************************************)
(* The theorems about what is kept between requests: whose answers         *)
(* QueryCache serves and how old their data may be, how long JwksCache may *)
(* be wrong about a key, and what IssueStore promises about the history of *)
(* an issue, for any users, queries, customers, keys, threads, issues and  *)
(* pods, any TTLs and delays, and any number of updates and failures. The  *)
(* three have no state in common.                                          *)
(***************************************************************************)
EXTENDS QueryCache, JwksCache, IssueStore, TLAPS

-----------------------------------------------------------------------------
(* QueryCache: types and ages *)

ExactEntries == [answer: Answers, left: 1..CacheTTL]
Profiles == [left: 1..ProfileTTL, age: 0..MaxAge]
Stores == [layer: Layers, answer: Answers, waited: 0..StoreDelay]

\* Data gets no younger, and no more than a tick older.
LEMMA OlderTyped ==
    ASSUME NEW old \in 0..MaxAge
    PROVE  Older(old) \in 0..MaxAge /\ Older(old) =< old + 1
<1>1. MaxAge \in Nat
  BY CacheAssumption DEF MaxAge
<1>2. \E x \in {old + 1, MaxAge} : \A y \in {old + 1, MaxAge} : x =< y
  BY <1>1
<1>3. Older(old) \in {old + 1, MaxAge} /\ \A y \in {old + 1, MaxAge} : Older(old) =< y
  BY <1>2 DEF Older, Min
<1> QED
  BY <1>1, <1>3

\* So does an answer that waits or is kept.
LEMMA AgedTyped ==
    ASSUME NEW answer \in Answers
    PROVE  /\ Aged(answer) \in Answers
           /\ Aged(answer).user = answer.user /\ Aged(answer).query = answer.query
           /\ Aged(answer).age =< answer.age + 1
<1>1. Aged(answer) = [answer EXCEPT !.age = Older(answer.age)]
  BY DEF Aged
<1>2. answer.age \in 0..MaxAge
  BY DEF Answers
<1>3. Older(answer.age) \in 0..MaxAge /\ Older(answer.age) =< answer.age + 1
  BY <1>2, OlderTyped
<1> QED
  BY <1>1, <1>3 DEF Answers

\* A failure of Redis is counted within its bound.
LEMMA FaultsTyped ==
    ASSUME TypeOK, NEW needed \in BOOLEAN, OnlyIfRedisFails(needed)
    PROVE  faults' \in 0..MaxFaults
  BY CacheAssumption DEF TypeOK, OnlyIfRedisFails

-----------------------------------------------------------------------------
(* QueryCache: the invariant *)

\* Each answer lies, or waits to be stored, under the key of its own user.
OwnInv ==
    /\ \A k \in Keys : exact[k] # None => exact[k].answer.user = k[1]
    /\ \A k \in Keys : semantic[k] # None => semantic[k].user = k[1]

\* The delay of its setex and what a cached profile has used up of its TTL bound its
\* age; what a store has waited, and what an entry has used up of its TTL, add to that.
AgeInv ==
    /\ \A c \in Customers : profile[c] # None =>
        profile[c].age =< ReadDelay + (ProfileTTL - profile[c].left)
    /\ \A store \in pending :
        store.layer = "exact" => store.answer.age =< ReadDelay + (ProfileTTL - 1) + store.waited
    /\ \A k \in Keys : exact[k] # None =>
        exact[k].answer.age =<
            ReadDelay + (ProfileTTL - 1) + StoreDelay + (CacheTTL - exact[k].left)

CacheInv == TypeOK /\ OwnInv /\ AgeInv /\ OwnAnswersOnly /\ ExactAnswersFresh

\* The caches are empty at first.
LEMMA InitCacheInv == Init => CacheInv
  BY CacheAssumption DEF Init, CacheInv, TypeOK, OwnInv, AgeInv, OwnAnswersOnly, ExactAnswersFresh

\* Serving an answer of the user, fresh enough, changes nothing else.
LEMMA Served ==
    ASSUME CacheInv, NEW user \in Users, NEW query \in Queries, NEW layer \in Layers,
           NEW answer \in Answers, answer.user = user,
           layer = "exact" =>
               answer.age <= (CacheTTL - 1) + (ProfileTTL - 1) + ReadDelay + StoreDelay,
           faults' \in 0..MaxFaults, Serve(user, query, layer, answer)
    PROVE  CacheInv'
<1>1. /\ served' = [user |-> user, query |-> query, layer |-> layer, answer |-> answer]
      /\ UNCHANGED <<exact, semantic, profile, reading, pending>>
  BY DEF Serve
<1>2. TypeOK'
  BY <1>1 DEF CacheInv, TypeOK
<1>3. OwnAnswersOnly' /\ ExactAnswersFresh'
  BY <1>1 DEF OwnAnswersOnly, ExactAnswersFresh
<1> QED
  BY <1>1, <1>2, <1>3 DEF CacheInv, OwnInv, AgeInv

\* Both layers find what lies under a key of the user.
LEMMA ServeKeeps ==
    ASSUME CacheInv, NEW user \in Users, NEW query \in Queries,
           ServeExact(user, query) \/ ServeSemantic(user, query)
    PROVE  CacheInv'
<1>1. CASE ServeExact(user, query)
  <2> DEFINE k == <<user, query>>
  <2>1. k \in Keys /\ exact[k] # None /\ Serve(user, query, "exact", exact[k].answer)
    BY <1>1 DEF ServeExact, ExactHit, Key, Keys
  <2>2. exact[k] \in ExactEntries
    BY <2>1 DEF CacheInv, TypeOK, ExactEntries
  <2>3. exact[k].answer \in Answers /\ exact[k].left \in 1..CacheTTL
    BY <2>2 DEF ExactEntries
  <2>4. exact[k].answer.age \in 0..MaxAge
    BY <2>3 DEF Answers
  <2>5. exact[k].answer.user = user
    BY <2>1 DEF CacheInv, OwnInv
  <2>6. exact[k].answer.age =<
            ReadDelay + (ProfileTTL - 1) + StoreDelay + (CacheTTL - exact[k].left)
    BY <2>1 DEF CacheInv, AgeInv
  <2>7. exact[k].answer.age =< (CacheTTL - 1) + (ProfileTTL - 1) + ReadDelay + StoreDelay
    BY <2>3, <2>4, <2>6, CacheAssumption DEF MaxAge
  <2>8. faults' \in 0..MaxFaults
    BY <1>1 DEF ServeExact, CacheInv, TypeOK
  <2> QED
    BY <2>1, <2>3, <2>5, <2>7, <2>8, Served DEF Layers
<1>2. CASE ServeSemantic(user, query)
  <2>1. PICK q \in Similar[query] :
            semantic[Key(user, q)] # None /\ Serve(user, query, "semantic", semantic[Key(user, q)])
    BY <1>2 DEF ServeSemantic
  <2>2. Key(user, q) \in Keys /\ Key(user, q)[1] = user
    BY CacheAssumption DEF Key, Keys
  <2>3. semantic[Key(user, q)] \in Answers /\ semantic[Key(user, q)].user = user
    BY <2>1, <2>2 DEF CacheInv, TypeOK, OwnInv
  <2>4. faults' \in 0..MaxFaults
    BY <1>2, FaultsTyped DEF ServeSemantic, ExactHit, CacheInv
  <2> QED
    BY <2>1, <2>3, <2>4, Served DEF Layers
<1> QED
  BY <1>1, <1>2

\* What a run hands to its threads is its user's, and as old as the profile it has.
LEMMA HandedTyped ==
    ASSUME CacheInv, NEW user \in Users, NEW query \in Queries, NEW customer \in Customers,
           NEW had \in 0..(ReadDelay + ProfileTTL - 1), HandToThreads(user, query, customer, had)
    PROVE  /\ pending' \subseteq Stores
           /\ \A store \in pending' :
                store.layer = "exact" =>
                    store.answer.age =< ReadDelay + (ProfileTTL - 1) + store.waited
<1> DEFINE answer == [user |-> user, query |-> query, customer |-> customer, age |-> had]
           stores == {[layer |-> "exact", answer |-> answer, waited |-> 0],
                      [layer |-> "semantic", answer |-> Ageless(answer), waited |-> 0]}
<1>1. pending' = pending \cup stores
  BY DEF HandToThreads
<1>2. /\ ProfileTTL \in Nat \ {0} /\ CacheTTL \in Nat \ {0} /\ ReadDelay \in Nat
      /\ StoreDelay \in Nat /\ MaxAge \in Nat /\ had \in 0..MaxAge
  BY CacheAssumption DEF MaxAge
<1>3. answer \in Answers /\ Ageless(answer) \in Answers /\ answer.age = had
  BY <1>2 DEF Answers, Ageless
<1> HIDE DEF answer
<1>4. stores \subseteq Stores
  BY <1>2, <1>3 DEF Stores, Layers
<1>5. \A store \in stores :
        store.layer = "exact" => store.answer.age =< ReadDelay + (ProfileTTL - 1) + store.waited
  BY <1>2, <1>3
<1> HIDE DEF stores
<1> QED
  BY <1>1, <1>4, <1>5 DEF CacheInv, TypeOK, AgeInv, Stores

\* A cached profile leaves a run data no older than the profile itself.
LEMMA RunOnCachedKeeps ==
    ASSUME CacheInv, NEW user \in Users, NEW query \in Queries, NEW customer \in Customers,
           RunOnCached(user, query, customer)
    PROVE  CacheInv'
<1>1. profile[customer] \in Profiles
  BY DEF RunOnCached, CacheInv, TypeOK, Profiles
<1>2. profile' = profile
  BY DEF RunOnCached, LeftByHit, CacheInv, TypeOK
<1>3. profile[customer].age \in 0..(ReadDelay + ProfileTTL - 1)
  <2>1. profile[customer].age =< ReadDelay + (ProfileTTL - profile[customer].left)
    BY DEF RunOnCached, CacheInv, AgeInv
  <2>2. profile[customer].left \in 1..ProfileTTL /\ profile[customer].age \in 0..MaxAge
    BY <1>1 DEF Profiles
  <2> QED
    BY <2>1, <2>2, CacheAssumption DEF MaxAge
<1>4. HandToThreads(user, query, customer, profile[customer].age)
  BY DEF RunOnCached
<1>5. /\ pending' \subseteq Stores
      /\ \A store \in pending' :
            store.layer = "exact" => store.answer.age =< ReadDelay + (ProfileTTL - 1) + store.waited
  BY <1>3, <1>4, HandedTyped
<1>6. faults' \in 0..MaxFaults
  BY FaultsTyped DEF RunOnCached, Answerable, ExactHit, CacheInv
<1>7. served' = None /\ UNCHANGED <<exact, semantic, reading>>
  BY DEF RunOnCached
<1>8. TypeOK'
  BY <1>2, <1>5, <1>6, <1>7 DEF CacheInv, TypeOK, Stores
<1> QED
  BY <1>2, <1>5, <1>7, <1>8 DEF CacheInv, OwnInv, AgeInv, OwnAnswersOnly, ExactAnswersFresh

\* A run that has just read its profile has waited with it for no time.
LEMMA ReadProfileKeeps ==
    ASSUME CacheInv, NEW user \in Users, NEW query \in Queries, NEW customer \in Customers,
           ReadProfile(user, query, customer)
    PROVE  CacheInv'
<1>1. reading' = reading \cup
          {[user |-> user, query |-> query, customer |-> customer, waited |-> 0]}
  BY DEF ReadProfile
<1>2. faults' \in 0..MaxFaults
  BY FaultsTyped DEF ReadProfile, CacheInv
<1>3. served' = None /\ UNCHANGED <<exact, semantic, profile, pending>>
  BY DEF ReadProfile
<1>4. TypeOK'
  BY <1>1, <1>2, <1>3, CacheAssumption DEF CacheInv, TypeOK
<1> QED
  BY <1>3, <1>4 DEF CacheInv, OwnInv, AgeInv, OwnAnswersOnly, ExactAnswersFresh

\* What it read is as old as it has waited when it caches it and answers from it,
\* whatever profile it replaces.
LEMMA RunOnReadKeeps ==
    ASSUME CacheInv, NEW run \in reading, RunOnRead(run)
    PROVE  CacheInv'
<1>1. /\ run.user \in Users /\ run.query \in Queries /\ run.customer \in Customers
      /\ run.waited \in 0..ReadDelay
  BY DEF CacheInv, TypeOK
<1>2. /\ ProfileTTL \in Nat \ {0} /\ CacheTTL \in Nat \ {0} /\ ReadDelay \in Nat
      /\ StoreDelay \in Nat /\ MaxAge \in Nat
  BY CacheAssumption DEF MaxAge
<1>3. profile' \in {profile, [profile EXCEPT ![run.customer] = Cached(run.waited)]}
  BY DEF RunOnRead
<1>4. /\ Cached(run.waited) \in Profiles
      /\ Cached(run.waited).age =< ReadDelay + (ProfileTTL - Cached(run.waited).left)
  BY <1>1, <1>2 DEF Cached, Profiles, MaxAge
<1>5. /\ profile' \in [Customers -> {None} \cup Profiles]
      /\ \A c \in Customers : profile'[c] # None =>
            profile'[c].age =< ReadDelay + (ProfileTTL - profile'[c].left)
  <2>1. profile \in [Customers -> {None} \cup Profiles]
    BY DEF CacheInv, TypeOK, Profiles
  <2>2. \A c \in Customers : profile[c] # None =>
            profile[c].age =< ReadDelay + (ProfileTTL - profile[c].left)
    BY DEF CacheInv, AgeInv
  <2> QED
    BY <1>1, <1>3, <1>4, <2>1, <2>2
<1>6. /\ pending' \subseteq Stores
      /\ \A store \in pending' :
            store.layer = "exact" => store.answer.age =< ReadDelay + (ProfileTTL - 1) + store.waited
  <2>1. run.waited \in 0..(ReadDelay + ProfileTTL - 1)
    BY <1>1, <1>2
  <2>2. HandToThreads(run.user, run.query, run.customer, run.waited)
    BY DEF RunOnRead
  <2> QED
    BY <1>1, <2>1, <2>2, HandedTyped
<1>7. faults' \in 0..MaxFaults
  BY FaultsTyped DEF RunOnRead, CacheInv, TypeOK
<1>8. served' = None /\ reading' = reading \ {run} /\ UNCHANGED <<exact, semantic>>
  BY DEF RunOnRead
<1>9. TypeOK'
  BY <1>5, <1>6, <1>7, <1>8 DEF CacheInv, TypeOK, Stores, Profiles
<1> QED
  BY <1>5, <1>6, <1>8, <1>9 DEF CacheInv, OwnInv, AgeInv, OwnAnswersOnly, ExactAnswersFresh

\* A store puts an answer under its own user's key, within its delay.
LEMMA StoreKeeps ==
    ASSUME CacheInv, NEW store \in pending,
           StoreExact(store) \/ StoreSemantic(store) \/ StoreFails(store)
    PROVE  CacheInv'
<1> DEFINE answer == store.answer
           k == <<answer.user, answer.query>>
<1>1. /\ store \in Stores /\ answer \in Answers /\ store.waited \in 0..StoreDelay
      /\ answer.age \in 0..MaxAge
  BY DEF CacheInv, TypeOK, Stores, Answers
<1>2. k \in Keys /\ k[1] = answer.user
  BY <1>1 DEF Answers, Keys
<1>3. /\ pending' = pending \ {store} /\ served' = None
      /\ profile' = profile /\ reading' = reading /\ faults' = faults
  BY DEF StoreExact, StoreSemantic, StoreFails
<1>4. /\ CacheTTL \in Nat \ {0} /\ ProfileTTL \in Nat \ {0} /\ StoreDelay \in Nat
      /\ ReadDelay \in Nat /\ MaxAge \in Nat
  BY CacheAssumption DEF MaxAge
<1>5. CASE StoreExact(store)
  <2>1. /\ exact' = [exact EXCEPT ![k] = [answer |-> answer, left |-> CacheTTL]]
        /\ semantic' = semantic /\ store.layer = "exact"
    BY <1>5 DEF StoreExact, Key
  <2>2. [answer |-> answer, left |-> CacheTTL] \in ExactEntries
    BY <1>1, <1>4 DEF ExactEntries
  <2>3. answer.age =< ReadDelay + (ProfileTTL - 1) + StoreDelay
    BY <1>1, <1>4, <2>1 DEF CacheInv, AgeInv
  <2> HIDE DEF k, answer
  <2>4. TypeOK'
    BY <1>3, <2>1, <2>2 DEF CacheInv, TypeOK, ExactEntries
  <2>5. OwnInv'
    BY <1>2, <2>1 DEF CacheInv, TypeOK, OwnInv
  <2>6. AgeInv'
    BY <1>2, <1>3, <1>4, <2>1, <2>3 DEF CacheInv, TypeOK, AgeInv
  <2> QED
    BY <1>3, <2>4, <2>5, <2>6 DEF CacheInv, OwnAnswersOnly, ExactAnswersFresh
<1>6. CASE StoreSemantic(store)
  <2>1. /\ semantic' = [semantic EXCEPT ![k] = IF @ = None THEN answer ELSE @]
        /\ exact' = exact
    BY <1>6 DEF StoreSemantic, Key
  <2> HIDE DEF k, answer
  <2>2. TypeOK'
    BY <1>1, <1>3, <2>1 DEF CacheInv, TypeOK
  <2>3. OwnInv'
    BY <1>2, <2>1 DEF CacheInv, TypeOK, OwnInv
  <2> QED
    BY <1>3, <2>1, <2>2, <2>3 DEF CacheInv, AgeInv, OwnAnswersOnly, ExactAnswersFresh
<1>7. CASE StoreFails(store)
  BY <1>3, <1>7 DEF StoreFails, CacheInv, TypeOK, OwnInv, AgeInv, OwnAnswersOnly,
     ExactAnswersFresh
<1> QED
  BY <1>5, <1>6, <1>7

\* A tick adds as much to an age as it takes from what is left.
LEMMA TickKeeps ==
    ASSUME CacheInv, Tick
    PROVE  CacheInv'
<1>0. /\ CacheTTL \in Nat \ {0} /\ ProfileTTL \in Nat \ {0} /\ StoreDelay \in Nat
      /\ ReadDelay \in Nat /\ MaxAge \in Nat
  BY CacheAssumption DEF MaxAge
<1>1. served' = None /\ semantic' = semantic /\ faults' = faults
  BY DEF Tick
<1>2. ASSUME NEW store \in pending
      PROVE  /\ Delayed(store) \in Stores
             /\ Delayed(store).layer = "exact" =>
                    Delayed(store).answer.age =<
                        ReadDelay + (ProfileTTL - 1) + Delayed(store).waited
  <2>1. /\ store \in Stores
        /\ store.layer = "exact" =>
              /\ store.waited < StoreDelay
              /\ store.answer.age =< ReadDelay + (ProfileTTL - 1) + store.waited
    BY DEF CacheInv, TypeOK, Stores, AgeInv, Tick
  <2>2. store.answer \in Answers /\ store.waited \in 0..StoreDelay
    BY <2>1 DEF Stores
  <2>3. CASE store.layer # "exact"
    BY <2>1, <2>3 DEF Delayed
  <2>4. CASE store.layer = "exact"
    <3> DEFINE aged == Aged(store.answer)
    <3>1. aged \in Answers /\ aged.age =< store.answer.age + 1
      BY <2>2, AgedTyped
    <3> HIDE DEF aged
    <3>2. store = [layer |-> store.layer, answer |-> store.answer, waited |-> store.waited]
      BY <2>1 DEF Stores
    <3>3. Delayed(store) = [store EXCEPT !.waited = store.waited + 1, !.answer = aged]
      BY <2>4 DEF Delayed, aged
    <3>4. Delayed(store) = [layer |-> store.layer, answer |-> aged, waited |-> store.waited + 1]
      BY <3>2, <3>3
    <3>5. store.waited + 1 \in 0..StoreDelay
      BY <1>0, <2>1, <2>2, <2>4
    <3>6. aged.age =< ReadDelay + (ProfileTTL - 1) + (store.waited + 1)
      <4>1. store.answer.age \in Int /\ aged.age \in Int
        BY <2>2, <3>1, <1>0 DEF Answers
      <4> QED
        BY <1>0, <2>1, <2>2, <2>4, <3>1, <4>1
    <3> QED
      BY <2>1, <3>1, <3>4, <3>5, <3>6 DEF Stores
  <2> QED
    BY <2>3, <2>4
<1>3. ASSUME NEW k \in Keys, exact[k] # None
      PROVE  /\ exact'[k] \in {None} \cup ExactEntries
             /\ exact'[k] # None =>
                    /\ exact'[k].answer.user = exact[k].answer.user
                    /\ exact'[k].answer.age =<
                           ReadDelay + (ProfileTTL - 1) + StoreDelay + (CacheTTL - exact'[k].left)
  <2>1. exact[k] \in ExactEntries
    BY <1>3 DEF CacheInv, TypeOK, ExactEntries
  <2>2. exact[k].answer \in Answers /\ exact[k].left \in 1..CacheTTL
    BY <2>1 DEF ExactEntries
  <2> DEFINE aged == Aged(exact[k].answer)
  <2>3. /\ aged \in Answers /\ aged.user = exact[k].answer.user
        /\ aged.age =< exact[k].answer.age + 1
    BY <2>2, AgedTyped
  <2>4. exact'[k] = Expired([exact[k] EXCEPT !.answer = Aged(@)])
    BY <1>3 DEF Tick
  <2>5. [exact[k] EXCEPT !.answer = Aged(@)] = [answer |-> aged, left |-> exact[k].left]
    BY <2>1 DEF ExactEntries
  <2> HIDE DEF aged
  <2>6. exact'[k] = IF exact[k].left = 1 THEN None
                    ELSE [answer |-> aged, left |-> exact[k].left - 1]
    BY <2>4, <2>5 DEF Expired
  <2>7. exact[k].answer.age =<
            ReadDelay + (ProfileTTL - 1) + StoreDelay + (CacheTTL - exact[k].left)
    BY <1>3 DEF CacheInv, AgeInv
  <2>8. exact[k].answer.age \in Int /\ aged.age \in Int
    BY <1>0, <2>2, <2>3 DEF Answers
  <2>9. aged.age =<
            ReadDelay + (ProfileTTL - 1) + StoreDelay + (CacheTTL - (exact[k].left - 1))
    BY <1>0, <2>2, <2>3, <2>7, <2>8
  <2> QED
    BY <1>0, <2>2, <2>3, <2>6, <2>9 DEF ExactEntries
<1>4. ASSUME NEW c \in Customers, profile[c] # None
      PROVE  /\ profile'[c] \in {None} \cup Profiles
             /\ profile'[c] # None =>
                    profile'[c].age =< ReadDelay + (ProfileTTL - profile'[c].left)
  <2>1. profile[c] \in Profiles
    BY <1>4 DEF CacheInv, TypeOK, Profiles
  <2>2. profile[c].left \in 1..ProfileTTL /\ profile[c].age \in 0..MaxAge
    BY <2>1 DEF Profiles
  <2> DEFINE older == Older(profile[c].age)
  <2>3. older \in 0..MaxAge /\ older =< profile[c].age + 1
    BY <2>2, OlderTyped
  <2>4. profile'[c] = Expired([profile[c] EXCEPT !.age = Older(@)])
    BY <1>4 DEF Tick
  <2>5. [profile[c] EXCEPT !.age = Older(@)] = [left |-> profile[c].left, age |-> older]
    BY <2>1 DEF Profiles
  <2> HIDE DEF older
  <2>6. profile'[c] = IF profile[c].left = 1 THEN None
                      ELSE [left |-> profile[c].left - 1, age |-> older]
    BY <2>4, <2>5 DEF Expired
  <2>7. profile[c].age =< ReadDelay + (ProfileTTL - profile[c].left)
    BY <1>4 DEF CacheInv, AgeInv
  <2> QED
    BY <1>0, <2>2, <2>3, <2>6, <2>7 DEF Profiles
<1>5. \A k \in Keys : exact[k] = None => exact'[k] = None
  BY DEF Tick
<1>6. \A c \in Customers : profile[c] = None => profile'[c] = None
  BY DEF Tick
<1>7. pending' = {Delayed(store) : store \in pending}
  BY DEF Tick
<1>8. TypeOK'
  <2>1. exact' \in [Keys -> {None} \cup ExactEntries]
    BY <1>3, <1>5 DEF Tick
  <2>2. profile' \in [Customers -> {None} \cup Profiles]
    BY <1>4, <1>6 DEF Tick
  <2>3. pending' \subseteq Stores
    BY <1>2, <1>7
  <2>4. reading' \subseteq [user: Users, query: Queries, customer: Customers, waited: 0..ReadDelay]
    <3>1. ASSUME NEW run \in reading
          PROVE  [run EXCEPT !.waited = @ + 1] \in
                     [user: Users, query: Queries, customer: Customers, waited: 0..ReadDelay]
      BY <1>0 DEF CacheInv, TypeOK, Tick
    <3> QED
      BY <3>1 DEF Tick
  <2> QED
    BY <1>1, <2>1, <2>2, <2>3, <2>4 DEF CacheInv, TypeOK, ExactEntries, Profiles, Stores
<1>9. OwnInv'
  BY <1>1, <1>3, <1>5 DEF CacheInv, OwnInv
<1>10. AgeInv'
  BY <1>2, <1>3, <1>4, <1>5, <1>6, <1>7 DEF AgeInv
<1> QED
  BY <1>1, <1>8, <1>9, <1>10 DEF CacheInv, OwnAnswersOnly, ExactAnswersFresh

\* Every step keeps the invariant.
LEMMA NextCacheInv ==
    ASSUME CacheInv, [Next]_vars
    PROVE  CacheInv'
<1>1. CASE UNCHANGED vars
  BY <1>1 DEF vars, CacheInv, TypeOK, OwnInv, AgeInv, OwnAnswersOnly, ExactAnswersFresh
<1>2. CASE \E user \in Users, query \in Queries :
              \/ ServeExact(user, query)
              \/ ServeSemantic(user, query)
              \/ \E customer \in Customers :
                    RunOnCached(user, query, customer) \/ ReadProfile(user, query, customer)
  BY <1>2, ServeKeeps, RunOnCachedKeeps, ReadProfileKeeps
<1>4. CASE \E run \in reading : RunOnRead(run)
  BY <1>4, RunOnReadKeeps
<1>3. CASE \E store \in pending :
              StoreExact(store) \/ StoreSemantic(store) \/ StoreFails(store)
  BY <1>3, StoreKeeps
<1> QED
  BY <1>1, <1>2, <1>3, <1>4, TickKeeps DEF Next

\* No user is served another's answer, in whatever order stores land.
THEOREM OwnAnswers == Spec => []OwnAnswersOnly
<1>1. CacheInv /\ [Next]_vars => CacheInv'
  BY NextCacheInv
<1>2. CacheInv => OwnAnswersOnly
  BY DEF CacheInv
<1> QED
  BY InitCacheInv, <1>1, <1>2, PTL DEF Spec

\* The exact layer's data is no older than the two TTLs and the delays of the two writes
\* together, whichever write replaces which.
THEOREM ExactFresh == Spec => []ExactAnswersFresh
<1>1. CacheInv /\ [Next]_vars => CacheInv'
  BY NextCacheInv
<1>2. CacheInv => ExactAnswersFresh
  BY DEF CacheInv
<1> QED
  BY InitCacheInv, <1>1, <1>2, PTL DEF Spec

\* The caches keep their types.
THEOREM TypeCorrect == Spec => []TypeOK
<1>1. CacheInv /\ [Next]_vars => CacheInv'
  BY NextCacheInv
<1>2. CacheInv => TypeOK
  BY DEF CacheInv
<1> QED
  BY InitCacheInv, <1>1, <1>2, PTL DEF Spec

-----------------------------------------------------------------------------
(* JwksCache: types *)

\* Ages stay within the TTL.
LEMMA CappedTyped ==
    ASSUME NEW n \in Nat
    PROVE  Capped(n) \in 0..Ttl
  BY JwksAssumption DEF Capped

\* So does what excuses a key, within the longest excuse.
LEMMA ExcusedTyped ==
    ASSUME JwksTypeOK, NEW keys, NEW n \in 0..(Ttl + MaxFetch)
    PROVE  Excused(keys, n) \in [KeyIds -> 0..(Ttl + MaxFetch)]
  BY JwksAssumption DEF JwksTypeOK, Excused

\* What a thread may be doing, set by set.
LEMMA RequestKinds ==
    ASSUME NEW q \in Requests
    PROVE  /\ q.at \in {"idle", "fetch", "raised", "date", "store", "judge"}
           /\ q.at \in {"fetch", "raised", "date"} =>
                q = [at |-> q.at, since |-> q.since] /\ q.since \in 0..MaxFetch
           /\ q.at = "store" =>
                /\ q = [at |-> "store", since |-> q.since, answer |-> q.answer]
                /\ q.since \in 0..MaxFetch /\ q.answer \in SUBSET KeyIds
  BY DEF Requests

\* What a thread does next, put into the table of requests.
LEMMA RequestsTyped ==
    ASSUME JwksTypeOK, NEW t \in Threads, NEW q \in Requests
    PROVE  [request EXCEPT ![t] = q] \in [Threads -> Requests]
  BY DEF JwksTypeOK

\* Each kind of request is one.
LEMMA RequestKindsTyped ==
    ASSUME NEW since \in 0..MaxFetch, NEW keys \in SUBSET KeyIds
    PROVE  /\ [at |-> "idle"] \in Requests
           /\ [at |-> "fetch", since |-> since] \in Requests
           /\ [at |-> "raised", since |-> since] \in Requests
           /\ [at |-> "date", since |-> since] \in Requests
           /\ [at |-> "store", since |-> since, answer |-> keys] \in Requests
           /\ [at |-> "judge", keys |-> keys] \in Requests
  BY DEF Requests

\* The first state is typed.
LEMMA JwksInitTyped == JwksInit => JwksTypeOK
<1> SUFFICES ASSUME JwksInit PROVE JwksTypeOK
  OBVIOUS
<1>1. uptime \in 0..Ttl /\ age \in 0..Ttl
  BY JwksAssumption DEF JwksInit
<1>2. request \in [Threads -> Requests]
  BY DEF JwksInit, Requests
<1>3. excuse \in [KeyIds -> 0..(Ttl + MaxFetch)]
  BY <1>1, JwksAssumption DEF JwksInit
<1> QED
  BY <1>1, <1>2, <1>3 DEF JwksInit, JwksTypeOK

\* The steps of a request keep the types.
LEMMA ThreadTyped ==
    ASSUME JwksTypeOK, NEW t \in Threads,
           \/ LookUp(t) \/ Answer(t) \/ Raise(t) \/ StoreKeys(t) \/ StoreTime(t)
           \/ FetchFailed(t) \/ Decode(t)
    PROVE  JwksTypeOK'
<1> USE JwksAssumption
<1>0. /\ 0 \in 0..MaxFetch /\ cache \in SUBSET KeyIds /\ published \in SUBSET KeyIds
      /\ request[t] \in Requests
  BY DEF JwksTypeOK
<1>1. CASE LookUp(t)
  <2>1. request' \in [Threads -> Requests]
    BY <1>0, <1>1, RequestsTyped, RequestKindsTyped DEF LookUp
  <2> QED
    BY <1>1, <2>1 DEF LookUp, JwksTypeOK
<1>2. CASE Answer(t)
  <2>1. PICK answer \in {published, {}} :
            /\ request' = [request EXCEPT ![t] =
                              [at |-> "store", since |-> @.since, answer |-> answer]]
            /\ excuse' = IF answer = {} THEN Excused(KeyIds, Ttl + MaxFetch) ELSE excuse
    BY <1>2 DEF Answer
  <2>2. [at |-> "store", since |-> request[t].since, answer |-> answer] \in Requests
    BY <1>0, <1>2, RequestKinds, RequestKindsTyped DEF Answer
  <2>3. request' \in [Threads -> Requests]
    BY <2>1, <2>2, RequestsTyped
  <2>4. excuse' \in [KeyIds -> 0..(Ttl + MaxFetch)]
    BY <2>1, ExcusedTyped DEF JwksTypeOK
  <2> QED
    BY <1>2, <2>3, <2>4 DEF Answer, JwksTypeOK
<1>3. CASE Raise(t)
  <2>1. [request[t] EXCEPT !.at = "raised"] = [at |-> "raised", since |-> request[t].since]
    BY <1>0, <1>3, RequestKinds DEF Raise
  <2>2. [at |-> "raised", since |-> request[t].since] \in Requests
    BY <1>0, <1>3, RequestKinds, RequestKindsTyped DEF Raise
  <2>3. request' = [request EXCEPT ![t] = [at |-> "raised", since |-> request[t].since]]
    BY <1>3, <2>1 DEF Raise
  <2>4. request' \in [Threads -> Requests]
    BY <2>2, <2>3, RequestsTyped
  <2> QED
    BY <1>3, <2>4 DEF Raise, JwksTypeOK
<1>4. CASE StoreKeys(t)
  <2>1. request[t].answer \in SUBSET KeyIds
        /\ [at |-> "date", since |-> request[t].since] \in Requests
    BY <1>0, <1>4, RequestKinds, RequestKindsTyped DEF StoreKeys
  <2>2. request' \in [Threads -> Requests]
    BY <1>4, <2>1, RequestsTyped DEF StoreKeys
  <2> QED
    BY <1>4, <2>1, <2>2 DEF StoreKeys, JwksTypeOK
<1>5. CASE StoreTime(t)
  <2>1. request' \in [Threads -> Requests]
    BY <1>0, <1>5, RequestsTyped, RequestKindsTyped DEF StoreTime, Judge
  <2>2. age' \in 0..Ttl
    BY <1>0, <1>5, RequestKinds, CappedTyped DEF StoreTime
  <2> QED
    BY <1>5, <2>1, <2>2 DEF StoreTime, JwksTypeOK
<1>6. CASE FetchFailed(t)
  <2>1. request' \in [Threads -> Requests]
    BY <1>0, <1>6, RequestsTyped, RequestKindsTyped DEF FetchFailed, Judge
  <2>2. age' \in 0..Ttl
    BY <1>0, <1>6, RequestKinds, CappedTyped DEF FetchFailed, Postpone
  <2>3. excuse' \in [KeyIds -> 0..(Ttl + MaxFetch)]
    BY <1>6, ExcusedTyped DEF FetchFailed
  <2> QED
    BY <1>6, <2>1, <2>2, <2>3 DEF FetchFailed, JwksTypeOK
<1>7. CASE Decode(t)
  <2>1. request' \in [Threads -> Requests]
    BY <1>0, <1>7, RequestsTyped, RequestKindsTyped DEF Decode
  <2> QED
    BY <1>7, <2>1 DEF Decode, JwksTypeOK
<1> QED
  BY <1>1, <1>2, <1>3, <1>4, <1>5, <1>6, <1>7

\* Time, restarts and the identity provider keep the types.
LEMMA WorldTyped ==
    ASSUME JwksTypeOK, (\E k \in KeyIds : Rotate(k)) \/ JwksTick \/ Restart \/ RebootHost
    PROVE  JwksTypeOK'
<1> USE JwksAssumption
<1>1. CASE \E k \in KeyIds : Rotate(k)
  <2>1. PICK k \in KeyIds : Rotate(k)
    BY <1>1
  <2>2. excuse' \in [KeyIds -> 0..(Ttl + MaxFetch)]
    BY <2>1, ExcusedTyped DEF Rotate
  <2> QED
    BY <2>1, <2>2 DEF Rotate, JwksTypeOK
<1>2. CASE JwksTick
  <2>1. uptime' \in 0..Ttl /\ age' \in 0..Ttl
    BY <1>2, CappedTyped DEF JwksTick, JwksTypeOK
  <2>2. excuse' \in [KeyIds -> 0..(Ttl + MaxFetch)]
    BY <1>2 DEF JwksTick, JwksTypeOK
  <2>3. ASSUME NEW t \in Threads, request[t].at # "idle"
        PROVE  [request[t] EXCEPT !.since = @ + 1] \in Requests
    <3>1. request[t] \in Requests
      BY DEF JwksTypeOK
    <3>2. /\ request[t].at \in {"fetch", "store", "raised"}
          /\ request[t].since < MaxFetch
      BY <1>2, <2>3 DEF JwksTick, Waiting
    <3>3. request[t].since \in 0..MaxFetch
      BY <3>1, <3>2, RequestKinds
    <3>4. request[t].since + 1 \in 0..MaxFetch
      BY <3>2, <3>3
    <3>5. CASE request[t].at \in {"fetch", "raised"}
      <4>1. request[t] = [at |-> request[t].at, since |-> request[t].since]
        BY <3>1, <3>5, RequestKinds
      <4>2. [request[t] EXCEPT !.since = @ + 1]
              = [at |-> request[t].at, since |-> request[t].since + 1]
        BY <4>1
      <4> QED
        BY <3>4, <3>5, <4>2, RequestKindsTyped
    <3>6. CASE request[t].at = "store"
      <4>1. request[t] = [at |-> "store", since |-> request[t].since,
                          answer |-> request[t].answer]
            /\ request[t].answer \in SUBSET KeyIds
        BY <3>1, <3>6, RequestKinds
      <4>2. [request[t] EXCEPT !.since = @ + 1]
              = [at |-> "store", since |-> request[t].since + 1, answer |-> request[t].answer]
        BY <4>1
      <4> QED
        BY <3>4, <4>1, <4>2, RequestKindsTyped
    <3> QED
      BY <3>2, <3>5, <3>6
  <2>4. request' \in [Threads -> Requests]
    BY <1>2, <2>3 DEF JwksTick, JwksTypeOK
  <2> QED
    BY <1>2, <2>1, <2>2, <2>4 DEF JwksTick, JwksTypeOK
<1>3. CASE Restart
  <2>1. request' \in [Threads -> Requests]
    BY <1>3 DEF Restart, Start, Requests
  <2>2. excuse' \in [KeyIds -> 0..(Ttl + MaxFetch)] /\ age' \in 0..Ttl
    BY <1>3 DEF Restart, Start, JwksTypeOK
  <2> QED
    BY <1>3, <2>1, <2>2 DEF Restart, Start, JwksTypeOK
<1>4. CASE RebootHost
  <2>1. request' \in [Threads -> Requests]
    BY <1>4 DEF RebootHost, Start, Requests
  <2>2. excuse' \in [KeyIds -> 0..(Ttl + MaxFetch)] /\ age' \in 0..Ttl
    BY <1>4 DEF RebootHost, Start, JwksTypeOK
  <2> QED
    BY <1>4, <2>1, <2>2 DEF RebootHost, Start, JwksTypeOK
<1> QED
  BY <1>1, <1>2, <1>3, <1>4

\* The globals and the threads keep their types, however fetches overlap and
\* whatever restarts.
THEOREM JwksTypeCorrect == JwksSpec => []JwksTypeOK
<1>1. JwksTypeOK /\ [JwksNext]_jwksVars => JwksTypeOK'
  <2> SUFFICES ASSUME JwksTypeOK, [JwksNext]_jwksVars PROVE JwksTypeOK'
    OBVIOUS
  <2>1. CASE UNCHANGED jwksVars
    BY <2>1 DEF jwksVars, JwksTypeOK
  <2> QED
    BY <2>1, ThreadTyped, WorldTyped DEF JwksNext
<1> QED
  BY JwksInitTyped, <1>1, PTL DEF JwksSpec

-----------------------------------------------------------------------------
(* JwksCache: wrong keys *)

\* KeyIds that lack a published key or hold a withdrawn one.
Wrong(k, keys) == (k \in published) # (k \in keys)

\* An answer on its way is excused for as long as it would be kept, and the cache
\* until it expires; while a thread is about to date the cache, which no time
\* passes before, until it expires once more; and a judgement is excused now.
AnswerInv(t, k) ==
    request[t].at = "store" /\ Wrong(k, request[t].answer) =>
        excuse[k] >= Ttl + MaxFetch - request[t].since

JwksInv(k) == Wrong(k, cache) => excuse[k] >= Ttl - age

DateInv(t, k) == request[t].at = "date" /\ Wrong(k, cache) => excuse[k] >= Ttl

JudgeInv(t, k) == Judged(t) /\ Wrong(k, request[t].keys) => excuse[k] > 0

ExcuseInv ==
    /\ \A k \in KeyIds : JwksInv(k)
    /\ \A t \in Threads, k \in KeyIds : AnswerInv(t, k) /\ DateInv(t, k) /\ JudgeInv(t, k)

\* An excuse is never shortened by another.
LEMMA ExcusedLonger ==
    ASSUME JwksTypeOK, NEW keys, NEW n \in 0..(Ttl + MaxFetch), NEW k \in KeyIds
    PROVE  /\ Excused(keys, n)[k] \in Nat
           /\ Excused(keys, n)[k] >= excuse[k]
           /\ k \in keys => Excused(keys, n)[k] >= n
  BY JwksAssumption DEF JwksTypeOK, Excused

\* Processes that have just started know no key and are excused until they ask.
LEMMA StartExcused ==
    ASSUME NEW up \in 0..Ttl, Start(up), published' \in SUBSET KeyIds
    PROVE  ExcuseInv'
<1>1. \A t \in Threads : request'[t].at = "idle"
  BY DEF Start
<1>2. \A k \in KeyIds : excuse'[k] = Ttl - age'
  BY DEF Start
<1>3. \A k \in KeyIds : JwksInv(k)'
  BY <1>2, JwksAssumption DEF JwksInv, Start
<1> QED
  BY <1>1, <1>3 DEF ExcuseInv, AnswerInv, DateInv, JudgeInv, Judged

\* A process starts so.
LEMMA InitExcused == JwksInit => ExcuseInv
<1> SUFFICES ASSUME JwksInit PROVE ExcuseInv
  OBVIOUS
<1>1. \A t \in Threads : request[t].at = "idle"
  BY DEF JwksInit
<1>2. \A k \in KeyIds : excuse[k] = Ttl - age
  BY DEF JwksInit
<1>3. \A k \in KeyIds : JwksInv(k)
  BY <1>2, JwksAssumption DEF JwksInv, JwksInit
<1> QED
  BY <1>1, <1>3 DEF ExcuseInv, AnswerInv, DateInv, JudgeInv, Judged

\* A step of thread t that touches neither the published keys nor another thread
\* leaves the others' part of the invariant alone, if the excuses do not shrink
\* and the cache is wrong only about keys excused for a TTL or as before.
LEMMA OthersExcused ==
    ASSUME JwksTypeOK, JwksTypeOK', ExcuseInv, NEW t \in Threads, NEW k \in KeyIds,
           NEW u \in Threads \ {t},
           request'[u] = request[u], published' = published, excuse'[k] >= excuse[k],
           Wrong(k, cache)' => Wrong(k, cache) \/ excuse'[k] >= Ttl
    PROVE  AnswerInv(u, k)' /\ DateInv(u, k)' /\ JudgeInv(u, k)'
<1>1. AnswerInv(u, k) /\ DateInv(u, k) /\ JudgeInv(u, k)
  BY DEF ExcuseInv
<1>2. excuse[k] \in Nat /\ excuse'[k] \in Nat /\ Ttl \in Nat /\ MaxFetch \in Nat
  BY JwksAssumption DEF JwksTypeOK
<1>3. AnswerInv(u, k)'
  <2> SUFFICES ASSUME request[u].at = "store", Wrong(k, request[u].answer)
               PROVE  excuse'[k] >= Ttl + MaxFetch - request[u].since
    BY DEF AnswerInv, Wrong
  <2>1. request[u].since \in 0..MaxFetch
    BY RequestKinds DEF JwksTypeOK
  <2> QED
    BY <1>1, <1>2, <2>1 DEF AnswerInv
<1>4. DateInv(u, k)'
  BY <1>1, <1>2 DEF DateInv
<1>5. JudgeInv(u, k)'
  BY <1>1, <1>2 DEF JudgeInv, Judged, Wrong
<1> QED
  BY <1>3, <1>4, <1>5

\* The steps of a request: what is fetched, kept and judged is excused.
LEMMA ThreadExcused ==
    ASSUME JwksTypeOK, JwksTypeOK', ExcuseInv, NEW t \in Threads, NEW k \in KeyIds,
           \/ LookUp(t) \/ Answer(t) \/ Raise(t) \/ StoreKeys(t) \/ StoreTime(t)
           \/ FetchFailed(t) \/ Decode(t)
    PROVE  /\ JwksInv(k)'
           /\ \A u \in Threads : AnswerInv(u, k)' /\ DateInv(u, k)' /\ JudgeInv(u, k)'
<1>0. /\ JwksInv(k) /\ AnswerInv(t, k) /\ DateInv(t, k) /\ JudgeInv(t, k)
      /\ Ttl \in Nat /\ MaxFetch \in Nat /\ Retry \in 1..(Ttl - 1)
      /\ excuse[k] \in Nat /\ excuse'[k] \in Nat /\ age \in 0..Ttl
      /\ request \in [Threads -> Requests] /\ request[t] \in Requests
  BY JwksAssumption DEF ExcuseInv, JwksTypeOK
<1>1. published' = published /\ \A u \in Threads \ {t} : request'[u] = request[u]
  BY <1>0 DEF LookUp, Answer, Raise, StoreKeys, StoreTime, FetchFailed, Decode, Judge
<1>2. excuse'[k] >= excuse[k]
  <2>1. CASE Answer(t)
    <3>1. excuse' \in {excuse, Excused(KeyIds, Ttl + MaxFetch)}
      BY <2>1 DEF Answer
    <3> QED
      BY <1>0, <3>1, ExcusedLonger
  <2>2. CASE FetchFailed(t)
    BY <1>0, <2>2, ExcusedLonger DEF FetchFailed
  <2>3. CASE UNCHANGED excuse
    BY <1>0, <2>3
  <2> QED
    BY <2>1, <2>2, <2>3 DEF LookUp, Raise, StoreKeys, StoreTime, Decode
<1> SUFFICES /\ JwksInv(k)' /\ AnswerInv(t, k)' /\ DateInv(t, k)' /\ JudgeInv(t, k)'
             /\ Wrong(k, cache)' => Wrong(k, cache) \/ excuse'[k] >= Ttl
  BY <1>1, <1>2, OthersExcused
<1>3. CASE LookUp(t)
  <2>1. /\ UNCHANGED <<cache, age, excuse>>
        /\ request'[t] = IF age < Ttl THEN [at |-> "judge", keys |-> cache]
                                      ELSE [at |-> "fetch", since |-> 0]
    BY <1>0, <1>3 DEF LookUp, Fresh
  <2> QED
    BY <1>0, <1>1, <2>1 DEF JwksInv, AnswerInv, DateInv, JudgeInv, Judged, Wrong
<1>4. CASE Answer(t)
  <2>1. UNCHANGED <<cache, age>>
    BY <1>4 DEF Answer
  <2>2. PICK answer \in {published, {}} :
            /\ request' = [request EXCEPT ![t] =
                              [at |-> "store", since |-> @.since, answer |-> answer]]
            /\ excuse' = IF answer = {} THEN Excused(KeyIds, Ttl + MaxFetch) ELSE excuse
    BY <1>4 DEF Answer
  <2>3. request'[t] = [at |-> "store", since |-> request[t].since, answer |-> answer]
    BY <1>0, <2>2
  <2>4. request[t].since \in 0..MaxFetch
    BY <1>0, <1>4, RequestKinds DEF Answer
  <2>5. Wrong(k, answer) => excuse'[k] >= Ttl + MaxFetch
    BY <1>0, <2>2, ExcusedLonger DEF Wrong
  <2> QED
    BY <1>0, <1>1, <1>2, <2>1, <2>3, <2>4, <2>5
       DEF JwksInv, AnswerInv, DateInv, JudgeInv, Judged, Wrong
<1>5. CASE Raise(t)
  <2>1. UNCHANGED <<cache, age, excuse>> /\ request'[t].at = "raised"
    BY <1>0, <1>5, RequestKinds DEF Raise
  <2> QED
    BY <1>0, <1>1, <2>1 DEF JwksInv, AnswerInv, DateInv, JudgeInv, Judged, Wrong
<1>6. CASE StoreKeys(t)
  <2>1. /\ UNCHANGED <<age, excuse>> /\ cache' = request[t].answer
        /\ request'[t] = [at |-> "date", since |-> request[t].since]
        /\ request[t].at = "store"
    BY <1>0, <1>6 DEF StoreKeys
  <2>2. request[t].since \in 0..MaxFetch
    BY <1>0, <2>1, RequestKinds
  <2>3. Wrong(k, cache)' => excuse'[k] >= Ttl
    BY <1>0, <1>1, <2>1, <2>2 DEF AnswerInv, Wrong
  <2> QED
    BY <1>0, <2>1, <2>3 DEF JwksInv, AnswerInv, DateInv, JudgeInv, Judged
<1>7. CASE StoreTime(t)
  <2>1. /\ UNCHANGED <<cache, excuse>> /\ age' \in 0..Ttl
        /\ request'[t] = [at |-> "judge", keys |-> cache]
        /\ request[t].at = "date"
    BY <1>0, <1>7 DEF StoreTime, Judge, JwksTypeOK
  <2> QED
    BY <1>0, <1>1, <2>1 DEF JwksInv, AnswerInv, DateInv, JudgeInv, Judged, Wrong
<1>8. CASE FetchFailed(t)
  <2>1. /\ UNCHANGED cache /\ request'[t] = [at |-> "judge", keys |-> cache]
        /\ age' = Capped(request[t].since + Ttl - Retry)
        /\ excuse' = Excused(KeyIds, Retry)
        /\ request[t].at = "raised"
    BY <1>0, <1>8 DEF FetchFailed, Judge, Postpone
  <2>2. request[t].since \in 0..MaxFetch
    BY <1>0, <2>1, RequestKinds
  <2>3. Ttl - age' =< Retry
    BY <1>0, <2>1, <2>2 DEF Capped
  <2>4. excuse'[k] >= Retry
    BY <1>0, <2>1, ExcusedLonger
  <2>5. age' \in 0..Ttl
    BY DEF JwksTypeOK
  <2> QED
    BY <1>0, <1>1, <2>1, <2>3, <2>4, <2>5
       DEF JwksInv, AnswerInv, DateInv, JudgeInv, Judged, Wrong
<1>9. CASE Decode(t)
  <2>1. UNCHANGED <<cache, age, excuse>> /\ request'[t].at = "idle"
    BY <1>0, <1>9 DEF Decode
  <2> QED
    BY <1>0, <1>1, <2>1 DEF JwksInv, AnswerInv, DateInv, JudgeInv, Judged, Wrong
<1> QED
  BY <1>3, <1>4, <1>5, <1>6, <1>7, <1>8, <1>9

\* A key published or withdrawn is excused for longer than anything that was
\* fetched before can last.
LEMMA RotateExcused ==
    ASSUME JwksTypeOK, ExcuseInv, NEW r \in KeyIds, Rotate(r), NEW k \in KeyIds
    PROVE  /\ JwksInv(k)'
           /\ \A t \in Threads : AnswerInv(t, k)' /\ DateInv(t, k)' /\ JudgeInv(t, k)'
<1>0. /\ UNCHANGED <<cache, age, request>>
      /\ k # r => (k \in published' <=> k \in published)
      /\ excuse' = Excused({r}, Ttl + MaxFetch)
      /\ Ttl \in Nat \ {0} /\ MaxFetch \in Nat
      /\ excuse[k] \in Nat /\ age \in 0..Ttl
  BY JwksAssumption DEF Rotate, JwksTypeOK
<1>1. /\ excuse'[k] \in Nat /\ excuse'[k] >= excuse[k]
      /\ k = r => excuse'[k] >= Ttl + MaxFetch
  BY <1>0, ExcusedLonger
<1>2. JwksInv(k)'
  BY <1>0, <1>1 DEF ExcuseInv, JwksInv, Wrong
<1>3. ASSUME NEW t \in Threads
      PROVE  AnswerInv(t, k)' /\ DateInv(t, k)' /\ JudgeInv(t, k)'
  <2>1. AnswerInv(t, k) /\ DateInv(t, k) /\ JudgeInv(t, k)
    BY DEF ExcuseInv
  <2>2. request[t].at = "store" => request[t].since \in 0..MaxFetch
    BY RequestKinds DEF JwksTypeOK
  <2>3. AnswerInv(t, k)'
    BY <1>0, <1>1, <2>1, <2>2 DEF AnswerInv, Wrong
  <2> QED
    BY <1>0, <1>1, <2>1, <2>3 DEF DateInv, JudgeInv, Judged, Wrong
<1> QED
  BY <1>2, <1>3

\* A tick shortens an excuse as much as what it excuses; no thread is between
\* the keys and their time, or at a judgement.
LEMMA TickExcused ==
    ASSUME JwksTypeOK, ExcuseInv, JwksTick, NEW k \in KeyIds
    PROVE  /\ JwksInv(k)'
           /\ \A t \in Threads : AnswerInv(t, k)' /\ DateInv(t, k)' /\ JudgeInv(t, k)'
<1>0. /\ UNCHANGED <<published, cache>> /\ age' = Capped(age + 1)
      /\ excuse'[k] = IF excuse[k] = 0 THEN 0 ELSE excuse[k] - 1
      /\ Ttl \in Nat /\ MaxFetch \in Nat
      /\ excuse[k] \in Nat /\ age \in 0..Ttl
  BY JwksAssumption DEF JwksTick, JwksTypeOK
<1>1. JwksInv(k)'
  BY <1>0 DEF ExcuseInv, JwksInv, Capped, Wrong
<1>2. ASSUME NEW t \in Threads
      PROVE  AnswerInv(t, k)' /\ DateInv(t, k)' /\ JudgeInv(t, k)'
  <2>1. /\ Waiting(t) /\ request[t] \in Requests
        /\ request'[t] = IF request[t].at = "idle" THEN request[t]
                         ELSE [request[t] EXCEPT !.since = @ + 1]
    BY DEF JwksTick, JwksTypeOK
  <2>2. CASE request[t].at = "idle"
    BY <2>1, <2>2 DEF AnswerInv, DateInv, JudgeInv, Judged
  <2>3. CASE request[t].at \in {"fetch", "raised"}
    <3>1. request[t] = [at |-> request[t].at, since |-> request[t].since]
      BY <2>1, <2>3, RequestKinds
    <3>2. request'[t].at = request[t].at
      BY <2>1, <2>3, <3>1
    <3> QED
      BY <2>3, <3>2 DEF AnswerInv, DateInv, JudgeInv, Judged
  <2>4. CASE request[t].at = "store"
    <3>1. /\ request[t] = [at |-> "store", since |-> request[t].since,
                           answer |-> request[t].answer]
          /\ request[t].since \in 0..MaxFetch
      BY <2>1, <2>4, RequestKinds
    <3>2. request'[t] = [at |-> "store", since |-> request[t].since + 1,
                         answer |-> request[t].answer]
      BY <2>1, <2>4, <3>1
    <3>3. request[t].since < MaxFetch
      BY <2>1, <2>4 DEF Waiting
    <3>4. AnswerInv(t, k)
      BY DEF ExcuseInv
    <3>5. AnswerInv(t, k)'
      BY <1>0, <2>4, <3>1, <3>2, <3>3, <3>4 DEF AnswerInv, Wrong
    <3> QED
      BY <3>2, <3>5 DEF DateInv, JudgeInv, Judged
  <2> QED
    BY <2>1, <2>2, <2>3, <2>4 DEF Waiting
<1> QED
  BY <1>1, <1>2

\* Every step keeps the types and the excuses.
LEMMA NextExcused ==
    ASSUME JwksTypeOK, ExcuseInv, [JwksNext]_jwksVars
    PROVE  JwksTypeOK' /\ ExcuseInv'
<1>1. CASE UNCHANGED jwksVars
  BY <1>1 DEF jwksVars, JwksTypeOK, ExcuseInv, JwksInv, AnswerInv, DateInv, JudgeInv, Judged, Wrong
<1>2. CASE \E t \in Threads : \/ LookUp(t) \/ Answer(t) \/ Raise(t) \/ StoreKeys(t)
                              \/ StoreTime(t) \/ FetchFailed(t) \/ Decode(t)
  <2>1. JwksTypeOK'
    BY <1>2, ThreadTyped
  <2> QED
    BY <1>2, <2>1, ThreadExcused DEF ExcuseInv
<1>3. CASE \E k \in KeyIds : Rotate(k)
  BY <1>3, WorldTyped, RotateExcused DEF ExcuseInv
<1>4. CASE JwksTick
  BY <1>4, WorldTyped, TickExcused DEF ExcuseInv
<1>5. CASE Restart
  BY <1>5, WorldTyped, StartExcused DEF Restart, JwksTypeOK
<1>6. CASE RebootHost
  BY <1>6, WorldTyped, StartExcused, JwksAssumption DEF RebootHost, JwksTypeOK
<1> QED
  BY <1>1, <1>2, <1>3, <1>4, <1>5, <1>6 DEF JwksNext

\* A published key is refused only while it is excused, although threads fetch at
\* once and write keys and time apart.
THEOREM PublishedSafe == JwksSpec => []PublishedAccepted
<1>1. JwksInit => JwksTypeOK /\ ExcuseInv
  BY JwksInitTyped, InitExcused
<1>2. JwksTypeOK /\ ExcuseInv /\ [JwksNext]_jwksVars => JwksTypeOK' /\ ExcuseInv'
  BY NextExcused
<1>3. JwksTypeOK /\ ExcuseInv => PublishedAccepted
  BY DEF JwksTypeOK, ExcuseInv, JudgeInv, Wrong, PublishedAccepted
<1> QED
  BY <1>1, <1>2, <1>3, PTL DEF JwksSpec

\* And a withdrawn key is accepted only while it is excused.
THEOREM WithdrawnSafe == JwksSpec => []WithdrawnRefused
<1>1. JwksInit => JwksTypeOK /\ ExcuseInv
  BY JwksInitTyped, InitExcused
<1>2. JwksTypeOK /\ ExcuseInv /\ [JwksNext]_jwksVars => JwksTypeOK' /\ ExcuseInv'
  BY NextExcused
<1>3. JwksTypeOK /\ ExcuseInv => WithdrawnRefused
  BY DEF JwksTypeOK, ExcuseInv, JudgeInv, Wrong, WithdrawnRefused
<1> QED
  BY <1>1, <1>2, <1>3, PTL DEF JwksSpec

-----------------------------------------------------------------------------
(* IssueStore: types *)

RowsTyped ==
    /\ issues \subseteq Issues
    /\ {status, noted} \subseteq [Issues -> Statuses]
    /\ writer \in [Writers -> WriterStates]
    /\ count \in [updates: 0..MaxUpdates, failures: 0..MaxFailures]
    /\ torn \subseteq issues

PodsTyped ==
    /\ embedded \subseteq issues
    /\ index \in BOOLEAN
    /\ pod \in [Pods -> {"stopped", "starting", "deaf", "listening"}]
    /\ inbox \in [Pods -> SUBSET issues]
    /\ worker \in [Pods -> WorkerStates]

\* A worker updates rows it has found in the table, a request notes a status it
\* has found a row for. The types allow any issue in both places.
MissingInserted ==
    \A p \in Pods : worker[p].at = "update" => worker[p].missing \subseteq issues

NotesInserted ==
    \A w \in Writers : writer[w].at = "note" => writer[w].issue \in issues

Typed == StoreTypeOK /\ MissingInserted /\ NotesInserted

\* The types, those of the rows apart from those of the pods.
LEMMA TypeOKParts == StoreTypeOK <=> RowsTyped /\ PodsTyped
  BY DEF StoreTypeOK, RowsTyped, PodsTyped

\* A notification names rows that exist.
LEMMA NotifiedTyped ==
    ASSUME NEW names, NEW box \in [Pods -> SUBSET names], NEW changed \in SUBSET names
    PROVE  Notified(box, changed) \in [Pods -> SUBSET names]
  BY DEF Notified

\* What a request or a worker may be doing, kind by kind.
LEMMA KindsTyped ==
    /\ IdleWriter \in WriterStates
    /\ \A i \in Issues, s \in Statuses :
        [at |-> "note", issue |-> i, status |-> s] \in WriterStates
    /\ \A q \in WriterStates : q.at = "note" => q.issue \in Issues /\ q.status \in Statuses
    /\ \A a \in {"sleep", "select", "index"} : [at |-> a] \in WorkerStates
    /\ \A missing \in SUBSET Issues :
        [at |-> "update", missing |-> missing] \in WorkerStates
  BY DEF IdleWriter, WriterStates, WorkerStates

\* The pods start with nothing.
LEMMA StoreInitTyped == StoreInit => Typed
<1> SUFFICES ASSUME StoreInit PROVE Typed
  OBVIOUS
<1>1. /\ issues \subseteq Issues /\ torn \subseteq issues
      /\ {status, noted} \subseteq [Issues -> Statuses]
  BY StoreAssumption DEF StoreInit
<1>2. writer \in [Writers -> WriterStates] /\ NotesInserted
  BY KindsTyped DEF StoreInit, IdleWriter, NotesInserted
<1>3. count \in [updates: 0..MaxUpdates, failures: 0..MaxFailures]
  BY StoreAssumption DEF StoreInit
<1>4. /\ embedded \subseteq issues
      /\ index \in BOOLEAN
      /\ pod \in [Pods -> {"stopped", "starting", "deaf", "listening"}]
      /\ inbox \in [Pods -> SUBSET issues]
  BY DEF StoreInit
<1>5. worker \in [Pods -> WorkerStates] /\ MissingInserted
  BY KindsTyped DEF StoreInit, Asleep, MissingInserted
<1> QED
  BY <1>1, <1>2, <1>3, <1>4, <1>5 DEF Typed, StoreTypeOK

\* Counting a failure stays within the bound.
LEMMA FailTyped ==
    ASSUME RowsTyped, Fail \/ count' = count
    PROVE  count' \in [updates: 0..MaxUpdates, failures: 0..MaxFailures]
  BY StoreAssumption DEF RowsTyped, Fail

\* A new row keeps the types.
LEMMA InsertTyped ==
    ASSUME Typed, NEW i \in Issues, InsertIssue(i)
    PROVE  Typed'
<1>0. RowsTyped /\ PodsTyped /\ MissingInserted /\ NotesInserted
  BY TypeOKParts DEF Typed
<1>1. inbox' \in [Pods -> SUBSET issues']
  <2>1. issues' = issues \cup {i} /\ inbox \in [Pods -> SUBSET issues']
    BY <1>0 DEF InsertIssue, PodsTyped
  <2>2. Notified(inbox, {i}) \in [Pods -> SUBSET issues']
    BY <2>1, NotifiedTyped
  <2> QED
    BY <2>2 DEF InsertIssue
<1>2. RowsTyped' /\ NotesInserted'
  BY <1>0 DEF InsertIssue, RowsTyped, NotesInserted
<1>3. PodsTyped' /\ MissingInserted'
  BY <1>0, <1>1 DEF InsertIssue, PodsTyped, vectors, MissingInserted
<1> QED
  BY <1>2, <1>3 DEF Typed, StoreTypeOK, RowsTyped, PodsTyped

\* The first commit of an update keeps the types.
LEMMA UpdateTyped ==
    ASSUME Typed, NEW w \in Writers, NEW i \in Issues, NEW s \in Statuses,
           UpdateStatus(w, i, s)
    PROVE  Typed'
<1>0. RowsTyped /\ PodsTyped /\ MissingInserted /\ NotesInserted
  BY TypeOKParts DEF Typed
<1>1. inbox' \in [Pods -> SUBSET issues]
  BY <1>0, NotifiedTyped DEF UpdateStatus, PodsTyped
<1>2. writer' \in [Writers -> WriterStates] /\ NotesInserted'
  BY <1>0, KindsTyped DEF UpdateStatus, RowsTyped, NotesInserted
<1>3. count' \in [updates: 0..MaxUpdates, failures: 0..MaxFailures]
  BY <1>0, StoreAssumption DEF UpdateStatus, RowsTyped
<1>4. status' \in [Issues -> Statuses] /\ torn' \subseteq issues
  BY <1>0 DEF UpdateStatus, RowsTyped
<1>5. RowsTyped'
  BY <1>0, <1>2, <1>3, <1>4 DEF UpdateStatus, RowsTyped
<1>6. PodsTyped' /\ MissingInserted'
  BY <1>0, <1>1 DEF UpdateStatus, PodsTyped, vectors, MissingInserted
<1> QED
  BY <1>2, <1>5, <1>6 DEF Typed, StoreTypeOK, RowsTyped, PodsTyped

\* The second commit, or its loss, keeps the types.
LEMMA NoteTyped ==
    ASSUME Typed, NEW w \in Writers, AddNote(w) \/ CutShort(w)
    PROVE  Typed'
<1>0. RowsTyped /\ PodsTyped /\ MissingInserted /\ NotesInserted
  BY TypeOKParts DEF Typed
<1>1. writer' \in [Writers -> WriterStates] /\ NotesInserted'
  BY <1>0, KindsTyped
     DEF AddNote, CutShort, IdleWriter, RowsTyped, NotesInserted, rows
<1>2. noted' \in [Issues -> Statuses]
  BY <1>0, KindsTyped DEF AddNote, NoteOf, CutShort, RowsTyped, rows
<1>3. torn' \subseteq issues
  BY <1>0 DEF AddNote, CutShort, RowsTyped, NotesInserted
<1>4. count' \in [updates: 0..MaxUpdates, failures: 0..MaxFailures]
  <2>1. Fail \/ count' = count
    BY DEF AddNote, CutShort
  <2> QED
    BY <1>0, <2>1, FailTyped
<1>5. UNCHANGED <<issues, status, embedded, index, pod, inbox, worker>>
  BY DEF AddNote, CutShort, rows, vectors, pods
<1> QED
  BY <1>0, <1>1, <1>2, <1>3, <1>4, <1>5
     DEF Typed, StoreTypeOK, RowsTyped, PodsTyped, MissingInserted

\* The pods act on their own part of the state; what is left to show of each step
\* is the types there.
LEMMA PodFrame ==
    ASSUME Typed, UNCHANGED <<rows, writer, torn>>, Fail \/ count' = count,
           PodsTyped', MissingInserted'
    PROVE  Typed'
<1>0. RowsTyped /\ NotesInserted
  BY TypeOKParts DEF Typed
<1>1. count' \in [updates: 0..MaxUpdates, failures: 0..MaxFailures]
  BY <1>0, FailTyped
<1>2. RowsTyped' /\ NotesInserted'
  BY <1>0, <1>1 DEF RowsTyped, NotesInserted, rows
<1> QED
  BY <1>2 DEF Typed, StoreTypeOK, RowsTyped, PodsTyped

\* The steps of the backfill keep the types of the pods.
LEMMA BackfillTyped ==
    ASSUME Typed, NEW p \in Pods, Backfill(p) \/ FailBackfill(p) \/ FailIndex(p)
    PROVE  PodsTyped' /\ MissingInserted'
<1>0. RowsTyped /\ PodsTyped /\ MissingInserted
  BY TypeOKParts DEF Typed
<1>1. CASE StartPod(p)
  BY <1>0, <1>1, KindsTyped DEF StartPod, rows, vectors, PodsTyped, MissingInserted
<1>2. CASE WakeWorker(p)
  BY <1>0, <1>2, KindsTyped DEF WakeWorker, rows, vectors, PodsTyped, MissingInserted
<1>3. CASE SelectMissing(p)
  <2>1. issues \ embedded \in SUBSET Issues
    BY <1>0 DEF RowsTyped
  <2>2. worker' \in [Pods -> WorkerStates] /\ MissingInserted'
    BY <1>0, <1>3, <2>1, KindsTyped DEF SelectMissing, PodsTyped, MissingInserted, rows
  <2> QED
    BY <1>0, <1>3, <2>2 DEF SelectMissing, rows, vectors, PodsTyped
<1>4. CASE UpdateMissing(p)
  <2>1. worker[p].missing \subseteq issues
    BY <1>0, <1>4 DEF UpdateMissing, Working, MissingInserted
  <2>2. inbox' \in [Pods -> SUBSET issues]
    BY <1>0, <1>4, <2>1, NotifiedTyped DEF UpdateMissing, PodsTyped
  <2> QED
    BY <1>0, <1>4, <2>1, <2>2, KindsTyped
       DEF UpdateMissing, rows, PodsTyped, MissingInserted
<1>5. CASE FailBackfill(p)
  BY <1>0, <1>5, KindsTyped DEF FailBackfill, rows, vectors, PodsTyped, MissingInserted
<1>6. CASE BuildIndex(p) \/ FailIndex(p)
  <2>0. EndBackfill(p)
    BY <1>6 DEF BuildIndex, FailIndex
  <2>1. index' \in BOOLEAN
    BY <1>0, <1>6 DEF BuildIndex, FailIndex, IndexAfter, PodsTyped
  <2>2. worker' \in [Pods -> WorkerStates] /\ MissingInserted'
    BY <1>0, <2>0, KindsTyped DEF EndBackfill, Asleep, PodsTyped, MissingInserted, rows
  <2>3. pod' \in [Pods -> {"stopped", "starting", "deaf", "listening"}]
    BY <1>0, <2>0 DEF EndBackfill, PodsTyped
  <2> QED
    BY <1>0, <2>0, <2>1, <2>2, <2>3 DEF EndBackfill, rows, PodsTyped
<1> QED
  BY <1>1, <1>2, <1>3, <1>4, <1>5, <1>6 DEF Backfill

\* So do those of the listener, and the pod's failures.
LEMMA ListenerTyped ==
    ASSUME Typed, NEW p \in Pods, Listener(p) \/ LoseConnection(p) \/ StopPod(p)
    PROVE  PodsTyped' /\ MissingInserted'
<1>0. RowsTyped /\ PodsTyped /\ MissingInserted
  BY TypeOKParts DEF Typed
<1>1. CASE Listen(p)
  BY <1>0, <1>1 DEF Listen, rows, vectors, PodsTyped, MissingInserted
<1>2. CASE HandleNotification(p)
  BY <1>0, <1>2 DEF HandleNotification, EmbedOne, rows, PodsTyped, MissingInserted
<1>3. CASE LoseConnection(p)
  BY <1>0, <1>3 DEF LoseConnection, rows, vectors, PodsTyped, MissingInserted
<1>4. CASE StopPod(p)
  <2>1. worker' \in [Pods -> WorkerStates] /\ MissingInserted'
    BY <1>0, <1>4, KindsTyped DEF StopPod, Asleep, PodsTyped, MissingInserted, rows
  <2> QED
    BY <1>0, <1>4, <2>1 DEF StopPod, rows, vectors, PodsTyped
<1> QED
  BY <1>1, <1>2, <1>3, <1>4 DEF Listener

\* Every step of a pod keeps the types.
LEMMA PodTyped ==
    ASSUME Typed, NEW p \in Pods,
           \/ Backfill(p) \/ FailBackfill(p) \/ FailIndex(p) \/ Listener(p)
           \/ LoseConnection(p) \/ StopPod(p)
    PROVE  Typed' /\ UNCHANGED <<rows, writer, torn>>
<1>1. UNCHANGED <<rows, writer, torn>> /\ (Fail \/ count' = count)
  BY DEF Backfill, StartPod, WakeWorker, SelectMissing, UpdateMissing, BuildIndex,
     FailBackfill, FailIndex, EndBackfill, Listener, Listen, HandleNotification, LoseConnection, StopPod
<1>2. PodsTyped' /\ MissingInserted'
  BY BackfillTyped, ListenerTyped
<1> QED
  BY <1>1, <1>2, PodFrame

\* Every step keeps the types.
LEMMA NextTyped ==
    ASSUME Typed, [StoreNext]_storeVars
    PROVE  Typed'
<1>1. CASE UNCHANGED storeVars
  BY <1>1 DEF storeVars, rows, vectors, pods, Typed, StoreTypeOK, MissingInserted, NotesInserted
<1> QED
  BY <1>1, InsertTyped, UpdateTyped, NoteTyped, PodTyped DEF StoreNext

\* The rows, the requests and the pods keep their types.
THEOREM StoreTypeCorrect == StoreSpec => []StoreTypeOK
<1>1. Typed /\ [StoreNext]_storeVars => Typed'
  BY NextTyped
<1>2. Typed => StoreTypeOK
  BY DEF Typed
<1> QED
  BY StoreInitTyped, <1>1, <1>2, PTL DEF StoreSpec

-----------------------------------------------------------------------------
(* IssueStore: the history *)

\* Of an issue that is not torn at most one request has yet to write its note,
\* which will be of the status the issue has; without one, the note is there.
HistoryInv ==
    \A i \in Issues : i \notin torn =>
        /\ \A w \in Pending(i) : writer[w].status = status[i]
        /\ \A v, w \in Pending(i) : v = w
        /\ Pending(i) = {} => noted[i] = status[i]

\* Nothing is pending at first, and each issue has the status it was inserted with.
LEMMA InitHistory == StoreInit => HistoryInv
<1> SUFFICES ASSUME StoreInit PROVE HistoryInv
  OBVIOUS
<1>1. \A w \in Writers : writer[w].at = "idle"
  BY DEF StoreInit, IdleWriter
<1>2. noted = status
  BY DEF StoreInit
<1> QED
  BY <1>1, <1>2 DEF HistoryInv, Pending

\* An update of an issue that another is about to note tears it; the next one,
\* alone, mends it.
LEMMA UpdateHistory ==
    ASSUME Typed, HistoryInv, NEW w \in Writers, NEW i \in Issues, NEW s \in Statuses,
           UpdateStatus(w, i, s)
    PROVE  HistoryInv'
<1>0. status \in [Issues -> Statuses] /\ writer \in [Writers -> WriterStates]
  BY DEF Typed, StoreTypeOK
<1>1. /\ status' = [status EXCEPT ![i] = s]
      /\ writer' = [writer EXCEPT ![w] = [at |-> "note", issue |-> i, status |-> s]]
      /\ torn' = IF Pending(i) = {} THEN torn \ {i} ELSE torn \cup {i}
      /\ noted' = noted
      /\ writer[w].at = "idle"
  BY DEF UpdateStatus
<1>2. Pending(i)' = Pending(i) \cup {w}
  BY <1>0, <1>1 DEF Pending
<1>3. \A j \in Issues \ {i} : Pending(j)' = Pending(j)
  BY <1>0, <1>1 DEF Pending
<1>4. ASSUME NEW j \in Issues, j \notin torn', j # i
      PROVE  /\ \A v \in Pending(j)' : writer'[v].status = status'[j]
             /\ \A u, v \in Pending(j)' : u = v
             /\ Pending(j)' = {} => noted'[j] = status'[j]
  <2>1. j \notin torn /\ Pending(j)' = Pending(j) /\ status'[j] = status[j]
    BY <1>0, <1>1, <1>3, <1>4
  <2>2. \A v \in Pending(j) : writer'[v] = writer[v]
    BY <1>0, <1>1 DEF Pending
  <2> QED
    BY <1>1, <2>1, <2>2 DEF HistoryInv
<1>5. ASSUME i \notin torn'
      PROVE  /\ \A v \in Pending(i)' : writer'[v].status = status'[i]
             /\ \A u, v \in Pending(i)' : u = v
             /\ Pending(i)' = {} => noted'[i] = status'[i]
  <2>1. Pending(i)' = {w}
    BY <1>1, <1>2, <1>5
  <2> QED
    BY <1>0, <1>1, <2>1
<1> QED
  BY <1>4, <1>5 DEF HistoryInv

\* A note ends the wait of its request; a request cut short tears its issue.
LEMMA NoteHistory ==
    ASSUME Typed, HistoryInv, NEW w \in Writers, AddNote(w) \/ CutShort(w)
    PROVE  HistoryInv'
<1>0. /\ noted \in [Issues -> Statuses] /\ writer \in [Writers -> WriterStates]
      /\ writer[w].at = "note" /\ writer[w].issue \in Issues
  BY KindsTyped DEF Typed, StoreTypeOK, AddNote, CutShort
<1> PICK i \in Issues : i = writer[w].issue
  BY <1>0
<1>1. /\ writer' = [writer EXCEPT ![w] = [at |-> "idle"]]
      /\ status' = status
      /\ AddNote(w) => noted' = [noted EXCEPT ![i] = writer[w].status] /\ torn' = torn
      /\ CutShort(w) => noted' = noted /\ torn' = torn \cup {i}
  BY DEF AddNote, CutShort, IdleWriter, NoteOf, rows
<1>2. \A j \in Issues : Pending(j)' = Pending(j) \ {w}
  BY <1>0, <1>1 DEF Pending
<1>3. w \in Pending(i) /\ \A j \in Issues \ {i} : w \notin Pending(j)
  BY <1>0 DEF Pending
<1>4. \A j \in Issues : \A v \in Pending(j)' : writer'[v] = writer[v]
  BY <1>0, <1>1, <1>2 DEF Pending
<1>5. ASSUME NEW j \in Issues, j \notin torn', j # i
      PROVE  /\ \A v \in Pending(j)' : writer'[v].status = status'[j]
             /\ \A u, v \in Pending(j)' : u = v
             /\ Pending(j)' = {} => noted'[j] = status'[j]
  <2>1. j \notin torn /\ Pending(j)' = Pending(j) /\ noted'[j] = noted[j]
    BY <1>0, <1>1, <1>2, <1>3, <1>5 DEF Pending
  <2> QED
    BY <1>1, <1>4, <2>1 DEF HistoryInv
<1>6. ASSUME i \notin torn'
      PROVE  /\ \A v \in Pending(i)' : writer'[v].status = status'[i]
             /\ \A u, v \in Pending(i)' : u = v
             /\ Pending(i)' = {} => noted'[i] = status'[i]
  <2>1. AddNote(w) /\ i \notin torn
    BY <1>1, <1>6
  <2>2. writer[w].status = status[i] /\ Pending(i)' = {}
    BY <1>0, <1>2, <1>3, <2>1 DEF HistoryInv
  <2>3. noted'[i] = writer[w].status
    BY <1>0, <1>1, <2>1
  <2> QED
    BY <1>1, <2>2, <2>3
<1> QED
  BY <1>0, <1>5, <1>6 DEF HistoryInv

\* Every step keeps the invariant of the history.
LEMMA NextHistory ==
    ASSUME Typed, HistoryInv, [StoreNext]_storeVars
    PROVE  HistoryInv'
<1>1. CASE UNCHANGED <<status, noted, writer, torn>>
  BY <1>1 DEF HistoryInv, Pending
<1>2. CASE \E i \in Issues : InsertIssue(i)
  BY <1>1, <1>2 DEF InsertIssue
<1>3. CASE \E p \in Pods : \/ Backfill(p) \/ FailBackfill(p) \/ FailIndex(p) \/ Listener(p)
                           \/ LoseConnection(p) \/ StopPod(p)
  BY <1>1, <1>3, PodTyped DEF rows
<1>4. CASE UNCHANGED storeVars
  BY <1>1, <1>4 DEF storeVars, rows
<1> QED
  BY <1>2, <1>3, <1>4, UpdateHistory, NoteHistory DEF StoreNext

\* The history of an issue ends with its status, but for the named exceptions,
\* in every interleaving of any number of updates.
THEOREM HistoryKept == StoreSpec => []StatusNoted
<1>1. StoreInit => Typed /\ HistoryInv
  BY StoreInitTyped, InitHistory
<1>2. Typed /\ HistoryInv /\ [StoreNext]_storeVars => Typed' /\ HistoryInv'
  BY NextTyped, NextHistory
<1>3. Typed /\ HistoryInv => StatusNoted
  BY DEF Typed, StoreTypeOK, HistoryInv, StatusNoted
<1> QED
  BY <1>1, <1>2, <1>3, PTL DEF StoreSpec

=============================================================================
