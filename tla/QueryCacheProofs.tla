-------------------------- MODULE QueryCacheProofs --------------------------
(***************************************************************************)
(* Proofs about QueryCache for any tabs, users, views and requests and any *)
(* bound on entries and changes.                                           *)
(*                                                                         *)
(* The argument: what is registered in inFlight is a fetchWithCache        *)
(* request of that tab and key, called after the tab last dropped its      *)
(* cache. Whatever may have changed the data or the user since then either *)
(* dropped the registration or is still waiting to be heard, so an answer  *)
(* that is stored is as recent, and as much the user's own, as the entries *)
(* the tab may keep. An answer that lost its registration is not stored.   *)
(***************************************************************************)
EXTENDS QueryCache, FiniteSetTheorems, TLAPS

(******************************** the invariant ****************************)

\* Data of version n, shown by a tab, is not older than a write the tab was told of, by an
\* answer of its own or by an invalidation it has heard.
Fresh(t, n) ==
    /\ n >= acked[t]
    /\ channel[t] /\ ~mail[t] => \A s \in Tabs : n >= acked[s]

\* A tab that has heard of every change of user has data of the signed-in user.
Own(t, u) == switching[t] = 0 => u = session

Writing == {r \in Requests : req[r].pc = "write"}

Shapes ==
    /\ session \in Identities /\ rendered \in [Tabs -> Identities]
    /\ switching \in [Tabs -> Nat]
    /\ channel \in [Tabs -> BOOLEAN] /\ mail \in [Tabs -> BOOLEAN]
    /\ req \in [Requests -> {Idle} \cup Reads \cup Writes]
    /\ inFlight \in [Tabs -> [Keys -> Requests \cup {NoRequest}]]
    /\ latest \in [Tabs -> [Views -> Requests \cup {NoRequest}]]
    /\ cache \in [Tabs -> SUBSET Entries]

\* Every write and every change of user is one of the changes counted.
Counts ==
    /\ server \in Nat /\ changes \in 0 .. MaxChanges /\ acked \in [Tabs -> Versions]
    /\ \A t \in Tabs : switching[t] <= changes /\ acked[t] <= server
    /\ server + Cardinality(Writing) <= changes
    /\ \A r \in Requests : req[r].pc \in {"answered", "wrote"} => req[r].version <= server

Bounded ==
    \A t \in Tabs :
        /\ IsFiniteSet(cache[t]) /\ Cardinality(cache[t]) <= MaxEntries
        /\ \A e, f \in cache[t] : e.key = f.key => e = f

Cached ==
    \A t \in Tabs : \A e \in cache[t] :
        /\ e.version <= server
        /\ e.via = "fetch" => Fresh(t, e.version) /\ Own(t, e.owner)

\* What is registered as under way for a key of a tab.
Registered(t, k, q) ==
    /\ q.pc \in {"called", "sent", "answered"} /\ q.via = "fetch" /\ q.tab = t /\ q.key = k
    /\ q.pc \in {"sent", "answered"} => Own(t, q.as)
    /\ q.pc = "answered" =>
          /\ Fresh(t, q.version)
          /\ \A e \in cache[t] : e.key = k /\ e.via = "fetch" => q.version >= e.version

UnderWay ==
    \A t \in Tabs, k \in Keys :
        inFlight[t][k] # NoRequest => Registered(t, k, req[inFlight[t][k]])

Inv == Shapes /\ Counts /\ Bounded /\ Cached /\ UnderWay

(******************************** the records ******************************)

LEMMA Kinds ==
    ASSUME NEW q \in {Idle} \cup Reads \cup Writes
    PROVE  /\ q.pc \in {"idle", "called", "sent", "answered", "write", "wrote"}
           /\ q.pc = "idle" <=> q = Idle
           /\ q # Idle => q.tab \in Tabs
           /\ q.pc \in {"called", "sent", "answered"} => q.key \in Keys /\ q.via \in {"fetch", "screen"}
           /\ q.pc \in {"sent", "answered"} => q.as \in Users
           /\ q.pc \in {"answered", "wrote"} => q.version \in Versions
BY DEF Idle, Reads, Writes

LEMMA Called ==
    ASSUME NEW t \in Tabs, NEW k \in Keys, NEW via \in {"fetch", "screen"}
    PROVE  [pc |-> "called", tab |-> t, key |-> k, via |-> via] \in Reads
BY DEF Reads

LEMMA Sent ==
    ASSUME NEW t \in Tabs, NEW k \in Keys, NEW via \in {"fetch", "screen"}, NEW u \in Users
    PROVE  [pc |-> "sent", tab |-> t, key |-> k, via |-> via, as |-> u] \in Reads
BY DEF Reads

LEMMA Answered ==
    ASSUME NEW t \in Tabs, NEW k \in Keys, NEW via \in {"fetch", "screen"}, NEW u \in Users,
           NEW n \in Versions
    PROVE  [pc |-> "answered", tab |-> t, key |-> k, via |-> via, as |-> u, version |-> n] \in Reads
BY DEF Reads

\* An answered request makes an entry of the cache.
LEMMA EntryKind ==
    ASSUME NEW q \in {Idle} \cup Reads \cup Writes, q.pc = "answered"
    PROVE  /\ EntryOf(q) \in Entries /\ EntryOf(q).key = q.key /\ EntryOf(q).owner = q.as
           /\ EntryOf(q).version = q.version /\ EntryOf(q).via = q.via
BY Kinds DEF EntryOf, Entries

LEMMA KeyKind == \A t \in Tabs, v \in Views : Shapes => <<rendered[t], v>> \in Keys
BY DEF Shapes, Keys

LEMMA NumberKinds ==
    ASSUME Inv
    PROVE  /\ server \in Nat /\ changes \in Nat /\ changes <= MaxChanges /\ MaxChanges \in Nat
           /\ IsFiniteSet(Writing) /\ Cardinality(Writing) \in Nat /\ server <= changes
           /\ server \in Versions
           /\ \A t \in Tabs : acked[t] \in Nat /\ switching[t] \in Nat
           /\ \A t \in Tabs : \A e \in cache[t] : e \in Entries /\ e.version \in Nat
           /\ \A r \in Requests : req[r] \in {Idle} \cup Reads \cup Writes
<1>1. IsFiniteSet(Writing) /\ Cardinality(Writing) \in Nat
  <2>1. Writing \subseteq Requests
    BY DEF Writing
  <2> QED BY <2>1, BoundAssumption, FS_Subset, FS_CardinalityType
<1>2. server \in Nat /\ changes \in 0 .. MaxChanges /\ MaxChanges \in Nat
      /\ server + Cardinality(Writing) <= changes
  BY BoundAssumption DEF Inv, Counts
<1>3. \A t \in Tabs : acked[t] \in Nat /\ switching[t] \in Nat
  BY <1>2 DEF Inv, Counts, Shapes, Versions
<1>4. \A t \in Tabs : \A e \in cache[t] : e \in Entries /\ e.version \in Nat
  BY <1>2 DEF Inv, Shapes, Entries, Versions
<1> QED BY <1>1, <1>2, <1>3, <1>4 DEF Inv, Shapes, Versions

(************************** what a step leaves alone ***********************)

Unheard == UNCHANGED <<session, switching, channel, mail, acked>>

LEMMA Smaller ==
    ASSUME Inv, \A t \in Tabs : cache'[t] \subseteq cache[t]
    PROVE  Bounded'
<1> SUFFICES ASSUME NEW t \in Tabs
             PROVE  /\ IsFiniteSet(cache'[t]) /\ Cardinality(cache'[t]) <= MaxEntries
                    /\ \A e, f \in cache'[t] : e.key = f.key => e = f
  BY DEF Bounded
<1>1. /\ cache'[t] \subseteq cache[t] /\ IsFiniteSet(cache[t]) /\ Cardinality(cache[t]) <= MaxEntries
      /\ \A e, f \in cache[t] : e.key = f.key => e = f
  BY DEF Inv, Bounded
<1>2. IsFiniteSet(cache'[t]) /\ Cardinality(cache'[t]) <= Cardinality(cache[t])
  BY <1>1, FS_Subset
<1>3. Cardinality(cache[t]) \in Nat /\ Cardinality(cache'[t]) \in Nat /\ MaxEntries \in Nat
  BY <1>1, <1>2, FS_CardinalityType, BoundAssumption
<1> QED BY <1>1, <1>2, <1>3

LEMMA CachedKept ==
    ASSUME Inv, Unheard, server' \in {server, server + 1},
           \A t \in Tabs : cache'[t] \subseteq cache[t]
    PROVE  Cached'
<1> SUFFICES ASSUME NEW t \in Tabs, NEW e \in cache'[t]
             PROVE  /\ e.version <= server'
                    /\ e.via = "fetch" => Fresh(t, e.version)' /\ Own(t, e.owner)'
  BY DEF Cached
<1>1. e \in cache[t] /\ e.version \in Nat /\ server \in Nat
  BY NumberKinds
<1>2. e.version <= server /\ (e.via = "fetch" => Fresh(t, e.version) /\ Own(t, e.owner))
  BY <1>1 DEF Inv, Cached
<1> QED BY <1>1, <1>2 DEF Fresh, Own, Unheard

\* A registration that is not touched stays good while nothing is heard and nothing new cached.
LEMMA UnderWayKept ==
    ASSUME Inv, Unheard, NEW t \in Tabs, NEW k \in Keys,
           \A e \in cache'[t] : e \in cache[t] \/ e.key # k \/ e.via # "fetch",
           inFlight'[t][k] = inFlight[t][k],
           inFlight[t][k] # NoRequest, req'[inFlight[t][k]] = req[inFlight[t][k]]
    PROVE  Registered(t, k, req[inFlight[t][k]])'
<1> DEFINE r == inFlight[t][k]
<1>1. Registered(t, k, req[r])
  BY DEF Inv, UnderWay
<1>2. r' = r /\ req'[r] = req[r]
  OBVIOUS
<1> QED BY <1>1, <1>2 DEF Registered, Fresh, Own, Unheard

LEMMA CountsKept ==
    ASSUME Inv, server' = server, changes' \in {changes, changes + 1}, changes' <= MaxChanges,
           acked' \in [Tabs -> Versions],
           \A t \in Tabs : switching'[t] <= changes' /\ acked'[t] <= server,
           \A r \in Requests :
              \/ req'[r] = req[r]
              \/ /\ req'[r].pc # "write"
                 /\ req'[r].pc \in {"answered", "wrote"} => req'[r].version <= server
    PROVE  Counts'
<1>1. Writing' \subseteq Writing
  BY DEF Writing
<1>2. IsFiniteSet(Writing) /\ Cardinality(Writing) \in Nat /\ server \in Nat /\ changes \in Nat
      /\ MaxChanges \in Nat
  BY NumberKinds
<1>3. Cardinality(Writing') \in Nat /\ Cardinality(Writing') <= Cardinality(Writing)
  BY <1>1, <1>2, FS_Subset, FS_CardinalityType
<1>4. server + Cardinality(Writing) <= changes
  BY DEF Inv, Counts
<1>5. \A r \in Requests : req'[r].pc \in {"answered", "wrote"} => req'[r].version <= server
  BY DEF Inv, Counts
<1>6. server + Cardinality(Writing') <= changes' /\ changes' \in 0 .. MaxChanges
  BY <1>2, <1>3, <1>4
<1> QED BY <1>2, <1>5, <1>6 DEF Counts

(********************************** reads **********************************)

LEMMA FetchStep ==
    ASSUME Inv, NEW t \in Tabs, NEW v \in Views, NEW r \in Requests, NEW force \in BOOLEAN,
           FetchWithCache(t, v, r, force)
    PROVE  Inv'
<1> DEFINE k == <<rendered[t], v>>
           q == [pc |-> "called", tab |-> t, key |-> k, via |-> "fetch"]
<1>1. k \in Keys /\ Shapes
  BY KeyKind DEF Inv
<1>2. q \in Reads /\ q.pc = "called" /\ q.tab = t /\ q.key = k /\ q.via = "fetch"
  BY <1>1, Called
<1>3. /\ req[r] = Idle /\ req' = [req EXCEPT ![r] = q]
      /\ inFlight' = [inFlight EXCEPT ![t][k] = r]
      /\ cache' = [cache EXCEPT ![t] = {e \in @ : force \/ e.key # k}]
      /\ UNCHANGED <<session, rendered, switching, latest, channel, mail, server, acked, changes>>
  BY DEF FetchWithCache
<1> HIDE DEF k, q
<1>4. /\ \A s \in Tabs : cache'[s] \subseteq cache[s]
      /\ cache' \in [Tabs -> SUBSET Entries]
  BY <1>1, <1>3 DEF Shapes
<1>5. /\ req' \in [Requests -> {Idle} \cup Reads \cup Writes] /\ req'[r] = q
      /\ \A x \in Requests \ {r} : req'[x] = req[x]
  BY <1>1, <1>2, <1>3 DEF Shapes
<1>6. /\ inFlight' \in [Tabs -> [Keys -> Requests \cup {NoRequest}]] /\ inFlight'[t][k] = r
      /\ \A s \in Tabs, j \in Keys : inFlight'[s][j] = inFlight[s][j] \/ (s = t /\ j = k)
  BY <1>1, <1>3 DEF Shapes
<1>7. Shapes'
  BY <1>1, <1>3, <1>4, <1>5, <1>6 DEF Shapes
<1>8. Counts'
  BY <1>2, <1>3, <1>5, NumberKinds, CountsKept DEF Inv, Counts
<1>9. Bounded' /\ Cached'
  BY <1>3, <1>4, Smaller, CachedKept DEF Unheard
<1>10. ASSUME NEW s \in Tabs, NEW j \in Keys, inFlight'[s][j] # NoRequest
       PROVE  Registered(s, j, req[inFlight[s][j]])'
  <2>1. CASE s = t /\ j = k
    <3>1. req'[inFlight'[s][j]] = q
      BY <1>5, <1>6, <2>1
    <3> QED BY <1>2, <2>1, <3>1 DEF Registered
  <2>2. CASE ~(s = t /\ j = k)
    <3>1. inFlight'[s][j] = inFlight[s][j] /\ inFlight[s][j] # NoRequest /\ inFlight[s][j] \in Requests
      BY <1>1, <1>6, <1>10, <2>2 DEF Shapes
    <3>2. inFlight[s][j] # r
      BY <1>3, <3>1 DEF Inv, UnderWay, Registered, Idle
    <3>3. req'[inFlight[s][j]] = req[inFlight[s][j]]
      BY <1>5, <3>1, <3>2
    <3>4. Registered(s, j, req[inFlight[s][j]])'
      BY <1>3, <1>4, <3>1, <3>3, UnderWayKept DEF Unheard
    <3> QED BY <3>4
  <2> QED BY <2>1, <2>2
<1> QED BY <1>7, <1>8, <1>9, <1>10 DEF Inv, UnderWay

\* A step that touches one request that is not registered, and neither caches nor hears.
LEMMA AsideStep ==
    ASSUME Inv, Unheard, UNCHANGED <<cache, inFlight, server>>, Shapes', Counts', NEW r \in Requests,
           \A x \in Requests \ {r} : req'[x] = req[x],
           \A t \in Tabs, k \in Keys : inFlight[t][k] # r
    PROVE  Inv'
<1>1. Bounded' /\ Cached'
  BY Smaller, CachedKept
<1>2. ASSUME NEW s \in Tabs, NEW j \in Keys, inFlight'[s][j] # NoRequest
      PROVE  Registered(s, j, req[inFlight[s][j]])'
  <2>1. inFlight[s][j] \in Requests \ {r}
    BY <1>2 DEF Inv, Shapes
  <2>2. req'[inFlight[s][j]] = req[inFlight[s][j]]
    BY <2>1
  <2> QED BY <1>2, <2>2, UnderWayKept
<1> QED BY <1>1, <1>2 DEF Inv, UnderWay

\* Only a fetchWithCache request, and only for its own tab and key, is registered.
LEMMA RegisteredOwn ==
    ASSUME Inv, NEW t \in Tabs, NEW k \in Keys, NEW r \in Requests, inFlight[t][k] = r
    PROVE  /\ req[r].pc \in {"called", "sent", "answered"} /\ req[r].via = "fetch"
           /\ req[r].tab = t /\ req[r].key = k /\ Registered(t, k, req[r])
<1>1. Registered(t, k, req[r])
  BY IdentityAssumption DEF Inv, UnderWay
<1> QED BY <1>1 DEF Registered

LEMMA ScreenStep ==
    ASSUME Inv, NEW t \in Tabs, NEW v \in Views, NEW r \in Requests, NEW force \in BOOLEAN,
           ScreenLoad(t, v, r, force)
    PROVE  Inv'
<1> DEFINE k == <<rendered[t], v>>
           q == [pc |-> "called", tab |-> t, key |-> k, via |-> "screen"]
<1>1. k \in Keys /\ Shapes
  BY KeyKind DEF Inv
<1>2. q \in Reads /\ q.pc = "called"
  BY <1>1, Called
<1>3. /\ req[r] = Idle /\ req' = [req EXCEPT ![r] = q]
      /\ latest' = [latest EXCEPT ![t][v] = r]
      /\ UNCHANGED <<session, rendered, switching, cache, inFlight, channel, mail, server, acked, changes>>
  BY DEF ScreenLoad
<1> HIDE DEF k, q
<1>4. /\ req' \in [Requests -> {Idle} \cup Reads \cup Writes] /\ req'[r] = q
      /\ \A x \in Requests \ {r} : req'[x] = req[x]
  BY <1>1, <1>2, <1>3 DEF Shapes
<1>5. latest' \in [Tabs -> [Views -> Requests \cup {NoRequest}]]
  BY <1>1, <1>3 DEF Shapes
<1>6. Shapes'
  BY <1>1, <1>3, <1>4, <1>5 DEF Shapes
<1>7. Counts'
  BY <1>2, <1>3, <1>4, NumberKinds, CountsKept DEF Inv, Counts
<1>8. \A s \in Tabs, j \in Keys : inFlight[s][j] # r
  BY <1>3, RegisteredOwn DEF Idle
<1> QED BY <1>3, <1>4, <1>6, <1>7, <1>8, AsideStep DEF Unheard

LEMMA SendStep ==
    ASSUME Inv, NEW r \in Requests, Send(r)
    PROVE  Inv'
<1> DEFINE q == [pc |-> "sent", tab |-> req[r].tab, key |-> req[r].key, via |-> req[r].via, as |-> session]
<1>1. /\ req[r].pc = "called" /\ session # Anon /\ req' = [req EXCEPT ![r] = q]
      /\ UNCHANGED <<session, rendered, switching, cache, inFlight, latest, channel, mail, server,
                     acked, changes>>
  BY DEF Send
<1>2. Shapes /\ session \in Users /\ req[r] \in {Idle} \cup Reads \cup Writes
  BY <1>1 DEF Inv, Shapes, Identities
<1>3. req[r].tab \in Tabs /\ req[r].key \in Keys /\ req[r].via \in {"fetch", "screen"}
  BY <1>1, <1>2, Kinds DEF Idle
<1>4. /\ q \in Reads /\ q.pc = "sent" /\ q.as = session /\ q.tab = req[r].tab /\ q.key = req[r].key
      /\ q.via = req[r].via
  BY <1>2, <1>3, Sent
<1> HIDE DEF q
<1>5. /\ req' \in [Requests -> {Idle} \cup Reads \cup Writes] /\ req'[r] = q
      /\ \A x \in Requests \ {r} : req'[x] = req[x]
  BY <1>1, <1>2, <1>4 DEF Shapes
<1>6. Shapes'
  BY <1>1, <1>2, <1>5 DEF Shapes
<1>7. Counts'
  BY <1>1, <1>4, <1>5, NumberKinds, CountsKept DEF Inv, Counts
<1>8. Bounded' /\ Cached'
  BY <1>1, Smaller, CachedKept DEF Unheard
<1>9. ASSUME NEW s \in Tabs, NEW j \in Keys, inFlight'[s][j] # NoRequest
      PROVE  Registered(s, j, req[inFlight[s][j]])'
  <2>1. inFlight[s][j] \in Requests /\ inFlight'[s][j] = inFlight[s][j]
    BY <1>1, <1>2, <1>9 DEF Shapes
  <2>2. CASE inFlight[s][j] = r
    <3>1. req[r].via = "fetch" /\ req[r].tab = s /\ req[r].key = j
      BY <2>2, RegisteredOwn
    <3>2. req'[inFlight'[s][j]] = q /\ session' = session
      BY <1>1, <1>5, <2>1, <2>2
    <3> QED BY <1>4, <3>1, <3>2 DEF Registered, Own
  <2>3. CASE inFlight[s][j] # r
    <3>1. req'[inFlight[s][j]] = req[inFlight[s][j]]
      BY <1>5, <2>1, <2>3
    <3> QED BY <1>1, <1>9, <2>1, <3>1, UnderWayKept DEF Unheard
  <2> QED BY <2>2, <2>3
<1> QED BY <1>6, <1>7, <1>8, <1>9 DEF Inv, UnderWay

LEMMA AnswerStep ==
    ASSUME Inv, NEW r \in Requests, Answer(r)
    PROVE  Inv'
<1> DEFINE q == [pc |-> "answered", tab |-> req[r].tab, key |-> req[r].key, via |-> req[r].via,
                 as |-> req[r].as, version |-> server]
<1>1. /\ req[r].pc = "sent" /\ req' = [req EXCEPT ![r] = q]
      /\ UNCHANGED <<session, rendered, switching, cache, inFlight, latest, channel, mail, server,
                     acked, changes>>
  BY DEF Answer
<1>2. Shapes /\ req[r] \in {Idle} \cup Reads \cup Writes /\ server \in Versions /\ server \in Nat
  BY NumberKinds DEF Inv
<1>3. /\ req[r].tab \in Tabs /\ req[r].key \in Keys /\ req[r].via \in {"fetch", "screen"}
      /\ req[r].as \in Users
  BY <1>1, <1>2, Kinds DEF Idle
<1>4. /\ q \in Reads /\ q.pc = "answered" /\ q.as = req[r].as /\ q.tab = req[r].tab
      /\ q.key = req[r].key /\ q.via = req[r].via /\ q.version = server
  BY <1>2, <1>3, Answered
<1> HIDE DEF q
<1>5. /\ req' \in [Requests -> {Idle} \cup Reads \cup Writes] /\ req'[r] = q
      /\ \A x \in Requests \ {r} : req'[x] = req[x]
  BY <1>1, <1>2, <1>4 DEF Shapes
<1>6. Shapes'
  BY <1>1, <1>2, <1>5 DEF Shapes
<1>7. Counts'
  BY <1>1, <1>2, <1>4, <1>5, NumberKinds, CountsKept DEF Inv, Counts
<1>8. Bounded' /\ Cached'
  BY <1>1, Smaller, CachedKept DEF Unheard
<1>9. ASSUME NEW s \in Tabs, NEW j \in Keys, inFlight'[s][j] # NoRequest
      PROVE  Registered(s, j, req[inFlight[s][j]])'
  <2>1. inFlight[s][j] \in Requests /\ inFlight'[s][j] = inFlight[s][j]
    BY <1>1, <1>2, <1>9 DEF Shapes
  <2>2. CASE inFlight[s][j] = r
    <3>1. req[r].via = "fetch" /\ req[r].tab = s /\ req[r].key = j /\ Own(s, req[r].as)
      BY <1>1, <2>2, RegisteredOwn DEF Registered
    <3>2. req'[inFlight'[s][j]] = q
      BY <1>5, <2>1, <2>2
    <3>3. Fresh(s, server) /\ \A e \in cache[s] : server >= e.version
      BY <1>2, NumberKinds DEF Inv, Counts, Cached, Fresh
    <3>4. Fresh(s, server)' /\ (\A e \in cache'[s] : server >= e.version) /\ Own(s, req[r].as)'
      <4>1. Own(s, req[r].as)'
        <5>1. req'[r].as = req[r].as
          BY <1>4, <1>5
        <5> QED BY <1>1, <3>1, <5>1 DEF Own
      <4> QED BY <1>1, <3>3, <4>1 DEF Fresh
    <3>5. req'[r].as = q.as
      BY <1>5
    <3> QED BY <1>1, <1>4, <3>1, <3>2, <3>4, <3>5 DEF Registered
  <2>3. CASE inFlight[s][j] # r
    <3>1. req'[inFlight[s][j]] = req[inFlight[s][j]]
      BY <1>5, <2>1, <2>3
    <3> QED BY <1>1, <1>9, <2>1, <3>1, UnderWayKept DEF Unheard
  <2> QED BY <2>2, <2>3
<1> QED BY <1>6, <1>7, <1>8, <1>9 DEF Inv, UnderWay

\* Storing an entry keeps the cache within its bound, with one entry per key.
LEMMA Stored ==
    ASSUME Inv, NEW t \in Tabs, NEW e \in Entries, SetCached(t, e)
    PROVE  /\ cache' \in [Tabs -> SUBSET Entries] /\ Bounded'
           /\ \A s \in Tabs : \A f \in cache'[s] : f \in cache[s] \/ (s = t /\ f = e)
           /\ \A f \in cache'[t] : f.key = e.key => f = e
<1> DEFINE others == {f \in cache[t] : f.key # e.key}
<1>1. PICK gone \in SUBSET others :
          /\ Cardinality(others \ gone) < MaxEntries
          /\ cache' = [cache EXCEPT ![t] = (others \ gone) \cup {e}]
  BY DEF SetCached
<1> DEFINE kept == others \ gone
<1>2. /\ kept \subseteq cache[t] /\ e \notin kept /\ \A f \in kept : f.key # e.key
  OBVIOUS
<1>3. /\ cache \in [Tabs -> SUBSET Entries] /\ IsFiniteSet(cache[t])
      /\ \A e1, f1 \in cache[t] : e1.key = f1.key => e1 = f1
  BY DEF Inv, Shapes, Bounded
<1>4. cache' = [cache EXCEPT ![t] = kept \cup {e}] /\ Cardinality(kept) < MaxEntries
  BY <1>1
<1> HIDE DEF kept, others
<1>5. /\ cache'[t] = kept \cup {e} /\ cache' \in [Tabs -> SUBSET Entries]
      /\ \A s \in Tabs \ {t} : cache'[s] = cache[s]
  BY <1>2, <1>3, <1>4
<1>6. IsFiniteSet(kept)
  BY <1>2, <1>3, FS_Subset
<1>7. IsFiniteSet(kept \cup {e}) /\ Cardinality(kept \cup {e}) = Cardinality(kept) + 1
  BY <1>2, <1>6, FS_AddElement
<1>8. Cardinality(kept \cup {e}) <= MaxEntries
  BY <1>4, <1>6, <1>7, FS_CardinalityType, BoundAssumption
<1>9. \A e1, f1 \in cache'[t] : e1.key = f1.key => e1 = f1
  BY <1>2, <1>3, <1>5
<1>10. Bounded'
  BY <1>5, <1>7, <1>8, <1>9 DEF Inv, Bounded
<1> QED BY <1>2, <1>5, <1>10

LEMMA SettleStep ==
    ASSUME Inv, NEW r \in Requests, SettleFetch(r)
    PROVE  Inv'
<1> DEFINE q == req[r]
<1>1. /\ q.pc = "answered" /\ q.via = "fetch" /\ req' = [req EXCEPT ![r] = Idle]
      /\ UNCHANGED <<session, rendered, switching, latest, channel, mail, server, acked, changes>>
  BY DEF SettleFetch
<1>2. /\ q \in {Idle} \cup Reads \cup Writes /\ q.tab \in Tabs /\ q.key \in Keys /\ Shapes
  BY <1>1, Kinds DEF Inv, Shapes, Idle
<1>3. /\ req' \in [Requests -> {Idle} \cup Reads \cup Writes] /\ req'[r] = Idle
      /\ \A x \in Requests \ {r} : req'[x] = req[x]
  BY <1>1, <1>2 DEF Shapes
<1>4. Counts'
  BY <1>1, <1>3, NumberKinds, CountsKept DEF Inv, Counts, Idle
<1>5. CASE inFlight[q.tab][q.key] # r
  <2>1. UNCHANGED <<cache, inFlight>>
    BY <1>5 DEF SettleFetch
  <2>2. Shapes'
    BY <1>1, <1>2, <1>3, <2>1 DEF Shapes
  <2>3. \A s \in Tabs, j \in Keys : inFlight[s][j] # r
    BY <1>5, RegisteredOwn
  <2> QED BY <1>1, <1>3, <1>4, <2>1, <2>2, <2>3, AsideStep DEF Unheard
<1>6. CASE inFlight[q.tab][q.key] = r
  <2> DEFINE t == q.tab
             k == q.key
             e == EntryOf(q)
  <2>1. /\ SetCached(t, e) /\ inFlight' = [inFlight EXCEPT ![t][k] = NoRequest]
    BY <1>6 DEF SettleFetch
  <2>2. e \in Entries /\ e.key = k /\ e.owner = q.as /\ e.version = q.version /\ e.via = "fetch"
    BY <1>1, <1>2, EntryKind
  <2>3. Fresh(t, q.version) /\ Own(t, q.as) /\ q.version <= server
    BY <1>1, <1>2, <1>6, RegisteredOwn DEF Registered, Inv, Counts
  <2>4. t \in Tabs /\ k \in Keys
    BY <1>2
  <2> HIDE DEF t, k, e
  <2>5. /\ cache' \in [Tabs -> SUBSET Entries] /\ Bounded'
        /\ \A s \in Tabs : \A f \in cache'[s] : f \in cache[s] \/ (s = t /\ f = e)
    BY <2>1, <2>2, <2>4, Stored
  <2>6. /\ inFlight' \in [Tabs -> [Keys -> Requests \cup {NoRequest}]]
        /\ inFlight'[t][k] = NoRequest
        /\ \A s \in Tabs, j \in Keys : inFlight'[s][j] = inFlight[s][j] \/ (s = t /\ j = k)
    BY <1>2, <2>1, <2>4 DEF Shapes
  <2>7. Shapes'
    BY <1>1, <1>2, <1>3, <2>5, <2>6 DEF Shapes
  <2>8. Cached'
    <3> SUFFICES ASSUME NEW s \in Tabs, NEW f \in cache'[s]
                 PROVE  /\ f.version <= server'
                        /\ f.via = "fetch" => Fresh(s, f.version)' /\ Own(s, f.owner)'
      BY DEF Cached
    <3>1. /\ f.version <= server
          /\ f.via = "fetch" => Fresh(s, f.version) /\ Own(s, f.owner)
      BY <2>2, <2>3, <2>5 DEF Inv, Cached
    <3> QED BY <1>1, <3>1 DEF Fresh, Own
  <2>9. ASSUME NEW s \in Tabs, NEW j \in Keys, inFlight'[s][j] # NoRequest
        PROVE  Registered(s, j, req[inFlight[s][j]])'
    <3>1. /\ ~(s = t /\ j = k) /\ inFlight'[s][j] = inFlight[s][j] /\ inFlight[s][j] \in Requests
      BY <1>2, <2>6, <2>9 DEF Shapes
    <3>2. inFlight[s][j] # r
      BY <3>1, RegisteredOwn DEF t, k
    <3>3. \A f \in cache'[s] : f \in cache[s] \/ f.key # j \/ f.via # "fetch"
      BY <2>2, <2>5, <3>1
    <3>4. req'[inFlight[s][j]] = req[inFlight[s][j]]
      BY <1>3, <3>1, <3>2
    <3> QED BY <1>1, <2>9, <3>1, <3>3, <3>4, UnderWayKept DEF Unheard
  <2> QED BY <1>4, <2>5, <2>7, <2>8, <2>9 DEF Inv, UnderWay
<1> QED BY <1>5, <1>6

\* A step that may take registrations away and leaves the registered requests as they are.
LEMMA FewerStep ==
    ASSUME Inv, Unheard, Shapes', Counts', Bounded', Cached',
           \A t \in Tabs : \A e \in cache'[t] : e \in cache[t] \/ e.via # "fetch",
           \A t \in Tabs, k \in Keys : inFlight'[t][k] # NoRequest =>
               /\ inFlight'[t][k] = inFlight[t][k]
               /\ req'[inFlight[t][k]] = req[inFlight[t][k]]
    PROVE  Inv'
<1>1. ASSUME NEW s \in Tabs, NEW j \in Keys, inFlight'[s][j] # NoRequest
      PROVE  Registered(s, j, req[inFlight[s][j]])'
  <2>1. /\ inFlight'[s][j] = inFlight[s][j] /\ inFlight[s][j] # NoRequest
        /\ req'[inFlight[s][j]] = req[inFlight[s][j]]
    BY <1>1
  <2> QED BY <2>1, UnderWayKept
<1> QED BY <1>1 DEF Inv, UnderWay

LEMMA ScreenSettleStep ==
    ASSUME Inv, NEW r \in Requests, SettleScreen(r)
    PROVE  Inv'
<1> DEFINE q == req[r]
           v == q.key[2]
<1>1. /\ q.pc = "answered" /\ q.via = "screen" /\ req' = [req EXCEPT ![r] = Idle]
      /\ UNCHANGED <<session, rendered, switching, inFlight, channel, mail, server, acked, changes>>
  BY DEF SettleScreen
<1>2. /\ q \in {Idle} \cup Reads \cup Writes /\ q.tab \in Tabs /\ q.key \in Keys /\ v \in Views /\ Shapes
  BY <1>1, Kinds DEF Inv, Shapes, Idle, Keys
<1>3. /\ req' \in [Requests -> {Idle} \cup Reads \cup Writes] /\ req'[r] = Idle
      /\ \A x \in Requests \ {r} : req'[x] = req[x]
  BY <1>1, <1>2 DEF Shapes
<1>4. Counts'
  BY <1>1, <1>3, NumberKinds, CountsKept DEF Inv, Counts, Idle
<1>5. ASSUME NEW s \in Tabs, NEW j \in Keys, inFlight'[s][j] # NoRequest
      PROVE  /\ inFlight'[s][j] = inFlight[s][j] /\ req'[inFlight[s][j]] = req[inFlight[s][j]]
  <2>1. inFlight[s][j] \in Requests /\ inFlight'[s][j] = inFlight[s][j]
    BY <1>1, <1>2, <1>5 DEF Shapes
  <2>2. inFlight[s][j] # r
    BY <1>1, RegisteredOwn
  <2> QED BY <1>3, <2>1, <2>2
<1>6. CASE latest[q.tab][v] # r
  <2>1. UNCHANGED <<cache, latest>>
    BY <1>6 DEF SettleScreen
  <2>2. Shapes'
    BY <1>1, <1>2, <1>3, <2>1 DEF Shapes
  <2>3. Bounded' /\ Cached'
    BY <1>1, <2>1, Smaller, CachedKept DEF Unheard
  <2> QED BY <1>1, <1>4, <1>5, <2>1, <2>2, <2>3, FewerStep DEF Unheard
<1>7. CASE latest[q.tab][v] = r
  <2> DEFINE t == q.tab
             e == EntryOf(q)
  <2>1. SetCached(t, e) /\ latest' = [latest EXCEPT ![t][v] = NoRequest]
    BY <1>7 DEF SettleScreen
  <2>2. e \in Entries /\ e.version = q.version /\ e.via = "screen" /\ t \in Tabs
    BY <1>1, <1>2, EntryKind
  <2>3. q.version <= server
    BY <1>1 DEF Inv, Counts
  <2> HIDE DEF t, e, v
  <2>4. /\ cache' \in [Tabs -> SUBSET Entries] /\ Bounded'
        /\ \A s \in Tabs : \A f \in cache'[s] : f \in cache[s] \/ (s = t /\ f = e)
    BY <2>1, <2>2, Stored
  <2>5. latest' \in [Tabs -> [Views -> Requests \cup {NoRequest}]]
    BY <1>2, <2>1, <2>2 DEF Shapes
  <2>6. Shapes'
    BY <1>1, <1>2, <1>3, <2>4, <2>5 DEF Shapes
  <2>7. Cached'
    <3> SUFFICES ASSUME NEW s \in Tabs, NEW f \in cache'[s]
                 PROVE  /\ f.version <= server'
                        /\ f.via = "fetch" => Fresh(s, f.version)' /\ Own(s, f.owner)'
      BY DEF Cached
    <3>1. /\ f.version <= server
          /\ f.via = "fetch" => Fresh(s, f.version) /\ Own(s, f.owner)
      BY <2>2, <2>3, <2>4 DEF Inv, Cached
    <3> QED BY <1>1, <3>1 DEF Fresh, Own
  <2>8. \A s \in Tabs : \A f \in cache'[s] : f \in cache[s] \/ f.via # "fetch"
    BY <2>2, <2>4
  <2> QED BY <1>1, <1>4, <1>5, <2>4, <2>6, <2>7, <2>8, FewerStep DEF Unheard
<1> QED BY <1>6, <1>7

LEMMA FailReadStep ==
    ASSUME Inv, NEW r \in Requests, FailRead(r)
    PROVE  Inv'
<1> DEFINE q == req[r]
           v == q.key[2]
<1>1. /\ q.pc \in {"called", "sent"} /\ req' = [req EXCEPT ![r] = Idle]
      /\ inFlight' = [inFlight EXCEPT ![q.tab][q.key] = IF @ = r THEN NoRequest ELSE @]
      /\ latest' = [latest EXCEPT ![q.tab][v] = IF @ = r THEN NoRequest ELSE @]
      /\ UNCHANGED <<session, rendered, switching, cache, channel, mail, server, acked, changes>>
  BY DEF FailRead
<1>2. /\ q \in {Idle} \cup Reads \cup Writes /\ q.tab \in Tabs /\ q.key \in Keys /\ v \in Views /\ Shapes
  BY <1>1, Kinds DEF Inv, Shapes, Idle, Keys
<1>3. /\ req' \in [Requests -> {Idle} \cup Reads \cup Writes] /\ req'[r] = Idle
      /\ \A x \in Requests \ {r} : req'[x] = req[x]
  BY <1>1, <1>2 DEF Shapes
<1>4. Counts'
  BY <1>1, <1>3, NumberKinds, CountsKept DEF Inv, Counts, Idle
<1>5. PICK t \in Tabs, k \in Keys : t = q.tab /\ k = q.key
  BY <1>2
<1>6. inFlight' = [inFlight EXCEPT ![t][k] = IF @ = r THEN NoRequest ELSE @]
  BY <1>1, <1>5
<1>7. PICK w \in Views : w = v
  BY <1>2
<1>8. latest' = [latest EXCEPT ![t][w] = IF @ = r THEN NoRequest ELSE @]
  BY <1>1, <1>5, <1>7
<1>9. /\ inFlight' \in [Tabs -> [Keys -> Requests \cup {NoRequest}]]
      /\ inFlight'[t][k] # r \/ NoRequest = r
      /\ \A s \in Tabs, j \in Keys : inFlight'[s][j] \in {inFlight[s][j], NoRequest}
  BY <1>2, <1>6 DEF Shapes
<1>10. latest' \in [Tabs -> [Views -> Requests \cup {NoRequest}]]
  BY <1>2, <1>8 DEF Shapes
<1>11. Shapes'
  BY <1>1, <1>2, <1>3, <1>9, <1>10 DEF Shapes
<1>12. Bounded' /\ Cached'
  BY <1>1, Smaller, CachedKept DEF Unheard
<1>13. ASSUME NEW s \in Tabs, NEW j \in Keys, inFlight'[s][j] # NoRequest
      PROVE  /\ inFlight'[s][j] = inFlight[s][j] /\ req'[inFlight[s][j]] = req[inFlight[s][j]]
  <2>1. inFlight[s][j] \in Requests /\ inFlight'[s][j] = inFlight[s][j]
    BY <1>2, <1>9, <1>13 DEF Shapes
  <2>2. inFlight[s][j] # r
    <3> SUFFICES ASSUME inFlight[s][j] = r PROVE FALSE
      OBVIOUS
    <3>1. s = t /\ j = k
      BY <1>5, RegisteredOwn
    <3> QED BY <1>9, <2>1, <3>1, IdentityAssumption
  <2> QED BY <1>3, <2>1, <2>2
<1> QED BY <1>1, <1>4, <1>11, <1>12, <1>13, FewerStep DEF Unheard

(********************************** writes *********************************)

LEMMA StartWriteStep ==
    ASSUME Inv, NEW t \in Tabs, NEW r \in Requests, StartWrite(t, r)
    PROVE  Inv'
<1> DEFINE q == [pc |-> "write", tab |-> t]
<1>1. /\ req[r] = Idle /\ changes < MaxChanges /\ changes' = changes + 1
      /\ req' = [req EXCEPT ![r] = q]
      /\ UNCHANGED <<session, rendered, switching, cache, inFlight, latest, channel, mail, server, acked>>
  BY DEF StartWrite
<1>2. q \in Writes /\ q.pc = "write" /\ Shapes
  BY DEF Writes, Inv
<1> HIDE DEF q
<1>3. /\ req' \in [Requests -> {Idle} \cup Reads \cup Writes] /\ req'[r] = q
      /\ \A x \in Requests \ {r} : req'[x] = req[x]
  BY <1>1, <1>2 DEF Shapes
<1>4. Shapes'
  BY <1>1, <1>2, <1>3 DEF Shapes
<1>5. Cardinality(Writing') = Cardinality(Writing) + 1
  <2>1. Writing' = Writing \cup {r} /\ r \notin Writing
    BY <1>1, <1>2, <1>3 DEF Writing, Idle
  <2> QED BY <2>1, NumberKinds, FS_AddElement
<1>6. Counts'
  <2>1. /\ server \in Nat /\ changes \in Nat /\ MaxChanges \in Nat /\ Cardinality(Writing) \in Nat
        /\ \A s \in Tabs : switching[s] \in Nat
    BY NumberKinds
  <2>2. /\ server + Cardinality(Writing) <= changes /\ acked \in [Tabs -> Versions]
        /\ \A s \in Tabs : switching[s] <= changes /\ acked[s] <= server
        /\ \A x \in Requests : req[x].pc \in {"answered", "wrote"} => req[x].version <= server
    BY DEF Inv, Counts
  <2>3. /\ changes' \in 0 .. MaxChanges /\ server' + Cardinality(Writing') <= changes'
        /\ \A s \in Tabs : switching'[s] <= changes'
    BY <1>1, <1>5, <2>1, <2>2
  <2>4. \A x \in Requests : req'[x].pc \in {"answered", "wrote"} => req'[x].version <= server'
    BY <1>1, <1>2, <1>3, <2>2
  <2> QED BY <1>1, <2>1, <2>2, <2>3, <2>4 DEF Counts
<1>7. \A s \in Tabs, j \in Keys : inFlight[s][j] # r
  BY <1>1, RegisteredOwn DEF Idle
<1> QED BY <1>1, <1>3, <1>4, <1>6, <1>7, AsideStep DEF Unheard

LEMMA RefuseWriteStep ==
    ASSUME Inv, NEW r \in Requests, RefuseWrite(r)
    PROVE  Inv'
<1>1. /\ req[r].pc = "write" /\ req' = [req EXCEPT ![r] = Idle] /\ Shapes
      /\ UNCHANGED <<session, rendered, switching, cache, inFlight, latest, channel, mail, server,
                     acked, changes>>
  BY DEF RefuseWrite, Inv
<1>2. /\ req' \in [Requests -> {Idle} \cup Reads \cup Writes] /\ req'[r] = Idle
      /\ \A x \in Requests \ {r} : req'[x] = req[x]
  BY <1>1 DEF Shapes
<1>3. Shapes'
  BY <1>1, <1>2 DEF Shapes
<1>4. Counts'
  BY <1>1, <1>2, NumberKinds, CountsKept DEF Inv, Counts, Idle
<1>5. \A s \in Tabs, j \in Keys : inFlight[s][j] # r
  BY <1>1, RegisteredOwn
<1> QED BY <1>1, <1>2, <1>3, <1>4, <1>5, AsideStep DEF Unheard

LEMMA CommitWriteStep ==
    ASSUME Inv, NEW r \in Requests, CommitWrite(r)
    PROVE  Inv'
<1> DEFINE q == [pc |-> "wrote", tab |-> req[r].tab, version |-> server + 1]
<1>1. /\ req[r].pc = "write" /\ server' = server + 1 /\ req' = [req EXCEPT ![r] = q]
      /\ UNCHANGED <<session, rendered, switching, cache, inFlight, latest, channel, mail, acked, changes>>
  BY DEF CommitWrite
<1>2. Writing' = Writing \ {r} /\ r \in Writing
  BY <1>1 DEF Writing, Inv, Shapes
<1>3. /\ server \in Nat /\ changes \in Nat /\ changes <= MaxChanges /\ MaxChanges \in Nat
      /\ Cardinality(Writing) \in Nat /\ server + Cardinality(Writing) <= changes
      /\ \A s \in Tabs : acked[s] \in Nat
  BY NumberKinds DEF Inv, Counts
<1>4. Cardinality(Writing') = Cardinality(Writing) - 1
  BY <1>2, NumberKinds, FS_RemoveElement
<1>5. Cardinality(Writing') \in Nat
  <2>1. IsFiniteSet(Writing')
    BY <1>2, NumberKinds, FS_RemoveElement
  <2> QED BY <2>1, FS_CardinalityType
<1>6. server + 1 \in Versions
  BY <1>3, <1>4, <1>5 DEF Versions
<1>7. Shapes /\ req[r] \in {Idle} \cup Reads \cup Writes /\ req[r].tab \in Tabs
  BY <1>1, Kinds DEF Inv, Shapes, Idle
<1>8. q \in Writes /\ q.pc = "wrote" /\ q.version = server + 1
  BY <1>6, <1>7 DEF Writes
<1> HIDE DEF q
<1>9. /\ req' \in [Requests -> {Idle} \cup Reads \cup Writes] /\ req'[r] = q
      /\ \A x \in Requests \ {r} : req'[x] = req[x]
  BY <1>1, <1>7, <1>8 DEF Shapes
<1>10. Shapes'
  BY <1>1, <1>7, <1>9 DEF Shapes
<1>11. Counts'
  <2>1. \A x \in Requests : req'[x].pc \in {"answered", "wrote"} => req'[x].version <= server + 1
    <3> SUFFICES ASSUME NEW x \in Requests, req'[x].pc \in {"answered", "wrote"}
                 PROVE  req'[x].version <= server + 1
      OBVIOUS
    <3>1. CASE x = r
      BY <1>3, <1>8, <1>9, <3>1
    <3>2. CASE x # r
      <4>1. req'[x] = req[x] /\ req[x].version <= server
        BY <1>9, <3>2 DEF Inv, Counts
      <4>2. req[x].version \in Nat
        BY <1>3, <4>1, NumberKinds, Kinds DEF Versions
      <4> QED BY <1>3, <4>1, <4>2
    <3> QED BY <3>1, <3>2
  <2>2. \A s \in Tabs : acked[s] <= server + 1 /\ switching[s] <= changes
    BY <1>3 DEF Inv, Counts
  <2>3. server' \in Nat /\ server' + Cardinality(Writing') <= changes
    BY <1>1, <1>3, <1>4, <1>5
  <2> QED BY <1>1, <2>1, <2>2, <2>3 DEF Inv, Counts
<1>12. Bounded' /\ Cached'
  BY <1>1, Smaller, CachedKept DEF Unheard
<1>13. ASSUME NEW s \in Tabs, NEW j \in Keys, inFlight'[s][j] # NoRequest
      PROVE  /\ inFlight'[s][j] = inFlight[s][j] /\ req'[inFlight[s][j]] = req[inFlight[s][j]]
  <2>1. inFlight[s][j] \in Requests /\ inFlight'[s][j] = inFlight[s][j]
    BY <1>1, <1>7, <1>13 DEF Shapes
  <2>2. inFlight[s][j] # r
    BY <1>1, RegisteredOwn
  <2> QED BY <1>9, <2>1, <2>2
<1> QED BY <1>1, <1>10, <1>11, <1>12, <1>13, FewerStep DEF Unheard

(********************************* hearing *********************************)

\* A tab that drops what it holds, and one that is told of nothing it could still have to drop.
Drops(t) == cache'[t] = {} /\ inFlight'[t] = NoneInFlight

KeepsOn(t) ==
    /\ cache'[t] = cache[t] /\ inFlight'[t] = inFlight[t] /\ acked'[t] = acked[t]
    /\ channel'[t] /\ ~mail'[t] => channel[t] /\ ~mail[t] /\ acked' = acked
    /\ switching'[t] = 0 => switching[t] = 0 /\ session' = session
    /\ \A k \in Keys : inFlight[t][k] # NoRequest => req'[inFlight[t][k]] = req[inFlight[t][k]]

\* Whatever is heard, each tab either drops everything or still has to hear of it.
LEMMA HeardStep ==
    ASSUME Inv, Shapes', Counts', server' = server, \A t \in Tabs : Drops(t) \/ KeepsOn(t)
    PROVE  Inv'
<1>1. Bounded'
  <2>1. \A t \in Tabs : cache'[t] \subseteq cache[t]
    BY DEF Drops, KeepsOn
  <2> QED BY <2>1, Smaller
<1>2. Cached'
  <2> SUFFICES ASSUME NEW t \in Tabs, NEW e \in cache'[t]
               PROVE  /\ e.version <= server'
                      /\ e.via = "fetch" => Fresh(t, e.version)' /\ Own(t, e.owner)'
    BY DEF Cached
  <2>1. KeepsOn(t) /\ e \in cache[t]
    BY DEF Drops, KeepsOn
  <2>2. e.version <= server /\ (e.via = "fetch" => Fresh(t, e.version) /\ Own(t, e.owner))
    BY <2>1 DEF Inv, Cached
  <2> QED BY <2>1, <2>2 DEF KeepsOn, Fresh, Own
<1>3. ASSUME NEW t \in Tabs, NEW k \in Keys, inFlight'[t][k] # NoRequest
      PROVE  Registered(t, k, req[inFlight[t][k]])'
  <2>1. KeepsOn(t) /\ inFlight[t][k] # NoRequest
    BY <1>3 DEF Drops, KeepsOn, NoneInFlight
  <2>2. PICK r : r = inFlight[t][k]
    OBVIOUS
  <2>3. Registered(t, k, req[r])
    BY <2>1, <2>2 DEF Inv, UnderWay
  <2>4. req'[inFlight'[t][k]] = req[r] /\ req'[r] = req[r] /\ inFlight'[t][k] = r
    BY <2>1, <2>2 DEF KeepsOn
  <2> QED BY <2>1, <2>3, <2>4 DEF Registered, KeepsOn, Fresh, Own
<1> QED BY <1>1, <1>2, <1>3 DEF Inv, UnderWay

LEMMA NoneKind == NoneInFlight \in [Keys -> Requests \cup {NoRequest}]
BY DEF NoneInFlight

\* A write whose outcome reaches its tab: that tab drops everything and tells the others.
LEMMA ToldStep ==
    ASSUME Inv, Counts', NEW r \in Requests, req[r].pc \in {"write", "wrote"},
           InvalidateLocal(req[r].tab), Broadcast(req[r].tab), req' = [req EXCEPT ![r] = Idle],
           \A s \in Tabs : s # req[r].tab => acked'[s] = acked[s],
           UNCHANGED <<session, rendered, switching, latest, server, changes>>
    PROVE  Inv'
<1>1. /\ Shapes /\ req[r] \in {Idle} \cup Reads \cup Writes /\ req[r].tab \in Tabs
  BY Kinds DEF Inv, Shapes, Idle
<1>2. PICK t \in Tabs : t = req[r].tab
  BY <1>1
<1>3. /\ cache' = [cache EXCEPT ![t] = {}] /\ inFlight' = [inFlight EXCEPT ![t] = NoneInFlight]
      /\ channel' = [channel EXCEPT ![t] = TRUE]
      /\ mail' = [s \in Tabs |-> mail[s] \/ (s # t /\ channel[s])]
  BY <1>2 DEF InvalidateLocal, Broadcast
<1>4. /\ req' \in [Requests -> {Idle} \cup Reads \cup Writes]
      /\ \A x \in Requests \ {r} : req'[x] = req[x]
  BY <1>1 DEF Shapes
<1>5. Shapes'
  BY <1>1, <1>3, <1>4, NoneKind DEF Shapes
<1>6. ASSUME NEW s \in Tabs PROVE Drops(s) \/ KeepsOn(s)
  <2>1. CASE s = t
    BY <1>1, <1>3, <2>1 DEF Drops, Shapes
  <2>2. CASE s # t
    <3>1. /\ cache'[s] = cache[s] /\ inFlight'[s] = inFlight[s] /\ acked'[s] = acked[s]
      BY <1>1, <1>2, <1>3, <2>2 DEF Shapes
    <3>2. ~(channel'[s] /\ ~mail'[s])
      BY <1>1, <1>3, <2>2 DEF Shapes
    <3>3. ASSUME NEW k \in Keys, inFlight[s][k] # NoRequest
          PROVE  req'[inFlight[s][k]] = req[inFlight[s][k]]
      <4>1. inFlight[s][k] \in Requests
        BY <1>1, <3>3 DEF Shapes
      <4>2. inFlight[s][k] # r
        BY RegisteredOwn
      <4> QED BY <1>4, <4>1, <4>2
    <3> QED BY <3>1, <3>2, <3>3 DEF KeepsOn
  <2> QED BY <2>1, <2>2
<1> QED BY <1>5, <1>6, HeardStep

LEMMA AnswerWriteStep ==
    ASSUME Inv, NEW r \in Requests, AnswerWrite(r)
    PROVE  Inv'
<1> DEFINE t == req[r].tab
           n == req[r].version
<1>1. /\ req[r].pc = "wrote" /\ InvalidateLocal(t) /\ Broadcast(t) /\ req' = [req EXCEPT ![r] = Idle]
      /\ acked' = [acked EXCEPT ![t] = IF @ > n THEN @ ELSE n]
      /\ UNCHANGED <<session, rendered, switching, latest, server, changes>>
  BY DEF AnswerWrite
<1>2. /\ t \in Tabs /\ n \in Versions /\ n <= server
  BY <1>1, NumberKinds, Kinds DEF Inv, Counts, Idle
<1>3. /\ acked \in [Tabs -> Versions] /\ \A s \in Tabs : switching[s] <= changes /\ acked[s] <= server
  BY DEF Inv, Counts
<1>4. /\ acked' \in [Tabs -> Versions] /\ \A s \in Tabs : acked'[s] <= server
      /\ \A s \in Tabs : s # t => acked'[s] = acked[s]
  BY <1>1, <1>2, <1>3
<1>5. \A x \in Requests : req'[x] = req[x] \/ req'[x] = Idle
  BY <1>1 DEF Inv, Shapes
<1>6. Counts'
  BY <1>1, <1>3, <1>4, <1>5, NumberKinds, CountsKept DEF Idle
<1> QED BY <1>1, <1>4, <1>6, ToldStep

LEMMA FailWriteStep ==
    ASSUME Inv, NEW r \in Requests, FailWrite(r)
    PROVE  Inv'
<1>1. /\ req[r].pc = "write" /\ InvalidateLocal(req[r].tab) /\ Broadcast(req[r].tab)
      /\ req' = [req EXCEPT ![r] = Idle]
      /\ UNCHANGED <<session, rendered, switching, latest, server, acked, changes>>
  BY DEF FailWrite
<1>2. \A x \in Requests : req'[x] = req[x] \/ req'[x] = Idle
  BY <1>1 DEF Inv, Shapes
<1>3. Counts'
  BY <1>1, <1>2, NumberKinds, CountsKept DEF Inv, Counts, Idle
<1> QED BY <1>1, <1>3, ToldStep

\* A tab drops everything when an invalidation or a change of user reaches it.
LEMMA HearStep ==
    ASSUME Inv, NEW t \in Tabs, HearInvalidation(t) \/ HearSwitch(t)
    PROVE  Inv'
<1>1. /\ cache' = [cache EXCEPT ![t] = {}] /\ inFlight' = [inFlight EXCEPT ![t] = NoneInFlight]
      /\ UNCHANGED <<session, rendered, latest, req, channel, server, acked, changes>>
  BY DEF HearInvalidation, HearSwitch, InvalidateLocal
<1>2. /\ Shapes /\ \A s \in Tabs : switching[s] \in Nat
  BY NumberKinds DEF Inv
<1>3. /\ mail' \in [Tabs -> BOOLEAN] /\ switching' \in [Tabs -> Nat]
      /\ \A s \in Tabs \ {t} : mail'[s] = mail[s] /\ switching'[s] = switching[s]
      /\ \A s \in Tabs : switching'[s] <= switching[s]
  <2>1. CASE HearInvalidation(t)
    BY <1>2, <2>1 DEF HearInvalidation, Shapes
  <2>2. CASE HearSwitch(t)
    <3>1. switching[t] > 0 /\ switching' = [switching EXCEPT ![t] = switching[t] - 1] /\ mail' = mail
      BY <2>2 DEF HearSwitch
    <3> QED BY <1>2, <3>1 DEF Shapes
  <2> QED BY <2>1, <2>2
<1>4. Shapes'
  BY <1>1, <1>2, <1>3, NoneKind DEF Shapes
<1>5. Counts'
  <2>1. \A s \in Tabs : switching'[s] <= changes /\ acked[s] <= server
    <3>1. \A s \in Tabs : switching[s] <= changes /\ acked[s] <= server
      BY DEF Inv, Counts
    <3>2. \A s \in Tabs : switching'[s] \in Nat
      BY <1>3
    <3> QED BY <1>2, <1>3, <3>1, <3>2, NumberKinds
  <2> QED BY <1>1, <2>1, NumberKinds, CountsKept DEF Inv, Counts
<1>6. ASSUME NEW s \in Tabs PROVE Drops(s) \/ KeepsOn(s)
  <2>1. CASE s = t
    BY <1>1, <1>2, <2>1 DEF Drops, Shapes
  <2>2. CASE s # t
    BY <1>1, <1>2, <1>3, <2>2 DEF KeepsOn, Shapes
  <2> QED BY <2>1, <2>2
<1> QED BY <1>1, <1>4, <1>5, <1>6, HeardStep

(**************************** the signed-in user ***************************)

\* A change of user in one tab: its context is new, every other tab is sent an event.
LEMMA SwitchStep ==
    ASSUME Inv, NEW t \in Tabs, changes < MaxChanges, changes' = changes + 1,
           session' \in Identities, rendered' \in [Tabs -> Identities],
           FreshContext(t), StorageEvents(t), mail' \in [Tabs -> BOOLEAN],
           channel' = [channel EXCEPT ![t] = FALSE],
           \A s \in Tabs \ {t} : mail[s] => mail'[s], UNCHANGED <<server, acked>>
    PROVE  Inv'
<1>1. /\ cache' = [cache EXCEPT ![t] = {}] /\ inFlight' = [inFlight EXCEPT ![t] = NoneInFlight]
      /\ latest' = [latest EXCEPT ![t] = [v \in Views |-> NoRequest]]
      /\ req' = [r \in Requests |-> IF req[r] # Idle /\ req[r].tab = t THEN Idle ELSE req[r]]
      /\ switching' = [s \in Tabs |-> IF s = t THEN 0 ELSE switching[s] + 1]
  BY DEF FreshContext, StorageEvents
<1>2. Shapes /\ \A s \in Tabs : switching[s] \in Nat
  BY NumberKinds DEF Inv
<1>3. req' \in [Requests -> {Idle} \cup Reads \cup Writes]
  BY <1>1, <1>2 DEF Shapes
<1>4. latest' \in [Tabs -> [Views -> Requests \cup {NoRequest}]] /\ switching' \in [Tabs -> Nat]
  BY <1>1, <1>2 DEF Shapes
<1>5. Shapes'
  BY <1>1, <1>2, <1>3, <1>4, NoneKind DEF Shapes
<1>6. Counts'
  <2>1. \A s \in Tabs : switching'[s] <= changes' /\ acked[s] <= server
    <3>1. \A s \in Tabs : switching[s] <= changes /\ acked[s] <= server
      BY DEF Inv, Counts
    <3> QED BY <1>1, <1>2, <3>1, NumberKinds
  <2>2. \A x \in Requests : req'[x] = req[x] \/ req'[x] = Idle
    BY <1>1
  <2>3. changes' <= MaxChanges
    BY NumberKinds
  <2> QED BY <1>1, <2>1, <2>2, <2>3, NumberKinds, CountsKept DEF Inv, Counts, Idle
<1>7. ASSUME NEW s \in Tabs PROVE Drops(s) \/ KeepsOn(s)
  <2>1. CASE s = t
    BY <1>1, <1>2, <2>1 DEF Drops, Shapes
  <2>2. CASE s # t
    <3>1. /\ cache'[s] = cache[s] /\ inFlight'[s] = inFlight[s] /\ channel'[s] = channel[s]
          /\ mail[s] => mail'[s]
      BY <1>1, <1>2, <2>2 DEF Shapes
    <3>2. switching'[s] # 0
      BY <1>1, <1>2, <2>2
    <3>3. ASSUME NEW k \in Keys, inFlight[s][k] # NoRequest
          PROVE  req'[inFlight[s][k]] = req[inFlight[s][k]]
      <4>1. inFlight[s][k] \in Requests
        BY <1>2, <3>3 DEF Shapes
      <4>2. req[inFlight[s][k]].tab = s
        BY <4>1, RegisteredOwn
      <4> QED BY <1>1, <2>2, <4>1, <4>2
    <3> QED BY <3>1, <3>2, <3>3 DEF KeepsOn
  <2> QED BY <2>1, <2>2
<1> QED BY <1>5, <1>6, <1>7, HeardStep

LEMMA SignInStep ==
    ASSUME Inv, NEW t \in Tabs, NEW u \in Users, SignIn(t, u)
    PROVE  Inv'
<1>1. /\ changes < MaxChanges /\ session' = u /\ changes' = changes + 1
      /\ rendered' = [rendered EXCEPT ![t] = u] /\ FreshContext(t) /\ StorageEvents(t)
      /\ channel' = [channel EXCEPT ![t] = FALSE] /\ mail' = [mail EXCEPT ![t] = FALSE]
      /\ UNCHANGED <<server, acked>>
  BY DEF SignIn
<1>2. /\ session' \in Identities /\ rendered' \in [Tabs -> Identities] /\ mail' \in [Tabs -> BOOLEAN]
      /\ \A s \in Tabs \ {t} : mail[s] => mail'[s]
  BY <1>1 DEF Inv, Shapes, Identities
<1> QED BY <1>1, <1>2, SwitchStep

LEMMA SignOutStep ==
    ASSUME Inv, NEW t \in Tabs, SignOut(t)
    PROVE  Inv'
<1>1. /\ changes < MaxChanges /\ session' = Anon /\ changes' = changes + 1
      /\ rendered' = [rendered EXCEPT ![t] = Anon] /\ FreshContext(t) /\ StorageEvents(t)
      /\ channel' = [channel EXCEPT ![t] = FALSE]
      /\ mail' = [s \in Tabs |-> s # t /\ (mail[s] \/ channel[s])]
      /\ UNCHANGED <<server, acked>>
  BY DEF SignOut
<1>2. /\ session' \in Identities /\ rendered' \in [Tabs -> Identities]
  BY <1>1 DEF Inv, Shapes, Identities
<1>3. mail' \in [Tabs -> BOOLEAN] /\ \A s \in Tabs \ {t} : mail[s] => mail'[s]
  BY <1>1 DEF Inv, Shapes
<1> QED BY <1>1, <1>2, <1>3, SwitchStep

LEMMA RerenderStep ==
    ASSUME Inv, NEW t \in Tabs, Rerender(t)
    PROVE  Inv'
<1>1. /\ rendered' = [rendered EXCEPT ![t] = session]
      /\ UNCHANGED <<session, switching, cache, inFlight, latest, req, channel, mail, server, acked, changes>>
  BY DEF Rerender
<1>2. Shapes'
  BY <1>1 DEF Inv, Shapes
<1>3. Counts'
  BY <1>1, NumberKinds, CountsKept DEF Inv, Counts
<1>4. \A s \in Tabs : KeepsOn(s)
  BY <1>1 DEF KeepsOn
<1> QED BY <1>1, <1>2, <1>3, <1>4, HeardStep

(******************************* every step ********************************)

LEMMA InitInv == Init => Inv
<1> SUFFICES ASSUME Init PROVE Inv
  OBVIOUS
<1>1. Shapes
  <2>1. latest \in [Tabs -> [Views -> Requests \cup {NoRequest}]]
    BY DEF Init
  <2>2. inFlight \in [Tabs -> [Keys -> Requests \cup {NoRequest}]]
    BY NoneKind DEF Init
  <2> QED BY <2>1, <2>2 DEF Init, Shapes, Identities
<1>2. Counts
  <2>1. Writing = {} /\ Cardinality(Writing) = 0
    BY FS_EmptySet DEF Init, Writing, Idle
  <2>2. \A r \in Requests : req[r].pc = "idle"
    BY DEF Init, Idle
  <2>3. MaxChanges \in Nat
    BY BoundAssumption
  <2>4. acked \in [Tabs -> Versions]
    BY <2>3 DEF Init, Versions
  <2> QED BY <2>1, <2>2, <2>3, <2>4 DEF Init, Counts
<1>3. Bounded
  BY FS_EmptySet, BoundAssumption DEF Init, Bounded
<1>4. Cached /\ UnderWay
  BY DEF Init, Cached, UnderWay, NoneInFlight
<1> QED BY <1>1, <1>2, <1>3, <1>4 DEF Inv

LEMMA StepInv == Inv /\ [Next]_vars => Inv'
<1> SUFFICES ASSUME Inv, [Next]_vars PROVE Inv'
  OBVIOUS
<1>1. CASE UNCHANGED vars
  <2>1. Shapes'
    BY <1>1 DEF Inv, Shapes, vars
  <2>2. Counts'
    BY <1>1, NumberKinds, CountsKept DEF Inv, Counts, vars
  <2>3. \A s \in Tabs : KeepsOn(s)
    BY <1>1 DEF KeepsOn, vars
  <2> QED BY <1>1, <2>1, <2>2, <2>3, HeardStep DEF vars
<1>2. CASE Browser
  <2>1. PICK t \in Tabs :
            \/ HearInvalidation(t) \/ HearSwitch(t) \/ Rerender(t) \/ SignOut(t)
            \/ \E u \in Users : SignIn(t, u)
            \/ \E r \in Requests : StartWrite(t, r)
            \/ \E r \in Requests, v \in Views, force \in BOOLEAN :
                   Prewarm(t, v, r) \/ Revalidate(t, v, r) \/ ScreenLoad(t, v, r, force)
    BY <1>2 DEF Browser
  <2>2. CASE \E r \in Requests, v \in Views, force \in BOOLEAN :
                 Prewarm(t, v, r) \/ Revalidate(t, v, r) \/ ScreenLoad(t, v, r, force)
    BY <2>2, FetchStep, ScreenStep DEF Prewarm, Revalidate
  <2> QED BY <2>1, <2>2, HearStep, RerenderStep, SignOutStep, SignInStep, StartWriteStep
<1>3. CASE Network
  BY <1>3, SendStep, AnswerStep, SettleStep, ScreenSettleStep, FailReadStep, CommitWriteStep,
     AnswerWriteStep, FailWriteStep, RefuseWriteStep DEF Network
<1> QED BY <1>1, <1>2, <1>3 DEF Next

LEMMA Always == Spec => []Inv
BY InitInv, StepInv, PTL DEF Spec

(****************************** what they promise **************************)

\* The records and counters of the query cache keep their types; no tab's memoryCache holds two
\* responses of one key or more than MAX_QUERY_CACHE_ENTRIES of them (setCachedQuery).
THEOREM TypeCorrect == Spec => []TypeOK
<1>1. Inv => TypeOK
  <2> SUFFICES ASSUME Inv PROVE TypeOK
    OBVIOUS
  <2>1. /\ switching \in [Tabs -> 0 .. MaxChanges] /\ changes \in 0 .. MaxChanges
    <3>1. \A t \in Tabs : switching[t] \in 0 .. MaxChanges
      BY NumberKinds DEF Inv, Counts
    <3> QED BY <3>1 DEF Inv, Shapes, Counts
  <2>2. \A t \in Tabs : cache[t] \subseteq Entries
    BY DEF Inv, Shapes
  <2> QED BY <2>1, <2>2, NumberKinds DEF Inv, Shapes, Counts, Bounded, TypeOK
<1> QED BY <1>1, Always, PTL

\* What fetchWithCache stored is as recent as every write the tab was told of, by an answer of
\* its own or by a broadcast, and once a tab has heard of every change of user it is the
\* signed-in user's, however reads, writes, broadcasts and changes of user interleave.
THEOREM AlwaysFresh == Spec => []FreshEntries
<1>1. Inv => FreshEntries
  BY DEF Inv, Cached, Fresh, Own, FreshEntries, FetchedNeverStale, ListeningTabsAgree, OwnEntries
<1> QED BY <1>1, Always, PTL

\* Nothing but an answer puts a response into a cache.
LEMMA BrowserDrops ==
    ASSUME Inv, Browser, NEW t \in Tabs
    PROVE  cache'[t] \subseteq cache[t]
<1>1. cache \in [Tabs -> SUBSET Entries]
  BY DEF Inv, Shapes
<1>2. ASSUME NEW s \in Tabs, cache' = [cache EXCEPT ![s] = {}]
      PROVE  cache'[t] \subseteq cache[t]
  BY <1>1, <1>2
<1>3. PICK s \in Tabs :
          \/ HearInvalidation(s) \/ HearSwitch(s) \/ Rerender(s) \/ SignOut(s)
          \/ \E u \in Users : SignIn(s, u)
          \/ \E r \in Requests : StartWrite(s, r)
          \/ \E r \in Requests, v \in Views, force \in BOOLEAN :
                 Prewarm(s, v, r) \/ Revalidate(s, v, r) \/ ScreenLoad(s, v, r, force)
  BY DEF Browser
<1>4. CASE HearInvalidation(s) \/ HearSwitch(s) \/ SignOut(s) \/ \E u \in Users : SignIn(s, u)
  BY <1>2, <1>4 DEF HearInvalidation, HearSwitch, InvalidateLocal, SignOut, SignIn, FreshContext
<1>5. CASE Rerender(s) \/ \E r \in Requests : StartWrite(s, r)
  BY <1>5 DEF Rerender, StartWrite
<1>6. CASE \E r \in Requests, v \in Views, force \in BOOLEAN :
               Prewarm(s, v, r) \/ Revalidate(s, v, r) \/ ScreenLoad(s, v, r, force)
  <2>1. PICK r \in Requests, v \in Views, force \in BOOLEAN :
            FetchWithCache(s, v, r, force) \/ ScreenLoad(s, v, r, force)
    BY <1>6 DEF Prewarm, Revalidate
  <2>2. CASE FetchWithCache(s, v, r, force)
    <3>1. cache' = [cache EXCEPT ![s] = {e \in @ : force \/ e.key # <<rendered[s], v>>}]
      BY <2>2 DEF FetchWithCache
    <3> QED BY <1>1, <3>1
  <2>3. CASE ScreenLoad(s, v, r, force)
    BY <2>3 DEF ScreenLoad
  <2> QED BY <2>1, <2>2, <2>3
<1> QED BY <1>3, <1>4, <1>5, <1>6

\* Only the latest request for a key may write it: no answer of fetchWithCache ever replaces a
\* more recent one of the same key, although answers arrive in any order.
THEOREM NeverBack == Spec => NeverStepsBack
<1>1. Inv /\ [Next]_vars => StepsForward
  <2> SUFFICES ASSUME Inv, [Next]_vars, NEW t \in Tabs, NEW e \in cache[t], NEW f \in cache'[t],
                      e.key = f.key, e.via = "fetch", f.via = "fetch"
               PROVE  f.version >= e.version
    BY DEF StepsForward
  <2>1. e.version \in Nat
    BY NumberKinds
  <2>2. CASE f \in cache[t]
    BY <2>1, <2>2 DEF Inv, Bounded
  <2>3. CASE f \notin cache[t]
    <3>1. PICK r \in Requests : SettleFetch(r) \/ SettleScreen(r)
      <4>1. cache \in [Tabs -> SUBSET Entries]
        BY DEF Inv, Shapes
      <4>2. ~ UNCHANGED cache
        BY <2>3
      <4>3. ~ Browser
        BY <2>3, BrowserDrops
      <4>4. Network
        BY <4>2, <4>3 DEF Next, vars
      <4> QED BY <2>3, <4>1, <4>2, <4>4 DEF Network, Send, Answer, FailRead, CommitWrite, AnswerWrite,
              FailWrite, RefuseWrite, InvalidateLocal
    <3>2. req[r].pc = "answered" /\ req[r].tab \in Tabs /\ req[r].key \in Keys
          /\ req[r] \in {Idle} \cup Reads \cup Writes
      BY <3>1, NumberKinds, Kinds DEF SettleFetch, SettleScreen, Idle
    <3>3. SetCached(req[r].tab, EntryOf(req[r]))
      BY <2>3, <3>1 DEF SettleFetch, SettleScreen
    <3>4. t = req[r].tab /\ f = EntryOf(req[r])
      BY <2>3, <3>2, <3>3, EntryKind, Stored
    <3>5. SettleFetch(r)
      BY <3>1, <3>2, <3>4, EntryKind DEF SettleScreen
    <3>6. inFlight[t][req[r].key] = r
      BY <2>3, <3>4, <3>5 DEF SettleFetch
    <3>7. Registered(t, req[r].key, req[r])
      BY <3>2, <3>6, RegisteredOwn
    <3> QED BY <3>2, <3>4, <3>7, EntryKind DEF Registered
  <2> QED BY <2>2, <2>3
<1> QED BY <1>1, Always, PTL DEF Spec, NeverStepsBack
=============================================================================
