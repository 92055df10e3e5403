----------------------------- MODULE QueryCache -----------------------------
(***************************************************************************)
(* The browser's query cache (lib/query-cache.ts), the interceptor that    *)
(* invalidates it (lib/api-config.ts) and the two ways data gets into it:  *)
(* fetchWithCache, whose answer is stored only while it is the latest      *)
(* request of its key, and the screens' own loads, which compare request   *)
(* ids among themselves and then call setCachedQuery.                      *)
(*                                                                         *)
(* Every tab of the browser is a JavaScript context of its own. Tabs share *)
(* localStorage (the session), tell each other of a change of user by      *)
(* storage events and of an invalidation by a broadcast channel. The       *)
(* server is one version number, raised by every write (a write by one      *)
(* user may change what another is shown).                                 *)
(***************************************************************************)
EXTENDS Naturals, FiniteSets, TLC

CONSTANTS Tabs, Users, Views, Requests,
          Anon,        \* the identity of a key built with nobody signed in
          NoRequest,
          MaxEntries,  \* MAX_QUERY_CACHE_ENTRIES
          MaxChanges   \* bound on writes, sign-ins and sign-outs together

ASSUME IdentityAssumption == Anon \notin Users /\ NoRequest \notin Requests
ASSUME BoundAssumption ==
    IsFiniteSet(Requests) /\ MaxEntries \in Nat \ {0} /\ MaxChanges \in Nat

\* Tabs, users and requests are told apart by nothing but their names.
Symmetry == Permutations(Tabs) \cup Permutations(Requests) \cup Permutations(Users)

Identities == Users \cup {Anon}
Keys == Identities \X Views
Versions == 0 .. MaxChanges

\* A cached response: whose data it is, how recent, and which path stored it (the last two
\* are known to nobody in the program).
Entries == [key : Keys, owner : Users, version : Versions, via : {"fetch", "screen"}]

Idle == [pc |-> "idle"]
Reads == [pc : {"called"}, tab : Tabs, key : Keys, via : {"fetch", "screen"}]
   \cup [pc : {"sent"}, tab : Tabs, key : Keys, via : {"fetch", "screen"}, as : Users]
   \cup [pc : {"answered"}, tab : Tabs, key : Keys, via : {"fetch", "screen"},
         as : Users, version : Versions]
Writes == [pc : {"write"}, tab : Tabs] \cup [pc : {"wrote"}, tab : Tabs, version : Versions]

VARIABLES
    session,      \* user of localStorage's sb-<slug>-auth-token, or Anon
    rendered,     \* per tab: the identity its mounted screens built their keys with
    switching,    \* per tab: storage events not delivered yet
    cache,        \* per tab: memoryCache
    inFlight,     \* per tab and key: inFlightRequests
    latest,       \* per tab and view: latestRequestId of the screen
    req,          \* requests under way
    channel,      \* per tab: the broadcast channel is open
    mail,         \* per tab: invalidations broadcast to it and not delivered
    server,       \* how often the data changed
    acked,        \* per tab: version of the last write whose answer it has seen
    changes       \* counts writes, sign-ins and sign-outs, to bound them

vars == <<session, rendered, switching, cache, inFlight, latest, req, channel,
          mail, server, acked, changes>>

NoneInFlight == [k \in Keys |-> NoRequest]

Init ==
    /\ session \in Users
    /\ rendered = [t \in Tabs |-> session]
    /\ switching = [t \in Tabs |-> 0]
    /\ cache = [t \in Tabs |-> {}]
    /\ inFlight = [t \in Tabs |-> NoneInFlight]
    /\ latest = [t \in Tabs |-> [v \in Views |-> NoRequest]]
    /\ req = [r \in Requests |-> Idle]
    /\ channel = [t \in Tabs |-> FALSE]
    /\ mail = [t \in Tabs |-> FALSE]
    /\ server = 0
    /\ acked = [t \in Tabs |-> 0]
    /\ changes = 0

-----------------------------------------------------------------------------
(* The cache.                                                              *)

\* A variant for mutation testing: the bound on entries is forgotten.
SetCachedUnbounded(t, e) ==
    cache' = [cache EXCEPT ![t] = {f \in @ : f.key # e.key} \cup {e}]

\* setCachedQuery: the key's old entry goes, expired entries are swept when a sweep is due, and
\* the least recently used go beyond MaxEntries; the new entry always stays. Time and recency
\* are left open: any other entry may be one of those.
SetCached(t, e) ==
    LET others == {f \in cache[t] : f.key # e.key} IN
    \E gone \in SUBSET others :
        /\ Cardinality(others \ gone) < MaxEntries
        /\ cache' = [cache EXCEPT ![t] = (others \ gone) \cup {e}]

\* A variant for mutation testing: requests under way are not forgotten.
InvalidateLocalKeepingRequests(t) ==
    /\ cache' = [cache EXCEPT ![t] = {}]
    /\ UNCHANGED inFlight

\* _invalidateLocal() without a token.
InvalidateLocal(t) ==
    /\ cache' = [cache EXCEPT ![t] = {}]
    /\ inFlight' = [inFlight EXCEPT ![t] = NoneInFlight]

\* invalidateQueryCache posts to the channel, which _getBroadcastChannel opens on the first
\* post of a tab: only the tabs whose channel is open by then receive it.
Broadcast(t) ==
    /\ channel' = [channel EXCEPT ![t] = TRUE]
    /\ mail' = [s \in Tabs |-> mail[s] \/ (s # t /\ channel[s])]

-----------------------------------------------------------------------------
(* Reads.                                                                  *)

\* fetchWithCache, forced or without a live entry (getCachedQuery deletes the expired one): a
\* request under way answers for the key unless a forced one replaces it. A hit changes nothing.
FetchWithCache(t, v, r, force) ==
    LET k == <<rendered[t], v>> IN
    /\ req[r] = Idle
    /\ force \/ inFlight[t][k] = NoRequest
    /\ cache' = [cache EXCEPT ![t] = {e \in @ : force \/ e.key # k}]
    /\ req' = [req EXCEPT ![r] = [pc |-> "called", tab |-> t, key |-> k, via |-> "fetch"]]
    /\ inFlight' = [inFlight EXCEPT ![t][k] = r]
    /\ UNCHANGED <<session, rendered, switching, latest, channel, mail, server, acked, changes>>

\* A warm-up of a screen nobody opened yet: a key that is cached by the time its job runs is
\* left alone.
Prewarm(t, v, r) ==
    /\ \A e \in cache[t] : e.key # <<rendered[t], v>>
    /\ FetchWithCache(t, v, r, FALSE)

\* useAddresses and the lists built like it: a warm list is shown and fetched again, so that a
\* reload after a change never joins a request from before it.
Revalidate(t, v, r) == FetchWithCache(t, v, r, TRUE)

\* A screen's load (WalletProvider.load and its like): the cached answer is shown meanwhile, a
\* request that is not forced joins the one under way, a new one takes the next request id.
ScreenLoad(t, v, r, force) ==
    LET k == <<rendered[t], v>> IN
    /\ req[r] = Idle
    /\ force \/ latest[t][v] = NoRequest
    /\ req' = [req EXCEPT ![r] = [pc |-> "called", tab |-> t, key |-> k, via |-> "screen"]]
    /\ latest' = [latest EXCEPT ![t][v] = r]
    /\ UNCHANGED <<session, rendered, switching, cache, inFlight, channel, mail, server, acked,
                   changes>>

\* OpenAPI.HEADERS reads the session when the request leaves, later than its key was built.
Send(r) ==
    /\ req[r].pc = "called" /\ session # Anon
    /\ req' = [req EXCEPT ![r] = [pc |-> "sent", tab |-> req[r].tab, key |-> req[r].key,
                                  via |-> req[r].via, as |-> session]]
    /\ UNCHANGED <<session, rendered, switching, cache, inFlight, latest, channel,
                   mail, server, acked, changes>>

\* The server answers with what it has committed by now.
Answer(r) ==
    /\ req[r].pc = "sent"
    /\ req' = [req EXCEPT ![r] = [pc |-> "answered", tab |-> req[r].tab, key |-> req[r].key,
                                  via |-> req[r].via, as |-> req[r].as,
                                  version |-> server]]
    /\ UNCHANGED <<session, rendered, switching, cache, inFlight, latest, channel,
                   mail, server, acked, changes>>

EntryOf(q) == [key |-> q.key, owner |-> q.as, version |-> q.version, via |-> q.via]

\* A variant for mutation testing: a request stores its answer although a later one of the same
\* key is under way.
SettleFetchAlways(r) ==
    LET q == req[r] IN
    /\ q.pc = "answered" /\ q.via = "fetch"
    /\ req' = [req EXCEPT ![r] = Idle]
    /\ SetCached(q.tab, EntryOf(q))
    /\ inFlight' = [inFlight EXCEPT ![q.tab][q.key] = IF @ = r THEN NoRequest ELSE @]
    /\ UNCHANGED <<session, rendered, switching, latest, channel, mail, server, acked, changes>>

\* The answer of a fetchWithCache request reaches the tab.
SettleFetch(r) ==
    LET q == req[r] IN
    /\ q.pc = "answered" /\ q.via = "fetch"
    /\ req' = [req EXCEPT ![r] = Idle]
    /\ IF inFlight[q.tab][q.key] = r
       THEN /\ SetCached(q.tab, EntryOf(q))
            /\ inFlight' = [inFlight EXCEPT ![q.tab][q.key] = NoRequest]
       ELSE UNCHANGED <<cache, inFlight>>
    /\ UNCHANGED <<session, rendered, switching, latest, channel, mail, server, acked,
                   changes>>

\* The answer of a screen's request reaches the tab: the latest one is shown and cached.
SettleScreen(r) ==
    LET q == req[r]
        v == q.key[2]
    IN
    /\ q.pc = "answered" /\ q.via = "screen"
    /\ req' = [req EXCEPT ![r] = Idle]
    /\ IF latest[q.tab][v] = r
       THEN /\ SetCached(q.tab, EntryOf(q))
            /\ latest' = [latest EXCEPT ![q.tab][v] = NoRequest]
       ELSE UNCHANGED <<cache, latest>>
    /\ UNCHANGED <<session, rendered, switching, inFlight, channel, mail, server, acked,
                   changes>>

\* The request fails (no session, network, 5xx): nothing is stored.
FailRead(r) ==
    LET q == req[r]
        v == q.key[2]
    IN
    /\ q.pc \in {"called", "sent"}
    /\ req' = [req EXCEPT ![r] = Idle]
    /\ inFlight' = [inFlight EXCEPT ![q.tab][q.key] = IF @ = r THEN NoRequest ELSE @]
    /\ latest' = [latest EXCEPT ![q.tab][v] = IF @ = r THEN NoRequest ELSE @]
    /\ UNCHANGED <<session, rendered, switching, cache, channel, mail, server, acked,
                   changes>>

-----------------------------------------------------------------------------
(* Writes.                                                                 *)

\* A POST, PUT, PATCH or DELETE that changes data leaves with the session of that moment.
StartWrite(t, r) ==
    /\ req[r] = Idle /\ session # Anon /\ changes < MaxChanges
    /\ changes' = changes + 1
    /\ req' = [req EXCEPT ![r] = [pc |-> "write", tab |-> t]]
    /\ UNCHANGED <<session, rendered, switching, cache, inFlight, latest, channel, mail, server,
                   acked>>

\* The server commits it.
CommitWrite(r) ==
    /\ req[r].pc = "write"
    /\ server' = server + 1
    /\ req' = [req EXCEPT ![r] = [pc |-> "wrote", tab |-> req[r].tab,
                                  version |-> server + 1]]
    /\ UNCHANGED <<session, rendered, switching, cache, inFlight, latest, channel,
                   mail, acked, changes>>

\* shouldInvalidateAfterRequest: success, a 5xx and no answer at all may have changed data.
AnswerWrite(r) ==
    LET t == req[r].tab
        n == req[r].version
    IN
    /\ req[r].pc = "wrote"
    /\ InvalidateLocal(t) /\ Broadcast(t)
    /\ acked' = [acked EXCEPT ![t] = IF @ > n THEN @ ELSE n]
    /\ req' = [req EXCEPT ![r] = Idle]
    /\ UNCHANGED <<session, rendered, switching, latest, server, changes>>

\* A 5xx or no answer before the commit: the tab cannot tell, so it invalidates too.
FailWrite(r) ==
    /\ req[r].pc = "write"
    /\ InvalidateLocal(req[r].tab) /\ Broadcast(req[r].tab)
    /\ req' = [req EXCEPT ![r] = Idle]
    /\ UNCHANGED <<session, rendered, switching, latest, server, acked, changes>>

\* A 4xx: the server refused the write; reads keep their cache.
RefuseWrite(r) ==
    /\ req[r].pc = "write"
    /\ req' = [req EXCEPT ![r] = Idle]
    /\ UNCHANGED <<session, rendered, switching, cache, inFlight, latest, channel,
                   mail, server, acked, changes>>

\* A broadcast reaches a tab.
HearInvalidation(t) ==
    /\ mail[t]
    /\ mail' = [mail EXCEPT ![t] = FALSE]
    /\ InvalidateLocal(t)
    /\ UNCHANGED <<session, rendered, switching, latest, req, channel, server, acked,
                   changes>>

-----------------------------------------------------------------------------
(* The signed-in user.                                                     *)

\* A hard redirect (or the first load) starts a new context: nothing of the old one is left.
FreshContext(t) ==
    /\ cache' = [cache EXCEPT ![t] = {}]
    /\ inFlight' = [inFlight EXCEPT ![t] = NoneInFlight]
    /\ latest' = [latest EXCEPT ![t] = [v \in Views |-> NoRequest]]
    /\ req' = [r \in Requests |-> IF req[r] # Idle /\ req[r].tab = t THEN Idle ELSE req[r]]

\* The other tabs are sent a storage event when localStorage changes.
StorageEvents(t) == switching' = [s \in Tabs |-> IF s = t THEN 0 ELSE switching[s] + 1]

\* clearStoredSession: the token is removed, the cache invalidated, the page replaced.
SignOut(t) ==
    /\ session # Anon /\ changes < MaxChanges
    /\ session' = Anon /\ changes' = changes + 1
    /\ rendered' = [rendered EXCEPT ![t] = Anon]
    /\ FreshContext(t) /\ StorageEvents(t)
    /\ channel' = [channel EXCEPT ![t] = FALSE]
    /\ mail' = [s \in Tabs |-> s # t /\ (mail[s] \/ channel[s])]
    /\ UNCHANGED <<server, acked>>

\* A tab opened on the login page, whose context is new, signs a user in; the session another
\* tab may have is replaced.
SignIn(t, u) ==
    /\ session # u /\ changes < MaxChanges
    /\ session' = u /\ changes' = changes + 1
    /\ rendered' = [rendered EXCEPT ![t] = u]
    /\ FreshContext(t) /\ StorageEvents(t)
    /\ channel' = [channel EXCEPT ![t] = FALSE]
    /\ mail' = [mail EXCEPT ![t] = FALSE]
    /\ UNCHANGED <<server, acked>>

\* _handleStorage: the first of the events waiting; every one of them names another user.
HearSwitch(t) ==
    /\ switching[t] > 0
    /\ switching' = [switching EXCEPT ![t] = @ - 1]
    /\ InvalidateLocal(t)
    /\ UNCHANGED <<session, rendered, latest, req, channel, mail, server, acked,
                   changes>>

\* A screen renders again: buildQueryCacheKey reads the session of now.
Rerender(t) ==
    /\ rendered[t] # session
    /\ rendered' = [rendered EXCEPT ![t] = session]
    /\ UNCHANGED <<session, switching, cache, inFlight, latest, req, channel, mail,
                   server, acked, changes>>

-----------------------------------------------------------------------------
Browser ==
    \E t \in Tabs :
        \/ HearInvalidation(t) \/ HearSwitch(t) \/ Rerender(t) \/ SignOut(t)
        \/ \E u \in Users : SignIn(t, u)
        \/ \E r \in Requests : StartWrite(t, r)
        \/ \E r \in Requests, v \in Views, force \in BOOLEAN :
               Prewarm(t, v, r) \/ Revalidate(t, v, r) \/ ScreenLoad(t, v, r, force)

Network ==
    \E r \in Requests :
        \/ Send(r) \/ Answer(r) \/ SettleFetch(r) \/ SettleScreen(r) \/ FailRead(r)
        \/ CommitWrite(r) \/ AnswerWrite(r) \/ FailWrite(r) \/ RefuseWrite(r)

Next == Browser \/ Network

Spec == Init /\ [][Next]_vars

-----------------------------------------------------------------------------
\* Every response in the cache is one, every request under way is registered where the code
\* keeps it, and no tab holds more than MAX_QUERY_CACHE_ENTRIES responses, one per key.
TypeOK ==
    /\ session \in Identities /\ rendered \in [Tabs -> Identities]
    /\ switching \in [Tabs -> 0 .. MaxChanges] /\ changes \in 0 .. MaxChanges
    /\ channel \in [Tabs -> BOOLEAN] /\ mail \in [Tabs -> BOOLEAN]
    /\ req \in [Requests -> {Idle} \cup Reads \cup Writes]
    /\ inFlight \in [Tabs -> [Keys -> Requests \cup {NoRequest}]]
    /\ latest \in [Tabs -> [Views -> Requests \cup {NoRequest}]]
    /\ server \in Versions /\ acked \in [Tabs -> Versions]
    /\ \A t \in Tabs :
           /\ cache[t] \subseteq Entries /\ Cardinality(cache[t]) <= MaxEntries
           /\ \A e, f \in cache[t] : e.key = f.key => e = f

\* "A slow pre-mutation GET cannot resurrect stale data": whatever fetchWithCache stored in a
\* tab is as recent as every write whose answer that tab has seen, although reads are answered
\* in any order and invalidations come in between.
FetchedNeverStale ==
    \A t \in Tabs : \A e \in cache[t] : e.via = "fetch" => e.version >= acked[t]

\* A tab that listens and has no invalidation waiting holds nothing fetchWithCache stored from
\* before a write that any tab was told of.
ListeningTabsAgree ==
    \A t \in Tabs : channel[t] /\ ~mail[t] =>
        \A e \in cache[t] : e.via = "fetch" => \A s \in Tabs : e.version >= acked[s]

\* "A different user can never read the previous user's entries": once a tab has heard of every
\* change of user, what fetchWithCache stored under the signed-in user's keys is that user's,
\* although keys are built before the session is read to send the request.
OwnEntries ==
    \A t \in Tabs : \A e \in cache[t] :
        e.via = "fetch" /\ switching[t] = 0 /\ e.key[1] = session => e.owner = session

\* Nothing fetchWithCache stored outlives what a tab has heard: neither of a write of its own, nor
\* of another tab's, nor of a change of user.
FreshEntries == FetchedNeverStale /\ ListeningTabsAgree /\ OwnEntries

\* "Only the latest request for a key may write it": a response never takes the place of a more
\* recent one that fetchWithCache had stored under the same key.
StepsForward ==
    \A t \in Tabs : \A e \in cache[t], f \in cache'[t] :
        e.key = f.key /\ e.owner = f.owner /\ e.via = "fetch" /\ f.via = "fetch"
            => f.version >= e.version
NeverStepsBack == [][StepsForward]_vars

=============================================================================
