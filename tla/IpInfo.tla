------------------------------- MODULE IpInfo -------------------------------
(* Who owns the addresses in a list of connections (src/service/ip_info.go):  *)
(* the pages of a list, whose workers share a deadline and a budget of outside*)
(* look-ups, the request for one address in detail, the two caches they all   *)
(* use, and the restart of the core that empties one of them.                 *)
(*                                                                            *)
(* A look-up holds no lock while it waits for DNS, ipwho.is or Cymru, so each *)
(* call and each access to a cache is a step of its own. Owners are told apart*)
(* by the service that named them: "geo" is ipwho.is, "asn" is Cymru (with or *)
(* without the name of the network, which is stored for as long).             *)
EXTENDS Naturals, FiniteSets, FiniteSetsExt, Functions, TLC

CONSTANTS Hosts, Ips,           \* names, and addresses of public scope
          Pages, Details,       \* requests
          Lists,                \* rows of a page: sequences of hosts and addresses
          Asks,                 \* what a detail is asked for: one of these
          Workers,              \* the goroutines a page may have
          Limit,                \* its budget of outside look-ups
          MaxEntries,           \* maxIPOwnerCacheEntries, maxDomainResolutionEntries
          PageTime, DetailTime, \* connectionOwnerLookupTimeout, ...DetailLookupTimeout
          DomainTTL, FoundTTL, MissTTL,
          MaxBegun, MaxStarts, MaxTime

ASSUME IpInfoAssumption ==
    /\ {Limit, PageTime, DetailTime, MaxBegun, MaxStarts, MaxTime} \subseteq Nat
    /\ {MaxEntries, DomainTTL, FoundTTL, MissTTL} \subseteq Nat \ {0}
    /\ Hosts \cap Ips = {} /\ Workers # {} /\ IsFiniteSet(Workers)

VARIABLES
    now,
    core,      \* [gen, on, clearing]: the core that runs, and that the start clears
    domains,   \* domainResolutionCache: host -> [ip, until, asked, from]
    owners,    \* ipOwnerCache: address -> [owner, until, cut]
    req,       \* the request for each page and detail, or Idle
    worker,    \* <<request, worker>> -> the goroutine
    clears,    \* history: how often the domain cache was emptied
    begun
vars == <<now, core, domains, owners, req, worker, clears, begun>>

Requests == Pages \cup Details
Addresses == Hosts \cup Ips
Crew(r) == IF r \in Pages THEN Workers ELSE {r}
Goroutines == UNION {{r} \X Crew(r) : r \in Requests}
Idle == [pc |-> "idle"]
Ready == [pc |-> "next"]
None == "none"

Put(cache, key, entry) == (key :> entry) @@ cache
Fresh(cache, key) == key \in DOMAIN cache /\ now < cache[key].until

(* What a load leaves: an expired entry is deleted.                           *)
Loaded(cache, key) ==
    Restrict(cache, {k \in DOMAIN cache : k # key \/ now < cache[k].until})

(* What a store leaves of the others: a full cache loses the expired entries, *)
(* and any one entry if it is still full.                                     *)
RoomMade(cache) ==
    LET kept == Restrict(cache, {k \in DOMAIN cache : now < cache[k].until})
    IN IF Cardinality(DOMAIN cache) < MaxEntries THEN {cache}
       ELSE IF Cardinality(DOMAIN kept) < MaxEntries THEN {kept}
       ELSE {Restrict(kept, DOMAIN kept \ {k}) : k \in DOMAIN kept}

-----------------------------------------------------------------------------
(* Requests.                                                                  *)

(* Mutant: every row is a target of its own.                                  *)
TargetsEach(rows) == DOMAIN rows

(* collectConnectionInfoTargets: the first row with each address.             *)
Targets(rows) == {i \in DOMAIN rows : \A j \in 1 .. i - 1 : rows[j] # rows[i]}

Begin(r, rows, time) ==
    LET targets == Targets(rows)
    IN /\ req[r] = Idle /\ begun < MaxBegun
       /\ begun' = begun + 1
       /\ req' = [req EXCEPT ![r] = [pc |-> "busy", rows |-> rows, deadline |-> now + time,
                                     budget |-> Limit, jobs |-> targets, results |-> {},
                                     asked |-> [ab \in Addresses \X Addresses |-> 0]]]
       /\ \E some \in SUBSET Crew(r) :
             /\ Cardinality(some) = Min({Cardinality(Crew(r)), Cardinality(targets)})
             /\ worker' = [w \in Goroutines |-> IF w \in {r} \X some THEN Ready ELSE worker[w]]
       /\ UNCHANGED <<now, core, domains, owners, clears>>

(* The client of a detail goes away: the context of its request ends.         *)
Cancel(r) ==
    /\ req[r] # Idle /\ now < req[r].deadline
    /\ req' = [req EXCEPT ![r].deadline = now]
    /\ UNCHANGED <<now, core, domains, owners, worker, clears, begun>>

(* Workers.Wait, and the rows are filled in.                                  *)
Return(r) ==
    /\ req[r] # Idle
    /\ \A w \in Goroutines : w[1] = r => worker[w] = Idle
    /\ req' = [req EXCEPT ![r] = Idle]
    /\ UNCHANGED <<now, core, domains, owners, worker, clears, begun>>

-----------------------------------------------------------------------------
(* A worker. w[1] is its request; a detail has one target, looked up by the   *)
(* goroutine of the request, and no budget.                                   *)
At(w, pc) == worker[w].pc = pc
Of(w) == req[w[1]]
Address(w) == Of(w).rows[worker[w].i]
Detailed(w) == w[1] \in Details
Go(w, next) == worker' = [worker EXCEPT ![w] = next]
To(w, pc) == Go(w, [worker[w] EXCEPT !.pc = pc])
TimedOut(w) == now >= Of(w).deadline

(* The target is finished. The results channel has room for all of them.      *)
Done(w) ==
    /\ req' = [req EXCEPT ![w[1]].results = @ \cup {worker[w].i}]
    /\ Go(w, Ready)

Take(w) ==
    /\ At(w, "next")
    /\ IF Of(w).jobs = {} THEN Go(w, Idle) /\ UNCHANGED req
       ELSE LET i == Min(Of(w).jobs)
                a == Of(w).rows[i]
            IN /\ Go(w, [pc |-> IF a \in Hosts THEN "domain" ELSE "owner", i |-> i,
                         allowed |-> FALSE, cut |-> FALSE, ip |-> a, asked |-> 0,
                         from |-> 0])
               /\ req' = [req EXCEPT ![w[1]].jobs = @ \ {i}]
    /\ UNCHANGED <<now, core, domains, owners, clears, begun>>

(* allowLookup: once for a target, whatever it has to ask.                    *)
MayLookUp(w) == worker[w].allowed \/ Detailed(w) \/ Of(w).budget > 0

(* The target of w asks outside for the address it has come to: a name, or    *)
(* the one it was given or that its name stands for.                          *)
Asked(w, r) == [r EXCEPT ![w[1]].asked[<<Address(w), worker[w].ip>>] = @ + 1]

(* A target may go outside, or is left as it is.                              *)
Allow(w) ==
    [req EXCEPT ![w[1]].budget = IF worker[w].allowed \/ @ = 0 THEN @ ELSE @ - 1]

(* loadCachedDomainResolution; on a miss the DNS of the running core is asked,*)
(* or the system's.                                                           *)
LoadDomain(w) ==
    /\ At(w, "domain")
    /\ domains' = Loaded(domains, worker[w].ip)
    /\ IF Fresh(domains, worker[w].ip)
       THEN Go(w, [worker[w] EXCEPT !.pc = "owner", !.ip = domains[@].ip]) /\ UNCHANGED req
       ELSE IF MayLookUp(w)
       THEN /\ Go(w, [worker[w] EXCEPT !.pc = "resolve", !.allowed = TRUE, !.asked = clears,
                                       !.from = IF core.on THEN core.gen ELSE 0])
            /\ req' = Asked(w, Allow(w))
       ELSE Done(w)
    /\ UNCHANGED <<now, core, owners, clears, begun>>

(* An answer is stored, also one that comes late; an error is not.            *)
Resolve(w) ==
    /\ At(w, "resolve")
    /\ \/ \E ip \in Ips, others \in RoomMade(domains) :
             /\ domains' = Put(others, Address(w), [ip |-> ip, until |-> now + DomainTTL,
                                  asked |-> worker[w].asked, from |-> worker[w].from])
             /\ Go(w, [worker[w] EXCEPT !.pc = "owner", !.ip = ip, !.asked = 0, !.from = 0])
             /\ UNCHANGED req
       \/ Done(w) /\ UNCHANGED domains
    /\ UNCHANGED <<now, core, owners, clears, begun>>

(* A cached owner answers, except that a detail wants one with its location;  *)
(* a cached miss answers a page only.                                         *)
Answers(w, ip) == Fresh(owners, ip) /\ (Detailed(w) => owners[ip].owner = "geo")

LoadOwner(w) ==
    /\ At(w, "owner")
    /\ owners' = Loaded(owners, worker[w].ip)
    /\ IF Answers(w, worker[w].ip) \/ ~MayLookUp(w) THEN Done(w)
       ELSE /\ Go(w, [worker[w] EXCEPT !.pc = "again", !.allowed = TRUE])
            /\ req' = Allow(w)
    /\ UNCHANGED <<now, core, domains, clears, begun>>

(* lookupPublicIPOwner looks into the cache once more, and asks ipwho.is.     *)
LoadOwnerAgain(w) ==
    /\ At(w, "again")
    /\ owners' = Loaded(owners, worker[w].ip)
    /\ IF Answers(w, worker[w].ip) THEN Done(w)
       ELSE To(w, "whois") /\ req' = Asked(w, req)
    /\ UNCHANGED <<now, core, domains, clears, begun>>

StoreOwner(w, owner, ttl) ==
    \E others \in RoomMade(owners) :
        owners' = Put(others, worker[w].ip,
                      [owner |-> owner, until |-> now + ttl, cut |-> worker[w].cut])

(* A query fails, by itself or because the deadline cuts it off.              *)
QueryFails(w, pc) ==
    /\ Go(w, [worker[w] EXCEPT !.pc = pc, !.cut = @ \/ TimedOut(w)])
    /\ UNCHANGED <<owners, req>>

(* ipwho.is answers or fails ...                                              *)
QueryIPWho(w) ==
    /\ At(w, "whois")
    /\ \/ StoreOwner(w, "geo", FoundTTL) /\ Done(w)
       \/ QueryFails(w, "whois failed")
    /\ UNCHANGED <<now, core, domains, clears, begun>>

(* ... and after a failure Cymru is asked if there is time ...                *)
AskCymru(w) ==
    /\ At(w, "whois failed")
    /\ IF TimedOut(w) THEN Done(w) ELSE To(w, "cymru") /\ UNCHANGED req
    /\ UNCHANGED <<now, core, domains, owners, clears, begun>>

(* ... and answers or fails ...                                               *)
QueryCymru(w) ==
    /\ At(w, "cymru")
    /\ \/ StoreOwner(w, "asn", FoundTTL) /\ Done(w)
       \/ QueryFails(w, "cymru failed")
    /\ UNCHANGED <<now, core, domains, clears, begun>>

(* Mutant: that nobody knows is stored without a look at the deadline.        *)
StoreMissLate(w) ==
    /\ At(w, "cymru failed")
    /\ StoreOwner(w, None, MissTTL)
    /\ Done(w)
    /\ UNCHANGED <<now, core, domains, clears, begun>>

(* ... which is stored for a while, if there still is time.                   *)
StoreMiss(w) ==
    /\ At(w, "cymru failed")
    /\ IF TimedOut(w) THEN UNCHANGED owners ELSE StoreOwner(w, None, MissTTL)
    /\ Done(w)
    /\ UNCHANGED <<now, core, domains, clears, begun>>

-----------------------------------------------------------------------------
(* The core (src/service/config.go): the answers of another core's DNS are    *)
(* dropped once the new one runs.                                             *)
StopCore ==
    /\ core.on /\ core.gen < MaxStarts   \* bound: the last core stays
    /\ core' = [core EXCEPT !.on = FALSE]
    /\ UNCHANGED <<now, domains, owners, req, worker, clears, begun>>

StartCore ==
    /\ ~core.on /\ ~core.clearing /\ core.gen < MaxStarts
    /\ core' = [gen |-> core.gen + 1, on |-> TRUE, clearing |-> TRUE]
    /\ UNCHANGED <<now, domains, owners, req, worker, clears, begun>>

ClearDomains ==
    /\ core.clearing
    /\ core' = [core EXCEPT !.clearing = FALSE]
    /\ clears' = clears + 1
    /\ domains' = Restrict(domains, {})
    /\ UNCHANGED <<now, owners, req, worker, begun>>

Tick ==
    /\ now < MaxTime
    /\ now' = now + 1
    /\ UNCHANGED <<core, domains, owners, req, worker, clears, begun>>

\* The first core has been started, and has emptied the cache of names.
Init ==
    /\ now = 0
    /\ core = [gen |-> 1, on |-> TRUE, clearing |-> FALSE]
    /\ domains = [h \in {} |-> 0] /\ owners = [ip \in {} |-> 0]
    /\ req = [r \in Requests |-> Idle]
    /\ worker = [w \in Goroutines |-> Idle]
    /\ clears = 0 /\ begun = 0

Step(w) ==
    \/ Take(w) \/ LoadDomain(w) \/ Resolve(w)
    \/ LoadOwner(w) \/ LoadOwnerAgain(w) \/ QueryIPWho(w) \/ AskCymru(w)
    \/ QueryCymru(w) \/ StoreMiss(w)

Next ==
    \/ \E r \in Pages, rows \in Lists : Begin(r, rows, PageTime)
    \/ \E r \in Details, a \in Asks : Begin(r, <<a>>, DetailTime)
    \/ \E r \in Details : Cancel(r)
    \/ \E r \in Requests : Return(r)
    \/ \E w \in Goroutines : Step(w)
    \/ StopCore \/ StartCore \/ ClearDomains
    \/ Tick

Spec == Init /\ [][Next]_vars

-----------------------------------------------------------------------------
(* However its workers interleave, and whatever other requests leave in the   *)
(* caches: a page asks each service once at most for each address that it     *)
(* shows, no more of the addresses it shows are asked for than its budget     *)
(* allows, and it ends with one result for every address.                     *)
LookedUpOnce ==
    \A r \in Pages : req[r] # Idle =>
        LET asked == {ab \in DOMAIN req[r].asked : req[r].asked[ab] > 0}
        IN  /\ \A ab \in asked : req[r].asked[ab] = 1
            /\ Cardinality({ab[1] : ab \in asked}) <= Limit
            /\ (\A w \in Goroutines : w[1] = r => worker[w] = Idle)
                  => Cardinality(req[r].results) = Cardinality(Range(req[r].rows))

(* What the comment at ip_info.go line 167 says, "Lookups are deduplicated":  *)
(* a page asks for an address once. It asks twice for one that it shows and   *)
(* that a name it shows stands for.                                           *)
AddressAskedOnce ==
    \A r \in Pages : req[r] # Idle =>
        \A ab, cd \in DOMAIN req[r].asked :
            /\ req[r].asked[ab] <= 1
            /\ req[r].asked[ab] > 0 /\ req[r].asked[cd] > 0 /\ ab[2] = cd[2] => ab = cd

Bounded(cache) == Cardinality(DOMAIN cache) <= MaxEntries

(* The caches, shared by all requests, stay within their size; a miss is      *)
(* stored only when both services failed by themselves, never because the     *)
(* deadline of a page or a client that went away cut a query off; and a       *)
(* running core shares its cache of names only with answers that were asked   *)
(* for before it had emptied it and came afterwards.                          *)
CachesHold ==
    /\ Bounded(domains) /\ Bounded(owners)
    /\ \A ip \in DOMAIN owners : ~owners[ip].cut
    /\ \A h \in DOMAIN domains :
          core.on /\ ~core.clearing /\ domains[h].from # core.gen => domains[h].asked < clears
=============================================================================
