----------------------------- MODULE RegistryCache -----------------------------
(***************************************************************************)
(* assert_webhook_allowed: the scheduler's check of a webhook_url against  *)
(* the executor's registry, with its process-wide cache.  The registry is  *)
(* whatever the running executor was started with; a restart may bring the *)
(* next version of it.  A validation looks at the URL's shape, reads the   *)
(* clock once and then, if the cache is stale, awaits a fetch.  The cache  *)
(* has no lock, so fetches of concurrent requests overlap and end in any   *)
(* order.                                                                  *)
(***************************************************************************)
EXTENDS WebhookNames

CONSTANTS
  Requests,    \* concurrent POST /tasks
  Urls,        \* the webhook_urls they bring
  WEBHOOKS,    \* the registries, by version: sets of names
  TTL,         \* _CACHE_TTL_SECONDS
  MaxTime,     \* bound: the clock stops here
  MaxVersion   \* bound: restarts of the executor with another registry

Versions == 0 .. MaxVersion

ASSUME CacheAssumption ==
  /\ TTL \in Nat \ {0}
  /\ MaxTime \in Nat
  /\ MaxVersion \in Nat
  /\ DOMAIN WEBHOOKS = Versions

(* A URL is a sequence, a registered name one segment of a path, with nothing
   in it to decode.                                                         *)
ASSUME UrlsAssumption ==
  /\ \A u \in Urls : u \in Seq(ToSet(u))
  /\ \A v \in Versions :
       WEBHOOKS[v] \cap ({Slash, Dot, DotDot} \cup DOMAIN Decodes) = {}
  /\ {Webhooks, Slash} \cap ({Dot, DotDot} \cup DOMAIN Decodes) = {}

VARIABLES
  clock,     \* time.monotonic()
  version,   \* the registry the executor serves now
  replaced,  \* history: when each earlier version stopped being served
  up,        \* the executor answers
  cache,     \* _CACHE
  val        \* each request's validation

cvars == <<clock, version, replaced, up, cache, val>>

None == -1
Idle == [pc |-> "idle", url |-> <<>>, now |-> 0, got |-> None]

CInit ==
  /\ clock = 0
  /\ version = 0
  /\ replaced = [v \in Versions |-> None]
  /\ up = TRUE
  /\ cache = [webhooks |-> None, expires |-> 0]
  /\ val = [r \in Requests |-> Idle]

Tick ==
  /\ clock < MaxTime
  /\ clock' = clock + 1
  /\ UNCHANGED <<version, replaced, up, cache, val>>

ExecutorStops ==
  /\ up
  /\ up' = FALSE
  /\ UNCHANGED <<clock, version, replaced, cache, val>>

(* It comes back with the same registry or, redeployed, with another.       *)
ExecutorStarts ==
  /\ ~up
  /\ up' = TRUE
  /\ \/ UNCHANGED <<version, replaced>>
     \/ /\ version + 1 \in Versions
        /\ version' = version + 1
        /\ replaced' = [replaced EXCEPT ![version] = clock]
  /\ UNCHANGED <<clock, cache, val>>

Expired == cache.webhooks = None \/ clock >= cache.expires

(* "if name not in registry": the task goes on to its insert or gets a 422. *)
Decision(u, v) == IF Allowed(u, WEBHOOKS[v]) THEN "accepted" ELSE "refused"

(* No name in the URL: refused before the registry is looked at.            *)
Malformed(r) ==
  /\ val[r].pc = "idle"
  /\ \E u \in Urls :
       /\ ParseWebhookName(u) = <<>>
       /\ val' = [val EXCEPT ![r] = [pc |-> "refused", url |-> u, now |-> clock, got |-> None]]
  /\ UNCHANGED <<clock, version, replaced, up, cache>>

Hit(r) ==
  /\ val[r].pc = "idle"
  /\ ~Expired
  /\ \E u \in Urls :
       /\ ParseWebhookName(u) # <<>>
       /\ val' = [val EXCEPT ![r] = [pc |-> Decision(u, cache.webhooks), url |-> u,
                                     now |-> clock, got |-> cache.webhooks]]
  /\ UNCHANGED <<clock, version, replaced, up, cache>>

Miss(r) ==
  /\ val[r].pc = "idle"
  /\ Expired
  /\ \E u \in Urls :
       /\ ParseWebhookName(u) # <<>>
       /\ val' = [val EXCEPT ![r] = [pc |-> "fetching", url |-> u, now |-> clock, got |-> None]]
  /\ UNCHANGED <<clock, version, replaced, up, cache>>

(* The executor writes its answer; it still has to travel.                  *)
Serve(r) ==
  /\ val[r].pc = "fetching" /\ val[r].got = None
  /\ up
  /\ val' = [val EXCEPT ![r].got = version]
  /\ UNCHANGED <<clock, version, replaced, up, cache>>

(* Slip: the clock read after the fetch.                                    *)
Expiry_FromArrival(r) == clock + TTL

(* "now + _CACHE_TTL_SECONDS", with the now of before the fetch.            *)
Expiry(r) == val[r].now + TTL

FetchDone(r) ==
  /\ val[r].pc = "fetching" /\ val[r].got # None
  /\ cache' = [webhooks |-> val[r].got, expires |-> Expiry(r)]
  /\ val' = [val EXCEPT ![r].pc = Decision(val[r].url, val[r].got)]
  /\ UNCHANGED <<clock, version, replaced, up>>

(* The fetch fails or times out: 422, and the cache stays as it is.         *)
FetchFails(r) ==
  /\ val[r].pc = "fetching"
  /\ val' = [val EXCEPT ![r] = Idle]
  /\ UNCHANGED <<clock, version, replaced, up, cache>>

(* The request goes on, with the task accepted or refused.                  *)
Proceed(r) ==
  /\ val[r].pc \in {"accepted", "refused"}
  /\ val' = [val EXCEPT ![r] = Idle]
  /\ UNCHANGED <<clock, version, replaced, up, cache>>

CNext ==
  \/ Tick \/ ExecutorStops \/ ExecutorStarts
  \/ \E r \in Requests : Malformed(r) \/ Hit(r) \/ Miss(r) \/ Serve(r) \/ FetchDone(r)
                         \/ FetchFails(r) \/ Proceed(r)

CSpec == CInit /\ [][CNext]_cvars

Judged(r) == val[r].pc \in {"accepted", "refused"} /\ val[r].got # None

(* README.md:344 "cached 60 seconds", the slow fetch included: a request is
   judged by a registry that the executor was still serving at most TTL before
   the request came, although an old answer can overwrite a newer one in the
   cache.  (A version is served until the next one starts: while the executor
   is down, nothing newer could be known.)                                   *)
DecisionIsRecent ==
  \A r \in Requests :
    Judged(r) /\ val[r].got # version => replaced[val[r].got] >= val[r].now - TTL

(* The name that was validated is the one that runs: an accepted URL has one
   name, between slashes only and registered in the version it was judged by;
   a call of it, to this or any other version of the registry, runs that
   webhook or none, never another one.                                       *)
RunsWhatWasValidated ==
  \A r \in Requests : val[r].pc = "accepted" =>
    LET path == Before(Tail(val[r].url), {Query})
    IN  \E i \in DOMAIN path :
          /\ path[i] \in WEBHOOKS[val[r].got]
          /\ \A j \in DOMAIN path \ {i} : path[j] = Slash
          /\ \A v \in Versions : Runs(val[r].url, WEBHOOKS[v]) \subseteq {path[i]}

(* No URL in the scheduler's own spelling is refused that the registry it was
   judged by, or for a malformed one any registry, would run: the query, which
   the call carries along, does not matter.  Of another spelling (a fragment, a
   dot segment, an encoded name, an alias of the base) that would not be true:
   the router runs what the validation refuses.                              *)
RunnableIsAccepted ==
  \A r \in Requests : val[r].pc = "refused" =>
    \A v \in IF Judged(r) THEN {val[r].got} ELSE Versions :
      Plain(val[r].url) => Runs(val[r].url, WEBHOOKS[v]) = {}

(***************************************************************************)
(* The inductive invariant behind these                                    *)
(***************************************************************************)

CTypeOK ==
  /\ clock \in Nat
  /\ version \in Versions
  /\ replaced \in [Versions -> Nat \cup {None}]
  /\ up \in BOOLEAN
  /\ cache \in [webhooks : Versions \cup {None}, expires : Nat]
  /\ val \in [Requests -> [pc : {"idle", "fetching", "accepted", "refused"},
                           url : Urls \cup {<<>>}, now : Nat, got : Versions \cup {None}]]

(* A version of the registry that is served now, or was at time s or later.  *)
ServedSince(v, s) == v = version \/ replaced[v] >= s

(* Who holds a version got it after a time that is on record: a fetch after its
   own start, the cache TTL before it expires, a decision TTL before its request
   at the earliest.  None of them is from the future.                        *)
HoldsRecent ==
  /\ cache.webhooks # None => ServedSince(cache.webhooks, cache.expires - TTL)
  /\ \A r \in Requests :
       /\ val[r].now <= clock
       /\ val[r].got # None =>
            ServedSince(val[r].got, IF val[r].pc = "fetching" THEN val[r].now
                                    ELSE val[r].now - TTL)

(* A decision was made by the version the validation holds; one without a
   version refuses a URL that has no name.                                  *)
Reasoned(v) ==
  /\ v.pc # "idle" => v.url \in Urls
  /\ v.pc = "accepted" => v.got # None /\ Allowed(v.url, WEBHOOKS[v.got])
  /\ v.pc = "refused" => IF v.got = None THEN ParseWebhookName(v.url) = <<>>
                         ELSE ~Allowed(v.url, WEBHOOKS[v.got])

CacheInv ==
  /\ CTypeOK /\ HoldsRecent
  /\ \A r \in Requests : Reasoned(val[r])
  /\ cache.expires <= clock + TTL
===============================================================================
