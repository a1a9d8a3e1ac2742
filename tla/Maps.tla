-------------------------------- MODULE Maps --------------------------------
(***************************************************************************)
(* The proxy to Yandex Maps (core-api routers/yandex_maps.py over          *)
(* services/yandex_maps.py): a cache of geocoded addresses in Redis and a  *)
(* counter of the calls of a day, which is to warn once at 80 per cent of  *)
(* the quota.  A request is one step per call of Redis or of Yandex.       *)
(***************************************************************************)
EXTENDS Integers, FiniteSets

CONSTANTS
  Lookups,        \* requests that may run at the same time
  Texts,          \* addresses, up to case and outer blanks (_cache_key)
  CacheDays,      \* CACHE_TTL_SECONDS
  WarnAt,         \* DAILY_QUOTA_WARN_THRESHOLD
  LastDay,        \* bound: the last day
  MaxLookups      \* bound: requests

ASSUME MapsAssumption == WarnAt \in Nat \ {0} /\ LastDay \in Nat \ {0} /\ CacheDays \in Nat

VARIABLES
  today,
  cached,     \* yandex:geocode:{digest}: precision and day of expiry
  dayCount,   \* yandex:rate:{date}; its TTL of 48 hours outlives the date
  warnedKey,  \* yandex:rate:{date}:warned
  lookup,     \* the requests under way
  answered,   \* history: precisions of the answers with coordinates
  warnings,   \* history: warnings logged for each date
  abandoned,  \* history: dates of requests that died after they were counted
  lookups

mapsVars == <<today, cached, dayCount, warnedKey, lookup, answered, warnings,
              abandoned, lookups>>

Days == 1..LastDay
NotCached == [precision |-> "none", until |-> 0]
IdleLookup == [pc |-> "idle"]

\* PRECISION_ORDER with what Yandex may send beyond it.
Precisions == <<"other", "near", "range", "street", "number", "exact">>
Upstream == {"unavailable", "refused", "nothing", "unknown", "near", "street", "exact"}

MapsInit ==
  /\ today = 1 /\ lookups = 0
  /\ cached = [t \in Texts |-> NotCached]
  /\ dayCount = [d \in Days |-> 0] /\ warnedKey = {}
  /\ lookup = [k \in Lookups |-> IdleLookup]
  /\ answered = {} /\ warnings = [d \in Days |-> 0] /\ abandoned = {}

\* is_low_precision: what is not in the list counts as the lowest.
LowPrecision(p) == \A i \in 4..6 : Precisions[i] # p

LookupTo(k, q) == lookup' = [lookup EXCEPT ![k] = q]

\* GET of the cache; suggest has none.
StartLookup(k) ==
  /\ lookup[k].pc = "idle" /\ lookups < MaxLookups
  /\ lookups' = lookups + 1
  /\ \E t \in Texts :
       IF cached[t].until >= today
       THEN answered' = answered \cup {cached[t].precision} /\ UNCHANGED lookup
       ELSE LookupTo(k, [pc |-> "call", text |-> t]) /\ UNCHANGED answered
  /\ UNCHANGED <<today, cached, dayCount, warnedKey, warnings, abandoned>>

StartSuggest(k) ==
  /\ lookup[k].pc = "idle" /\ lookups < MaxLookups
  /\ lookups' = lookups + 1
  /\ LookupTo(k, [pc |-> "count"])
  /\ UNCHANGED <<today, cached, dayCount, warnedKey, answered, warnings, abandoned>>

\* 503, 500 and 422 leave no trace: not in the cache, and not in the count.
Geocode(k) ==
  /\ lookup[k].pc = "call"
  /\ \E p \in Upstream :
       LookupTo(k, IF p \in {"unavailable", "refused", "nothing"} \/ LowPrecision(p)
                   THEN IdleLookup ELSE [lookup[k] EXCEPT !.pc = p])
  /\ UNCHANGED <<today, cached, dayCount, warnedKey, answered, warnings, abandoned, lookups>>

\* SETEX, whatever another request for the address has cached meanwhile.
CacheAnswer(k) ==
  /\ lookup[k].pc \in Upstream
  /\ cached' = [cached EXCEPT ![lookup[k].text] =
                  [precision |-> lookup[k].pc, until |-> today + CacheDays]]
  /\ answered' = answered \cup {lookup[k].pc}
  /\ LookupTo(k, [pc |-> "count"])
  /\ UNCHANGED <<today, dayCount, warnedKey, warnings, abandoned, lookups>>

-----------------------------------------------------------------------------
(* _bump_daily_rate                                                        *)

BumpDailyRate(k) ==
  /\ lookup[k].pc = "count"
  /\ dayCount' = [dayCount EXCEPT ![today] = @ + 1]
  /\ LookupTo(k, IF dayCount[today] + 1 >= WarnAt
                 THEN [pc |-> "warn", day |-> today] ELSE IdleLookup)
  /\ UNCHANGED <<today, cached, warnedKey, answered, warnings, abandoned, lookups>>

\* Mutant: the key is set, and it does not matter whether it was there.
FirstToWarnAlways(d) == d \in Days
\* SET NX
FirstToWarn(d) == d \notin warnedKey

Warn(k) ==
  LET d == lookup[k].day IN
  /\ lookup[k].pc = "warn"
  /\ warnings' = IF FirstToWarn(d) THEN [warnings EXCEPT ![d] = @ + 1] ELSE warnings
  /\ warnedKey' = warnedKey \cup {d}
  /\ LookupTo(k, IdleLookup)
  /\ UNCHANGED <<today, cached, dayCount, answered, abandoned, lookups>>

LookupDies(k) ==
  /\ lookup[k].pc # "idle"
  /\ abandoned' = IF lookup[k].pc = "warn" THEN abandoned \cup {lookup[k].day} ELSE abandoned
  /\ LookupTo(k, IdleLookup)
  /\ UNCHANGED <<today, cached, dayCount, warnedKey, answered, warnings, lookups>>

\* UTC midnight
DayEnds ==
  /\ today < LastDay /\ today' = today + 1
  /\ UNCHANGED <<cached, dayCount, warnedKey, lookup, answered, warnings, abandoned, lookups>>

MapsNext ==
  \/ \E k \in Lookups : \/ StartLookup(k) \/ StartSuggest(k) \/ Geocode(k)
                        \/ CacheAnswer(k) \/ BumpDailyRate(k) \/ Warn(k) \/ LookupDies(k)
  \/ DayEnds

MapsSpec == MapsInit /\ [][MapsNext]_mapsVars

-----------------------------------------------------------------------------
\* The quota of a date that reached the threshold is warned about exactly once,
\* however many requests cross it together; a request that dies between the
\* count and the warning leaves it to the next one.  Coordinates are never given
\* out for an address that Yandex placed no better than near a street.
WarnedOnce ==
  /\ answered \subseteq {"street", "number", "exact"}
  /\ \A d \in Days :
       /\ warnings[d] <= 1
       /\ dayCount[d] >= WarnAt /\ d \notin abandoned
          /\ (\A k \in Lookups : lookup[k].pc = "warn" => lookup[k].day # d)
            => warnings[d] = 1

=============================================================================
