------------------------ MODULE MetaRouterAdmission ------------------------
(***************************************************************************)
(* The life of one MetaRouter: the validating webhook admits it            *)
(* (internal/webhook/validation) and the generators translate what was     *)
(* admitted to the data plane's routes and rate limits (internal/xds and   *)
(* internal/plugin/metaprotocol).  The generators check little themselves: *)
(* they follow pointers and add up weights as they find them.              *)
(*                                                                         *)
(* A missing object is Nil.  Strings are abstract, but for what is tested: *)
(* a host is its length and the classes of its labels, an attribute's      *)
(* value is a sequence of letters, a subset or a key is "" or not.  A      *)
(* percentage is a number of hundred-thousandths of a percent.             *)
(***************************************************************************)
EXTENDS Integers, Sequences, FiniteSetsExt

CONSTANTS
  Nil,
  MetaRouters,   \* the MetaRouters users write
  Language,      \* [regular expression that compiles -> the values it matches]
  Requests,      \* the requests of the data plane: [attribute -> value or Nil]
  ServicePort,   \* the number of the service's port
  RootNamespace,
  WeightModulus  \* of the integers weights are added in (2^32)

ASSUME ConstantAssumption == WeightModulus \in Nat /\ WeightModulus > 100

(* A star by itself is no regular expression.                               *)
ASSUME LanguageAssumption == <<"*">> \notin DOMAIN Language

(* What the schema of the resource says of every MetaRouter, valid or not.  *)
(* Weights are unsigned, and an object has not the size for so many         *)
(* destinations of at most 100 that their sum wraps to 100.                 *)
IsSequence(s) == Len(s) \in Nat /\ DOMAIN s = 1..Len(s)

ASSUME MetaRoutersAssumption ==
  \A mr \in MetaRouters :
    /\ mr # Nil
    /\ IsSequence(mr.routes) /\ IsSequence(mr.exportTo)
    /\ \A i \in DOMAIN mr.routes : mr.routes[i] # Nil =>
         LET dests == mr.routes[i].route
         IN  /\ IsSequence(dests) /\ 100 * Len(dests) < WeightModulus + 100
             /\ \A j \in DOMAIN dests : dests[j] # Nil => dests[j].weight \in Nat

VARIABLES
  stored,  \* the MetaRouter in the API server, or Nil
  warned   \* the rules its last admission warned of

vars == <<stored, warned>>

Percent == 100000
Million == 10 * Percent  \* the denominator of a mirror's share

(* The outcomes of following a nil pointer, and of an error.                *)
Panic == [failure |-> "panic"]
Error == [failure |-> "error"]
Fails(outcome) == "failure" \in DOMAIN outcome

-----------------------------------------------------------------------------
(* Validation (scheme/validation.go).  Errors are collected, none is final: *)
(* an object is valid when nothing was collected.                           *)
ValidatePort(number) == number \in 1..65535

ValidateFQDN(host) ==
  LET last == Len(host.labels)
  IN  /\ host.length \in 1..255
      /\ host.labels[last] # "numeric"
      /\ \A i \in 1..last :
           host.labels[i] \in {"dns", "numeric"} \/ (i = last /\ host.labels[i] = "")

ValidateSubsetName(name) == name # "not a DNS label"

ValidateDestination(d) ==
  d # Nil => /\ ValidateFQDN(d.host)
             /\ d.subset # "" => ValidateSubsetName(d.subset)
             /\ d.port # Nil => ValidatePort(d.port)

SumOfWeights(weights) ==
  LET sum[i \in 0..Len(weights)] == IF i = 0 THEN 0 ELSE sum[i - 1] + weights[i]
  IN  sum[Len(weights)]

(* A missing destination adds nothing.                                      *)
TotalWeight(dests) ==
  SumOfWeights([i \in 1..Len(dests) |-> IF dests[i] = Nil THEN 0 ELSE dests[i].weight])
  % WeightModulus

\* Mutant of ValidatePercent: the weights are not bounded one by one.
AnyPercent(weight) == TRUE

ValidatePercent(weight) == weight <= 100

ValidateMetaRouteDestinations(dests) ==
  /\ dests # <<>>
  /\ \A i \in DOMAIN dests :
       /\ dests[i] # Nil /\ dests[i].destination # Nil
       /\ ValidateDestination(dests[i].destination)
       /\ ValidatePercent(dests[i].weight)
  /\ Len(dests) > 1 => TotalWeight(dests) = 100

ValidateStringMatchRegexp(match) ==
  match.type = "regex" => match.value \in DOMAIN Language

ValidateMetaRouteMatch(match) ==
  match # Nil => \A name \in DOMAIN match :
    match[name] # Nil /\ name # "" /\ ValidateStringMatchRegexp(match[name])

ValidateMutation(mutation) ==
  \A i \in DOMAIN mutation : mutation[i].key # "" /\ mutation[i].value # ""

ValidateMetaRoute(route) ==
  /\ ValidateMetaRouteMatch(route.match)
  /\ ValidateMutation(route.requestMutation) /\ ValidateMutation(route.responseMutation)
  /\ route.mirrorPercentage # Nil =>
       route.mirror # Nil /\ route.mirrorPercentage \in 1..100 * Percent
  /\ ValidateDestination(route.mirror)
  /\ ValidateMetaRouteDestinations(route.route)

\* Mutant of ValidateTokenBucket: the refill may be missing.
BucketWithoutRefill(bucket) ==
  bucket # Nil => bucket.fillInterval # Nil /\ bucket.maxTokens >= 1

ValidateTokenBucket(bucket) ==
  bucket # Nil => /\ bucket.fillInterval # Nil
                  /\ bucket.tokensPerFill # Nil /\ bucket.tokensPerFill >= 1
                  /\ bucket.maxTokens >= 1

ValidateLocalRateLimitCondition(condition) ==
  /\ condition.match # Nil /\ ValidateMetaRouteMatch(condition.match)
  /\ condition.tokenBucket # Nil /\ ValidateTokenBucket(condition.tokenBucket)

ValidateLocalRateLimit(limit) ==
  limit # Nil => /\ limit.tokenBucket # Nil \/ limit.conditions # <<>>
                 /\ ValidateTokenBucket(limit.tokenBucket)
                 /\ \A i \in DOMAIN limit.conditions :
                      ValidateLocalRateLimitCondition(limit.conditions[i])

ValidateRateLimitDescriptors(descriptors) ==
  /\ descriptors # <<>>
  /\ \A i \in DOMAIN descriptors : descriptors[i].key # "" /\ descriptors[i].property # ""

ValidateGlobalRateLimit(limit) ==
  limit # Nil => /\ limit.domain # "" /\ limit.rateLimitService # ""
                 /\ ValidateMetaRouteMatch(limit.match)
                 /\ ValidateRateLimitDescriptors(limit.descriptors)

\* Mutant of ValidateExportTo: "." is not resolved before the comparison.
ExportToUnresolved(ns, exportTo) ==
  /\ \A i, j \in DOMAIN exportTo : exportTo[i] = exportTo[j] => i = j
  /\ \A i \in DOMAIN exportTo : exportTo[i] # "not a DNS label"
  /\ \A i \in DOMAIN exportTo : exportTo[i] \in {"*", "~"} => Len(exportTo) = 1

(* No entry twice, with "." for the namespace of the MetaRouter; "*" and    *)
(* "~" only by themselves.                                                  *)
ValidateExportTo(ns, exportTo) ==
  LET key(i) == IF exportTo[i] = "." THEN ns ELSE exportTo[i]
  IN  /\ \A i, j \in DOMAIN exportTo : key(i) = key(j) => i = j
      /\ \A i \in DOMAIN exportTo : key(i) # "not a DNS label"
      /\ \A i \in DOMAIN exportTo : key(i) \in {"*", "~"} => Len(exportTo) = 1

ValidateMetaRouter(mr) ==
  /\ Len(mr.hosts) = 1 /\ ValidateFQDN(mr.hosts[1])
  /\ mr.routes # <<>> \/ mr.globalRateLimit # Nil \/ mr.localRateLimit # Nil
  /\ \A i \in DOMAIN mr.routes : mr.routes[i] # Nil /\ ValidateMetaRoute(mr.routes[i])
  /\ ValidateExportTo(mr.ns, mr.exportTo)
  /\ ValidateGlobalRateLimit(mr.globalRateLimit)
  /\ ValidateLocalRateLimit(mr.localRateLimit)

\* Mutant of AnalyzeUnreachableMetaRules: the earlier of two rules
\* without a match is the one warned of.
EarlierRulesUnreachable(routes) ==
  {i \in DOMAIN routes : /\ routes[i] # Nil /\ routes[i].match = Nil
                         /\ \E j \in i + 1..Len(routes) : routes[j] # Nil /\ routes[j].match = Nil}

(* The rules without a match after another one.                             *)
AnalyzeUnreachableMetaRules(routes) ==
  {i \in DOMAIN routes : /\ routes[i] # Nil /\ routes[i].match = Nil
                         /\ \E j \in 1..i - 1 : routes[j] # Nil /\ routes[j].match = Nil}

-----------------------------------------------------------------------------
(* The webhook (server/server.go).  It is registered for creations and      *)
(* updates, and the API server refuses them when the webhook does not       *)
(* answer (FailurePolicy Fail).                                             *)
Init == stored = Nil /\ warned = {}

Admit(mr) ==
  /\ ValidateMetaRouter(mr)
  /\ stored' = mr
  /\ warned' = AnalyzeUnreachableMetaRules(mr.routes)

Refuse(mr) == ~ ValidateMetaRouter(mr) /\ UNCHANGED vars

Delete == stored # Nil /\ stored' = Nil /\ warned' = {}

Next == Delete \/ \E mr \in MetaRouters : Admit(mr) \/ Refuse(mr)

Spec == Init /\ [][Next]_vars

-----------------------------------------------------------------------------
(* The translation.                                                         *)
(* MetaMatch2HttpHeaderMatch: an attribute without a match type is left out.*)
IsCatchAllHeaderMatch(match) == match = Nil \/ (match.type = "regex" /\ match.value = <<"*">>)

\* Mutant of MetaMatch2HttpHeaderMatch: a regular expression falls in the
\* default branch.
HeaderMatchWithoutRegex(match) ==
  IF match = Nil THEN {}
  ELSE {[name |-> n, type |-> match[n].type, value |-> match[n].value] :
          n \in {n \in DOMAIN match : match[n].type \in {"exact", "prefix"}}}

MetaMatch2HttpHeaderMatch(match) ==
  IF match = Nil THEN {}
  ELSE {[name  |-> n,
         type  |-> IF IsCatchAllHeaderMatch(match[n]) THEN "present" ELSE match[n].type,
         value |-> IF IsCatchAllHeaderMatch(match[n]) THEN Nil ELSE match[n].value] :
          n \in {n \in DOMAIN match : IsCatchAllHeaderMatch(match[n]) \/ match[n].type # ""}}

DestinationPort(d) == IF d.port \in {Nil, 0} THEN ServicePort ELSE d.port
ClusterOf(d) == <<DestinationPort(d), d.subset, d.host>>

ConstructMirror(route) ==
  LET percentage == IF route.mirrorPercentage \in {Nil, 0} THEN 100 * Percent
                    ELSE route.mirrorPercentage
  IN  IF route.mirror = Nil THEN Nil
      ELSE [cluster   |-> ClusterOf(route.mirror),
            numerator |-> percentage \div 10]

ConstructAction(route) ==
  CASE \E i \in DOMAIN route.route : route.route[i] = Nil -> Panic
    [] \E i \in DOMAIN route.route : route.route[i].destination = Nil -> Panic
    [] Len(route.route) = 1 ->
         [cluster |-> ClusterOf(route.route[1].destination), mirror |-> ConstructMirror(route)]
    [] OTHER ->
         [clusters    |-> [i \in DOMAIN route.route |->
                             [cluster |-> ClusterOf(route.route[i].destination),
                              weight  |-> route.route[i].weight]],
          totalWeight |-> TotalWeight(route.route),
          mirror      |-> ConstructMirror(route)]

ConstructRoute(route) ==
  IF route = Nil THEN Panic
  ELSE [headers        |-> MetaMatch2HttpHeaderMatch(route.match),
        action         |-> ConstructAction(route),
        requestToAdd   |-> route.requestMutation,
        responseToAdd  |-> route.responseMutation]

ConstructRoutes(mr) == [i \in DOMAIN mr.routes |-> ConstructRoute(mr.routes[i])]

Crd2tokenBucket(bucket) ==
  IF bucket.fillInterval = Nil \/ bucket.tokensPerFill = Nil THEN Panic
  ELSE [maxTokens     |-> bucket.maxTokens,
        fillInterval  |-> bucket.fillInterval,
        tokensPerFill |-> IF bucket.tokensPerFill = 0 THEN Nil ELSE bucket.tokensPerFill]

(* A condition without a bucket is left out, the others keep their order.   *)
Crd2Conditions(conditions) ==
  [i \in {i \in DOMAIN conditions : conditions[i].tokenBucket # Nil} |->
     [tokenBucket |-> Crd2tokenBucket(conditions[i].tokenBucket),
      headers     |-> MetaMatch2HttpHeaderMatch(conditions[i].match)]]

AppendLocalRateLimitFilter(limit) ==
  LET bucket     == IF limit.tokenBucket = Nil THEN Nil ELSE Crd2tokenBucket(limit.tokenBucket)
      conditions == Crd2Conditions(limit.conditions)
  IN  CASE limit.tokenBucket = Nil /\ limit.conditions = <<>> -> Error
        [] limit.tokenBucket # Nil /\ Fails(bucket) -> Panic
        [] \E i \in DOMAIN conditions : Fails(conditions[i].tokenBucket) -> Panic
        [] OTHER -> [tokenBucket |-> bucket, conditions |-> conditions]

AppendGlobalRateLimitFilter(limit) ==
  CASE limit.descriptors = <<>>   -> Error
    [] limit.requestTimeout = Nil -> Panic
    [] OTHER -> [headers     |-> MetaMatch2HttpHeaderMatch(limit.match),
                 descriptors |-> limit.descriptors,
                 timeout     |-> limit.requestTimeout]

(* The local filter is built first; an error or a panic ends the building.  *)
BuildInboundFilters(mr) ==
  LET localFilter  == IF mr.localRateLimit = Nil THEN <<>>
                      ELSE <<AppendLocalRateLimitFilter(mr.localRateLimit)>>
      globalFilter == IF mr.globalRateLimit = Nil THEN <<>>
                      ELSE <<AppendGlobalRateLimitFilter(mr.globalRateLimit)>>
  IN  IF localFilter # <<>> /\ Fails(localFilter[1]) THEN localFilter[1]
      ELSE IF globalFilter # <<>> /\ Fails(globalFilter[1]) THEN globalFilter[1]
      ELSE [filters |-> localFilter \o globalFilter
                        \o <<"metadata_exchange", "istio_stats", "router">>]

(* The namespace of an entry of exportTo (createEnvoyFiltersOnExportNSs).   *)
ExportNamespace(mr, entry) ==
  CASE entry = "." -> mr.ns [] entry = "*" -> RootNamespace [] OTHER -> entry

-----------------------------------------------------------------------------
(* The data plane: a request takes the first route all of whose header      *)
(* matchers match it, 0 if none does.                                       *)
First(S) == IF S = {} THEN 0 ELSE Min(S)

HasPrefix(v, prefix) == Len(prefix) <= Len(v) /\ SubSeq(v, 1, Len(prefix)) = prefix

Satisfies(type, value, v) ==
  CASE type = "present" -> TRUE
    [] type = "exact"   -> v = value
    [] type = "prefix"  -> HasPrefix(v, value)
    [] type = "regex"   -> v \in Language[value]

RouteTaken(routes, request) ==
  First({i \in DOMAIN routes : \A h \in routes[i].headers :
           request[h.name] # Nil /\ Satisfies(h.type, h.value, request[h.name])})

-----------------------------------------------------------------------------
(* Whatever the webhook admits, the generators can translate: they follow   *)
(* no nil pointer and meet no error.  The one pointer the webhook does not  *)
(* look at is the request timeout of a global rate limit.                   *)
HasRequestTimeout(mr) == mr.globalRateLimit # Nil => mr.globalRateLimit.requestTimeout # Nil

AdmittedTranslates ==
  stored # Nil =>
    /\ \A i \in DOMAIN stored.routes :
         ~ Fails(ConstructRoute(stored.routes[i])) /\ ~ Fails(ConstructAction(stored.routes[i]))
    /\ HasRequestTimeout(stored) => ~ Fails(BuildInboundFilters(stored))

(* The shares of the destinations of an admitted route add up to the total  *)
(* the proxy is told, although both sums are taken modulo the integers'     *)
(* width; and a mirror gets a part of the requests, all when none is named. *)
SharesExact ==
  stored # Nil =>
    \A i \in DOMAIN stored.routes :
      LET route  == stored.routes[i]
          action == ConstructAction(route)
      IN  /\ Len(route.route) > 1 =>
               /\ action.totalWeight = 100
               /\ SumOfWeights([j \in 1..Len(route.route) |-> action.clusters[j].weight]) = 100
          /\ action.mirror # Nil =>
               /\ action.mirror.numerator \in 0..Million
               /\ route.mirrorPercentage = Nil => action.mirror.numerator = Million

(* A request takes the route the MetaRouter says: the first one all of      *)
(* whose attributes it has, with a value that matches; by the description   *)
(* of the resource, an attribute without a value asks for its presence.     *)
AttributeMatches(match, v) ==
  v # Nil /\ Satisfies(IF match.type = "" THEN "present" ELSE match.type, match.value, v)

RouteMeant(mr, request) ==
  First({i \in DOMAIN mr.routes :
           mr.routes[i].match # Nil => \A n \in DOMAIN mr.routes[i].match :
             AttributeMatches(mr.routes[i].match[n], request[n])})

RequestsRouted ==
  stored # Nil => \A request \in Requests :
    RouteTaken(ConstructRoutes(stored), request) = RouteMeant(stored, request)

(* No request ever takes a route the admission warned of.                   *)
WarnedUnreachable ==
  stored # Nil => \A request \in Requests : RouteTaken(ConstructRoutes(stored), request) \notin warned

(* The EnvoyFilters of an admitted MetaRouter are exported to as many       *)
(* namespaces as it lists: none is written twice under the same name.       *)
ExportedOnce ==
  stored # Nil =>
    Cardinality({ExportNamespace(stored, e) : e \in Range(stored.exportTo)}) = Len(stored.exportTo)
=============================================================================
