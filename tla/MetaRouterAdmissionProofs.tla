--------------------- MODULE MetaRouterAdmissionProofs ----------------------
(***************************************************************************)
(* Proofs about the webhook: what becomes of an admitted MetaRouter, for   *)
(* any set of MetaRouters and any requests, and how it is registered, for  *)
(* any set of replicas and any number of starts and replacements of the    *)
(* CA.                                                                     *)
(***************************************************************************)
EXTENDS MetaRouterAdmission, WebhookRegistration, FiniteSetTheorems, WellFoundedInduction, TLAPS

(* A set of naturals has a least element; facts about all naturals, such as *)
(* those about sums, follow by looking at the least counterexample.         *)
LEMMA Least ==
  ASSUME NEW S \in SUBSET Nat, S # {}
  PROVE  \E n \in S : \A m \in S : n <= m
<1>1. PICK n \in S : \A m \in S : ~ (<<m, n>> \in OpToRel(<, Nat))
  BY WFMin, NatLessThanWellFounded, Zenon
<1>2. \A m \in S : ~ (m < n)
  BY <1>1 DEF OpToRel
<1> QED
  BY <1>2

-----------------------------------------------------------------------------
(* The sums of the first weights of a sequence, as SumOfWeights has them.   *)
IsSum(sum, weights, n) ==
  sum = [i \in 0..n |-> IF i = 0 THEN 0 ELSE sum[i - 1] + weights[i]]

(* They exist.                                                              *)
LEMMA SumExists ==
  ASSUME NEW n \in Nat, NEW weights \in [1..n -> Nat]
  PROVE  \E sum : IsSum(sum, weights, n)
<1> DEFINE without == {k \in 0..n : ~ \E sum : IsSum(sum, weights, k)}
<1>1. SUFFICES ASSUME without # {} PROVE FALSE
  OBVIOUS
<1>2. PICK k \in without : \A m \in without : k <= m
  <2>1. without \in SUBSET Nat
    OBVIOUS
  <2> HIDE DEF without
  <2> QED
    BY <1>1, <2>1, Least
<1>3. k # 0
  <2>1. IsSum([i \in 0..0 |-> 0], weights, 0)
    BY DEF IsSum
  <2> QED
    BY <1>2, <2>1
<1>4. k - 1 \in 0..n /\ k - 1 \notin without
  BY <1>2, <1>3
<1>5. PICK sum : IsSum(sum, weights, k - 1)
  BY <1>4
<1> DEFINE longer == [i \in 0..k |-> IF i = k THEN sum[k - 1] + weights[k] ELSE sum[i]]
<1>6. IsSum(longer, weights, k)
  <2>1. k \in 1..n
    BY <1>2, <1>3
  <2>2. ASSUME NEW i \in 0..k
        PROVE  longer[i] = IF i = 0 THEN 0 ELSE longer[i - 1] + weights[i]
    BY <1>5, <2>1 DEF IsSum
  <2> QED
    BY <2>2 DEF IsSum
<1> QED
  BY <1>2, <1>6

(* SumOfWeights is the last of them.                                        *)
LEMMA SumOfWeightsDef ==
  ASSUME NEW n \in Nat, NEW weights \in [1..n -> Nat]
  PROVE  \E sum : IsSum(sum, weights, n) /\ SumOfWeights(weights) = sum[n]
<1> DEFINE chosen == CHOOSE sum : IsSum(sum, weights, n)
<1>1. IsSum(chosen, weights, n)
  BY SumExists
<1>2. Len(weights) = n
  OBVIOUS
<1>3. SumOfWeights(weights) = chosen[n]
  BY <1>2 DEF SumOfWeights, IsSum
<1> QED
  BY <1>1, <1>3

(* The sum of percentages, none below 0 or above 100.                       *)
LEMMA SumBound ==
  ASSUME NEW n \in Nat, NEW weights \in [1..n -> Nat], \A i \in 1..n : weights[i] <= 100
  PROVE  SumOfWeights(weights) \in 0..100 * n
<1>1. PICK sum : IsSum(sum, weights, n) /\ SumOfWeights(weights) = sum[n]
  BY SumOfWeightsDef
<1> DEFINE beyond == {k \in 0..n : sum[k] \notin 0..100 * k}
<1>2. SUFFICES ASSUME beyond # {} PROVE FALSE
  BY <1>1
<1>3. PICK k \in beyond : \A m \in beyond : k <= m
  <2>1. beyond \in SUBSET Nat
    OBVIOUS
  <2> HIDE DEF beyond
  <2> QED
    BY <1>2, <2>1, Least
<1>4. k # 0
  BY <1>1, <1>3 DEF IsSum
<1>5. k - 1 \in 0..n /\ k - 1 \notin beyond
  BY <1>3, <1>4
<1>6. sum[k] = sum[k - 1] + weights[k] /\ weights[k] \in Nat /\ weights[k] <= 100
  BY <1>1, <1>4 DEF IsSum
<1>7. sum[k - 1] \in 0..100 * (k - 1) /\ k \in Nat
  BY <1>3, <1>5
<1>8. sum[k] \in 0..100 * k
  <2> DEFINE before == sum[k - 1]
  <2>1. before \in Nat /\ before <= 100 * (k - 1)
    BY <1>7
  <2>2. sum[k] = before + weights[k]
    BY <1>6
  <2> HIDE DEF before, beyond
  <2> QED
    BY <1>6, <1>7, <2>1, <2>2
<1> QED
  BY <1>3, <1>8

-----------------------------------------------------------------------------
(* A stored MetaRouter was admitted, and the warnings are those of its      *)
(* admission.                                                               *)
Admitted ==
  /\ stored # Nil => stored \in MetaRouters /\ ValidateMetaRouter(stored)
  /\ warned = IF stored = Nil THEN {} ELSE AnalyzeUnreachableMetaRules(stored.routes)

LEMMA AlwaysAdmitted == Spec => []Admitted
<1>1. Init => Admitted
  BY DEF Init, Admitted
<1>2. Admitted /\ [Next]_vars => Admitted'
  BY MetaRoutersAssumption DEF Admitted, Next, Admit, Refuse, Delete, vars
<1> QED
  BY <1>1, <1>2, PTL DEF Spec

(* A route of an admitted MetaRouter.                                       *)
LEMMA AdmittedRoute ==
  ASSUME Admitted, stored # Nil, NEW i \in DOMAIN stored.routes
  PROVE  /\ stored.routes[i] # Nil /\ ValidateMetaRoute(stored.routes[i])
         /\ IsSequence(stored.routes[i].route)
  BY MetaRoutersAssumption DEF Admitted, ValidateMetaRouter

-----------------------------------------------------------------------------
(* Outcomes with other fields are no failures.                              *)
LEMMA NoFailure ==
  /\ \A c, m : ~ Fails([cluster |-> c, mirror |-> m])
  /\ \A c, w, m : ~ Fails([clusters |-> c, totalWeight |-> w, mirror |-> m])
  /\ \A h, a, q, p : ~ Fails([headers |-> h, action |-> a, requestToAdd |-> q, responseToAdd |-> p])
  /\ \A m, i, t : ~ Fails([maxTokens |-> m, fillInterval |-> i, tokensPerFill |-> t])
  /\ \A b, c : ~ Fails([tokenBucket |-> b, conditions |-> c])
  /\ \A h, d, t : ~ Fails([headers |-> h, descriptors |-> d, timeout |-> t])
  /\ \A f : ~ Fails([filters |-> f])
  BY DEF Fails

(* An admitted route has no missing destination, so it can be translated.   *)
LEMMA RouteTranslates ==
  ASSUME Admitted, stored # Nil, NEW i \in DOMAIN stored.routes
  PROVE  ~ Fails(ConstructRoute(stored.routes[i])) /\ ~ Fails(ConstructAction(stored.routes[i]))
<1> DEFINE route == stored.routes[i]
<1>1. route # Nil
  BY AdmittedRoute
<1>2. \A j \in DOMAIN route.route : route.route[j] # Nil /\ route.route[j].destination # Nil
  BY AdmittedRoute DEF ValidateMetaRoute, ValidateMetaRouteDestinations
<1> HIDE DEF route
<1>3. ~ Fails(ConstructRoute(route))
  BY <1>1, NoFailure DEF ConstructRoute
<1>4. ~ Fails(ConstructAction(route))
  BY <1>2, NoFailure DEF ConstructAction
<1> QED
  BY <1>3, <1>4 DEF route

(* A bucket the webhook accepts has both its pointers.                      *)
LEMMA BucketTranslates ==
  ASSUME NEW bucket, bucket # Nil, ValidateTokenBucket(bucket)
  PROVE  ~ Fails(Crd2tokenBucket(bucket))
  BY NoFailure DEF ValidateTokenBucket, Crd2tokenBucket

LEMMA LocalLimitTranslates ==
  ASSUME NEW limit, limit # Nil, ValidateLocalRateLimit(limit)
  PROVE  ~ Fails(AppendLocalRateLimitFilter(limit))
<1>1. limit.tokenBucket # Nil \/ limit.conditions # <<>>
  BY DEF ValidateLocalRateLimit
<1>2. limit.tokenBucket # Nil => ~ Fails(Crd2tokenBucket(limit.tokenBucket))
  BY BucketTranslates DEF ValidateLocalRateLimit
<1>3. \A i \in DOMAIN limit.conditions :
        /\ limit.conditions[i].tokenBucket # Nil
        /\ ~ Fails(Crd2tokenBucket(limit.conditions[i].tokenBucket))
  BY BucketTranslates DEF ValidateLocalRateLimit, ValidateLocalRateLimitCondition
<1> DEFINE conditions == Crd2Conditions(limit.conditions)
<1>4. \A i \in DOMAIN conditions : ~ Fails(conditions[i].tokenBucket)
  BY <1>3 DEF Crd2Conditions
<1> HIDE DEF conditions
<1> QED
  BY <1>1, <1>2, <1>4, NoFailure DEF AppendLocalRateLimitFilter, conditions

LEMMA GlobalLimitTranslates ==
  ASSUME NEW limit, limit # Nil, ValidateGlobalRateLimit(limit), limit.requestTimeout # Nil
  PROVE  ~ Fails(AppendGlobalRateLimitFilter(limit))
  BY NoFailure DEF ValidateGlobalRateLimit, ValidateRateLimitDescriptors, AppendGlobalRateLimitFilter

(* Whatever was admitted can be translated: the validation of the webhook   *)
(* covers every pointer the generators follow and every error they return,  *)
(* but for the request timeout of a global rate limit.                      *)
THEOREM Translation == Spec => []AdmittedTranslates
<1>1. ASSUME Admitted PROVE AdmittedTranslates
  <2> SUFFICES ASSUME stored # Nil, HasRequestTimeout(stored)
               PROVE  ~ Fails(BuildInboundFilters(stored))
    BY <1>1, RouteTranslates DEF AdmittedTranslates
  <2>1. stored.localRateLimit # Nil =>
          ~ Fails(AppendLocalRateLimitFilter(stored.localRateLimit))
    BY <1>1, LocalLimitTranslates DEF Admitted, ValidateMetaRouter
  <2>2. stored.globalRateLimit # Nil =>
          ~ Fails(AppendGlobalRateLimitFilter(stored.globalRateLimit))
    BY <1>1, GlobalLimitTranslates DEF Admitted, ValidateMetaRouter, HasRequestTimeout
  <2> QED
    BY <2>1, <2>2, NoFailure DEF BuildInboundFilters
<1> QED
  BY <1>1, AlwaysAdmitted, PTL

-----------------------------------------------------------------------------
(* What ConstructAction makes of an admitted route.                         *)
LEMMA ActionOfRoute ==
  ASSUME NEW route, IsSequence(route.route), ValidateMetaRouteDestinations(route.route)
  PROVE  /\ ConstructAction(route).mirror = ConstructMirror(route)
         /\ Len(route.route) > 1 =>
              /\ ConstructAction(route).totalWeight = TotalWeight(route.route)
              /\ \A i \in 1..Len(route.route) :
                   ConstructAction(route).clusters[i].weight = route.route[i].weight
<1>1. \A i \in DOMAIN route.route : route.route[i] # Nil /\ route.route[i].destination # Nil
  BY DEF ValidateMetaRouteDestinations
<1>2. CASE Len(route.route) = 1
  <2>1. ConstructAction(route) = [cluster |-> ClusterOf(route.route[1].destination),
                                  mirror |-> ConstructMirror(route)]
    BY <1>1, <1>2, Zenon DEF ConstructAction
  <2> QED
    BY <1>2, <2>1
<1>3. CASE Len(route.route) # 1
  <2>1. ConstructAction(route) =
          [clusters    |-> [i \in DOMAIN route.route |->
                              [cluster |-> ClusterOf(route.route[i].destination),
                               weight  |-> route.route[i].weight]],
           totalWeight |-> TotalWeight(route.route),
           mirror      |-> ConstructMirror(route)]
    BY <1>1, <1>3, Zenon DEF ConstructAction
  <2> QED
    BY <2>1 DEF IsSequence
<1> QED
  BY <1>2, <1>3

(* Shares of at most 100 that add up to 100 in the integers' width add up   *)
(* to 100.                                                                  *)
LEMMA SharesAddUp ==
  ASSUME NEW dests, IsSequence(dests), ValidateMetaRouteDestinations(dests),
         \A i \in DOMAIN dests : dests[i] # Nil => dests[i].weight \in Nat,
         100 * Len(dests) < WeightModulus + 100, Len(dests) > 1
  PROVE  /\ TotalWeight(dests) = 100
         /\ SumOfWeights([i \in 1..Len(dests) |-> dests[i].weight]) = 100
<1> DEFINE weights == [i \in 1..Len(dests) |-> dests[i].weight]
           total   == SumOfWeights(weights)
<1>1. \A i \in 1..Len(dests) : /\ dests[i] # Nil
                               /\ dests[i].weight \in Nat /\ dests[i].weight <= 100
  BY DEF ValidateMetaRouteDestinations, ValidatePercent, IsSequence
<1>2. weights = [i \in 1..Len(dests) |-> IF dests[i] = Nil THEN 0 ELSE dests[i].weight]
  BY <1>1
<1>3. total % WeightModulus = 100
  <2>1. TotalWeight(dests) = 100
    BY DEF ValidateMetaRouteDestinations
  <2> HIDE DEF weights
  <2> QED
    BY <1>2, <2>1 DEF TotalWeight
<1>4. total \in Nat /\ total <= 100 * Len(dests)
  <2>1. Len(dests) \in Nat
    BY DEF IsSequence
  <2>2. weights \in [1..Len(dests) -> Nat] /\ \A i \in 1..Len(dests) : weights[i] <= 100
    BY <1>1
  <2>3. total \in 0..100 * Len(dests)
    <3> HIDE DEF weights
    <3> QED
      BY <2>1, <2>2, SumBound
  <2> HIDE DEF total
  <2> QED
    BY <2>1, <2>3
<1>5. total = 100
  <2> HIDE DEF total
  <2>1. total < WeightModulus + 100
    BY <1>4, ConstantAssumption DEF IsSequence
  <2>2. total % WeightModulus = IF total < WeightModulus THEN total ELSE total - WeightModulus
    BY <1>4, <2>1, ConstantAssumption
  <2> QED
    BY <1>3, <1>4, <2>1, <2>2, ConstantAssumption
<1> QED
  BY <1>5 DEF ValidateMetaRouteDestinations

(* The share of a mirror.                                                   *)
LEMMA MirrorShare ==
  ASSUME NEW route, ValidateMetaRoute(route), ConstructMirror(route) # Nil
  PROVE  /\ ConstructMirror(route).numerator \in 0..Million
         /\ route.mirrorPercentage = Nil => ConstructMirror(route).numerator = Million
<1> DEFINE percentage == IF route.mirrorPercentage \in {Nil, 0} THEN 100 * Percent
                         ELSE route.mirrorPercentage
<1>1. Percent \in Nat
  BY SMT DEF Percent
<1>2. percentage \in 0..100 * Percent
  BY <1>1, SMT DEF ValidateMetaRoute
<1>3. ConstructMirror(route).numerator = percentage \div 10
  BY DEF ConstructMirror
<1>4. route.mirrorPercentage = Nil => percentage = 100 * Percent
  OBVIOUS
<1> HIDE DEF percentage
<1> QED
  BY <1>1, <1>2, <1>3, <1>4, SMT DEF Million

(* The proxy is told the sum of the shares it gets, and a mirror gets no    *)
(* more than all requests.                                                  *)
THEOREM Shares == Spec => []SharesExact
<1>1. ASSUME Admitted, stored # Nil, NEW i \in DOMAIN stored.routes,
             Len(stored.routes[i].route) > 1
      PROVE  LET route  == stored.routes[i]
                 action == ConstructAction(route)
             IN  /\ action.totalWeight = 100
                 /\ SumOfWeights([j \in 1..Len(route.route) |-> action.clusters[j].weight]) = 100
  <2> DEFINE route == stored.routes[i]
  <2>1. /\ IsSequence(route.route) /\ ValidateMetaRouteDestinations(route.route)
        /\ 100 * Len(route.route) < WeightModulus + 100
        /\ \A j \in DOMAIN route.route : route.route[j] # Nil => route.route[j].weight \in Nat
    BY <1>1, AdmittedRoute, MetaRoutersAssumption DEF Admitted, ValidateMetaRoute
  <2> HIDE DEF route
  <2>2. [j \in 1..Len(route.route) |-> ConstructAction(route).clusters[j].weight]
        = [j \in 1..Len(route.route) |-> route.route[j].weight]
    BY <1>1, <2>1, ActionOfRoute DEF route
  <2>3. ConstructAction(route).totalWeight = TotalWeight(route.route)
    BY <1>1, <2>1, ActionOfRoute DEF route
  <2>4. /\ TotalWeight(route.route) = 100
        /\ SumOfWeights([j \in 1..Len(route.route) |-> route.route[j].weight]) = 100
    BY <1>1, <2>1, SharesAddUp DEF route
  <2> QED
    BY <2>2, <2>3, <2>4 DEF route
<1>2. ASSUME Admitted, stored # Nil, NEW i \in DOMAIN stored.routes,
             ConstructAction(stored.routes[i]).mirror # Nil
      PROVE  LET route  == stored.routes[i]
                 action == ConstructAction(route)
             IN  /\ action.mirror.numerator \in 0..Million
                 /\ route.mirrorPercentage = Nil => action.mirror.numerator = Million
  <2>1. ConstructAction(stored.routes[i]).mirror = ConstructMirror(stored.routes[i])
    BY <1>2, AdmittedRoute, ActionOfRoute DEF ValidateMetaRoute
  <2> QED
    BY <1>2, <2>1, AdmittedRoute, MirrorShare
<1>3. Admitted => SharesExact
  BY <1>1, <1>2 DEF SharesExact
<1> QED
  BY <1>3, AlwaysAdmitted, PTL

-----------------------------------------------------------------------------
(* First is the least of the indices that qualify.                          *)
LEMMA FirstIsLeast ==
  ASSUME NEW S \in SUBSET (Nat \ {0})
  PROVE  /\ S = {} => First(S) = 0
         /\ S # {} => First(S) \in S /\ \A i \in S : First(S) <= i
<1>1. S # {} => \E n \in S : \A i \in S : n <= i
  BY Least
<1> QED
  BY <1>1 DEF First, Min

(* A rule the admission warned of comes after one that takes every request: *)
(* none gets as far as it.                                                  *)
THEOREM Warnings == Spec => []WarnedUnreachable
<1>1. ASSUME Admitted, stored # Nil, NEW request \in Requests
      PROVE  RouteTaken(ConstructRoutes(stored), request) \notin warned
  <2> DEFINE routes == ConstructRoutes(stored)
             taking == {i \in DOMAIN routes : \A h \in routes[i].headers :
                          request[h.name] # Nil /\ Satisfies(h.type, h.value, request[h.name])}
  <2>1. DOMAIN routes = DOMAIN stored.routes /\ DOMAIN routes = 1..Len(stored.routes)
    BY <1>1, MetaRoutersAssumption DEF Admitted, ConstructRoutes, IsSequence
  <2>2. SUFFICES ASSUME NEW i \in warned, First(taking) = i PROVE FALSE
    BY DEF RouteTaken
  <2>3. PICK j \in 1..i - 1 : stored.routes[j] # Nil /\ stored.routes[j].match = Nil
    BY <1>1, <2>2 DEF Admitted, AnalyzeUnreachableMetaRules
  <2>4. i \in 1..Len(stored.routes) /\ Len(stored.routes) \in Nat
    BY <1>1, <2>1, <2>2, MetaRoutersAssumption DEF Admitted, AnalyzeUnreachableMetaRules, IsSequence
  <2>5. j \in DOMAIN routes /\ routes[j].headers = {}
    <3>1. j \in 1..Len(stored.routes)
      BY <2>4
    <3>2. routes[j] = ConstructRoute(stored.routes[j])
      BY <2>1, <3>1 DEF ConstructRoutes
    <3>3. ConstructRoute(stored.routes[j]).headers = {}
      BY <2>3 DEF ConstructRoute, MetaMatch2HttpHeaderMatch
    <3> HIDE DEF routes
    <3> QED
      BY <2>1, <3>1, <3>2, <3>3
  <2>6. j \in taking
    BY <2>5
  <2>7. taking \in SUBSET (Nat \ {0})
    BY <2>1, <2>4
  <2> HIDE DEF taking, routes
  <2> QED
    BY <2>2, <2>3, <2>4, <2>6, <2>7, FirstIsLeast
<1>2. Admitted => WarnedUnreachable
  BY <1>1 DEF WarnedUnreachable
<1> QED
  BY <1>2, AlwaysAdmitted, PTL

(* Every attribute that users match has a match type.                       *)
Typed ==
  \A mr \in MetaRouters : \A i \in DOMAIN mr.routes :
    mr.routes[i] # Nil /\ mr.routes[i].match # Nil =>
      \A n \in DOMAIN mr.routes[i].match :
        mr.routes[i].match[n] # Nil => mr.routes[i].match[n].type # ""

(* The header matchers of a valid match ask what the match does.            *)
LEMMA MatchTranslated ==
  ASSUME NEW match, match # Nil, ValidateMetaRouteMatch(match),
         \A n \in DOMAIN match : match[n].type # "", NEW request
  PROVE  (\A h \in MetaMatch2HttpHeaderMatch(match) :
            request[h.name] # Nil /\ Satisfies(h.type, h.value, request[h.name]))
         <=> \A n \in DOMAIN match : AttributeMatches(match[n], request[n])
<1>1. \A n \in DOMAIN match : ~ IsCatchAllHeaderMatch(match[n])
  BY LanguageAssumption DEF ValidateMetaRouteMatch, ValidateStringMatchRegexp, IsCatchAllHeaderMatch
<1>2. MetaMatch2HttpHeaderMatch(match) =
        {[name |-> n, type |-> match[n].type, value |-> match[n].value] : n \in DOMAIN match}
  BY <1>1 DEF MetaMatch2HttpHeaderMatch
<1>3. \A n \in DOMAIN match :
        AttributeMatches(match[n], request[n])
        <=> request[n] # Nil /\ Satisfies(match[n].type, match[n].value, request[n])
  BY DEF AttributeMatches
<1>4. ASSUME NEW n \in DOMAIN match
      PROVE  [name |-> n, type |-> match[n].type, value |-> match[n].value]
             \in MetaMatch2HttpHeaderMatch(match)
  BY <1>2
<1>5. ASSUME \A h \in MetaMatch2HttpHeaderMatch(match) :
               request[h.name] # Nil /\ Satisfies(h.type, h.value, request[h.name]),
             NEW n \in DOMAIN match
      PROVE  AttributeMatches(match[n], request[n])
  BY <1>3, <1>4, <1>5
<1>6. ASSUME \A n \in DOMAIN match : AttributeMatches(match[n], request[n]),
             NEW h \in MetaMatch2HttpHeaderMatch(match)
      PROVE  request[h.name] # Nil /\ Satisfies(h.type, h.value, request[h.name])
  <2>1. PICK n \in DOMAIN match : h = [name |-> n, type |-> match[n].type, value |-> match[n].value]
    BY <1>2
  <2> QED
    BY <1>3, <1>6, <2>1
<1> QED
  BY <1>5, <1>6

(* When every attribute match has a type, the first route whose header      *)
(* matchers all match is the first route whose attributes do.               *)
THEOREM Routing == Typed => (Spec => []RequestsRouted)
<1> SUFFICES ASSUME Typed PROVE Spec => []RequestsRouted
  OBVIOUS
<1>1. ASSUME Admitted, stored # Nil, NEW request \in Requests, NEW i \in DOMAIN stored.routes
      PROVE  (\A h \in ConstructRoutes(stored)[i].headers :
                request[h.name] # Nil /\ Satisfies(h.type, h.value, request[h.name]))
             <=> (stored.routes[i].match # Nil => \A n \in DOMAIN stored.routes[i].match :
                    AttributeMatches(stored.routes[i].match[n], request[n]))
  <2>1. stored.routes[i] # Nil /\ ValidateMetaRouteMatch(stored.routes[i].match)
    BY <1>1, AdmittedRoute DEF ValidateMetaRoute
  <2>2. ConstructRoutes(stored)[i].headers = MetaMatch2HttpHeaderMatch(stored.routes[i].match)
    BY <2>1 DEF ConstructRoutes, ConstructRoute
  <2>3. CASE stored.routes[i].match = Nil
    BY <2>2, <2>3 DEF MetaMatch2HttpHeaderMatch
  <2>4. CASE stored.routes[i].match # Nil
    <3>1. \A n \in DOMAIN stored.routes[i].match : stored.routes[i].match[n].type # ""
      BY <1>1, <2>1, <2>4 DEF Typed, Admitted, ValidateMetaRouteMatch
    <3> QED
      BY <2>1, <2>2, <2>4, <3>1, MatchTranslated
  <2> QED
    BY <2>3, <2>4
<1>2. ASSUME Admitted, stored # Nil, NEW request \in Requests
      PROVE  RouteTaken(ConstructRoutes(stored), request) = RouteMeant(stored, request)
  <2>1. DOMAIN ConstructRoutes(stored) = DOMAIN stored.routes
    BY DEF ConstructRoutes
  <2> QED
    BY <1>1, <1>2, <2>1 DEF RouteTaken, RouteMeant
<1>3. Admitted => RequestsRouted
  BY <1>2 DEF RequestsRouted
<1> QED
  BY <1>3, AlwaysAdmitted, PTL

-----------------------------------------------------------------------------
(* The webhook compares the entries of exportTo as they are resolved, so    *)
(* that no namespace gets the EnvoyFilters twice.                           *)
THEOREM Exports == Spec => []ExportedOnce
<1>1. ASSUME Admitted, stored # Nil
      PROVE  Cardinality({ExportNamespace(stored, e) : e \in Range(stored.exportTo)})
             = Len(stored.exportTo)
  <2> DEFINE entries == stored.exportTo
             n       == Len(entries)
             targets == {ExportNamespace(stored, e) : e \in Range(entries)}
             target  == [i \in 1..n |-> ExportNamespace(stored, entries[i])]
  <2>1. n \in Nat /\ DOMAIN entries = 1..n
    BY <1>1, MetaRoutersAssumption DEF Admitted, IsSequence
  <2>2. ASSUME NEW i \in 1..n, NEW j \in 1..n, target[i] = target[j] PROVE i = j
    <3>1. ValidateExportTo(stored.ns, entries)
      BY <1>1 DEF Admitted, ValidateMetaRouter
    <3>2. CASE n = 1
      BY <3>2
    <3>3. CASE n # 1
      <4> DEFINE Key(k) == IF entries[k] = "." THEN stored.ns ELSE entries[k]
      <4>1. \A k \in 1..n : Key(k) # "*"
        BY <2>1, <3>1, <3>3 DEF ValidateExportTo
      <4>2. \A k \in 1..n : target[k] = Key(k)
        BY <4>1 DEF ExportNamespace
      <4>3. Key(i) = Key(j) => i = j
        BY <2>1, <3>1 DEF ValidateExportTo
      <4> QED
        BY <2>2, <4>2, <4>3
    <3> QED
      BY <3>2, <3>3
  <2>3. targets = {target[i] : i \in 1..n}
    BY <2>1 DEF Range
  <2>4. target \in Bijection(1..n, targets)
    BY <2>2, <2>3 DEF Bijection, Injection, Surjection, IsInjective
  <2>5. IsFiniteSet(1..n) /\ Cardinality(1..n) = n
    <3> HIDE DEF n
    <3>1. 1 \in Int /\ n \in Int
      BY <2>1
    <3>2. IsFiniteSet(1..n) /\ Cardinality(1..n) = IF 1 > n THEN 0 ELSE n - 1 + 1
      BY <3>1, FS_Interval, Zenon
    <3> QED
      BY <2>1, <3>2
  <2> QED
    BY <2>4, <2>5, FS_Bijection DEF ExistsBijection
<1>2. Admitted => ExportedOnce
  BY <1>1 DEF ExportedOnce
<1> QED
  BY <1>2, AlwaysAdmitted, PTL

-----------------------------------------------------------------------------
(* The registration of the webhook: the registered CA is the present one    *)
(* when all replicas serve with it.                                         *)

\* At first no replica has started, and nothing is registered.
LEMMA InitInvariant == HookInit => HookIInv
  BY WebhookAssumption
  DEF HookInit, HookIInv, HookTypeOK, Config, NoConfig, Down, ReadsPast, StaleIsRewritten

(* A step leaves somebody to rewrite a stale configuration: the replica     *)
(* that takes it, or the one there was.                                     *)
LEMMA StepInvariant == HookIInv /\ [HookNext]_hookVars => HookIInv'
<1> SUFFICES ASSUME HookIInv, [HookNext]_hookVars PROVE HookIInv'
  OBVIOUS
<1>1. CASE UNCHANGED hookVars
  BY <1>1 DEF hookVars, HookIInv, HookTypeOK, ReadsPast, StaleIsRewritten, Content
<1>2. CASE ReplaceCA
  <2>1. \A r \in Replicas : ~ Content(r)'
    BY <1>2 DEF ReplaceCA, HookIInv, HookTypeOK, ReadsPast, Content
  <2> QED
    BY <1>2, <2>1, WebhookAssumption DEF ReplaceCA, HookIInv, HookTypeOK, ReadsPast, StaleIsRewritten
<1>3. ASSUME NEW r \in Replicas, InitRootCA(r) PROVE HookIInv'
  <2> USE <1>3 DEF InitRootCA, Signed
  <2>1. HookTypeOK'
    BY DEF HookIInv, HookTypeOK, Config, NoConfig
  <2>2. \A q \in Replicas : q # r => proc'[q] = proc[q]
    BY DEF HookIInv, HookTypeOK
  <2>3. ~ Content(r)'
    BY DEF HookIInv, HookTypeOK, Config, ReadsPast, Content
  <2>4. StaleIsRewritten'
    BY <2>3 DEF HookIInv, HookTypeOK, Config, StaleIsRewritten
  <2>5. ReadsPast'
    BY <2>1, <2>2 DEF HookIInv, HookTypeOK, Config, ReadsPast, NoConfig
  <2> QED
    BY <2>1, <2>4, <2>5 DEF HookIInv
<1>4. ASSUME NEW r \in Replicas, GetConfig(r) PROVE HookIInv'
  <2> USE <1>4 DEF GetConfig
  <2>1. HookTypeOK'
    BY DEF HookIInv, HookTypeOK
  <2>2. \A q \in Replicas : q # r => proc'[q] = proc[q]
    BY DEF HookIInv, HookTypeOK
  <2>3. config.ca # ca => ~ Content(r)'
    BY DEF HookIInv, HookTypeOK, Config, ReadsPast, Content
  <2>4. StaleIsRewritten'
    BY <2>3 DEF HookIInv, HookTypeOK, Config, StaleIsRewritten
  <2>5. ReadsPast'
    BY <2>1, <2>2 DEF HookIInv, HookTypeOK, Config, ReadsPast, NoConfig
  <2> QED
    BY <2>1, <2>4, <2>5 DEF HookIInv
<1>5. ASSUME NEW r \in Replicas, CreateConfig(r) PROVE HookIInv'
  <2> USE <1>5 DEF CreateConfig, Serve
  <2>1. HookTypeOK'
    BY DEF HookIInv, HookTypeOK, Config, NoConfig
  <2>2. \A q \in Replicas : q # r => proc'[q] = proc[q]
    BY DEF HookIInv, HookTypeOK
  <2>3. proc[r].ca # ca => ~ Content(r)'
    BY DEF HookIInv, HookTypeOK, Config, ReadsPast, Content
  <2>4. StaleIsRewritten'
    BY <2>3 DEF HookIInv, HookTypeOK, Config, StaleIsRewritten
  <2>5. ReadsPast'
    BY <2>1, <2>2 DEF HookIInv, HookTypeOK, Config, ReadsPast, NoConfig
  <2> QED
    BY <2>1, <2>4, <2>5 DEF HookIInv
<1>6. ASSUME NEW r \in Replicas, UpdateConfig(r) PROVE HookIInv'
  <2> USE <1>6 DEF UpdateConfig, Serve
  <2>1. HookTypeOK'
    BY DEF HookIInv, HookTypeOK, Config, NoConfig
  <2>2. \A q \in Replicas : q # r => proc'[q] = proc[q]
    BY DEF HookIInv, HookTypeOK
  <2>3. proc[r].ca # ca => ~ Content(r)'
    BY DEF HookIInv, HookTypeOK, Config, ReadsPast, Content
  <2>4. StaleIsRewritten'
    BY <2>3 DEF HookIInv, HookTypeOK, Config, StaleIsRewritten
  <2>5. ReadsPast'
    BY <2>1, <2>2 DEF HookIInv, HookTypeOK, Config, ReadsPast, NoConfig
  <2> QED
    BY <2>1, <2>4, <2>5 DEF HookIInv
<1>7. ASSUME NEW r \in Replicas, FindEqual(r) PROVE HookIInv'
  <2> USE <1>7 DEF FindEqual, Serve
  <2>1. HookTypeOK'
    BY DEF HookIInv, HookTypeOK, Config, NoConfig
  <2>2. \A q \in Replicas : q # r => proc'[q] = proc[q]
    BY DEF HookIInv, HookTypeOK
  <2>3. \A q \in Replicas : Content(q)' => Content(q)
    BY <2>2 DEF HookIInv, HookTypeOK, Content
  <2>4. StaleIsRewritten'
    BY <2>3 DEF HookIInv, StaleIsRewritten
  <2>5. ReadsPast'
    BY <2>1, <2>2 DEF HookIInv, HookTypeOK, Config, ReadsPast, NoConfig
  <2> QED
    BY <2>1, <2>4, <2>5 DEF HookIInv
<1>8. ASSUME NEW r \in Replicas, EndProcess(r) PROVE HookIInv'
  <2> USE <1>8 DEF EndProcess, Down
  <2>1. HookTypeOK'
    BY DEF HookIInv, HookTypeOK, Config, NoConfig
  <2>2. \A q \in Replicas : q # r => proc'[q] = proc[q]
    BY DEF HookIInv, HookTypeOK
  <2>3. ~ Content(r)'
    BY DEF HookIInv, HookTypeOK, Config, ReadsPast, Content
  <2>4. StaleIsRewritten'
    BY <2>3 DEF HookIInv, HookTypeOK, Config, StaleIsRewritten
  <2>5. ReadsPast'
    BY <2>1, <2>2 DEF HookIInv, HookTypeOK, Config, ReadsPast, NoConfig
  <2> QED
    BY <2>1, <2>4, <2>5 DEF HookIInv
<1> QED
  BY <1>1, <1>2, <1>3, <1>4, <1>5, <1>6, <1>7, <1>8 DEF HookNext

(* The inductive invariant of the registration (GenerateWebhookConfig).     *)
THEOREM HookInductive == HookSpec => []HookIInv
  BY InitInvariant, StepInvariant, PTL DEF HookSpec

(* When every replica serves with a certificate of the present CA, that CA  *)
(* is the registered one, in whatever order they started, failed and wrote. *)
THEOREM Trust == HookSpec => []CallsTrusted
<1>1. HookIInv => CallsTrusted
  BY WebhookAssumption
  DEF HookIInv, HookTypeOK, Config, ReadsPast, StaleIsRewritten, CallsTrusted, Serves, Content
<1> QED
  BY <1>1, HookInductive, PTL
=============================================================================
