----------------------- MODULE MCMetaRouterAdmission -----------------------
(* Instances of UserResources for TLC: families of MetaRouters and         *)
(* policies that vary one part at a time.                                  *)
EXTENDS UserResources, SequencesExt, TLC

host == [length |-> 3, labels |-> <<"dns", "dns">>]
Hosts == {host,
          [length |-> 0, labels |-> <<"">>],
          [length |-> 256, labels |-> <<"dns">>],
          [length |-> 3, labels |-> <<"dns", "numeric">>],
          [length |-> 3, labels |-> <<"dns", "">>],
          [length |-> 3, labels |-> <<"bad", "dns">>]}

Dest(h, s, p) == [host |-> h, subset |-> s, port |-> p]
dest == Dest(host, "", Nil)
Weighted(d, w) == [destination |-> d, weight |-> w]
one == <<Weighted(dest, 0)>>

TheRoute(match, dests) ==
  [match |-> match, route |-> dests, mirror |-> Nil, mirrorPercentage |-> Nil,
   requestMutation |-> <<>>, responseMutation |-> <<>>]
route == TheRoute(Nil, one)

Limits(hosts, routes, local, global, exportTo) ==
  [ns |-> "ns1", hosts |-> hosts, routes |-> routes, localRateLimit |-> local,
   globalRateLimit |-> global, exportTo |-> exportTo]
WithRoutes(routes) == Limits(<<host>>, routes, Nil, Nil, <<>>)

\* hosts and exports
ByHost == {Limits(hs, <<route>>, Nil, Nil, <<>>) : hs \in {<<>>, <<host, host>>} \cup {<<h>> : h \in Hosts}}
ByExport ==
  {Limits(<<host>>, <<route>>, Nil, Nil, e) :
     e \in BoundedSeq({".", "*", "ns1", "ns2", "root", "not a DNS label"}, 2)}

\* destinations, weights and mirrors
Destinations == {Nil, Weighted(Nil, 100)} \cup {Weighted(dest, w) : w \in {0, 44, 50, 100, 156, 200}}
ByWeights ==
  {WithRoutes(<<TheRoute(Nil, ds)>>) : ds \in BoundedSeq(Destinations, 3)}
ByDestination ==
  {WithRoutes(<<TheRoute(Nil, <<Weighted(Dest(h, s, p), 0)>>)>>) :
     h \in Hosts, s \in {"", "v1", "not a DNS label"}, p \in {Nil, 0, 1, 65535, 65536}}
ByMirror ==
  {WithRoutes(<<[route EXCEPT !.mirror = d, !.mirrorPercentage = p]>>) :
     d \in {Nil, dest, Dest(host, "v1", 0)}, p \in {Nil, 0, 5, 50 * Percent, 100 * Percent, 100 * Percent + 1}}
ByMutation ==
  {WithRoutes(<<[route EXCEPT !.requestMutation = ms]>>) :
     ms \in {<<[key |-> k, value |-> v]>> : k, v \in {"", "x"}}}

\* matches; any is the regular expression .*b
a == <<"a">>
ab == <<"a", "b">>
b == <<"b">>
any == <<".", "*", "b">>
Matchers == [type : {"exact", "prefix"}, value : {a}]
            \cup [type : {"regex"}, value : {<<"*">>, any}]
Untyped == [type |-> "", value |-> Nil]
Matches(S) == {Nil} \cup UNION {[A -> S] : A \in SUBSET {"method", "user"}}
ByMatch(S) ==
  {WithRoutes(<<TheRoute(m, one), TheRoute(n, one)>>) : m, n \in Matches(S)}
  \cup {WithRoutes(<<TheRoute(Nil, one), r, TheRoute(Nil, one)>>) :
          r \in {Nil, TheRoute([x \in {"user"} |-> Nil], one), TheRoute([x \in {"method"} |-> [type |-> "exact", value |-> a]], one)}}

MCLanguage == any :> {ab, b}
MCRequests == [{"method", "user"} -> {Nil, a, ab, b}]

\* rate limits
Buckets == {Nil} \cup
  [maxTokens : {0, 1}, fillInterval : {Nil, 1}, tokensPerFill : {Nil, 0, 1}]
Conditions == [match : {Nil, [x \in {"user"} |-> [type |-> "exact", value |-> a]]}, tokenBucket : Buckets]
ByLocalLimit ==
  {Limits(<<host>>, <<>>, [tokenBucket |-> bucket, conditions |-> cs], Nil, <<>>) :
     bucket \in Buckets, cs \in BoundedSeq(Conditions, 1)}
  \cup {Limits(<<host>>, <<>>, Nil, Nil, <<>>)}
ByGlobalLimit ==
  {Limits(<<host>>, <<>>, Nil, [domain |-> d, rateLimitService |-> "x", match |-> Nil,
          descriptors |-> ds, requestTimeout |-> t], <<>>) :
     d \in {"", "x"}, t \in {Nil, 100},
     ds \in BoundedSeq([key : {"", "x"}, property : {"", "x"}], 2)}

MCMetaRouters ==
  ByHost \cup ByExport \cup ByWeights \cup ByDestination \cup ByMirror \cup ByMutation
  \cup ByMatch(Matchers) \cup ByLocalLimit \cup ByGlobalLimit

\* policies: the values of a field, with stars at either end
Names == {Star, a, <<"a", "*">>, <<"*", "b">>}
NamespaceValues == {Star, <<"n">>, <<"n", "*">>}
dotted == <<"a", ".", "b">>
Account == <<"/", "sa", "/">>
Identities == {Star, ClusterLocal \o <<"/", "ns", "/", "n1">> \o Account \o a,
               ClusterLocal \o <<"/", "ns", "/", "*">>, Star \o Account \o a, Star \o Account \o dotted}

Source(n, nn, p, np) == [namespaces |-> n, notNamespaces |-> nn, principals |-> p, notPrincipals |-> np]
Operation(i, ni, m, nm) == [interfaces |-> i, notInterfaces |-> ni, methods |-> m, notMethods |-> nm]
anywhere == Source(<<>>, <<>>, <<>>, <<>>)
n1 == Source(<<<<"n1">>>>, <<>>, <<>>, <<>>)
calls == Operation(<<a>>, <<>>, <<>>, <<b>>)

Rule(from, to) == [from |-> from, to |-> to]
RulesByField ==
  {Rule(<<Source(n, nn, <<>>, <<>>)>>, <<>>) : n, nn \in BoundedSeq(NamespaceValues, 1)}
  \cup {Rule(<<Source(<<>>, <<>>, p, np)>>, <<>>) : p, np \in BoundedSeq(Identities, 1)}
  \cup {Rule(<<>>, <<Operation(i, <<>>, <<>>, nm)>>) : i \in BoundedSeq(Names, 1) \cup {<<a, b>>}, nm \in BoundedSeq({a, <<"*", "b">>}, 1)}
  \cup {Rule(<<Source(<<<<"n", "*">>>>, <<>>, <<>>, <<i>>)>>, <<>>) : i \in Identities}
RulesByPart ==
  {Rule(from, to) : from \in {<<>>, <<anywhere>>, <<n1>>, <<n1, Source(<<>>, <<<<"n", "*">>>>, <<>>, <<>>)>>},
                    to \in BoundedSeq({calls, Operation(<<>>, <<>>, <<Star>>, <<a>>)}, 2)}
SomeRules == {Rule(<<>>, <<>>), Rule(<<n1>>, <<calls>>), Rule(<<>>, <<Operation(<<>>, <<a>>, <<>>, <<>>)>>)}

Policy(action, rules) == [action |-> action, rules |-> rules]
MCPolicies ==
  {Policy("ALLOW", <<r>>) : r \in RulesByField \cup RulesByPart}
  \cup {Policy("DENY", rs) : rs \in BoundedSeq(SomeRules, 2)}
NoPolicy == {}

MCCharacters == {"a", "b", "n", "2", "m", "-", ".", "/"}
MCSources ==
  {<<>>} \cup {<<ClusterLocal, n, s>> : n \in {<<"n1">>, <<"n", "2">>, <<"m">>}, s \in {a, b}}
  \cup {<<ClusterLocal, <<"m">>, s>> : s \in {dotted, <<"a", "-", "b">>}}
MCPolicyRequests == [interface : {a, ab, b}, method : {a, b}, source : MCSources]

\* VirtualServices: one route or two, the first with up to two matches
Compiled == {m \in Matchers : m.type = "regex" => m.value = any}
DubboMatches == [method : {Nil} \cup Compiled, headers : UNION {[A -> Compiled] : A \in SUBSET {"user"}}]
Http(matches) == [match |-> matches]
MCDubboServices ==
  {<<Http(<<m>>), Http(<<n>>)>> : m, n \in DubboMatches}
  \cup {<<Http(<<m, n>>), Http(<<>>)>> : m, n \in {x \in DubboMatches : x.method # Nil}}
MCDubboCalls == [method : {a, ab, b}, headers : [{"user"} -> {Nil, a, ab, b}]]
NoDubboServices == {}

UntypedMetaRouters == ByMatch({Untyped, [type |-> "exact", value |-> a]})

(* The instances are ones the theorems are about.                          *)
ASSUME PoliciesPlain /\ RequestsPlain /\ CallsTyped
=============================================================================
