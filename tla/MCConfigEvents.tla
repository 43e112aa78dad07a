-------------------------- MODULE MCConfigEvents ---------------------------
(* Instances of ConfigEvents for TLC.                                      *)
EXTENDS ConfigEvents

a == <<"a", "ns1">>
b == <<"b", "ns1">>
shortA == <<"a", "">>

meta(n)   == [number |-> n, name |-> <<"tcp", "metaprotocol", "trpc">>]
dubbo(n)  == [number |-> n, name |-> <<"tcp", "dubbo">>]
thrift(n) == [number |-> n, name |-> <<"tcp", "thrift">>]
redis(n)  == [number |-> n, name |-> <<"tcp", "redis">>]
plain(n)  == [number |-> n, name |-> <<"http">>]

Annotations(i) == [interface |-> i, workloadSelector |-> Nil]
Service(hosts, ports, i) ==
  [ns |-> "ns1", annotations |-> Annotations(i),
   spec |-> [hosts |-> hosts, ports |-> ports, addresses |-> {"vip"}, selector |-> {}]]

MCObjects ==
  [se |-> [s1 |-> {Service(<<a>>, <<dubbo(1)>>, "i1"), Service(<<a>>, <<dubbo(1)>>, "i2"),
                   Service(<<a>>, <<plain(1), meta(2)>>, Nil), Service(<<a>>, <<plain(1)>>, Nil)},
           s2 |-> {Service(<<b, a>>, <<meta(1), meta(2)>>, Nil), Service(<<b>>, <<thrift(1)>>, Nil),
                   Service(<<b>>, <<plain(1), redis(2)>>, Nil)}],
   vs |-> [v1 |-> {[ns |-> "ns1", spec |-> [hosts |-> <<h>>, http |-> <<{[subset |-> s, weight |-> 1]}>>]] :
                     h \in {a, b}, s \in {"x"}}],
   dr |-> [d1 |-> {[ns |-> "ns1", spec |-> [host |-> h, hash |-> x, subsets |-> [x |-> x]]] :
                     <<h, x>> \in {<<shortA, "h1">>, <<a, "h2">>, <<b, "h1">>}}],
   gw |-> [g1 |-> {[ns |-> "ns1", spec |-> [servers |-> <<p>>, selector |-> {}]] :
                     p \in {meta(2), plain(1)}}]]

Route(h, p, s) == <<{[host |-> h, port |-> p, subset |-> s, weight |-> 1]}>>
MCMetaRouters ==
  [m1 |-> {[ns |-> "ns1", spec |-> [hosts |-> <<a>>, gateways |-> {<<"", "g1">>},
              routes |-> r, exportTo |-> e, rateLimit |-> Nil]] :
             <<r, e>> \in {<<Route(a, 2, "x"), {}>>, <<Route(b, Nil, Nil), {".", "ns2"}>>}}]

RedisRoute(h, p, x) == [host |-> h, port |-> p, prefix |-> x, mirrors |-> {b}]
MCResources ==
  [rs |-> [r1 |-> {[ns |-> "ns1", spec |-> [hosts |-> <<b>>, auth |-> x, policy |-> "REPLICA", routes |-> r]] :
                     <<x, r>> \in {<<<<"secret", "known">>, <<RedisRoute(b, Nil, Nil), RedisRoute(a, 1, "k")>>>>,
                                  <<<<"secret", "missing">>, <<>>>>}}],
   rd |-> [t1 |-> {[ns |-> "ns1", spec |-> [host |-> b, pool |->
                      [mode |-> "CLUSTER", endpoints |-> {e}, auth |-> <<"plain", "pw">>, tcp |-> Nil]]] :
                     e \in {<<"e", Nil>>, <<"e", "invalid">>}}],
   ap |-> [p1 |-> {[ns |-> "ns1", spec |-> [action |-> x, rules |-> <<[from |-> <<>>, to |-> <<>>]>>]] : x \in {"ALLOW", "DENY"}}]]

MCSecrets == [known |-> "pw", missing |-> Nil]

MCCodecs == [trpc |-> {"codec"}]

(* The objects above meet the conditions under which no change is dropped.  *)
ASSUME HostsDistinct /\ PortsNamed /\ VirtualHostsQualified /\ RedisHostsSupported
=============================================================================
