--------------------------- MODULE UserResources ----------------------------
(***************************************************************************)
(* The resources users write and what is made of them: MetaRouters, which  *)
(* the webhook admits (MetaRouterAdmission) when it is registered          *)
(* (WebhookRegistration), and the DubboAuthorizationPolicies of a          *)
(* namespace, which it does not look at (DubboAuthorization), nor at the   *)
(* VirtualService of a Dubbo service (DubboRouting).  No kind depends on   *)
(* another, nor on more than that the replicas serve: users write          *)
(* resources of one kind at a time, from the moment all replicas serve for *)
(* the first time, and nothing else happens meanwhile.                     *)
(***************************************************************************)
EXTENDS DubboRouting, DubboAuthorization, WebhookRegistration

CONSTANTS
  PolicyNames,     \* 1..n, in the order the API server lists them
  Policies,        \* the policies users write
  PolicyRequests,  \* the requests policies decide about
  Characters,      \* the tokens of strings that are one character
  DubboServices,   \* the HTTP routes of the VirtualServices users write
  DubboCalls       \* the requests they route

(* There are finitely many names, in an order.                              *)
ASSUME PolicyNamesAssumption == PolicyNames \subseteq Nat /\ IsFiniteSet(PolicyNames)

VARIABLES
  policies,  \* the policy of each name, or None
  listed,    \* the policies the builder of the filters got; None before
  https      \* the HTTP routes of the Dubbo service's VirtualService; <<>> for none

NoPolicies == [k \in PolicyNames |-> None]
NoneWritten == policies = NoPolicies /\ listed = None
NoResources == stored = Nil /\ NoneWritten /\ https = <<>>

UserInit == Init /\ HookInit /\ NoneWritten /\ https = <<>>

(* A written policy has the filters generated anew.                         *)
WritePolicy(k, p) ==
  /\ policies[k] # p
  /\ policies' = [policies EXCEPT ![k] = p]
  /\ listed' = None

Stored == Restrict(policies, {k \in PolicyNames : policies[k] # None})

(* builder.New: the policies that are stored or, after an error of List     *)
(* that is only logged, none.                                               *)
NewBuilder ==
  /\ listed' \in {Stored, Restrict(policies, {})}
  /\ UNCHANGED policies

AllServeFirst ==
  /\ ca = 0 /\ starts = Cardinality(Replicas)
  /\ \A r \in Replicas : Serves(r)

UserNext ==
  \/ NoResources /\ HookNext /\ UNCHANGED <<vars, policies, listed, https>>
  \/ /\ AllServeFirst /\ UNCHANGED hookVars
     /\ \/ NoneWritten /\ https = <<>> /\ Next /\ UNCHANGED <<policies, listed, https>>
        \/ /\ stored = Nil /\ https = <<>> /\ UNCHANGED <<vars, https>>
           /\ \/ \E k \in PolicyNames, p \in Policies \cup {None} : WritePolicy(k, p)
              \/ NewBuilder
        \/ /\ stored = Nil /\ NoneWritten /\ UNCHANGED <<vars, policies, listed>>
           /\ https' \in DubboServices \cup {<<>>}

UserSpec == UserInit /\ [][UserNext]_<<vars, hookVars, policies, listed, https>>

-----------------------------------------------------------------------------
(* The data plane.  A request has an interface, a method and a source:      *)
(* <<trust domain, namespace, service account>>, or <<>> without identity.  *)
Principal(source) ==
  IF source = <<>> THEN <<>>
  ELSE source[1] \o <<"/", "ns", "/">> \o source[2] \o <<"/", "sa", "/">> \o source[3]

(* A text matches when it ends where a match of the whole pattern may; ends *)
(* are those of the first i tokens.  In an unquoted pattern a dot matches   *)
(* any character.                                                           *)
Fits(t, p, unquoted) == t = p \/ (unquoted /\ p = "." /\ t \in Characters)

Glob(pattern, text, unquoted) ==
  LET ends[i \in 0..Len(pattern)] ==
        IF i = 0 THEN {0}
        ELSE LET before == ends[i - 1]
             IN  IF pattern[i] = "*" THEN {k \in 0..Len(text) : \E j \in before : j <= k}
                 ELSE {k \in 1..Len(text) : k - 1 \in before /\ Fits(text[k], pattern[i], unquoted)}
  IN  Len(text) \in ends[Len(pattern)]

HasSuffix(v, suffix) ==
  Len(suffix) <= Len(v) /\ SubSeq(v, Len(v) - Len(suffix) + 1, Len(v)) = suffix

StringMatches(m, text) ==
  CASE m.type = "exact"  -> text = m.text
    [] m.type = "prefix" -> HasPrefix(text, m.text)
    [] m.type = "suffix" -> HasSuffix(text, m.text)
    [] m.type = "regex"  -> IF m.text = <<".+">> THEN text # <<>> ELSE Glob(m.text, text, TRUE)

Matched(c, request) ==
  c.negated # \E g \in c.oneOf :
    IF g.on = "principal"
    THEN request.source # <<>> /\ StringMatches(g.matcher, SpiffePrefix \o Principal(request.source))
    ELSE StringMatches(g.matcher, request[g.on])

PolicyMatches(policy, request) ==
  /\ \E and \in policy.permissions : \A c \in and : Matched(c, request)
  /\ \E and \in policy.principals : \A c \in and : Matched(c, request)

Allowed(filters, request) ==
  \A f \in filters :
    f.action = "ALLOW" <=> \E policy \in f.policies : PolicyMatches(policy, request)
-----------------------------------------------------------------------------
(* What a policy says.  A value is a string, "*" for any, or one with a     *)
(* star at its end or its beginning.  Read as the matchers do, unquoted,    *)
(* the dots of a principal that begins with a star are any characters.      *)
Means(v, text, unquoted) == text # <<>> /\ Glob(v, text, unquoted /\ BeginsWithStar(v))

FieldMeans(values, notValues, text, unquoted) ==
  /\ values = <<>> \/ \E v \in Range(values) : Means(v, text, unquoted)
  /\ \A v \in Range(notValues) : ~ Means(v, text, unquoted)

SourceMeans(s, source, unquoted) ==
  /\ FieldMeans(s.namespaces, s.notNamespaces, IF source = <<>> THEN <<>> ELSE source[2], FALSE)
  /\ FieldMeans(s.principals, s.notPrincipals, Principal(source), unquoted)

OperationMeans(o, request) ==
  /\ FieldMeans(o.interfaces, o.notInterfaces, request.interface, FALSE)
  /\ FieldMeans(o.methods, o.notMethods, request.method, FALSE)

RuleMeans(r, request, unquoted) ==
  /\ r.from = <<>> \/ \E s \in Range(r.from) : SourceMeans(s, request.source, unquoted)
  /\ r.to = <<>> \/ \E o \in Range(r.to) : OperationMeans(o, request)

SomeRuleMeans(ps, request) ==
  \E p \in Range(ps) : \E r \in Range(p.rules) : r # None /\ RuleMeans(r, request, TRUE)

(* A filter never matches a request that no rule of the stored policies of  *)
(* its action matches, also when rules have displaced others: an ALLOW      *)
(* filter lets through, and a DENY filter refuses, nothing nobody asked it  *)
(* to, but for the dots in principals that begin with a star.  (There are   *)
(* no filters where the building panics, Overruns.)                         *)
OnlyMeantMatch ==
  listed # None =>
    \A f \in BuildDubboFilter(listed), request \in PolicyRequests :
      /\ ~ Overruns(OfAction(listed, f.action))
      /\ \E policy \in f.policies : PolicyMatches(policy, request)
      => SomeRuleMeans(OfAction(Stored, f.action), request)

(* The i-th rule of the k-th policy stands while no later policy has an     *)
(* i-th rule, which would displace it.                                      *)
Stands(ps, k, i) == k \in RulesAt(ps, i) /\ \A j \in DOMAIN ps : j > k => j \notin RulesAt(ps, i)

StandingRuleMeans(ps, request) ==
  \E k \in DOMAIN ps : \E i \in DOMAIN ps[k].rules :
    Stands(ps, k, i) /\ RuleMeans(ps[k].rules[i], request, FALSE)

(* No principal that becomes a regular expression has a dot.                *)
Quotable(values) == \A v \in Range(values) : BeginsWithStar(v) => "." \notin Range(v)

RuleQuotable(r) ==
  \A s \in Range(r.from) : Quotable(s.principals) /\ Quotable(s.notPrincipals)

PoliciesQuotable(ps) == \A p \in Range(ps) : \A r \in Range(p.rules) \ {None} : RuleQuotable(r)

(* When the policies were listed and have no dots in principals that begin  *)
(* with a star, the filters decide about every request as the rules that    *)
(* stand say, which are all rules unless one displaces another: a request   *)
(* is let through unless such a rule of a DENY policy matches it, or there  *)
(* are ALLOW policies and none of theirs does.                              *)
PoliciesDecide ==
  LET deny  == OfAction(Stored, "DENY")
      allow == OfAction(Stored, "ALLOW")
  IN  listed # None /\ listed = Stored /\ PoliciesQuotable(Stored) /\ ~ Overruns(deny) /\ ~ Overruns(allow) =>
        \A request \in PolicyRequests :
          Allowed(BuildDubboFilter(listed), request)
          <=> /\ ~ StandingRuleMeans(deny, request)
              /\ DOMAIN allow = {} \/ StandingRuleMeans(allow, request)

-----------------------------------------------------------------------------
(* What a VirtualService says: a route is for the calls that one of its     *)
(* matches matches, for all when it has none; the first such route counts.  *)
MatchMeans(match, call) ==
  /\ match.method = Nil \/ AttributeMatches(match.method, call.method)
  /\ \A n \in DOMAIN match.headers : AttributeMatches(match.headers[n], call.headers[n])

RouteMeans(http, call) == http.match = <<>> \/ \E m \in Range(http.match) : MatchMeans(m, call)

(* A Dubbo call takes the route the VirtualService says while its routes    *)
(* have one match each, and never one whose matches do not match it, also   *)
(* when there are others of which only the first is translated.             *)
DubboRouted ==
  \A call \in DubboCalls :
    LET taken == DubboRouteTaken(buildRoute(https), call)
    IN  /\ taken # 0 => RouteMeans(https[taken], call)
        /\ (\A i \in DOMAIN https : Len(https[i].match) <= 1) =>
             taken = First({i \in DOMAIN https : RouteMeans(https[i], call)})
-----------------------------------------------------------------------------
(* What the theorems ask of resources and requests.                         *)

(* A value of a policy is a string with a star at one end at most; one for  *)
(* principals is not written with the alias of another trust domain, which  *)
(* the matchers replace.  A value for namespaces begins with no star: the   *)
(* ".*" it becomes goes past the end of the namespace.  It has no dot, like *)
(* every name of a namespace.                                               *)
IsText(v) == v \in Seq(STRING) /\ v # <<>>
IsValue(v) ==
  IsText(v) /\ \/ \A i \in 2..Len(v) : v[i] # "*"
               \/ \A i \in 1..Len(v) - 1 : v[i] # "*"
IsIdentity(v) == IsValue(v) /\ (InDomain(v, ClusterLocal) => TrustDomain = ClusterLocal)
IsNamespace(v) ==
  IsText(v) /\ (\A i \in 1..Len(v) - 1 : v[i] # "*") /\ \A i \in 1..Len(v) : v[i] \notin {"/", "."}

AllAre(values, Test(_)) == values \in Seq(Seq(STRING)) /\ \A v \in Range(values) : Test(v)

PlainSource(s) ==
  /\ AllAre(s.namespaces, IsNamespace) /\ AllAre(s.notNamespaces, IsNamespace)
  /\ AllAre(s.principals, IsIdentity) /\ AllAre(s.notPrincipals, IsIdentity)

PlainOperation(o) ==
  /\ AllAre(o.interfaces, IsValue) /\ AllAre(o.notInterfaces, IsValue)
  /\ AllAre(o.methods, IsValue) /\ AllAre(o.notMethods, IsValue)

PoliciesPlain ==
  \A p \in Policies :
    /\ IsSequence(p.rules)
    /\ \A r \in Range(p.rules) \ {None} :
         /\ \A s \in Range(r.from) : PlainSource(s)
         /\ \A o \in Range(r.to) : PlainOperation(o)

(* A request names an interface and a method.  The parts of an identity     *)
(* have no slash, and the namespace is not "ns": the matchers would take it *)
(* for the "ns" that announces the namespace.                               *)
RequestsPlain ==
  \A request \in PolicyRequests :
    /\ IsText(request.interface) /\ IsText(request.method)
    /\ request.source # <<>> =>
         /\ \A i \in 1..3 : IsText(request.source[i]) /\ "/" \notin Range(request.source[i])
         /\ request.source[2] # <<"ns">>

(* The matches of a VirtualService's routes have a type each, and a call    *)
(* has a method.                                                            *)
IsList(s) == s \in Seq(Range(s))

CallsTyped ==
  /\ \A service \in DubboServices : IsList(service) /\ \A i \in DOMAIN service :
       /\ IsList(service[i].match)
       /\ \A m \in Range(service[i].match) :
            /\ m.method # Nil => m.method.type \in {"exact", "prefix", "regex"}
            /\ \A n \in DOMAIN m.headers : m.headers[n].type \in {"exact", "prefix", "regex"}
  /\ \A call \in DubboCalls : call.method # Nil
=============================================================================
