------------------------- MODULE DubboAuthorization -------------------------
(***************************************************************************)
(* The RBAC filters of a Dubbo service (internal/plugin/dubbo/authz), as   *)
(* operators on the DubboAuthorizationPolicies of its namespace.           *)
(*                                                                         *)
(* A string is a sequence of tokens: characters, the star, the dot and the *)
(* slash among them, and words that are never taken apart.  No source, no  *)
(* operation and no list is the empty sequence.  A matcher is the          *)
(* [type, text] of an Envoy StringMatcher.  In the text of a regular       *)
(* expression the star stands for ".*" and the dot is a dot of RE2: the    *)
(* code quotes no value.  A list from which policies were left out is the  *)
(* list restricted to the places of the others.                            *)
(***************************************************************************)
EXTENDS Integers, Sequences, FiniteSetsExt

CONSTANTS
  None,        \* no policy, and a nil rule
  TrustDomain  \* of the process: ClusterLocal unless it is set

Star == <<"*">>
SpiffePrefix == <<"spiffe://">>
ClusterLocal == <<"cluster", ".", "local">>

-----------------------------------------------------------------------------
(* matcher/string.go                                                        *)
StringMatcherRegex(regex) == [type |-> "regex", text |-> regex]

BeginsWithStar(v) == v # <<>> /\ v[1] = "*"
EndsWithStar(v)   == v # <<>> /\ v[Len(v)] = "*"

StringMatcherWithPrefix(v, prefix) ==
  CASE v = Star -> StringMatcherRegex(<<".+">>)
    [] v # Star /\ BeginsWithStar(v) ->
         IF prefix = <<>> THEN [type |-> "suffix", text |-> Tail(v)]
         ELSE StringMatcherRegex(prefix \o Star \o Tail(v))
    [] ~ BeginsWithStar(v) /\ EndsWithStar(v) ->
         [type |-> "prefix", text |-> prefix \o SubSeq(v, 1, Len(v) - 1)]
    [] OTHER -> [type |-> "exact", text |-> prefix \o v]

\* Mutant of MatchOf: the regular expression of a namespace is not closed.
MatchUnclosed(key, v) ==
  CASE key \in {"interface", "method"} ->
         [on |-> key, matcher |-> StringMatcherWithPrefix(v, <<>>)]
    [] key = "namespace" ->
         [on |-> "principal", matcher |-> StringMatcherRegex(<<"*", "/", "ns", "/">> \o v \o <<"*">>)]
    [] key = "principal" ->
         [on |-> "principal", matcher |-> StringMatcherWithPrefix(v, SpiffePrefix)]

(* The generators: what of a request is matched, and how (generator.go).    *)
MatchOf(key, v) ==
  CASE key \in {"interface", "method"} ->
         [on |-> key, matcher |-> StringMatcherWithPrefix(v, <<>>)]
    [] key = "namespace" ->
         [on |-> "principal", matcher |-> StringMatcherRegex(<<"*", "/", "ns", "/">> \o v \o <<"/", "*">>)]
    [] key = "principal" ->
         [on |-> "principal", matcher |-> StringMatcherWithPrefix(v, SpiffePrefix)]

(* trustdomain.Bundle with the process's own trust domain and no aliases.   *)
InDomain(v, domain) ==
  Len(domain) < Len(v) /\ SubSeq(v, 1, Len(domain) + 1) = domain \o <<"/">>

ReplaceTrustDomainAliases(v) ==
  IF InDomain(v, ClusterLocal)
  THEN TrustDomain \o SubSeq(v, Len(ClusterLocal) + 1, Len(v)) ELSE v

-----------------------------------------------------------------------------
(* model.go                                                                 *)
\* Mutant of insertFront: a field with exceptions only is left out.
InsertValuesOnly(list, key, values, notValues) ==
  IF values = <<>> THEN list
  ELSE <<[key |-> key, values |-> values, notValues |-> notValues]>> \o list

insertFront(list, key, values, notValues) ==
  IF values = <<>> /\ notValues = <<>> THEN list
  ELSE <<[key |-> key, values |-> values, notValues |-> notValues]>> \o list

(* The alternatives of a rule: one list of fields for each source, and for  *)
(* each operation; an empty one for none.                                   *)
NewPrincipals(r) ==
  IF r.from = <<>> THEN {<<>>}
  ELSE {LET namespaces == insertFront(<<>>, "namespace", s.namespaces, s.notNamespaces)
        IN  insertFront(namespaces, "principal", s.principals, s.notPrincipals) : s \in Range(r.from)}

NewPermissions(r) ==
  IF r.to = <<>> THEN {<<>>}
  ELSE {LET interfaces == insertFront(<<>>, "interface", o.interfaces, o.notInterfaces)
        IN  insertFront(interfaces, "method", o.methods, o.notMethods) : o \in Range(r.to)}

MigrateTrustDomain(list) ==
  [i \in DOMAIN list |->
     IF list[i].key # "principal" THEN list[i]
     ELSE [list[i] EXCEPT !.values = [j \in DOMAIN @ |-> ReplaceTrustDomainAliases(@[j])],
                          !.notValues = [j \in DOMAIN @ |-> ReplaceTrustDomainAliases(@[j])]]]

(* permission and principal: one of the values, and none of the exceptions. *)
MatchersOf(key, values) == {MatchOf(key, v) : v \in Range(values)}
ConditionsOf(field) ==
  {c \in {[negated |-> FALSE, oneOf |-> MatchersOf(field.key, field.values)],
          [negated |-> TRUE, oneOf |-> MatchersOf(field.key, field.notValues)]} : c.oneOf # {}}

(* The conjunction over the fields; "any", here none of no matchers, where  *)
(* there is nothing to match.                                               *)
AnyRequest == [negated |-> TRUE, oneOf |-> {}]

AllOf(list) ==
  LET and == UNION {ConditionsOf(field) : field \in Range(list)}
  IN  IF and = {} THEN {AnyRequest} ELSE and

GeneratePolicy(r) ==
  [permissions |-> {AllOf(list) : list \in NewPermissions(r)},
   principals  |-> {AllOf(MigrateTrustDomain(list)) : list \in NewPrincipals(r)}]

-----------------------------------------------------------------------------
(* builder.go                                                               *)
OfAction(policies, action) ==
  Restrict(policies, {k \in DOMAIN policies : policies[k].action = action})

Length(policies) == Cardinality(DOMAIN policies)

(* A policy with more rules than there are policies of its action makes the *)
(* building panic: a rule's name is that of the policy at the rule's index. *)
Overruns(policies) == \E p \in Range(policies) : Len(p.rules) > Length(policies)

(* For the same reason the rules are kept by their index: the one of the    *)
(* last policy takes the place of the others'.                              *)
RulesAt(policies, i) ==
  {k \in DOMAIN policies : i <= Len(policies[k].rules) /\ policies[k].rules[i] # None}

Build(policies, action) ==
  [action   |-> action,
   policies |-> {GeneratePolicy(policies[Max(RulesAt(policies, i))].rules[i]) :
                   i \in {i \in 1..Length(policies) : RulesAt(policies, i) # {}}}]

BuildDubboFilter(policies) ==
  {Build(OfAction(policies, x), x) :
     x \in {x \in {"DENY", "ALLOW"} : DOMAIN OfAction(policies, x) # {}}}

=============================================================================
