---------------------------- MODULE DubboRouting ----------------------------
(***************************************************************************)
(* What the routes of a Dubbo service match (internal/plugin/dubbo/        *)
(* route.go), as operators on the HTTP routes of its VirtualService; where *)
(* they lead to is Generation's BuildRoute.  The StringMatches and their   *)
(* meaning are those of MetaRouterAdmission.                               *)
(***************************************************************************)
EXTENDS MetaRouterAdmission

AnyMethod == [type |-> "any", value |-> Nil]

(* Of several matches of a route the first one is translated.  A method or  *)
(* a header without a match type is left out.                               *)
buildMethodMatch(http) ==
  IF http.match = <<>> \/ (http.match # <<>> /\ Head(http.match).method = Nil) THEN AnyMethod
  ELSE IF Head(http.match).method.type = "" THEN AnyMethod ELSE Head(http.match).method

\* Mutant of buildHeaderMatch: regular expressions are left out.
HeaderMatchNoRegex(http) ==
  IF http.match = <<>> THEN {}
  ELSE LET headers == Head(http.match).headers
       IN  {<<n, headers[n]>> : n \in {n \in DOMAIN headers : headers[n].type \in {"exact", "prefix"}}}

buildHeaderMatch(http) ==
  IF http.match = <<>> THEN {}
  ELSE LET headers == Head(http.match).headers
       IN  {<<n, headers[n]>> : n \in {n \in DOMAIN headers : headers[n].type # ""}}

buildRoute(https) ==
  [i \in DOMAIN https |-> [method |-> buildMethodMatch(https[i]), headers |-> buildHeaderMatch(https[i])]]

(* The data plane takes the first route whose method and headers all match. *)
DubboRouteTaken(routes, call) ==
  First({i \in DOMAIN routes :
           /\ routes[i].method = AnyMethod
              \/ Satisfies(routes[i].method.type, routes[i].method.value, call.method)
           /\ \A h \in routes[i].headers :
                call.headers[h[1]] # Nil /\ Satisfies(h[2].type, h[2].value, call.headers[h[1]])})
=============================================================================
