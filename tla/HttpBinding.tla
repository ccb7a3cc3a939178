------------------------------ MODULE HttpBinding ------------------------------
(***************************************************************************)
(* The HTTP binding of a service, end to end: what the macro accepts       *)
(* (fusen-macro validate.rs), the contract made of it                      *)
(* (fusen-contract/service.rs), the request the client encodes             *)
(* (wire/mod.rs), the route the server finds and the arguments it decodes  *)
(* (server/routes.rs, interface.rs).                                       *)
(*                                                                         *)
(* A path is the sequence of its segments, "/" being the one with a single *)
(* empty segment.  A text is one of a few with what matters of its         *)
(* characters: whether it is empty, has a delimiter, may stand in a cookie *)
(* or in a header, or reads as a JSON scalar.  A segment on the wire is    *)
(* percent-encoded.                                                        *)
(***************************************************************************)
EXTENDS Naturals, Sequences, FiniteSets, SequencesExt

CONSTANTS Methods,        \* HTTP methods of the declarations
          Templates,      \* path templates of the declarations
          SecondSources,  \* sources of a second parameter
          Texts,          \* texts that arguments consist of
          MaxQueryPairs   \* max_query_pairs of the server

Literal(name) == [kind |-> "literal", name |-> name]
Placeholder(name) == [kind |-> "parameter", name |-> name]

\* urlencoding::encode and decode, for the texts of the instances.  U+E9 stands for
\* the letter of that number.
Escapes == [x \in {"x/y", "x;y", "x\ny", "U+E9"} |->
  CASE x = "x/y" -> "x%2Fy" [] x = "x;y" -> "x%3By" [] x = "x\ny" -> "x%0Ay"
    [] x = "U+E9" -> "%C3%A9"]
Encoded(t) == IF t \in DOMAIN Escapes THEN Escapes[t] ELSE t
Unescaped(t) ==
  IF t = "%61" THEN "a"
  ELSE IF \E u \in DOMAIN Escapes : Escapes[u] = t
    THEN CHOOSE u \in DOMAIN Escapes : Escapes[u] = t
  ELSE t

\* Header names do not depend on case (HeaderName).
Lower(name) == IF name = "P" THEN "p" ELSE name

\* is_runtime_owned_header and the control headers, as far as instances use them
RuntimeOwned == {"host", "accept"}

-----------------------------------------------------------------------------
(***************************************************************************)
(* Values: JSON as far as arguments consist of it                          *)
(***************************************************************************)

Null == [json |-> "null"]
Text(t) == [json |-> "text", text |-> t]
Number(t) == [json |-> "number", text |-> t]
List(items) == [json |-> "list", items |-> items]
Object(fields) == [json |-> "object", fields |-> fields]

Numerals == {"1"}
CookieSafe(t) == t \notin {"x;y", "x\ny"}
HeaderSafe(t) == t # "x\ny"

Kinds == {"text", "number", "optional", "list", "map", "listmap"}

\* Whether a value deserializes as the kind (serde_json::from_value).
Fits(kind, v) ==
  CASE kind = "text" -> v.json = "text"
    [] kind = "number" -> v.json = "number"
    [] kind = "optional" -> v.json \in {"null", "text"}
    [] kind = "list" -> v.json = "list" /\ \A i \in DOMAIN v.items : v.items[i].json = "text"
    [] kind = "map" -> v.json = "object"
                       /\ \A n \in DOMAIN v.fields : v.fields[n].json = "text"
    [] kind = "listmap" -> v.json = "object"
                           /\ \A n \in DOMAIN v.fields : v.fields[n].json = "list"

\* parse_spring_json_scalars
ParseScalar(v) ==
  IF v.json = "text" /\ v.text \in Numerals THEN Number(v.text)
  ELSE IF v.json = "text" /\ v.text = "null" THEN Null
  ELSE v
ParseScalars(v) ==
  IF v.json = "list" THEN List([i \in DOMAIN v.items |-> ParseScalar(v.items[i])])
  ELSE ParseScalar(v)

\* decode_argument: the value, or nothing
DecodeArgument(kind, v, textEncoded) ==
  IF Fits(kind, v) THEN {v}
  ELSE IF textEncoded /\ Fits(kind, ParseScalars(v)) THEN {ParseScalars(v)}
  ELSE {}

-----------------------------------------------------------------------------
(***************************************************************************)
(* Declarations: the macro                                                 *)
(***************************************************************************)

Sources == {"path", "query", "header", "cookie", "body_field", "body", "query_map",
            "header_map"}

\* A parameter as written: its wire name, the source if one is given, the flag
\* repeated, and its type.
Parameters(names, sources, kinds) ==
  [name : names, source : sources \cup {"inferred"}, repeated : BOOLEAN, kind : kinds]

Placeholders(path) == {path[i].name : i \in {j \in DOMAIN path : path[j].kind = "parameter"}}

\* A literal is taken as it is written.
RouteLiteralIsValidAsIs(t) == t # ".."

\* The one way to write a text as a literal: what is not ASCII is escaped, and
\* nothing else.
Canonical(u) == IF u = "U+E9" THEN Escapes[u] ELSE u

\* validate_route_literal: canonical, so that no two spellings mean the same, and
\* neither a dot segment nor with a character no segment has
RouteLiteralIsValid(t) ==
  t = Canonical(Unescaped(t)) /\ Unescaped(t) \notin {"..", "x/y", "x\ny"}

PlaceholdersAreUnique(path) ==
  Cardinality(Placeholders(path)) =
    Cardinality({i \in DOMAIN path : path[i].kind = "parameter"})

\* validate_route
MacroRouteIsValid(path) ==
  /\ PlaceholdersAreUnique(path)
  /\ \A i \in DOMAIN path : path[i].kind = "literal" => RouteLiteralIsValid(path[i].name)

\* The source a parameter gets (parameters).
Source(decl, p) ==
  IF p.source # "inferred" THEN p.source
  ELSE IF p.name \in Placeholders(decl.path) THEN "path"
  ELSE IF decl.method \in {"POST", "PUT", "PATCH"} THEN "body_field"
  ELSE "query"

\* What parameters checks of one parameter.
ParameterIsValid(decl, p) ==
  LET source == Source(decl, p) IN
  /\ p.source \in {"query_map", "header_map"} => ~p.repeated
  /\ (source = "path") <=> (p.name \in Placeholders(decl.path))
  /\ p.repeated => p.source = "query"
  /\ source \in {"body", "body_field"} => decl.method \notin {"GET", "HEAD", "OPTIONS"}
  /\ source = "query" /\ p.kind = "list" => p.repeated
  /\ source = "path" => p.kind \notin {"optional", "list"}

AtMostOne(S) == \A i, j \in S : i = j

Having(decl, source) ==
  {i \in DOMAIN decl.params : Source(decl, decl.params[i]) = source}

\* parameters
ParametersAreValid(decl) ==
  /\ \A i, j \in DOMAIN decl.params : decl.params[i].name = decl.params[j].name => i = j
  /\ \A i \in DOMAIN decl.params : ParameterIsValid(decl, decl.params[i])
  /\ Placeholders(decl.path) = {decl.params[i].name : i \in Having(decl, "path")}
  /\ \A source \in {"query_map", "header_map", "body"} : AtMostOne(Having(decl, source))
  /\ Having(decl, "body") # {} => Having(decl, "body_field") = {}

\* route_shape: the names of the placeholders do not matter.
Shape(path) == [i \in DOMAIN path |->
  IF path[i].kind = "parameter" THEN Placeholder("") ELSE path[i]]

\* validate
MacroAccepts(service) ==
  /\ \A i \in DOMAIN service :
       /\ service[i].method \in {"GET", "POST", "PUT", "PATCH", "DELETE", "HEAD", "OPTIONS"}
       /\ MacroRouteIsValid(service[i].path)
       /\ ParametersAreValid(service[i])
       /\ service[i].method = "HEAD" => service[i].response = "unit"
  /\ \A i, j \in DOMAIN service :
       /\ service[i].method = service[j].method
       /\ Shape(service[i].path) = Shape(service[j].path)
       => i = j

\* The descriptor the macro generates, and http_method.
Operation(decl) ==
  [method |-> decl.method, path |-> decl.path,
   params |-> [i \in DOMAIN decl.params |->
     LET p == decl.params[i] IN
     [name |-> p.name, source |-> Source(decl, p), repeated |-> p.repeated, kind |-> p.kind,
      textEncoded |-> Source(decl, p) \in {"path", "query", "header", "cookie"}]]]

-----------------------------------------------------------------------------
(***************************************************************************)
(* The contract and the route table                                        *)
(***************************************************************************)

WithSource(op, source) == {i \in DOMAIN op.params : op.params[i].source = source}
NamesFrom(op, source) == {op.params[i].name : i \in WithSource(op, source)}

\* decode_route_literal: the text of a canonical literal, or nothing
DecodeRouteLiteral(t) ==
  {u \in {Unescaped(t)} : t = Canonical(u) /\ u \notin {"..", "x/y", "x\ny"}}

\* validate_http_route
RouteIsValid(path) ==
  /\ PlaceholdersAreUnique(path)
  /\ \A i \in DOMAIN path : path[i].kind = "literal" => DecodeRouteLiteral(path[i].name) # {}

\* validate_http_operation
OperationIsValid(op) ==
  LET bodies == WithSource(op, "body")
      fields == WithSource(op, "body_field")
  IN
  /\ RouteIsValid(op.path)
  /\ \A i, j \in DOMAIN op.params : op.params[i].name = op.params[j].name => i = j
  /\ \A i \in DOMAIN op.params : op.params[i].repeated => op.params[i].source = "query"
  /\ AtMostOne(bodies)
  /\ bodies # {} => fields = {}
  /\ AtMostOne(WithSource(op, "query_map"))
  /\ AtMostOne(WithSource(op, "header_map"))
  /\ op.method \in {"GET", "HEAD", "OPTIONS"} => bodies \cup fields = {}
  /\ Placeholders(op.path) = NamesFrom(op, "path")

\* validate_methods, for one service
ContractAccepts(ops) ==
  /\ ops # <<>>
  /\ \A i \in DOMAIN ops : OperationIsValid(ops[i])
  /\ \A i, j \in DOMAIN ops :
       ops[i].method = ops[j].method /\ Shape(ops[i].path) = Shape(ops[j].path) => i = j

\* allows_retries
AllowsRetries(op) == op.method \in {"GET", "HEAD", "OPTIONS", "PUT", "DELETE"}

\* parse_template
ParseTemplate(path) == [k \in DOMAIN path |->
  IF path[k].kind = "literal" THEN Literal(Unescaped(path[k].name)) ELSE path[k]]

\* The leaf of a route in the trie (insert): the names of parameters do not matter.
Leaf(op) == <<op.method, Shape(ParseTemplate(op.path))>>

\* RouteTable::build: no leaf is taken twice.
TableAccepts(ops) == \A i, j \in DOMAIN ops : Leaf(ops[i]) = Leaf(ops[j]) => i = j

\* The routes as the table holds them.
RouteTable(ops) == [i \in DOMAIN ops |-> [ops[i] EXCEPT !.path = ParseTemplate(@)]]

\* The routes that go on with the literal of the k-th segment, and with a parameter.
WithLiteral(ops, segments, k, routes) ==
  {r \in routes : Len(ops[r].path) >= k /\ ops[r].path[k] = Literal(segments[k])}
WithParameter(ops, k, routes) ==
  {r \in routes : Len(ops[r].path) >= k /\ ops[r].path[k].kind = "parameter"}

\* The first branch that fits is never left again.
MatchSegmentsGreedy(ops, segments, k, routes, from) ==
  IF k > Len(segments) THEN {r \in routes : Len(ops[r].path) = Len(segments)}
  ELSE from[k + 1][IF WithLiteral(ops, segments, k, routes) # {}
                     THEN WithLiteral(ops, segments, k, routes)
                     ELSE WithParameter(ops, k, routes)]

\* match_segments at the k-th segment, among the routes that agree so far, given what
\* it finds from the next one on: the literal first, and the parameter when it leads
\* nowhere.
MatchSegments(ops, segments, k, routes, from) ==
  IF k > Len(segments) THEN {r \in routes : Len(ops[r].path) = Len(segments)}
  ELSE LET literal == WithLiteral(ops, segments, k, routes)
           parameter == WithParameter(ops, k, routes)
       IN IF literal # {} /\ from[k + 1][literal] # {} THEN from[k + 1][literal]
          ELSE IF parameter = {} THEN {}
          ELSE from[k + 1][parameter]

MatchFrom(ops, segments) ==
  LET from[k \in 1 .. Len(segments) + 1] ==
        [routes \in SUBSET DOMAIN ops |-> MatchSegments(ops, segments, k, routes, from)]
  IN from

\* match_http: the route, as the set that holds it
Match(ops, method, segments) ==
  MatchFrom(ops, segments)[1][{r \in DOMAIN ops : ops[r].method = method}]

\* split_path: nothing for a path with an empty segment
SplitPath(path) ==
  IF path = <<"">> \/ path = <<>> THEN {<<>>}
  ELSE IF \E i \in DOMAIN path : path[i] = "" THEN {}
  ELSE {[i \in DOMAIN path |-> Unescaped(path[i])]}

-----------------------------------------------------------------------------
(***************************************************************************)
(* encode_json_request                                                     *)
(***************************************************************************)

IsScalar(v) == v.json \in {"text", "number"}

\* The texts a value is sent as: a list for an array in a map.
TextsOf(v) == IF v.json = "list" THEN [i \in DOMAIN v.items |-> v.items[i].text]
              ELSE <<v.text>>

\* Entries of a map that are not sent at all.
Omitted(v) == v = Null \/ v = List(<<>>)
Sent(v) == {n \in DOMAIN v.fields : ~Omitted(v.fields[n])}

HeaderNames(op) == {Lower(n) : n \in NamesFrom(op, "header")}

\* The headers of the call that nobody else owns (reject_binding_owned_headers and
\* the conflicts with declared headers and cookies)
HeadersAreFree(op, headers) ==
  /\ headers \cap RuntimeOwned = {}
  /\ headers \cap HeaderNames(op) = {}
  /\ "cookie" \in headers => WithSource(op, "cookie") = {}

\* insert_bound_header: the name is not the runtime's, nor inserted for another
\* parameter, which no value is not
BoundOnce(op, i, args) ==
  /\ Lower(op.params[i].name) \notin RuntimeOwned
  /\ \A j \in WithSource(op, "header") \ {i} :
       args[j] # Null => Lower(op.params[j].name) # Lower(op.params[i].name)

\* append_query, insert_bound_header, cookie_text, append_query_map,
\* append_header_map: whether a parameter can be encoded.
Encodable(op, i, args, headers) ==
  LET p == op.params[i]  v == args[i] IN
  CASE p.source = "path" -> IsScalar(v)
    [] p.source = "query" /\ p.repeated ->
         v.json = "list" /\ \A k \in DOMAIN v.items : IsScalar(v.items[k])
    [] p.source = "query" /\ ~p.repeated -> v = Null \/ IsScalar(v)
    [] p.source = "header" ->
         v = Null \/ (IsScalar(v) /\ HeaderSafe(v.text) /\ BoundOnce(op, i, args))
    [] p.source = "cookie" -> v = Null \/ (IsScalar(v) /\ CookieSafe(v.text))
    [] p.source = "query_map" ->
         v = Null \/ (v.json = "object" /\ Sent(v) \cap NamesFrom(op, "query") = {})
    [] p.source = "header_map" ->
         v = Null \/ /\ v.json = "object"
                     /\ Sent(v) \cap (HeaderNames(op) \cup headers \cup RuntimeOwned) = {}
                     /\ \A n \in Sent(v) : \A t \in Range(TextsOf(v.fields[n])) : HeaderSafe(t)
    [] OTHER -> TRUE

\* A value is put into the path as it is.
PathRaw(op, args) ==
  FlattenSeq([k \in DOMAIN op.path |->
    IF op.path[k].kind = "literal" THEN <<op.path[k].name>>
    ELSE LET t == args[CHOOSE i \in WithSource(op, "path") :
                         op.params[i].name = op.path[k].name].text
         IN IF t = "x/y" THEN <<"x", "y">> ELSE <<t>>])

\* The path with each placeholder replaced; an encoded value is one segment.
Path(op, args) ==
  FlattenSeq([k \in DOMAIN op.path |->
    IF op.path[k].kind = "literal" THEN <<op.path[k].name>>
    ELSE <<Encoded(args[CHOOSE i \in WithSource(op, "path") :
                          op.params[i].name = op.path[k].name].text)>>])

\* The name of a parameter or of an entry on the wire.
OnWire(source, name) == IF source = "header" THEN Lower(name) ELSE name

Pairs(name, v) == [k \in DOMAIN TextsOf(v) |-> <<name, TextsOf(v)[k]>>]
MapPairs(source, v) ==
  LET names == SetToSeq(Sent(v)) IN
  FlattenSeq([k \in DOMAIN names |-> Pairs(OnWire(source, names[k]), v.fields[names[k]])])

\* The name and text pairs of all parameters of a source and of its map.
Gather(op, args, source, map) ==
  FlattenSeq([i \in DOMAIN op.params |->
    IF args[i] = Null THEN <<>>
    ELSE IF op.params[i].source = source
      THEN Pairs(OnWire(source, op.params[i].name), args[i])
    ELSE IF op.params[i].source = map THEN MapPairs(source, args[i])
    ELSE <<>>])

\* The body: the raw one, or the object of the fields
BodyOf(op, args) ==
  IF WithSource(op, "body") # {} THEN {args[CHOOSE i \in WithSource(op, "body") : TRUE]}
  ELSE IF WithSource(op, "body_field") # {}
    THEN {Object([n \in NamesFrom(op, "body_field") |->
            args[CHOOSE i \in DOMAIN op.params : op.params[i].name = n]])}
  ELSE {}

\* The headers of the call; the cookie header of a call has a cookie of its own.
CallHeaders(headers) == {<<name, "a">> : name \in headers \ {"cookie"}}
CallCookies(headers) == IF "cookie" \in headers THEN <<<<"own", "a">>>> ELSE <<>>

\* encode_json_request
Encode(op, args, headers) ==
  [method |-> op.method, path |-> Path(op, args),
   query |-> Gather(op, args, "query", "query_map"),
   headers |-> <<<<"host", "h">>, <<"accept", "json">>>> \o SetToSeq(CallHeaders(headers))
               \o Gather(op, args, "header", "header_map"),
   cookies |-> CallCookies(headers) \o Gather(op, args, "cookie", "none"),
   body |-> BodyOf(op, args)]

\* to_request: the control headers, for endpoints that understand them
Controls(attempt, group) == {[attempt |-> attempt, group |-> group]}

-----------------------------------------------------------------------------
(***************************************************************************)
(* http_arguments                                                          *)
(***************************************************************************)

Names(pairs) == {pairs[k][1] : k \in DOMAIN pairs}

\* The pairs that have one of the names, in their order.
Named(pairs, names) ==
  LET kept[k \in 0 .. Len(pairs)] ==
        IF k = 0 THEN <<>>
        ELSE IF pairs[k][1] \in names THEN Append(kept[k - 1], pairs[k])
        ELSE kept[k - 1]
  IN kept[Len(pairs)]

\* application_headers
ApplicationHeaders(pairs) == Named(pairs, Names(pairs) \ RuntimeOwned)

ValuesNamed(pairs, name) ==
  LET named == Named(pairs, {name}) IN [k \in DOMAIN named |-> named[k][2]]

\* One value as itself, several as a list (query_map, header_map).
Collected(texts) ==
  IF Len(texts) = 1 THEN Text(texts[1]) ELSE List([k \in DOMAIN texts |-> Text(texts[k])])
MapOf(pairs, explicit) ==
  Object([n \in Names(pairs) \ explicit |-> Collected(ValuesNamed(pairs, n))])

\* A scalar: none, one, or an error for several (header_value, scalar query)
Single(pairs, name) ==
  LET texts == ValuesNamed(pairs, name) IN
  IF texts = <<>> THEN {Null} ELSE IF Len(texts) = 1 THEN {Text(texts[1])} ELSE {}

\* The value of a parameter in a request, or nothing if the request is rejected
ArgumentOf(op, i, request, segments) ==
  LET p == op.params[i] IN
  CASE p.source = "path" ->
         {Text(segments[CHOOSE k \in DOMAIN op.path : op.path[k] = Placeholder(p.name)])}
    [] p.source = "query" /\ p.repeated ->
         {List([k \in DOMAIN ValuesNamed(request.query, p.name) |->
                  Text(ValuesNamed(request.query, p.name)[k])])}
    [] p.source = "query" /\ ~p.repeated -> Single(request.query, p.name)
    [] p.source = "header" -> Single(ApplicationHeaders(request.headers), Lower(p.name))
    [] p.source = "cookie" -> Single(request.cookies, p.name)
    [] p.source = "body_field" ->
         {IF p.name \in DOMAIN b.fields THEN b.fields[p.name] ELSE Null : b \in request.body}
    [] p.source = "body" -> request.body
    [] p.source = "query_map" -> {MapOf(request.query, NamesFrom(op, "query"))}
    [] p.source = "header_map" -> {MapOf(ApplicationHeaders(request.headers), HeaderNames(op))}

\* Each argument decoded, or nothing
Decoded(op, request, segments) ==
  [i \in DOMAIN op.params |->
    UNION {DecodeArgument(op.params[i].kind, v, op.params[i].textEncoded) :
             v \in ArgumentOf(op, i, request, segments)}]

-----------------------------------------------------------------------------
(***************************************************************************)
(* A call                                                                  *)
(***************************************************************************)

VARIABLES
  stage,     \* how far declaration and call have come
  service,   \* the declarations of the methods; calls go to the first
  server,    \* the group it is served for, and whether control headers are understood
  args,      \* the arguments of the call
  headers,   \* the headers of the call
  request,   \* what is on the wire
  found,     \* the method that was found
  got        \* the arguments it gets

vars == <<stage, service, server, args, headers, request, found, got>>

Nothing == <<>>
First(method, path, params) ==
  [method |-> method, path |-> path, params |-> params, response |-> "unit"]

Init ==
  /\ stage = "declaring"
  /\ \E method \in Methods, path \in Templates :
       \/ service = <<First(method, path, <<>>)>>
       \/ \E p \in Parameters({"p", "host"}, Sources, Kinds) :
            service = <<First(method, path, <<p>>)>>
  /\ server = [group |-> "g", controls |-> TRUE]
  /\ args = Nothing /\ headers = {} /\ request = Nothing /\ found = 0 /\ got = Nothing

\* A second parameter.
DeclareParameter ==
  /\ stage = "declaring"
  /\ Len(service) = 1 /\ Len(service[1].params) = 1 /\ service[1].params[1].name = "p"
  /\ \E p \in Parameters({"p", "q", "P"}, SecondSources, {"text", "list", "map"}) :
       service' = [service EXCEPT ![1].params = Append(@, p)]
  /\ UNCHANGED <<stage, server, args, headers, request, found, got>>

\* A second method, with path parameters only.
DeclareMethod ==
  /\ stage = "declaring"
  /\ Len(service) = 1 /\ Len(service[1].params) <= 1
  /\ \E path \in Templates, response \in {"unit", "value"} :
       service' = Append(service,
         [method |-> service[1].method, path |-> path, response |-> response,
          params |-> [k \in 1 .. Cardinality(Placeholders(path)) |->
            [name |-> SetToSeq(Placeholders(path))[k], source |-> "path",
             repeated |-> FALSE, kind |-> "text"]]])
  /\ UNCHANGED <<stage, server, args, headers, request, found, got>>

Operations == [i \in DOMAIN service |-> Operation(service[i])]
NoParameters == Len(service) = 1 /\ service[1].params = <<>>

Compile ==
  /\ stage = "declaring"
  /\ stage' = IF MacroAccepts(service) THEN "compiled" ELSE "not_compiled"
  /\ UNCHANGED <<service, server, args, headers, request, found, got>>

\* The endpoint reached may serve another group, or understand no control headers.
Start ==
  /\ stage = "compiled"
  /\ \E group \in {"g", "h"}, controls \in BOOLEAN :
       /\ NoParameters \/ (group = "g" /\ controls)
       /\ server' = [group |-> group, controls |-> controls]
  /\ stage' = IF ContractAccepts(Operations) /\ TableAccepts(Operations)
                THEN "started" ELSE "not_started"
  /\ UNCHANGED <<service, args, headers, request, found, got>>

\* The values of a parameter's type.
Scalars == {Text(t) : t \in Texts}
Lists == {List(<<>>), List(<<Text("a")>>), List(<<Text("a"), Text("null")>>)}
ValuesOf(kind) ==
  CASE kind = "text" -> Scalars
    [] kind = "number" -> {Number(t) : t \in Numerals}
    [] kind = "optional" -> Scalars \cup {Null}
    [] kind = "list" -> Lists
    [] kind = "map" -> {Object([n \in names |-> Text("a")]) :
                          names \in {{}, {"p"}, {"x"}, {"p", "x"}, {"accept"}}}
    [] kind = "listmap" -> {Object([n \in {"x"} |-> l]) : l \in Lists}

Arguments(op) ==
  IF Len(op.params) = 0 THEN {<<>>}
  ELSE IF Len(op.params) = 1 THEN {<<v>> : v \in ValuesOf(op.params[1].kind)}
  ELSE {<<v, w>> : v \in ValuesOf(op.params[1].kind), w \in ValuesOf(op.params[2].kind)}

\* The headers an application gives with a call of one parameter.
HeaderChoices ==
  IF Len(service) = 1 /\ Len(service[1].params) <= 1
    THEN {{}, {"p"}, {"x"}, {"accept"}, {"cookie"}} ELSE {{}}

\* Attempts after the first are made where the method allows retries.
Attempts == IF NoParameters /\ AllowsRetries(Operations[1]) THEN {1, 2} ELSE {1}

Call ==
  /\ stage = "started"
  /\ \E values \in Arguments(Operations[1]), given \in HeaderChoices, attempt \in Attempts,
        controls \in IF NoParameters THEN BOOLEAN ELSE {TRUE} :
       LET op == Operations[1] IN
       /\ args' = values
       /\ headers' = given
       /\ IF /\ HeadersAreFree(op, given)
             /\ \A i \in DOMAIN op.params : Encodable(op, i, values, given)
            THEN /\ stage' = "sent"
                 /\ request' = [http |-> Encode(op, values, given),
                                controls |-> IF controls THEN Controls(attempt, "g") ELSE {}]
            ELSE stage' = "rejected_locally" /\ UNCHANGED request
  /\ UNCHANGED <<service, server, found, got>>

\* has_invocation_controls, validate_service_controls, validate_attempt
ControlsAreValid(op) ==
  \A c \in request.controls :
    /\ server.controls
    /\ c.group = server.group
    /\ c.attempt > 1 => AllowsRetries(op)

\* match_http, the controls, validate_query_pairs
Route ==
  /\ stage = "sent"
  /\ LET routes == UNION {Match(RouteTable(Operations), request.http.method, segments) :
                            segments \in SplitPath(request.http.path)}
         route == CHOOSE r \in routes : TRUE
     IN IF /\ routes # {}
           /\ ControlsAreValid(Operations[route])
           /\ Len(request.http.query) <= MaxQueryPairs
          THEN stage' = "routed" /\ found' = route
          ELSE stage' = "rejected" /\ UNCHANGED found
  /\ UNCHANGED <<service, server, args, headers, request, got>>

\* http_arguments and the generated dispatch
Dispatch ==
  /\ stage = "routed"
  /\ LET op == Operations[found]
         segments == CHOOSE s \in SplitPath(request.http.path) : TRUE
         values == Decoded(op, request.http, segments)
     IN IF \A i \in DOMAIN values : values[i] # {}
          THEN /\ stage' = "delivered"
               /\ got' = [i \in DOMAIN values |-> CHOOSE v \in values[i] : TRUE]
          ELSE stage' = "rejected" /\ UNCHANGED got
  /\ UNCHANGED <<service, server, args, headers, request, found>>

Next == DeclareParameter \/ DeclareMethod \/ Compile \/ Start \/ Call \/ Route \/ Dispatch

Spec == Init /\ [][Next]_vars

-----------------------------------------------------------------------------
(***************************************************************************)
(* Properties                                                              *)
(***************************************************************************)

\* Invalid mappings fail during macro expansion: what compiles is never refused by
\* the contract or by the route table when client or server start.
CompiledStarts == stage # "not_started"

\* The best of the routes that fit, defined without a search: at the first segment
\* where two of them differ in kind, the literal one is better.
Fitting(ops, method, segments) ==
  {r \in DOMAIN ops :
     /\ ops[r].method = method
     /\ Len(ops[r].path) = Len(segments)
     /\ \A k \in DOMAIN segments : ops[r].path[k] \in {Literal(segments[k])}
                                   \/ ops[r].path[k].kind = "parameter"}
Better(ops, r, s) ==
  \E k \in DOMAIN ops[r].path :
    /\ ops[r].path[k].kind = "literal" /\ ops[s].path[k].kind = "parameter"
    /\ \A j \in 1 .. k - 1 : ops[r].path[j].kind = ops[s].path[j].kind
Best(ops, method, segments) ==
  {r \in Fitting(ops, method, segments) :
     \A s \in Fitting(ops, method, segments) \ {r} : Better(ops, r, s)}

\* Paths that hit, miss and share prefixes with the templates.
SomePaths == {<<>>} \cup {<<t>> : t \in {"a", "b", "U+E9"}}
             \cup {<<t, u>> : t \in {"a", "b"}, u \in {"a", "b"}}

\* The table finds the best route for every path: one that fits is found even when
\* a literal branch that looked better leads nowhere.
RoutesRight ==
  stage = "started" =>
    \A path \in SomePaths :
      Match(RouteTable(Operations), service[1].method, path)
        = Best(RouteTable(Operations), service[1].method, path)

\* What arrives of a map in the query or in headers: the entries that are sent, and
\* the other headers of the call.
Arriving(source, v) ==
  IF source = "query_map" THEN Object([n \in Sent(v) |-> v.fields[n]])
  ELSE IF source = "header_map"
    THEN Object([n \in Sent(v) \cup (headers \ {"cookie"}) |->
                   IF n \in Sent(v) THEN v.fields[n] ELSE Text("a")])
  ELSE v

\* Two parameters whose names differ, but not as names of headers: nobody refuses them,
\* and when one has no value, both get the value of the other.
OneHeaderTwice(op) ==
  \E i, j \in WithSource(op, "header") :
    i # j /\ Lower(op.params[i].name) = Lower(op.params[j].name)

\* The calls the binding cannot carry: an empty text as a segment of the path, a
\* value that is a literal of another method's path, more pairs than the server
\* takes; no map, which arrives as the empty one, and a map with a list of one
\* value, which arrives as the value, as do the other headers of the call in a map of
\* headers; two parameters for one header; and an endpoint that does not understand
\* the control headers or serves another group.
Exceptional ==
  LET op == Operations[1] IN
  \/ \E i \in WithSource(op, "path") : args[i].text = ""
  \/ \E i \in WithSource(op, "path"), j \in DOMAIN service \ {1} :
       Literal(args[i].text) \in Range(ParseTemplate(service[j].path))
  \/ Len(request.http.query) > MaxQueryPairs
  \/ OneHeaderTwice(op)
  \/ headers # {} /\ \E i \in WithSource(op, "header_map") : op.params[i].kind = "listmap"
  \/ request.controls # {} /\ (~server.controls \/ server.group # "g")
  \/ \E i \in WithSource(op, "query_map") \cup WithSource(op, "header_map") :
       \/ args[i] = Null
       \/ \E n \in Sent(args[i]) : args[i].fields[n].json = "list" /\ Len(args[i].fields[n].items) = 1

\* A call is delivered to its own method with its own arguments, whatever their
\* texts contain and wherever they are bound, or it is rejected; it is rejected by
\* the server in the exceptional cases only, and with its control headers it never
\* reaches a service of another group.
DeliveredAsCalled ==
  /\ stage = "rejected" => Exceptional
  /\ stage = "delivered" /\ ~Exceptional =>
       /\ found = 1
       /\ got = [i \in DOMAIN args |-> Arriving(Operations[1].params[i].source, args[i])]
  /\ stage = "delivered" /\ request.controls # {} => server = [group |-> "g", controls |-> TRUE]
=============================================================================
