----------------------------- MODULE MCBoundaries -----------------------------
(***************************************************************************)
(* Small instances, for TLC, of the parts at the boundaries of the system: *)
(* the ones that turn what comes from outside (declarations, arguments,    *)
(* responses, texts, settings, what Nacos lists, what peers speak) into    *)
(* what the rest relies on, and the two containers below the client's      *)
(* breakers.  They share no state, so that each behaviour is one of one    *)
(* part, whose variables are x1 .. x11; the ones it does not need stay "". *)
(***************************************************************************)
EXTENDS Naturals, Sequences

VARIABLES part, x1, x2, x3, x4, x5, x6, x7, x8, x9, x10, x11

xs == <<x1, x2, x3, x4, x5, x6, x7, x8, x9, x10, x11>>
vars == <<part, xs>>

-----------------------------------------------------------------------------
(***************************************************************************)
(* HttpBinding, with templates that overlap, repeat a placeholder, and     *)
(* make the search turn back                                               *)
(***************************************************************************)

Word(name) == [kind |-> "literal", name |-> name]
Hole(name) == [kind |-> "parameter", name |-> name]
Templates ==
  {<<>>, <<Word("a")>>, <<Word("%61")>>, <<Word("%C3%A9")>>, <<Hole("p")>>,
   <<Word("a"), Word("b")>>, <<Word("a"), Hole("p")>>, <<Hole("p"), Word("a")>>,
   <<Hole("p"), Hole("q")>>, <<Hole("p"), Hole("p")>>}

Binding == INSTANCE HttpBinding WITH
  Methods <- {"GET", "POST"}, Templates <- Templates, MaxQueryPairs <- 3,
  SecondSources <- {"path", "query", "header", "cookie", "body_field", "body", "query_map", "header_map"},
  Texts <- {"", "a", "x/y", "x;y", "x\ny", "null", "1"},
  stage <- x1, service <- x2, server <- x3, args <- x4, headers <- x5, request <- x6,
  found <- x7, got <- x8

(***************************************************************************)
(* HttpResponse, over one relaying server                                  *)
(***************************************************************************)

Response == INSTANCE HttpResponse WITH
  Statuses <- {302, 404, 405, 408, 418, 425, 500, 503, 505}, Delays <- 0 .. 3, Sizes <- 1 .. 3,
  ServerLimit <- 2, ClientLimit <- 4, FreeBytes <- {0, 2, 4}, Chunk <- 2, EmergencyLimit <- 3,
  MaxSeconds <- 3, MaxHops <- 2,
  call <- x1, raised <- x2, outcome <- x3, sent <- x4, got <- x5, hops <- x6, intact <- x7,
  pc <- x8

(***************************************************************************)
(* UriReference, from nothing and from inside an authority                 *)
(***************************************************************************)

Uri == INSTANCE UriReference WITH
  Characters <- {"a", "1", ":", "/", "?", "#", "%", "@", "[", "]", " "}, MaxTyped <- 4,
  Beginnings <- {<<>>, <<"/", "/">>, <<"/", "/", "[">>, <<"/", "/", "[", "v", "1", ".">>},
  text <- x1, typed <- x2

(***************************************************************************)
(* Assembly, with a value no semaphore takes                               *)
(***************************************************************************)

Built == INSTANCE Assembly WITH
  Values <- {0, 1, 100000000}, Bytes <- {0, 1, 4}, MaxPermits <- 50000000, MaxSets <- 2,
  draft <- x1, made <- x2, sets <- x3, phase <- x4, fault <- x5, parts <- x6

(***************************************************************************)
(* NacosRegistry: servers of two groups and versions, at an IPv6 address   *)
(* and with paths that url rewrites, and instances others register         *)
(***************************************************************************)

Selector(group, version, metadata) ==
  [service |-> "svc", group |-> group, version |-> version, metadata |-> metadata]
Registration(selector, id, endpoint, capabilities) ==
  [selector |-> selector, id |-> id, endpoint |-> endpoint, capabilities |-> capabilities,
   weight |-> 1, metadata |-> {<<"zone", "east">>}]
Address(scheme, host, port, path) == [scheme |-> scheme, host |-> host, port |-> port, path |-> path]
Can(versions, bindings, controls) == [versions |-> versions, bindings |-> bindings, controls |-> controls]

Registrations ==
  {Registration(Selector({}, {}, {<<"zone", "any">>, <<"tier", "one">>}), "a",
                Address("http", "[::1]", 80, <<"api", "">>), Can({"1.1"}, {"http-json-v1"}, TRUE)),
   Registration(Selector({}, {"v1"}, {}), "b",
                Address("https", "name", 443, <<>>), Can({"1.1", "2"}, {"http-json-v1"}, FALSE)),
   Registration(Selector({"g"}, {"v1"}, {}), "c", Address("http", "name", 8080, <<"%7Ea", "%2F">>),
                Can({"2"}, {"http-json-v1", "vendor-v1"}, TRUE)),
   Registration(Selector({"g"}, {"v1"}, {}), "d", Address("http", "name", 8081, <<"%FF">>),
                Can({"1.1"}, {"vendor-v1"}, FALSE))}

Unmarked == [scheme |-> {}, service |-> {}, id |-> {}, bindings |-> {}, versions |-> {},
             controls |-> {}, path |-> {}, version |-> {}, group |-> {}]
Marked == [Unmarked EXCEPT !.scheme = {"http"}, !.service = {"svc"}, !.id = {"y"},
                           !.bindings = {<<"http-json-v1">>}, !.versions = {<<"2", "1.1">>},
                           !.controls = {"v1"}]
Plain(meta) == [ip |-> "10.0.0.1", port |-> 9000, weight |-> 1, healthy |-> TRUE, enabled |-> TRUE,
                id |-> {"x"}, meta |-> meta, user |-> {}]

Foreign ==
  {Plain(Unmarked), Plain(Marked),
   [Plain(Unmarked) EXCEPT !.port = 70000], [Plain(Unmarked) EXCEPT !.weight = 99],
   [Plain(Unmarked) EXCEPT !.id = {"not an id"}], [Plain(Unmarked) EXCEPT !.id = {}],
   [Plain(Unmarked) EXCEPT !.user = {<<" zone", "e">>}],
   Plain([Marked EXCEPT !.scheme = {"ftp"}]), Plain([Marked EXCEPT !.service = {"other"}]),
   Plain([Marked EXCEPT !.bindings = {}]),
   Plain([Marked EXCEPT !.bindings = {<<"http-json-v1", "http-json-v1">>}]),
   Plain([Marked EXCEPT !.versions = {<<"3">>}]), Plain([Marked EXCEPT !.controls = {"true"}]),
   Plain([Marked EXCEPT !.path = {<<"..", "api">>}])}

Nacos == INSTANCE NacosRegistry WITH
  Registrations <- Registrations, Foreign <- Foreign, Infinite <- 99, MaxChanges <- 2,
  Selectors <- {Selector({}, {}, {}), Selector({"g"}, {"v1"}, {})},
  Settings <- [address : {" padded", "nacos:8848"}, username : {{}, {"u"}}, password : {{}, {"p"}},
               application : {"", "app"}],
  selector <- x1, convention <- x2, phase <- x3, listed <- x4, changes <- x5, events <- x6,
  fetched <- x7, pending <- x8, shown <- x9

(***************************************************************************)
(* ClientConnect, with one binding nobody registered                       *)
(***************************************************************************)

Connect == INSTANCE ClientConnect WITH
  Bindings <- {"json", "custom", "unknown"}, Json <- "json", Custom <- {"custom"},
  RequestIds <- {0, 3}, Shards <- 2,
  Capabilities <- {Can({"1.1"}, {"json"}, TRUE), Can({"2"}, {"json"}, TRUE),
                   Can({"1.1", "2"}, {"json", "custom"}, TRUE), Can({"1.1"}, {"custom"}, FALSE),
                   Can({"2"}, {"json", "custom"}, FALSE), Can({"1.1", "2"}, {"json"}, FALSE)},
  builder <- x1, interface <- x2, registry <- x3, runtime <- x4, phase <- x5, slot <- x6,
  client <- x7, directory <- x8, selected <- x9, next <- x10, wire <- x11

(***************************************************************************)
(* EndpointBreakers and RollingWindow                                      *)
(***************************************************************************)

Store == INSTANCE EndpointBreakers WITH
  Selectors <- {"s1", "s2"}, Endpoints <- {"e1", "e2"}, Bindings <- {"json"},
  Callers <- {"c1", "c2"}, Nobody <- "nobody", MaxEntries <- 2, IdleEviction <- 1,
  MaxTime <- 1, MaxBreakers <- 3,
  owners <- x1, references <- x2, lock <- x3, evicted <- x4, entries <- x5, made <- x6,
  now <- x7, call <- x8

Window == INSTANCE MCRollingWindow WITH
  Buckets <- 3, BucketWidth <- 2, CountMax <- 1, MaxClock <- 7, MaxRecords <- 2,
  window <- x1, clock <- x2, latest <- x3, log <- x4

-----------------------------------------------------------------------------
Init ==
  \/ part = "binding" /\ Binding!Init /\ x9 = "" /\ x10 = "" /\ x11 = ""
  \/ part = "response" /\ Response!Init /\ x9 = "" /\ x10 = "" /\ x11 = ""
  \/ /\ part = "uri" /\ Uri!Init
     /\ x3 = "" /\ x4 = "" /\ x5 = "" /\ x6 = "" /\ x7 = "" /\ x8 = "" /\ x9 = "" /\ x10 = "" /\ x11 = ""
  \/ /\ part = "assembly" /\ Built!Init
     /\ x7 = "" /\ x8 = "" /\ x9 = "" /\ x10 = "" /\ x11 = ""
  \/ part = "nacos" /\ Nacos!Init /\ x10 = "" /\ x11 = ""
  \/ part = "connect" /\ Connect!Init
  \/ part = "breakers" /\ Store!Init /\ x9 = "" /\ x10 = "" /\ x11 = ""
  \/ /\ part = "window" /\ Window!Init
     /\ x5 = "" /\ x6 = "" /\ x7 = "" /\ x8 = "" /\ x9 = "" /\ x10 = "" /\ x11 = ""

Next ==
  \/ part = "binding" /\ Binding!Next /\ UNCHANGED <<part, x9, x10, x11>>
  \/ part = "response" /\ Response!Next /\ UNCHANGED <<part, x9, x10, x11>>
  \/ part = "uri" /\ Uri!Next /\ UNCHANGED <<part, x3, x4, x5, x6, x7, x8, x9, x10, x11>>
  \/ part = "assembly" /\ Built!Next /\ UNCHANGED <<part, x7, x8, x9, x10, x11>>
  \/ part = "nacos" /\ Nacos!Next /\ UNCHANGED <<part, x10, x11>>
  \/ part = "connect" /\ Connect!Next /\ UNCHANGED part
  \/ part = "breakers" /\ Store!Next /\ UNCHANGED <<part, x9, x10, x11>>
  \/ part = "window" /\ Window!Next /\ UNCHANGED <<part, x5, x6, x7, x8, x9, x10, x11>>

Spec == Init /\ [][Next]_vars

-----------------------------------------------------------------------------
(***************************************************************************)
(* The properties of the parts                                             *)
(***************************************************************************)

\* A service the macros accept is refused neither by the contract nor by the route
\* table when client or server start (HttpBinding).
CompiledStarts == part = "binding" => Binding!CompiledStarts

\* The route table finds the best route for every path, turning back where a
\* literal branch leads nowhere (HttpBinding).
RoutesRight == part = "binding" => Binding!RoutesRight

\* A method gets the arguments it was called with, wherever in the request they
\* travelled (HttpBinding).
DeliveredAsCalled == part = "binding" => Binding!DeliveredAsCalled

\* What a service returned is what its caller is told, over any number of servers
\* (HttpResponse).
OutcomeArrives == part = "response" => Response!OutcomeArrives

\* The delay a server asks for arrives as no less (HttpResponse).
WaitsAsTold == part = "response" => Response!WaitsAsTold

\* A response that names another call is nobody's answer (HttpResponse).
NotAnothersAnswer == part = "response" => Response!NotAnothersAnswer

\* The hand-written recogniser of the types of problems accepts exactly the URI
\* references of RFC 3986 (UriReference).
AcceptsUriReferences == part = "uri" => Uri!AcceptsUriReferences

\* A client or server that is built was given what its components rely on, in
\* whatever order its sections were set and built (Assembly).
WhatIsBuiltIsSound == part = "assembly" => Built!WhatIsBuiltIsSound

\* No change at the Nacos server is lost between the listener and the fetch
\* (NacosRegistry).
CurrentWhenQuiet == part = "nacos" => Nacos!CurrentWhenQuiet

\* Servers are found as they registered by the clients of their service, group and
\* version, and by no others (NacosRegistry).
FoundAsRegistered == part = "nacos" => Nacos!FoundAsRegistered

\* connect() gives out a client that works or none, and leaves at most the slot of its
\* selector behind; the client's calls speak the protocol its policy says, whatever the
\* peer turns out to be (ClientConnect).
ClientsAsTold == part = "connect" => Connect!ConnectsAsTold /\ Connect!SpeaksAsTold

\* The breakers kept for endpoints are bounded and no endpoint that left discovery
\* comes back (EndpointBreakers).
Registry == part = "breakers" => Store!Registry

\* A breaker is forgotten for a cause only (EndpointBreakers).
ForgottenForCause == [][part = "breakers" => Store!ForgetsForCause]_vars

\* The rolling window counts what was recorded within the window, no more and no
\* less than its buckets can tell (RollingWindow, MCRollingWindow).
WindowExact == part = "window" => Window!NothingOldCounts /\ Window!NothingFreshLost
=============================================================================
