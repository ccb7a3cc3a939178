----------------------------- MODULE NacosRegistry -----------------------------
(***************************************************************************)
(* Registration and discovery through Nacos (fusen-nacos/src/register.rs): *)
(* what a server registers is written as a Nacos instance, kept by the     *)
(* Nacos server, and read back by a subscription, which installs its       *)
(* listener, fetches the list and publishes it, while the listener's       *)
(* events are already arriving.  The SnapshotGate decides which list       *)
(* counts.                                                                 *)
(*                                                                         *)
(* An option is a set of at most one value; a metadata value that is       *)
(* separated by commas, and a path, is the sequence of its parts.          *)
(***************************************************************************)
EXTENDS Naturals, Integers, Sequences, SequencesExt, FiniteSets

CONSTANTS Registrations,  \* what servers register: ServiceRegistration
          Foreign,        \* instances registered by others, in the form of Nacos
          Selectors,      \* what clients subscribe to: ServiceSelector
          Settings,       \* what NacosRegistry::connect is called with
          Infinite,       \* the weight that is not finite
          MaxChanges      \* bound on the changes at the Nacos server

VARIABLES
  selector,    \* the subscription's
  convention,  \* "Canonical" or "SpringCloud"
  phase,       \* how far the subscription is
  listed,      \* the Nacos server: for each service name and group, its instances
  changes,     \* how often it changed
  events,      \* the events on their way to the listener
  fetched,     \* what select answered
  pending,     \* SnapshotGate: the last event before initialize, if any
  shown        \* what the directory shows once it is ready, {} before

vars == <<selector, convention, phase, listed, changes, events, fetched, pending, shown>>

-----------------------------------------------------------------------------
(***************************************************************************)
(* Names                                                                   *)
(***************************************************************************)

\* service_name and service_group
ServiceName(s) == s.service
ServiceGroup(s) == IF s.group = {} THEN {"DEFAULT_GROUP"} ELSE s.group
Key(s) == <<ServiceName(s), ServiceGroup(s)>>

Keys == {Key(r.selector) : r \in Registrations} \cup {Key(s) : s \in Selectors}

-----------------------------------------------------------------------------
(***************************************************************************)
(* Writing an instance                                                     *)
(***************************************************************************)

\* The literal of an IPv6 address is in brackets in a URL, and bare in Nacos.
Ipv6 == [bare |-> "::1", bracketed |-> "[::1]"]
Unbracketed(host) == IF host = Ipv6.bracketed THEN Ipv6.bare ELSE host
Bracketed(ip) == IF ip = Ipv6.bare THEN Ipv6.bracketed ELSE ip

Merged(under, over) == {m \in under : \A o \in over : o[1] # m[1]} \cup over

\* encode_http_versions
EncodeHttpVersions(versions) ==
  IF versions = {"1.1"} THEN <<"1.1">> ELSE IF versions = {"2"} THEN <<"2">> ELSE <<"1.1", "2">>

\* The bindings of EndpointCapabilities are sorted.
EncodeBindings(bindings) ==
  IF bindings = {"http-json-v1"} THEN <<"http-json-v1">>
  ELSE IF bindings = {"vendor-v1"} THEN <<"vendor-v1">> ELSE <<"http-json-v1", "vendor-v1">>

\* The version of the selector left out.
BuildInstanceUnversioned(r) ==
  [ip |-> Unbracketed(r.endpoint.host), port |-> r.endpoint.port, weight |-> r.weight,
   healthy |-> TRUE, enabled |-> TRUE, id |-> {r.id},
   meta |-> [scheme |-> {r.endpoint.scheme}, service |-> {r.selector.service}, id |-> {r.id},
             bindings |-> {EncodeBindings(r.capabilities.bindings)},
             versions |-> {EncodeHttpVersions(r.capabilities.versions)},
             controls |-> IF r.capabilities.controls THEN {"v1"} ELSE {},
             path |-> IF r.endpoint.path = <<>> THEN {} ELSE {r.endpoint.path},
             version |-> {}, group |-> r.selector.group],
   user |-> Merged(r.selector.metadata, r.metadata)]

\* build_instance
BuildInstance(r) ==
  [ip |-> Unbracketed(r.endpoint.host), port |-> r.endpoint.port, weight |-> r.weight,
   healthy |-> TRUE, enabled |-> TRUE, id |-> {r.id},
   meta |-> [scheme |-> {r.endpoint.scheme}, service |-> {r.selector.service}, id |-> {r.id},
             bindings |-> {EncodeBindings(r.capabilities.bindings)},
             versions |-> {EncodeHttpVersions(r.capabilities.versions)},
             controls |-> IF r.capabilities.controls THEN {"v1"} ELSE {},
             path |-> IF r.endpoint.path = <<>> THEN {} ELSE {r.endpoint.path},
             version |-> r.selector.version, group |-> r.selector.group],
   user |-> Merged(r.selector.metadata, r.metadata)]

-----------------------------------------------------------------------------
(***************************************************************************)
(* Reading an instance                                                     *)
(***************************************************************************)

\* The ports of an endpoint: a u16, and not zero.
Ports == 1 .. 65535

\* HttpBindingId::new, InstanceId::new and validate_user_metadata
BindingIds == {"http-json-v1", "vendor-v1"}
IsInstanceId(id) == id \notin {"", "not an id"}
IsUserKey(key) == key \notin {"", " zone"}

\* decode_bindings: none is given twice.
DecodeBindings(values) ==
  IF ToSet(values) \subseteq BindingIds /\ IsInjective(values) THEN {ToSet(values)} ELSE {}

\* decode_http_versions
DecodeHttpVersions(values) ==
  IF ToSet(values) \subseteq {"1.1", "2"} /\ IsInjective(values) THEN {ToSet(values)} ELSE {}

DefaultCapabilities == [versions |-> {"1.1"}, bindings |-> {"http-json-v1"}, controls |-> FALSE]

\* decode_capabilities
DecodeCapabilities(meta) ==
  IF meta.bindings = {} /\ meta.versions = {} /\ meta.controls = {}
    THEN IF convention = "SpringCloud" THEN {DefaultCapabilities} ELSE {}
    ELSE {[versions |-> v, bindings |-> b, controls |-> meta.controls = {"v1"}] :
            v \in UNION {DecodeHttpVersions(t) : t \in meta.versions},
            b \in UNION {DecodeBindings(t) : t \in {t \in meta.bindings : meta.controls \subseteq {"v1"}}}}

\* A segment of a path, decoded, and as url writes it again; "." and ".." are not
\* pushed, nor are empty ones.
DecodeSegment(segment) ==
  CASE segment = "%7Ea" -> {"~a"} [] segment = "%2F" -> {"/"} [] segment = "%FF" -> {}
    [] OTHER -> {segment}
Push(segment) == IF segment = "/" THEN "%2F" ELSE segment
PathOf(path) ==
  LET segments == SelectSeq(path, LAMBDA s : s # "")
      Written(s) == Push(CHOOSE d \in DecodeSegment(s) : TRUE)
  IN SelectSeq([i \in DOMAIN segments |-> Written(segments[i])], LAMBDA s : s \notin {".", ".."})
IsReadable(path) == \A s \in ToSet(path) : DecodeSegment(s) # {}

\* The id of the metadata, or else of Nacos, if it is one; the address otherwise.
IdOf(n) ==
  LET given == IF n.meta.id # {} THEN n.meta.id ELSE n.id IN
  IF \E id \in given : IsInstanceId(id) THEN CHOOSE id \in given : TRUE
  ELSE "nacos:" \o n.ip

\* The schemes of an instance that can be used; one that cannot has none.
UsableSchemes(n) ==
  LET scheme == IF n.meta.scheme = {} THEN {"http"} ELSE n.meta.scheme
      path == UNION {ToSet(p) : p \in n.meta.path}
  IN {s \in scheme \cap {"http", "https"} :
        /\ n.port \in Ports
        /\ \A p \in path : DecodeSegment(p) # {}
        /\ n.weight # Infinite
        /\ \A m \in n.user : IsUserKey(m[1])}

\* The ServiceInstance made of it.
InstanceOf(n, scheme, capabilities) ==
  [id |-> IdOf(n),
   endpoint |-> [scheme |-> scheme, host |-> Bracketed(n.ip), port |-> n.port,
                 path |-> PathOf(IF n.meta.path = {} THEN <<>>
                                 ELSE CHOOSE p \in n.meta.path : TRUE)],
   capabilities |-> capabilities, weight |-> n.weight, metadata |-> n.user]

\* to_service_instance: {} when the instance cannot be used.
ToServiceInstance(n) ==
  {InstanceOf(n, s, c) : s \in UsableSchemes(n), c \in DecodeCapabilities(n.meta)}

MatchesSelector(n) ==
  /\ n.meta.version = selector.version
  /\ IF n.meta.service = {} THEN convention = "SpringCloud" ELSE n.meta.service = {selector.service}

\* to_service_instances
ToServiceInstances(instances) ==
  UNION {ToServiceInstance(n) :
           n \in {n \in instances : n.healthy /\ n.enabled /\ n.weight > 0 /\ MatchesSelector(n)}}

-----------------------------------------------------------------------------
(***************************************************************************)
(* The Nacos server: instances of a service are told apart by their        *)
(* addresses; a change is sent to the listener once it is installed        *)
(***************************************************************************)

Listening == phase \in {"subscribed", "selected", "ready"}

Changed(key, instances) ==
  /\ changes < MaxChanges
  /\ instances # listed[key]
  /\ listed' = [listed EXCEPT ![key] = instances]
  /\ changes' = changes + 1
  /\ events' = IF Listening /\ key = Key(selector) THEN Append(events, instances) ELSE events
  /\ UNCHANGED <<selector, convention, phase, fetched, pending, shown>>

Others(key, n) == {o \in listed[key] : <<o.ip, o.port>> # <<n.ip, n.port>>}

\* register: the activation of a RegistrationHandle.
Register(r) ==
  LET n == BuildInstance(r) IN Changed(Key(r.selector), Others(Key(r.selector), n) \cup {n})

\* deregister: its close.
Deregister(r) == Changed(Key(r.selector), Others(Key(r.selector), BuildInstance(r)))

\* Others register under the name the subscription looks at.
ForeignRegisters(n) == Changed(Key(selector), Others(Key(selector), n) \cup {n})

\* Nacos loses the beat of an instance, or an operator takes it out.
Degrade ==
  \E key \in Keys : \E n \in listed[key] :
    \E m \in {[n EXCEPT !.healthy = ~@], [n EXCEPT !.enabled = FALSE], [n EXCEPT !.weight = 0]} :
      Changed(key, Others(key, n) \cup {m})

-----------------------------------------------------------------------------
(***************************************************************************)
(* The subscription                                                        *)
(***************************************************************************)

Init ==
  /\ selector \in Selectors
  /\ convention \in {"Canonical", "SpringCloud"}
  /\ phase = "unconnected"
  /\ listed = [key \in Keys |-> {}]
  /\ changes = 0 /\ events = <<>> /\ fetched = {} /\ pending = {} /\ shown = {}

\* NacosConfig::validate and validate_application_name
IsValidSettings(s) ==
  /\ s.address \notin {"", " padded"}
  /\ (s.username = {}) <=> (s.password = {})
  /\ s.application \notin {"", " padded"}

\* NacosRegistry::connect: nothing is sent before the settings are valid.
Connect(s) ==
  /\ phase = "unconnected"
  /\ phase' = IF IsValidSettings(s) THEN "prepared" ELSE "rejected"
  /\ UNCHANGED <<selector, convention, listed, changes, events, fetched, pending, shown>>

\* The first step of the activation of prepare_subscription; the SDK may send the
\* list it finds.
Subscribe ==
  /\ phase = "prepared"
  /\ phase' = "subscribed"
  /\ events' \in {<<>>, <<listed[Key(selector)]>>}
  /\ UNCHANGED <<selector, convention, listed, changes, fetched, pending, shown>>

\* The second: healthy instances, from the server.
Select ==
  /\ phase = "subscribed"
  /\ phase' = "selected"
  /\ fetched' = {n \in listed[Key(selector)] : n.healthy}
  /\ UNCHANGED <<selector, convention, listed, changes, events, pending, shown>>

\* The fetched list counts.
InitializeFetched ==
  /\ phase = "selected"
  /\ shown' = {ToServiceInstances(fetched)}
  /\ pending' = {}
  /\ phase' = "ready"
  /\ fetched' = {}
  /\ UNCHANGED <<selector, convention, listed, changes, events>>

\* SnapshotGate::initialize: an event that came first counts.
Initialize ==
  /\ phase = "selected"
  /\ shown' = IF pending # {} THEN pending ELSE {ToServiceInstances(fetched)}
  /\ pending' = {}
  /\ phase' = "ready"
  /\ fetched' = {}
  /\ UNCHANGED <<selector, convention, listed, changes, events>>

\* ServiceChangeListener::event and SnapshotGate::update, on a thread of the SDK.
Event ==
  /\ events # <<>>
  /\ LET instances == {ToServiceInstances(Head(events))} IN
     IF shown # {} THEN shown' = instances /\ UNCHANGED pending
     ELSE pending' = instances /\ UNCHANGED shown
  /\ events' = Tail(events)
  /\ UNCHANGED <<selector, convention, phase, listed, changes, fetched>>

\* subscribe or select is answered with an error.
ActivationFails ==
  /\ phase \in {"prepared", "subscribed"}
  /\ phase' = "failed"
  /\ UNCHANGED <<selector, convention, listed, changes, events, fetched, pending, shown>>

\* unsubscribe: the close of the SubscriptionHandle, also after a failed activation.
\* Events on their way still arrive.
Unsubscribe ==
  /\ phase \in {"ready", "failed"}
  /\ phase' = "closed"
  /\ UNCHANGED <<selector, convention, listed, changes, events, fetched, pending, shown>>

Next ==
  \/ \E r \in Registrations : Register(r) \/ Deregister(r)
  \/ \E n \in Foreign : ForeignRegisters(n)
  \/ Degrade
  \/ \E s \in Settings : Connect(s)
  \/ Subscribe \/ Select \/ Initialize \/ Event \/ ActivationFails \/ Unsubscribe

Spec == Init /\ [][Next]_vars

-----------------------------------------------------------------------------
(***************************************************************************)
(* Properties                                                              *)
(***************************************************************************)

Quiet == phase = "ready" /\ events = <<>>

\* No change is lost between the listener and the fetch, whichever comes first:
\* once the events have arrived, the directory shows what the Nacos server lists.
CurrentWhenQuiet == Quiet => shown = {ToServiceInstances(listed[Key(selector)])}

\* What a client should be told of a registration.  Empty segments of a path are
\* lost, and its escapes are those url writes.
Told(r) ==
  [id |-> r.id, endpoint |-> [r.endpoint EXCEPT !.path = PathOf(@)],
   capabilities |-> r.capabilities, weight |-> r.weight,
   metadata |-> Merged(r.selector.metadata, r.metadata)]

SameIdentity(s, t) ==
  s.service = t.service /\ ServiceGroup(s) = ServiceGroup(t) /\ s.version = t.version

\* Servers are found as they registered, with their identity, address, capabilities,
\* weight and metadata, by the clients of their service, group and version, and by
\* no others; what Nacos takes for unhealthy, disabled or without weight is not.
\* Left out: a path whose escapes are not UTF-8, which no client can read.
FoundAsRegistered ==
  Quiet =>
    LET served == {r \in Registrations : BuildInstance(r) \in listed[Key(r.selector)]}
        ids == {r.id : r \in Registrations}
    IN \A instances \in shown :
         {i \in instances : i.id \in ids} =
           {Told(r) : r \in {r \in served : /\ SameIdentity(r.selector, selector)
                                            /\ IsReadable(r.endpoint.path)}}
=============================================================================
