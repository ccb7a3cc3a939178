----------------------------- MODULE ClientConnect -----------------------------
(***************************************************************************)
(* How a client comes into being and how it talks (client/builder.rs, the  *)
(* end of InvocationTerminal::select_endpoint, client/transport.rs): the   *)
(* builder is configured and connected, while the runtime may be shut      *)
(* down and connect() be given up; each call then picks an instance that   *)
(* its binding and HTTP version policy allow, and one of the transport's   *)
(* connection pools, which opens a connection to a peer that may not be    *)
(* what was advertised.                                                    *)
(*                                                                         *)
(* An option is a set of at most one value.                                *)
(***************************************************************************)
EXTENDS Naturals, FiniteSets

CONSTANTS Bindings,   \* HTTP binding identifiers
          Json,       \* the one of JsonCodec, registered with every runtime
          Custom,     \* those registered with this runtime
          RequestIds, \* values of x-request-id
          Shards,     \* http2_connections_per_host
          Capabilities \* EndpointCapabilities: versions, bindings and controls

Versions == {"1.1", "2"}
Schemes == {"http", "https"}
Policies == {"Auto", "Http1", "Http2", "H2c"}

VARIABLES
  builder,    \* ClientBuilder: endpoint mode, endpoint, binding, policy, capabilities
  interface,  \* "valid", "not json" or "invalid": the macro's descriptor
  registry,   \* the runtime has one
  runtime,    \* "running", "draining", or "closing" once the manager is closed too
  phase,      \* "building", "connecting", "connected", "refused", "failed" or "dropped"
  slot,       \* SubscriptionManager::slots, for the selector, as far as connect() got
              \* with it: "none", "kept" there, or "acquired" with its directory
  client,     \* ServiceClientInner, {} before it is made
  directory,  \* the instance discovery shows, {} when none
  selected,   \* SelectedEndpoint of the call, {} between calls
  next,       \* next_http2_shard and next_auto_shard
  wire        \* what the call's connection was, {} before it is open

vars == <<builder, interface, registry, runtime, phase, slot, client, directory, selected, next, wire>>

-----------------------------------------------------------------------------
(***************************************************************************)
(* ClientBuilder                                                           *)
(***************************************************************************)

\* ClientBuilder::new
NewBuilder == [mode |-> "Unset", endpoint |-> {}, binding |-> Json, policy |-> "Auto", capabilities |-> {}]

Init ==
  /\ builder = NewBuilder
  /\ interface \in {"valid", "not json", "invalid"}
  /\ registry \in BOOLEAN
  /\ runtime = "running" /\ phase = "building" /\ slot = "none"
  /\ client = {} /\ directory = {} /\ selected = {} /\ wire = {}
  /\ next = [auto |-> 0, http2 |-> 0]

Configured(b) ==
  /\ phase = "building"
  /\ builder' = b
  /\ UNCHANGED <<interface, registry, runtime, phase, slot, client, directory, selected, next, wire>>

\* The endpoint of Direct is what the text parses to, {} when it does not.
Direct == \E e \in {{}} \cup {{s} : s \in Schemes} :
            Configured([builder EXCEPT !.mode = "Direct", !.endpoint = e])
Discover == Configured([builder EXCEPT !.mode = "Discovery"])
Binding == \E b \in Bindings : Configured([builder EXCEPT !.binding = b])
SetHttpVersionPolicy == \E p \in Policies : Configured([builder EXCEPT !.policy = p])
DirectCapabilities == \E c \in Capabilities : Configured([builder EXCEPT !.capabilities = {c}])

\* connect() consumes the builder and ends without a client.
Ends(how) ==
  /\ phase' = how
  /\ builder' = NewBuilder
  /\ UNCHANGED <<interface, registry, runtime, client, directory, selected, next, wire>>

\* connect(): the state of the runtime is read once.
ConnectWhileRunning ==
  /\ phase = "building"
  /\ runtime = "running"
  /\ phase' = "connecting"
  /\ UNCHANGED <<builder, interface, registry, runtime, slot, client, directory, selected, next, wire>>

ConnectAfterClose == phase = "building" /\ runtime # "running" /\ Ends("refused") /\ UNCHANGED slot

\* The checks, without those of the interface.
RefusedBlind ==
  \/ builder.binding \notin {Json} \cup Custom
  \/ builder.mode = "Unset"
  \/ builder.mode = "Discovery" /\ ~registry
  \/ builder.mode = "Direct" /\ builder.endpoint = {}

\* The checks of connect() that do not wait.
Refused ==
  \/ interface = "invalid"
  \/ builder.binding \notin {Json} \cup Custom
  \/ builder.binding = Json /\ interface = "not json"
  \/ builder.mode = "Unset"
  \/ builder.mode = "Discovery" /\ ~registry
  \/ /\ builder.mode = "Direct"
     /\ \/ builder.endpoint = {}
        \/ \E c \in builder.capabilities : builder.binding \notin c.bindings

Refuse == phase = "connecting" /\ Refused /\ slot = "none" /\ Ends("refused") /\ UNCHANGED slot

\* connect() is about to call, or in, SubscriptionManager::acquire.
Acquiring == phase = "connecting" /\ ~Refused /\ builder.mode = "Discovery"

\* The manager is closed, or full: nothing is inserted.
AcquireRefused == Acquiring /\ slot = "none" /\ Ends("refused") /\ UNCHANGED slot

\* The slot of the selector is found, or inserted with its supervisor running,
\* before anything is awaited.
Acquire ==
  /\ Acquiring /\ slot = "none"
  /\ runtime # "closing"
  /\ slot' = "kept"
  /\ UNCHANGED <<builder, interface, registry, runtime, phase, client, directory, selected, next, wire>>

\* wait_until_ready finds the slot Ready or Stale.
AcquireReady ==
  /\ Acquiring /\ slot = "kept"
  /\ slot' = "acquired"
  /\ UNCHANGED <<builder, interface, registry, runtime, phase, client, directory, selected, next, wire>>

\* The initial timeout, or a slot that is Failed, Quarantined, Unavailable or Closed:
\* slot and supervisor stay with the manager.
AcquireFails == Acquiring /\ slot = "kept" /\ Ends("failed") /\ UNCHANGED slot

\* The caller drops the connect() future at its only await; slot and supervisor stay.
ConnectDropped == Acquiring /\ slot = "kept" /\ Ends("dropped") /\ UNCHANGED slot

\* A connect() that takes the directory for granted once there is a slot.
HandOutEarly ==
  /\ phase = "connecting"
  /\ ~Refused
  /\ builder.mode = "Discovery" => slot # "none"
  /\ client' = {IF builder.mode = "Direct" THEN builder
                ELSE [builder EXCEPT !.endpoint = {}, !.capabilities = {}]}
  /\ builder' = NewBuilder
  /\ phase' = "connected"
  /\ UNCHANGED <<interface, registry, runtime, slot, directory, selected, next, wire>>

\* The client is put together, which uses the builder up, and handed out.
HandOut ==
  /\ phase = "connecting"
  /\ ~Refused
  /\ builder.mode = "Discovery" => slot = "acquired"
  /\ client' = {IF builder.mode = "Direct" THEN builder
                ELSE [builder EXCEPT !.endpoint = {}, !.capabilities = {}]}
  /\ builder' = NewBuilder
  /\ phase' = "connected"
  /\ UNCHANGED <<interface, registry, runtime, slot, directory, selected, next, wire>>

-----------------------------------------------------------------------------
(***************************************************************************)
(* Calls                                                                   *)
(***************************************************************************)

\* A server of the service registers, re-registers or leaves; a call that has chosen
\* its endpoint looks no more.
DirectoryChanges ==
  /\ slot = "acquired" /\ selected = {}
  /\ directory' \in {{}} \cup {{[scheme |-> s, capabilities |-> c]} : s \in Schemes, c \in Capabilities}
  /\ UNCHANGED <<builder, interface, registry, runtime, phase, slot, client, selected, next, wire>>

\* Without capabilities a direct endpoint is taken to be an ordinary one.
Generic(c) == [versions |-> IF c.endpoint = {"https"} THEN Versions ELSE {"1.1"},
               bindings |-> {c.binding}, controls |-> FALSE]

Instances(c) ==
  IF c.mode = "Discovery" THEN directory
  ELSE {[scheme |-> s, capabilities |-> IF c.capabilities = {} THEN Generic(c)
                                        ELSE CHOOSE k \in c.capabilities : TRUE] : s \in c.endpoint}

\* Auto takes HTTP/2 wherever it is advertised.
SelectHttpVersionAnywhere(policy, scheme, versions) ==
  IF policy = "Http1" THEN versions \cap {"1.1"}
  ELSE IF "2" \in versions THEN {"2"} ELSE IF policy = "Auto" THEN versions ELSE {}

\* select_http_version: {} when the policy excludes the endpoint.
SelectHttpVersion(policy, scheme, versions) ==
  CASE policy = "Auto" -> IF scheme = "https" /\ "2" \in versions THEN {"2"} ELSE versions \cap {"1.1"}
    [] policy = "Http1" -> versions \cap {"1.1"}
    [] policy = "Http2" -> IF scheme = "https" THEN versions \cap {"2"} ELSE {}
    [] policy = "H2c" -> IF scheme = "http" THEN versions \cap {"2"} ELSE {}

\* should_auto_negotiate
ShouldAutoNegotiate(policy, scheme, versions) ==
  policy = "Auto" /\ scheme = "https" /\ versions = Versions

\* select_endpoint, for one instance that routers, breakers and the load balancer
\* let through; there is no call while the runtime closes.
SelectEndpoint ==
  /\ runtime = "running"
  /\ selected = {}
  /\ \E c \in client, id \in RequestIds : \E i \in Instances(c) :
       LET versions == SelectHttpVersion(c.policy, i.scheme, i.capabilities.versions)
           auto == ShouldAutoNegotiate(c.policy, i.scheme, i.capabilities.versions)
       IN /\ c.binding \in i.capabilities.bindings
          /\ versions # {}
          /\ selected' = {[instance |-> i, auto |-> auto,
                           version |-> IF auto THEN "1.1" ELSE CHOOSE v \in versions : TRUE,
                           requestId |-> IF i.capabilities.controls THEN {id} ELSE {}]}
  /\ wire' = {}
  /\ UNCHANGED <<builder, interface, registry, runtime, phase, slot, client, directory, next>>

\* HttpTransport::send: the pool, and what it offers to a peer over TLS.
Pool(s) == IF s.auto THEN "auto" ELSE IF s.version = "2" THEN "http2" ELSE "http1"
Offered(pool) ==
  CASE pool = "auto" -> Versions [] pool = "http2" -> {"2"} [] pool = "http1" -> {}

\* stable_shard is some function of the authority and the request id; here the id.
StableShard(id) == id % Shards

\* request_shard
RequestShard(s) ==
  IF s.requestId # {} THEN StableShard(CHOOSE id \in s.requestId : TRUE)
  ELSE next[Pool(s)] % Shards

\* Connections over TLS agree on a version of the peer's, or on none when one side
\* does not negotiate.
Negotiated(pool, peer) ==
  IF peer.alpn = {} \/ Offered(pool) = {} THEN {"none"} ELSE Offered(pool) \cap peer.alpn

\* Without RequireH2Alpn.
OpenedAnyway(pool, agreed) == IF agreed = "none" THEN {"1.1"} ELSE {agreed}

\* The version of a connection that agreed on this, {} when RequireH2Alpn refuses it.
Opened(pool, agreed) ==
  CASE pool = "http2" -> {agreed} \cap {"2"}
    [] OTHER -> IF agreed = "none" THEN {"1.1"} ELSE {agreed}

Peers == [tls : BOOLEAN, alpn : SUBSET Versions, versions : SUBSET Versions \ {{}}]

\* A connection is opened to whoever listens at the address of the instance, and
\* the request is sent; or it fails.
Send ==
  /\ wire = {}
  /\ \E s \in selected, peer \in Peers :
       LET pool == Pool(s)
           versions == IF s.instance.scheme = "https"
                         THEN UNION {Opened(pool, a) : a \in {a \in Negotiated(pool, peer) : peer.tls}}
                         ELSE {IF pool = "http2" THEN "2" ELSE "1.1"}
           spoken == {v \in versions : v \in peer.versions /\ (s.instance.scheme = "https") = peer.tls}
       IN /\ \/ spoken = {} /\ wire' = {[tls |-> FALSE, version |-> "failed", shard |-> 0]}
             \/ \E v \in spoken :
                  wire' = {[tls |-> s.instance.scheme = "https", version |-> v,
                            shard |-> IF pool = "http1" THEN 0 ELSE RequestShard(s)]}
          /\ next' = IF pool # "http1" /\ s.requestId = {}
                       THEN [next EXCEPT ![pool] = (@ + 1) % Shards] ELSE next
  /\ UNCHANGED <<builder, interface, registry, runtime, phase, slot, client, directory, selected>>

CallEnds ==
  /\ wire # {}
  /\ selected' = {} /\ wire' = {}
  /\ UNCHANGED <<builder, interface, registry, runtime, phase, slot, client, directory, next>>

\* The coordinator of the shutdown stores Draining.
Close ==
  /\ runtime = "running"
  /\ runtime' = "draining"
  /\ UNCHANGED <<builder, interface, registry, phase, slot, client, directory, selected, next, wire>>

\* A little later it calls SubscriptionManager::begin_shutdown.
CloseManager ==
  /\ runtime = "draining"
  /\ runtime' = "closing"
  /\ UNCHANGED <<builder, interface, registry, phase, slot, client, directory, selected, next, wire>>

Next ==
  \/ Direct \/ Discover \/ Binding \/ SetHttpVersionPolicy \/ DirectCapabilities
  \/ ConnectWhileRunning \/ ConnectAfterClose \/ Refuse
  \/ AcquireRefused \/ Acquire \/ AcquireReady \/ AcquireFails \/ ConnectDropped \/ HandOut
  \/ DirectoryChanges \/ SelectEndpoint \/ Send \/ CallEnds
  \/ Close \/ CloseManager

Spec == Init /\ [][Next]_vars

-----------------------------------------------------------------------------
(***************************************************************************)
(* Properties                                                              *)
(***************************************************************************)

\* connect() gives out a client that can be used, or none: a client has a valid
\* interface, a registered binding, for JSON an interface it can carry, and an endpoint
\* without a subscription (client.md:10) or a directory that was ready.  A builder that
\* is refused, by a check or by the manager, leaves nothing.  A connect() that fails
\* while it waits for the directory, or is dropped there, leaves the slot with its
\* supervisor, which the next client of the selector finds and which counts against
\* max_subscriptions until the runtime shuts down, and no more than these.
ConnectsAsTold ==
  /\ \A c \in client :
       /\ interface = "valid" \/ (interface = "not json" /\ c.binding # Json)
       /\ c.binding \in {Json} \cup Custom
       /\ \/ c.mode = "Discovery" /\ slot = "acquired"
          \/ c.mode = "Direct" /\ c.endpoint # {} /\ slot = "none"
  /\ client # {} <=> phase = "connected"
  /\ phase = "refused" => slot = "none"
  /\ phase \in {"failed", "dropped"} => slot = "kept"

\* A request is sent the way the policy says and to an endpoint that advertised it,
\* whatever the peer turns out to be: HTTP/2 for Http2 over TLS, for H2c in clear,
\* HTTP/1.1 for Http1; HTTP/2 is never tried in clear unless it is asked for; no
\* request to an https endpoint is sent in clear.
SpeaksAsTold ==
  \A c \in client, s \in selected, w \in wire :
    w.version # "failed" =>
      /\ c.binding \in s.instance.capabilities.bindings
      /\ w.tls <=> (s.instance.scheme = "https")
      /\ w.version \in s.instance.capabilities.versions
      /\ c.policy = "Http1" => w.version = "1.1"
      /\ c.policy = "Http2" => w.version = "2" /\ w.tls
      /\ c.policy = "H2c" => w.version = "2" /\ ~w.tls
      /\ c.policy = "Auto" /\ w.version = "2" => w.tls
      /\ w.shard \in 0 .. Shards - 1
=============================================================================
