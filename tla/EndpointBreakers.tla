---------------------------- MODULE EndpointBreakers ----------------------------
(***************************************************************************)
(* The endpoint breakers of a client (client/endpoint_breakers.rs) and the *)
(* bounded store they are kept in (EndpointBreakerStore in                 *)
(* resilience/breaker.rs).                                                 *)
(*                                                                         *)
(* Subscriptions tell which endpoints discovery lists, one set for each    *)
(* selector of the service; attempts look up the breaker of an endpoint,   *)
(* for the directory snapshot they have, which may be an old one.  The     *)
(* membership lock is taken before the store's, and a lookup of a directly *)
(* configured endpoint takes the store's alone, with an instant it has     *)
(* read before.                                                            *)
(***************************************************************************)
EXTENDS Naturals, FiniteSets

CONSTANTS Selectors,     \* selectors of the one service
          Endpoints,
          Bindings,      \* HTTP bindings of the service
          Callers,       \* attempts that look up a breaker
          MaxEntries,    \* max_entries of the store
          IdleEviction,  \* in ticks of the clock
          Nobody,        \* no owner of the membership lock
          MaxTime,       \* bound on the clock
          MaxBreakers    \* bound on the breakers made

Sources == {"direct", "discovery"}
Keys == [source : Sources, binding : Bindings, endpoint : Endpoints]
NoKey == [source |-> "none"]
Breakers == 0 .. MaxBreakers
Absent == 0                \* a key without an entry has no breaker

VARIABLES
  owners,      \* the endpoints each selector has listed
  references,  \* how many selectors list an endpoint, 0 if it has no entry
  lock,        \* who holds the membership lock
  evicted,     \* the endpoints whose entries the lock's holder removes
  entries,     \* the store: a breaker and last_used for each key
  made,        \* the number of breakers made
  now,         \* the clock
  call         \* each caller's key and instant, and the breaker it got

memberVars == <<owners, references, lock, evicted>>
vars == <<memberVars, entries, made, now, call>>

NoEntry == [breaker |-> Absent, used |-> 0]
NoCall == [pc |-> "idle", key |-> NoKey, instant |-> 0]

Init ==
  /\ owners = [s \in Selectors |-> {}]
  /\ references = [e \in Endpoints |-> 0]
  /\ lock = Nobody
  /\ evicted = {}
  /\ entries = [k \in Keys |-> NoEntry]
  /\ made = 0
  /\ now = 0
  /\ call = [c \in Callers |-> NoCall]

-----------------------------------------------------------------------------
(***************************************************************************)
(* Membership                                                              *)
(***************************************************************************)

\* increment_references
Incremented(refs, added) ==
  [e \in Endpoints |-> IF e \in added THEN refs[e] + 1 ELSE refs[e]]

\* decrement_references: the last reference removes the entry.
Decremented(refs, removed) ==
  [e \in Endpoints |-> IF e \in removed /\ refs[e] > 0 THEN refs[e] - 1 ELSE refs[e]]

\* The endpoints decrement_references returns.
LastReferences(refs, removed) == {e \in removed : refs[e] = 1}

\* replace_discovery up to remove_cached; remove_discovery is the same with
\* nothing listed any more.
Members(s, current) ==
  /\ lock = Nobody
  /\ lock' = s
  /\ evicted' = LastReferences(references, owners[s] \ current)
  /\ references' = Incremented(Decremented(references, owners[s] \ current),
                               current \ owners[s])
  /\ owners' = [owners EXCEPT ![s] = current]
  /\ UNCHANGED <<entries, made, now, call>>

\* remove_cached for every key of the endpoints, whatever its source.
RemoveCachedAll(s) ==
  /\ lock = s
  /\ lock' = Nobody
  /\ evicted' = {}
  /\ entries' = [k \in Keys |-> IF k.endpoint \in evicted THEN NoEntry ELSE entries[k]]
  /\ UNCHANGED <<owners, references, made, now, call>>

\* remove_cached under the store's lock, after which both locks are free.
RemoveCached(s) ==
  /\ lock = s
  /\ lock' = Nobody
  /\ evicted' = {}
  /\ entries' = [k \in Keys |->
       IF k.source = "discovery" /\ k.endpoint \in evicted THEN NoEntry ELSE entries[k]]
  /\ UNCHANGED <<owners, references, made, now, call>>

-----------------------------------------------------------------------------
(***************************************************************************)
(* The store                                                               *)
(***************************************************************************)

Present(store) == {k \in Keys : store[k].breaker # Absent}

\* evict_idle_locked; an instant before last_used counts as none passed.
AfterIdle(store, instant) ==
  [k \in Keys |-> IF instant >= store[k].used + IdleEviction THEN NoEntry ELSE store[k]]

\* One of the entries with the smallest last_used leaves a full store.
RoomFor(store) ==
  IF Cardinality(Present(store)) >= MaxEntries
    THEN {[store EXCEPT ![k] = NoEntry] : k \in
            {o \in Present(store) : \A p \in Present(store) : store[o].used <= store[p].used}}
    ELSE {store}

\* get_or_insert_with_observer under the store's lock.
GetOrInsert(key, instant) ==
  LET fresh == AfterIdle(entries, instant) IN
  IF fresh[key].breaker # Absent
    THEN /\ entries' = [fresh EXCEPT ![key].used = instant]
         /\ UNCHANGED made
    ELSE /\ made < MaxBreakers
         /\ made' = made + 1
         /\ \E room \in RoomFor(fresh) :
              entries' = [room EXCEPT ![key] = [breaker |-> made + 1, used |-> instant]]

-----------------------------------------------------------------------------
(***************************************************************************)
(* get_or_insert_observed                                                  *)
(***************************************************************************)

\* A direct lookup reads the clock and has taken no lock.
LookupDirect(c, key) ==
  /\ call[c].pc = "idle"
  /\ key.source = "direct"
  /\ call' = [call EXCEPT ![c] = [pc |-> "store", key |-> key, instant |-> now]]
  /\ UNCHANGED <<memberVars, entries, made, now>>

\* A discovered endpoint's entry is made whether or not it is listed.
LookupDiscoveredAlways(c, key) ==
  /\ call[c].pc = "idle"
  /\ key.source = "discovery"
  /\ lock = Nobody
  /\ lock' = c
  /\ call' = [call EXCEPT ![c] = [pc |-> "store", key |-> key, instant |-> now]]
  /\ UNCHANGED <<owners, references, evicted, entries, made, now>>

\* The membership lock is taken, and kept while the store is used.  The breaker of
\* an endpoint that is no longer listed is not kept.
LookupDiscovered(c, key) ==
  /\ call[c].pc = "idle"
  /\ key.source = "discovery"
  /\ lock = Nobody
  /\ \/ /\ references[key.endpoint] > 0
        /\ lock' = c
        /\ call' = [call EXCEPT ![c] = [pc |-> "store", key |-> key, instant |-> now]]
        /\ UNCHANGED made
     \/ /\ references[key.endpoint] = 0
        /\ made < MaxBreakers
        /\ made' = made + 1
        /\ UNCHANGED <<lock, call>>
  /\ UNCHANGED <<owners, references, evicted, entries, now>>

Store(c) ==
  /\ call[c].pc = "store"
  /\ GetOrInsert(call[c].key, call[c].instant)
  /\ lock' = IF lock = c THEN Nobody ELSE lock
  /\ call' = [call EXCEPT ![c] = NoCall]
  /\ UNCHANGED <<owners, references, evicted, now>>

Tick ==
  /\ now < MaxTime
  /\ now' = now + 1
  /\ UNCHANGED <<memberVars, entries, made, call>>

Next ==
  \/ Tick
  \/ \E s \in Selectors :
       \/ \E current \in SUBSET Endpoints : Members(s, current)
       \/ RemoveCached(s)
  \/ \E c \in Callers :
       \/ \E key \in Keys : LookupDirect(c, key) \/ LookupDiscovered(c, key)
       \/ Store(c)

Spec == Init /\ [][Next]_vars

-----------------------------------------------------------------------------
(***************************************************************************)
(* Properties                                                              *)
(***************************************************************************)

\* The selectors that list an endpoint.
ListedBy(e) == {s \in Selectors : e \in owners[s]}

TypeOK ==
  /\ owners \in [Selectors -> SUBSET Endpoints]
  /\ references \in [Endpoints -> Nat]
  /\ lock \in Selectors \cup Callers \cup {Nobody}
  /\ evicted \in SUBSET Endpoints
  /\ entries \in [Keys -> [breaker : Breakers, used : Nat]]
  /\ made \in Breakers
  /\ now \in Nat
  /\ call \in [Callers -> [pc : {"idle", "store"}, key : Keys \cup {NoKey}, instant : Nat]]

\* The reference counts are those of the lists, whatever each selector listed
\* before and however the lists overlap.
ReferencesExact ==
  \A e \in Endpoints : references[e] = Cardinality(ListedBy(e))

\* An endpoint that no selector lists has no cached breaker, not even through an
\* attempt that still has an old snapshot: as soon as the update that withdrew it
\* has removed the cached ones, none comes back.
NoResurrection ==
  \A k \in Present(entries) :
    k.source = "discovery" => ListedBy(k.endpoint) # {} \/ k.endpoint \in evicted

\* The store stays within its limit, every key's breaker is its own, and the
\* membership it serves is exact.
Registry ==
  /\ ReferencesExact
  /\ NoResurrection
  /\ Cardinality(Present(entries)) <= MaxEntries
  /\ \A k, l \in Present(entries) : k # l => entries[k].breaker # entries[l].breaker

\* What a breaker has learned is forgotten for a cause only: its endpoint has just
\* left discovery altogether, nobody had used it for the idle time, or the store
\* was full and it was the least recently used of the ones that are not idle.
ForgetsForCause ==
  \A k \in Present(entries) :
    entries'[k].breaker # entries[k].breaker =>
      \/ now >= entries[k].used + IdleEviction
      \/ /\ entries'[k].breaker = Absent
         /\ k.source = "discovery"
         /\ ListedBy(k.endpoint) = {}
      \/ /\ entries'[k].breaker = Absent
         /\ Cardinality(Present(entries)) = MaxEntries
         /\ made' = made + 1
         /\ \A l \in Present(entries) : entries[k].used <= entries[l].used
=============================================================================
