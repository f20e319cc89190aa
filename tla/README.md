# A TLA+ verification of hns-rs

hns-rs is a workspace of twenty Rust crates for Handshake: consensus codecs, name
covenants, marketplace and swap records, and a family of experimental peer protocols.
Most crates are stateless codecs. The hard parts are the few state machines that have
to stay right across interleavings, unreliable delivery, limits and restarts. This
project models those, checks them with TLC on small instances, and proves the most
important results with TLAPS for every instance.

`PROJECT.json` lists components, runs, mutants, the map from definitions to source
lines, hazards and theorems.

## 1. Inventory

### State machines

| Part | State | Operations | What is hard about it | Correct when |
|---|---|---|---|---|
| Rollback journal (`hns-rollback-journal`) | one external record per database: binding, revision, `NeverInitialized`/`Stable`/`Prepared`/`Retired` with sealed images | provision, enroll, prepare, finalize, retire, recovery plan, reconcile | crash between any two steps, ambiguous writes, stale brokers, a database volume that goes back in time | no forked or stale result; recovery always finds a way or a reason |
| Circuit requester (`hnsr/circuit.rs`) | pending opens, circuits with credits and queues, bytes per reservation, generation, clock | open, handle, send, take, close, cancel, disconnect, expire, snapshot, restore, opt out | late OPENED, several tickets of one reservation, restart from an old snapshot | credits, ceilings and counters are exact; an opt-out stays |
| Opaque relay (`hnsr/circuit.rs`) | pending opens, circuits, bytes per reservation, unacknowledged writes, generation | handle, acknowledge, disconnect, revoke, expire, snapshot, restore, opt out | acknowledgements in any order, failing writes, limits on three levels, partial failures | accounting is exact; nothing outlives its circuit; signed limits hold |
| Relay reservations (`hnsr/runtime.rs`) | reservation table, count per source | reserve, renew, confirm, withdraw, prune, disconnect; endpoint confirm and accept | duplicated and reordered packets, clocks that disagree, a confirmation that fails halfway | a usable reservation was signed by its owner, is used once, and never returns |
| Route store and V3 ledger (`hnsr/routing.rs`) | live routes, replay ledger, counters, revision | put (V1, V2, V3), revalidate, invalidate, prune, sample | three tables that must agree; conflicts; rollbacks of sequence numbers | no replayed route becomes live; counters exact |
| Persistent rendezvous (`hnsr/persistent_routing.rs`) | volatile store, acknowledged and pending ledger, lease, poison flag | open, put, revalidate, invalidate, handle and emit | CAS failure after the memory changed, lost lease during an await | nothing is answered that is not durable |
| V3 requester state (`hnsr/requester_hrm.rs`) | durable counters of observed endpoints and routes | observe, select, acknowledge, reconfirm | same CAS protocol with several counters | an older route is never selected again |
| Authority state (`hns-service-authority`) | snapshot with revision and clock, pending CAS, lease | restore, reconfirm, persist, observe, advance time | ambiguous CAS, two contexts, lost leases | a service is current only if it is durably so |
| Experimental peers (`hns-p2p-experimental`) | negotiated registry, disabled protocols, request tracker, policy generation | negotiate, admit, complete, replace policy | order of establishment and packets, replayed numbers, generations | no work of a revoked policy is admitted |
| Swap sessions (`hns-marketplace-protocol`) | hello, proposal, watch, funding, redeem, refund records of one session | sign and verify each step | each step is bound to the ones before it | no status without its session and its order |
| Names (`hns-covenants`, `hns-transaction`) | auction state of a name | covenant transitions, linkage | heights at the boundaries of the auction | only the transitions the rules allow |

### Algorithms without state

Retargeting (`hns-header-consensus`), subsidy, merkle root and template checks
(`hns-mining`), Dutch schedules and HTLC timeouts (`hns-swap`), Urkel proofs
(`hns-urkel-proof`), manifest rollback rules (`hns-hrm`), the script interpreter
(`hns-script`).

### Codecs

`hns-encoding`, `hns-primitives`, `hns-p2p-wire`, `hns-odoh-protocol`,
`hns-dns-relay-protocol`, `hns-chat-protocol`, the registry and envelope of
`hns-p2p-experimental`, CBOR, URIs and commitments of `hns-hrm`, and
`hns-conformance`, which loads test vectors. They have no state and are about bytes;
they are not modelled.

### How the parts interact

An endpoint reserves at a relay's `RelayService` (reservation plane). A requester that
holds the signed ticket opens a circuit at the relay's `OpaqueRelayRuntime` (circuit
plane), which asks `RelayService::admit_circuit` for admission and forwards data between
the two. Tickets are published as routes in a `RouteStore`, which a persistent
rendezvous keeps with a durable replay ledger. Named routes are authorised by
service-authority state, which follows HRM manifests anchored in names. The route
ledger and the authority state each persist one snapshot by compare-and-swap under a
fenced lease; the rollback journal is what protects such a snapshot from going back in
time.

## 2. Modules

| Module | Models |
|---|---|
| `RollbackJournal` | the operations of `hns-rollback-journal`, as pure operators on records |
| `JournalBroker` | brokers that call them, the two leases and the two stores |
| `AntiRollbackRegister` | what the journal promises: a register that only advances |
| `JournalBrokerProofs` | the inductive invariant, the theorems and the refinement |
| `HnsrWire` | circuit packets, tickets and the byte accounting both sides share |
| `HnsrRequester`, `RequesterNode` | `HnsrRequester`, and the process that drives it |
| `OpaqueRelay`, `RelayNode` | `OpaqueRelayRuntime`, and the adapter that drives it |
| `ReservationPool` | what the circuit plane needs from the reservation plane |
| `RelayReservations`, `ReservationNode` | `RelayService` and `EndpointReservation`, and their network |
| `NamedService` | the rules by which one manifest follows another, and one observation of a service another |
| `AuthorityState`, `AuthorityNode` | `NamedServiceAuthorityState`, and the contexts, lease and store around it |
| `RouteLedger` | the counters and entries of the version-3 replay ledger |
| `RouteLedgerProofs` | the ledger is a join of what was observed, proved |
| `RouteStore`, `RouteNode` | `RouteStore`, and the node that drives it |
| `PersistentRendezvous` | `LeasedPersistentRendezvousService` over `RouteStore`, with its lease and storage |
| `MCJournal`, `MCRequester`, `MCRelay`, `MCReservations`, `MCAuthority`, `MCRoutes`, `MCRendezvous` | the small instances |

A method of the code is an operator that returns the set of its results: the new state
of the object and the routes or packets it hands out, or the empty set where the code
returns an error and changes nothing. Where an error leaves a change behind, the result
has that change and no output: a refused `begin_open` still moves the clock, a failed
`Confirm` still stores the signature, a closure that finds no queue slot still removes
the circuit. The modules named `...Node` and `JournalBroker` hold the variables and one
action per call an embedding can make.

`ReservationPool` joins the two planes: `RelayNode` uses it as its environment, and the
property `ImplementsPool` shows that `RelayReservations` keeps it. So the relay's
properties hold over the real reservation plane without checking the product of both.

### Abstractions

* Images, fingerprints and tickets are model values or small records. Signatures are
  valid except where the code's behaviour depends on a missing or wrong one (`Confirm`).
* Random identifiers are numbers nobody drew before.
* Loops over hash maps run in every order (`RevokeEach`).
* Byte counts, credits and times are small numbers; the limits of the code are constants.
* Counters that saturate in the code are natural numbers; no run comes near the limit.
* `RelayNode` takes tickets as issued at time 0, so only their expiry matters there;
  `ReservationNode` has the check of the issue time too.
* The status counters of bytes, opened circuits and forwarded frames are left out, since
  nothing reads them but `status`.
* A route record carries its two sequences, the two identifiers the ledger compares (as
  numbers), its signed interval, and whether it matches the request and verifies. The
  order of routes of equal sequence is left open; so are sample scores.
* A manifest is a record of its root (sequence, envelope, chain point), the generations
  it delegates or withdraws, its expiry and the reorganization it was accepted with. One
  name and one namespace. The encoded authority snapshot stands for itself.

### The authority's environment

`lease.rs` and `authority_state.rs` take the lease broker, the store, the loader and the
resolver from the embedding. `AuthorityNode` gives them the contracts the traits state:
one holder at a time, a growing fencing token, a lease that can be lost without notice; a
store that applies a write only with the newest token and the exact expectation, and
acknowledges bytes it already holds. The rollback floor moves with each write. A write
can arrive after its caller gave up; contexts crash or drop the future at every await;
and the store can be put back to an old copy while nobody holds the lease.

### The rendezvous' environment

`PersistentRendezvous` runs an operation without interruption up to its next callback,
where the code can be suspended: the storage callback, the emission callback, the return
to the caller. Storage is a compare-and-swap under the fencing token that accepts bytes
it already holds and may report an error after it installed them, as the comments on the
callback ask. A new acquisition fences the old instance without notice. Futures are
dropped, emissions fail with unknown delivery, processes crash. A poisoned instance is
replaced by opening again. The times an embedding supplies need not grow.

`RouteNode` drives the same store without persistence, as `RendezvousService` does, and
restarts it from snapshots. A crash some operations after a snapshot leaves the state a
crash right after it leaves, so saving and restarting are one action.

### The journal's environment

The journal crate has no I/O. `JournalBroker` models its users as
`docs/rollback-journal.md` and the crate's comments describe them: take the journal
lease, take the database lease, reread both, store `Prepared`, CAS the database, reread,
store `Stable`, and only then hand out a result tagged with the fencing token. Stores
compare the exact prior value and the token. A write is a message that can be delayed
past a timeout, a crash or a lost lease, arrive twice, or be lost. Brokers crash, leases
expire without notice, and the database volume can be set back to anything it ever held,
or wiped. `ForeignWrite` is a process that ignores the journal.

## 3. Runs

| Run | Bounds | States |
|---|---|---|
| `journal_safety` | two brokers, two contents, journal revisions to 3, protocol revisions to 3, two faults, symmetric brokers | 1.38 M |
| `journal_foreign` | two brokers with different bindings, journal revisions to 5, one fault, one foreign write | 1.22 M |
| `journal_liveness` | one broker that restarts, three faults, weak fairness | 157 k |
| `requester` | two relays, two circuits, two tickets of one reservation with different expiry, windows to 2; either times to 2, two opens, generations to 3 and one saved snapshot, or one open, generations to 4 and three saved snapshots | 83 k |
| `requester_floor` | generations to 4, three saved snapshots, no opens; the floor moves with policy changes only | violated |
| `relay_flow` | one reservation that signs three circuits and two bytes, frames of 1 and 2 bytes, three queue slots, two circuits per peer, time stands still; either two opens and seven writes, or three opens and six writes | 79 k |
| `relay_life` | one reservation that signs one circuit and one byte; either two opens, times to 2 and eight writes, or one open, generations to 4 and three stored snapshots | 406 k |
| `reservations` | three identifiers, two slots; either one endpoint and seven packets, or two endpoints and five packets with one or two slots per endpoint | 805 k |
| `authority_contexts` | two symmetric contexts, one service, revisions to 3, three fencing tokens, one fault | 200 k |
| `authority_generations` | one context, two services, manifests on two forks, revisions to 4, no fault | 66 k |
| `route_store` | one key, two sources; seven V3 records of three endpoints with an equivocation at each counter, ledger room for two, three services; and a second workload with V1, V2 and V3 records; four resp. three verifications per window, revisions to 5, times to 2 | 20 k |
| `rendezvous` | one instance opened three times with six records, two authorities and two verifications each; and two instances with two records and one verification each; times 0 and 1, answers of one or two records | 468 k |

The bounds are chosen so that every limit of the code is reached: queues fill, byte
totals are spent, both reservation limits bind, the last journal revision refuses a
transition. Two brokers are enough for a stale one and its successor; two faults are
enough for a crash during the recovery from a crash; two circuits of one reservation
share its bytes; three snapshots and four generations are enough for two restarts to
give two snapshots the same generation. The requester and relay runs choose their bounds
in the initial state (`bounds`: times, opens, writes queued, generations, snapshots), the
reservation, route and rendezvous runs a setting or a workload, and keep them, so that
one run covers several instances. The verification limits of the last two, which are the code's own, also bound the behaviours; the last ledger
revision is reached, and a prune or a restart that needs another is refused.

Deadlock is not checked: the bounds end every behaviour, and a retired journal or an
idle relay really stops.

What the properties say is in the comment above each. In short:

* Journal: `TypeOK` (records are variants with the images the variant carries, and pass
  the crate's `validate`), `NoForkedResult`, `ResultsFollowFences` (what callers see),
  `CurrentViewIsExact`, `OneLiveMutation`, `JournalOnlyAdvances` (the record),
  `JournalCoversDatabase`, `NoSpuriousFailClosed` (record against database),
  `PreparedIsFinalizable`, `ImplementsRegister`, and under fairness `PreparedSettles`
  and `RecoveryConverges`.
* Requester: `ReceiveCreditIsKept`, `CeilingsHold`, `OpensAreAccounted`, `OptOutHolds`.
* Relay: `QueueAccounting`, `AcksAreExact`, `NoOrphanActions`, `SignedLimitsHold`,
  `CapacityHolds`, `OpensAreAccounted`, `OptOutHolds`.
* Reservations: `CountsAreExact`, `UsableWasSigned`, `AcceptedIsUsable`,
  `RenewedIsGone`, `ImplementsPool`.
* Authority: `NoForkedLineage`, `GenerationsNeverFall` (what the store ever held),
  `ResultsAreDurable`, `BoundIsDurable` (what callers get), `PreparedIsValid`.
* Routes: `CountersAreExact` (limits), `LiveRealisesLedger` (live routes against the
  ledger), `LedgerIsJoin` (the ledger against what was observed), `RestartIsPruning`
  (a restored snapshot against the running store).
* Rendezvous: `AnswersAreDurable`, `AcceptedNeverRegresses` (what callers see, across
  restarts and owners), `PendingFitsStorage` (memory against storage).

Each property has a mutant: a plausible slip in one definition after which TLC finds the
property violated.

### Opt-outs and the generation floor

`restore` takes a minimum generation the caller keeps, refuses an older snapshot, and
gives the new process the generation after the snapshot's. The comment on `restore` asks
callers to advance the floor "whenever policy or configuration changes", and
`crates/hns-hnsr-protocol/README.md` concludes that settings from before a later opt-out
are refused. Run `requester_floor` does exactly what the comment asks and finds the
opt-out undone: save s1 (generation 1), restart from it, save s2 (generation 2), restart
from it, save s3 (generation 3); restart from s1, which the floor of 1 still allows, and
opt out, at generation 3, with the floor at 3. A restart from s3 passes the floor and is
enabled. Restarts use up generations without moving the floor, so a generation does not
name one state of the policy. `OpaqueRelayRuntime::restore` does the same.

`OptOutHolds` therefore holds in `requester` and `relay_life` under the stronger
contract those runs assume (`FloorWithSnapshots` in `RequesterNode`, always in
`RelayNode`): the floor moves with every stored snapshot, so that the newest snapshot is
the oldest one that can be restored.

### Fairness

Only `journal_liveness` uses fairness: weak fairness of each broker's own recovery loop
and of each store handling the writes it has received. The documentation has brokers
reread and retry until they are ready; a store that never answers is a lost write, which
is a bounded fault. No fairness is assumed of callers, transitions or faults.

## 4. Proofs

`JournalBrokerProofs` proves, for any sets of brokers, bindings, contents and seals, any
odd maximal revision and any fault budgets:

| Theorem | Statement |
|---|---|
| `TypeCorrect` | `Spec => []TypeOK`: the record, every write in flight and every view is well formed and valid |
| `NoForkTheorem` | `Spec => []NoForkedResult` |
| `JournalAdvances` | `Spec => JournalOnlyAdvances` |
| `FinalizableTheorem` | `Spec => []PreparedIsFinalizable` |
| `RefinesRegister` | `Spec => ImplementsRegister` |

None of these is inductive alone. The inductive invariant `JournalInv` adds to the types:

* `GoodRecord`: the record passes the crate's `validate`, and its revision fits its kind.
  An odd maximum then leaves room to finalize whatever was prepared.
* `SettledHistory`: the settled states are those up to the record's current one, and all
  of them are older than the state being prepared.
* `UniqueRevisions`: settled states with the same revision are equal, and every result
  was settled.
* `BrokerKnowledge`: a broker that is about to hand out a result holds a state that was
  settled, whether or not its lease is still current.
* `LegalMutation`: every write in flight, however old, was built by a crate operation
  from some valid record. With the exact compare-and-swap, storing it is always the step
  of the register it was meant to be.

The last one carries the argument: leases and fencing order the brokers, but safety of
the record rests on the exact prior record in the expectation. The assumptions are the
named ones of `RollbackJournal` and `JournalBroker`; TLC evaluates them in every journal
run. The refinement maps the register's phase and value to the record's kind and current
identity; crashes, leases and database steps are stutters.

`RouteLedgerProofs` proves, for any sequences, identifiers and sets of observations:

| Theorem | Statement |
|---|---|
| `CounterStepIsJoin` | an observation takes the join of a set to the join of the set and the observation |
| `ObservationsCommute` | two observations take any counter to the same counter in either order, and repeating one changes nothing |
| `CounterOnlyAdvances` | a counter never falls, a conflict ends only at a greater sequence, and a record matches the final state exactly when the counter ends up at it |

The first is the induction step of `LedgerIsJoin` for one counter. The second follows
from it: every counter joins some observations (`CounterJoinsSomething`), and counters
that join the same observations are equal (`JoinIsDetermined`). All rest on the lemma
`NextCounterCases`, which says what each disposition leaves.

### Only model-checked

* Liveness (`PreparedSettles`, `RecoveryConverges`): outside what the prover handles.
* `ResultsFollowFences`, `CurrentViewIsExact`, `OneLiveMutation`,
  `JournalCoversDatabase`, `NoSpuriousFailClosed`: need an invariant that also relates
  tokens, views and the database; planned.
* `LedgerIsJoin` of the whole store (pruning, restarts, the history of each scope) beyond
  the step proved above.
* All properties of the requester, the relay, the reservations, the authority, the route
  store and the rendezvous; planned.

## 5. Not modelled

Codecs, hashes and signatures, as above. The byte layout of snapshots and records, with
their checksums. The truncation of a rendezvous answer to a packet. The other state machines and algorithms of the inventory, which are the
plan below.

## 6. Plan

In this order:

1. `HnsrCircuits`: one requester, the relay and an endpoint with lossy connections.
   Credit conservation end to end, the received stream is a prefix of the sent one, the
   two ends agree on the circuit, and what holds of progress when credit is lost.
2. Endpoint selection and the authorization chain of `hns-hrm` under `NamedService`;
   an abstract register that `AuthorityNode` implements.
3. The V3 requester state: its product counters, which share the join of `RouteLedger`,
   and route selection.
4. `ExperimentalPeer`: negotiation between two peers, admission, request tracker and
   policy generations.
5. `NameAuction` (covenant transitions and linkage) and `SwapSession`.
6. Algorithms against reference definitions: retargeting with a scaled word size, Dutch
   schedules, HTLC timeouts, subsidy, Urkel proofs, manifest rollback rules.
7. Theorems: `QueueAccounting` and `NoOrphanActions` of the relay, `ReceiveCreditIsKept`
   and `CeilingsHold` of the requester, `CountsAreExact` and `ImplementsPool` of the
   reservations, `CountersAreExact` and `LedgerIsJoin` of the route store, the remaining
   journal invariants, and the refinement of `AuthorityState`.
