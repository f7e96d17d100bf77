# RunenNet in TLA+

This directory is a verification development of RunenNet: TLA+ modules for the parts of the system
that decide what happens, TLC configurations that check them on small instances, and TLAPS proofs of
their most important properties for every instance. `PROJECT.json` ties each definition to the lines
it models, lists the runs, the hazards and the theorems.

## The system

RunenNet is a networking runtime for simulations with one authority and several participants. It
comes in two crates.

* `crates/runen-net`, the Core, is independent of any transport. Each of its parts is a sequential
  state machine that the host owns and calls (`&mut self`); nothing in it runs by itself. What is
  concurrent is the *order of calls*: acceptance, acknowledgements, losses and timeouts reach a
  part at moments its author did not choose, and the parts are tied together by the host.
* `crates/runen-net-quic` realizes connections and flows over QUIC. Two peers run it; each polls its
  connection explicitly, with no hidden task, and lends the Core's owners to `Connection::poll`.

| Component | State | Operations | What makes it correct |
|---|---|---|---|
| Session (`session.rs`, `identity.rs`) | phase, recovery clock, memberships, bindings, used identities | admit, lose, rebind, remove, advance clock, close | one binding per membership and back; an expired, removed or terminated membership never returns |
| Replication authority (`replication/authority.rs`) | per participant: retained images, emission evidence, recovery state and generation, pending candidate | add/remove lineage, prepare full/delta, accept or cancel, acknowledge, require full, replace connection, evict | deltas only on a confirmed, retained base; recovery ends only by a full of its own; shared limits hold |
| Replication client (`replication/client.rs`) | retained images, current cursor, synchronized or in recovery | apply full/delta, require a full, evict | the replica is exactly a state the authority emitted, and never older than the last |
| Delivery endpoint (`delivery.rs`) | flows with queues and indices, usage of each scope | establish, associate, submit, take custody, receive, expose, terminate | usage is exact and within limits; each mode's promise to the receiver |
| Negotiation (`protocol.rs`) and its exchange (`negotiation.rs`) | attempts, established contracts, reserved bytes; the state of each end | start, propose, validate (twice), terminate; offer, propose, answer, report a failure | both ends establish one contract both offers and both hosts allow; the reservation counter is exact; no end waits for ever |
| Authority input (`input/authority.rs`) | windows, retained input and its accounting | add, advance, reconcile, submit | one input per participant and tick, whatever is released; exact accounting within two limits |
| Prediction (`input/prediction.rs`) | frontier or invalidation, pending input | admit, observe, invalidate, confirm | stands on a committed state; input pending across a recovery is never replayed; it comes back |
| QUIC connection lifecycle (`lifecycle.rs`, `public_connection.rs`) | phase, own and peer settings, the owned exchange and drivers | connect, accept, activate, poll, teardown | settings exchanged before anything else; every set-up ends |
| QUIC flow control (`flow_control.rs`, `wire.rs`) | flow ids, pending opens, accepted flows | open, accept, reject, terminate | both peers agree on the flows; ids are never reused |
| QUIC connection driver (`connection_driver.rs`, `control.rs`) | control send slot, deferred frame, terminal phase | poll, start sends, teardown | progress without deadlock; no frame is lost or answered twice |
| QUIC flow driver (`flow_driver.rs`, `quinn_binding.rs`, `reliable*.rs`, `datagram*.rs`) | streams in both directions, their association and end | acquire, write, read, finish, drain, reset, send and receive DATAGRAMs | a normal end means everything was delivered; a failure ends its flow |

They interact by calls made by the host and by messages: an `EstablishedNegotiation` is what a
session needs to bind a connection; `Session::is_authorized` guards acknowledgements, inputs and
recovery; the delivery endpoint's acceptance of a submission turns a prepared snapshot into an
emitted one; the QUIC drivers take accepted messages into their custody and hand received ones in.

What is hard here: state kept in several tables and counters by hand; answers that arrive late,
repeated, out of order or on a connection that has been replaced; work prepared before a recovery
and accepted after it; limits shared by flows and lineages that reserve now and use later; evictions
that must spare what others rely on; and two ends that wait for each other after a loss. The
`hazards` of `PROJECT.json` name the lines.

## Modules

The operations of a component are operators on its record (`AuthorityLineage`, `ClientLineage`,
`PredictionLineage`, `DeliveryEndpoint`, `FlowControl`), named after the code's functions; a state
machine applies them to variables. This lets one definition of an operation serve the component
alone, the composition and the proofs. `CanX` is the condition under which the code changes
something, `X` is what it leaves. A call that returns an error or an outcome without changing
anything is a stutter and has no action.

| Module | What it is |
|---|---|
| `PartialMaps` | `EmptyMap`, `Put`, `Drop`: the maps of the code as functions on their keys |
| `SessionContract` | the membership of each participant: fresh, bound to a connection, unbound or ended for good |
| `Session` | `Session`: both tables, the clock and the used identities |
| `AuthorityInput` | `Session` with the authority's input: windows, retained batches, accounting |
| `ReplicationModel` | cursors, ticks, limits, retention: `replication/model.rs` and what both sides share |
| `AuthorityLineage` | one authority lineage and its operations |
| `AuthorityReplication` | `AuthorityReplicationSession`: lineages under shared limits, arbitrary host and peer |
| `ClientLineage` | one client lineage and its operations |
| `Replication` | both lineages, the messages between them, the binding, the client's connection |
| `ReplicaContract` | the promise of replication: published, shown and confirmed states |
| `ReplicationRecovery` | `Replication` with a dutiful host, fairness and a bounded number of disturbances |
| `PredictionLineage` | one prediction lineage and its operations |
| `Prediction` | `ReplicationRecovery` with a prediction that observes the client's lineage |
| `DeliveryEndpoint` | flows, scopes, sending, receiving, exposure |
| `Delivery` | `DeliveryEndpoint` under an arbitrary host and an arbitrary transport |
| `FlowContract` | what one flow promises in each mode |
| `DeliveryPath` | two endpoints and a transport that reorders, repeats and loses |
| `Negotiation` | offers, contracts, `NegotiationAttempt` and `NegotiationManager` |
| `ProfileBootstrap` | from connecting to the exchange of SETTINGS; the control stream |
| `NegotiationExchange` | the bootstrap, two hosts and a manager each, negotiating over several connections |
| `FlowControl` | one end's flow ids, pending opens and registry over its `DeliveryEndpoint` |
| `ReliableStream` | the stream of a reliable flow, its sender's and its receiver's record |
| `EstablishedConnection` | two ends with flow control, drivers, streams, DATAGRAMs, closes and teardown |
| `FlowLifecycle` | the life of one flow, which each flow of `EstablishedConnection` lives |
| `MC...` | instances for TLC: sizes, limits, policies, symmetry |
| `PartialMapTheorems` | lemmas about maps and about sums over finite sets |
| `SessionProofs`, `ReplicationProofs`, `NegotiationProofs` | theorems about session and input; authority, replication and prediction; negotiation |
| `DeliveryEndpointProofs`, `DeliveryProofs` | lemmas about the operations of a delivery endpoint; theorems about one endpoint and about one flow end to end |
| `ConnectionProofs`, `FlowDeliveryProofs` | theorems about the two ends of an established connection; about the messages of its reliable flows |

Correspondence of state, where it is not by name:

* `Option::None` of a counter is a value outside its range (`NoCursor`, `NoGeneration`, `NoIndex`,
  an index beyond `MaxIndex`). `u64::MAX` is the constant `MaxCursor`, `MaxGeneration`, `MaxIndex`,
  `MaxTime` or `LastFlow`, so exhaustion is reached by the runs.
* An image, a payload, a batch of input or a delta is a value with a size in bytes. A delta is the
  pair of the image it was made from and the image it leads to: applied to the right image it gives
  the target, applied to another one it may give anything. This is what makes `ReplicaIsExact` a
  statement about the code's choice of base.
* Loops that evict until something fits are the smallest number of evictions that makes it fit, or
  all of them.
* Reasons, outcomes and most diagnostics are left out. The two counters of pressure drops are kept,
  because the delivery documents say what they count.
* In `Replication` a connection is a number, and messages stay in sets, which covers loss,
  repetition, delay and reordering; the session is reduced to its current binding (`Session` shows
  that a binding is unique and that `is_authorized` means being bound).
* In `Prediction` what is pending for a tick is its size: a repeated and a conflicting batch are
  refused alike. Moving to a replacement connection is one call for the lineage and the prediction.
  The host reports a failed application while the prediction is active, that is when it applies the
  input it has just admitted.
* `DeliveryPath` carries transfers with their index, as `receive_transfer` does. The QUIC adapter
  does not send the index of an unordered message; nothing at the receiver depends on it, and
  `EstablishedConnection` sends 0.
* A negotiation frame carries the offer or the contract itself; its encoding is reduced to its
  length, which is compared with the limits of both ends. An offer's lists are sets and maps, with a
  flag for a list that repeats an entry. A link is one connection, its two ends and its control
  stream each way; an end joins the exchange's state with the state of `Connection` (sending,
  receiving, selecting, failed). `open` is the transport: once closed, what is under way may still
  be read or be lost. A host may drop the future or the connection it holds (`Abandon`).
* In `EstablishedConnection` an end has its flow control `fc`, its endpoint `ep`, the control send
  slot `sender` with the effect that follows the write, the one `deferred` frame, and the drivers of
  the reliable streams that are its own (`outbound`) and the peer's (`inbound`). `wire` is the
  control stream each way, `streams` and `datagrams` are the transport's, `closed` is what each end
  has made of the connection. The order in which `poll` visits its categories is a free choice.
* An end that leaves its active phase drops its control streams with the driver
  (`enter_terminal(None)`). A peer still active reads their end as a broken control stream: the
  ending `ControlEnded`, which closes with `CONTROL_FRAME_ERROR`.
* A reset of a stream whose header has not been read closes the connection without a code
  (`FailUnresolved`). The terminations that a teardown returns are not counted in `told`: the call
  itself tells the host.

`emitted`, `committed`, `accepted`, `exposed`, `doubted`, `told` and `history` are history variables:
properties and contracts read them, and they only tell messages apart.

## Runs

| Run | Question | Bounds |
|---|---|---|
| `Session` | do the tables agree, is expiry eager, do endings last, is the contract implemented; is input counted exactly and accepted once? | 3 participants (symmetric), 2 live, 2 connections (symmetric), clock 0..1, 3 target ticks, 2 sizes of batches |
| `SessionRebind` | does a lost connection stay lost? It does not (see Findings) | 1 participant, 2 connections |
| `Authority` | recovery, retention, monotonicity and limits of two lineages | 2 participants (symmetric), 3 cursors, 2 ticks, 2 generations, images of 1 and 2 bytes |
| `Replication` | is the replica exact, and is the contract implemented, over a faulty network and a replacement? | 3 cursors, 2 images (symmetric), 2 connections, 2 generations |
| `Prediction` | on what does a prediction stand, is doubtful input replayed, do replication and prediction come back? | 8 cursors, 7 generations, 3 connections, 3 target ticks, 2 disturbances |
| `Delivery` | exact usage, limits, order, counted drops | 3 flow keys on 2 connections, 1 session, payloads of 1 and 2 bytes, indices 0..1 |
| `DeliveryPressure` | is every outbound eviction counted? It is not (see Findings) | as `Delivery` |
| `DeliveryPath` | does a flow keep its mode's contract, is custody unbroken, is a reliable message exposed or the failure known? | 3 modes, indices 0..2, 4 exposures |
| `Negotiation` | are reservations exact, is what is established mutual, does anybody break the profile, does every negotiation end? | 2 connections, every kind of offer and selection on one, a wrong role on the other, tight manager limits |
| `Flows` | is anything forgotten, do registry and endpoint agree, is each end told once, does a normal end mean delivery, is every life legal, does it settle? | 1 flow asked for from each side, in three modes; 2 or 3 messages, 1 control frame under way each way |
| `FlowFailure` | does a failure stay with its flow? It does not (see Findings) | as `Flows` |
| `FlowEvidence` | does the host learn of a failed reliable flow? Not always (see Findings) | as `Flows` |

The bounds are chosen so that what matters happens. In `Session` participants outnumber the live
memberships and the connections, a retention can overflow the clock and an expired participant's
input is still held when others submit; the shared limits of input bind at two batches, a window
spans two of three ticks. Identities do not run out there; the proofs cover it. In `Authority` the
shared limits are such that one lineage alone never reaches them, retained images and evidence are
exceeded by three emissions, so that both evictions, an acknowledgement without evidence and the
loss of a baseline occur, and recoveries exhaust the generations. In `Replication` three cursors are
a full, a delta on it and a full or delta after a replacement; two images tell a wrong reconstruction
from a right one, and are otherwise symmetric. `Prediction` has enough cursors and generations for
every recovery that two disturbances can cause, so that no counter runs out (a run out of counters
really does stop the code); its disturbances are losses, evictions, rejected deltas, failures of the
host and the end of the participation. In `Delivery` every scope can be the tightest: the session
holds one message, a connection two bytes, the endpoint three bytes and two flows of the three keys.
In `DeliveryPath` three indices allow a gap, its filling and an eviction; the bound `MaxExposed` is
there because an unordered flow may expose a repeated message for ever. In `Negotiation` one
connection has every kind of offer (rich, strict, repeating an entry, wider than the other end reads,
longer than it reads) and of selection (allowed, refused by the host of the non-authority, not
offered), the other competes with it and its host may claim the wrong role: the authority's bytes
allow an attempt beside an established contract but not two attempts, the non-authority allows one
attempt. In `Flows` the client has room for one flow at a time, so that a flow the server asks for
meets one of its own; the server's policies are smaller than the client's, so that both limits
reject and the pressure of a reliable flow terminates it; the identifiers run out after one request
each; the reliable flow's sequence can be exhausted.

Deadlock is checked except where the system really stops: a flow that ended (`DeliveryPath`), a
prediction and a lineage in service whose disturbances are spent (`Prediction`), connections that
were torn down or never dialled (`Negotiation`, `Flows` and the two runs of its findings).

### Fairness

The Core schedules nothing, so fairness is a statement about its host and is made in four modules
only.

* `ReplicationRecovery!Fairness`: messages that are not lost arrive, the host emits what it has
  prepared, replaces a lost connection, and offers a recovery full when one is required and none is
  under way. The last condition (`RecoveryUnderWay`) stands for a timeout that is never premature;
  the code leaves the repetition of lost fulls to the host (`spec/replication/recovery.md`). The
  client acknowledges and demands a full as often as needed. `PredictionFairness` adds that the host
  goes on observing and restores what failed. Disturbances have no fairness and are bounded in number.
* `DeliveryPath!Fairness`: the transport takes what was accepted, delivers what it carries, and the
  host polls (README of the QUIC crate: the host drives `Connection::poll`). Nothing fair is assumed
  of submissions, losses or terminations. Only the reliable mode promises exposure, so fairness is
  stated for it alone.
* `NegotiationExchange!Fairness`: a host that is dialled answers, polls the set-up, activates the
  connection, polls it, and selects when asked; the code has no timeout of its own, so a host that
  never answers would leave the other end waiting. Connecting, losses, abandoning and teardowns are
  not fair.
* `EstablishedConnection!FairSpec`: weak fairness of `Serve(side)`, one polled connection whose host
  decides requests, takes what is exposed and tears down what is over. It is one condition on all of
  a poll, not one on each category, as the rotation of `poll_step` justifies no more than that
  something is done while something can be. `poll` wakes its task while there is something to do.
  Requests, submissions, finishes, the arrival of DATAGRAMs and the loss of the connection are not
  fair.

## Proofs

TLAPS proves the following from the named assumptions on the constants (limits are positive, sizes
are natural numbers, the absent connection is no connection), for every value of the constants.

**Sums.** What a counter kept by hand should hold is a sum over a map (`SumFunction`), and the modules
above lean on a few lemmas of `PartialMapTheorems`: a sum takes any of its terms first
(`SumTakesAny`), grows by the term that is added (`SumGrows`), changes by the difference of the term
that changes (`SumChanges`), splits over two sets (`SumSplits`), and can be renumbered
(`SumShifts`), as the entries of a queue are when the oldest leaves. A sum is a fold, a `CHOOSE` of
a recursive function; what it computes is shown without an induction theorem by way of a smallest
counterexample (`SmallestSet`): strict inclusion is well founded on the subsets of a finite set.

**`SessionProofs`, the session.** `IInv` is the type invariant, `BindingsAgree`, `NoOverdueMembership` and
`LiveWereAdmitted` (whoever is live is a used identity). The last one is needed to show that an
admission never meets a live membership: the code checks the registry of used identities, not the
membership table. From it follow `TypeCorrect`, `BindingsAlwaysAgree`, `NothingOverdue` (which shows
that the `MembershipExpired` branch of `bind_replacement` is unreachable), `EndedForGood` and
`SessionRefinesContract`, one lemma per kind of step.

**`SessionProofs`, the input.** `AcceptedOnce`: no key (participant and tick) is accepted twice, and
what is retained for it is never exchanged. The code keeps no list of accepted keys, so the invariant
says what stands in for it: `AcceptedAreClosed`, an accepted key is retained, or the window has
moved past it, or the input has been released and its participant is not live; and a participant
that is not live never is again (`EndedStaysEnded`). `SessionUnderInput` carries the session's
invariants over to the composition. `InputsAlwaysAccounted`: the counts of retained keys and bytes,
of each participant and of the authority, are exact and within their limits. So none of the
`checked_sub` of the code can fail.

**`ReplicationProofs`, the authority.** `LineageInv` is a predicate on one
lineage: its type, `EligibleBase`, `PendingIsCurrent`, and `MemoryIsPast`: everything evidenced or
confirmed lies at or before the greatest emitted cursor. Without the last conjunct an emission could
overwrite the evidence of an older full. `GoodStep(l, m)` says that the invariant carries over and
that all three action properties hold of the step; each operation has a lemma saying that its result
is a good step, and since operations are functions of a record, the step of the session of lineages
is a short case analysis. The theorems are `AuthorityTypeCorrect`, `BaseAlwaysAvailable`,
`PendingNeverCrossesRecovery`, `RecoveryEndsProperly`, `BoundariesAreGenerations` and
`LineagesAdvance`. `LimitsAlwaysHold` adds the limits, of a lineage and of all lineages. Only a
preparation checks the shared limits; every other operation is `Frugal`: the lineage holds and
reserves no more than before, for an emission uses what was reserved for it.

**`ReplicationProofs`, end to end.** The safety of replication end to end, on a network that loses, repeats and
reorders, for any limits. `RInv` is built around `IsGround(k, b)`: the client has committed `b` and,
at or before it, a full snapshot sent over connection `k`. A delta base is grounded on the present
connection, and so is a pending delta; whatever delta was sent over a connection is grounded there.
That the base stays grounded rests on the evidence of the lineage: evidence of the present recovery
generation can only be of a snapshot sent over the present connection (`EvidenceIsSound`), because
binding a replacement begins a generation. `EmissionsAreSound` says that emissions are ordered by
cursor and tick and that a delta was made from the image emitted at its base; with `ClientIsSound`
(what is retained is what was emitted) a committed delta rebuilds exactly the emitted image
(`DeltaIsExact`). `ClientMoves` and `AuthorityMoves` sum up what a step may do to each end; the action
properties and the refinement of `ReplicaContract` follow from them. The theorems are `TypeCorrect`,
`ReplicaExact`, `DeltasAreGrounded`, `RecoveryBlocksDeltas`, `LateAcksAreIgnored` and
`ReplicationImplementsContract`.

**`ReplicationProofs`, the prediction.** `DoubtedInputIsDropped`, for any number of disturbances and any limits. The
prediction is told of no recovery; it compares the lineage's boundary with the one it observed last.
`PInv` says why that is enough: a client's boundary is below what it shows once a recovery is over
(`ClientOrder`), so a recovery that begins has a newer boundary than any before, and while input is
in doubt that boundary is still unobserved (`PredictionOrder`). `Observed` sums up what a look at the
lineage may do. The theorem needs no more of the messages than that cursors are numbers, so losses
and reordering do not matter to it. `PredictionStands`: an active prediction stands on the newest
commit it observed, and what is pending lies beyond that commit, within the limits and counted
exactly. `SInv` adds to `PInv` that what the client shows is a snapshot it committed, and
shows at the tick it was emitted at.

**`DeliveryEndpointProofs`, `DeliveryProofs`.** The books of a delivery endpoint, for any flows, sessions, policies and limits.
`EndpointInv` says of every flow (`FlowInv`) that its counters are what its two queues and its buffer
hold, within its policy, and that its queue is in order; and of every scope (`Covers`) that it is
charged for exactly the flows it owns and has room for them. `Balanced` says that scopes exist for
exactly the owners of flows; connections and sessions are two instances of it. An operation on one
flow is a rewrite of its queues that moves no charge (`Rewrites`) followed by a charge
(`ChargeKeeps`); flows join (`BalancedJoin`) and leave (`BalancedLeave`) scopes. The loops that evict
from a queue and that end the flows of a connection are sums and folds, treated as above
(`BytesSplit`, `TerminateAllKeeps`). From `BooksAlwaysKept` follow `TypesAlwaysHold`,
`AccountsAlwaysHold`, `OrderIsAlwaysKept` and the action property `InboundDropsAlwaysCounted`.
`DeliveryEndpointProofs` says of every operation, next to what it keeps (`...Keeps`), what it changes
(`...Changes`): one flow, and of that flow which queue and how. These lemmas are what the next
modules know of an endpoint.

**`DeliveryProofs`, from end to end.** One flow from end to end, in each mode, for any policies, limits and
payloads. `PathInv` says that whatever is queued, under way or buffered was accepted under its index
(`IsAccepted`), and how far the ends have counted: the sender's next index is the number of accepted
messages, a reliable receiver's next exposure the number of exposed ones, and a sequenced one
remembers the index of the last (`IsAt`). With the invariants of the two endpoints it implies
`CustodyIsNeverBroken`, and with `PathInv` every step is one of `FlowContract` or a stutter
(`FlowImplementsContract`). The policies are assumed to be policies (`DeliveryPathAssumption`), and
nothing else is needed.

**`NegotiationProofs`.** Two hosts that negotiate over any number of connections, with any profiles,
offers, requirements and limits, assuming of these only that lists are finite and limits are counts
(`ExchangeAssumption`, `ProfileAssumption`). Links meet only in the two managers, so the inductive
invariant `Sound` has two halves. `LinkIs(k, s, mine, theirs)` is about one link, where `k` is the
contract the authority has proposed: where each end is in the exchange and what its connection and
its manager hold there (`EndIs`), what it knows by then (`EndKnows`), that a frame on the wire says
what its sender really did (`FrameIsTrue`), and that the frames read and those under way are as many
as the sender wrote, each in its place (`WireIs`). The last two are what makes a frame out of turn
impossible: without counting, a proposal could meet an end that still waits for an offer.
The invariant reads the same from both sides (`LinkFromBothSides`), so each step is proved once, for
the side `s` that takes it. `Balanced` is about one manager: its count is three offers' worth for
every attempt plus the bytes of every contract. `BooksMove` is the one lemma about sums: a manager
that changes one link and its count by the difference stays balanced; `BooksStart`, `BooksStay`,
`BooksEstablish` and `ReleaseMoves` apply it, and the third needs that a contract is within the limit
of an offer, which a proposal was checked for. A failure and a teardown are one lemma (`SideFails`):
what is released is what was held, because an end owns its entry exactly in the states
that have one. The theorems are `ReservationsAlwaysExact`, `EstablishedAlwaysMutual` and
`ProfileNeverBroken`; so the branches of the code for a violated profile, an error of the manager's
own state and an unexpected status are unreachable between two hosts that run it.

**`ConnectionProofs`.** The two ends of an established connection, for any number of flows, any
policies, limits and settings, under `FlowControlAssumption` and `EstablishedConnectionAssumption`
(types, and that what hosts submit are payloads) and `HandleAssumption` (a host gives each flow of a
side a handle of its own; the code leaves handles to the hosts, and what reuse would do is not
modelled). An end keeps what it knows of a flow in six places: the identifiers it has seen, the
pending requests, the registry, the delivery endpoint, the stream bindings and the control slot.
`EndIs` says how these agree at one end, and how they agree with what its host was told and has
admitted. Three of its conjuncts are there only for the induction: whatever is registered, bound,
told or reported is of a flow that is decided (`IsDecided`: known, and no request of it pending),
so that an identifier is never decided about again; a report that waits in the slot is of a flow
that is gone and not yet told of (`ReportIs`), or completing the send would tell twice; a binding
may outlive the registration, but a flow that is registered again would not match it. `ConnectionInv`
adds what ties the ends to each other: frames and streams under way are well-formed (`WiresAre`),
and a stream exists once, opened by an end that had decided and acquired once (`StreamsAre`).
The handlers are many and alike, so `Effect` names the three things that any of them may do at an
end, perhaps with a report or a failure of the connection: decide about flows, end one, begin one.
Each operation of flow control has a lemma that its result is of that kind (`Receiving...`,
`Rejecting...`); that the end stays as it should be (`EffectKeeps`) and with it the connection
(`RoutingKeeps`) is then proved once. `MovesOn` does the same for
what changes only queues and bindings, by the `...Changes` lemmas of the delivery endpoint.
`RegistriesMatch` and `HostsAreToldOnce` follow from `ConnectionIsRight`.

**`FlowDeliveryProofs`.** `NormalEndsDeliver`: a reliable flow that both hosts were told ended
normally has delivered what was accepted for it, under the same assumptions. It relates the two ends
of one flow, so it needs an invariant across them.
`Delivery` says how far a reliable flow is: what the opener still queues is the last of what it
accepted (`IsSending`), what the acceptor buffers follows what it exposed and ends where its reading
is (`IsReceiving`), and the stream holds exactly the chunks between what was written and what was
read, the header first, and is finished only when no more will be written (`IsStreaming`). To this
comes what is to be shown, in a form that is kept: once the acceptor's host was told `Normal`, the
opener has written its last chunk and all of it is exposed (`AllIsExposed`). That `Delivery` stays is
proved in two parts. Most steps are quiet for a given flow: they move none of its messages, and may
drop them only together with its registration or its binding (`IsQuiet`, `QuietlyDelivers`). Each of
the others, which accepts, writes, reads or exposes a message, acquires or finishes a stream, has a
lemma of its own (`...Delivers`). A quiet step must not end the flow normally either, and a frame may
end one so: a FLOW_TERMINATE of cause `Normal` is right for an unreliable flow, and
`ModesAre` is needed to know that its flow is one at both ends and on the wire.

Only model-checked: that an undisturbed exchange recovers, that the prediction resumes, that what a
reliable flow accepts is exposed in the end, that negotiations end and that flows settle (liveness);
and, of `EstablishedConnection`, `NothingIsForgotten` (a decision one end made, the other made or
will make, which rests on the order of frames in both directions) and `FlowsLiveTheirLives` (the
refinement of the life of a flow, where the states of the two ends go separate ways). Out of the
prover's reach, and left to TLC for good: liveness under fairness and `ENABLED`.

## Findings

* **`SessionRebind`** - `bind_replacement` (`session.rs:296`) refuses the connection a participant
  lost last. It forgets that connection once a replacement is bound (`session.rs:305`), so after a
  second loss the first connection can be bound again, and its traffic is authorized once more.
  `spec/session/lifecycle.md:115` says that a replacement binding must not make traffic from the
  previous connection valid again. The trace: admit on c1, lose c1, bind c2, lose c2, bind c1.
* **`DeliveryPressure`** - `submit` (`delivery.rs:720`) rejects a submission after evicting all the
  flow has pending, when a shared scope is full, and does not count the evictions.
  `spec/delivery/pressure.md:94` says that each deliberate eviction must be classified as a pressure
  drop. The receiving side counts them in the same situation (`InboundDropsAreCounted`).
* **`FlowFailure`** - a failure of one reliable flow can close the connection although both ends keep
  to the profile: what arrives for the flow after its FLOW_TERMINATE was processed, the header of its
  stream or a FLOW_TERMINATE that crossed it, is taken for a breach (`flow_driver.rs:553`,
  `flow_control.rs:602`). `PROJECT.json` quotes the documents.
* **`FlowEvidence`** - the report that a reliable flow has failed waits for its FLOW_TERMINATE to be
  written. A normal close of the peer that control receive sees first (`connection_driver.rs:303`)
  drops the slot with the report.

## Not modelled, and why

* Encodings and frame layouts are pure functions, covered by the unit tests of `wire.rs` and
  `negotiation.rs`; the classification of errors (`error_behavior.rs`) and the builders of
  `protocol_declaration.rs` have no state; TLS, sockets, Quinn itself, `endpoint.rs` and `facade.rs`
  are input and output, examples and repository tools no part of the system.
* A connection slot is a counter whose permit returns when its owner is dropped: a connection is
  never refused for want of one here.
* Several client lineages under aggregate limits: `aggregate_commit_fits` is modelled for one.
* Partial reads and writes of a frame, a header or a message, and the staging of a message that is
  half read: a frame and a message are written or read whole.
* What no peer of this code sends: malformed bodies, frames of the wrong side, repeated answers.
* That a host gives a `DeliveryFlowHandle` to a second flow of the connection (`HandleAssumption`).
* `Negotiation` and `EstablishedConnection` are checked apart: the second starts with both ends
  established. A deadlock of two ends that both defer a frame needs at least two control frames more
  outstanding each way than the transport holds (`Window`), more than one flow from each side brings about.

What is left to do: proofs of the properties of `EstablishedConnection` that relate the two ends;
larger instances of `Flows` with two flows from one side.
