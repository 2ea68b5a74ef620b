# TLA+ models of olad: universes, RDM, the DMX-TRI widget, Art-Net, E1.31, RPC and threads

OLA's daemon, olad, moves DMX512 frames and RDM messages between clients and
lighting hardware. These modules model the part of it where the order of events
decides whether it works: one `SelectServer` thread, on which clients' calls,
hardware's answers, network packets and timeouts arrive in any order, callbacks that
call back into the code that runs them, and the one place where olad has a second
thread. Paths below are relative to `src/`.

## The system

| Component | State | Operations | Hard part |
|---|---|---|---|
| RDM request queue, `common/rdm/QueueingRDMController.cpp` | queue of requests, request-pending flag, response and packets collected, waiting and running discovery callbacks | `SendRDMRequest`, `Pause`, `Resume`, `RunFull/IncrementalDiscovery`, `HandleRDMResponse`, `DiscoveryComplete`, destructor | callbacks within the call, ACK_OVERFLOW sequences, requests and discoveries excluding each other, the limit |
| RDM discovery, `common/rdm/DiscoveryAgent.cpp` | stack of UID ranges, UIDs found, bad and to be muted, attempts | `StartFull/IncrementalDiscovery`, `Abort`, the answers to mute, unmute and branch | collisions, noise, responders that misbehave, termination, completion callback that starts the next one |
| Universe, DMX, `olad/Universe.cpp`, `include/olad/DmxSource.h` | input ports, source clients with stale flags, merge mode, active priority, buffer | `PortDataChanged`, `SourceClientDataChanged`, `SetDMX`, (un)patching, `SetMergeMode`, housekeeping | priorities, timeouts noticed only when something else happens, HTP/LTP, garbage collection of clients |
| Universe, RDM, `olad/Universe.cpp`, `include/ola/MultiCallback.h` | UID to port map, outstanding broadcasts and discoveries | `SendRDMRequest`, `RunRDMDiscovery`, `NewUIDList`, (un)patching | several ports answering in any order while ports come and go |
| DMX-TRI widget, `plugins/usbpro/DmxTriWidget.cpp` | frame, request and discovery step waiting; expected command; UID to index map; status timeout | `SendDMX`, `SendRDMRequest`, `RunIncrementalDiscovery`, `CheckDiscoveryStatus`, one handler per response, `Stop` | one transaction shared by three kinds of traffic, a repeating timeout, re-entrance |
| Art-Net node, `plugins/artnet/ArtNetNode.cpp` | per port: UID to node map with missed counts, nodes still to answer, discovery and request callback, two timers | `RunFull/IncrementalDiscovery`, `SendRDMRequest`, TOD, RDM and reply packets, timeouts, patching, `Stop` | lost, late, repeated and partial packets, devices that move, no transaction numbers, `Stop` running callbacks |
| E1.31 receiver, `plugins/e131/e131/DMPE131Inflator.cpp` | per universe: tracked sources with sequence number and age, active priority, merged buffer | `HandlePDUData`, `SetHandler`, `RemoveHandler` | 8 bit sequence numbers, sources that vanish, restart or change priority, a full list |
| OLA RPC and connections, `common/rpc/RpcChannel.cpp`, `olad/OlaServer.cpp`, `olad/ClientBroker.cpp` | calls outstanding and requests served by sequence number; connections, clients known to the broker | `CallMethod`, requests, responses, close, delayed cleanup, completion of RDM and discovery | completion after the client has gone, wrap of sequence numbers, reuse of addresses |
| Preferences, threads, `olad/Preferences.cpp`, `common/thread/Thread.cpp`, `common/io/SelectServer.cpp` | queue of callbacks, wake-up pipe, flags read without a lock, files | `Start`, `Join`, `Execute`, `Terminate`, `Run`, `SavePreferences`, `Syncronize` | real concurrency: lost wake-ups, spurious wake-ups, unlocked flags |
| UniverseStore, PortManager, PortBroker, `olad/` | universes, those to be deleted; patchings | `GetUniverseOrCreate`, garbage collection, `PatchPort` | deleting what still has callbacks outstanding |
| E1.33, SLP, other plugins, web interface, client library | protocol state | | mostly formats and I/O |

How they interact: a client's RDM request goes `OlaServerServiceImpl` → `Universe`
(which port?) → the port's `DiscoverableQueueingRDMController` (one at a time) →
the widget, `DmxTriWidgetImpl`, an Enttec port with a `DiscoveryAgent`, or the
network, `ArtNetNodeImpl`; the answer comes back as the callback of each level. A discovery takes the same way, on all
ports at once. DMX goes from sources into `Universe`, is merged, and out through
the ports, to a widget where it competes with the RDM traffic. Each level counts
on a contract stated in `include/ola/rdm/RDMControllerInterface.h`: every callback
runs, exactly once.

What makes each correct:
- the queue: one request or discovery at a time, each callback once, with the
  answer to its own request, and nothing stalls or is starved;
- discovery: terminates on any line, reports nothing that did not acknowledge a
  mute, finds every well-behaved responder;
- merging: the highest live priority wins, HTP and LTP as defined, a silent source
  gives way;
- RDM of a universe: a callback runs once all ports have answered, the best answer
  wins, the UID map leads where the UID was found;
- the widget: one transaction, indices that match the widget's, no starvation, no
  timeout that outlives its discovery;
- the Art-Net port: everything ends whatever the network does, each request is
  answered once, the map converges to the truth and its owner knows it;
- E1.31: overtaken packets do nothing, and the universe settles on the sources of
  the highest priority;
- RPC: a call gets its own answer, once, and nothing runs into a deleted channel;
- the saver thread: nothing asked for is lost, what returned has been done, and
  blocking calls return.

`PROJECT.json` lists the components with their status, the hazards with the line
where each bites and the properties that watch it, and which lines of source each
definition stands for.

## Modules

`QueueingRDMController` models both queue classes. One action is one call into the
queue. The last thing every such call does is to hand a request to the controller,
which may call back before it returns; `call` names the request in that state, in
which only `ControllerAccept` (it will answer later) and `ControllerRefuse` (it
calls back at once) may step, and both then run the rest of the code, so every
nesting of the controller's callbacks is a sequence of steps. Clients do not call in
from their own callbacks, which run with the flag cleared and the head not yet popped
(`:222`): olad's answer an RPC or update a table there. `ControllerReply` is an answer
with any code, type and size of its data; `DiscoveryComplete` ends a discovery. The
parts of a response and its packets are represented by the requests they answer, and
what is combined by its size, which is what `CombineResponses` limits. `interrupted` records that a call came in at one of the points the code does
not guard (see Findings); the safety properties hold as long as none did.

`DiscoveryAgent` models the agent with the line it works on: responders that
behave, ignore mutes, do not acknowledge, and so on (`Kinds`), and, when `noisy`, a
line on which any answer may come back. The recursion of `SendDiscovery` is one
step per iteration. UIDs are 0 .. MaxUID, ordered and split like the 48 bit ones.
The agent's client is the queue, which starts a waiting discovery from within the
completion callback.

`UniverseMerge` models the DMX side of one universe: `MergeAll` with its priority
scan and HTP/LTP, ports, source clients, `SetMergeMode` and housekeeping. Time is
kept as ages of the frames; the clock a merge reads may be ahead of the event that
caused it by a `Lag`.

`UniverseRDM` models the RDM side: `m_output_uids`, `MultiCallback` sessions and
`broadcast_request_tracker`s, with ports that answer in any order, also after they
have been removed.

`DmxTriWidget` models the widget's driver. `MaybeSendNextRequest` takes a step per
iteration of its loop (`sending`), during which nothing else happens, except what
the queue calls from a callback that iteration ran (`returned`). `wire` holds the
command the widget has to answer; the widget's own search and list of responders
(`scanning`, `list`) are external, modelled by how the driver uses them. The queue's
promise not to mix requests and discoveries is a guard of the two actions it calls.
Writes fail up to `MaxFailures` times. `timers` counts registered timeouts, because
the code can lose the id of one.

`RDMControllerContract` is an abstract specification: what `SendRDMRequest` promises
in `RDMControllerInterface.h:66-80`. A request is sent once; it is answered at once or
is outstanding until it is answered; its callback runs exactly once. Two modules
instantiate it, each with its own idea of what is outstanding, and implement it:
`QueueingRDMController` (what is in the queue) and `ArtNetNode` (the pending request).

`ArtNetNode` models one input port of `ArtNetNodeImpl` (the sending end, in Art-Net's
words), the remote nodes and the UDP network. Nothing is in flight as such: whatever
a node has had reason to send (`TodPackets`, from any table it ever had, in blocks of
`MaxUIDCount`; `Responses`, to any request sent) may arrive any number of times or
never. The queueing controller calls the port. Patching includes the discovery that
`BasicOutputPort::SetUniverse` asks for (`olad/Port.cpp:163`): it starts in the same step,
or waits in the queue (`owed`) until the port is free. `behind` says that the universe
the port is patched to was not told of the UIDs in the map; a patching that keeps the
address keeps the map and sets it. A discovery that runs during a patching may have been
asked for by the former universe, and is taken not to tell the new one. `Stop` is three
steps, because the two callbacks it runs may call the port while `m_running` is still set
(`reentered`); the last one also deletes the node, as `Device::Stop` does, and nothing
happens after it. `stranded` records what such a callback had the port begin after `Stop`
had looked for it. `timers` is the set of the timers that are
registered, by id, because a send that fails leaves the timer of its discovery
registered (`:679`, `:715`), next to that of the next one.

`E131Inflator` models the sources of one universe: `HandlePDUData` with
`TrackSourceIfRequired`, and senders that number and terminate their streams like
`E131Node`. Sequence numbers are counted modulo `Modulus` (256 in the code) with the cast
to a signed difference. A frame is represented by its source and number. Of each
source one packet may be delayed, overtaken by up to `MaxReorder` others and arrive
late, more than once. What goes wrong (a loss, a delay, a change of priority, a
restart, ...) is a disturbance, of which there are `MaxDisturbances`.

`RpcChannel` models both ends of connections to olad: `CallMethod` and the responses
on the client's side; requests, streams, unknown methods, requests that are dropped
because they cannot be read, completion, closing and the
delayed `CleanupConnection` on olad's, with `ClientBroker` between the service and the
universe. `Client` objects have an address, and an address that was freed may be given
to the next client. `fault` records a callback that ran into a deleted channel, after
which nothing is modelled.

`PreferenceSaver` models two threads. One step is what a thread does between two
points the other can observe: `Thread::Start` waiting for `_InternalRun`,
`SelectServer::Execute` (queue, then wake-up byte) against `DrainAndExecute` and
`select()`, the two stores at the start of `SelectServer::Run`, `Terminate`'s unlocked
read, `Syncronize` and `CompleteSyncronization`. A wait on a condition variable may end
without a signal (`spurious`), as POSIX allows; none of these waits tests a predicate.
`select()` may time out or be interrupted at any time, and may fail (`SelectFails`), which
ends the loop and the thread with whatever is queued (`broken`).

An `MC` module only defines values for constants. Definitions whose comment starts
with `Mutant` are wrong versions of the definition they precede: substituted for it,
the run finds the property of `PROJECT.json`'s `mutants` violated, so each property
can really fail.

## Runs

`tlc -workers 2 -config X.cfg M`, with M the MC module:

| Run | Checks | Bounds |
|---|---|---|
| Queue | `OneAtATime`, `ResponseBelongs`, `NeverStalls`, `DiscoverySatisfied`, `ImplementsContract` | 3 requests, queue of 2 (so that one is refused), 2 discoveries of different kinds, parts of 0 or 1 byte and a limit of 1 byte, so that a response is combined, refused and, with empty parts, never full; two requests share an origin so that their parts could be combined by mistake |
| QueueLive | `RequestCompletes`, `DiscoveryEventuallyRuns` | 2 requests, 2 discoveries |
| QueueOverflow | `SequenceExcludesDiscovery` is violated | as Queue |
| Discovery | `FindsExactlyThePresent`, `FindsEveryGood`, `StackIsPath`, `ReportsOnlyAcked`, `Terminates` | 3 UIDs (a tree of three levels), all kinds of responders, two discoveries with the line changing in between, or any answer to any call; limits 3, 2, 2 instead of 5, 5, 5: enough for each to be reached and to be passed by an off-by-one. With 4 UIDs and without noise (`MaxUID = 3`, `Noise = {FALSE}`, `Spec`) the invariants hold as well: 1.3 million states |
| Merge | `TopPriorityWins`, `HTPIsHighest`, `OnlyTimedOutDropped`, `LastSourceTakesOver`, `SilentClientsDropped` | a port and a client, frames of different length, two priorities, a timeout of 3 ticks and housekeeping every 4 (so it may come before and after the timeout) |
| RDM | `RunsAfterAll`, `BestAnswerWins`, `UIDTableExact` | 2 ports, 2 UIDs, 2 discoveries and a request at once, a discovery on patching; ports, UIDs and discoveries are symmetric |
| Tri | `OneTransaction`, `MapMatchesWidget`, `TimeoutTracked`, `RequestAnswered`, `DiscoveryEnds`, `FramesNotStarved` | 2 responders, lists of up to 2, one request per way of handling it, 1 failed write, 2 timeouts (one tracked, one lost); frames and requests are not bounded |
| ArtNet | `ImplementsContract`, `EverythingEnds`, `MapConverges`, `MissedUIDsForgotten`, `OwnerUpToDate` | 2 nodes, 2 devices that start behind one node (whose table takes 2 packets) and are moved to two, 2 discoveries with a limit of 1 missed one, a request, a failed send, 2 patchings. With 3 discoveries and a limit of 2 the properties hold as well: 2.9 million states |
| E131 | `SettlesOnTheHighest`, `OvertakenPacketsIgnored` | 3 symmetric sources for 2 places, 2 priorities, 3 disturbances; numbers modulo 4 with threshold 2, so that they wrap and the threshold is met; packets are overtaken by one. The same holds modulo 6 and modulo 8 with threshold 3 (16.6 million states) |
| Rpc | `OwnAnswers`, `BrokerProtectsRDM`, `CallsEnd` | 2 connections, 2 addresses, an RDM request, a discovery, a failing, an unknown and a malformed call and a stream; 2 sequence numbers, so that they come round |
| RpcDiscovery | `NoCallbackAfterDisconnect` is violated | as Rpc |
| Saver | `ReturnedMeansSaved`, `NoLostWakeUp`, `NotDestroyedUnderThread`, `BlockedCallsReturn` | 2 files, 2 saves of each, 2 calls of `Syncronize` |

Where `CHECK_DEADLOCK FALSE` is set the system may stop: the clients have asked for
all they will, or the object was destroyed. Merge and E131 check for deadlock.

Fairness. The queue is given a controller that answers every request, ends every
discovery and is resumed after a pause: the first two are demanded by
`RDMControllerInterface.h`. The agent's target answers every call or is destroyed.
In Merge time passes and the housekeeping timer runs, as `SelectServer` guarantees.
For the widget: the loop runs on, every command is answered, a search ends some time,
the timeout is called while registered; strong fairness is needed as these are
disabled for the moment some other call runs, and is what the select loop gives a
ready descriptor or timer. For Art-Net: a registered timer fires and `Stop` returns;
of the network nothing is assumed, so every packet may be lost. For Rpc: both event
loops handle what arrives, and RDM calls complete, which is the contract. For the
saver: both threads are scheduled, a wait ends once it was signalled, and a `select()`
with something to report is not interrupted for ever (strong fairness). E131 has no
fairness: `SettlesOnTheHighest` is a safety property, about the state after
`CalmRounds` rounds in which every source was heard: at least `ExpiryInterval + 3` and
`SequenceThreshold + 2`. With the constants of the run that is 4, and with 3 TLC finds
the property violated. No client is assumed to do anything.

Some properties have a condition, which names what the code really needs:
`~interrupted` and, for liveness, `PartsEnd` (queue: no responder answers ACK_OVERFLOW
without data for ever; `MAX_OVERFLOW_SIZE` counts bytes, so nothing in the queue ends such
a sequence, and without the condition TLC finds `RequestCompletes` violated), `~noisy` (discovery), `Smooth` (widget: no write failed,
and the status timeout did not expire while a discovery command was outstanding),
`Kept` (the widget did not drop the request, as it does with a DUB that is answered
by an unexpected code, `DmxTriWidget.cpp:696-699`). Without `Smooth`, the discovery
may hang (`FetchNextUID` ignores a failed write, `:359`), and a request that waits
behind a left over status command may wait until the next call. `FramesNotStarved`
says "as long as anything is sent": no handler of an RDM response calls
`MaybeSendNextRequest`, so the last frame before a silence that meets an RDM request
in flight stays queued until the next call (`:661-839`). For Art-Net: `failures = 0`, as a
failed send leaves a timer behind that later ends another discovery early and changes
the map without telling anybody; and `stranded`, what is begun inside `Stop`, which never
ends. For Rpc: `Unanswered` (a request that olad cannot read is dropped and its client left
waiting, `RpcChannel.cpp:402-430`), `reused` (numbers came round to one that was
outstanding; calls then get each other's answers, `RpcChannel.cpp:211-220`) and `shared`
(a new client got the address of one that has gone, and the broker takes it for the
old one, `ClientBroker.cpp:81`). For the saver: `spurious`; `missed` (`Terminate` came
before the loop had begun and did nothing, `SelectServer.cpp:118`; `Join` then waits for
ever); and `broken` (after a failed `select()` a waiting `Syncronize` never returns, and `Join`
returns true with saves still queued, `:144-145`).

## Findings

Two runs show the code disagree with what its own comments say; the lines are
quoted in `PROJECT.json`:
- QueueOverflow: the continuation of an ACK_OVERFLOW is sent without setting
  `m_rdm_request_pending`, so a discovery can start in the middle of the sequence,
  or the request be sent twice.
- RpcDiscovery: a forced discovery does not pass the `ClientBroker`; when its client
  disconnects meanwhile, the completion runs the closure of a deleted channel.

Five more properties state what a comment of the code promises and the code does not
provide. They are kept in the modules without a run; TLC finds them violated with
these constants:

| Property | Violated with | What happens |
|---|---|---|
| `DiscoveryAgent!EveryDiscoveryRuns` | `Spec`, `MaxUID = 3`, `Noise = {FALSE}`, else as Discovery | `m_on_complete` is cleared after it was run (`DiscoveryAgent.cpp:208`): a discovery started from the callback is answered with no UIDs, although "This will either run immediately or after the current request completes" (`QueueingRDMController.cpp:244`) |
| `UniverseRDM!CompleteUIDSet` | `FairSpec`, 2 ports, 1 UID, 2 discoveries, no request, `MaxPatches = 0` | a responder that moved between ports is lost when the new port answers first (`Universe.cpp:545`); "Returns the complete UIDSet for this universe" (`:559`) |
| `UniverseRDM!NoRequestDropped` | `FairSpec`, 1 discovery, 1 request, `MaxPatches = 0` | a broadcast in a universe without output ports is never answered (`Universe.cpp:445`); "there must be no way that a request can be dropped" (`RDMControllerInterface.h:74`) |
| `DmxTriWidget!StatusOnlyWhileDiscovering` | as Tri, `MaxFailures = 0` | a status command left over from one discovery ends the next before it has begun (`DmxTriWidget.cpp:259`); "This is called periodically while discovery is running" (`:256`) |
| `ArtNetNode!StopCleansUp` | as ArtNet | the node is deleted with a timer registered that will call it: one begun by a callback that `Stop` runs (`ArtNetNode.cpp:276`, `:292`), or left behind by a discovery whose packet was not sent (`:715`); "clean up any in-flight rdm requests" (`:264`) |

Seen while modelling, and not covered by a property: the constructor of `SelectServer` goes
on without a loopback descriptor if it cannot make one, and `Execute` then does not wake
anybody (`SelectServer.cpp:97`; the model's always works); a discovery requested while the
queue is paused is not started by `Resume` (`QueueingRDMController.cpp:95`), and the
queue's destructor drops the discovery callbacks (`:63`); `RpcChannel` reads from a
descriptor it has set to NULL when a write failed within the same `DescriptorReady`
(`RpcChannel.cpp:106`); when the last E1.31 source terminates the buffer is cleared but
the universe is not told (`DMPE131Inflator.cpp:146`); `ArtNetPort.cpp:177` takes the
universe modulo 15, so that universe 15 becomes 0; a crash between opening and
writing a preference file leaves it empty (`Preferences.cpp:347`); `UNREGISTER` creates
the universe it is to leave (`OlaServerServiceImpl.cpp:111`); `PatchPort` ignores that
`SetUniverse` refused (`PortManager.cpp:150`); LTP compares wall clock times
(`Universe.cpp:739`).

## Proofs

Every invariant that a run checks is a theorem, and so are both refinements and the
action property of E1.31. The inductive invariants were
model-checked on the runs' instances before they were proved. Each is a conjunction
of named parts, and its proof has a lemma for each action that can disturb a part.

`QueueingRDMControllerProofs`, checked by `tlapm`, holds for any number of
requests and discoveries, any queue size, sizes of parts and limit on them, from
`ConstantsAssumption` alone:
- `TypeCorrect`: `Spec => []TypeOK`, through one lemma for each step actions share
  (`TakeNextAction`, `CompleteRequest`, combining responses).
- `Exclusive`: `Spec => []OneAtATime`, and `Belongs`: `Spec => []ResponseBelongs`.
  Neither is inductive. `ExclusiveInv` adds, for as long as the queue was not
  interrupted: the request being handed over or on the wire is the head of the
  queue; a discovery runs only with callbacks to serve, so that
  `CheckForBlockingCondition`, which looks at the callbacks, sees it; and every
  part and packet collected belongs to the head (`HeadOwnsAll`), so what is passed on
  when the head completes does too.
- `Once`: `Spec => []CallbackOnce`, interrupted or not. `OnceInv` adds that no request
  is in the queue twice and that what is queued was submitted, so removing the head
  makes exactly that request complete.
- `Implements`: `Spec => ImplementsContract`, that is, the queue refines
  `RDMControllerContract`. Every step leaves the requests that wait alone, lets one
  arrive, or lets some leave (`ArriveOrLeave`, one case per action; the destructor lets
  all leave). Since before and after the step a request has been answered exactly
  when it was submitted and does not wait (`CallbackOnce`), each of the three is a step
  of the contract or a stutter (`ContractStep`).
- `MovesOn`: `Spec => []NeverStalls`, interrupted or not. It is nearly inductive: every
  action that removes what the queue waits for ends in `TakeNextAction`, which is
  shown to find something else to wait for or an empty or paused queue.
- `Satisfied`: `Spec => []DiscoverySatisfied`. `ServiceInv` follows the callbacks through
  the two lists: none is in both, those that run were asked for before
  the discovery started, and a full one runs if any of them wants one. For this
  `StartRDMDiscovery` must move the whole waiting list, and only to an empty one.

`UniverseRDMProofs`, for any UIDs and any finite set of ports
(`ConstantsAssumption`):
- `Routes`, `Lingers` and `Lost`: `RoutesToReporter`, `OnlyLatePortsLinger`,
  `OnlyContestedLost`. The last is not inductive, since it speaks only of ports in the
  universe and a port can be patched again after a late answer; `MappedOrContested`
  says for every port, in the universe or not, that what it reported last is mapped
  to it or was seen on another port. `TableExact` is the three together,
  `UIDTableExact`.
- `AfterAll`: `RunsAfterAll`. `SessionOK` and `TrackerOK` add that the count of answers
  plus the number of ports still owed is the limit (so the count meets it, in a test
  for equality, exactly when the last port answers); this is where the finiteness of
  the set of ports is used.
- `BestWins`: `BestAnswerWins`. `BestInv` says of a DUB what the property says only of
  its end: the code is the best of the answers so far, and the packets are those of
  the ports that have answered.
- `TypeCorrect`: `TypeOK`, which bounds the counts by their limits.

`DmxTriWidgetProofs`, for any responders, requests and number of failed writes:
- `Transaction`: `OneTransaction`, from `LineInv`: the expected command is the one on
  the wire, and RESERVED if there is none.
- `Tracked`: `TimeoutTracked`, from `LineInv` and `TimeoutInv`. The latter adds where a
  discovery is between two of its steps (`DiscoverySteps`): a step that waits and an
  outstanding command exclude each other, and each says whether the timeout is
  registered. An expiry during an outstanding command breaks this, hence the
  condition `~late` of the property.
- `MapMatches`: `MapMatchesWidget`, from `LineInv`, `TimeoutInv` and `MapInv`. The map is
  right during a discovery too (`IndexOK`), since the map is cleared in the step that
  changes the list; an index is fetched before anything can change the count
  (`FetchOK`); and of a command on the wire, the index is the one that its answer will be
  taken for (`CommandOK`). `FilterOK` is needed because the answer to SET_FILTER sends
  the pending request without looking at the map.

`DiscoveryAgentProofs`, for any number of UIDs, any limits and any number of
discoveries. `ConstantsAssumption` asks for at least two attempts at a range: with a
limit of one `SendDiscovery` would pop every range without a DUB (the code's limit is 5,
`DiscoveryAgent.h:153`):
- `Path`: `StackIsPath`, from `StackInv`. `LimitsInv` says when a range has used up its
  attempts or failures, so that the tests for equality see it. `FreshInv` says that
  ranges which have not been searched lie above those that have, with nothing
  recorded in them yet; it decides which ranges an abandoned branch takes along.
- `TypeCorrect`: `TypeOK`, which bounds every counter by the limit it is compared to.
- `OnlyAcked`: `ReportsOnlyAcked`, from `AckedInv`: during the incremental mutes the known
  UIDs are those that acknowledged and those still to be asked.
- `EveryGood`: `FindsEveryGood`. At the end of a discovery the property is about a result,
  during it nothing; `CoverInv` says that every well behaved responder which was not
  found yet is unmuted and lies in a range on the stack that was not searched, or is
  what the outstanding call will find. A DUB that times out or names one UID covers
  the range it was sent for; a split covers it with the two halves.
- `ExactlyThePresent`: `FindsExactlyThePresent`, from `CoverInv`, `AckedInv` and `ExactInv`.
  What is left to show is that the search reports success: on a line that behaves no
  range fails (`Clean`), every mute is acknowledged (`AllAck`), and no range is
  searched in vain, which would count as corrupt (`NotInVain`: something was or will be
  found in every range that was searched, in it or above it).

`ArtNetNodeProofs`, for any nodes, devices, requests, block size and limit
(`ConstantsAssumption`, `BoundsAssumption`):
- `Implements`: `ImplementsContract`, by the argument of the queue's. `RequestInv` adds that
  the timer runs exactly while a request is pending, whose callback was not run.
- `OwnerKnows` and `Forgotten`: `OwnerUpToDate`, `MissedUIDsForgotten`, each inductive
  together with
  `TimersInv`: as long as every packet is sent, a running discovery has one timer, its
  own, and no other timer exists. Without it a timer of an earlier discovery could
  end this one, or change the map when none is running. `StartDiscoveryInv` is shared by
  the discoveries the queue starts and those of a patching; where the latter has to
  wait, `owed` keeps the promise to tell the new universe through the end of a discovery
  that told the former one.
- `Converges`: `MapConverges`, which speaks of the moment all nodes are known. `TruthInv`
  says it of each node whose whole table has come: its devices are in the map,
  behind a node that has them, and nothing else is behind it.
- `TypeCorrect`: `TypeOK`.

`RpcChannelProofs`, for any connections, calls, addresses and sequence numbers
(`ConstantsAssumption`):
- `AnswersAreOwn`: `OwnAnswers`. `AnswersInv` follows a call through the system: on a
  connection that reused no number, every message on its way up or down and every
  entry of the tables at both ends carries the call its number was given to, and a
  call is in one of these places at most.
- `BrokerProtects`: `BrokerProtectsRDM`, from `AnswersInv` and `ProtectInv`: clients have
  addresses of their own and the broker knows none of a deleted one (`BrokerInv`), and a
  call the RDM code works on is among the requests of its channel (`WorkInv`).
- `TypeCorrect`: `TypeOK`.

`E131InflatorProofs`, for any sources, priorities, size of the sequence space,
threshold, expiry interval and number of places. `ConstantsAssumption` says what the
theorems need: sources do not expire between two of their packets
(`ExpiryInterval >= 1`), packets are overtaken by fewer than the threshold, and
`CalmRounds` is the time to settle:
- `TypeCorrect`: `TypeOK`; there are never more sources than places.
- `OvertakenIgnored`: `OvertakenPacketsIgnored`, an action property. `LateInv` counts how
  many packets overtook the delayed one and says which number the inflator can hold
  then; that the signed difference is taken for old follows by arithmetic modulo
  `Modulus`.
- `Settles`: `SettlesOnTheHighest`. `SettleInv` is a timetable of what holds after how
  many calm rounds: who has gone away is about to expire (`WaitInv`), after
  `ExpiryInterval + 2` rounds only sources that send are tracked (`FreshInv`), after
  `SequenceThreshold` packets a source that restarted or lost many is accepted again
  (`LagInv`), and one round later the active priority is the highest, its sources
  are tracked or all places are taken, and the universe was told (`LeadInv`). The
  first bound on `CalmRounds` is for the expiry, the second for numbers that look old.

`PreferenceSaverProofs`, for any files and any number of saves and of calls of
`Syncronize` (`ConstantsAssumption`):
- `NotDestroyed`: `NotDestroyedUnderThread`, from `ThreadInv`: a thread that is not
  marked as running was not created, has ended, or `Start` still waits for it.
- `WakesUp`: `NoLostWakeUp`. It speaks of a sleeping thread only and is not inductive;
  `WakeInv` says, wherever the thread is, that for a queued callback a byte is in the
  pipe, is about to be sent, or the thread has read the pipe and will still look at the
  queue.
- `SavedOnReturn`: `ReturnedMeansSaved`. Three invariants carry it besides `ThreadInv`.
  `Data`: saves of a file wait in the order they were asked for, and the last one
  waits, runs, or was written and no older one waits (`Ordered`, `OnItsWay`). `SyncInv`:
  the callback of `Syncronize` is the last of the queue until it runs, so that nothing
  waits when it signals. `EndInv`: unless `select()` fails, the loop is left only after
  `Terminate`, when nobody asks for more, and with an empty queue; if it does fail, no save
  was under way, so what was not written is still queued. `ThreadInv` and `SyncInv` exempt a wait
  that ended without a signal (`spurious`).

Only model-checked: what the universe merges (`TopPriorityWins`, `HTPIsHighest`,
`LastSourceTakesOver`), since `MergeAll` folds over the list of sources and what a fold
computes for every list is an induction over data; and `OnlyTimedOutDropped`. All
liveness properties (`SilentClientsDropped`, `RequestCompletes`, `DiscoveryEventuallyRuns`, `Terminates`, `RequestAnswered`, `DiscoveryEnds`,
`FramesNotStarved`, `EverythingEnds`, `CallsEnd`, `BlockedCallsReturn`), which need fairness.
The properties the code violates.

## Not modelled

Formats and I/O: RDM, DMX and RPC serialisation, serial framing, PDUs, HTTP, the text
of preference files; they are functions of bytes or leave no state that interleavings
could break. Most of the repository is of this kind or is not the daemon: the tables of
RDM parameters and messages, the generated callback templates, tests, drivers for
single devices, command line tools, the Java and Python clients.

Of the modelled files: the output ports of the Art-Net node, which merge received DMX
like `UniverseMerge` and answer TOD and RDM requests of other controllers; the timers
and descriptors of `SelectServer`; `ThreadPool` (only its tests use it), `Future` and
`ConsumerThread`. `UniverseStore`, `PortManager` and `PortBroker`. E1.33 and SLP, which
are programs of their own in this version. A response of the DMX-TRI that is lost:
nothing in the driver handles it, no command is sent any more until it is closed. What
the queue hands to the DMX-TRI from the callbacks of its `Stop`; the widget is deleted
next. The clock set back. Other USB Pro widgets share the discipline of the DMX-TRI.

## Plan

1. Proofs about the merging of frames: those parts of it that do not depend on what a
   fold computes, `OnlyTimedOutDropped` first.
2. `UniverseStore`: universes and patchings, garbage collection while callbacks are
   outstanding.
3. Composition of queue and widget as one specification; both sides' assumptions are
   now stated, the widget's as guards of the actions the queue calls.
