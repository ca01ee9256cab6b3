# TLA+ specifications of the drone economics system

The repository (`sbd-drones-economics`) is a set of cooperating systems: a
Hyperledger Fabric chaincode that keeps orders and papers, an agricultural
drone, a drone port, a ground control station (GCS), an operator, an
aggregator, insurers, an air-traffic authority, regulators, a simulator and a
log service, most of them talking over a Kafka or MQTT bus. The modules here
model the parts in which several actors share state. TLC checks them on small
instances. TLAPS proves the main safety properties of all of them, and that six
of the modules implement a more abstract one, for every value of the constants.

Run from this directory:

    tlc -workers 2 -config MCOrderContract.cfg MCOrderContract
    tlapm Ledger_proofs.tla

and the same with the other `MC*` and `*_proofs` modules.

## 1. Inventory

| Component | State | Operations | Talks to | What makes it correct |
|---|---|---|---|---|
| Chaincode (`fabric-network/chaincode/contracts`) | orders, flight permissions, mission and general insurance, drone passes, firmware, type certificates, violations | one transaction per operation, guarded by the caller's role | every business system, through the gateway | an order starts only under an approved permission; a permission is decided once; papers refer to existing papers |
| fabric-proxy, ledger gateway (`docker/`) | none; transactions in flight | HTTP or bus call to `SubmitTransaction`, 30 s timeout | chaincode | concurrent submissions commit as some serial execution; what was checked at simulation holds at commit |
| Drone port (`systems/drone_port`) | port table (StateStore), drone records (DroneRegistry), charging threads | landing, takeoff, reservation, release, registration, charging | five components over the bus; drones | no two drones in one port; the table agrees with reality; every request is answered; no takeoff uncharged |
| Drone port orchestrator | none | one query | registry | - |
| Security monitor, emergensy, limiter, motors, sprayer (`systems/agrodron`) | policies and mode, emergency flag, limiter state, motor mode, spray state | proxy publish and request, policy administration, isolation, emergency protocol | everything in the drone goes through the monitor | an emergency ends with landing motors and a closed sprayer, whatever is in flight |
| Autopilot (`systems/agrodron`) | mission, step, state, kover and landing flags | commands and `mission_load` in the consumer thread, a control thread | ORVD, drone port, motors, sprayer, navigation | no flight without preflight; a closed sprayer while landing; a start is decided |
| Navigation, telemetry, system monitor, the limiter's poll (`systems/agrodron`) | the last answer of each | threads that ask, wait for a time and store | simulator, each other, through the monitor | nobody goes back to an older state; an alarm has a cause; a drone that stays outside raises one |
| Mission handler (`systems/agrodron`) | the last mission | parse, validate, load into the autopilot | GCS, monitor, autopilot | the mission that is started is the one last uploaded |
| Gateway, journal (`systems/agrodron`) | a file | pass on; append under a lock | monitor | - |
| Kafka bus, `BaseComponent` (`broker/kafka`, `sdk`) | pending requests, consumer position | subscribe, publish, request, stop | every component | one outcome per request; no entry leaks; handlers run again only after a restart |
| MQTT bus (`broker/mqtt`) | pending requests, a pool of workers | the same interface | every component | the same promise to the caller |
| GCS (`systems/gcs`) | missions and the drone in Redis, polling threads | task submit, assign, start; upload; telemetry | operator, drone | an assignment ends; a start starts what the station sent last |
| Operator (`systems/operator`) | drones, offers under way | registration, choice of a drone, offer, insurance | aggregator, insurer | who offers gets the order matched |
| Aggregator (`systems/Agregator`) | orders in SQL, HTTP handlers | create, confirm, complete; consumer of answers | operators over Kafka and MQTT | an order moves forward and keeps its operator, against late and double answers |
| Insurers (`systems/insurer`, `systems/alt_insurer`) | policies, incidents | sell, terminate, report an incident | operators | requests served one at a time |
| ORVD (`systems/orvd_system`) | drones, missions, authorisations, flights, zones | register, authorise, takeoff, revoke, zones | drone, GCS | every flight is on its record |
| Regulator of team 1 (`systems/team1-regulator...`) | certificates, revocations, both in files | certify firmware, drones and operators, verify, revoke; REST | everybody | what it answered stays true, whenever it dies or cannot write |
| SITL module | one record per drone in Redis | verify, control, move, answer positions | motors, navigation | the record is of one flight, whoever overwrites whom |
| DroneAnalytics, its clients (`sdk/analytics_journal.py`, `infopanel_client.py`) | indices; buffers and queues | post, list, download; batch and flush | every component that logs | reports are exact, readers skip nothing but ties, no event twice or left behind |
| `systems/regulator`, dummy systems, `scripts`, CI | - | examples and tooling | - | - |

How they interact. Components publish messages to topics. `request` is a
publication with a correlation id and a wait with a timeout. Under Kafka one
consumer thread per topic runs the handler inline, so a handler that requests
keeps its component from taking anything else. Under MQTT a pool of threads
runs the handlers, so they overlap and messages are taken in any order. Hardly
anything retries a failed publication (the operator's offer is the exception).
The hard behaviours follow from this: reads that are stale when they are used,
reservations that nobody confirms, answers that come after the timeout, waits
inside handlers that close a circle, threads that outlive their purpose,
records written back whole, files half written when a process dies, and in
Fabric the gap between simulation and commit. `PROJECT.json` lists each of them
at its line under `hazards`.

## 2. Modules

| Module | Models | Kind |
|---|---|---|
| `OrderContract` | billing.go, drone.go, security.go: the state and every writing transaction | detailed |
| `FlightClearance` | what the ledger promises about flying | abstract |
| `FabricLedger` | simulation, ordering and validation of those transactions; extends `OrderContract` and refines it | detailed |
| `DronePort` | drone manager, port manager, state store, registry, charging manager and the drones | composition |
| `EmergencyLanding` | limiter, security monitor, emergensy, motors, sprayer, simulator | composition |
| `Autopilot` | consumer and control thread of the autopilot | detailed |
| `KafkaBus` | callers, topic, consumer and process of one component | detailed |
| `SystemBus` | the same interface over either broker; extends `KafkaBus` by the MQTT client | detailed |
| `RequestReply` | what `SystemBus.request` promises | abstract |
| `Aggregator` | store, HTTP handlers and consumer of the aggregator | detailed |
| `Insurance` | both insurers | detailed |
| `Market` | the operators, with `Aggregator` and `Insurance` | composition |
| `Deal` | what the aggregator promises customers and operators | abstract |
| `Calls` | components that wait for each other over Kafka | library |
| `Gcs` | orchestrator, drone manager, path planner, converter, mission and drone store | detailed |
| `Onboard` | monitor, mission handler and autopilot in an upload and a start | detailed |
| `Airspace` | the air-traffic authority | detailed |
| `FlightPrep` | `Gcs`, `Onboard` and `Airspace` on one bus | composition |
| `Sitl` | the simulator's verifier, controller, core and messaging around one record | detailed |
| `Tracking` | the threads that follow the drone, with `Sitl` | composition |
| `Trail` | what they promise | abstract |
| `Analytics` | the log service's posts, lists and downloads | detailed |
| `Journal` | the two clients that send it events, with `Analytics` | composition |
| `Regulator` | the certificate service with its files and REST calls | detailed |
| `Ledger_proofs` | theorems about `OrderContract` and `FabricLedger` | proofs |
| `Bus_proofs` | theorems about `KafkaBus` and `SystemBus` | proofs |
| `Drone_proofs` | theorems about `EmergencyLanding` and `Tracking` | proofs |
| `Services_proofs` | theorems about `Analytics`, `Journal` and `Regulator` | proofs |
| `Autopilot_proofs`, `DronePort_proofs`, `FlightPrep_proofs`, `Market_proofs` | theorems about the module of that name | proofs |
| `MC*` | the values TLC needs | model checking |

**OrderContract.** Each variable is a map from an identifier to a record or
`None`, as the world state maps composite keys to JSON. Each action is one
successful transaction. A transaction that returns an error writes nothing, so
it is no step. The role is the first argument and `assertRole` is a guard
(`admin` always passes). A permission's identifier is `"PERM-"` + order id, so
permissions are indexed by order and the order's `FlightPermissionID` is the
Boolean `hasPermission`. Amounts, texts and dates other than the permission's
window are left out: no guard reads them. `StartOrder` takes any clock value up
to `now` because peers' clocks differ. Time 0 is the zero time of an
unparsable date. `CheckZoneConflict` is a stub in the code and has no effect in
the model. Deleted is `None`.

**FabricLedger.** `Propose` is a simulation: it records the version of every
key the Go code reads through `GetState` and the values it writes through
`PutState`. `Commit` and `Discard` are the peer's validation. They are marked
external: they are Fabric's documented rule and not code of this repository.
Nothing retries; a client that timed out is a transaction that stays in flight,
and a client that retries is another `Propose`. The transactions fall into three
families (orders and permissions; policies; passes, firmware and certificates)
with no key in common. The frozen variable `family` chooses one of them per
behaviour. Steps of different families commute and no property relates two
families, so nothing is lost.

**DronePort.** `inbox[c]` is the topic of component `c`. A handler that waits
for an answer is split at the wait, and `dm` and `pm` say where DroneManager
and PortManager stand for a request; between two waits a handler is one step.
`where`, `charge` and `session` are the physical truth the tables are compared
with. Charge has three levels, which are those the code distinguishes: at most
60 %, above it, and 100 %. The frozen variable `impatient` says whose requests
time out in this behaviour, `Broker` how messages are taken.

**EmergencyLanding.** `policies`, `mode`, `motors`, `sprayer`, `active` and
`limiter` are the fields of the five Python classes. `forwarding` holds what
the monitor checked and has not yet published (the gap between `_is_allowed`
and `publish`), and `protocol` what emergensy's handler has still to publish.
The limiter's three states are inputs here, in any order; `Tracking` has how it
comes to them. `flight` is the last command the simulator got. `amended` is a
history variable: the administrator changed the policies after the isolation.

**Autopilot.** The two threads share fields without a lock. Statements with no
bus call between them are one step, except where a thread reads a field,
decides and writes later: `handling` holds what the consumer has read, `pc` and
`job` what the control thread has. Navigation answers anything or nothing at
every poll; ORVD and the drone port approve or refuse, no answer being a
refusal. A mission may be loaded again at any time, as the station repeats an
assignment. `cleared`, `overtaken` and `kovered` are history variables.

**KafkaBus, SystemBus.** `stage` follows a caller through `request`, `pending`
is `_pending_requests`. `position`, `committed` and `batch` are the Kafka
consumer; `Gets` allows every point at which auto-commit may act. `warmUp`
counts the polls `_consumer_loop` starts with, whose records it drops.
`Stop(position)` is an orderly stop that commits on closing, `Stop(committed)`
is a crash. `SystemBus` has the frozen variable `broker` and, for MQTT, the
client's network thread, the pool's jobs, lost connections and clean sessions,
with the same variables for the same things (`batch` holds the jobs no worker
has begun). The callers are those of `KafkaBus` for both: the code of
`request()` is the same. The frozen variable `lucky` marks the behaviours in
which nothing times out, fails or stops; the liveness property speaks of those
alone, the safety properties of both.

**Aggregator, Insurance, Market.** `orders[o]` is the row of the SQL table, and
each UPDATE with its WHERE is one step. An HTTP handler with several statements
is a member of `calls` between them. The messages under way form a set, since
neither two partitions nor two brokers keep an order. An operator's `offering`
is its `create_order` handler: it asks the insurer, then publishes the offer
`Attempts` times. `repeats` counts the create_order messages of
`systems.agregator` that name an existing order: the consumer sets such an order
back to "searching" whatever its status (`ProcessMessage`, kafka.go:337). `Deal`
forgets rows and messages: an order has a phase, a party and bids, and a recall
under way may take it back to the search, once. The insurers' incidents move
nothing but premiums and are left out with them.

**Calls, Gcs, Onboard, Airspace, FlightPrep.** `Calls` is the common form of a
component over Kafka: it takes the head of its inbox, publishes, and may wait
(`job`, `asked`, `answer`). A timeout fires when nobody else can take a step
(handlers take milliseconds, timeouts seconds). Waits with the same timeout end
in the order they began; those of the `Hasty` components are shorter and may
end at any such pause. `Gcs`, `Onboard` and `Airspace` have the handlers, and
`FlightPrep` puts them on one bus. A route is there or not; a flight's
geometry is not modelled.

**Sitl, Tracking.** `record` is the Redis hash. The controller's coroutines and
the core's loop hold copies between their read and their write, which is where
one overwrites the other. Positions are cells of a line. A follower's poll is
an answer made (`reply`), received, or given up (`late`). A query of Redis may
fail, and then the answer has no coordinates whatever the record says. A second
mission replaces the first and leaves the limiter's state to the next
recalculation; `None` is a mission without a step that can be compared.
`version` is a history variable by which copies of the record are told apart;
`beyond` and `loaded` record what the limiter may have a reason to alarm about:
the targets some answer of the simulator was out of limits of, and those of the
missions it has had.
`Trail` says what a chain of polls may show.

**Analytics, Journal.** An item is a timestamp and a kind. A post is stored by
two bulk requests, either of which may fail; `Reported` is the code that maps
positions of the refused documents back to positions of the payload
(`Document`). A reader turns the pages of a list or scrolls a download while
others post. The sort is by timestamp alone (logs.py:134): items of one
millisecond come in any order, another one for every page, and a timestamp that
the end of a page goes through is noted in `torn`. `Journal` has the handler
threads, the flush thread and `stop` of one client, and the queue, the task and
`stop` of the other; `client` chooses one of the two per behaviour. A thread of
the journal takes the buffer under the lock and posts what it has `taken`
later. `configured` says whether there is an address to post to.

**Regulator.** A handler is one step, since the event loop never really waits
in one, except that a crash ends it before, between or inside the two files of
`_save`, and that a write may fail there: then the change stays in memory, the
handler publishes nothing, and the files hold what was written before. A file
that was cut cannot be read and the service does not start again. The REST API
is another process whose calls take the first message on the result topic: a
result is first at the broker (`outbox`) and reaches the calls that wait when it
is delivered (`Deliver`), one that subscribed after its publication too. The
ghost `revokedThen` remembers what was known to be revoked when a drone's
request was published, `unsaved` the revocations in memory whose write failed.

## 3. Runs

Every run is exhaustive within its bounds (states found and time on two cores
in the last column).

| Run | Expect | Bounds | What it shows | Size |
|---|---|---|---|---|
| `order_contract` | pass | one of everything, two clock values, all roles | No sequence of transactions, by whatever roles, starts an unapproved order or separates an order from its permission. The contract implements `FlightClearance`. | 161,100 |
| `fabric_ledger` | pass | two drones, two in flight, four writes per key | Concurrent transactions are serializable: they refine `OrderContract`. What a start checked at simulation still holds when it commits. | 477,426 |
| `drone_port` | pass | Kafka, two drones, two ports, four requests, three if landings or components time out | No shared port, a true port table when quiet, no early departure unless the charging thread of another landing has reported, every request answered; with timeouts ports may leak, but no occupied port is shown free. | 402,732; 128 s |
| `drone_port_mqtt` | violation | MQTT, three drones, two requests | Two drones get one port. | - |
| `emergency` | pass | Kafka, two autopilot messages, one event, one administrator's message | The emergency wins over what is in flight and is final. | 228,266 |
| `autopilot` | pass | two missions of two steps, all commands, four messages, backlog 1 | Preflight cannot be skipped, the sprayer is closed while landing, a start is decided. | 374,811; 35 s |
| `system_bus` | pass | both brokers, two requests, two stops or lost connections, two workers | One outcome per request; no leaked entry; handlers run again only after a stop; both refine `RequestReply`; undisturbed requests are answered. | 192,553; 70 s |
| `market` | pass | one order, two operators on two brokers, a drone each, failing publications, one repeated create_order at a time | The aggregator keeps to `Deal`: only a repeated create_order takes an order back; who offers gets the order matched. | 339,408; 157 s |
| `flight_prep` | pass | two missions, fourteen components, three tasks, one poll, Redis empty or not | An upload ends although it runs into a circle of waits; a start starts what was sent last; a flight is on record. | 113,188; 40 s |
| `tracking` | pass | navigation and limiter, three cells, two homes, one message, one failing query, the limiter's late answers, a mission with a step and one without | The record is of one flight; the followers keep to `Trail`; alarms have causes and come. | 825,220; 180 s |
| `journal` | pass | two events, a batch of two, a page of one, another service's post with a timestamp of the client's | Reports are exact, readers skip nothing but ties at the end of a page, no event is posted twice or left while the client runs. | 662,613; 123 s |
| `regulator` | pass | three requests, two API calls, two crashes or failed writes, two seconds, two drones with one suffix | What was answered stays true through every crash and failed write; a call alone gets its own result. | 5,213,585; 128 s |

Type invariants. Each module has one. Those of `KafkaBus` (with
`SystemBus`) and `Journal` are in their runs; these two and those of
`OrderContract`, `Autopilot`, `EmergencyLanding`, `Tracking`, `Regulator`,
`DronePort` and `Market` (with `Aggregator` and `Insurance`) are proved. Those of
`FabricLedger` and `FlightPrep` (with `Gcs`, `Onboard` and `Airspace`; the part
its theorem needs is proved) say what the variables hold; they were checked on
the instances above by an additional INVARIANT line.

Why the bounds are enough.

- Chaincode: every guard reads keys of one order and its permission, or of one
  drone and one policy, so a second object of a kind brings no new interaction.
  Two clock values allow a window that has closed and one that has not begun.
- Fabric: two transactions in flight are the least that can conflict. Four
  writes per key let an order be created, assigned, given its permission and
  started, with a fifth transaction discarded. A second drone lets an
  assignment be lost, which is what the serializability is about.
- Drone port: two drones for two ports, one port occupied at the start, meet
  the full and the half-full table. Four requests are a landing, a takeoff, and
  a second round while the first round's charging thread runs; three, a
  request that is given up, its repetition, and the other drone's. The run for
  MQTT needs three drones: the demo drone stands in the first port, and two
  others compete for the second.
- Emergency: two autopilot messages put one before and one after the isolation.
  One event runs the protocol once; that more events change nothing is proved
  (section 5).
- Autopilot: four messages are a load, a start and two more commands in any
  place, or a second load, of the same mission or the other, and its start. One
  waiting message plus the one in handling suffices, since the consumer takes
  them in order. The safety properties are proved for any number of messages;
  the run adds that a start is decided. The drone sprays at the last step and not at
  the first, so a landing begins with an open sprayer.
- Bus: two requests put two records in one batch, or in two workers; two stops
  allow a redelivery and a stop during it.
- Market: the row of one order is all its handlers and answers touch; two
  operators, one per broker, are what can be confused in it. Two attempts are
  one before and one after the aggregator wrote "searching". One create_order
  waits to be repeated at a time, and any number may come one after another.
- FlightPrep: two missions let a start name another mission than the drone
  holds; three tasks are a submission, its assignment and a start, or a second
  assignment while the first is stuck.
- Tracking: three cells are a target, a place at the edge (WARNING) and one
  outside. Two homes tell two flights apart. One message beside the core's loop
  is the least that can be overwritten; a record may be there from the start,
  so that it is of a drone under way. One failing query is enough to make a place
  unknown while there is a record. One target and a mission without a step give
  every change of a mission that the recalculation tells apart. Telemetry and the system monitor ask in
  the way of the limiter; the theorems are about any chain of followers.
- Journal: two events with a batch of two make a batch full, not full, and
  split between the threads. A page of one and two items make a reader turn a
  page while an item comes in; the other service's event has the timestamp of
  the first, so that the end of a page goes through a tie. The payload has an
  item of each kind that is treated differently.
- Regulator: a certification, its revocation and a registration on it are three
  requests. Two faults let the process die while it saves and again after it
  read the files, or a write fail and the process die with the change in memory.

Deadlock is checked in `order_contract` (an order can always be changed),
`autopilot` (the control loop never ends) and `tracking` (nor do the polls).
The other runs say `CHECK_DEADLOCK FALSE`: the bounds on messages, requests,
versions, stops or crashes let a behaviour end.

Fairness. `Spec` has none; `FairSpec` (`FairBusSpec`,
`TrackingFairSpec`) states it where liveness
is checked. A Kafka consumer thread loops until its component stops and catches
handler exceptions, so each component's steps are weakly fair (`DronePort`,
`EmergencyLanding`, `Market`). The charging and control threads loop in the
same way. A wait inside a handler ends because every `request` has a timeout;
`EveryRequestAnswered` says more for `impatient = {}`: the waits end by
answers. In `Autopilot` an answer of the authority or the drone port is a step
of the control thread, fair because it has a timeout. In the bus, fairness of a
poll asks only that it eventually returns what is there. In `FlightPrep` the
components together are weakly fair: they run in pauses of the outside world
(`Pauses`), which is an assumption on time scales: handlers take milliseconds,
people, polls and timeouts seconds. In `Market` the same is assumed of the
aggregator's write of "searching": it ends before the last of the six attempts,
ten seconds later; otherwise the offer is lost. `Tracking` has strong fairness
of `Receive` and `Recalculate`: the polls go on for ever, and not every answer
misses its timeout. Without it, a drone whose every poll times out raises no
alarm, which is so in the code. In `Journal` the flush thread, the posts of what
a thread has taken, the waits and the client's task are fair while the process
runs, and nothing is assumed of the backend. Drones,
operators, the administrator and the limiter owe nobody a step.

## 4. Where code and documents disagree

One run expects a violation, and its finding quotes the document.

*Shared port* (`drone_port_mqtt`). The slot allocation is a read followed by an
unconfirmed write. Under MQTT, the drone port's default, two landings overlap
and two drones are sent to one port.

The following disagreements show in a step or two of the modules, or in the
code alone; they have no run.

- *Admission*: docs/e2e-test-scenarios.md:42 and :117 say a mission cannot
  start if one of its papers is invalid or was revoked after the assignment.
  `StartOrder` (billing.go:202) reads the permission only.
- *Warm-up*: the polls at kafka_system_bus.py:140 throw records away, while
  `subscribe` (:159) promises the callback for each message.
- *Abort*: README_AUTOPILOT.md:84 says ABORT ends the mission in the state
  "cancelled". During the two waits of the preflight it is overwritten with
  EXECUTING (autopilot.py:253).
- *Landing in the simulator*: the emergency policies
  (security_monitor.py:285-298) have no rule for the motors' own command to the
  simulator (motors.py:186), so the simulated drone never gets the landing
  that docs/e2e-test-scenarios.md:63 asks for. Nor do they let the motors
  write to the journal (:23).
- *Stop of the log client*: `stop` of infopanel_client.py:49 is to send the
  remaining logs. It tells the worker to end and then waits for a queue that
  the worker no longer empties (:52). Each `__main__` of the SITL components
  calls it. (`EventsForwarded` therefore speaks of a client that is not
  stopped.)
- *STOP undone*: the core is to move drones with status MOVING
  (components/sitl_core/docs/README.md:12). It writes back the whole record it
  read before (sitl_core.py:89), so that a STOP written in between is undone.
- *Certificate ids*: a test (team1, test_certificate_manager.py:50) expects two
  certificates to have two ids. Two subjects with the same last eight
  characters get one id in one second (certificate_manager.py:70); this is the
  exception in `IssuedAreStored`.
- *Verification*: the handler that verifies a certificate puts datetimes into
  the result, which the broker client cannot serialise: a valid certificate
  gets no answer.
- *Late publication*: handler.go:112 says of an order whose publication failed
  that the operator gets it later. Nothing publishes it again.
- *Double assignment*: docs/e2e-test-scenarios.md:123 excludes it. An operator
  offers the same drone for every order until it is assigned
  (operator_component.py:230), and assigning looks at one table.

Seen while modelling:

- Autopilot: a mission loaded while the preflight of the one before waits for
  its answers flies on the other one's clearance, and KOVER sets `EXECUTING`
  without any check (hence the two conditions in `FlightCleared`; without
  either of them TLC finds the flight). PAUSE, EMERGENCY_STOP and
  ABORT do not silence a loop with `_landing_active` or `_kover_active` set.
  RESET leaves both flags and an open sprayer; during a preflight it is
  overwritten to `EXECUTING` without a mission. START's wait for a mission can
  only end by its timeout under Kafka, because the thread that waits is the
  thread that would handle the load.
- DronePort: with `impatient = {"takeoff"}` a repeated takeoff frees a port
  that may have been given to another drone, and `NoSharedPort` fails. A
  charging thread outlives its landing and reports its level for the next one:
  the drone may be let go uncharged. `TakeoffChargedUnlessHaunted` takes out
  exactly that case, a report by the thread of another landing since the drone
  landed (`haunted`), and shows that nothing else lets it go. A wait for
  PortManager that ends too early leaves its port reserved for nobody, for
  good: `QuietPortsAgree` is stated without timeouts. `delete_drone`, drawn in the
  sequence diagram, is never sent.
- EmergencyLanding: with `Broker = "mqtt"` the messages of the protocol may be
  taken in another order, and `EmergencyWins` fails.
- OrderContract: `CreateInsuranceRecord` accepts a negative incident count,
  which `UpdateIncidentCount` rejects.
- Gcs: a mission is marked assigned and the drone reserved whatever the upload
  answered, and a start marks as running a mission whose upload was rejected.
  The drone store reads, changes and writes (drone_store.py:77), which is safe
  only because Kafka gives it one thread.
- Airspace: a mission registered again, for another drone or route, stays
  authorised; the zones are not looked at again before the takeoff; a flight
  that the drone port refused stays active, so that the next START is denied.
  `request_telemetry` asks the drone for an action nobody handles.
- Market: the price a customer accepts is not compared with the one offered.
  No component of the repository publishes `order_result`. A create_order on
  `systems.agregator` is to move an order from pending to searching
  (systems/operator/src/gateway/topics.py:23); the code does it from any status, so that such a
  message undoes a match, a confirmation or a completion. The Java insurer
  cannot terminate the policy of an order that has two, and for want of a
  `break` its mission policies last a year. The other insurer never updates
  `flights_per_year`.
- SystemBus: over MQTT a component that requests its own topic is answered by
  its own request, since any message with a pending correlation id counts as
  the reply (mqtt_system_bus.py:88).
- Tracking: nobody in the repository sends the limiter its mission or its
  navigation state by message; a drone without a record is at 0, 0, 0 for
  the limiter and raises an alarm. So is a drone within its limits when the query
  of Redis fails: the error's payload is `{}` (base_async_component.py:93-100),
  navigation stores it as a position (navigation.py:155-163) and the limiter does
  not look at `gps_valid`. A second mission keeps the EMERGENCY of the first until
  the next recalculation, and for good when its last step cannot be compared.
  `AlarmHasCause` counts both as causes, which is all the code gives.
- Journal: a failed post loses its batch; after an answer 502 a part of the
  payload is stored; a download whose scroll fails is cut, with status 200.
  The flush thread is a daemon: what it has taken under the lock and not yet
  posted (analytics_journal.py:119-124) is lost when the process exits, although
  `stop` flushes the buffer; `EventsForwarded` takes out exactly that (`Left`).
  Without ANALYTICS_URL (:127), which the compose files leave empty by default,
  what is taken is thrown away. Pages are cut by offset from a sort with no
  tiebreaker (logs.py:134-137), so items of one millisecond at the end of a page
  may be shown twice and others not at all: the exception in
  `ReadersSkipOnlyTies`.
- Regulator: a crash while a file is written leaves JSON that no later start
  can read. When `_save` raises (certificate_manager.py:34-44, :114) the
  revocation stays in memory and the handler only logs; a repeated request finds
  it in the list and is answered `revoked: true` without another write, and a
  restart makes the certificate valid again. `RevokedStaysRevoked` leaves that
  one answer out and no other. The answer to a revocation says `revoked: true` for an unknown id
  too. A drone's request may name any certificate as that of its firmware.

## 5. Proofs

Every theorem is about the specification without fairness and holds for all
values of the constants that satisfy the module's assumption; TLC evaluates
these assumptions in every run.

`Ledger_proofs`, about `OrderContract`: `TypeCorrect`, `StartsOnlyApproved`
(`FlightUnderApproval`), `PermissionsLinked`, `MissionsCovered`
(`MissionHasGeneralPolicy`) and `ClearanceRefinement` (`ImplementsClearance`).
`FlightUnderApproval` is not inductive alone. An order that is started has a
permission, but to show that a new permission record cannot replace an approved
one under a started order the proof needs that an order without the identifier
has no record and conversely, which is `PermissionLinked`; and every step needs
`TypeOK` to know that a key holds a record or `None`. The inductive invariant
`IInv` is their conjunction, with `MissionHasGeneralPolicy`, which rests on the
fact that no transaction removes an insurance record. The two dozen
transactions share four shapes, so the proof first states, once for each group,
the effect of a step, and then that each effect preserves each conjunct.

The same module about `FabricLedger`: `CommitsSerializable` (`Serializable`: the ledger
implements `OrderContract`), `StartsUnderOpenApproval`
(`StartUnderOpenApproval`), and what follows for the ledger from the theorems
about the chaincode, `LedgerFliesUnderApproval` and
`LedgerImplementsClearance`. A transaction in flight carries values computed
from a state that is gone. The invariant says that as long as it is valid it is
what a simulation against the present state would give (`Simulated`), because a
commit that wrote a key it read has raised the key's version for good; then its
commit is a step of the chaincode. The proof has one lemma per kind of
transaction, and none depends on how many are in flight.

`Bus_proofs`, about `Spec` of `KafkaBus`: `BusTypeCorrect`,
`PendingExact`, `RerunsCounted`, `RequestReplyRefinement`. The pending table is
exact by itself (`Pend`). The count of runs is not inductive: that a record is
handled at most once between two stops needs where the consumer stands. So the
invariant says that the batch is the window of the topic that ends at the
position (`Window`), that a request is in the topic at most once (`Once`), that
what lies to the right of the handled records has run at most once per stop,
and that a stopped process has nothing under way (`Fresh`). An answer comes
from a handler that ran (`Ran`): this and `Once` are what the refinement needs.

The same module about `BusSpec` of `SystemBus`, which the run `system_bus` checks:
`BusTypeCorrectOverBoth`, `PendingExactOverBoth`, `RerunsCountedOverBoth`
(`RerunOnlyAfterStop`) and `BothBusesImplementRequestReply`. Over MQTT nothing
like `Window` holds. What holds over both brokers, and is enough for the
refinement: every message in the topic, the pool or the batch is about a call
that was made (`Asked`), and every reply about a handler that ran
(`Answerable`). The reruns over MQTT are counted: what ran for a request and the
copies of its message that wait in the pool or are still to come are together
no more than one and the stops and lost connections, since only a lost
connection makes a copy (`Copies`). Over Kafka the steps are those of
`KafkaBus`, and its invariant carries over.

`Autopilot_proofs`: `AutopilotTypeCorrect`, `FlightsAreCleared`
(`FlightCleared`), `SprayerClosed` (`SprayOffWhileLanding`). The sprayer needs
one more fact: the control thread works on no step of the mission once it
lands. The clearance needs what each thread has read and not yet acted on
(`Clearance`): a preflight that waits is of the mission that is loaded; a step
that was decided before a load or a reset finds a state from which only a new
preflight leads to a flight (`Grounded`); and what a KOVER leaves behind shows
that one was sent (`KoverSeen`). It holds for any missions, loaded in any order
and number.

`Drone_proofs`, about `EmergencyLanding` over Kafka: `EmergencyTypeCorrect`,
`EmergencyProtocolWins` (`EmergencyWins`), `MotorsKeepLanding`
(`LandingIsFinal`). The invariant follows the two commands of emergensy through
four queues. In the monitor's topic each comes after an isolation (`After`,
because emergensy publishes it first and the topic keeps the order); what the
monitor holds under the emergency policies is one of the two
(`ForwardingOK`); in the motors' topic only landings follow a landing
(`LandsLast`); and each command is on its way or has arrived for good
(`PendingOK`: the sprayer's topic ends with closing it, `Closing`). The lemmas
about queues taken from the front and extended at the end are stated once.

The same module about `Tracking`: `TrackingTypeCorrect`, `RecordsAreOfOneFlight`
(`OneFlight`), `AlarmsHaveCauses` (`AlarmHasCause`), `TrailRefinement`
(`ImplementsTrail`). A record is `Sound` wherever a copy of it is, in Redis, in
a coroutine or in the core's loop (`SoundCopies`), which is what makes
`OneFlight` survive a lost update. What a follower holds, and the answer on its
way to it, is no newer than what its source holds (`Fresh`) and was once an
answer of the simulator's, a place or none, so that `beyond` has the targets it
is out of limits of (`Seen`).

`DronePort_proofs`: `TypeCorrect`, `StandingReserved` (`StandingIsReserved`),
`PortsNotShared` (`NoSharedPort`), `QuietAgree` (`QuietPortsAgree`), `TakeoffCharged`
(`TakeoffChargedUnlessHaunted`). They hold in the `Setting`: the broker is
Kafka, and no drone gives up a takeoff it has asked for. Both are necessary, and
TLC shows it: over MQTT the run `drone_port_mqtt` finds the shared port, and over
Kafka a drone that repeats a takeoff frees a port another drone was given
(section 4). What PortManager reads is still the table when it reserves
(`Reads`), because it is the only writer and takes nothing else while it waits
(`Queries`); a standing drone, a promised port and a release on its way each own
their port, and no two the same (`Slots`, which counts what the messages on their
way to StateStore will write). That a drone that leaves frees its own port needs
that the registry knows where it stands by the time the takeoff reads it
(`Records`), that DroneManager handles the requests in their order, one at a time
(`Order`), and that a drone waits for its last request (`Askers`). `Charging` and
`Batteries` say of the charge what `Records` says of the place: the registry says
no more than the drone has, unless the charging thread of another landing has
reported for it since it landed (`haunted`). `NoLeak` is what the quiet state needs: if nobody is impatient, a
reserved port has its drone, a request for it or a release on its way.

`Services_proofs`, about `Journal`: `JournalTypeCorrect`, `PostedAtMostOnce`
(`AtMostOnce`), and, about the backend under the clients, `ReportExact`
(`ReportIsExact`), `ReadersMissOnlyTies` (`ReadersSkipOnlyTies`). An event is in
one place, buffer, queue, batch or request, and only once there (`Ships`), or in
the hands of one thread (`InHand`); an item comes in one request and is stored by no other (`Apart`), so what a request
has noted is what was stored of it, and the positions it reports are right
whatever part failed (`Exact`); and what a reader has not seen has a torn
timestamp or at least as many newer items before it as the pages it has turned
hold (`Reads`, `Newer`: an item that comes in can only add to them). That a full
page shows every item but those with enough newer ones and those that tie with
its last needs that a sort gives each item its own place (`OrderIsBijection`,
`FullPage`). Assumed is that the other service's items are not the client's
events, and nothing of the timestamps.

The same module about `Regulator`: `RegulatorTypeCorrect`, `RevokedForGood`
(`RevokedStaysRevoked`), `NoDroneOnRevokedFirmware` (`DronesOnGoodFirmware`),
`IssuedForGood` (`IssuedAreStored`), `AloneIsAnswered` (`AloneGetsOwn`). What
the service promised must hold of its memory and of every file that can be
read (`GoodStore`, `GoodList`), since a crash takes the memory and the next
start reads the files. That the result is published after `_save` is what
keeps this inductive, and the one answer that is given without it is about a
revocation that is `unsaved`. Requests name certificates that were issued or
none (`InboxOK`), and while an API call is alone what waits of its kind, with the
regulator or at the broker, is its own (`CallsOK`).

`Market_proofs`: `MarketTypeCorrect`, `DealRefinement` (`ImplementsDeal`). A row
is written by the handler that creates the order, the answers on both transports
and the customer's calls, and all but two of these look at the row's status
first. The two are the UPDATEs to "searching": the one after the publication,
and the one for a repeated create_order, which `Deal` allows as a recall. Apart
from recalls the order moves forward only because nothing else can have touched
the row by the time of the first: an offer is accepted for an order that is
searched for, so that it comes too early and is lost, and the order stays
"pending" while its creation has still to publish or to write (`Publishing`). That an order is matched with an operator
that bid for it is carried by the messages: what is asked of the operators, what
they work on and what they have sent is about an order that exists, and an offer
on its way was made (`Bidding`). Assumed is that `None` is no operator, order,
row or job.

`FlightPrep_proofs`: `FlightsOnRecord` (`FlightOnRecord`). The flight and the
record of its takeoff are three calls apart: the control thread waits for the
monitor, the monitor for the authority, and each has its own timeout, so an
answer may come when its request has long been given up. The invariant says that
a component that waits has one call under way, and none once it was answered or
has given up (`One`); that the monitor's call is about the message it handles,
and the control thread's about the takeoff it checks (`Links`); and that
wherever an approval of a takeoff stands, the takeoff is on record (`Approved`).
So no late answer is taken for that of a later request, for any number of
components, missions and tasks. Assumed is that the fourteen components are
among `Components` and that `None` is none of the messages.

Each inductive invariant was checked by TLC, conjunct by conjunct, on the
instances of the runs before it was proved.

Only model-checked: every liveness property (liveness under fairness and
ENABLED are beyond the prover), and `StartsLastUploaded`, which rests on which
of several timeouts ends first. No module declares a recursive operator, so that
theorems can be added to any of them.

## 6. Not modelled

- Queries of the chaincode (they write nothing), amounts and their
  distribution (sums over texts with no guard), the HTTP and bus plumbing of
  the proxies, access to Fabric's certificates.
- The drone port's `delete_drone` (nothing sends it), restarts, and the query
  through its orchestrator.
- The limiter's degrees and metres, the autopilot's geometry, the polls of
  motors and sprayer, journal messages of the drone (`_emit_journal` is fire
  and forget), the parser's checks of a WPL, the sending of HOME by the
  mission handler, which nothing calls.
- The drone's gateway, which passes messages on, and its journal, which appends
  lines under a lock.
- In the buses: `unsubscribe`, `request_async`, and a process with several
  topics.
- Of the operator, the requests it passes on; of the aggregator, registration,
  prices and the request gateway; of the insurers, premiums and terms; of the
  authority, telemetry and the history but for takeoffs.
- Signatures and expiry of certificates. `systems/regulator` and the second
  component of team 1 put a record in a dictionary and look it up.
- Of the simulator, headings and a second drone, which shares no record with
  the first. Of the log service, users, keys, audit items, the columns of a
  download and the set-up of the indices.
- sdk/wpl_generator*.py and the planning of routes: pure geometry. (For an odd
  number of columns the last one of wpl_generator_2.py ends at its top.)
- Dummy systems, scripts, deployment: examples and tooling.

## 7. Plan

Done: the chaincode, its ledger, the drone port, the emergency protocol, the
autopilot, both buses, the market, the preparation of a flight, the simulator
and its followers, the log service with its clients, the regulator; proofs for
all of these.

Left, by weight:

1. A proof of `StartsLastUploaded`, from the order in which the requests of a
   circle run out.
2. Restarts of the drone port (its stores are in Redis, its threads are not).
3. Several drones of one GCS, and the GCS over MQTT, where the drone store's
   read-modify-write is no longer atomic.
4. The market composed with the ledger's order: the two state machines are kept
   in step by people and by the operator alone.

The list of runs is kept short on purpose: a new run replaces a weaker one
rather than being added to it.
