# TLA+ models of QUICshot

QUICshot is a test rig for HTTP/3 behind a tunnel. An *edge* terminates HTTP/3
and forwards every request over a QUIC tunnel that a *connector* dialled; the
connector hands it to an *origin* that can misbehave on purpose; *blast*
generates load and judges the result; a *ui* starts runs and shows what the
containers log. This directory models the parts of it in which goroutines,
processes, deadlines and connections meet.

Paths and line numbers below are those of the Go source (`internal/...`).

## Inventory

| Component | State | Operations | Talks to | What makes it correct |
|---|---|---|---|---|
| edge: registry (`edge.go` 55-75, 202-370) | the slice `connectors`, `nextConnectorID`, the round-robin counter; two goroutines per connection | accept, register, ping, unregister, read error, `watchLost`, pick | connector (control stream), QUIC (connection context) | references and goroutines agree, a removed reference stays removed, a registration can end, load balancing is even |
| edge: request path (`edge.go` 423-545) | one handler per request, its context and its stream deadline | pick, open, write, read, copy, classify | client, connector, net/http | each status means what it says, nothing but its own client holds a request for good |
| edge: process (`edge.go` 77-215, 374-429) | the loaded key pair, the tunnel listener, two public servers, `publicBound`, `tunnelBound` | load, bind, serve, fail, `StartLocal` | certificate directory, host | serves both protocols or ends |
| UDP counters (`udpsock.go`, `edge.go` 554-585, `ui.go` 594-652, `blast.go` 653-677) | the previous reading of each reader | read, subtract, report | kernel, containers | a delta is what was counted |
| connector: reconnect loop (`connector.go` 96-235) | one loop per HA connection, its backoff, connection, ping loop and unregister goroutine | dial, register, serve, drain, close, back off | edge | recovers after every fault, leaks nothing, leaves when told to |
| connector: streams (`connector.go` 237-323) | one `serveStream` per stream | read the request, call the origin, write the response, reset | edge, origin | an origin failure is never an answer, the stream always ends, the origin is released |
| origin (`origin.go`, `handlers.go`) | the goroutines of its handlers | answer, hang, reset, break off, panic | connector | every ending is an input of the request path; a handler whose client left ends |
| blast: load (`blast.go`, `load.go`) | recorder, tasks, pacer, connections | warm up, closed and open loop, request, record, verdict | edge, QUIC | figures add up, the gate counts real failures only, a limited run ends |
| blast: histogram (`hist.go`) | bounded samples | add, sort, percentile | recorder | newest samples are kept, percentiles split the samples |
| blast: 0-RTT probe (`zerortt.go`) | none | two dials before the run | edge | never keeps the run from starting or ending |
| probe (`probe.go`) | the outcome of four steps | dial, request, HTTP/3, control, verdict | edge, network | the verdict names the side that failed |
| ui: commands (`ui.go` 815-1207) | none; the request | check, build a command line, start it | blast, probe, scripts, docker compose | what the panel accepts, the tool accepts |
| certificates (`certs.go`) | three files in a shared volume | reuse, mint, write, load | edge, connector, blast | the files fit together |
| quicerr | none | classification | - | the kinds `ServeHTTP` acts on |
| ui: runs and pages (`ui.go` 757-787, `hub.go`) | the run slot, the subscribers and their channels | start, stop, release, status, subscribe, publish, leave | commands, browsers | one command at a time, a stopped run frees the slot once nothing holds its output, no send on a closed channel |
| ui: log lines (`ui.go` 115-545, 654-672, 789-813) | flow state, one bucket per source | observe, allow, publish the interval, reset, poll | logs of edge and blast | every outcome the panel knows is counted once, hidden lines are kept for the next note, the tunnel is shown as it is |
| QUIC settings, qlog, command line | configuration | set-up | - | not modelled |

What is hard to test here, and is listed line by line under `hazards` in
`PROJECT.json`: the two goroutines of a connection that change one slice under
two different keys; messages read after a connection closed; two clocks (edge
staleness, connector pings) with different flags; two deadlines and an idle
timeout racing an origin's answer and reset; crashes of either process; a
shutdown racing its own unregister and ping; stream credit at its limit;
counters reset between warm-up and run while watchers count; workers that check
a limit before they act; rings and percentiles at their boundaries; three files
written one by one that are taken for complete when one of them exists; two
servers of one process of which one may fail; checks that the panel and the
tools make separately.

## Modules

**`EdgeRegistry`** is the slice of connector references and what changes it.
`connectors` is `Edge.connectors`; `ctl[c]` and `wl[c]` are the `serveControl`
and `watchLost` goroutines of connection `c`, `cid[c]` the id both captured.
One action is one critical section of `Edge.mu` (`AddConnector`, `OnRegister`,
`OnPing`, `OnUnregister`, `ControlReadError`, `WatchLost`, `PickConnector`). The
environment is the most general one: any message at any time, a connection may
close at any point, buffered messages may be read after it did. `lastPing` is
kept as an age that saturates at the stale limit, past which the code makes no
distinction. `window` and `pinned` are history variables for the two
load-balancing properties.

**`Tunnel`** extends it with the connector: `LoopStep` is `reconnectLoop` and
`runOnce`, `PingerSends`/`PingerStops` the ping loop, `UnregisterSends` the
goroutine that waits for the process context. The edge's actions are those of
`EdgeRegistry`, enabled now by what the connection really carries. Both ends
learn on their own that a connection ended; `Cut`, `ConnectorCrash` and
`EdgeCrash` lose unread messages from the last one backwards; an edge that comes
back has an empty registry and its round-robin counter at zero.

**`ConnectorLifecycle`** is the abstract specification: absent, connected,
registered, unregistered, each at most once and in that order. `Tunnel`
implements it under the mapping `Phase` (property `FollowsLifecycle`).

**`RequestPath`** carries requests over one connection: `ServeHTTP` (`pc`,
`clk`, `ctxErr`), the stream (`req`, `resp`, `stop`), `serveStream` (`sp`,
`org`) and the drain of `runOnce` (`con`). Stream credit is what quic-go grants:
a slot comes back when both halves ended for the connector. A request asks for
one of the origin's endpoints (`ask`); `Handler` says for each whether it may
answer, finish, abort or cut its answer, whether it waits for the body, and what
ends its goroutine (`busy` holds the ones that wait). The client may send its
body, leave, or stay and do nothing: before the end of its upload, or in the copy
of the response once it stopped reading (`ClientStalls`, `pc` "stalled").
`ClientHolds` names the two places where only the client can end the wait.
Header contents, the ray id and log wording are left out.

**`TokenPacer`** is `tokenPacer.wait` with its mutex section, timer and
cancellation; **`LatencyHist`** the sample store and `percentile`, as operators;
**`Blast`** a whole run for a command line (`cfg`): `Main` with the check of its
flags, the set-up that may fail on a file (`SetUpFails`), the 0-RTT probe,
warm-up, verdict and the deferred `closeTransports`, both loops, `doRequest` with
requests that cannot be built (`cfg.bad`), the recorder's counters (maps as the
sums of their values) and the connection watchers. In `Blast` the pacer is only
"granted or denied"; a sample is its number in the run.

**`ControlPanel`** is the server of the panel. `slot` is `Server.cancel`,
`handler[r]` and `goroutine[r]` the two halves of `start` for run `r`; `Claim`,
`Announce`, `Release` and `AnnounceIdle` are what they do between two locks.
`kids` are the runs whose command has children that share its output (`Forks`,
`KidsEnd`): `runStreaming` reads the pipe to its end before it waits, so such a
run is not released, stopped or not.
`subs`, `chan`, `closed` are the hub; `Subscribe`, `ReadSlot`, `PublishSnap`,
`Deliver`, `Unsub`, `CloseChan` are `handleEvents`. A status message is the run
it announces; log, flow and udp messages are alike.

**`FlowState`** is what the panel derives from log lines: `Observe` with one
operator per kind of line, `allow`'s buckets, `publishFlow`'s interval, the
reset and the poll. A line is its message and the number a regular expression
finds in it, which is how the edge's `connector registered` (no `connectors`
field) differs from `connector lost`. The lines with which `ServeHTTP` ends a
request are `KnownOutcomes`, which `observeEdgeLine` has a case for, and
`UnknownOutcomes`, which it ignores. The maps are sums of their values;
latency samples, health and the impairment label are left out. `seen`,
`hidden` and `lastEdge` are history variables.

**`CertVolume`** is the directory of key material: `gen[w]` is a run of
`gencerts` (`Main`, `Generate`), by the `certs` service or by an operator with
`-force`, whose `os.WriteFile`s are two steps each (`Truncate`, `WriteFile`) and
which `CutOff` may end anywhere. A file is the generation that wrote it. `clean`
and `spoiled` are history: was a writer alone since its first write, and has
every damage been overwritten by one that was.

**`EdgeProcess`** is the edge from `Main` or `StartLocal` to its end: the two
files of the key pair, the tunnel listener, the UDP socket, the two goroutines of
`servePublic` and its `select`. Whether a bind succeeds is up to the host.
**`Probe`** runs `probe` against it, step by step. **`UdpMeters`** is one kernel
counter and its readers, the edge's log and the panel (blast's progress line
reads its own container's counters the way the edge's log does, so the log stands
for it); `since` and `odd` are history, what was really
counted and whether something came between two readings. **`PanelRequests`** has
the panel's checks and command lines, and the checks of the commands they start,
as operators. **`Lab`** composes the five: a request to the panel becomes a
command; `docker compose` runs the certs service to its end before it starts the
edge and the connector, and `up` may or may not recreate the ones that run (the
image was rebuilt, a setting changed); an operator forces new certificates; a restarted edge is
a new process with new counters. What the processes do once they serve is in the
modules above.

**`EdgeRegistryProofs`**, **`TunnelProofs`**, **`RequestPathProofs`**,
**`TokenPacerProofs`**, **`BlastProofs`**, **`ControlPanelProofs`**,
**`FlowStateProofs`** and **`LabProofs`** hold the theorems,
**`MCEdgeRegistry`**, **`MCTunnel`**, **`MCRequestPath`**, **`MCBlast`**,
**`MCControlPanel`**, **`MCLab`** the values TLC needs.

## Runs

| Run | Question | Bounds |
|---|---|---|
| `registry` | slice, goroutines and round robin under any interleaving | 3 connections, 3 ids, keepalive 1 tick, counter modulo 3: all three connectors live, removal from every position, a wrap in the middle of a turn. Connections are symmetric. |
| `registry_hash` (violation) | does hash balancing pin a path? | 2 connections |
| `tunnel_recovery` | staleness, recovery, leaks, shutdown, refinement | 1 loop (HA loops share nothing but the process context), 2 connection names, 1 fault, pings every 2 ticks against a limit of 3, register delay; ids suffice for one more redial than faults, so the bound never blocks |
| `request_pair` | what a 524 and a 1033 mean, whether streams end | 2 requests, one with a body, one stream of credit, so that the second waits in `OpenStreamSync`; an endpoint that may answer or drop the connection, and a connector less patient than the edge; the client of the second may stop reading (`MayStall`) |
| `request_endpoints` | what a 1014 and a proxied response mean, every request ends, the origin is released | 1 request for each of the nine kinds of endpoint, with and without a body, whose client may stop reading |
| `request_gone` (violation) | is a client that left ever logged as an edge failure? | 1 request, all endpoints |
| `pacer_slots` | spacing and backlog | 3 workers, interval 2, 5 ticks: reservations two intervals ahead, late wake-ups and idle credit all occur |
| `blast_run` | do the figures add up, is the gate fair, does the run end? | seven command lines: a closed loop of 2 workers and 3 requests, one of whose two targets cannot be requested; the same with neither, which spins; one without any limit; open loops on 1 and 2 connections with warm-up, 0-RTT probe and both gates; two that `validate` refuses. 1 lost connection, a store of 2 samples, so that it is full and overwritten; the bound of 10 starts is reached only by the closed loops that do not end by themselves |
| `panel_slot` | do runs exclude each other, do pages come and go safely? | 2 pages, 2 runs whose commands may have children, channels of 1 message, so that they overflow |
| `panel_flow` | which lines do the diagram's figures count, and do hidden lines reach the next note? | 4 lines of 3 sources, a budget of 1 line per second, 1 reset: a window overflows and is reported, and a connection closes after the reset |
| `lab_stack` | do the certificates fit, does the edge serve all or nothing, does the verdict on a steady edge follow the probe's switch, are the UDP figures true, are the panel's commands accepted? | 4 operations from one of five scenes (certificates and cut-offs; restarts and counters; probes of an edge that fails; the edge of the tests; single commands), 2 generations, counters modulo 8. The scenes separate what does not interact: the certificates do not depend on the counters, nor the probe on either. Requests differ from a good one in one field |
| `panel_registered` (violation) | does a connector that registers show the tunnel up? | 3 lines |

Every property has a mutant in `PROJECT.json`: a plausible slip in the mapped
definition, which the run then reports.

### Fairness

- `EdgeRegistry`: `watchLost` and a failing `AcceptStream` run once they can. No
  message, connection or tick is promised.
- `Tunnel`: goroutines run, packets on a path that is not cut arrive, both ends
  have a QUIC idle timeout, and a dial that meets no fault succeeds. Faults are
  bounded: `Recovers` says what holds once they are over.
- `RequestPath`: goroutines run, and the context and the stream deadline pass
  (both are always set). A client owes nothing: neither deadline applies to the
  read of its body or to the write of the response to it, so a failing write to
  the tunnel and the end of the body copy are fair only while no client holds
  the handler (`ClientHolds`), and `EveryRequestEnds` excepts a request that its
  own client holds for ever. Without that exception TLC refutes it. Nothing is
  assumed of the origin, except that a handler whose context ended returns.
- `Blast`: goroutines run and a request ends, because its context has
  `spec.timeout` from the start. Nothing is assumed of the server or of signals.
- `Lab`: the goroutines of the edge run. Nothing is assumed of the panel, the
  operator, docker or the host.
- `ControlPanel`: handlers and goroutines run, and `exec.CommandContext` kills a
  command whose context is cancelled. It kills that process alone and sets no
  `WaitDelay`: its children may hold the pipe, and with it the slot, for ever,
  which `StopFreesTheSlot` excepts (TLC refutes it without). A run that is not
  stopped may last.

### Disagreements found

Three runs are expected to fail, each quoted under `findings`: hash balancing
moves a path whenever the number of live connectors changes; a client that
leaves during its upload is logged as an edge failure with a 1033; and the
`connector registered` line, which has no `connectors` field, makes the panel
show the tunnel down until traffic or the next poll.

Read off the models and not given a run of their own:

- just above its limit the sample store keeps the first sample instead of the
  last `cap` ones, since `add` increments `seen` before it reduces it
  (`hist.go:29`; `blast.go:787` prints "the last"); from twice the limit on it is
  exact (`NewestKept`);
- three of the outcomes with which the edge logs the end of a request, `open
  tunnel stream` (`edge.go:461`), `write tunnel request` (`edge.go:474`) and `body
  copy interrupted` (`edge.go:511`), have no case in `observeEdgeLine`, so those
  requests are in none of the diagram's figures, although flowState is derived
  from log lines "so the diagram stays accurate" (`ui.go:115`);
  `KnownOutcomesCounted` says exactly which are missing;
- hidden lines of a source that falls silent are never reported: the note waits
  for the next line of that source (`ui.go:518`);
- a closed loop with `-requests` and no `-duration`, none of whose requests can be
  built, as with an invalid `-method`, which `validate` does not look at, spins
  until a signal instead of stopping "after this many requests" (`blast.go:207`,
  `load.go:29`); `RunEnds` excepts it by name (`Unbuildable`);
- a client that stays and stops reading, or stops sending its body, holds its
  `ServeHTTP` without bound: the public servers set no read or write deadline and
  the stream's is for the tunnel only (`edge.go:504`);
- after a stop the panel stays busy while children of the killed command hold its
  output pipe (`ui.go:565`);
- where the round-robin counter wraps at 2^64, a turn may repeat a connector;
  `RoundRobinEven` counts turns from the wrap on;
- `Registered()` leaves out stale connectors, which its comment does not say;
- a deadline that passes while the edge waits for stream credit or writes is a
  1033 and not a 524;
- a response without a declared length that breaks off reaches the client as a
  complete one;
- a closed loop may record up to `conns * workers - 1` requests more than
  `-requests` (`OvershootBounded` is the bound that holds);
- pages of the panel may show a finished run as running, because
  `handleEvents` publishes to all of them a status it read earlier;
- the panel's probe with "local CA", which the page offers, always ends with a
  usage error: `buildRunArgs` passes `-certs` and `-server-name`
  (`ui.go:1082`), which `probe` does not define; `AcceptedIsRunnable` names this
  and the other gaps between the panel's checks and the tools' (an open loop
  without a rate, a duration beyond int64, a netem value of the wrong unit, the
  origin, which has no `NET_ADMIN`); a third netem value passes the panel and
  `impair.sh` never looks at it;
- the impairment label is set before the script has run and stays when it fails
  or when the container is recreated (`ui.go:939`);
- one failed reading of `/proc/net/snmp` makes two deltas of the edge's log wrong,
  one of them close to 2^64, because the `ok` is dropped (`edge.go:570`, and in
  blast's progress line, `blast.go:670`); the
  panel's delta wraps likewise after `restart-edge` (`ui.go:649`);
- `StartLocal` returns an edge whose TCP server may have failed, or may yet
  fail, to bind the port that the UDP socket got, and reads the two addresses
  without a lock (`edge.go:151`);
- the verdict "while the control endpoint succeeded" is also printed when
  `-control ""` skipped the control (`probe.go:235`; `SteadyVerdict` is about
  the branch);
- `/stall` without a body does not stall: a server's `Body` is never nil, so the
  `Sleep` branch is dead (`handlers.go:158`); `/drip` and `/headers` with a
  negative size and `/status` with an invalid code panic, which reaches the
  client as a 1014;
- `/accept-hang` leaks its goroutine and connection for good, and so does `/hang`
  when its request has a body;
- the unregister goroutine of every finished `runOnce` stays until the process
  ends (`connector.go:206`);
- a connector that runs on keeps the CA it loaded: after `gencerts -force` and
  `restart-edge` it can no longer verify the edge.

## Proofs

Proved by TLAPS for every value of the constants, from the named assumptions on
them alone. Every invariant that a passing run checks is stated by a theorem, and
so are its action property and its refinement.

- `EdgeRegistryProofs`: `TypeCorrect`, `SliceConsistent` (`RefIffWatched`, and
  the slice is ordered by id), `RegistrationsCanEnd` (`RegisteredHasReader`,
  `RegisteredHasPing`), `RemovalIsFinal` (`NoResurrection`), `RoundRobinIsEven`.
  `RegisteredHasPing` is what keeps the `lastPing.IsZero()` escape of `live()`
  (`edge.go:320`) from applying to a registered connector.
  `RegisteredHasReader` is not inductive: `updateConnector` finds a reference by
  id and `watchLost` by connection, so one must know that the two keys denote
  the same reference. The inductive invariant adds `RefIffWatched`, the order
  by id, and `DistinctIds` (no two connections' goroutines captured one id). The
  sequence lemmas say what in-place update and removal by index do to it.
  `RoundRobinEven` needs two more facts. The list that a pick indexes names no
  connector twice (`LiveList`, an induction over the loop of `pickConnector`).
  And the picks of a window are the turns just before `rr` (`WindowInv`), so that
  fewer than n of them are different modulo n; at 0 the counter has wrapped and
  a window starts anew.
- `TunnelProofs`: `TunnelTypeCorrect`, `ReconnectsLeakNothing`
  (`NoLeakedConnection`), `DeadConnectorsGoStale` (`DeadIsNotPicked`),
  `HealthyConnectorsStayLive` (`HealthyStaysLive`, if pings are sent more often
  than the stale limit: `PingsInTime`, which a connector and an edge with the
  same keepalive satisfy) and `TunnelFollowsLifecycle`, that edge, control
  streams and connectors implement `ConnectorLifecycle`. The invariant `TInv` has
  the registry's own, the loops' (`LoopInv`) and four parts for each connection.
  `Settled`: nothing is under way on a connection that carries no pings.
  `Overdue`: a registration is at least as old as its silence. `Kept`: on a path
  that carries pings, the age of a registration and the time to the next ping are
  together at most a period. `Spoken`: `register` is the first message the edge
  reads of a connection and is written once. The slice enters only through two
  functions of a connection, `RegisteredAt` and `Age` (the `View` lemmas), and a
  step is followed on the connections it touches (`Untouched`).
- `RequestPathProofs`: `RequestTypeCorrect`, `TimeoutsAreTimeouts`
  (`TimeoutMeansTime`), `BadGatewaysAreBroken` (`BadGatewayMeansBroken`),
  `ProxiedResponsesAreWhole` (`ProxiedIsWhole`), `HandlersEndStreams`
  (`HandlerEndsStream`). The edge reports what it learns from its context and
  from the stream, so the invariant says what those can hold: `ctx.Err()` names
  the event that ended the context (`CtxTellsWhy`), the response half holds what
  the call to the origin did (`RespTellsWhy`), a `serveStream` that returned ended
  its half (`HalfEnded`), and the two ends agree on which streams exist
  (`Linked`).
- `TokenPacerProofs`: `PacerNeverBursts` (`SlotsSpaced`) and `BacklogIsBounded`
  (`BacklogBounded`). The first is strengthened by `SlotsBehindNext`: every
  granted slot is at least an interval behind `next`. The second by `Spread`: not
  only from now but from every later time t, `next` is at most an interval for
  each slot after t (`Ahead(t)`) away, and one; so it survives the tick that
  leaves a slot behind.
- `BlastProofs`: `BlastTypeCorrect`, `OffersAreAccounted` (`OfferedAccounted`),
  `OvershootIsBounded` (`OvershootBounded`), `SummariesBalance`
  (`SummaryBalances`), `GatesAreFair` (`GateIsFair`), `NewestAreKept`
  (`NewestKept`), `PercentilesSplit` (`PercentileSplits`). The figures of a run
  are compared with the goroutines on their way to change them (`InFlight`,
  `Counting`, `Filing`, `Answered`); a command line that is refused starts
  nothing and has an invariant of its own. `HistInv` says which sample is in which
  slot of the store, and that slots less than a round apart differ. The lemma
  behind the last theorem, `PercentileSplitsAny`, is about lists of any length; it
  rests on `OrderExists`, that every list can be put in order.
- `ControlPanelProofs`: `RunsExclude` (`OneRunAtATime`) and `HubIsSafe`
  (`NoSendOnClosed`). The first needs `StartedByHandler`: the goroutine that
  frees the slot is not that of a run whose handler has yet to announce it, and
  that children are of a command that runs. The
  second needs `ChannelOpen`, which ties the hub and the closed channels to the
  step each page's handler is at.
- `FlowStateProofs`: `DiagramAddsUp` (`KnownOutcomesCounted`), `OverflowReported`
  (`SuppressedAreReported`) and `FlowTypeCorrect`. The lemmas say what one
  observed line does to the counters (`ObserveCounts`) and what one call of
  `allow` does to hidden and reported lines (`AllowReports`); the invariant is
  the conjunction of the three, since a count that was not a natural could not
  be compared and the hidden lines are naturals only because they are reported.
- `LabProofs`, on the certificates: `DamageNeedsAFault` (`WedgedByFault`) and
  `CertTypeCorrect`. That an undisturbed writer leaves files that fit is not
  inductive; `CInv` adds what such a writer has written so far (`CleanPrefix`:
  the files before the one it is at are of its generation), that writers carry a
  minted generation, and that the directory is settled, spoiled or being
  written whenever it is not untouched. On the counters: `DeltasAreHonest`
  (`DeltasHonest`), for counters of any width (`Modulus`; 2^64 in the code);
  `MInv` adds that a reader nothing came in the way of has the counter at its
  previous reading plus what was counted since. On the lab: every step of it is a
  step of the certificate directory or leaves it alone, and the same for the
  counters, so the lab implements both specifications and inherits their
  theorems (`LabUsesCertVolume`, `LabDamageNeedsAFault`, `LabReportsHonestly`).
  `PanelChecksSuffice` (`AcceptedIsRunnable`) compares the checks of panel and
  tools for every request, `PanelInv` ties the running command to a request that
  was accepted. `SteadyProbesAreRight` (`SteadyVerdict`) needs what a probe knows
  at each step of an edge that served all along (`Learnt`).

The library's induction theorems take an operator and cannot be instantiated by
the installed provers; the two inductions over data (the live list, sorting) go
instead by a least counterexample, from `WFMin` and `NatLessThanWellFounded`.
To reason about them, the live list is the recursive function that mirrors the
loop instead of `SelectSeq`, and `Sorted` states what `sort.Slice` promises
instead of using `SortSeq`, neither of which the prover can expand.

The proofs also corrected the models: the type invariant of `Blast` claimed a
task's type for command lines that start none, the requests of the panel were
enumerated without the bounds their decoders give them (`RequestAssumption`), the
pacer needs finitely many workers (`PacerAssumption`), and the control stream of
`Tunnel` had no type.

Model-checked only, because liveness under fairness is out of the prover's reach:
`Recovers`, `StopLeaves`, `ClosedIsRemoved`, `EveryRequestEnds`,
`OriginReleased`, `RunEnds`, `StopFreesTheSlot`, `AllOrNothing`. The three runs
that are expected to fail are refutations and have no theorem.

## Plan

1. Done: registry, tunnel and life cycle, request path, pacer, blast, control
   panel, first theorems.
2. Done: the origin's handlers, blast's flags and 0-RTT probe, certificates,
   start-up of the edge, UDP counters, probe, the panel's commands, and the lab
   that composes them.
3. Done: a theorem for every invariant that a run checks, and the refinement of
   `ConnectorLifecycle`.
4. Next: the safety half of the liveness properties (`RunEnds` has one: a run
   without a limit ends only by a signal or for its flags); that the edge of
   `Tunnel` implements `EdgeRegistry`, so that the registry's theorems, round
   robin included, carry over to it by refinement.
5. The panel's latency samples, health and impairment label in `FlowState`;
   `FlowState` fed by the edge's actions, so that the lines come in the orders
   the edge can write them.

## Not modelled

QUIC settings, tracing and the command line are configuration or pure I/O; the
idle timeouts they set are assumptions of the models. `quicerr` beyond the kinds
`ServeHTTP` acts on produces labels that are only logged. The panel's latency
samples, its health poll and its impairment label are shown and not acted on. The
printed tables, the log lines and the page's script are formatting. Within
modelled parts: header contents, byte counts and the reason strings.
