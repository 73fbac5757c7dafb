# TLA+ models of portshare-desktop

portshare makes the ports of one Windows computer reachable from trusted devices
of the same Tailscale network. This directory models the parts of the program
that are hard to test: what several goroutines, two computers, the firewall, the
routing table and the disk do in an order nobody wrote down.

Paths are relative to the repository; `manager.go` without a directory is
`internal/direct/manager/manager.go`.

## 1. The system

| part | state it keeps | operations | who calls it |
|---|---|---|---|
| trusted devices (`manager.go`, `internal/direct/store`, `internal/firewall`) | `peers.json`, one inbound TCP and UDP rule per device and address, `peerMu` | `PairPeer`, `TrustAuthenticatedPeer`, `RemoveTrustedPeer` | the window, the tray, every authenticated connection |
| pairing handshake (`internal/direct/client.go`, `server.go`, `protocol`) | a TCP connection, nonces, the secrets of both ends | hello, hello_response, auth_proof, auth_ok / auth_error, deadlines, `Close` | `PairPeer`; the server's accept loop |
| control server (`manager.go`, `server.go`) | `controlServer`, `controlListener`, `pairClient`, `secretLabel`; the server's `active` connections | `StartControlServer`, `StopControlServer`, `Serve`, `Close` | the window, the tray; a goroutine per connection |
| bridge lifecycle (`manager.go`, `internal/localhostbridge/controller.go`, `planner.go`) | `bridgeEnabled`, `bridgeCancel`, the poller, the active bridges, the conflicts | start, stop, enable, pause, refresh, close | the window, the tray, pairing and removal, a five-second poller |
| bridges and scanner (`bridge.go`, `scanner_windows.go`) | a listener, its open connections | start, close, accept, copy; scan Windows and WSL | the controller |
| network bypass (`internal/netdiag`, `manager.go`) | host routes in the routing table, `activeBypass` | diagnose, apply and verify, clear | the window, the link guardian |
| link guardian (`internal/linkguardian`, `manager.go`) | none of its own | `Evaluate`, `OptimizeLink` | the window |
| clash control (`internal/clash`) | the node of a proxy group (in the proxy), the client found, the previous node | discover, refresh, apply, restore | the window |
| peer latency refresh (`internal/ui/main_window.go:391-462`) | `peerLatencyRefreshControl`, one goroutine | start, stop, tick | launching, showing and closing the window |
| window and tray (`internal/ui`) | `DirectController.state`: peers, path, bypass, latencies | one action at a time in the window; the tray's menu beside it; a goroutine for latencies | the user |
| legacy port sharing (`internal/manager`, `internal/provider`, `internal/ui/controller.go`) | shares, expiry timers | share, stop, stop all, expire | nobody: `cmd/portshare/main.go` passes no `Manager` |
| audit log, settings, discovery, domain, texts, process wrappers | small files, none | append, clean up, load, save | the parts above |

How they interact: the window and the tray call `DirectController`, which calls
the manager. The manager calls `netsh`, PowerShell, `tailscale` and the proxy
through adapters, keeps `peerMu` over the whole of a pairing or removal
(including the bridge refresh at its end), `controlMu` over single assignments
only, and `authMu` over the pair of client and label. A server's connection
calls back into the manager (`OnAuthenticated`) on its own goroutine, with a
background context, whatever happens to the server meanwhile.

What is hard, and what makes each part correct:

- *Trusted devices*: three actors load, modify and save one file around several
  firewall commands that may fail half-way, and the process may die anywhere.
  Correct: no update is lost; a device is stored only when the firewall admits
  it; a removed device is not written back; the rules agree with the registry
  (two devices whose rules have the same name undo it: see 5).
- *Handshake*: both sides act on what they believe of the other, deadlines race
  answers, and servers are restarted with another secret under open connections.
  Correct: whoever believes in a pairing has a peer with the same secret that
  took part in it; nobody waits for ever.
- *Bridge lifecycle*: start, stop, pause and the refreshes of four kinds of
  goroutines overlap; a refresh reads the switch, the peers and the ports at
  different moments, and the switch, the cancel function and the server are
  taken under a lock but acted on after it. Correct: no poller is leaked; what
  is paused or stopped stays closed; stale lists are corrected; ports get their
  bridge.
- *Connections of a bridge*: Close takes the sockets it finds and closes them
  after it has let go of `b.mu`, while others are being accepted, dialled or
  dropped. Correct: a closed bridge carries nothing and no goroutine is left.
- *Network bypass*: each action is a sequence of commands with one deadline, and
  the path changes between them; the tray refreshes the window's copy of the
  record beside them. Correct: the record names the route that stands and the
  window shows the record (but for a tray that was overtaken: see 5).
- *Connections of the control server*: the manager may stop the server before
  `Serve` has the listener, between `Accept` and `addActive`, and in the middle
  of a handshake. Correct: a closed server hears nobody, authenticates nobody,
  and every goroutine ends.
- *Clash control*: a switch of the proxy has to be verified, taken back and
  remembered, over requests that may be lost before or after they took effect,
  while others use the same proxy. Correct: a failed apply leaves its group as
  it was, restoring goes back to what the last apply replaced, and no other
  group changes.
- *Window*: the window, the tray and the latency goroutine copy and draw one
  state with no lock. Correct: no goroutine runs that nobody can stop, a stale
  drawing does not last, and drawing never acts for the user (it does: see 5).

## 2. The modules

| module | models | depends on |
|---|---|---|
| `TrustRegistry` | what trusting and revoking promise: a registry of devices and the rules of each | |
| `PeerTrust` | the calls of the manager that change the registry, step by step under `peerMu`, with failures and crashes; implements `TrustRegistry` | `INSTANCE TrustRegistry` |
| `PeerTrustProofs` | invariance and refinement, proved | `PeerTrust` |
| `Handshake` | sessions between the clients and servers of several devices, starts and stops | |
| `Closable` | what a server or a bridge promises of being closed | |
| `HandshakeProofs` | types, agreement and that equal secrets are never refused, proved | `Handshake` |
| `ServerConnections` | the accept loop and the connections of one control server, and the manager's stop at any moment; implements `Closable` | `INSTANCE Closable` |
| `ServerConnectionsProofs` | its invariant, that Close is complete and nobody is authenticated late, and the refinement, proved | `ServerConnections` |
| `BridgeControl` | the manager's and the controller's handling of bridges, the poller, refreshes | |
| `BridgeControlProofs` | its invariant, that no poller leaks, and that what is paused or stopped stays closed, proved | `BridgeControl` |
| `BridgeConnections` | the connections of one bridge, from accepting to closing, and Close at any moment; implements `Closable` | `INSTANCE Closable` |
| `BridgeConnectionsProofs` | its invariant, that Close is complete, and the refinement, proved | `BridgeConnections` |
| `NetBypass` | diagnosing, adding, verifying and removing routes, the record, the guardian's decision, the window and the tray's refresh | |
| `NetBypassProofs` | its invariant, and that window, record and routing table agree, proved | `NetBypass` |
| `ClashEgress` | detecting the proxy, reading its nodes, applying, verifying, undoing and restoring a node | |
| `ClashEgressProofs` | its invariant and that other groups stay, proved | `ClashEgress` |
| `PeerWindow` | the device list of the window, the tray, the latency goroutine, drawing | |
| `PeerWindowProofs` | types and that no goroutine leaks, proved | `PeerWindow` |
| `BridgeSwitch` | the switch for bridges in the window, drawn by several threads | |
| `MC...` | the symmetry of each instance; for `PeerTrust` also which devices share a label | the module of that name |

### PeerTrust

`peers` is the file (device to address), `rules` the firewall, `mu` is `peerMu`;
each caller has `pc`, its `call`, the protocol it has come to and the slice it
has `loaded`. A pairing is `Begin`, `Lock`, `AllowTrustedPeer` (the rules are
built), then for TCP and for UDP `DeleteOldRule` and `AddRule`, then
`LoadPeers`, `SavePeers`, `RefreshAndReturn`; a removal loads first, then
deletes rule by rule and saves. Every step may fail where the code returns an
error, `DeleteOldRule` also where it ignores one, and `Crash` ends the process
between any two steps.

`netsh` adds and deletes a rule by its name, and `makeRuleName` passes the
device's identifier through `sanitizeRulePart`, which keeps ASCII letters,
digits and `._-` in lower case only: `Rule` is the triple of the device's
`Label`, the address and the protocol, and two devices may have one label (any
two host names in another script, for instance). `settled` is a history
variable: the outcome of the last call for a device, "unknown" while its rules
are being worked on, and also from the moment a call works on the same rules for
another device (`Disturb`).

### Handshake

A session is one connection; its two ends are records with a stage, a device and
a secret, and at most one message travels in each direction (`toServer`,
`toClient`). `Dial` takes the client and its secret together, as `PairPeer` does
under `authMu`. A proof is the triple of secret, prover and verifier: nonces are
fresh per session and a session's messages stay in its connection, so the rest
of the HMAC's input distinguishes nothing. `Start` and `Serve` are the two
halves of `StartControlServer` (the old server is closed, the new one opens or
not), `CloseServer` is `Server.Close`: handlers in the handshake fail, those
past it go on to `ServerTrusts`. A side that finds the other's proof wrong, or
is told so, ends in "refused"; one whose connection breaks or whose deadline
passes ends in "failed". A write to a closed end may succeed or not; what it
carried is lost.

### ServerConnections

`closedState` is `s.closed`, `closed` the channel, `kept` whether `Serve` has
stored the listener, `listening` the socket itself, which the manager holds a
copy of. `loop` is the accept loop, `pc` the goroutine of each connection,
`open` and `active` its socket and its registration. `BeginClose` is the part of
`Close` under `s.mu`, which takes what is registered; `CloseChannel`,
`CloseListener`, `CloseTaken` and `CloseManagersListener` act on it later, while
the loop goes on through `CheckClosed`, `AddActive` and `CloseRefused` with a
connection that was accepted too late. The handshake is one step here,
`Authenticate`. `AcceptFails` is an error of the listener: the loop ends
although nobody has closed the server.

### BridgeControl

The manager's variables (`enabled`, `control` for the server and its listener,
`keyed`, `cancel`), the controller's (`haveIP`, `allowed`, `active`) and, of
each goroutine, where it is and its locals. A refresh is `CheckEnabled`,
`FindAddress`, `ReadPeers`, `SetAllowedPeers`, `Scan`, `Plan`, `Apply`, and then
for each bridge that is missing `Try`, where `Bridge.Start` looks at its
context, and `Open`, where it listens. From `Apply` to its end a refresh holds
`c.mu` (`MuFree`), for which everybody who sets the addresses, plans, applies or
empties the map waits. A cancelled context makes `FindAddress` come up empty
where it has to ask Tailscale, `Scan` fail, and `Try` end the refresh; a bridge
that was tried before the cancel is opened after it. `Scan` sees the bridges'
own sockets, as `Get-NetTCPConnection` does. The peers file is a set that
changes under `peerMu`; `PeerTrust` has its details.

What the manager takes out under `controlMu` it acts on later, and so do the
actions: `TakeCancel` moves `cancel` to `taken`, `CancelPoller` calls it
(`done`); `TakeServer` moves the server to `held`, `CloseServer` closes it,
after the bridges in a stop and before listening in a start. In between a poller
may refresh on a live context with the switch off, and a connection may be
authenticated by a server that is being stopped (`Serving`). `StartPolling`
makes a context, stores its cancel function and refreshes; the poller is
launched, and the server begins to serve, when that refresh is over (`Finish`).
`Detach` and `CloseBridges` are the two halves of `Controller.Close`: the
sockets are still open after the map is empty (`Bound`).

The goroutines are `Window`, which runs the window's actions one at a time,
`Trays`, any number of calls from the tray's menu, which can only stop the
server (`tray.go:32-36`) and may do so in the middle of an action of the window,
`Handlers`, the goroutines of connections, and `Pollers`. The thread that
enables bridging by drawing (`BridgeSwitch`, and 5) is not among them: what is
said here holds of the actions the user takes. Two history variables say what
the properties have to except. `stopped` is whether the user's last action is a
stop that nothing has crossed: no other action and no connection was under way
when it began, and none has been authenticated before it was over; what these go
on to do is theirs and not the stop's. `quiet` is whether no connection's
refresh had passed the switch when the user last paused bridging.

### BridgeConnections

What `BridgeControl` takes for one step, `CloseBridges`, from inside. Each
connection has the goroutine of `handle` (`pc`) and up to two that copy
(`copying`); a connection's two sockets are in `open` while they are open and in
`active` while they are registered. `Close` marks the bridge closed and takes
what is registered, `CloseListener` and `CloseConnection` act on that later.
`AddInbound` and `AddOutbound` are the two calls of `addActive`, which find a
closed bridge and close the socket themselves; the deferred calls are steps of
their own, each socket being closed before it is removed. A behaviour begins
with a started bridge, since the controller keeps only bridges that have
started. Whether a device is allowed and whether a dial succeeds are choices.

### ClashEgress

`now` is the node each group has in the proxy, `endpoint` where the proxy
listens, `client` the interface `Detect` found first and kept, `report` and
`result` what the window keeps, `slot` the one group and node to go back to,
`action` the request under way. `Refresh` reads the selection and `ShowNodes`
keeps it once the delays are known. `Apply` takes the node before from that
report; `Select` or `SelectFails` is the request, `Direct` or `NotDirect` the
verification, `Undo` puts the node before back on the same context, which
`Expire` may have ended. A request may be lost with or without its effect.
`Outside` is everybody else who uses the proxy, `Restart` a proxy that comes
back with another interface, after which the kept client is answered nothing.
The record `switch` and two fields of `action` are history: what the last switch
replaced, and whether a failure or somebody else came in between.

### PeerWindow and BridgeSwitch

In `PeerWindow` the devices are in three places: `stored` in the manager, `kept`
in the controller's state, `listed` in the window. Each thread (the window, the
tray, each latency goroutine) takes a `Copy` of the controller's state and then
`Draw`s it, two steps because nothing locks the two together; drawing reconciles
the selection. `ReadPeers` and `KeepPeers` are the two halves of `Refresh`
around the manager's answer. `Show` with `StartRefresh`, and `StopRefresh`,
start and stop the goroutine; `Tick` and `Exit` are the branches of its
`select`. `AskToRemove` keeps the device the dialog names, as its callback does,
and `Confirm` removes that one, whatever is selected by then.

`BridgeSwitch` is one widget of the same window in more detail: `render` raises
`renderingBridgeCheck`, sets the switch, which calls `OnChanged`, and lowers the
flag, and every thread that draws does so. `SetChecked` with the flag down
(`SetCheckedLoud`) goes on to `SetLocalhostBridgeEnabled` as a tap would.
`MaxNested` bounds how deep a callback may draw within a drawing.

### NetBypass

`at` and `tun` are the world: where Tailscale reaches each peer, and whether a
proxy has the default route. `routes` are the host routes in the system's table,
`record` is `m.activeBypass`, `path` and `shown` are what the window keeps. `pc`
is the next command of the action under way. `Guard` is `OptimizeLink` with
`Evaluate` (`Decision`), run a second time after a relay was reprobed (`again`).
`Expire` is the end of the thirty seconds every action has: all later commands
of the action fail. A command may also fail with or without its effect. `Quit`
comes from the tray and may cut into an action; `Launch` starts the program
again.

Beside all that `DirectController.Refresh` copies the record to the window.
`WindowRefresh` is the window's own, between two actions; the tray's is two
steps at any moment, `TrayReads` and `TrayAssigns` (`tray` and `seen` are its
stage and what it has read), and the last to write is what the window shows.
There is one at a time, since the menu's callbacks run one after the other and
`runTrayAction` returns when the refresh is over. The history variable `lost`
marks a removal that took effect and was reported to have failed, which no code
could tell from one that did not; `overtaken` that the record has changed since
the tray has read it, and `behind` that such a tray was the last to write.

## 3. The runs

| run | instance | shows |
|---|---|---|
| `peer_trust` | 2 callers, 3 devices, two of them with one label, 2 addresses, all faults, crashes | types, `TrustedMeansOpen`, `RemovedMeansForgotten`, and that every step is one of `TrustRegistry` (`RefinesRegistry`) |
| `peer_trust_revoke` | 1 caller, 1 device, 2 addresses, no faults | violation of `RemovalRevokesEverything` |
| `bridge_control` | the window, 1 tray action, 2 pollers, 1 port, 1 peer, all faults | `IInv`, `NoPollerLeaks`, `PausedMeansClosed`, `StoppedMeansClosed` |
| `bridge_live` | the window, 1 connection, 1 poller, fair | `IInv`, `PausedMeansClosed`, `StoppedMeansClosed`, `StaleBridgesEnd`, `PortsGetBridged`, `ActionsEnd` |
| `bridge_flap` | the window, 2 pollers, no faults | violation of `BridgeStaysWhilePortListens` |
| `bridge_connections` | 2 connections, fair | `IInv`, `ClosedCarriesNothing`, `CloseEndsEverything`, `HangUpEndsBoth`, `RefinesClosable` |
| `server_connections` | 3 connections, fair | `IInv`, `ClosedHearsNobody`, `NoLateAuthentication`, `CloseEndsEverything`, `RefinesClosable` |
| `handshake` | 2 devices, 2 secrets, 2 sessions, all faults, fair | types, `Agreement`, `SameSecretNeverRefused`, `SessionsEnd` |
| `net_bypass` | 1 peer, 2 endpoints, 2 exits, the tray's refresh, all faults, restarts | `IInv`, `WindowShowsTheRecord`, `RecordedRouteStands` |
| `clash_egress` | 2 groups, 3 nodes, 2 interfaces, all faults, others and restarts | `IInv`, `FailedApplyUndone`, `RestoreGoesBack`, `OnlyTheChosenGroup` |
| `peer_window` | 1 device, 2 latency goroutines, all faults, fair | types, `OneRefresher`, `RefresherEnds`, `WindowCatchesUp` |
| `window_pause` | the window and one thread that draws beside it, no faults | violation of `PauseStands` |

### Why the bounds are enough

- Two callers are what a race on the file needs; a third adds a waiter that
  behaves like the second. Two devices of one label and one of another, at two
  addresses, allow a device that moves, and two that share or swap addresses,
  with and without sharing their rules. Calls are not bounded.
- A session involves two devices, and two sessions cover both devices dialling
  each other at once, and one device serving under two secrets in turn. The
  number of sessions is the only bound on the length of a run.
- Two pollers are one that is cancelled and not yet gone and its successor. A
  user who starts and stops faster than a cancelled poller ends its scan waits
  in the model for a free one. One port is enough for safety, since ports meet
  only where the first that cannot be opened ends the refresh; what that does to
  the others' liveness is not checked (`bridge_live` has one port and no
  faults). One call from the tray is one that crosses an action of the window; a
  second one would stop what is stopped. The instances split what would be too
  many states together: `bridge_control` has the tray and the faults and no
  connection and no change of the peers, `bridge_live` has those, and a user who
  does not enable bridging again. The proofs cover all of it at once, for any
  number of each.
- Connections of a bridge share nothing but `closed`, `active` and Close, which
  takes any set of them; two are one that is taken and one that is not.
- Three connections of a server are one that Close takes, one that is refused by
  `addActive` and one still in the backlog of the listener.
- Two groups are the one an action is about and another; three nodes are the one
  before, the one chosen and one that somebody else selects; two interfaces are
  the one that was found and the one the proxy comes back with.
- One device, present or not, is in three places in `PeerWindow`: the peers
  file, the controller's state and each thread's copy. A second one squares the
  states, which the safety properties bear and the liveness properties do not;
  the proofs cover any number. Two latency goroutines are one that was stopped
  and has not ended, and its successor.
- Peers meet in `NetBypass` only in what they ask for, by their endpoint: the
  guardian, the record's route and the routing table compare endpoints, never
  peers. One peer that moves between two endpoints does all that two peers do to
  the record and the routes; the proofs cover any number. Two exits are two
  routes for one endpoint.

### Fairness

Only what the runtime or a deadline provides. `BridgeControl`: goroutines are
scheduled, commands end, tickers tick (weak fairness of `Tick`); strong fairness
of every step that may wait for `peerMu` or `c.mu`, because `sync.Mutex` hands
itself to a waiter that has starved for a millisecond, and of `Exit`, because a
`select` with a done context and a ticker picks at random and does not miss the
context for ever. `Handshake`: each side of a connection runs (weak fairness), a
`StartControlServer` that has begun ends, and since both sides set deadlines on
every read, a wait ends whether or not an answer comes, faults included.
`ServerConnections`: the loop, each connection's goroutine and `Close` run, and
a handshake ends (it has a deadline). `PeerWindow`: weak fairness of each
thread's next step and of the ticker, strong fairness of `Exit`, which the
`select` chooses at random beside a tick. `BridgeConnections`: goroutines run, a
dial ends after its five seconds, and a copy is owed an end only when both its
sockets are closed. The user, the machine's other programs and the network owe
nothing. `bridge_live` has no faults: a machine on which every scan fails
bridges nothing, and a poller alone repairs what one failure has left. Its user
may pause bridging but not enable it again: `PortsGetBridged` assumes that it
stays enabled.

## 4. The proofs

The proof modules are checked with no assumption but those on the constants:
that the "nobody" values are none of the real ones, that `Label` gives every
device one of the labels, that the four kinds of goroutines of `BridgeControl`
are different ones, and that the user's actions there are among those it has.

`PeerTrustProofs` proves, for any callers, devices, addresses and labels, shared
or not, and with every failure and crash, `Spec => []TypeOK`, `[]TrustedMeansOpen`,
`[]RemovedMeansForgotten` and the refinement `Spec => Registry!Spec`. None of
these is inductive. `IInv` adds: the callers inside the critical section are the
holder of `peerMu` (`MutexInv`), what a caller does is what it was asked
(`CallInv`), the slice it is about to save is what the file holds (`LoadedInv`,
the heart: it fails as soon as the lock covers less than load to save), and how
far it has come with its two rules (`RulesInv`). Each action has a lemma; the
refinement maps `SavePeers` to trusting or revoking, rule commands to opening
and closing rules, everything else to a stutter. Where two devices share their
rules, a call for one says of the other that nothing is known of it (`Disturb`),
which is where `TrustedMeansOpen` stops being about it.

`HandshakeProofs` proves `Spec => []TypeOK`, `Spec => []Agreement` and `Spec =>
[]SameSecretNeverRefused` for any number of devices, secrets and sessions.
`Agreement` is not inductive, since an auth_ok on its way could come from
anywhere; `ChannelInv` says what a message in flight tells of its sender (a
proof was made with the client's secret and devices; an auth_ok means the
handler is authenticated, an auth_error that the secrets differ), `SidesInv`
that the two ends begin together on real devices. An action touches one session,
so the lemmas reduce the invariant to that session and treat the others as
unchanged; `CloseServer`, which touches many handlers at once, is a lemma of its
own.

`BridgeConnectionsProofs` proves `Spec => []IInv` and `Spec =>
[]ClosedCarriesNothing` for any number of connections. The property speaks of
one moment, after Close; the invariant says how it comes about: `ActiveInv` and
`OpenInv` place registered and open sockets at the stages of their goroutine (a
socket is closed before it is dropped), `CopyingInv` the copies, and `TakenInv`
says that what is registered and open once the bridge is closed has been taken.
Each is needed for the next.

`ServerConnectionsProofs` proves `Spec => []IInv`, `Spec => []ClosedHearsNobody`
and `Spec => NoLateAuthentication`, for any number of connections. The argument
is that of a bridge, with one more place a connection can be: in the hands of
the accept loop, accepted and not registered. The invariant says where a
connection may be registered or open, and that what is registered once the
server is closed has been taken or is being dropped.

Both modules prove `Spec => RefinesClosable` as well: registered and open is
what is carried, registering is admitting (or a stutter when the other end has
already gone), every end is dropping, and the last step of Close is the one
where the invariant leaves nothing registered and open.

`ClashEgressProofs` proves `IInv`, with it `FailedApplyUndone` and
`RestoreGoesBack`, and the action property `OnlyTheChosenGroup`, for any groups,
nodes and interfaces. `SlotInv` ties the slot, the request under way and the
last switch together: from the switch on the slot names the group of the action
and the node it would go back to, which is the one it replaced unless something
came in between, and what it names after a switch that knew what it replaced is
that.

`PeerWindowProofs` proves types and `OneRefresher` for any devices and any
number of latency goroutines. The invariant says that a goroutine that has not
been stopped is the one whose cancel function the control holds.

`BridgeControlProofs` proves `Spec => []IInv`, and from it `NoPollerLeaks`,
`PausedMeansClosed` and `StoppedMeansClosed`, for any number of tray actions,
connections, pollers, ports and peers, with every failure. None of the three is
inductive: a step of a poller from the middle of a refresh may well reach a bad
state, unless that poller is known to be cancelled. `StageInv` keeps the
goroutines to their stages. `PollerInv` is the account of the pollers: one is
not cancelled exactly when it is the one `m.bridgeCancel` would cancel, or one
whose cancel function somebody has taken out and is about to call, and one is
armed exactly when the window is on its way to launching it; so a start that
fails half-way, or that the tray stops before it has launched its poller, leaves
none behind. `PausedInv` and `StoppedInv` say who may be past the switch while
bridging is off, and that there is no bridge, and nobody about to open one, once
nobody has still to cancel a poller or to empty the map (`AllClosed`). That part
turns on two lemmas. `OnlyPollers`: past the switch there are only pollers by
then, all of them cancelled. `KeepsClosed`: the last of them to hold `c.mu` has
opened what it had tried before `Detach` empties the map, and after that `Try`
lets nobody through. The proof has one lemma for each kind of goroutine, and
`Moves`, `Returns`, `GoesOn` and `ReturnsIInv` for what the steps have in
common.

`NetBypassProofs` proves `Spec => []IInv`, `Spec => []WindowShowsTheRecord` and
`Spec => []RecordedRouteStands`, for any peers, endpoints and exits, with every
failure, expiry and exit of the program, and the tray's refresh anywhere between
the steps. `ShownInv` says that the window lags behind the manager only during
the last report of an optimization or after a tray that was overtaken, and that
a tray that was not holds what is on record. `RouteInv` is the heart of the
other: undoing an addition removes a route by what it is, which would remove the
one on record if the two were the same; they are not, because the command that
adds a route fails on one that exists, so that a route that is verified was not
there before. `ReportInv` and `RequestInv` say that a route is only ever asked
for with a device and an endpoint, and need that a path through the proxy has
one.

Only model-checked: `BridgeSwitch`, whose one property the code violates, and
every liveness property (the prover has no rule for fairness that these models
could use, nor for `ENABLED`). No module here uses `RECURSIVE`, and no property
needs induction over data.

## 5. Where code and documents disagree

The violation runs reproduce these; `PROJECT.json` quotes the documents.

1. *Rules that survive a removal* (`peer_trust_revoke`): rules are named for the
   address, re-pairing replaces the address, and a removal revokes the last one.
2. *Bridges that flap* (`bridge_flap`): the planner takes the bridge's own
   socket at the Tailscale address for a native listener, calls it a conflict
   and closes the bridge; the next poll makes it anew.
3. *A pause that a drawing takes back* (`window_pause`): one thread lowers
   `renderingBridgeCheck` while another is about to set the switch from an older
   copy of the state; the switch's callback takes that for a tap and enables
   bridging again.

Seen in the models without a run of their own:

- *Trusted devices*: a re-pairing that fails leaves a listed device whose rule
  has been deleted; two devices whose identifiers `sanitizeRulePart` makes the
  same share their rules at an address, so that removing one, when the other has
  come to be recorded at that address, closes the firewall to a device that is
  still listed as authorized (`firewall.go:143-164`; drop the second half of
  `Disturb` and `peer_trust` shows it); the record is labelled with the secret
  the manager has when the connection has been authenticated, which may be
  another one than it was authenticated with (`manager.go:364`); a server trusts
  a client that has given up waiting for auth_ok.
- *Control server*: one `Accept` that fails ends the loop, while the manager
  goes on to report that it listens (`server.go:63-71`).
- *Bridges*: a pairing, a removal or a connection being trusted refreshes the
  bridges although listening has been stopped, and no poller corrects them
  (`manager.go:703`; the localhost bridge design, lines 77 and 79, ties bridges
  to listening); a connection's goroutine that read the switch before a pause
  opens bridges after it, on a context that nothing cancels (drop `quiet` from
  `PausedMeansClosed` and `bridge_live` shows it); a connection may be
  authenticated while a stop is under way, since the server is closed last, and
  refreshes afterwards (`manager.go:241-253`). These are the exceptions that
  `stopped` and `quiet` stand for, and of the actors that are modelled the
  proofs find no others. Between the switch and the poller's cancelling, and
  between `ctx.Err` and `net.Listen`, a poller may still open a bridge with the
  switch off (`manager.go:292-304`, `bridge.go:28-31`); it is closed with the
  others, but a device may have connected to it meanwhile. The first bridge that
  cannot start ends a refresh, and the ports after it in the map's order wait
  for another one (`controller.go:103-110`).
- *Network bypass*: one record for any number of routes, of which the second
  hides the first (`manager.go:475`, against the link guardian's design, line
  105); a route stays when the program is left; a peer that becomes relayed
  keeps its bypass, because a relayed path has no endpoint to compare;
  optimizing the link to one peer removes the bypass of another, because
  staleness compares endpoints and not peers (`linkguardian/policy.go:84`); the
  tray's refresh may write an older bypass over the one an action has stored,
  and the window shows it until it is refreshed again
  (`direct_controller.go:146`; drop `behind` from `WindowShowsTheRecord` and
  `net_bypass` shows it); a route that was not verified stays when the thirty
  seconds are over, because it is taken back on the same context
  (`netdiag/service.go:94`); an optimization that fails at its first diagnosis
  leaves an empty report, and nothing to pick an exit from.
- *Clash*: the node to restore is the one in the last report and not the one the
  proxy has
  (`docs/superpowers/specs/2026-05-11-clash-mihomo-egress-selection-design.md:68`
  reads the current node before it switches); one slot holds it for all groups;
  an apply reports `RestoredPrevious` although restoring has failed, and its
  result stays on display after a restore; a switch whose answer is lost is not
  remembered; a client found once is kept although the proxy has come back
  elsewhere; a request over a named pipe ignores its context once the pipe is
  open (`namedpipe_windows.go:25-29`); a node is chosen by its index in a list
  that a refresh may have sorted anew (`main_window.go:311`).
- *Window*: the two values `reconcileSelectedPeer` returns are assigned by
  several threads, so a selection the program made may pass for the user's
  (`main_window_test.go:18`); the goroutine writes `PeerLatencies` while others
  iterate over it, which ends a Go program; one deadline of 150 ms is spent on
  the first device that does not answer, and those after it get no latency; a
  tap is lost while the flag is up; `Show` and closing the window at once leave
  a latency goroutine behind a hidden window; two refreshes may list a removed
  device until the next action; the switch may be drawn on while bridging is
  paused.

## 6. Not modelled, and the plan

| part | why not, or when |
|---|---|
| ready check (`internal/tailscale`) | one query of one external command; its outcome is a choice of the models that use it |
| clash configuration and transports | parsing, and one request over one pipe; a request's outcome is a choice |
| layout of window and tray, dialogs | the actions behind them are in the modules of their components |
| legacy port sharing | dead code in the program: `cmd/portshare/main.go` passes no `Manager`, no window calls `ui.Controller` |
| audit log, settings | read and cleaned once at the start, before there is another goroutine; nothing appends to the log any more |
| parsing of command output, ranking of exits, texts, discovery, process wrappers | values without a state; the models use their outcomes |

Abstractions inside the modelled parts: a message's version and type checks are
folded into the proof's outcome, since both ends run this program; a path over a
LAN address and an exit through the proxy's own interface are left out of
`NetBypass`; the store's file format is a function from devices to addresses;
firewall rules are identified by their name, and that by the label, the address
and the protocol it is made of. The structures several threads share without a
lock (`DirectController.state`) are read and assigned as a whole, field by field
at most where a property looks at it: a torn read is not modelled. Listening is
always at the same address, the machine's Tailscale address.

Composition: `BridgeControl` takes from `PeerTrust` that the file changes under
`peerMu` only, and from `Handshake` that a handler goes on after its server has
closed; `BridgeConnections` justifies `CloseBridges` as one step, and
`ServerConnections` what `Handshake` has in `CloseServer`. Both implement
`Closable`: what they carry are the connections that are registered and open,
and from the moment somebody closes them they only lose some.

Every safety invariant and every action property that a passing run checks has
its theorem. What could follow: a theorem that the switch of the window acts for
the user only when several threads draw (`PauseStands` with `Others` empty), and
an abstract specification of the bridges as a device sees them, implemented by
`BridgeControl` and `BridgeConnections` together.
