# A TLA+ verification of encapsule

encapsule routes the connections of chosen Windows processes through a SOCKS5
proxy. An *injector* (command line or GUI) loads a DLL, the *capsule*, into a
process; the capsule hooks Winsock, keeps a control session with the injector
over a loopback socket, receives its configuration there and reports the
connects it sees.

This directory holds TLA+ models of that program, TLC configurations that check
them on small instances, and TLAPS proofs. Source paths below are relative to
the repository (`src/...` in `PROJECT.json` is `src/` + that path).

## 1. Inventory

| Component | State | Operations | Hard behaviour | What makes it correct |
|---|---|---|---|---|
| Report queue, `common/queue.hpp` | item queue, drop count, channel tokens, parked receives | `push` (any host thread), `pop`, `cancel` (io thread) | pushes cross a pop or a cancel; overflow reuses the victim's token | nothing lost uncounted, newest kept in order, no lost wakeup |
| Control client, `injectee/client.hpp` | socket, reader and writer coroutines, timer, backoff, deadline, `reconnecting_`, pinned configuration | `start`, `attempt`, `reader`, `writer`, `process`, `stop`, `begin_reconnect`, `give_up` | reader and writers notice one loss at different moments; a late writer meets a new attempt | one driver at all times; budget kept; routing pinned; convergence |
| Bootstrap, `injectee/injectee.cpp`, `common/minhook.hpp` | the hook set, the globals the detours read, the threads inside | `DllMain`, mapping probe, `do_client` | a hook that cannot be made; detours run before and while the globals are bound; the module never leaves | detours see a live object or none; a broken hook set is never enabled and never stays |
| Connect detours, `injectee/hook.hpp` | socket mode record, per-call route and verdict | four routing detours, mode detours, `closesocket`, `CreateProcess` | host threads re-mode, close and reuse the handle; every step of the handshake may fail | never a direct connect past the proxy; honest results; mode restored |
| SOCKS5, `injectee/socks5.hpp` | position in a byte stream | handshake, login, request, associate, datagram headers | answers in pieces, cut or malformed; lengths at their limits | a grant is the proxy's, for what was asked; reads exactly the reply; never downgraded |
| Fake IPs, `injectee/fakeip.hpp`, `fake_map.hpp` | rows, pins, quarantine ring, exclusions | allocate, look up, decide, pin, unpin, touch, exclude, progress | exhaustion, reuse while kept, the lock let go between decide and pin | one name, one address; balanced pins; no early misroute; drains |
| UDP state, `injectee/udp_state.hpp` | associations with generations and reference counts; per-socket queues, budgets, quarantined keys | open, acquire, release, reap; push, pop, mark, pin, retire | stale references, value reuse by the OS, a tick that is older | stale references dead; closed once; nothing lost uncounted or inherited |
| Control server, `injector/server.hpp` | session table, kept bootstraps, configuration, `opened_` | `inject`, `open`, `close`, `remove`, `process`, `stop`, setters | io thread and front end tear down, register and inject at once | one teardown, own entry, no burnt bootstrap, no missed configuration |
| Injection, `injector/injector.hpp` | tokens and mappings by pid | `publish`, `load_into`, `forget_*`, `token_matches` | a remote load outlives the wait; rollback crosses a new injection | rollback takes back only its own token |
| Framing, `common/async_io.hpp` | — | read and write a length-prefixed message | two writers on one socket | whole messages |
| Conversions and parsers, `winnet.hpp`, `schema.hpp`, `utils.hpp` | — | pure functions | byte order, bounds | agree with a reference |
| Proxy panel, `injector_gui.hpp` | the boxes and toggles | `on_click` handlers | one click is two setter calls, pushed as two messages | a session ends with one click's settings |
| The rest of the front ends, `injector_cli.*`, `ui_elements/` | — | parsing, drawing | — | — |

How they interact: the injector publishes a token in a named mapping and starts
the remote load; the capsule reads the mapping, connects and says hello with
the token; the server registers the session, answers with the configuration and
pushes every later change; the detours read the configuration's route and push
reports into the queue, which the client's writer sends to the server.

`PROJECT.json` lists every component with its status, and every hazard at its
line with the properties that watch it.

## 2. Modules

### ReportQueue — `blocking_queue`

Items are push numbers. `Push` is one step (the send it spawns only queues a
handler, so "about to be spawned" and "spawned" are the same `unsent` token).
`SendToken`, `Receive` and `ChannelCancel` are the asio channel, external:
a token goes to a parked receiver, or to the buffer, or its send waits. A
receive that took a token is `"granted"` until its coroutine resumes; that gap
is where cancel() can fall. `cancel()` is three steps, since other threads push
between its statements while the io thread stays inside it (`IoFree`).

### InjecteeClient — `injectee_client` and `injectee_config`

EXTENDS ReportQueue: a `writer()` is a popper of the queue. A coroutine is
modelled by what it waits for: `opening` (open_session in its connect or its
hello), `reader`, `task[w]`, `timer`. Whoever notices a loss becomes `stopper`
and runs stop() and begin_reconnect(), which contain the queue's three-step
cancel. Time is counted in seconds of backoff and of refused connects since the
deadline was set. `Attempt` waits for `Quiet`: the timer is at least a second
away and all ready handlers run before it. The injector is the environment; a
configuration is its version number.

### ControlServer — `injector_server`, `injectee_session`, `kept_bootstraps`, `injector`

Two threads, `io` and `ui`; a step is what a thread does under one lock or with
one atomic. Each thread has a pc and the locals of the function it is in.
`inject()` is Inject, Publish, LoadSucceeds or LoadFails, InjectDone; the hello
is Hello, Insert, OpenDropsKept, StoreOpened, HelloDone; `stop()` is StopCloses,
StopExchange, RemoveLost or RemoveRetired, Forget, Erase, Hook. `tokens` and
`mappings` are always written together and are one variable. The capsule side
(attach, probe, connect, drop, exit) is the environment. `retired`, `revoked`
and `closes` are history for the properties.

### ConfigPush and FrontEnd — setters, `broadcast_config()`, the hello's answer, the proxy panel

ConfigPush is one session at a time and the messages it is sent, a configuration
being a count of setter calls. The broadcast posts a coroutine; a coroutine
writes a length, suspends, and writes a body. FrontEnd EXTENDS it: a click on
the panel reads the boxes, refuses (`refused`, with the port's digit-by-digit
rule) or calls one or two setters, and `versions` says what each configuration
held, so that "the settings a session was handed" can be spoken of. A box holds
a member of a small set; only the port is a sequence of characters.

### ConnectHook — the routing detours

One handle, one thread inside a detour, one other thread that changes the mode,
closes and reopens the handle, and the client thread that binds the globals and
changes the route. The four detours share their steps: Begin (globals and route
read once), NextAddress (the list's loop), Classify, Report, EnterScope,
ProxyConnect, Handshake, Send, LeaveScope, Restore, Original; `entry` says which
one it is and what it returns. The SOCKS5 conversation is one step that succeeds
or fails. Winsock is external: a connect needs an open, unconnected socket, and
on a non-blocking one says "no" while the link comes up. Only the
distinctions the detours draw are kept of an address.

### Bootstrap — `DllMain()`, `do_client()`, `hook_create_all()`

The loader's thread creates the hooks one by one (the last is ConnectEx, which
starts Winsock), unrolls on an error and starts the helper thread that unloads
the module, or enables the set and starts the client thread. The client thread
probes for the mapping, makes the owners, binds three globals and parks. Host
threads enter and leave detours at any time once a hook is armed; `holding` are
the ones that read a bound global. The mapping comes and goes (external).
Detaching is four steps. `minhook::enable()` may arm only some hooks: DllMain
does not look at its status.

### Socks5 — `socks5.hpp`

`stream` is every octet the proxy ever sends, `arrived` how many are here,
`taken` how many were read. A recv with `MSG_WAITALL` is enabled when all its
octets have arrived, or, short, when the peer ended: every prefix of every
answer is explored. The proxy (external) picks any method, takes or refuses the
login and answers with any reply, legal or not; what it `grant`s is what RFC
1928 reads in the octets it received, so the builders are checked against the
RFC and not against themselves. Behind a legal reply it sends two octets of the
application's traffic, which must stay unread. ConnectHook's one step
`Handshake` stands for this conversation.

### FakeIp and NameMap — `fake_ip_table`, `fake_ip_owner`

One action per method of the owner, all under its mutex; `alloc()` is four
actions by outcome. A thread resolves a name, keeps the answer, asks `decide()`,
pins, touches, unpins, each a call of its own. Names are sequences of labels
with or without the root's dot, since `no_fake_name` and the table's exact
comparison tell them apart; an address is its network, the fakes'
or a real one, and its host number, in the families and buffer lengths that
`read_fake_addr` distinguishes. `lostAt` and `streak` are
history. NameMap is the abstract specification: a partial one-to-one map from
addresses to names, and addresses that are out for good; `ImplementsNameMap`
maps a row to its name and `excluded_` to the withdrawn addresses.

### UdpAssociations and UdpSockets — `udp_state.hpp`

The two tables of the UDP path, one action per method. Users keep references
past an association's death and pass ticks that may be older than the last use;
the relay number is what an association *is*, so that a stale reference can be
told from a good one. In UdpSockets the operating system reuses socket values,
a datagram carries the incarnation it was meant for, and the pump may be late
with one; the pump's own sockets (`own`, `owns`) are left alone by the send
detour.

## 3. Runs

| Run | Checks | Shows |
|---|---|---|
| `queue` | QueueTypeOK, Conservation, NewestKept, NoLostWakeup, Drained | the queue's accounting, order, wakeups and progress |
| `client` | ClientTypeOK, SomebodyDrives, OneDriver, RoutePinned, GivesUp, Converges | the reconnect protocol across two losses; it ends, one way or the other |
| `server` | ServerTypeOK, OwnTeardown, KeptAreAway, StillWelcome | teardown, registration and the kept record on two threads |
| `server_live` | DeadLeave | a dead session leaves the table |
| `server_uninject` | UninjectForgets (violated) | an un-inject may leave the bootstrap |
| `server_eviction` | EvictionSparesFresh (violated) | an eviction may take a fresh bootstrap |
| `config_push` | NothingMissed, SettledPair, BroughtUpToDate | no configuration is missed; address and login settle together |
| `config_frames` | WholeMessages (violated) | two pushes interleave on the wire |
| `hook` | NeverDirect, NoBareLink, ModeRestored | every path of the four detours |
| `hook_bool` | FalseOnFailure (violated) | SOCKET_ERROR is returned as a BOOL |
| `fakeip` | FakeTypeOK, PinsBalanced, NoEarlyMisroute, RingDrains, ImplementsNameMap | the fake-IP table under two threads; it implements NameMap |
| `capsule` | NothingDangles, HalfMadeLeaves (Bootstrap); GrantIsReal, StaysInStep, NeverDowngraded, HeadersRoundTrip (Socks5); StaleRefsDead, HoldersCounted, ClosedOnce, InUseStays (UdpAssociations); NoSilentLoss, BudgetsExact, NothingInherited (UdpSockets) | the parts of a capsule that share no state |

A violated property states what a comment or a document of the repository says;
`findings` in `PROJECT.json` quotes it and explains the counterexample.

**Bounds.** `queue`: capacity and token bound 2, two poppers, five pushes —
enough to fill, overflow, drain and refill with both poppers parked. `client`:
two losses and three writers, so a writer of the first session can meet the
third; a budget of five seconds with backoff 1, 2, 3 so that capping, expiry
and a late success all happen; two reports over a queue of one, the queue having
its own run. `server`: two pids and three sessions, so a pid can have one
session being torn down on each thread and a third registering; two tokens, a
record of one, so that the second loss evicts and a pid can be injected again.
`server_eviction` trades a session for a third token: a kept pid is injected
again while the other is lost. `config_push`: five setter calls, which is a
proxy set, cleared and set again, around a session that registers at any point;
every kind of box content that is refused (no port, zero, 65536, six digits, a
letter, a name, over-long texts). `hook`: lists of up to two addresses, the
first length at which a list continues after a failure; every route, entry
point, socket type and mode. `fakeip`: two addresses, rings of 0 and 2, four
touches and five ticks, so that both rows are issued, retired, drained and
issued again while a thread keeps an old answer. `capsule`: three hooks, so that
the first, a middle one and ConnectEx can fail; three probes; two association
rows reused three times by two users with four ticks over an idle limit of two;
one socket row contended by two values of two incarnations, with payloads of
zero, exactly the byte budget and one more; names and logins of 0, 1, 16, 17,
255 and 256 octets, which are the lengths at which the encoding changes.

`capsule` explores each of its four parts in full while the other three are in
their initial states: they share no variable, so their product would add
nothing.

**Symmetry** is used over pids, sessions and threads, in runs without liveness
properties only (`server`, `fakeip`).

**Deadlock** is checked for the queue, whose consumers always may pop again up
to the bound on pushes. The other runs turn it off: a client that gave up,
a server with no traffic and a host that calls nothing may stop.

**Fairness.** The io_context runs every ready handler in turn, so each handler
is weakly fair (`QueueFairness`, `ClientFairness`, `PushFairness`). In
`ControlServer` handlers compete for the io thread through the thread's pc, so
a ready hello or a failed read is strongly fair: the queue of handlers is
served in order and cannot pass one over for ever. A host's push, a user's
click, an injector that comes back and a capsule's connect are never owed.

## 4. Proofs

`InjecteeClientProofs` begins with the report queue, for every capacity (0 is
unbounded), token bound, push bound and finite set of poppers, from
`QueueAssumption` alone:

* `TypeCorrect` — `QueueSpec => []QueueTypeOK`. Inductive as it stands; it
  contains the capacity bound, for which Push needs that a full queue is not
  empty.
* `ReportsConserved` — `QueueSpec => []Conservation`. Needs, besides types,
  `CancelPcInv`: outside the `"count"` step, `stranded` is zero; otherwise the
  drain would overwrite a count.
* `QueueKeepsNewest` — `QueueSpec => []NewestKept`. Per action, on what Tail
  and Append do to positions (`TailFacts`, `AppendFacts`, `PushFacts`).
* `WakeupsKept` — `QueueSpec => []NoLostWakeup`. The argument counts tokens:
  a send, a receive and a skip move one, `GrantJoins`, `GrantLeaves` and
  `GrantStays` say what that does to the set of granted poppers, and an
  overflowing push changes neither side. The skip of a token needs the queue
  to be empty; the window of cancel() is left by the step that empties it.

It goes on to the control client, from `ClientAssumption` and `QueueAssumption`:

* `ClientUsesQueue` — `ClientSpec => QueueSpec`: every step of the client is one
  of the queue or leaves it alone, so that `ReportsSurviveLosses` carries
  Conservation, NewestKept and NoLostWakeup over to the client with its losses
  and reconnects.
* `ClientTypeCorrect`, `NeverUndriven` (`SomebodyDrives`), `NeverTwoDrivers`
  (`OneDriver`), by `DriverInv`: in reconnect mode there is a timer or an
  attempt unless the client gave up; outside it a session is opening, has its
  reader, or is being stopped; and `start()`'s own session opens with nothing
  else running. The last is why the first loss cannot be noticed twice.
* `RouteStaysPinned` — `ClientSpec => RoutePinned`, an action property, from
  `RouteInv`: only what the injector sent is in transit, never the 0 of "no
  configuration", and while a session is live its configuration is the pinned
  one, so that clearing the one uncovers the same value in the other.

`FakeIpProofs`, from `FakeIpAssumption` (any capacity, rings, names, finite set
of threads):

* `FakeTypeCorrect` — `FakeSpec => []FakeTypeOK`. Lemmas say what the helpers
  return: `find_free` a row that has no name and is not excluded (`FreeFacts`),
  `find_lru` one that may be evicted (`VictimFacts`), and `claim` and `retire`
  a table of the same type (`ClaimType`, `RetireType`).
* `OneAddress` — `FakeSpec => []OneAddressPerName`, inductive with the types:
  `alloc()` claims a row only for a name that `find_name` did not find.
* `MapImplemented` — `FakeSpec => ImplementsNameMap`: the initial states agree
  and every action is a step of the map or leaves it alone (`StepRefines`). A
  full `alloc()` retires one row and may claim a row in the same call; by
  `VictimServes` that is the very row it retired, which only a ring of 0 allows,
  so it is one `Issue` over an address that was held; otherwise it is a
  `GiveUp`.
* `PinsStayBalanced` — `FakeSpec => []PinsBalanced` by `PinInv`: a row without
  a name has no pins, only a connected thread holds one, and a thread that is
  not idle keeps an issuable address. Without the first, a claimed row could
  start with a pin.
* `NoEarlyMisroutes` — `FakeSpec => []NoEarlyMisroute` by `KeptInv`: an answer
  that a thread keeps is still its row's, or its row has no name and is
  quarantined until a whole ring after the loss, or that ring is over. Only a
  claim gives a row a name, and `claimable` waits for the deadline, which
  `Retire` set from the same clock that the loss was noted with.
* `RingAlwaysDrains` — `FakeSpec => []RingDrains` by `RingInv`: no deadline is
  further than a ring ahead of the clock, and while names are refused the clock
  moves by one for each. `StreakGrows` names the row that was waiting when the
  streak began: it still waits, so the streak is no longer than its deadline
  allows.

`BootstrapProofs`, from `BootstrapAssumption` (any number of hooks, probes and
host threads): `CapsuleOutlivesHooks` (`NothingDangles`) and
`HalfMadeNeverStays` (`HalfMadeLeaves`), both from `BootInv` = `RangeInv`
(counters), `LoaderInv` (what each place inside DllMain says of the hooks, the
helper and the client: nothing is armed before the set is whole, nothing is
inside once detaching) and `OwnerInv` (owners live from before the first bind).

`ConnectHookProofs`, from `HookAssumption`:

* `NeverRoutedDirect` (`NeverDirect`), by `CallInv` (the call record's types)
  and `DirectInv`: a call reaches the original entry point with a proxy in its
  route only on the provider's word that the socket is no stream, and the entry
  points other than the list name one address, so a verdict is about the
  address it is used for.
* `NoLinkLeftBare` (`NoBareLink`), by `LinkInv`: a link is bare only while the
  call is at the handshake, which every way out of settles or shuts down.
* `ModeComesBack` (`ModeRestored`), by `ModeInv`: the record is the mode that
  the host asked for, or is about to be, what a scope remembers is the record
  unless the mode was set since (`crossed`), and outside a scope mode and
  timeouts are the host's own. The other thread's mode call and `closesocket`
  are two steps each, so the invariant also says what lies between them.

`ControlServerProofs`, from `ServerAssumption` (any number of processes,
sessions and injections, any record size): `ServerTypeCorrect`, `TeardownIsOwn`
(`OwnTeardown`), `EvictsOnlyTheAway` (`KeptAreAway`) and `LossKeepsWelcome`
(`StillWelcome`), from `ServerInv`:

* `LocalsInv` — at each place, what a thread's locals say of the session it is
  about;
* `SessionInv` — a session that was not yet read has no entry, no owner and no
  close; one that is opened is in the table and nobody's to tear down;
* `OwnerInv` — a session has at most one owner (the thread between its hello or
  its last read and its close), its entry is its own, and it is not closed while
  owned. That is what `opened_` and the compare in `remove()` are for, and
  OwnTeardown is not inductive without it;
* `KeptInv` — a registered pid is in the record only while the io thread is
  between the two critical sections that settle which of the two it is. The
  facts about the record (`DropFacts`) are about the place at which `remove()`
  finds the pid.

`FrontEndProofs`, for any number of setter calls, sessions and any boxes:

* `NoneIsMissed` — `PushSpec => []NothingMissed` by `PushInv`: the last thing
  posted is the current configuration, and an answer taken under the lock is
  current as long as nothing was posted after it. It rests on the hello
  registering before it reads the configuration.
* `PairsSettle` — `FrontSpec => []SettledPair` by `FrontInv` (versions and
  configuration number agree; what each half of the handler has set) and
  `PushInv`, which FrontSpec inherits. `port_value` is opaque: only that a click
  which is not refused has a port that fits is used.

`UdpProofs`, from `AssocAssumption`:

* `StaleRefsStayDead` (`StaleRefsDead`), by `RefInv`: a row's generation is
  never below a reference's to it, so the next tenant's is above them all.
* `HoldersStayCounted`, `SocketsCloseOnce` (`ClosedOnce`) and the action
  property `UsedOnesStay` (`InUseStays`), by `TableInv`: `HoldInv` (the count is
  the number of users whose reference is current), `RelayInv` (a relay socket is
  a row's or was handed back, never both, and no two rows share one) and `live`
  the number of rows in use. `StepKinds` sorts the actions into four kinds (a
  new tenant, one more or one fewer holder, rows that die, nothing), so that
  each fact about cardinalities is proved once.

and from `SocketsAssumption`:

* `NoLossIsSilent` (`NoSilentLoss`), `BudgetsStayExact` (`BudgetsExact`) and
  `NothingIsInherited` (`NothingInherited`), by `SocketsInv`: one row per socket,
  both budgets, byte counts that are the sums of what is queued, empty rows that
  are not in use, the number of rows, and `KeysOK` (a value that has a row has
  waited out its quarantine; one that has not is still on the retired list, so
  `open()` refuses it). The conservation equation is then one edit of one row at
  a time (`EditSum`, `SwapRow`).
* The sums are recursive functions. The library's induction theorems take an
  operator, which these provers cannot instantiate, so `Induct` states induction
  for a *set* of numbers, from the well-foundedness of the naturals, and each
  use names the set for which its fact holds: that partial sums exist
  (`SumExists`), are unique (`SumUnique`), and what pushing, popping and editing
  do to them (`SumPush`, `SumPop`, `SumEdit`).

`Socks5Proofs`, from `Socks5Assumption` (names and credentials of every length,
sockaddrs of every family; what a proxy may answer is the set `Replies`):

* The builders first. `LayoutFacts` says, octet by octet, what a request or a
  datagram's header holds; `ReadBack` that RFC 1928's reading of it is what was
  asked for; `ConnectAsksMean` and `AssociateAsksMean` that this is so of every
  request a caller builds, from a sockaddr or an IpAddr; `AuthFacts` that a
  login is read back as it was given. Octet strings are compared by length and
  position (`Cat`, `Part`, `OneMore`).
* `SocksInv` ties the place of the client to three counts, the messages sent,
  those answered and the octets read: `SentInv` (what the second and third
  message are), `StreamInv` (the answers follow one another in the stream),
  `PlaceInv` (each place of the client has one such triple, but for an answer
  under way), `ReadInv` (once the request is answered the reply lies where
  `ReplyIs` puts it, and the client never reads beyond its end) and `DoneInv`
  (how each verdict comes about).
* `LoginNeverSkipped` (`NeverDowngraded`) follows from SentInv and `AuthFacts`,
  `ReadsOnlyTheReply` (`StaysInStep`) from ReadInv, since every octet up to the
  reply's end is the proxy's own, and `GrantsAreReal` (`GrantIsReal`) from
  DoneInv and `GrantIsAsked`: what the proxy understood is what was asked for.
* `HeadersReadBack` (`HeadersRoundTrip`): a cut of a datagram still has what
  lies before the cut (`CutHeader`), and `socks5_parse_udp_header` reads a header
  that is there and nothing else (`Parsed`).

Only model-checked, because it is beyond the prover: liveness (`Drained`,
`GivesUp`, `Converges`, `DeadLeave`, `BroughtUpToDate`), which needs fairness
and ENABLED, and what `port_value` computes for every string.

## 5. Limits

* ModeRestored is about sockets whose mode the hooks recorded. One made
  non-blocking before `nbio_map` was bound is unknown to them and is left
  blocking by its first proxied connect; the model contains this.
* A mode set between the last two steps of `blocking_scope` (the lookup in
  `nbio_map` and the `ioctlsocket`) is overwritten by the older one, although
  BUILDING.md says the scope "restores the remembered mode"; ModeRestored
  allows exactly this window.
* What Winsock does with `FIONBIO = 0` on a socket with an event selection is
  not modelled: the code ignores the result.
* A detour is modelled for one caller per handle; two threads connecting one
  socket at once would also cross each other's timeouts.
* The write of a report to the control socket is one step; framing is
  ConfigPush's.
* A `writer()` whose receive had completed when `cancel()` ran is not parked, so
  it is not woken with `channel_cancelled` as the comment on `cancel()` has it
  (`common/queue.hpp` 117): it parks again and reads the queue beside the next
  session's writer. The model contains it (`task` of a third writer); nothing
  that is checked depends on its being gone.
* `set_proxy_credentials(user, nullopt)` leaves the password as it was, which is
  its documented contract, and the panel calls it so for an empty password box,
  although the panel's comment says an empty field means "unset"
  (`injector_gui.hpp` 594-596). SettledPair therefore promises a password only
  where the click gave one. `clear_proxy()` keeps the login.
* A click whose `set_proxy()` succeeded and whose login call threw would be
  reported as "the proxy settings were not applied"; no setter throws in the
  model.
* Names are compared as they are spelt: two spellings of one host (case, the
  root's dot) hold two fakes, and the suffix rule of `no_fake_name` does not
  drop the root's dot. The model has both spellings of one name.
* A UDP row that is evicted, unlike one that is retired, puts no key into
  quarantine and takes its `permanently_unmanaged` mark with it;
  NothingInherited says so. No pump calls the two UDP tables and no detour
  calls the fake-IP owner at this commit: their callers are external.
* A reply that ends right after an ATYP of 3 is a protocol error and not a
  truncation; GrantIsReal only demands that it is no grant.
* An IpAddr's domain is measured with strlen in one place; names with a NUL
  octet are not modelled.
* `minhook::enable()` is not checked: a capsule may run with only some of its
  hooks armed. NothingDangles holds then too; routing by the hooks that are not
  armed is direct.
* The command line leaves the process when its last session closes; the GUI's
  process list is shared by two threads without a lock. Both are in `hazards`
  without a property.
* Not modelled: drawing, argument parsing, string utilities (trimming, UTF,
  wildcards, `parse_proxy_url`, scrubbing), `udp_endpoint_decode`,
  `to_sockaddr` and `from_asio`, the protopuf codec, the WoW64 helper, module
  enumeration and remote memory (see `components`).

## 6. Plan

1. Done: ReportQueue, InjecteeClient, ControlServer, ConfigPush and FrontEnd,
   ConnectHook, Bootstrap, Socks5, FakeIp with NameMap, UdpAssociations and
   UdpSockets; proofs of every safety invariant of every passing run.
2. Abstract specifications worth adding, and proving implemented: a bounded lossy FIFO that ReportQueue
   implements; a session registry (pid to at most one session) that
   ControlServer implements.
3. When the repository wires the fake-IP owner into the resolver detours and
   gains a UDP pump: compose FakeIp with ConnectHook, and UdpAssociations with
   UdpSockets and Socks5's associate.
