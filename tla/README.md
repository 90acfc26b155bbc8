# WebPier in TLA+

This directory is a verification development of WebPier: TLA+ models of its
backend, its store and its user interface, the TLC runs that check them on
small instances, and proofs about them that hold for instances of any size.
Paths are relative to the repository's root (`src/...` is the code, `tests/...`
its tests).

Contents: [the system](#the-system), [modules](#the-modules),
[runs](#the-runs), [fairness](#fairness), [proofs](#the-proofs),
[what the checks found](#what-the-checks-found),
[what is left out](#what-is-not-modelled), [plan](#plan).

## The system

WebPier publishes (exports) and uses (imports) network services between piers,
which are identities `owner/pin`. Its parts:

| part | where | state it keeps | operations |
|---|---|---|---|
| **store** | `src/store/context.cpp` | the configuration and the services of each pier, in memory and as JSON files; `webpier.lock` and its time | load, `set_config`, `add_/del_` export, import and pier, under a file lock and a staleness check |
| **backend process** | `src/backend/main.cpp`, `server_impl` in `server.cpp` | `slipway.lock`, the socket file, `m_score` (number of sessions) | start, employ, accept, handle a session, stop with the last session |
| **engine** | `engine` in `server.cpp` | `m_pool`: a controller for each service | engage, adjust, unplug (all or one), status, report, comply |
| **controller, connector** | `server.cpp` | per pier of a service: `m_spawner`, `m_error`, `m_timer`, `m_tunnels` | restart, suspend, callbacks of plexus, retry timer, exits of carriers |
| **carrier** | `src/backend/tunnel.cpp` | a process of its own for each tunnel | runs until the tunnel ends |
| **client** | `src/backend/client.cpp` | a socket | ten calls, one request and one reply each, with a timeout |
| **message codec** | `src/backend/message.cpp` | none | one JSON line for each message |
| **UI model** | `src/ui/context.cpp` | the originals and edited copies of configuration and services | Store, Purge, Revert, offers, wrappers of the client |
| **UI** | `src/ui/*.cpp` | lists of services, a polling timer | menus, dialogs, tray |
| **helpers** | `src/store/utils.cpp` | the autostart table (crontab) | paths, text hash, conversion, autostart |

The UI writes the configuration through the store and then asks the backend
over the socket to adjust or engage what changed. The backend reads the same
files under the same lock, and keeps one controller for each service and one
connector for each pier of it. A connector has plexus, on a thread of its own,
negotiate a contract with the other pier; plexus calls back, the callback posts
to the main `io_context`, and the handler there starts a carrier process.

What makes this hard, component by component, and what correctness means:

* **Connector.** Two threads, a queue of handlers that a restart can't recall,
  a timer whose handler may be queued when it is cancelled, and processes that
  end by themselves. Correct when the service is never silently out: it is
  being served, negotiated or about to be retried; when tunnels that work stay;
  when no handler of an earlier connector acts on a later one; and when nothing
  ends the whole process.
* **Backend process.** It stops by itself when the last session ends. Correct
  when it stops for no other reason, when it does stop, and when a process never
  removes another's socket.
* **Client.** It has no request numbers; it is correct when replies can't be
  mixed up after a timeout.
* **Engine.** Requests and the configuration on disk change independently.
  Correct when a bulk request leaves exactly the configured services, when each
  runs what the configuration said at its last restart, and when a request for
  one service touches no other.
* **Store.** Several processes write. Correct when no update is lost silently
  and when nothing but an accident in the middle of a write leaves a file that
  doesn't load, or a configuration that loads as none.
* **UI model and main window.** Each operation is several steps on the store
  and the backend that can fail one by one, and one service lives in four
  places. Correct when disk, memory, backend and screen agree, or are known not
  to.
* **Status and clicks.** The window shows a copy of the backend's states and
  decides by it. Correct when a click does what the icon lets expect, where the
  window can know it, and every failure is told.
* **Settings dialog.** Tests report from threads of their own while the dialog
  goes on or away; the autostart entry is a line in a table that belongs to
  others too. Correct when every test gives its button back once and the table
  keeps what others wrote.

## The modules

### Link, Connector, ConnectorProofs

`Connector` is one connector of `server.cpp`: `Restart` is
`controller::restart` for its pier with `connector::restart`; `Suspend` drops
the connector (`~connector`); `PlexusCalls` and `Post` are the two halves of a
callback on the spawner thread, which is where the other thread can get in
between; `ThreadEnds` is the return of `io.run` in a thread whose plexus gave
up accepting, some time after it posted that; `Connect`, `Fallback`, `Retry`,
`OnExit` and `Expired` are the handlers of the main thread; `TimerExpires` and
`CarrierEnds` make a handler due.

| variable | code |
|---|---|
| `epoch` | the version of `m_config`/`m_service` (counts the restarts) |
| `inst`, `held` | which connector object it is; `m_bundle` has it |
| `orphan` | a released connector that lives on in a callback |
| `spawner` | the thread of `m_spawner`; `"ending"` is an acceptor that has posted its last fallback while `io.run` has yet to return, so that `active()` is still true |
| `inbox` | handlers in the queue of the main `io_context` |
| `armed` | `m_timer` has a wait that did not expire |
| `error` | `!m_error.empty()` |
| `tunnels`, `exits` | `m_tunnels`; `on_exit` handlers that are due |
| `backend` | the process is up, left by an exception, or aborted |
| `missed` | not in the code: the last retry took an acceptor on its way out for one that goes on |

The thread is modelled by what the main thread can see of it. `complete()`
joins it, so a handler that calls it waits for a callback under way: `~Calling`
in the guards of `Restart`, `Retry` and `OnExit`. A queued handler holds a weak
pointer; `Alive` is the success of its `lock()`. Each queue entry and tunnel
carries the epoch of what it was made from, so that properties can speak of
stale ones. Operators named in a comment "Faulty variant" are plausible bugs,
used to see that each property notices one.

`Link` is the abstract specification: a service is asleep, trying, waiting,
linked or stranded, never goes from linked to waiting (the end of a tunnel is
followed by an attempt and not by a delay), never from waiting to linked, and
never waits for ever. Stranded is the one way to be out for good: nobody will
try again until somebody asks. Only an export can be stranded (`Strands`), by
the race described under [what the checks found](#what-the-checks-found), and
only a request ends that. `Connector` implements `Link` under the mapping `Phase`.

### Slipway, SlipwayProofs

`Slipway` is the backend process (lock, socket file, sessions) and its clients.
`TryLock`, `Bind`, `Employ`, `DestroyServer` and `Exit` are `main()` in the
order of its constructions and, backwards, destructions; `Accept`, `Serve` and
`SessionEnds` with `Cleanup` are `server_impl::accept` and `handle`; `Connect`,
`Refused`, `Perform`, `Receive`, `Timeout` and `Broken` are `client_impl`;
`InitContext` starts a backend and a client. Processes can be killed (`Crash`)
and clients can leave at any moment. A request is its number, and the reply has
the number of the request, so `ReplyMatches` can say whose reply was read.

It is a Unix domain socket: bytes written before a close can still be read,
connections wait in the backlog until they are accepted and are lost with it.
`verify_autostart` is asked at each last session, so `autostart` is a variable
that the UI changes.

### Engine, EngineProofs

`Engine` is the pool of controllers against the configuration on disk. The
requests are those of `comply`: `All` is engage, adjust or unplug of every
service, `OneMissing` and `One` are the requests for one service, which isn't or is
on disk; `AllThrows`, `OneThrows` and `Unreadable` are the ways in which they
fail. `Applied` is what all three bulk loops do to one service, `Restart` is
`controller::restart`: connectors of other piers go, those of the service's
piers get its configuration one after the other. `Edit` is what the UI writes,
`Tear` a file that was left half written, `Exit` and `Launch` the process.

| variable | code |
|---|---|
| `disk`, `torn` | the services in the pier files; files that can't be parsed |
| `pool` | `m_pool` by key; a controller is its `m_bundle`, with the service each connector was restarted with |
| `up` | the backend runs |
| `last` | the last request and its result |
| `dirty`, `mixed` | not in the code: services changed since the last request that covers them, controllers whose restart threw half way |

`Key` is a constant, since which handles are one key depends on the names: in
the runs it is either injective or it joins two services, as `operator<` does
for `owner/a`, `bc` and `owner/ab`, `c`.

### Ledger, Store, StoreProofs

`Store` is the configuration on disk and several contexts, each in a process of
its own. An operation (`AddService`, `DelService`, `SetConfig`, `AddPier`,
`DelPier`) checks and edits the memory; `Lock` is the constructor of
`hard_lock` with the staleness check; `SaveServices`, `SaveConfig`, `SavePier` and
`RemovePier` are what is done under it; `Written` or `WriteFails` end the
writing of a file; `Unlock` is the destructor of `hard_lock`. `Open` is the
constructor of `context_impl`. A process may end anywhere (`Crash`).

A file that is being written is `Torn` and can't be parsed; `Open` throws at
it. The configuration may also be `Blank`, truncated to nothing: `load_config`
passes over a file of length zero, and the context opens without identity and
services, as if there were no configuration, whatever the repository holds
(`Unset`).

| variable | code |
|---|---|
| `conf`, `dir`, `file` | `webpier.json`; a pier's directory and certificate; its `webpier.json` |
| `mtime`, `lock` | time and owner of `webpier.lock` |
| `pc`, `op` | where a context is, and the operation under way |
| `pier`, `bundle`, `stamp` | `m_config.pier`, `m_bundle`, `m_time` |
| `opened`, `sound`, `accidents` | not in the code: for the properties |

Times are numbers of writes: two writes never get the same time. The file lock
belongs to the process, so two contexts of one process would not exclude each
other; the UI has one at a time.

`Ledger` is the abstract specification, without files, lock or operations: one
value (the identity, and the services of each pier) with a version, replaced by
compare-and-swap. Who can be trusted changes one thing at a time and only if
it knows the version; who was overtaken is refused, but for one case that the
code leaves open: who never wrote may write once, and replaces what is stored
of one pier. After the first accident (`Fault`) it promises nothing. `Store`
implements it under the mapping `Owner`, `Shelves`, `Version`, `Known`, `Wrote`,
in which a write takes place with its first step: a torn file stands for what
its writer, who has the lock, will make of it. A torn file with nobody at it
stands for itself, and `Ledger` has no such value.

### Desk, DeskProofs, ImportProofs

`Desk` is what the user does to services, through the buttons and menus of the
main window: `AddService`, `EditService`, `EditRefused` (fields of the dialog
that are not valid stay in the item), `DeleteService`, `Radio` (the two radio
buttons), `Settings` (the identity stays, every service is adjusted), the
import of an offer from `ImportRefused`, `ImportCancelled` and `ImportStarts`
over the rounds `ImportGrants`, `ImportPurges`, `ImportStores` to `ImportEnds`,
and the offer of services (`OfferWritten`, `OfferFails`). `Store` and `Purged`
are `ServiceImpl::Store` and `Purge`, made of `Forget` (del) and `Add`, which
edit the memory and then write; each write may fail.

| variable | code |
|---|---|
| `disk`, `cert` | the services and the certificate in each pier's directory |
| `mem` | the bundle of `g_context` |
| `pool` | the service each controller of the backend runs with |
| `exports`, `imports` | the items of the main window with `m_origin` |
| `job` | `OnImportMenuSelection` under way: its loop, what is left of it, and the choices of the exchange dialog |
| `linked` | `g_backend` works |
| `lapses`, `untold` | not in the code: what went wrong since screen and memory, or the backend, were last read anew |

### Panel, PanelProofs

`Panel` is the state of services as the window shows it. `RefreshAll` and
`RefreshOne` are the two `RefreshStatus`, `Notice` is `notify`, `Activate` a
click on the icon, `OpenMenu` and `Pick` the context menu and the tray's, which
decide when they come up, `TrayAll` reboot and unplug, `StateOf` is
`controller::state` over the connectors of a bundle. `Engages`, `Unplugs`,
`Adjusts` and `Boots` are what the engine makes of a request: a service that is
no longer on the disk loses its controller, one that is on it and has none gets
one. `Engaged` and `Unplugged` are those requests as the window makes them,
which may not arrive. The backend moves by itself (`Moves`, whose single
connectors are those of `Connector`) and for others (`Others`, which also write
and delete services).

| variable | code |
|---|---|
| `stored` | the services in the files of the piers |
| `bundle` | the states of a controller's connectors, in the order of `m_bundle` |
| `seen` | `m_status` |
| `items`, `side`, `icon`, `selected`, `bar` | the list, its rows, the status bar |
| `menu`, `told` | the open menu; the last notification of each service |

### Settings, SettingsProofs

`Settings` is the settings dialog: `Click` starts a test on a thread of its own,
`Hears`, `TimesOut` and `Reports` are the callbacks on it (of `CheckRendezvous`,
`CheckEmailRendezvous`, `CheckRicochetRelay`, `ExploreNat`), `Handle` is the
result on the main thread; `Read` and `Install` are the two child processes of
`assign_autostart` and `revoke_autostart`, `OthersEdit` is anybody else at the
crontab.

| variable | code |
|---|---|
| `open`, `nat`, `enabled`, `gauge` | the dialog, its check box, buttons and progress bars |
| `probes`, `posted` | running tests; what they passed to `CallAfter` |
| `table`, `daemon`, `edit` | the crontab; `m_daemon`; where the main thread is with it |

## The runs

| run | instance | what it shows |
|---|---|---|
| `connector_import` | import; 4 pids, 4 restarts, 4 entries | the safety properties of an import, and `Link` |
| `connector_export` | export; 2 pids, 2 restarts, 3 entries | an export, whose acceptor goes on or ends, posting that before it does: it comes back to serving, or is stranded by a retry that came between the two, and does what `Link` says |
| `connector_engage` | import; 2, 2, 2 | a **violation**: a restart leaves the tunnel with the earlier configuration |
| `connector_abort` | import; 2, 2, 2 | a **violation**: the destructor on the spawner thread |
| `slipway` | 3 processes, 2 clients, 2 attempts, 2 requests | socket file, replies, stopping with the last session, going when nobody is left |
| `engine_requests` | 2 services with 2 piers, 3 edits | requests, edits, failures and exits in any order |
| `engine_keys` | 2 services that are one key, 1 pier, 2 edits | a **violation**: engage and colliding handles |
| `store_contexts` | 2 contexts, 2 piers, 2 names, 3 writes, 1 accident | what the lock and the staleness check are worth |
| `store_lost` | 2 contexts, 1 pier, 2 names, 3 writes | a **violation**: the first write of a context loses a service |
| `desk` | 2 piers, 2 names, 2 values, 2 certificates of which one can't be parsed, each write may fail, 2 services of a pier, 3 operations | screen, memory, files and backend; imports |
| `panel` | 1 service with 2 piers | icon, click, copy and notification |
| `settings` | 3 buttons, 3 tests, a pipe of 2 lines, tables up to 3 lines, 2 changes by others | buttons and tests; the crontab |

Bounds. `MaxRestarts` bounds the requests; four of them are enough for an
import to hold every kind of leftover at once (a queued contract, an expired
timer, a tunnel and a running spawner of different epochs), and
`BatonsBounded` says how much can pile up: one more for each restart, so larger
bounds only add more of the same. `MaxInbox` bounds what plexus and the timer
may add to the queue; a full queue delays them and no handler. `Pids` is as large
as the number of tunnels those bounds allow. Relaunches, callbacks and exits are not
bounded. In `Slipway`, three processes are a backend on its way out, one that
takes its place and one that finds the lock taken; two clients are a session
that ends while the other goes on or waits in the backlog; two requests are what it
takes to confuse replies. The code makes 5 attempts to connect; `MAX_ATTEMPTS`
is 2 in the runs, since the attempts before the last differ in their pause only.
The run checks liveness and so uses no symmetry. In
`Engine` only the edits are bounded: with three of them one service can change
twice and another once, which is what it takes to have a bundle of two
configurations next to a service that must not be touched. In `Store` three writes
are two by one context and one of another between them; an accident is a write
that fails or in which a process ends. In `Desk` an import counts as one
operation, whatever its rounds: three are what it takes to store a service,
spoil the item and then use it; its piers and names are
interchangeable. In `Panel` nothing is bounded; services meet in no property,
so that one is enough for TLC, and its proofs are for any number. In
`Settings` a pipe that takes two lines and tables of three make a table that
fits, one that doesn't, and one that doesn't after the entry is appended; three
tests are two of one button and another's.

`CHECK_DEADLOCK FALSE` is said everywhere since the counters of requests run
out and a system nobody asks is at rest.

Properties of `Connector`:

* `NoSilentOutage` - a connector without error and without tunnel (the status is
  *lonely*) has its spawner negotiating or accepting, or an outcome queued; the
  exception is an export whose last retry took an acceptor on its way out for
  one that goes on.
* `EveryFailureRetried` - an error that is shown has the timer armed, its
  handler queued, or a tunnel whose end starts over.
* `BatonsBounded` - stale handlers duplicate the work at most once per restart.
* `OwnContracts` - a contract of an earlier connector never becomes a tunnel.
* `TunnelsSurvive` - tunnels go by exit, suspend or with the process only.
* `ServesAgain` - the connector always comes back to serving, is dropped, or is
  stranded by that retry with no timer left (exports only).
* `Implements` - it implements `Link`, liveness included.

Properties of `Engine`:

* `RunsAsConfigured` - what runs does so with the configuration on disk, unless
  that changed since the last request that covered it.
* `WholeBundles` - the connectors of a service are all of one configuration, and
  are those it names, unless the last restart threw.
* `EngageResets` - a successful engage leaves nothing of what was before.
* `SleepersSleep` - only an engage of it, or of all, wakes a service.
* `OthersUntouched` - a request for one service leaves the others alone.

Properties of `Store`:

* `AgreesWithDisk` - a context that nobody overtook has in memory what opening
  the store anew would give: what is on disk, in all files, or nothing while
  there is no configuration or a blank one.
* `SoundWritesLoseNothing` - the write of a context that was up to date when it
  first wrote, and none of whose operations failed, takes away nothing but what
  it was asked to.
* `Implements` - it implements `Ledger`.
* `NoLostUpdate` - what the staleness check is for; violated.

Properties of `Slipway`:

* `SocketIsOwn` - while a process listens, the socket file is its own.
* `ReplyMatches` - a reply that is read is the one to the last request.
* `StopsWithLastSession` - a backend never stops under a session.
* `LeavesAfterClients` - when nobody is left and nothing is to start with the
  system, it goes.
* `SessionsEnd` - a session whose client is gone ends.

Properties of `Desk`:

* `MemoryTellsDisk` - the memory is what the files hold, until a write fails.
* `ScreenTellsDisk` - the items are what is stored, and know where they came
  from, but for the lapses that are named.
* `BackendTellsDisk` - the backend runs what is stored, but for those.
* `ImportTouchesOnePier` - an import leaves the other piers' services and rights.
* `ImportSettles` - an import that ends well did what was chosen, all of it,
  unless an export was stored without a name (`Nameless`).

Properties of `Panel`:

* `ClicksFitIcons` - a click starts a service whose icon sleeps and stops one
  whose icon is lit, however old icon and copy are. The exception are rows that
  `m_status` lacks, those of a service just added or all of them after a
  refresh that failed: their icon is a guess, "broken" or the answer to one
  request, and a click starts them over whatever it shows, until the next
  refresh.
* `NoticesMatch` - the copy has no failure and no tunnel the user wasn't told of.
* `ClicksTurnOver` - a click on a service that is as the copy has it, or lacks it,
  turns it over, or does nothing; what is gone from the disk doesn't run
  afterwards in either case.
* `LastingIsTold` - what lasts is notified in the end.

Properties of `Settings`:

* `ButtonsTell` - a bar moves only for a test under way, and a button can be
  clicked exactly when it has none. The two buttons of the STUN tests are the
  exception: the NAT box enables them while a test runs, and then the first
  result hides the bar of the second.
* `TestsEnd` - every rendezvous test gives its button back, unless the dialog is
  gone or the main thread hangs in the crontab.
* `ToggleTurns` - setting or clearing autostart leaves one entry or none, and
  the lines of others in their order.

Every module has a `TypeOK`; that of `Slipway` also says that the unsigned
`m_score` never wraps, that of `Desk` that no name is taken twice, that of
`Panel` which rows there are.

## Fairness

`Connector` assumes that the main loop runs the handlers in its queue and those
of exits, that a callback which has begun posts and returns, that a thread with
nothing left to run ends, that an armed timer expires, and that a callback
which holds the last reference returns. It assumes nothing about plexus (an
attempt may last for ever), about carriers (a tunnel may never end) or about
users. `Slipway` assumes that a process gets on with `main()` and with its
sessions; it doesn't assume that anybody starts a program, asks, answers in
time or leaves. `Panel` assumes that the status timer fires, which its own
handler sets again. `Settings` assumes that the main thread handles its events,
that the child processes of the crontab end, and that a rendezvous test with a
timer times out; of the other tests it assumes nothing. `Engine`, `Store` and
`Desk` have safety properties only: nothing in them must happen unless the user
asks. These are weak fairness conditions on what an event loop with work and a
running thread do.

## The proofs

`ConnectorProofs` proves, for every set of process ids, every bound, and for
imports and exports alike:

| theorem | says |
|---|---|
| `TypeCorrect` | `Spec => []TypeOK` |
| `NeverSilent` | `Spec => []NoSilentOutage` |
| `AlwaysRetries` | `Spec => []EveryFailureRetried` |
| `ContractsAreOwn` | `Spec => []OwnContracts` |
| `WorkingTunnelsStay` | `Spec => TunnelsSurvive` |
| `OneBatonPerRestart` | `Spec => []BatonsBounded` |
| `ImplementsLink` | `Spec => Lnk!Safe` |

They use only that `Local` is a Boolean and that the bounds are numbers.
`NoSilentOutage` is not inductive: a step may take away the queued handler it
relies on while the handler's effect depends on what the spawner is doing. The
invariant `Inv` says where the duty to go on is in each situation: `Released`
(what a dropped connector leaves behind), `AcceptEnded` (an export whose
acceptor ended, or is about to, has an error, or the handler that will set it is
queued, or was missed by a retry), `Endings` (only a living export's thread
lingers, and only its retry can miss it) and
`InviteEnded` (an import whose attempt ended has a tunnel, an error or a queued
outcome), with `TypeOK` and `EveryFailureRetried`. It is proved action by action,
over lemmas on what appending to and taking from the queue does to `Queued`.
`OwnContracts` needs that no entry for the living connector is older than the
connector nor newer than the configuration (`Versions`). `TunnelsSurvive`
follows from one look at each action, with the invariant for the types.

`ImplementsLink` is the safety half of the refinement, `Lnk!Safe` being `Link`
without its fairness. Of the twenty-five pairs of phases `Link` forbids four
kinds: to wake in another phase than trying, from waiting to linked, from
linked to another phase than trying, and to leave stranded except by a request
or for good. `WakesTrying`, `LinksTrying`, `LosesTrying` and `LostStays` rule
out one each; the second rests on `Trying`, that a connector which finds a
contract in its queue is in an attempt, and the third on `OnExit` starting over
at once. That an import is never stranded is `LostExports`.

For `OneBatonPerRestart`, the sum of
what the spawner, the timer, the queue and the tunnels of an import hold changes
only by a restart, which adds at most one to both sides; every other step passes
a baton on. Two steps need an invariant for that. A connector that is created
anew has no live handler, for `Versions` puts every queued entry below its name.
And an exit that is due is about a tunnel there is (`ExitsOwn`), so `OnExit`
takes away one for the attempt it starts. What the queue's share does is counted
by a bijection from the entries that stay to the shorter queue (`LiveTail`).

`SlipwayProofs` proves, for any processes, clients and bounds:

| theorem | says |
|---|---|
| `SlipwayTypeCorrect` | `Spec => []TypeOK` |
| `SocketIsItsOwn` | `Spec => []SocketIsOwn` |
| `RepliesMatch` | `Spec => []ReplyMatches` |
| `LastSessionStops` | `Spec => StopsWithLastSession` |

Its invariant has three parts. `Alone`: a process that is past the lock is the
one that has it, what listens owns the file, and who is connected is connected
to a process that has bound its socket. `Counted`: the score of the process that
serves is the cardinality of the sessions, which is why the theorem on the last
session holds (and why `m_score` can't wrap). `Paired`: a client that waits has its
request in the socket, in the process, or its reply on the way, and nothing else.

`StoreProofs` proves, for any contexts, piers, names and bounds:

| theorem | says |
|---|---|
| `StoreTypeCorrect` | `Spec => []TypeOK` |
| `ContextsAgreeWithDisk` | `Spec => []AgreesWithDisk` |
| `SoundWritesKeepAll` | `Spec => []SoundWritesLoseNothing` |
| `OnlyAccidentsTear` | `Spec => []TornByAccidentOnly`: nobody who takes the lock meets a write under way |
| `StoreImplementsLedger` | `Spec => Implements` |

`AgreesWithDisk` speaks of contexts at rest. The invariant `Trust` follows one
that is sound and not overtaken through each step of an operation: memory is the
disk with the edit (`Edited`), the disk is torn where it writes, the disk is
memory. What makes it inductive is that any other context that changes the disk
holds the lock (`Locked`) and leaves a time that outruns what the first one
knows (`Clocked`). `TornInside` says which file is torn by whom.

`StoreImplementsLedger` is the whole refinement, since `Ledger` has no
fairness. `Fresh` (whoever has the lock and has written, or can be trusted,
knows the time) and `Pending` (who writes has torn its own file, and has the
services it writes) are inductive with `Inv`. What `Ledger` sees is then a
matter of three situations: nobody writes, and it sees what loading gives
(`Still`); a context writes, and it sees what that one will have written
(`Midway`); or there was an accident, and every step is a `Fault`. The first
step under the lock leads from `Still` to `Midway` and is a `Write`
(`SaveServicesWrites`, `SaveConfigWrites`, `SavePierWrites`,
`RemovePierWrites`); `Written` stays in `Midway` and `Unlock` leads back,
unseen; `Lock` is `Overtaken` exactly when it costs the context its trust.

`EngineProofs` proves, under `KeysDiffer` (no two services are one key, which
is what `engine_keys` shows to be needed), for any services, piers and edits:

| theorem | says |
|---|---|
| `EngineTypeCorrect` | `Spec => []TypeOK` |
| `PoolRunsAsConfigured` | `Spec => []RunsAsConfigured` |
| `BundlesAreWhole` | `Spec => []WholeBundles` |
| `EngageIsAFreshStart` | `Spec => []EngageResets` |
| `OnlyEngageWakes` | `Spec => SleepersSleep` |
| `RequestsStayApart` | `Spec => OthersUntouched` |

The three invariants are inductive together with `TypeOK`; the two action
properties follow from one look at each request.

`PanelProofs` proves, for any services and any number of piers of each:

| theorem | says |
|---|---|
| `PanelTypeCorrect` | `Spec => []TypeOK` |
| `ClicksObeyIcons` | `Spec => ClicksFitIcons` |
| `NoticesAreGiven` | `Spec => []NoticesMatch` |
| `ClicksTurn` | `Spec => ClicksTurnOver` |

What takes work is `StateOf`, whose choice of the first connector that isn't
lonely exists because a set of numbers has a least one (`LeastNumber`, by
well-founded induction): a service sleeps exactly when it has no connectors
(`StateOfRunning`), which `ClicksTurn` needs. `ClicksObeyIcons` rests on
`IconsMatch`, that a row shows what the copy has of it if it has it, whichever
of the places renewed the two. Besides the assumptions on names the proofs use
that the value for "no controller" is no bundle (`AbsentAssumption`).

`DeskProofs` proves, for any piers, names, values, certificates, offers and
bounds, under `NoShelf` (the value that stands for a missing file is no set of
services, which a model value isn't):

| theorem | says |
|---|---|
| `DeskTypeCorrect` | `Spec => []TypeOK` |
| `MemoryIsDisk` | `Spec => []MemoryTellsDisk` |
| `BackendIsDisk` | `Spec => []BackendTellsDisk` |

An operation is judged by what it leaves behind (`World`, `Good`): `Del` and
`Add` change memory and file alike, under the names they are given
(`DelRight`, `AddRight`), and `Store` and `Purge` tell the backend those names
(`StoreRight`, `PurgedRight`, over `ToldRight`). `Tidy` says that the items'
names are the stored ones unless something went wrong; `Purge` needs that, since
it deletes the name the item came from and tells the one it shows.

`ImportProofs` goes on with `Desk`, under the same assumption:

| theorem | says |
|---|---|
| `ScreenIsDisk` | `Spec => []ScreenTellsDisk` |
| `ImportsTouchOnePier` | `Spec => ImportTouchesOnePier` |
| `ImportsSettle` | `Spec => ImportSettles` |

An import is many steps, and what holds before and after it doesn't hold
between them. The invariant `Kept` has four parts. `Imported`: every service of
another pier, on disk, in an offer or in the import under way, has a name and
one pier. `Screen`: between operations, items and stored services are the same.
`Looping`: in an import, each export that is still to be granted is stored as
its origin says and differs from it by the pier's right at most, and each item
that is still to be purged is the pier's.
`Settling`: what the loops did so far and what they have left make up what was
chosen. An item's turn takes it from one half to the other, so each round is a
lemma about one element; `Edited` and `Storing` say what the screen and the
files are after one `Store`, and are used for the buttons and for the loops.
The attempt to prove `ImportSettles` as it was stated first failed at an export
without a name, and TLC then found the behaviour with five operations, where
the run has three: see the findings.

`SettingsProofs` proves, for any buttons, crontab lines, pattern and bounds:

| theorem | says |
|---|---|
| `SettingsTypeCorrect` | `Spec => []TypeOK` |
| `ButtonsAreTrue` | `Spec => []ButtonsTell` |
| `TogglesTurn` | `Spec => ToggleTurns` |

`ButtonsTell` is inductive together with `TypeOK`: the tests of a button are
counted as threads and as results, a callback moves one from the first to the
second (`PendingCalled`), and a new thread adds one because an id is left for
it, by the pigeonhole principle (`ProbesFinite`). `ToggleTurns` needs
`Written`: what is about to be installed is the copy of what was read, and
differs from what the user asked for. What the copy keeps is a matter of
`Foreign`, which takes the lines of others by their rank: `RankTaken` says that
there is one of each rank, `ForeignOfForeign` and `ForeignOfEntered` what it
makes of a table that has nothing to leave out and of the new entry.

Model-checked only: the liveness properties (`ServesAgain`,
`LeavesAfterClients`, `SessionsEnd`, `LastingIsTold`, `TestsEnd`) and the
liveness half of `Implements`, since fairness is out of the prover's reach; and
the four runs that find a violation. Every other property of a run is a theorem.

## What the checks found

* `connector_engage`: `client.h:25` documents engage as "start or restart the
  specified service", but `connector::restart` leaves an import with a tunnel as
  it is (`server.cpp:350`), so a changed address, role or certificate takes
  effect only when the tunnel happens to end.
* `connector_abort`: `server.h:20-22` promises a server that runs until the last
  session is destroyed. A callback of the spawner holds a strong reference to
  the connector; if the service is suspended in that moment, `~connector` runs on
  the spawner thread and joins it, which throws from a destructor.
* `engine_keys`: `client.h:15` says that engage resets all services, but
  `handle::operator<` (`message.h:19`) compares pier and name as one string, so
  two services may have one controller, and one of them never gets its own.
* `store_lost`: "The context is outdated" (`context.cpp:56`) is not noticed by
  a context that hasn't written yet. Its first write removes what another
  process added.

Met while modelling, without a text of the repository that they contradict, and
in the models as they are:

* The retry of an export leaves an acceptor alone that is active
  (`server.cpp:281`), and `active()` stays true from the post of the last
  fallback (`:340`) until `io.run` returns (`:204`). A retry of an earlier
  fallback that runs in between, after that last one was handled, clears the
  error and does nothing; the thread then ends. The service is lonely
  with nobody at work, until the timer that the last fallback armed expires, or
  for good if that has expired within the same time. `WEBPIER_RETRY_TIMEOUT` may be
  zero, so the models make no assumption about how long either takes. This is
  the exception in `NoSilentOutage` and `ServesAgain` and the phase "stranded"
  of `Link`; an import starts its spawner anew without asking and is free of it.
* A crash or a failure right after the configuration was truncated leaves a file of
  length zero, which `load_config` passes over (`store/context.cpp:98`, `:159`):
  the next context opens empty, without an error, on a repository that has
  services. Any other torn file is an error when it is loaded.
* A row of the window whose service `m_status` lacks shows one thing and does
  another (`mainframe.cpp:246-274`, `:359-367`): a service that starts with the
  backend is shown running as soon as it is added, and a click on it restarts it
  rather than stopping it, until the next refresh.

* A service of an offer that differs from the one under its name is stored
  without an origin: the name is taken, the new one isn't stored, and the
  exception is swallowed (`mainframe.cpp:722`, `ui/context.cpp:189`). Likewise a
  rename onto a name that is taken deletes the old service and stores no new
  one.
* Fields that the service dialog refused stay in the item, and are stored by the
  next import (`servicedialog.cpp:120`, `mainframe.cpp:698`).
* Deleting an export that was stored without a name takes the item off the
  screen and leaves the file as it is, since an empty origin means that nothing
  is stored (`ui/context.cpp:199`). Imports go over the items, so the service
  keeps its rights from then on (`mainframe.cpp:691`).
* An import that is moved to another pier leaves its earlier controller in the
  backend, since the handles are made from the present pier
  (`ui/context.cpp:178`).
* While the connection is lost, a service that is added keeps an empty origin,
  and deleting it leaves it in the file (`ui/context.cpp:184`).
* A certificate that can't be parsed leaves the pier's directory, and later
  offers of that pier are refused (`store/context.cpp:455`).
* `IsIPv6` may not throw and resolves a name: offering a service whose gateway
  can't be resolved ends the program (`ui/context.cpp:286`).
* `controller::state` stops at the first pier that isn't lonely: a broken one
  hides a tunnel behind it (`server.cpp:437`).
* Both directions of the crontab are pipes of which one end waits for the other:
  a table that doesn't fit blocks the caller (`utils.cpp:442`). Exit codes are
  not looked at, so a failed `crontab -l` is an empty table.
* The NAT box enables buttons whose test is under way (`settingsdialog.cpp:454`).

## What is not modelled

* What plexus negotiates and what wormhole carries (submodules that are not in
  the repository); `PlexusCalls` is what the backend sees of the first, and
  `tunnel.cpp`, the carrier, only hands its arguments to the second.
* The message codec and the format of offers: pure functions from property
  trees to text and back. `Slipway` has the framing by lines.
* The other helpers of `utils.cpp`: paths, hashes, conversion of characters.
* Everything that is Windows only: named pipes, the task scheduler, services.
* Widgets, layout, texts, languages, logging; the start of the program with its
  startup dialog. A second start of the same home raises the window of the first
  and ends, so that `Desk` has one UI.
* `controller::message`, which words what `state` says, and `server::cancel`,
  which only tests call.
* In `Connector`, a handler that runs on a connector which is about to be
  destroyed: it does its work on an object nobody sees again, and is modelled by
  its reference only.
* In `Desk`, a change of identity (`Store` has it as `SetConfig`), torn files
  (`Store`) and the sleep of controllers (`Engine`).

## Plan

Done: `Connector` with `Link`, `Slipway`, `Engine`, `Store` with `Ledger`,
`Desk`, `Panel`, `Settings`, and the proofs above, which leave no safety
property of a passing run to TLC alone. Worth adding:

1. `Cancel`: a second thread that cancels the server while it complies.
2. Codec and offers as operators with their round trips.
