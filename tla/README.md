# YuniScripts in TLA+

YuniScripts (`src/`) is an engine that keeps Python scripts running, and the scripts it runs: games with their
own economy, Minecraft servers and their managers, services and clients. This directory holds specifications of
the parts where order, failure and concurrency matter, TLC configurations that check them on small instances, and
proofs, checked by TLAPS, that hold for every instance.

    tlc -config MCSupervisor.cfg MCSupervisor.tla       a run (see "Runs")
    tlapm SupervisorProofs.tla                          the proofs of a module

Line numbers refer to `src/`; the definition-by-definition correspondence is `map` in `PROJECT.json`.

## 1. Inventory

### The engine (`src/main.py`, `src/engine/`)

| part | state | operations | interacts through |
|---|---|---|---|
| main loop, `main.py` | `registry`, `running` (dict of process records), `event_queue`, watchers | boot, drain events, monitor, one console command per turn, final stops | the same dict object as the UDP administration thread, until the first pass rebinds it |
| process wrapper, `process_wrapper.py` | the process record (status, Popen, exit code, shutdown event), `_RESTART_LOG` | start, stop, check_health, apply_restart_policy, monitor_scripts, drain threads | OS processes and their pipes |
| hot reload, `watcher.py` | a watcher per script, `last_reload_time` | queue a file event, debounce, stop + launch | `event_queue`, process wrapper |
| adoption, `process_adoption.py` | PID files | write, read, adopt, remove stale ones | the OS process table, ports |
| Phooks hub and client, `phooks.py`, `phooks_client.py` | hub: registry and subscriptions; client: socket, state, event queue | register, unregister, emit, evict stale clients, receive | UDP datagrams |
| LAN discovery, configuration, logging, venvs, ports, hooks | files and beacons | I/O | - |
| administration sockets, `socket_admin.py` | a container of registry, running, watchers, engine state | read all, run a command, write all back, one thread per client | unlocked shared container |

What makes the engine correct: a process it launched is never forgotten while it lives; there are never two
processes of a script; a stop is a stop; a crash is retried, but not in a storm; an orderly exit leaves nothing
behind; every stop ends although children may ignore signals. What makes it hard: two command threads, drain
threads that lag behind the process, children that die at any moment, interrupts anywhere, and a dict that is
shared for a while and then is not.

### The auction house (`SCRIPTS/GAMES/minecraft_manager/AUCTIONHOUSE`, `ECO_BRIDGE`)

| part | state | operations | interacts through |
|---|---|---|---|
| `ah_core.py`, `ah_database.py` | SQLite table `auction_listings` | list_item, place_bid, buy_now, cancel_listing, expire_listings | SQL statements that commit one by one; requests to the economy |
| economy bridge client and server | wallets and ledger on another host | balance, deduct, credit, set, transfer | one TCP connection per request, retried |
| scheduler, `ah_ai_engine.py` | timers | runs expire_listings and the simulation in a thread | the same table |
| bans, market events, announcer, price history, reports, plugins, admin, simulated people and trade | tables of their own | CRUD, text, statistics | the core |

What makes it correct: one taker per listing, a final outcome, bids that only rise, coins that are neither lost
nor made, items that are neither lost nor doubled. What makes it hard: no operation is a transaction; each is a
sequence of committed statements and remote requests that interleave with others, a failed payment is taken
for a successful one, prices are floats of which whole coins are paid, and neither the quantity of a purchase nor the
amount of a request has a lower bound.

### Everything else

| part | state and hard behaviour |
|---|---|
| minecraft manager shell (`main.py`, `engine/multi_server.py`, `FUNCTIONS/`) | dispatches messages; sequential |
| lootpower game | a database of its own; sequential request handlers |
| deepsky client | ring buffer of messages, SQLite persistence, flushes from timers and errors, recovery after a crash |
| mc-server-runner | a virtual file system and a journal of operations with rollback; downloads |
| multi-server-manager | a state per server and per subsystem; asyncio commands against a health loop that restarts |
| fastmcp server | tool adapters; a priority queue with a capacity per priority, which nothing calls yet |
| datagram engine | versioned documents on disk with hashes; sequential |
| relays, packager, statistics, dashboards, launcher, command line tools, Minescript | I/O around libraries |

`components` in `PROJECT.json` gives the status of each and the reason where nothing is modelled; `hazards` lists
what is hard to test, at its line, with the properties that watch over it or the reason why none does yet.

## 2. Plan

Modelled, in this order:

1. `Supervisor`: main loop, administration thread, process records, reload, shutdown; it implements the abstract `Keeper`.
2. `RestartBackoff`: the delays of the restart policy, which `Supervisor` leaves open.
3. `AuctionHouse`: the listings and the wallets; it implements the abstract `Auction`.
4. `EcoBridge`: the retrying client against a server that keeps no request ids; it implements the abstract `Wallets`.
   `AuctionHouse` takes the bridge for one that executes a request once and tells the truth about it; `EcoBridge` says when
   that holds (`ExactlyOnceUnlessLost`) and what is left otherwise (`TrueWasDone`).
5. `PhooksHub`: hub, clients and datagrams in flight; eviction, replaced sockets, late and lost registrations.
6. `SessionBuffer` (`session_manager.py`): the ring, marking before committing, crashes, recovery from checkpoints; it
   implements the abstract `Journal`.

For each of 1 to 6 there is a module of proofs. Left, in this order:

7. `AuctionHouse` on two keys and with `force_remove_listing`, for the limits that are checked long before the INSERT.
8. `AtomicJournal` (`mc-server-runner/engine/atomic.py`): begin, commit, rollback and `with` blocks.
9. `Lifecycle` (`multi-server-manager/engine/lifecycle_manager.py`): commands against the health loop across awaits.
10. `Adoption`: PID files, restarts of the engine and reuse of process numbers, composed with a script's life.
11. `ToolQueue`, if something starts to call it.

All modules keep to parameters with named assumptions, one action per operation and definitions without recursion, so
that they can be proved about.

## 3. Supervisor

`Supervisor.tla` models `main()` with everything it calls that changes state, and `udp_admin_server`.

| in the model | in the code |
|---|---|
| `child[c]` | an OS process, what its exit code was, whether its `shutdown_event` is set, and (history) which thread launched it |
| `dict[t][s]` | the record of script s in the dict that thread t holds |
| `shared` | both names still mean the same object: until `main.py:276` is executed for the first time |
| `mainPc`, `todo`, `keys`, `fresh` | where main is; the scripts its current loop has yet to visit; the dict's keys when the loop began; `new_running` |
| `job[t]`, `batch[t]` | the stop, reload or launch a thread is blocked in; the scripts `reload all` has yet to visit |
| `queue`, `recent[s]` | `event_queue`; the debounce window of s is open |
| `halted`, `cause` | history: who stopped s last; why main left its loop |

Actions are cut at the points where a thread blocks. A stop is `Command` (terminate), then the child exits or
`StopTimeout` kills it, then `StopDone` stores the record; a reload goes on with `LaunchDone`. A launch may fail.
`DrainEvent` takes one file event, `MonitorBegin`/`MonitorKeep`/`MonitorRestart`/`MonitorEnd` are one pass of
`monitor_scripts`, `NoInput`, `ConsoleCommand` and `Quit` are the console. `Leave` begins the `finally` block,
`ShutdownNext` and `ShutdownDone` are its loop. `Torn` is the RuntimeError of a loop over a dict to which the
other thread has added a key. `DrainSees` merges printing the marker and reading it: neither makes the child
exit, and the drain thread may be late by any amount, so only the moment it is seen matters.

Deliberately abstract: the registry is constant; in `Supervisor` the backoff may or may not be over
(`RestartBackoff` says when it is); a health check waits up to four seconds for a child and is one step; log files
and the exceptions that come from them are left out, and with them the branch in which `reload_script` answers
`()`. Processes launched while the dict is shared are marked "boot": both threads write one dict during
the first pass, and the code protects nothing there, so `NoLostChild`, `CleanExit` and `OnePerLauncher` speak of
what is launched later. An interrupt in the middle of a pass loses what the pass has launched, an interrupt
before the `try` (`main.py:265`) leaves every child running, and a second one inside the `finally` block
(`InterruptAgain`, `main.py:308-312`) ends the final stops where they are: the properties exclude all three on purpose,
through `cause` and `mainPc`, and the model contains them.

Properties. `NoLostChild`: a live process of the main thread is recorded as running in its dict or in the one under
construction. `OnePerLauncher`: never two live processes of a script from the same thread. Two threads can, and do,
start one each: their dicts have parted. `ConsoleStopSticks`: a script stopped at the console is neither running
nor believed crashed until it is started, reloaded or its files change. `CleanExit`: after quit, exit or the end of
stdin no process of the main thread is left. `CommandsEnd`, `ShutdownEnds`: stops, reloads and the final stops end.

`Keeper.tla` is what the engine amounts to when one sees only live processes (`Mine`), who stopped a script last and
how the engine ends (`Phase`): a thread launches a script only when it has no live process of it, a stop is over when
the process is, only a request undoes a stop from the console, the main thread launches nothing during its final stops,
and an end in good order leaves nothing of its own. `KeepsScripts` says that `Supervisor` implements it. `Retry` may
undo a stop that came over the UDP port and `Start` concerns one thread only, since the code promises no more (finding 1).

`RemoteStopSticks`, the counterpart of `ConsoleStopSticks` for the UDP port, is violated: see "Findings". It is a property
of steps, and of steps after the first pass only (`~shared`): no step gives a new process to a script whose last command
was a stop over UDP. During the first pass main may be about to restart the script when the stop is stored, which
is a race of its own and not what the finding is about.

Fairness (`FairSpec`): weak fairness of the main thread's own steps and of the steps a thread is in the middle of.
This is what the OS scheduler gives two runnable threads, given that `proc.wait` has a timeout and `kill` cannot be
ignored. Nothing is assumed of children, drain threads, watchers, clocks or operators: the console may be silent
(`NoInput` belongs to the loop, because it polls), and an interrupt may come or not.

## 4. RestartBackoff

One script against the clock in half seconds, the unit of the delays. `since` is the age of `last_start` and of
`last_restart`, which are always written together; `count` is that of `_RESTART_LOG`; `restarts` is history, the ages of the
last five automatic restarts. `CrashCycle` is a cycle of the main loop that finds a crash (`Restart` when the delay is over,
else `Wait`), `CleanCycle` one that finds the marker, which drops the log entry. `since` stops at 30.5 seconds, beyond every
constant of the code, and the ages of `restarts` at `Old`, just over ten.

`NoRestartStorm`: at most four automatic restarts in ten seconds, however often the loop looks. `CrashIsRetried`:
a crash is tried again unless the policy is "never"; waiting does not renew the delay. Fairness: the loop keeps
cycling and time goes on. `ResetsWhenStable`, from the docstring, is violated: see "Findings".

## 5. AuctionHouse

`AuctionHouse.tla` models the five operations of `ah_core.py` for any number of client threads, and the scheduler.
A step is one SQL statement or one request to the economy, since each commits by itself
(`ah_database.py:282-294`). Several threads are the code's own assumption: the scheduler is a thread
(`ah_ai_engine.py:735-764`), the header of `ah_core.py` promises atomic statements against races, and
`tests/test_ah_core.py:152-232` runs operations from two threads.

| in the model | in the code |
|---|---|
| `rows[l]` | a row of `auction_listings`; a bidder is present exactly when `bids_count > 0` |
| `due` | the rows whose `expires_at` has passed |
| `wallet[p]` | the balance on the economy server; deducts stop at zero (`eco_bridge_server.py:254-258`), credits of a negative amount do not |
| `call[c]` | where client c is, for whom, with what amount and what row it has read |
| `batch` | what `expire_listings` has selected and not updated yet |
| `held`, `unpaid`, `handed`, `claims` | history: coins in escrow, bids nobody paid, items given away, successful endings |

`Deduct` is `_eco_deduct`: it answers True for a payment that was refused or never arrived (lines 97-102). The
branches that roll back after a failed payment (lines 460-473, 596-608) can therefore not be reached and are left
out. `Reliable = FALSE` lets any request fail to arrive. Left out: bans, notifications, hooks, market events, the
transaction table, listings of the simulation, `force_remove_listing`, fallback balances, and a request that is
executed while its answer is lost. A check that fails before anything was written is not a step. RCON commands that
hand over items succeed, except that the game's `give` refuses to give nothing or less (`Given`).

Numbers are those the code lets through:

- Prices and bids are floats: `Unit` parts make one coin. A row keeps the bid as it is (line 437); what is taken for it,
  given back (lines 458, 479) and paid (lines 594, 611) are the whole coins of it, `Coins`, which is Python's `int()` and
  cuts towards zero. Bids that are not positive are refused at line 422, being below any start price.
- A purchase may ask for any int (`Quantities`; `ah_phooks.py:202` converts, and only `ah_core.py:553` looks at it). Of no
  item, or less, the code takes a part (lines 566-571): the listing grows, the buyer is paid, the seller pays, and nothing
  is handed over. So a wallet may go below zero, and no property says otherwise.
- `item_count` of a new listing is any int as well (`ah_phooks.py:145`).
- Fees are positive: lines 249, 282 and 775 skip others. They are paid in whole coins, so the default listing fee of 0.5 is
  0; the instances use 1.

`MaxItems` and `MaxCoins` bound what a listing grows to and what a purchase may begin with, since without them quantities
below zero count up for ever.

Properties. `OneTaker`: of all buyers of the whole, the cancelling seller and the scheduler, one succeeds.
`OutcomeIsFinal`: status, price and bidder of an ended listing never change. `BidsOnlyRise`: bidders decide
on rows they have read earlier, and still a lower bid never replaces a higher one. `BidIsCovered`: while a listing
is active, the coins in its escrow, plus those under way and those that could not be taken, cover the whole coins of the
highest bid; the sum survives races in which the wrong bidder is refunded. The fraction of a coin that was bid is in the row
and in nobody's escrow. `Cover(l)` is that sum: the escrow of all players, what each
call has yet to bring or to take back (`Outstanding`), and what could not be taken.
Violated: `OutbidIsRefunded`, `ItemsConserved`, `HighestBidderWins`: see "Findings". `ItemsConserved` is also violated by a
single client that buys less than none and cancels; the finding is about the race of two ordinary purchases, and its
run has positive quantities only.

The abstract specification `Auction.tla` has no threads, reads or wallets: a listing is opened, bids for it rise, and
one party ends it. `KeepsAuction` says that `AuctionHouse` implements it: `lots` are the rows without their counts,
`takers` is `claims`, and a sale may cost the `buy_now_price` of any quantity that can be all a listing holds, one that
has grown included. What the abstract actions ask
for is what the code checks on a row it has read and does not check again in the UPDATE: that neither bidder nor buyer
is the seller, and that the bid is at least the start price. `Auction` says less than the documents where
the code does less: `SellToBidder` takes any bid that is at most the highest, and `Withdraw` is possible with a bid.

## 6. EcoBridge and Wallets

`EcoBridge.tla` models `RemoteEconomyBridge` (deduct, credit, transfer, set_balance) and the server's `_handle_client`
and `handle_request`.

| in the model | in the code |
|---|---|
| `call[i]` | a call of the client: its request, the attempt of `_send_with_retry` it is at, what it returned |
| `line[i][n]` | the TCP connection of attempt n, one per request |
| `serving` | the open transaction, with the balances its SELECTs have read |
| `balance`, `ledger` | `wallets.balance`; per player the sum of `delta` and the last `balance_after` of `wallet_ledger` |
| `done`, `missed` | history: how often a request was executed; whether an answer to the call was lost |

`Send` takes the client's lock, which is held until the attempt is over; `Refused` is a connect that fails, `GiveUp` any
OSError or timeout while waiting, both followed by the next attempt or `False`; `Garbled` is an answer that is cut short,
whose ValueError is not tried again. On the server `TxBegin` is its lock and `BEGIN IMMEDIATE` with the SELECTs, `TxCommit` the
UPDATEs, ledger rows, COMMIT and answer, `TxRollback` every refusal and exception, `ServerDies` a crash. Giving up takes
nothing back: what was sent may be executed later, even after a later attempt of the same call or of another one. A
server that restarts finds the database as it was after the last COMMIT.

Properties. `LedgerExplainsBalance`: opening balance plus ledger is the balance, whatever overlaps, is repeated or crashes.
`OverdrawnOnlyByNegativeAmounts`: a wallet falls below zero by a credit, a set or a transfer whose amount is negative, and
in no other way; deducts and senders decide on balances they have read before, and never overdraw. `ExactlyOnceUnlessLost`:
without a lost answer, True means executed once and False not at all. `TrueWasDone`: with lost answers, True still means at
least once, and never more often than it was attempted. `CallsReturn`: every call ends. `KeepsPromise`: seen by its callers
the bridge is `Wallets`, which executes whole requests one at a time.

An amount is any int (`RequestAssumption`), since neither side looks at its sign: only `deduct` and `transfer` compare it
with the balance (`eco_bridge_server.py:254-258`, `342`). A transfer may go to the wallet it comes from: both new balances
are computed from one read and the receiver's UPDATE comes last, so the wallet gains coins that no entry of the ledger
explains. `LedgerExplainsBalance` names that case; nothing in the repository calls `transfer` or `set_balance` yet.
`set_balance` of the model is the second definition (`eco_bridge_client.py:353`), which overrides the first. Left out:
`balance` and `info`, which write nothing; the read-only local bridge; and two things the documents name and the code does
not have, the maximum of 100,000 per transaction on this path and a fallback over RCON.

Fairness: each call's own steps. Every socket operation of the client has a timeout, so a waiting call always goes on.
Nothing is assumed of server, network or callers.

## 7. PhooksHub

`PhooksHub.tla` models the hub's loop (`phooks.py`) and the clients (`phooks_client.py`).

| in the model | in the code |
|---|---|
| `registry`, `age`, `subscriptions` | `script_registry` with its `last_seen`, in ticks of ten seconds, and `event_subscriptions` |
| `cleaned` | `_last_cleanup` is less than ten seconds ago |
| `listening` | the hub's loop has not ended |
| `letters`, `emits` | datagrams on their way: REGISTER and UNREGISTER, numbered per client; the number of EMITs, since which event is emitted makes no difference to the hub |
| `port[c]`, `state[c]`, `register[c]` | a client's socket and state ("failed" is "disconnected" or "error"); a thread is inside `register()` |
| `asked`, `handled`, `dropped` | the last letter a client sent; history: the last one handled, and whether the hub has forgotten the client since |

`RegisterSend` and `RegisterReturn` are the two ends of `register()`, between which the receive loop may act; `SocketFails`
is the receive loop or `emit` replacing the socket without a word to the hub, `Killed` the end of a process whose script id
comes back with another socket. `HandleLetter` and `HandleEmit` are one turn of the hub's loop, `Cleanup` the eviction that
happens only when `recvfrom` times out. `LoopEnds` is an OSError of `recvfrom`: the thread ends (`phooks.py:127-130`), while
the process and its tables stay, and nothing but `HubRestarts`, a restart by the engine, helps. `Lose` drops a datagram;
since `letters` is a set, any order of arrival is possible. Duplicated datagrams are not modelled: sender and hub are on one
host or one LAN segment, where UDP makes none in practice. The client may meet a socket error during its first `register()`,
a little more than the code allows. What receivers do with events is not modelled.

Properties. `SubscribersAreRegistered`: the hub's tables agree. `LastLetterWins`: once the hub has handled the last letter
of a client after all others, it has the client's address and sends it at least the events of that letter. It may send
more: a REGISTER only adds, so a client that is killed and comes back with fewer events still gets those of its former life
(`phooks.py:172-174`). `DeafHasACause`: a client that believes it
is registered and is not at the address the hub has is in one of three states: its letter is late or lost, the
hub dropped it, or its socket was replaced. None of them ends by itself, since clients are never answered: the comment
of `phooks.py:26-27` ("haven't been heard from") reads otherwise, but only REGISTER refreshes `last_seen`.
`GoneAreForgotten`: a client that is gone is evicted in the end, provided that from some time on no datagram is on its way
and the loop runs. Both premises are needed, and TLC shows a counterexample without either: EMITs that keep coming
keep `recvfrom` from timing out, however few there are at a time, and a loop that has ended evicts nobody.

Fairness: `Receive`, `Cleanup` and `Tick`, the hub's loop and time. Each is weak, and says nothing of a loop that has ended, nor
that anybody restarts it: `LoopEnds` and `HubRestarts` may happen or not.

`tests/test_phooks_event_flow.py` imports names that do not exist, so none of this is tested at this commit.

## 8. SessionBuffer

`SessionBuffer.tla` models the ring of messages of `session_manager.py`. Its methods run under one lock, so each is a step;
where SQLite may fail, each way to fail is a step.

| in the model | in the code |
|---|---|
| `buffer`, `last`, `healthy` | `_buffer` (with `maxlen`), `_last_hash`, `_healthy` |
| `stored`, `sheet`, `checkpoints` | tables `session_state`, `session_metadata` (its latest `is_healthy`), `state_checkpoints` |
| `phase` | the process is down, up, or between the two writes of `graceful_shutdown` |
| `appended` | how many messages there were |
| `lost`, `pushed` | history: messages given up by a failed flush, a recovery or an exit; messages the full ring pushed out before they were stored |

`FlushFails` marks any prefix of the entries and writes nothing: the entry is marked before its INSERT
(`session_manager.py:312`), so what was marked is never tried again. `FlushBug` also takes a checkpoint, but with nothing to
flush it returns True before it gets there (`:307`). `ShutdownCheckpoint` and `ShutdownFlush` leave the process and its ring
in place, since the signal handler and `run()` both call the shutdown (`main.py:337-339`, `287-288`) and all of it may
happen twice; the process ends with `ProcessEnds`, after a shutdown or without one, and `FlushFails` may be the flush of a
shutdown. Nothing in `session_manager.py` is the code of a crash; `ProcessEnds` is what the end of a process does to its
memory. `Start` recovers when the last metadata were those of an unhealthy process, from any checkpoint of the latest
second; `Recover` is the healing agent, which asks for the checkpoint numbered like its work order. A restore that cannot
write its own checkpoint leaves the ring restored.

Properties. `LossHasACause`: every message is stored, or waits to be flushed, or was given up by a failed flush, a recovery or
the end of its process (`lost`), or was pushed out of the full ring (`pushed`). The last is a loss without any failure, and not
what a test expects: finding 6. `MarkedIsStored`: what counts as flushed, in the ring or in any snapshot that may replace
it, is stored, unless a flush failed. `AllOrNothing`: ring and snapshots are always one piece of the hash chain, so recovery
restores a snapshot whole, or, of a ring that had dropped its first message, nothing, which is not what the class
documents: finding 7.

`Journal.tla` is the session without ring, marks, hashes and SQLite: messages wait, are saved all together, or are given up,
oldest first. `KeepsJournal` says that `SessionBuffer` implements it: what waits is what is open in the ring and not stored
(`Open`), a picture is what is open in a checkpoint. So the database never skips a message that still waits, nothing stored
is lost again, and a recovery brings back of what was given up only what a checkpoint had kept. An appended message that
finds the ring full gives up at most the oldest one; a failing flush may give up any number of the oldest.

## 9. Runs

| run | instance | shows |
|---|---|---|
| `engine` | one enabled script, "always", 3 processes, 1 file event; half a million states | types and all safety properties of the supervisor, and that it implements `Keeper` |
| `engine_liveness` | one script started by command, 2 processes, no file events; 238 thousand | stops, reloads and shutdown end, also while the dict grows under the first pass |
| `remote_stop` | one script | violation of `RemoteStopSticks` |
| `backoff` | policies "never" and "on-failure"; 176 thousand | storm and retry |
| `backoff_reset` | the same | violation of `ResetsWhenStable` |
| `auction` | 2 clients, a seller without coins and 2 bidders with 2, one listing of 1 item at 1.5 coins, bids of 1.5 and 2, purchases of 2 items or of -1, unreliable bridge; 889 thousand | all properties of the auction that hold, and that it implements `Auction` |
| `auction_refund`, `auction_items`, `auction_expiry` | rich players, reliable bridge, whole coins and positive quantities, one question each | violations of `OutbidIsRefunded`, `ItemsConserved`, `HighestBidderWins` |
| `eco` | 2 calls, 2 wallets, 2 attempts each, amounts from -2 to 2, a transfer to oneself; 241 thousand | all properties of the bridge, liveness and that it implements `Wallets` |
| `session` | a ring of 2, 4 messages, 2 checkpoints; 1.05 million | losses, marks, recovery, and that the session implements `Journal` |
| `phooks` | 2 clients, 1 event, 3 letters, 2 sockets, 1 emit at a time and any number of them; 447 thousand | tables, letters, causes of deafness, eviction |

Why the bounds are enough. Supervisor: every race is between at most two launchers and one script, and a third
process allows a launch while two older ones of the script are alive or dying. Loops with several entries are covered
by the proofs, which hold for any set of scripts and any policies. `MCSupervisor.View` forgets what a process was once
nothing refers to it, since no property looks at it and a launch overwrites it; processes are symmetric. Liveness is
checked without symmetry and view. RestartBackoff: the delay of 30 seconds is in the model although the count never
gets there, which is the finding; "always" differs from "on-failure" in nothing the module has. AuctionHouse: a race on a
row takes two clients and the scheduler. In half coins, the bids 3 and 4 are worth 1 and 2 coins: the smaller one has a
fraction that no escrow holds, two bids are the fewest that can be out of order, and with two coins a player can pay for one
and not for both. A purchase of -1 takes the part and makes of the listing of one item one of two, which a purchase of 2
then takes as a whole; after that the listing has grown to `MaxItems`, and a wallet to at most `MaxCoins`. Parts of a listing
of two items are in the run `auction_items`. Clients and bidders are symmetric. The view of the
run `auction` (`MCAuctionHouse.View`) forgets what no guard and no property of that run looks at any more: the parts of a
row that were read and are not needed by the rest of the operation, the coins of listings that have ended, the items handed
out, and the timer of ended listings. `BidIsCovered` is about active listings only, and `Auction` sees rows and claims. The
other runs of the module have no view. With one key
the limits per player and item (`ListSelect`) only prevent a second request; two keys are planned. EcoBridge: a request
that is executed late needs a second attempt or a second call to meet, and both are there; transfers need two wallets.
SessionBuffer: in a ring of two the third message pushes one out, the fourth one more after a restart; two checkpoints
are needed for one to be older; four messages give a stored one, two that wait and one that pushes the first of them
out. PhooksHub: one client with two letters and two sockets has every race of a client with
itself, and the second one shares the tables. The safety properties of all six are also proved without bounds.

Deadlock checking is off where the system may stop: the engine exits, every listing has ended and no keys are left, a
script of policy "never" is gone, all calls have returned, or messages, letters and sockets are used up.

Every property of a passing run comes with a mutant: a definition of the module with a plausible bug, under which TLC
finds the property violated (for example `BidTakeAny`, the UPDATE without its `status = 'active'`).

## 10. Proofs

`SupervisorProofs.tla`, for any scripts, policies, pool of processes and bound of the queue, from the assumptions
`EnabledAssumption`, `PolicyAssumption`, `NoneAssumption` and `EventsAssumption` only.

The properties are not inductive: `CleanExit` says nothing before the exit, and `NoLostChild` nothing of a launch that is
about to overwrite a record. `IInv` adds

- `RecordsOK`: a record that says running, and a job that waits, name a process of their script; this holds because a
  process is recycled only when nothing refers to it (`Free`);
- `PlacesOK`: what each place of the main loop implies for its job, batch and `fresh`;
- `EraOK`: while the dict is shared, only boot has launched;
- `TrackedOK`: `NoLostChild`, its counterpart for the administration thread, and that the visited part of a pass has
  carried every live process over to `fresh`;
- `JobsOK`: a stop or reload waits for the only live process of its thread and script, and a launch has none;
- `ExitOK`: the final stops have yet to reach, or are waiting for, every live process of main.

The step proof first shows which actions give life to a process (`Launches`): a boot start, the end of a command and a
restart, each with the record it writes. All other actions leave every process its script and launcher (`Calm`), and
the conjuncts are shown one by one from that. Theorems: `TypeCorrect`, `Invariance`, `ChildrenAreTracked`,
`OneProcessPerLauncher`, `QuitIsClean`, `ConsoleStopHolds`.

The refinement `EngineKeepsScripts` rests on the same invariant. A step lets one process die (`DeathRefines`: then it changes
nothing else that is seen), or launches one (`BirthRefines`: by `JobsOK` or `RestartFindsNone` its thread has none), or
neither (`QuietRefines`: the end of a stop, where `JobsOK` says that no other process is left, a launch that failed, and the
way to the exit, where `ExitOK` does). Launches of the time when the dict is shared are stutters.

`RestartBackoffProofs.tla`, for any of the three policies, from `PoliciesAssumption`. `NoRestartStorm`
is not inductive, since it looks at the fifth restart only: `Spaced` says of every recent restart how many have been counted
since and that each has waited for the delay of its turn, `LatestIsLogged` that the latest one is what `last_start` stands
for. A reset of the count needs an age of more than ten seconds, after which nothing recent is left. Theorems: `TypeCorrect`,
`StormsAreBounded`, and `RestartsAreCounted`, the part of the docstring of finding 2 that does hold.

`AuctionHouseProofs.tla`, for any players, clients, listings, prices, fees and bridge, from `ConstantsAssumption`. `IInv` is
`TypeOK`, `Asks`, `OneTaker` and `Unclaimed` (a listing that is absent or active has been claimed by nobody), the link
between the status of a row and the history that `OneTaker` counts. `RowsStep` states what one step may do to a row:
nothing, create it, raise its bid while active, change the count alone, or end it while claiming it. `OneTakerWins`,
`OutcomesStay` and `BidsRise` follow from it. `TypeCorrect` is about rows and calls: a listing never comes to hold fewer
items than none, unless it was made that way (`Stock`), and every bid and price is one that somebody can have asked
(`Price`). For that it needs `Asks`, that a purchase which is about to be stored asks for no more than it has read; of
wallets it says only that they hold integers. `Truncation`, `WholeCoins` and `Division` are the arithmetic of whole coins.

`AuctionRefinementProofs.tla` proves `KeepsAuction` from the same assumption. The clients decide on rows they have read, so
the inductive invariant `RInv` says, besides `Asks`, what of that is still true when they write: a listing that was seen is
there and has the same seller (`CallsSane`), a selected bid is good and not above the present one (`BatchSane`), an active
row has no bid or a good one (`RowsSane`, which is also the theorem `BidsAreGood`). Under `RInv` every step is a step of
`Auction` or leaves its variables alone (`StepRefines`); and since steps of `Auction` never change a seller nor lower a bid
(`LotsKept`), the invariant survives them. So the refinement is also what makes its own invariant inductive.

Its second part proves `HighestBidCovered`: every step moves coins from one term of `Cover(l)` to another or adds to it,
except the UPDATE of a bid, which raises the whole coins of the bid and what its call has outstanding by the same amount,
computed from a row read earlier. So `CoinsInv` adds to `RInv` that the bid a client has read is still at most the present
one (`ReadsSane`) and states the cover for absent listings too (`Covered`).

`SumTheorems.tla` has the facts about the community operator `SumFunctionOnSet` which that needs, above all `SumChange`: a
sum over a finite set changes by what one term changes by. An induction theorem that takes a predicate cannot be
instantiated here, so the induction is over the set of the subsets that refute the equation: it is empty, for a smallest one
would need a smaller one.

`OutbidIsRefunded`, `ItemsConserved` and `HighestBidderWins` are violated (findings 3, 4 and 5). The last parts of
`AuctionHouseProofs.tla` prove that, of ordinary operations, the race each finding shows is the only cause. For items, ordinary
means that nobody lists or buys less than none; that is a hypothesis of the theorems, and nothing in the code sees to it:

- `OneAtATimeRefunds`: with one client and a reliable bridge every outbid bidder is refunded, or the refund is the next
  thing to happen (`RefundInv`: the escrow of each player is what the row and the call in progress say, `EscrowOK`).
- `OneAtATimeItems`: with one client, and quantities in `Nat`, the items in the listing, promised to the call in progress
  and handed out are never more than were listed, and the count a purchase has read is still true while the listing is
  active (`ItemsOK`).
- `WholeSalesKeepItems`: with any number of clients it is the same if listings cannot be sold in parts, that is if every
  purchase asks for at least `ItemCount` items or there is no price to buy them at: items move when a listing is claimed
  (`WholeOK`), and `OneTaker` holds.
- `TimelyBidsWin`: with any number of clients and any bridge, a listing is sold for its highest bid, and expires only
  without one, in every behaviour in which no bid is stored on a listing between its selection by `expire_listings` and its
  turn (`NoLateBid`). Until then what was selected is still in the row (`SeenOK`). Purchases, cancellations and bids on
  other listings may come at any time.

The last part of `AuctionRefinementProofs.tla` is about coins. `_eco_deduct` answers True for a payment that failed, so a seller
can be paid with coins that nobody has lost, and a bid that was never paid can be refunded. `OneAtATimeCoins`: with one
client and a reliable bridge that does not happen, `NoNewCoins`: wallets and listings together never hold more than the
players began with, and no listing has given back more than it took. What was affordable when an operation began still is when
it pays (`PurseOK`, `BuyerCanPay`); what a bid in progress refunds is there even if the listing has ended (`RefundThere`);
and a seller is paid at most what the buyer pays (`PayoutIsLess`), in whole coins of both. The theorem assumes finitely many
listings, for the sum, and quantities in `Nat`: of a purchase of less than none the fee has the other sign, and the seller
loses less than the buyer is given.
`NoNewCoins` is no property of a run. It does not hold with an unreliable bridge, as in the run `auction`, and neither with two
clients: a bid and a purchase of one player, each affordable alone, can leave the second payment without coins.

The scheduler is not a client, and runs against the one client in these theorems too. TLC found each of these invariants to hold
on small instances before it was proved.

`EcoBridgeProofs.tla`, for any players, calls, requests and number of attempts, from `RetryAssumption`, `StartAssumption`,
`RequestAssumption` and `NoneAssumption`: `TypeCorrect`, `BooksBalance`, `OverdraftsAreAskedFor`, `ExactlyOnce`,
`TrueMeansDone`, and `BridgeImplementsWallets`, the refinement. `IInv` adds that lines are used in the order of attempts,
that the only open transaction has read what the wallets still hold, and that `done` counts the lines answered with success.

`PhooksHubProofs.tla`, for any clients, events and bounds: `TypeCorrect`, `TablesAgree`, `LastWordCounts`,
`DeafnessExplained`. `IInv` adds what letters on their way may say (`LettersOK`: the latest one is what was asked) and that
a client that claims to be registered has asked for it last (`ClaimsOK`). The theorems hold whether the hub's loop runs or has
ended.

`SessionBufferProofs.tla`, for a ring of any size and any number of messages and checkpoints: `TypeCorrect`, `NothingVanishes`,
`MarkedMeansStored`, `RecoveryIsWhole`. `IInv` adds that ring and snapshots are chains (`RingOK`, `SnapshotsOK`) that end
with `last` (`LastOK`); `VerifiedChain` shows that of a chain all or nothing is verified.

The refinement `SessionIsAJournal` needs `Ordered` as well: ring and snapshots hold their messages oldest first, and no
message that has not been appended. Then what a full ring drops is the oldest of what waits (`AppendSays`), what a failing
flush marks is what waits up to some message (`FlushSaves`), and since a recovery takes a snapshot whole or not at all
(`VerifiedChain`), what waits after it is one picture, and its own checkpoint is none that is new (`Recalled`). Note that
`Ordered` is kept by a recovery only because every snapshot is in order, and because messages are numbered by `appended`,
which a recovery does not set back.

Only model-checked: liveness (`CommandsEnd`, `ShutdownEnds`, `CrashIsRetried`, `CallsReturn`, `GoneAreForgotten`), which is out
of the prover's reach. All other properties of the passing runs are theorems. Violated properties are, of course, not.

## 11. Findings

1. `src/main.py:276`. After the first pass the UDP thread works on a dict that `main()` no longer reads. A remote stop that
   is stored from then on ends the process and answers "Stopped"; a later pass takes it for a crash and starts the script
   again. The trace has the end of the first pass (`MonitorEnd`), the stop, and a restart in the second pass.
2. `src/engine/process_wrapper.py:320`. The length of the last run is measured up to now on every cycle, also while the
   script is down. Ten seconds after any restart the count is reset, so delays beyond eight seconds are never waited,
   although the docstring promises growth to 30 seconds until a run was stable. `RestartsAreCounted` is what is left.
3. `ah_core.py:452`. Two bids that both read the row before either UPDATE: the bidder who was highest for a moment is never
   refunded.
4. `ah_core.py:568`. A partial purchase writes a count computed from an earlier read, into a listing that may meanwhile be
   sold or cancelled: more items are handed out than were listed.
5. `ah_core.py:839`. A bid checked before the end and stored between the scheduler's SELECT and its UPDATE is ignored: the
   listing expires with a bidder, or is sold at the previous price.

6. `session_manager.py:226`. Messages that the full ring pushes out before a flush are never stored, although nothing has
   failed. A test appends 25 to a ring of 10 and says "DB should have all 25" (`tests/test_integration.py:248`); it reads
   the count and asserts nothing about it. In the run `session` such messages are kept apart, in `pushed`.
7. `session_manager.py:500`. Of a checkpoint of a session longer than the ring nothing is restored, because the hash of its
   first entry covers one that is gone, although the class promises that the chain is verified and "messages are replayed"
   (`:103-104`). `AllOrNothing` says exactly which snapshots these are, and the run `session` reaches them.

For findings 3 to 5 section 10 has the theorems that no ordinary operation causes them otherwise. Findings 6 and 7 belong to
properties that hold: each says precisely what the code does in place of what is promised, and passes because of it.

`findings` in `PROJECT.json` quotes what the code or its documents say, and names the run that shows each trace.

## 12. Not modelled

The repository has about 105 thousand lines of implementation, most of it I/O, adapters to libraries, generated content,
formatting and sequential request handlers, for which a model would restate the code; the specifications cover the one
or two percent in which order, failure and concurrency decide. `components` in `PROJECT.json` gives the reason for each
part, and `hazards` the known hazards of parts that are not modelled:

- Multi-server manager. At this commit its `main.py` does not start (`SCRIPT_DIR` is used before it is defined, and the
  NameError is not an `ImportError`), and its `shutdown()` assigns `lifecycle = None` without `global`. Commands against the
  health loop across awaits are the next concurrency worth a module.
- Server runner: the journal of `atomic.py` is the next persistence worth a module.
- Process adoption: needs a model of the OS process table and of several lives of the engine.
- `socket_admin.py`: `main.py` uses the UDP administration, which `Supervisor` has, instead of it.
- Auction house: market events, `force_remove_listing`, the transaction table and the fallback balances; the limits per
  player are in the model, but its instances have one key.
- `tool_queue.py`: nothing calls it.
