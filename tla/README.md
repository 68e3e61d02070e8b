# A verification project for storage-node

`src/` is the host of a decentralised storage service: a Python process that
receives shards of files from uploaders, keeps them while they are under
contract, and serves them again.  This directory holds TLA+ modules of its
core, the TLC configurations that check them, and proofs for TLAPS.

Parse with `tlasany M.tla`, check with `tlc -config C.cfg M`, prove with
`tlapm M.tla`.  `PROJECT.json` lists components, runs, mutants, the source
lines behind each definition, findings, hazards and theorems.

## 1. Inventory

One process, many threads.  `StorageNode.initialize` prepares directories and
configuration, logs in, looks at the network and resumes what the last process
left; `run` starts three daemon threads, and every request gets one more.

| Component (source) | State it keeps | Operations | Correct when |
|---|---|---|---|
| `ConnectionLedger` (connection_ledger.py) | `Cache/connections.txt`; the semaphore in `NodeConfig` | `register`, `unregister`, `list_all` | no transfer's entry is lost or kept by another's call; no path keeps the semaphore; the answer says what happened |
| `FragmentReceiver`, `ZmqSessionManager` (chunk_transfer.py) | a PAIR socket, the shard's file, its place in the protocol | `receive_data`: start, resume offset, data/ACK, END, one reconnection | the file is always a prefix of the shard; confirmed means stored; the thread ends |
| `FragmentSender` (chunk_transfer.py) | a socket, a read position | `send_data` | the peer can assemble exactly the file; the entry and port are given back |
| `RequestDispatcher`, `IntegrityVerifier` (request_dispatcher.py) | none of its own | `dispatch`: audit, upload, download; port allocation | a port serves one transfer; a pending transfer is in the ledger |
| `PortScanner` (node_utilities.py) | none | `find_available_port` | the port is free when it is bound |
| `ContractEnforcer` (service_workers.py) | a listing and an answer, for one pass | `_purge_and_claim` every twelve hours | removes what has expired and nothing else; goes on for ever |
| `CommandListener`, `PulseEmitter` (service_workers.py) | a listening socket | accept and dispatch; heartbeat | one request cannot stop the others |
| `NetworkWatcher`, `NetworkChangeHandler` | addresses in `NodeConfig` | `check_once`, two handlers | backend and router know where the node is |
| `SessionRecovery`, `AuthenticationPrompt` (startup_interface.py) | none | resume each ledger entry; log in | each pending transfer is resumed once |
| `ConfigFileManager`, `NodeBootstrapper` (node_utilities.py) | `Cache/config.txt` | first run, read, write, `verify_primary_port` | a crash leaves a node that can start |
| `CoordinationClient` (backend_client.py) | token | HTTP calls, errors swallowed | a failing backend stops no thread |
| `RouterPortManager`, legacy_port_forwarder.py | mappings in the routers | `forward_port`, `is_port_open` | the answer describes the mappings |
| mock-server, tests | a backend's tables | test doubles | - |

How they interact.  The listener starts a thread that runs `dispatch`, which
asks the scanner for a port, registers the request with the ledger, tells the
peer the port and runs the receiver or the sender; these talk to the peer over
ZeroMQ, to the backend over HTTP and unregister at the end.  Everything else
meets through shared state: the ledger file, the data directory (receiver,
sender, verifier and enforcer, without any lock), the ports, `NodeConfig`.

What is hard.  Transfers survive lost frames, lost acknowledgements, timeouts
and restarts, but frames do not say which bytes they hold, so everything rests
on the order in which frames, acknowledgements, offsets and writes happen.  The
enforcer judges files by a listing and an answer that are both old, and knows
nothing of the transfers that use these files.  The ledger is rewritten in
place.  The full list is under `hazards` in `PROJECT.json`.

## 2. The modules

```
PendingTransfers   <= implements =  ConnectionLedger  <- ConnectionLedgerProofs

TransferPromise    <= implements =  FragmentReceiver  <- FragmentReceiverProofs
        ^                               ^ extends
        |                           UploadUnderPurge  <- UploadUnderPurgeProofs
        |                               v instance
        |                           ContractEnforcer  <- ContractEnforcerProofs
        |
        += implements =             FragmentSender    <- FragmentSenderProofs

SequenceFacts <= extends = FragmentReceiverProofs, FragmentSenderProofs

Transfers     <- TransfersProofs       (uses the promise of PendingTransfers)

DummyBackend, Gateways  <= extends =  StorageNode  <- StorageNodeProofs
```

**PendingTransfers** (abstract).  A multiset of pending transfers with calls
that take effect in one step, between being asked and returning.  A call that
fails has changed nothing (`Refuse`) or lost everything (`Wipe`), and this only
if the store is `Lossy`.

**ConnectionLedger.**  One action per step of a call that another thread, a
crash or a failing disk can come between: `Call`, `Acquire`, the read (one
action for each method and for the missing entry), `OpenTruncates`, `Dump`,
their failures, `Release`; `Crash` ends all threads and keeps the file.  The
list in the file becomes a count for each entry.  `pending`, the abstract
multiset, is the file's content, except while a call is between truncating and
filling it: then it is what the call read.

**TransferPromise** (abstract).  A prefix that grows, is confirmed only when it
is whole, or is abandoned.  For an upload the prefix is in the host's file and
`done_uploading` confirms it; for a download it is at the downloader and END
confirms it.

**FragmentReceiver.**  The thread in `receive_data`.  `pc` names the statement:

| `pc` | source |
|---|---|
| bind, start | 249-258: bind; send `start`, with no timeout |
| open, append | 188-194: no file: create it; otherwise send its size, then open it to append; if `open` raises the thread ends (`OpenFails`), in a reconnection the upload is given up (`ReopenFails`) |
| recv, ack, write | 196-208: receive; acknowledge; write |
| lost | 267: the first loop ended by an exception |
| restart, offset | 217-235: new socket, `start`, size of the file, open to append |
| finish, confirm, unregister | 273-283 |
| dead, down, end | an exception nobody catches; a dead process; the method has returned |

The file is four variables: `linked` (its name exists), `size` (units written
through the handle), `good` (how many of them from the first are the right
ones), `flushed` (how many have left the handle's buffer, which is all that
`getsize` sees and all that a crash leaves).  The wire is two queues towards
the host (`outbox` in the uploader's socket and on the way, `inbox` arrived) and
one back.  Losing a connection loses a suffix or prefix of what was on it; what
the uploader's socket had not sent stays with it and, with `Reconnects`, goes to
the host's next socket, as ZeroMQ does it.  The uploader is external: it sends
chunk by chunk, waits for each ACK, and on anything unexpected opens a new
socket and expects `start` and `resume`.

**FragmentSender.**  The thread in `send_data`.  `pc` names the statement:

| `pc` | source |
|---|---|
| check, bind, start | 129-137: is the file there; bind; send `start`, with no timeout |
| open, negotiate | 139-143: open the file; unless the transfer is new, wait for an offset and seek |
| read, send, ack | 79-90: read a chunk; send it; receive any frame, read the next |
| lost, restart, offset | 151-154, 97-118: new socket, `start`, offset, seek |
| finish, close, unregister | 156-166: END; close; leave the ledger |
| dead, down, end | an exception nobody catches; a dead process; the method has returned |

`offset` is where the chunk at hand begins.  The downloader, which is external,
adds every `data` frame to what it has, sends an ACK for each, and after a lost
connection comes back with `resume` and the number of units it has.  `good`
counts how many of its units, from the first on, are the shard's.  It comes back
on a new socket each time: frames that a reconnecting socket keeps are modelled
for uploads only, where they go to the side that stores.

**ContractEnforcer.**  A pass as `List`, `Query` or `QueryFails` (or `QueryRaises`,
which ends the thread: a 200 whose body cannot be read), then `Remove`,
`RemoveFails` or `Claim` for one fragment after the other in any order,
`EndPass`, `Wake`.  A 200 without `"shards"` counts as an answer that names none;
`ListsContracts` says whether the backend's 200s always carry the list, which
`RemovesOnlyExpired` needs.  Uploads and contracts, which are external, begin and end
between any two of these.

**UploadUnderPurge.**  A FragmentReceiver and a ContractEnforcer for the same
shard: the enforcer's `disk` is the receiver's `linked`, and an upload that
`done_uploading` confirms changes the enforcer's `contracts`.  A file that is
unlinked while it is open goes on under its handle.  `NothingToResume`, the step
of `_attempt_reconnect` for a file that has gone, is an action of this module:
without an enforcer no state of FragmentReceiver enables it.

**Transfers.**  Several requests, from the connection of a client to the end of
the transfer; a transfer itself is one step here, `Serve`, that need never be
taken, and a call of the ledger is one step, as PendingTransfers promises.

| Action | source |
|---|---|
| `Connect`, `SendRequest`, `SendGarbage` | the clients, external; `HasRoom` is `listen(5)`: whom the backlog has no room for waits outside |
| `Accept`, `Dispatch`, `Choke` | `CommandListener.run_forever`: accept; read and start a thread; an exception that ends the listener |
| `Audit` | the branch of `dispatch` for audits |
| `Draw`, `DrawRaises`, `EndProbe` | `find_available_port(is_primary=False)`: a port that the probe can bind; the search for routers raises; the probe lets go of the port |
| `Register`, `RegisterFails`, `Tell`, `TellFails` | `_allocate_transfer_port`: into the ledger, then the port to the client |
| `Bind`, `Missing`, `Serve` | the transfer binds, or cannot; a download of nothing; the transfer |
| `Unregister`, `UnregisterFails` | the end of `receive_data` and `send_data` |
| `Crash`, `Recover` | the process dies; `SessionRecovery.resume_pending` at the next start |

A port is not a resource that anybody owns: it is whatever `port[r]` says, and
taken while a socket is bound to it.  The probe binds 127.0.0.1 and a transfer
binds `config.local_ip`, which is the address of the node's interface in every
mode, for StorageNode always passes a router manager: a probe meets other probes
(`TakenForProbe`) and a transfer other transfers (`TakenForTransfer`).

**DummyBackend.**  The tables of mock-server/dummy_backend.py and one operator
for each route that changes or reads them.  `updateConnection` and
`shardDoneUploading` are two steps each, as in the code: the token is looked up
outside the lock (`...Enters`), and what is done under the lock comes later, when
a reset may have emptied the tables; it then answers 500, and a shard is entered
nevertheless.  The status of the answer is a parameter, so that the caller's
action takes the step with the answer it gets.

**Gateways.**  `forward_port` and `is_port_open` over a sequence of devices;
what a device is (it maps, it refuses, it is something else, its profile makes
the parser raise) is external and does not change.  `Discoveries` is what the scan
can return: it ends at the first answer, so one device or none, and it raises
without a network (`MayRaise`); nothing catches that, nor what the parser raises.

**StorageNode.**  `initialize` and `run` up to the threads that run for ever, and
the session with the backend.  `pc` names the call:

| `pc` | source |
|---|---|
| dirs, connections | `initialize_directories`: Cache, then connections.txt in it |
| config, scan, write, fill | `setup_first_run`: no config.txt: find a port, open the file, fill it |
| public, login | the public address; `AuthenticationPrompt.run` |
| read | `read_config` |
| checkpublic, newip, checklocal, rewrite, refill, publish | `NetworkWatcher.check_once` and its two handlers; newip: a call of `update_connection` |
| verify, rescan, report | `verify_primary_port`; `update_connection` |
| listen, running | `run`: the listener binds; confirmations |
| dead | the process has ended or crashed, or a search for routers raised (`SearchRaises`); `Restart` is the next start |

`sameRoutes` says whether client and backend name the same routes.  In this
repository they do not (see the findings): FALSE is the source as it is, TRUE is
a backend with the client's routes.  Both are checked.

**SequenceFacts.**  Not of the code: lemmas about `Tail`, `Append`, `Prefixes`
and `Suffixes`, the operators that the wires are modelled with.

## 3. Runs

| Run | Question and bounds |
|---|---|
| `ledger` | 3 threads, 2 entries, failing disk, crashes; `MaxCopies` is 1, and as threads that were let through together register together the file still holds up to 3 copies of an entry.  Mutual exclusion, no stale rewrite, refinement of PendingTransfers, and that every path gives the semaphore back.  Three threads are one inside, one waiting and one to be overtaken; two entries tell losing one from losing all.  Fairness: the thread inside takes its next step; nothing it does there waits for another thread. |
| `upload_network` | 5 units in chunks of 2, so that two frames are full, the third is not, and an upload can be resumed twice and off the chunk's border; breaks, timeouts, failing binds and an uploader that gives up at any moment.  Prefix, confirmation, exact resumption, stop and wait, refinement, and that the thread ends.  Fairness: the host's thread runs and its timeouts expire; nothing is assumed of network and uploader.  `UploadCompletes` states its own assumptions: if the wire delivers, the uploader goes on and connections break no more from some moment on, the upload is confirmed and leaves the ledger, unless it was `Disturbed`: the connection was lost after it was in use, a timeout or a bind failed, or the backend could not be told.  Connections may break any number of times before that. |
| `upload_crash` | 5 units, disk failures and crashes at any moment, any number of restarts, with uploaders that never reuse a socket: the prefix and the confirmation hold, and resumption is exact even from an offset that a process sent before it died. |
| `upload_crash_stale` | the same with a socket that reconnects by itself: **violated**, finding 1. |
| `upload_existing` | a host that has 2 units of the shard, of 5, before a new upload of it: **violated**, finding 2. |
| `download_network` | 5 units in chunks of 2; breaks, timeouts, crashes and restarts, a disk that fails, a file that is removed, a downloader that gives up at any moment.  Prefix, refinement, and that the thread ends.  Fairness: the host's thread runs and its timeouts expire; nothing is assumed of network and downloader.  `DownloadCompletes` is the counterpart of `UploadCompletes`, and promises nothing of a shard that is not there. |
| `enforcer` | 3 fragments, queries and unlinks that fail: nothing under contract is removed, and what has expired is removed unless a failed unlink or an unreadable answer has ended the thread.  The backend's 200s carry the list (`ListsContracts`).  Fairness: the thread runs, and the backend answers again and again (strong fairness of `Query`); without the latter nothing may ever be removed, rightly. |
| `enforcer_withdrawal` | the default `server_url`: **violated**, finding 3. |
| `purge_contracted` | both threads on one shard of 3 units, contract made before the upload, network and queries fail, the contract may end at any moment: a confirmed shard under contract is stored, and the receiver ends although its file may vanish under it. |
| `purge_uncontracted` | a backend that lists a shard only once confirmed: **violated**, finding 4. |
| `transfers` | 2 requests of any kind, 2 ports, `Backlog` 1 (5 in the code), a disk that fails, crashes and restarts without bound.  Two requests can draw the same port, one port is then left over, and one request can wait behind the other's connection, or outside.  A client that was told its port is in the ledger; every connection is answered; who was told a port is served, also after crashes.  Fairness: threads run and a process that died is started again; a transfer need not end, and that clients send what they connect for is an antecedent of `RequestsAnswered`. |
| `node` | 3 ports, 2 addresses in the LAN and none, 1 public one, 2 routers of any kind, 2 tokens, 1 shard; `MaxEvents` is 2: two crashes, moves, lost ports or lost backends at any two moments, so that a second failure meets the start after the first.  Two tokens are two sessions: who has the last one neither crashes nor asks routers that make it raise (`SessionLeft`), which leaves the death of one session and all that follows.  Whom the backend sends to the node finds it, the port is forwarded, confirmed shards are kept, and the node is up again in the end, unless config.txt was left empty, if the backend has its routes and its search for routers stops raising (`RoutersTolerable`).  Fairness: the process runs and is started again, and the backend ends what it has begun. |

Deadlock is checked for the ledger and for `transfers`.  It is switched off for transfers: one
that has ended has no next step, and one whose peer never comes waits at
`start` with no timeout, as the code does.  It is switched off for the enforcer
in `enforcer`, whose thread dies of an unlink that fails or an answer that cannot
be read, and in `node`, where no token may be left to log in with.

Every property of a passing run has a mutant: a definition next to the one it
would replace (`Reset_LeavesFileOpen` by `Reset`), marked `Mutant:`, that holds
the plausible mistake the property is there to find.

### Findings

1. *An acknowledged frame can be lost and the upload still be confirmed*
   (chunk_transfer.py:204-205).  The ACK goes out before the write; the host
   fails; the uploader's socket, which holds the next frame, reconnects to the
   restarted host on the same port, and the frame is appended where the lost
   one belongs.
2. *A new upload of a shard the host has part of is corrupted and confirmed*
   (chunk_transfer.py:191).  The host resumes an upload whenever the file
   exists; a new uploader sends its first frame without waiting for an offset,
   as the test client does, and the host appends it to what it has.
3. *The enforcer's thread ends at the first fragment it keeps*
   (backend_client.py:134): route without `/`, `httpx.InvalidURL`, uncaught.
4. *The enforcer removes files that are being received*
   (service_workers.py:114) if the backend lists a shard only once confirmed.

More was met in the source, and is in the models as the code does it, without a
finding, as nothing in the repository says otherwise:

- `backend_client.py` and `mock-server/dummy_backend.py` do not agree on a single
  route, although dummy_backend.py:2-3 is there to "let the Host-Node run end-to-end
  locally" and test_backend_client.py:47 and 135 state the client's routes.
  StorageNode has both worlds (`sameRoutes`); in that of the source every login is
  refused and the node never runs, which is theorem `RefusedNeverRuns`.  `StartsAgain`
  is about a backend that has the client's routes.
- `write_config` opens, and so empties, config.txt before it adds `"\n"` to an
  address that may be None.  The next start reads an empty file and raises, and
  so does every start after that: `config = Empty` in `StartsAgain`.
- A node whose mode asks routers does not survive their search without a network
  (`sendto` in `scan_for_gateways` is outside every try), nor a router whose
  profile does not parse: it dies at every start until that has passed, which
  `StartsAgain` excepts (`RoutersTolerable`).
- The dummy backend looks the token up outside its lock and enters a shard before
  it looks the host up: a `debug/reset` in between leaves a shard of a host that it
  does not know.  No property claims otherwise.
- `get_active_contracts` takes a 200 without `"shards"` for the answer that there
  are none, upon which the enforcer removes everything; `RemovesOnlyExpired` is
  about a backend whose 200s carry the list.
- `NetworkWatcher.run_forever` is never started: `check_once` looks at the network
  once, before the listener binds.  An address that changes later stays reported.
- A restart logs in to a new token, and `active_contracts` of the dummy backend
  goes by token: what an earlier session confirmed is no contract of this one.
- The scan for gateways ends at its first answer, so one that refuses hides one
  that would map.
- The probe of a port binds 127.0.0.1 and transfers bind `local_ip`, so that a port
  that is being served is given to the next transfer as if it were free; its
  bind then fails (`Contended` in `ToldIsServed`).
- A request that is no JSON ends the listener, and with it all requests to come
  (`listener = "dead"` in `RequestsAnswered`).

## 4. Proofs

All theorems hold for every value of the constants, under the named ASSUMEs
of the modules, which only give types to the constants.

**ConnectionLedgerProofs.**  `IInv` is `TypeOK`, `OneInside`, `FreshWrite` and
`Locals`.  `OneInside` alone is not inductive: that the release cannot lift the
semaphore above one needs to know that it was taken, which its second conjunct
says.  `FreshWrite` needs `OneInside` (nobody else writes between a read and
the rewrite) and `Locals` (an unreadable file counts as empty).  From `IInv`:
`TypeCorrect`, `MutualExclusion`, `NoLostUpdate`, and `LedgerKeepsPromise`, the
refinement of PendingTransfers, with one lemma per action for the abstract
step it maps to.

**FragmentReceiverProofs.**  For an upload of a shard the host has nothing of,
when neither host nor disk fails (`Healthy`) or no socket of an uploader that was
given up comes back (`Crashing`, below); if both can happen, or the host has part
of the shard, the theorems are false, which is what findings 1 and 2 are.  Network,
timeouts, uploader and the lengths of shard and chunks are arbitrary.
`ShardIsPrefix` is far from inductive.  What makes it so is that the protocol is stop and wait across
reconnections (`StopAndWait`): at most one frame is anywhere between the
uploader and the file, and it fits the end of the file, or of the file as it
will be once what is acknowledged is written.  That an uploader never resumes
with a wrong offset, or takes an old ACK for the one it waits for, are
`ConnectInv` and `AckInv`; `FileInv` says when the handle's buffer is empty and
when the shard is complete.  From these: `TypeCorrect`, `AlwaysPrefix`,
`ConfirmedIsStored`, `OneFrameInFlight`, `ResumesExactly`, and
`UploadKeepsPromise`, the refinement of TransferPromise.

The second half of the module is about a host that may crash and restart at any
moment and whose disk may fail (`Crashing`: any `Faults` and `Unreliable`, but
`Reconnects = FALSE`).  There a write that fails leaves half a frame, a crash takes
back what was acknowledged, and a socket that is not connected may hold frames
that fit nothing; `IInv` is lost.  `CrashInv` says the same of less: of the
connection there is (`attached`), while the host listens (`OnLine`).  Each
restart begins with a new connection, on which nothing has been said, and on
which the host says first how far the file goes.  `StoredInv` is about the file
alone and holds whatever became of the process: the buffer is empty whenever a
restart measures the file (else an uploader would be sent to a place before the
end), and what was confirmed is flushed (else a crash could take it back).
`PrefixSurvivesCrashes` and `ConfirmedSurvivesCrashes` follow.  An uploader may
read an offset when the connection, or the process that sent it, has gone;
`ResumeInv` adds that it is still the end of the file: while it is on its way no
frame is left to append, and the buffer is empty, so that no crash moves the end.
It gives `ResumesExactlyAfterCrashes`.  `StopAndWait` and the refinement do not
hold there: a crash makes the prefix shorter.

**FragmentSenderProofs.**  No hypothesis but the types of the constants: crashes,
restarts, a failing disk, a file that is removed and a downloader that gives up
are all in.  `AssembledIsPrefix` needs to know where every frame on its way
begins.  `StreamInv` says it of the frames that a downloader will add (`Greeted`:
it is past `start`, or `start` is what it reads first): each begins where the
one before it ends, the first where the copy ends, and END comes when nothing is
left.  That the host goes on where the stream ends is `PositionInv`: while it is
`attached` to the downloader it greeted, its read position is where the last
frame sent ends, and before it seeks every offset it can receive is the length of
the copy.  `ConnectionInv` keeps it so: a connection made while the host is
about to greet has nothing on it, and END is the last thing said on one.  From
these: `TypeCorrect`, `AlwaysPrefix`, and `DownloadKeepsPromise`, the refinement of
TransferPromise.

**UploadUnderPurgeProofs.**  `ContractedStaysStored`, for a healthy host and
contracts made before uploads.  The invariant `PurgeInv` joins the two: the
enforcer's `Judged`, and the whole of the upload's `IInv` for as long as the shard
is under contract.  The steps of the upload keep it by the lemma about `IInv`; a
step of the enforcer leaves the file alone while there is a contract, by
`Judged`; and a contract that has ended does not come back, so nothing need be
known of the file after that.

**ContractEnforcerProofs.**  `TypeCorrect` holds for every enforcer.
`NothingUnderContractRemoved` follows from `Judged`: what the pass has listed and not found in the answer is not under contract, then or
later.  It is inductive because the directory is read first (`Begun`: whatever
was listed can come under contract no more), and needs `Orderly`: contracts are made
before uploads (`ContractAtStart`), without which the property is false (finding 4),
and a 200 carries the list (`ListsContracts`).

**TransfersProofs.**  For any set of requests and ports.  `AcceptedIsPending` is
not inductive: it needs that no client was told anything before `register`
(`ToldIsRecorded`), and that no request is dispatched a second time, which would
begin without an entry; this holds because a request is in the listener's hands
only once (`WaitsOnce`, about the backlog and the connection it reads from).
From `IInv`: `TypeCorrect` and `AcceptedStaysPending`.

**StorageNodeProofs.**  For any addresses, ports, routers, tokens and shards and
any `MaxEvents`.  That whom the backend sends to the node finds its listener
rests on where the port is still allowed to move (`ReportIsSettled`: not after
the report), that a confirmed shard is a contract on that nothing is confirmed
before the login (`ConfirmsInSession`), and that a file which is read is there
on `FileIsRead`.  Since a call of the backend is two steps, both also need that
what the backend is still busy with is this session's, and the address in it the
one the node has settled on (`CallsAreMine`).  `ServedIsForwarded` has its own small invariant,
`ForwardIsSettled`, and needs no types.  Theorems: `TypeCorrect`,
`ReportIsServed`, `ConfirmedIsKept`, `ServedStaysForwarded`.  Two more are about what was met in the source (section
3): `RefusedNeverRuns`, that a node and a backend that name different routes never
get to run, and `EmptiedStaysLost`, that no start repairs a config.txt which a
failed `write_config` left empty.

Model-checked only: everything about liveness (`SemaphoreReturns`,
`ReceiveReturns`, `UploadCompletes`, `SendReturns`, `DownloadCompletes`,
`ExpiredIsRemoved`, `ReturnsUnderPurge`, `ToldIsServed`, `RequestsAnswered`,
`StartsAgain`), which the prover cannot do.  Every invariant and every action
property that a passing run checks is a theorem.

## 5. What is not modelled, and the plan

Not modelled:

- legacy_port_forwarder.py.  Nothing imports it; router_gateway.py replaces it.
- The banner, the command line and the tests' helper functions: output and
  arguments.  What the end-to-end client does on the wire is in FragmentReceiver
  and FragmentSender, as the external peer.
- The heartbeat (PulseEmitter, `send_heart_beat`, the dummy backend's route for it):
  it writes a log that only a debug route reads, and the node ignores the answer.
- `withdraw` of the dummy backend: it appends to a log that nothing reads back.
  The node's side of it is `Claim` in ContractEnforcer.
- What a mapping says beyond its port (target address, lease, label), and the
  parsing of SOAP and XML.  The mappings that a transfer asks for and closes:
  what forwarding a port does is in Gateways, and transfers ignore the answer.
- Requests that come with a port of their own: no client of the repository sends
  one; `Recover` does, and there it is modelled.
- auth.txt: it is created empty, and nothing writes it or reads it.

Abstracted: the encoding of frames (pickle; a frame that cannot be decoded is
an exception in `_receive_chunks`, as a timeout is) and log messages.  A test
that a file exists and the reading of its size are one step.  A shard comes
under contract once.  A second upload of the same shard at the same time is not
modelled.  A ZeroMQ context that is replaced is taken to go away at once;
collecting it may wait for frames that its closed socket still has to send.  In
Transfers the probe and the bind of a transfer are steps of their own, but other
programs take no ports; in StorageNode they do, and the scan is not followed
past the largest of `Ports`.  A token is never given out again.  A handler of the backend that has looked the token
up has only a lock to wait for: it ends before its client's timeout, and before a
process that is started again logs in (`NothingInside` in `Restart`).

To come, in this order:

1. Two uploads of one shard at the same time, which share a file: a composition
   of two FragmentReceivers.
2. `RemovesOnlyExpired` against a FragmentSender, whose file can go while it is
   read: what the downloader is left with.
