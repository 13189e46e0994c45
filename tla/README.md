# A verification of CatSurf and its deployment

The repository is a docker-compose deployment ("Inception": nginx, WordPress,
MariaDB, redis, adminer, a static site) with one program of its own, the C++17
HTTP server CatSurf in `srcs/requirements/bonus/webserv/tools` (below: `tools`).
This directory holds TLA+ modules that model the server and the two boot scripts,
TLC configurations that check them, and proofs checked by TLAPS.

## 1. Inventory

CatSurf is one thread around `epoll_wait`. Concurrency comes from outside: its
CGI scripts are child processes, the kernel reports readiness and SIGCHLD in any
order, and clients come, stall and go.

| Component | State | Operations | Hard behaviour | Correct when | Module |
|---|---|---|---|---|---|
| CGI manager `src/cgi/cgiManager.cpp` | five tables of processes by descriptor, client and pid; the process objects | `launch`, `handleEvent` on three pipes, `handleChildExit`, `handleClientClose`, `notifyClientWritable`, `checkTimeouts`, `feedStdin`, `finishStdin`, `cleanupProcess` | exit, end of file, client close and timeout in any order; back-pressure; raw pointers; descriptor reuse | tables, objects and descriptors agree; a client is answered once; no child is forgotten | CgiManager, Exchange, CgiExchange |
| Event loop and connections `src/server/server.cpp` | `clients`, the listening sockets, the self-pipe | `run`, `new_connection`, `read_client`, `client_write`, `finalize_response_write`, `close_client`, `close_drained_clients`, `check_timeouts`, `reap_children` | a batch of events some of which a handler has made stale; descriptors reused within a batch | every descriptor has one owner; nobody is hung up on; every request ends | EventLoop |
| Poller `src/poller/poller.cpp` | the epoll set | `add`, `update`, `remove`, `wait` | level-triggered; errors reported as readable and writable | only open descriptors are polled, and for a reason | EventLoop, CgiManager |
| Static files (`server.cpp`) | file, remaining count, chunk buffer | `start_static_file_stream`, `write_static_file_chunk` | partial writes, files that end early | the next answer begins where this one ends | EventLoop |
| Request parser `src/httpRequest` | state, buffer | `parseRequest`, `clear` | requests cut anywhere, several on a connection | the request is the same however it was cut | HttpRequest |
| Uploads (`server.cpp`) | file, counters, multipart and chunk buffers of a connection | `startUpload`, `processBody`, `write_body`, `parseMultipart`, `processChunkedBody`, `uploadComplete` | bodies cut anywhere; unsigned counters; disk errors; abandonment | a 201 means that the file holds the body | Connection |
| Router, virtual hosts `src/router`, `findServer`, request handler `src/httpResponse` | none; the file tree they act on | `findServer`, `findLocation`, `mapURI`, `route`, upload, `deleteFile` | prefixes, `..`, links, PATH_INFO, what earlier requests left | stays below the root; changes only uploads | Routing |
| Bot detection `src/botDetection` | samples by fingerprint | record, trim, analyse | sliding windows, two kinds of trimming | trimming never changes a decision; browsers pass | BotDetection |
| Captcha bypass `src/captchaBypass` | clearance store | `hasValidBypass`, `createBypass`, expiry, eviction | limit, expiry and redrawn tokens together | a fresh token is honoured, and only for its owner | Clearance |
| Configuration `src/configParser`, `Server::init` | the servers read so far | directives, ends of blocks, listening | order of the file; units and widths | what the other parts rely on is there | Configuration |
| Boot scripts `mariadb/tools/init.sh`, `wordpress/tools/init.sh` | volumes that survive a restart | guarded initialisation | stopped at any step and restarted | initialised once, completely | ComposeBoot |

How they interact: `run` hands every ready descriptor to the self-pipe handler,
the CGI manager, `new_connection`, or the connection's `read_client` /
`client_write`; the CGI manager holds raw pointers to `ClientCon` objects and
writes their `response_out`, `res_ready`, `keep_alive`, `close_after_send` and
poller interest directly; the server calls back with `handleClientClose`,
`notifyClientWritable`, `feedStdin` and `handleChildExit`. A connection's request is
routed, passes the bot gate (bot detection and the clearance store) and becomes
a file, a script, an upload or an answer at once. What the configuration parser
establishes is assumed by routing (roots and upload directories exist) and by
the event loop (timeouts are positive).

`PROJECT.json` lists every component with its status and every hazard with its
line.

## 2. Plan

Done, in this order: **CgiManager** with **Exchange** and **CgiExchange** and
their theorems; **EventLoop** with its theorems; **HttpRequest** and
**Connection** with its theorems; **BotDetection**, **Clearance**, **Routing**, **ComposeBoot** and
**Configuration**, each with its theorems.

Left, in order of worth:

1. Peers that ask for a second script before they have the answer to the first
   (two processes for one connection, `clear()` skipped while a script runs), and in
   EventLoop peers that ask for anything early.
2. Descriptor inheritance by children (no close-on-exec).
3. Theorems about the chunked and multipart uploads of Connection, which those of
   section 6 leave out.
4. `HangsUpAfterAnswer` as an action property that also names the one exception
   (`MCStale`), proved for any number of peers.

EventLoop is not stated to implement CgiManager or Exchange: it lets several
connections move in one step (a batch's sweep, `new_connection`), which Exchange
does not, and it knows of a script only what its connection sees of it. The two
modules share the vocabulary (`CleanupProcess`, `FinalizeResponseWrite`, `CloseClient`)
and each is translated from the code by itself.

## 3. The modules

**CgiManager.tla** models `cgiManager.cpp` whole and the part of `server.cpp`
it is entangled with. Each action is one handler run to its end, as the code is
single-threaded.

| Action | Code |
|---|---|
| `NewConnection`, `AcceptFails` | `new_connection`; the exception of `accept_connection` that ends the program, and the container's restart (`ServerEnds`) |
| `Respond` | `process_request` ending in any answer that is ready at once |
| `BeginUpload` | `process_request` with `startUpload`: `keep_alive` is decided, the answer follows with the body's last byte |
| `Launch`, `PipesFail` | `handleCgiRequest` and `launch`; its half-way failure |
| `FeedBody` | the streaming branch of `read_client` with `feedStdin`, `finishStdin` |
| `HandleStdin`, `HandleStdout`, `HandleStderr` | `handleEvent` on the three pipes with `emitResponse`, `forwardBody`, `enforceBackpressure` |
| `ClientWrite` | `client_write`, `drain_client_backpressure`, `notifyClientWritable`, `finalize_response_write` |
| `ClientLeaves` | `close_client` from `read_client`, `client_write` and `check_timeouts` |
| `Expire` | `checkTimeouts` for one process |
| `HandleSignalPipe`, `ReapChild`, `ReapDone` | `handle_signal_pipe`, the `waitpid` loop of `reap_children` with `handleChildExit` |
| `ScriptWrites`, `ScriptExits` | the scripts (external) |

`cleanupProcess` is `CleanupProcess` (the client stays) and part of
`CloseClient` (the client goes): both consist of `Release`, which leaves the
tables and closes the pipes, and of what happens to the client (`AfterCgi`).
The `waitpid` loop is the only handler cut into steps, one per child, because a
child may exit between two calls.

State: `open` is the server's descriptor table, `interest` the epoll set, `conn`
the `clients` map, `processes` ... `pid_map` the manager's tables, `proc` the
`CgiProcess` objects, `script` the children with what is in their stdout pipe,
`sigPipe` the self-pipe. Data is counted in units, one for a header block and one
for each read's worth of body; `unsent` is `response_out.size() - sent`.

Abstractions: a process object is identified by its pid, so the kernel is assumed
not to reuse a pid while an object remembers it. A script's stdout ends when
the script does (no script closes stdout and goes on, and none leaves a
grandchild holding it). A `read()` loop on stdout takes everything the pipe
holds. `fork` failing after three pipes is `Respond`, as everything it opened is
closed again. `response_started` equals `headers_complete` between handlers and
is not kept. `chunked_mode` is never set, so `finalizeChunk` does nothing. A
handler sees the current interest of its descriptor, not one from an older
batch (that is the subject of EventLoop). `close_drained_clients` finds nothing in
these flows, because whatever sets `close_after_send` also leaves `res_ready` or a
running script.

A peer need not wait. `read_client` does not ask whether a script is running: after a
launch the connection stays registered for reading (`server.cpp:1111`), so a request
sent early is parsed and answered (`Idle`, `Respond`, `BeginUpload`) until the first byte
of the script's response has the client registered for writing. From there to the
end of the process nothing but `finalize_response_write` decides whether it is read,
and that is what `RelayUndisturbed` is about. One thing is asked of peers: they do
not ask for a second *script* before they have the answer of the first
(`WaitsForScript`), because the second launch would overwrite `client_map`
(`cgiManager.cpp:349`), after which no property about the tables holds.

A write to a script that is gone raises SIGPIPE, which nothing in the program ignores.
Its default action ends the server; in the container of `docker-compose.yml` the
server is the first process of its pid namespace (`ENTRYPOINT` in exec form), which
the kernel spares every signal it has no handler for, so that there the write fails
with EPIPE and stdin is closed (`cgiManager.cpp:483`). `HandleStdin` has both. Whatever ends the
server (`ServerEnds`: this, or `accept()` out of descriptors) ends every connection, and
the model goes on as the restarted one. `accept()` reserves a descriptor before it looks for a
connection, so the last call of `new_connection`, which finds nobody, needs a free one too.

**Exchange.tla** states the promise: per connection a phase (closed, asking,
waiting, relaying, sending) and whether the answer being sent lets the connection
last. **CgiExchange.tla** maps the connection and the process that serves it to a
phase, and states that the manager implements Exchange and that every exchange
ends.

**EventLoop.tla** models `Server::run` itself: `Wait` collects a batch, one action
per event handles it, `Sweep` ends the round.

| Action | Code |
|---|---|
| `Wait` | `poller->wait`: what is ready, at most `MaxEvents`, in any order |
| `HandleSignalPipe` | `handle_signal_pipe` and the whole `waitpid` loop |
| `HandleStdout`, `HandleStderr` | `dispatch_cgi_event` and `handleEvent` |
| `NewConnection`, `AcceptFails` | `new_connection`: every waiting peer; the exception of `accept_connection` for want of a descriptor, which ends the server, and its restart |
| `ReadClient` | `read_client`, `process_request`, `start_static_file_stream`, `launch` |
| `ClientWrite` | `client_write`, `write_static_file_chunk`, `finalize_response_write` |
| `Ignore` | an event whose number belongs to no connection any more |
| `Sweep` | `close_drained_clients`, `check_timeouts`, `checkTimeouts` |
| `PeerConnects`, `PeerAsks`, `PeerResets`, `ScriptWrites`, `ScriptExits` | the environment |

A batch is a sequence of descriptors with the readiness they had when it was
collected; handlers open and close descriptors, and the kernel hands out the
lowest free one, so a number in the rest of the batch may have changed owner.
What the code does to several connections in one loop (`new_connection`, both
sweeps) is one operation on a set of them: as connections share nothing but the
descriptor table, only the numbers the new ones get depend on the order.
`Launch` needs six free descriptors and keeps two; with fewer, `PipesFail` answers with an
error page and leaves the ends of the pipes that were made open for good
(`cgiManager.cpp:200`): they are `lost` in the descriptor table, nobody's and never
polled, until the server ends.
Abstractions: a peer sends a request whole and waits for its answer; a script has
no body to read and writes one unit or fails; a read error on a file is a file
that ends (both close the connection).

**HttpRequest.tla** is the parser as operators on its state, **Connection.tla** one
connection on the wire: `ReadClient` takes any number of tokens off the wire and
runs `read_client` to its end (`Read`: the active upload's `processBody`, then
`parseRequest` on what `to_write` does not count, then `process_request` with
`startUpload`); `ClientWrite` sends the answer and goes on or closes; `Leave` is
`close_client`, by the peer or by the timeout; `Connect` and `SendRequest` are the
client. The file of an upload, with what a failed or abandoned one leaves behind,
is in `disk`. Abstractions: tokens (a request line, a header block, CRLF, a unit
of payload, a chunk size, a boundary) are equally wide and reads cut between any
two of them, except where `Asks` says that the network does not (`joined`); validity
is a flag of the request; header blocks are shorter than `MAX_HEADER_SIZE` and bodies
than `MAX_CONT_LEN`; multipart bodies have one part.

**BotDetection.tla** is one fingerprint's history: one action,
`AnalyzeAndTrackRequest`, adds a request after any gap, trims and scores. All times of
the code are multiples of 10 ms, and `Resolution` is how finely the model's clock
divides these: 10 makes it the code's milliseconds. The mean and the
deviation, computed in floating point, are compared as exact fractions, which is why
`Timing` returns the number and the sum of the intervals and `spread`, the sum of the squares of
their differences, which is the variance times the square of their number. The share
of missing assets is 0 / 0 where there is no document, and no comparison with it
holds (`Share`). Loops that count are cardinalities of sets of positions, loops that
push back or add up are recursive functions (`Kept`, `Total`). Configured: the limit, the sample
size, the length of a burst and the two minima of documents; fixed: times, scores and
percentages. The clock does not step back. Fingerprints do not interact.

**Clearance.tla** is the store with the bot gate: `Bypass`, `Analyzed`, `CreateBypass`
and `Tick`. A token is any that is not in the store, so one that was evicted may
be drawn again. `grant` is a history variable: whose a token is and when it last
counted, whatever the store has forgotten. What bot detection says of a request
is left open.

**Routing.tla** answers one request after the other (`Request`, `Sent`) on a tree of
files, directories and links that uploads and deletions change. `FindServer`,
`FindLocation`, `NormalizePath`, `MapURI`, `MapIndexPath`, `ResolveCgiPathInfo`, `Route`,
`Upload` and `Delete` are the functions of the code. A uri is the sequence of what
stands between its slashes. Abstractions: no name is the beginning of another
(so that a prefix of characters that ends at a slash is a prefix of names); roots
are absolute, normalised and no links; the extension kept in an upload's name is ignored;
an upload is one step (Connection has the rest); sizes and error pages are left
out. `RoutingAssumption` says that the tree at the start is a tree, that every endpoint
asked is one some server listens on, that a uri has at least its first slash, and that
roots and upload directories are there, which is what `RootsAreThere` of Configuration
establishes. `GeneratedAssumption` says that the names `generateFilename` makes (a counter
and the time) are in use nowhere else.

**Configuration.tla** reads the file one directive per action into the server and
the location under construction (`OpenServer`, `ServerDirective`, `OpenLocation`,
`LocationDirective`, `CloseLocation`, `CloseServer`, `EndOfFile`), then `Listen` and
`Serve` are `Server::init`, one step per address. Any exception is `Refuse`, and `Malformed` stands for everything a line
can have wrong by itself. A location takes over what its server has said *so far*.
Abstractions: directives nothing else depends on (error_page, server_name,
allow_methods, autoindex, botdetect, the cgi_ paths, the global ones) are left
out; unit factors, the day and the width of `size_t` are constants, so that TLC
can stand on both sides of each limit.

**ComposeBoot.tla** has one action per command of the two scripts that reads or
changes a volume, a stop before any of the steps in `StopsAt`, and the restart of a
container that has ended. The MariaDB and WordPress programs are external: what
their commands need and leave behind is in `Works`, `DbExec` and `data`.

The **MC** modules give TLC its constants and the symmetry that is sound: pids,
peers, tokens and fingerprints are symmetric, descriptors are not, as the kernel
hands out the lowest. The runs with liveness use no symmetry.

Definitions whose comment begins with "Variant" are alternatives of a
definition that follows them, each a plausible mistake (a table entry that
outlives its descriptor, one `waitpid` per SIGCHLD, ...). No action uses them;
substituted for the original, each makes a property fail, which shows that the
property is about the code.

## 4. The runs

`tlc -config MCOneClient.cfg MCCgiManager` and so on. Each run answers one question;
deadlock is not checked where the environment may stop for good (peers that have
sent all their bound allows, files that have been read, clocks at their bound).

| Run | Module | Instance | Distinct states | What it shows |
|---|---|---|---|---|
| `MCOneClient` | MCCgiManager | 1 connection, 1 pid, 7 descriptors, every header kind, bodies to 2, backlog to 3, early requests, fair | 14,386 | the tables agree (`TablesAgree`); a paused script has a backlog whose drain resumes it (`PausedHasBacklog`); from the first byte of its response to its end a script's client is not polled for reading (`RelayUndisturbed`); no connection is wedged (`ClientArmed`); a connection is kept only after all the script wrote has been queued (`ReuseAfterWholeOutput`); Exchange is implemented (`ImplementsExchange`); every exchange ends (`ExchangeProgress`); every dead child is collected (`EveryChildCollected`) |
| `MCTwoClients` | | 2 connections, 2 pids, 9 descriptors, no bodies | 805,647 | `ClientsAgree`, `ChildrenWatched` and `OneOwner` while scripts run and exit beside each other and descriptors run out |
| `MCOnePeer` | MCEventLoop | 1 peer, 2 requests for answers, files of 0 and 3 units through a buffer of 2, and scripts; resets, no timeout, fair | 4,490 | no request before the whole answer, no count below zero (`NextRequestAfterWholeAnswer`); nobody is hung up on before the answer (`HangsUpAfterAnswer`); no busy loop and no connection left unwatched (`WatchedWithReason`); every request ends without the help of a timeout (`RequestsEnd`) |
| `MCTwoPeers` | | 2 peers, 8 descriptors, a file or a script each, batches of 3, timeouts | 107,600 | one owner per descriptor but for the ends a failed launch loses, also when numbers change hands within a batch and when descriptors run out (`DescriptorsOwned`) |
| `MCUploads` | MCConnection | 3 requests: pages, counted uploads of 0 and 2 units, a chunked and a multipart one; disk errors, clients that leave; fair | 30,557 | a 201 means that the file holds the body (`AcknowledgedUploadIsWhole`); nothing is lost or written twice on the way, no wrap-around (`UploadConserved`); nothing half made stays (`NoStrayFile`); each answer is its request's (`AnswersFit`); each request is answered (`RequestsAnswered`) |
| `MCBots` | MCBotDetection | every sequence of 5 requests of 3 kinds at 6 gaps | 2,000,719 | the history is a window (`HistoryIsWindow`); too many pages in a minute are blocked (`RateIsLimited`); the first page after as long a silence as Retry-After asks for is not (`SilenceLifts`); nor is a browser (`BrowsersPass`) |
| `MCCaptcha` | MCClearance | 2 fingerprints, 3 tokens, a store of 2, lifetime 2, clock to 5 | 9,778 | `StoreBounded`, `HonoursOnlyFreshOwn`, `ClearedIsNotChallenged` |
| `MCRouting` | MCRouting | 3 servers on 2 addresses, 10 locations, some 400 uris, links out of the root | 31,754 | server and location (`RightLocation`), normal form (`NormalKeepsWhatStands`), root (`ServesOnlyFromRoot`), scripts (`PathInfoIsTheRest`), what changes (`ChangesOnlyUploads`) and stays (`UploadsCanBeFetched`) |
| `MCBoot` | MCComposeBoot | 3 stops or failed downloads, before any step, fair | 1,360 | `ServedSiteIsInstalled`, `SetUpOnce`; both servers come up whole in the end with the site and its subscriber, unless a stop leaves the database, the configuration or the accounts half made (`BootCompletes`) |
| `MCConfig` | MCConfiguration | 3 servers, 2 locations, 4 addresses, directories there and not there, sizes and times on both sides of every limit | 1,683,152 | `LimitsInForce`, `RootsAreThere`, `EveryServerListens` |

Two more runs expect a violation (below): `MCBody` and `MCStale`. Type invariants are
conjuncts of the first invariant of their run (`NextRequestAfterWholeAnswer`,
`UploadConserved`, `HistoryIsWindow`, `RightLocation`, `EveryServerListens`); those of CgiManager,
Clearance and Configuration are proved (section 6), as is `IInv`; so are those of
EventLoop, Routing and BotDetection, and Connection's for counted bodies.

Bounds and why they are enough:

- *CgiManager.* `Threshold = 1` stands for the 128 KiB of `kBackpressureThreshold`: what
  matters is a backlog at, just above and well above it. A header block with one
  unit of body already exceeds it, and with `MaxBacklog` 2 or 3 a paused script has
  a client that drains in one step or in several. The bound is in the guard of
  `ScriptWrites`, so it limits the scripts, never the server. `PipeCap = 1`: a second
  unit needs a second read, so reads with and without a header block both occur.
  `MaxBody`: 0 for no body, 1 for one that came with the headers or is still to
  come, 2 for one cut in between. A launch takes six descriptors and keeps three.
  Seven are one connection and what its launch needs. Nine are two connections,
  a script whose stdout and stderr are open beside a launch that then fails
  half-way, and a script that has ended beside one that succeeds; accept() fails
  too. Two pids are enough for every pair of processes, and every invariant
  relates at most two.
- *EventLoop.* A file of 3 units through a buffer of 2 has a full chunk, a short
  one and a chunk sent in parts; the empty file has none. Two peers and the
  listening socket are the smallest batch in which a number changes owner
  between collection and handling; `MaxRequests = 2` has a kept connection served
  again. Eight descriptors are two connections and what a launch needs: with a file
  open, or a script running, the other's launch fails half-way, and what it loses leaves
  `accept()` without a descriptor; peers reconnect as often as they like. `MaxEvents` is 64 in the code: with 3, one event of a
  batch can free a number, a second reuse it and a third still name it, and
  batches that cut off ready events occur as well. Resets are in `MCOnePeer`; that
  descriptors are owned beside resets of any number of peers is proved.
- *Connection.* An upload of 2 units can arrive with its headers, in a read after
  them or in two; three requests in a row let one request's leftovers meet a second
  kind of request and a third, also after a disk error or on a new connection.
  `MaxBody` is above all. A chunked upload is read with the end of its headers at
  least, a multipart one without a cut before the dashes that end it (`joined`), and
  both end their connection: what the code does otherwise is below.
- *BotDetection.* The counts (limit, samples, burst, minima of documents) are scaled
  down together; `MCGaps` has a gap in every interval the code distinguishes: none,
  ultra-fast (9, of 10 ms), just not ultra-fast (11), just within the minute and past the asset
  window, past the look-back and `block_duration_seconds` (30001), past the retention. Two of 11 and one of 9 are as
  regular as a machine and a burst at once. Both conditions of the two promises to the
  innocent are needed. An asset leaves the rhythm as it was, so that one that
  comes after the silence of a visitor who was blocked is blocked too: `SilenceLifts` is
  about pages. And pages 99 and 101 ms apart score 30 for regularity and 20 for
  a burst, which blocks, however well their assets follow: `BrowsersPass` asks for a tenth of
  a second. Five samples, a limit of 6 and the gaps 9, 11 and 30001 show both, with the
  condition taken out.
- *Clearance.* Three tokens for a store of two: one more than fits, so that one is
  evicted and drawn again. The clock passes the lifetime twice.
- *Routing.* Names for each role (a location, a script, a file, a link), uris of up
  to three segments over them, and longer ones where PATH_INFO or `..` need it.
- *Configuration.* One value below, at and above each limit; a location before and
  after each directive of its server it takes over; a second location; three
  servers with addresses that are equal, exclude each other or are apart. The
  CONSTRAINT `MCTogether` keeps apart what the code does not combine: several servers
  differ only in addresses and roots, and limits and directories are read by
  different functions into different fields.
- *ComposeBoot.* Three faults: one container stopped, the other, and one of them
  again while it repairs.

TLC's bounds are only a small instance; the safety properties of CgiManager,
Clearance, ComposeBoot, Configuration, Routing and BotDetection, most of EventLoop's,
and Connection's for counted bodies are also proved for every instance (section 6).

**The violations.** Each run has the one property that states what a document or a
comment says; the finding in `PROJECT.json` quotes it.

- `MCBody` (`BodyReachesScript`). `include/cgi.hpp:48` calls `feedStdin` "Streaming body
  support". When the headers of a request arrive before its body, `launch`
  registers stdin with an empty buffer; the pipe is writable at once and
  `handleEvent` closes it (`cgiManager.cpp:457`) without looking at `cgi_streaming`;
  `feedStdin` then drops the body.
- `MCStale` (`HangsUpAfterAnswer`). With scripts and files, a batch may hold two events
  of which the handling of the first closes the descriptor of the second, and a
  third that accepts a connection on the same number: `read_client` then finds
  nothing to read and takes that for a peer that has gone (`server.cpp:322`), while
  `poller.cpp:634` documents the value as "No data available". It takes the release
  of a low number by one connection and the reuse by another within one batch, so
  the instance has three peers and 14 descriptors, and a CONSTRAINT keeps TLC to
  states with at most one script that has not answered, a peer that asks for nothing
  and nobody who has left, where the shortest such behaviour lies. With one peer
  (`MCOnePeer`) the property holds: nobody else takes over the number of its connection.

**Behaviour without a run.** The modules below translate the following as well; no
run has a property about it, because no document says otherwise or because the
instances keep away from it (section 8). Where a change of the instance shows it, it is named.

- A chunked upload whose headers arrive in a read of their own is answered 201 with
  an empty file (`server.cpp:1067`); each later read of its body is also parsed as a
  request. Remove `joined` from `Chunked` of MCConnection: `AcknowledgedUploadIsWhole` fails.
- A multipart upload whose last delimiter is cut by a read is not answered
  (`server.cpp:993`). Remove `joined` from `Parts`: `RequestsAnswered` fails.
- After a failed write in the middle of an upload, `upload_active` stays set and every
  later read of a kept connection is answered 500; after a failed open the rest of
  the body is parsed as a request (`server.cpp:373`). `AnswersFit` stops at such a fault.
- Assets push other requests out of the capped history, so that
  `requests_per_minute` is too low (`botDetection.cpp:239`); `RateIsLimited` speaks of minutes
  that fit into the history.
- No block is remembered (`server.cpp:510`). `block_duration_seconds`, "5 minute blocks"
  (`botDetection.hpp:81`), is only what `Retry-After` tells a blocked client
  (`server.cpp:537`): who comes back after that long is let through (`SilenceLifts`), and
  who comes back sooner is, too, as soon as the samples left no longer block.
- A database stopped after `mariadb-install-db` and before the SQL comes up without
  the site's database and user (`mariadb/tools/init.sh:10`), and a configuration
  stopped while it is written is taken for a whole one: `BootCompletes` excludes
  both (`HalfMade`).
- A stop, or a restart of the database, between `wp core install` and `wp user create`
  leaves the site without its subscriber, which `DEV_DOC.md:115` promises of the first
  boot: the next one finds the site installed (`wordpress/tools/init.sh:44`).
  `BootCompletes` asks for the subscriber and excludes this stop (`HalfMade`); take its third
  disjunct out and TLC shows it.
- A script that fails after its header block, or writes less than its Content-Length,
  keeps its connection: `forwardBody` counts `content_length_sent` (`cgiManager.cpp:843`) and
  nothing compares it with what was announced. The models have no announced length, and
  `ReuseAfterWholeOutput` says that what was written has been queued, not that it was enough.
- A launch that runs out of descriptors loses pipe ends (`cgiManager.cpp:200`): `OneOwner` and
  `DescriptorsOwned` count them as such (`leaked`, `lost`) and deny any other loss.

## 5. Fairness

Safety needs none. Four runs state it:

- `MCOneClient` (`FairSpec`). `SF(ClientWrite(c))`: a round of the loop serves every
  descriptor that is ready, so a client that keeps reading is written to as long
  as there is something to write; one that does not is closed by the client
  timeout, which ends its exchange too. Strong, because interest alternates: a
  running script's client is registered for nothing when it has drained.
  `SF(Expire(p))`: every round ends with `checkTimeouts`, both its limits are positive
  (`LimitsInForce` of Configuration), and the total timeout is not extended by
  activity. Strong, because the handlers of one round may keep the loop from
  `poll`. `WF(HandleSignalPipe)`, `WF(ReapChild(p))`, `WF(ReapDone)`: the self-pipe is
  registered like any descriptor, and the `waitpid` loop runs until no child is
  dead. Nothing is assumed of scripts: they may write for ever, never write, never
  exit. Nothing is assumed of the request body's arrival, either.
- `MCOnePeer` (`LiveSpec`). `WF(Run)`: the loop is a thread that runs. `WF(ScriptExits(f))`:
  a script ends, as there is no timeout in this run. `SF` on `Wait` taking descriptor
  f into its batch: epoll hands out ready descriptors in turn, and a peer that
  reads makes room in its socket again and again.
- `MCUploads` (`LiveSpec`). `WF` on `Takes`: the loop comes back to a socket that has
  something to read. `Takes` does not say how much is read, so TLC may cut the reads
  as it likes. `WF(ClientWrite)`: the client reads its answer.
- `MCBoot` (`LiveSpec`). `WF` of each script with its restart: a script's next command
  runs, and docker starts a container that has ended ("restart:
  unless-stopped"). Stops are bounded by `MaxFaults`.

## 6. The proofs

Eight modules hold the theorems. All are checked by `tlapm` for every value of the
constants, under the named assumptions of the modules they are about. In
CgiManager: descriptors are natural numbers (`FdsAssumption`), the null pointer is
no pid (`NoProcAssumption`), header blocks are of the three known kinds
(`HeaderKindsAssumption`), and the threshold and bounds are positive
(`BoundsAssumption`): `PausedHasBacklog` needs the threshold to be at least one, as a
client that has nothing left to send has no paused script. In Clearance, the limit,
the lifetime and the clock's bound are natural numbers, zero included
(`ClearanceAssumption`); in ComposeBoot the stopping points are steps
(`BootAssumption`). In Configuration, the values of a directive have the shape its
line is checked for, unit factors are positive and a day holds the default
timeout (`ConfigurationAssumption`); nothing is asked of the width of `size_t`. In
EventLoop, descriptors and peers are finitely many, requests and lengths are of
the known kinds, and the buffer and a batch hold something (`LoopAssumption`). In
BotDetection, limits and gaps are natural numbers, and the clock, the cap and the bound
are positive (`BotAssumption`). Two of its theorems have a hypothesis about the
configuration: `SilenceEnds` that the limit is two at least (with less, three quarters of
it are none) and that at most 241 samples are looked at (120 s among more gaps may
be 500 ms on average), `LetsBrowsersThrough` that it takes an ultra-fast pair to make a
burst. The program's values are 60, 10 and 3. In Routing, the configuration has its
types, the tree is one and generated names are new (`RoutingAssumption`,
`GeneratedAssumption`; section 3). `UploadsAreServed` also assumes `Apart`: no two locations of
a server differ by a final slash alone (of `/a` and `/a/`, the longer takes what was
uploaded through the shorter). In Connection,
requests are a sequence of the known kinds (`AsksAssumption`) and the limit is a
natural number (`ConnectionAssumption`); its theorems have a hypothesis besides,
`Counted`, which restricts the requests clients send to pages and uploads whose bodies
have a Content-Length: no chunked and no multipart ones. Their number, their
lengths, whether they are valid and whether they keep the connection are free. That
answers are the deserved ones also assumes that no request deserves an error page
and that pages are asked for without a body (`Fit`): what a refused request leaves in
the buffer is read as the next one (section 8).

| Theorem | Module | Statement |
|---|---|---|
| `TypeCorrect` | CgiManagerProofs | `Spec => []TypeOK` |
| `StructureInvariant` | CgiManagerProofs | `Spec => [](TablesAgree /\ ClientsAgree /\ OneOwner)` |
| `ClientsAndScripts`, `DescriptorOwned` | CgiManagerProofs | `Spec => []ClientsAgree`, `Spec => []OneOwner` |
| `InvariantHolds` | CgiManagerProofs | `Spec => []IInv` |
| `PausesResume`, `ResponsesSafe`, `NoneWedged`, `NoneForgotten` | CgiManagerProofs | `Spec => []PausedHasBacklog`, `[]RelayUndisturbed`, `[]ClientArmed`, `[]ChildrenWatched` |
| `ReuseIsSafe` | CgiManagerProofs | `Spec => ReuseAfterWholeOutput` |
| `ExchangeImplemented` | CgiManagerProofs | `Spec => ImplementsExchange` |
| `TypeCorrect`, `Bounded` | ClearanceProofs | `Spec => []TypeOK`, `Spec => []StoreBounded` |
| `FreshOwn`, `NotChallengedAgain` | ClearanceProofs | `Spec => HonoursOnlyFreshOwn`, `Spec => ClearedIsNotChallenged` |
| `SiteInstalled`, `NothingSetUpTwice` | ComposeBootProofs | `Spec => []ServedSiteIsInstalled`, `Spec => SetUpOnce` |
| `RootsThere`, `LimitsKept` | ConfigurationProofs | `Spec => []RootsAreThere`, `Spec => []LimitsInForce` |
| `AllListen` | ConfigurationProofs | `Spec => []EveryServerListens` |
| `TypeCorrect` | ConfigurationProofs | `Spec => []TypeOK` |
| `InvariantHolds`, `TypeCorrect` | EventLoopProofs | `Spec => []IInv`, `Spec => []TypeOK` |
| `OwnsDescriptors` | EventLoopProofs | `Spec => []DescriptorsOwned` |
| `ListensAfterWholeAnswer` | EventLoopProofs | `Spec => []NextRequestAfterWholeAnswer` |
| `WatchesWithReason` | EventLoopProofs | `Spec => []WatchedWithReason` |
| `InvariantHolds`, `TypeCorrect` | BotDetectionProofs | `Spec => []IInv`, `Spec => []TypeOK` |
| `KeepsTheWindow`, `LimitsTheRate` | BotDetectionProofs | `Spec => []HistoryIsWindow`, `Spec => []RateIsLimited` |
| `SilenceEnds` | BotDetectionProofs | limit >= 2, sample size <= 241 `=> (Spec => []SilenceLifts)` |
| `LetsBrowsersThrough` | BotDetectionProofs | burst count >= 1 `=> (Spec => []BrowsersPass)` |
| `InvariantHolds`, `FindsRightLocation` | RoutingProofs | `Spec => []IInv`, `Spec => []RightLocation` |
| `StaysInRoot`, `OnlyUploadsChange` | RoutingProofs | `Spec => []ServesOnlyFromRoot`, `Spec => ChangesOnlyUploads` |
| `KeepsNames`, `RestGoesToTheScript` | RoutingProofs | `Spec => []NormalKeepsWhatStands`, `Spec => []PathInfoIsTheRest` |
| `UploadsAreServed` | RoutingProofs | `Apart => (Spec => []UploadsCanBeFetched)` |
| `InvariantHolds`, `TypeCorrect` | ConnectionProofs | `Counted => (Spec => []IInv)`, `Counted => (Spec => []TypeOK)` |
| `KeepsUploads` | ConnectionProofs | `Counted => (Spec => []AcknowledgedUploadIsWhole)` |
| `ConservesUploads`, `LeavesNoStrayFile` | ConnectionProofs | `Counted => (Spec => []UploadConserved)`, `Counted => (Spec => []NoStrayFile)` |
| `AnswersAsDeserved` | ConnectionProofs | `Counted /\ Fit => (Spec => AnswersFit)` |

*The CGI manager*, in three layers, each with one lemma per action.

1. *Structure*: `TablesAgree /\ ClientsAgree /\ OneOwner /\ NothingStale`. None is
   inductive alone. That `cleanupProcess` erases the right entries needs the
   tables to agree; that the descriptors it closes are the process's own and
   nobody else's needs one owner per descriptor; that a new process or
   connection starts clean needs that dead objects keep nothing
   (`NothingStale`). The proofs use `Exclusive`, a form of `OneOwner` without the
   set of owners. What the end of a process does is proved once (`ReleaseTables`,
   `ReleaseOwners`) and used by every action that ends one.
2. *Responses and children*: `Rest` (`PipesPolled`, `PausedHasBacklog`,
   `RelayUndisturbed`, `RelayBookkeeping`, `ClientArmed`) and `ChildrenWatched`, given the
   structure.
   `PausedHasBacklog` relies on `PipesPolled` (a pipe is polled for what its
   direction allows) and on `ClientArmed` (the client whose progress lifts the
   pause is polled). The end of a process arms its client correctly only if the
   response obeys `EndsWell`: unsent bytes are announced by `res_ready`, and
   `force_close` and `close_after_send` agree (`AfterCgiArmed`). Without the second, a
   connection would stay open with a close to perform.
3. *Consequences*. `ReuseIsSafe`: only `cleanupProcess` releases a connection from a
   script, and it clears `keep_alive` unless the header block was read, the
   response has a length of its own and the reason is `Normal`; that reason is
   given only by a read of stdout that took what the pipe still held and found its
   end, so that nothing the script wrote is missing.
   `ExchangeImplemented`: every step moves at most one exchange (`Same` for all
   others, `MoveStep` for the one), and the end of a process with nothing to send
   goes back to reading only if the response had already started.

*The clearance store.* What is in the store is what was granted last
(`StoreIsGranted`), nothing was granted in the future (`GrantedByNow`), and a token
that is gone although its time is not over was followed by as many others as the
store has room for (`GoneForOthers`). The last is the heart of
`ClearedIsNotChallenged`: an eviction keeps only entries that are as recent as the
evicted one, and these count for it (`max_entries - 1` kept, and the one that made
them give way). That `last_seen` of a refreshed entry only grows keeps the count.
Finiteness of what has been granted is part of the invariant, since cardinality
says nothing of infinite sets.

*The boot scripts.* `ServedSiteIsInstalled` needs that a site is there only on a
database with its user (`SiteFirst`) and that each script, past its test, does only
what the volume lacks (`OnlyWhatLacks`).

*The configuration.* The invariant says of the server and the location being read
what holds before their blocks end (`ServerRead`, `LocationRead`), and of every
finished server that it has a root and an address (`ServerClosed`). A location's root
is the one it has said, or none, or the one its server had said when the location
began: that this is still the server's in the end needs that a directive is not
repeated. `SizeKept` and `TimeKept` are the arithmetic: a value that is accepted
does not wrap around in `size_t`, and a client's timeout does not round to zero.
`EveryServerListens` follows from `Listening`, an invariant of the loop over the
addresses: the sockets are different, each is some server's address, and every
server passed so far has its socket, whether it was bound for it or found.

*The event loop.* The invariant is stated for a batch that has been handled up to
any point, since every handler meets what the earlier ones of its batch have left.

- `Owned`, `FilesOwned` and `PipesOwned` say of every number in the descriptor table
  what it is and whose: a connection, a file or a pipe, never two, and that only open
  descriptors are in the epoll set. `FilesOwned` and `PipesOwned` are needed in both
  directions: that closing gives everything back (`DescriptorsOwned`) needs that each
  open number has an owner, and that closing one connection takes nothing from
  another needs that it has one only.
- `Sessions` relates a connection to its peer as the peer sees itself: the bytes the
  peer is owed are those in the buffer, the chunk and the file; a peer that waits
  has a request on the wire, a running script or an answer on its way; a connection
  is registered for what it has to do next. `NextRequestAfterWholeAnswer` and
  `WatchedWithReason` follow, but neither is inductive without the other: that the
  answer is whole when reading resumes needs the counts, and that the counts are
  right needs that nothing is read while an answer is being sent.
- `BatchOnce` and `Readables` carry this over a batch in which numbers change hands:
  a descriptor occurs once, so its own handler has not yet run, and an event that
  says "readable" for a connection that is up was collected for this connection
  while it was reading, or finds a new one that is reading, or its peer has gone.
  The second case is the finding `MCStale`: a stale event finds a new connection that
  has nothing to read, and closes it. That gives back what the connection has
  and touches no other, so that it breaks `HangsUpAfterAnswer` and no invariant.

The sweeps and `new_connection` act on sets of connections. The lemmas about them
(`CloseFields` and those after it) say field by field what is left, so that each
action's proof is about one connection and about all the others.

*Bot detection.* `IInv` says that the samples are what remains of all that was sent
after cutting a number of the oldest (`Cut`), that each of those was cut for its age
or because `MaxSamples` newer ones are there, and that none of the others is too old.
The step is `TrimCuts`: trimming a history that was already cut gives what trimming
the whole history would, in whichever order age and count apply. That needs times
to be in order, so that the too old ones are a prefix (`Prefix`). `HistoryIsWindow`
then says that the number cut depends on what was sent and the time alone, and
`RateIsLimited` counts a minute's requests in the samples and in what was sent, which
agree as long as the minute fits.

The score needs what the loops compute. A loop is unfolded into its values after
each turn (`LoopExists`, from `UpTo`, which is induction up to a number, proved by counting):
what is kept of a sequence ends with its last element if that is kept (`KeptIs`), and a
sum of natural numbers is no less than its last (`TotalBounds`). After two minutes of
silence (and so after `BlockDuration`, which is longer) the last interval alone makes the mean too long for a machine
(`SilenceIsHuman`); without pages close to each other there is no burst (`NoBurst`). Either
way regularity and burst do not come together, and with a low rate and followed
documents the score stays below 50 (`PolitePasses`). What is left for the two theorems is to
find the samples in what was sent (`Stands`): that the last request is always among
them, and that the asset which follows a page is not cut off while the page is kept.

*Routing.* `IInv` says that the tree is a tree in which nothing but uploads has a generated name
and directories and links only go (`TreeInv`), and that the last answer is what its
request got of it (`Explained`). What follows is about the operators. Each is a fold, and
the lemmas `Computes`, `RunsTo` and `RunOf` give its value after each element, for whatever set
the values stay in. Along such runs: the location found so far is the longest of those
seen (`FindsRightLocation`); a canonical path stays in its root because the prefix test is
made on canonical paths, and an index file is tested again (`StaysInRoot`); the names that
are left of a path are those of the places no later `..` takes back, which form a stack
(`Stack`, `KeepsNames`); the uri without its last names and PATH_INFO together are always the
uri, and the last name of SCRIPT_NAME is the file's, since both paths went the same way
(`SameWay`, `RestGoesToTheScript`). An upload is fetched through the location it was sent to: with
`Apart`, no other begins its uri and is longer (`UploadsAreServed`).

*A connection.* Nothing in the code says where in a request it is; the invariant says
it of the bytes. `Stream` is what the parser holds and the wire still brings. While the
connection waits (`Waiting`), the stream is empty, or a whole request, or a request
whose line has been taken off, or `Bad`: it begins with something that is no valid
request line, and as a line in error stays in the buffer, it always will. `Parsing`
says what one read makes of these, wherever it is cut; the request is `Taken` as soon
as its headers are there, with what came of its body. While an upload runs
(`Uploading`), its file and the wire make up the payload and the count is the length of
the wire, so that the read that takes the last byte is the one that ends it, and no
byte of it is left to be taken for a request. A failed write leaves the upload active
with its file gone (`Broken`): no such connection ever answers 201. An answer waits with
nothing left of its request, or with a rest that is `Bad` (`Queued`). `Files` and `Keeps` say
of the disk what `NoStrayFile` and `AcknowledgedUploadIsWhole` do, and that the file being
written is no acknowledged one. `InStep` is about `Fit` requests: as long as no write has
failed, nothing `Bad` ever arises, and what is queued is the deserved answer.

## 7. What is only model-checked

- Liveness: `ExchangeProgress`, `EveryChildCollected`, `RequestsEnd`, `RequestsAnswered` and
  `BootCompletes` (fairness is beyond the installed provers).
- Connection with chunked or multipart bodies: what their decoders make of every cut
  of a body. As those of Routing they could be unfolded by hand.
- `HangsUpAfterAnswer` of EventLoop is false in general (`MCStale`); TLC checks it for one
  peer.
- The properties of the two violation runs are refuted by TLC, not by a proof.

## 8. What is not modelled

- A second launch for a client whose script is still running: it would take over
  `client_map`. Early requests for anything else are in CgiManager, but not the order
  their answers come in (an error page of `cleanupProcess` may overwrite one, and
  `Exchange` does not see an answer sent before the script's), not the parser, whose
  `clear()` is skipped while a script runs, and not one whose readiness was collected in
  the batch in which the script's first byte was read. In EventLoop and
  Connection peers wait.
- What follows an answer that refuses a request on a kept connection: a line in
  error stays in the parser's buffer, an oversized body is parsed as a request, an
  upload stays active after a disk error. The instance of Connection holds valid
  requests below the limit; after a disk error, only the properties that concern
  the disk are claimed.
- Multipart bodies of several parts, and bodies near `MAX_CONT_LEN`.
- The content of responses and requests: formatting has no property here, nor do
  error pages, listings and the captcha page.
- Descriptors inherited by children, the reuse of pids, and scripts that close a
  pipe before they end: the models fix the outcomes named in section 3.
- The length a script announces (section 4, behaviour without a run).
- The kqueue and select back ends, which the container does not compile; how the
  configuration file is cut into words; `testMain.cpp` and `print.cpp`; and the
  third-party servers of the other containers (nginx, php-fpm, redis, adminer,
  the static site), which run unmodified.
