# A verification project for hypno

hypno is a small web server written in C.  A main thread accepts connections
and starts a worker thread for each; a worker reads one HTTP request, finds the
configured host, runs the host's filter (in practice the Lua filter), writes the
response and closes.  This directory holds TLA+ models of that machinery, their
TLC configurations, and theorems checked by TLAPS.

## Inventory

For each component: its state, its operations, what it talks to, what is hard
about it, and what makes it correct.  Paths are below `src/`.

| Component | State | Operations and interactions | Hard | Correct when |
|---|---|---|---|---|
| Multithreaded loop, `src/server/multithread.c` | `_fds[256]` of `conn_t` (running, fd, id, start), `conncount`, `connindex` | `srv_multithread`: sweep, kill, join, search, accept, start; `server_proc`: `srv_response`, close, mark. Shares `_fds` between the main thread and all workers without a lock | interleaving, reuse of slots, threads and descriptors, failure of accept and pthread_create, cancellation of overdue workers | the count is exact, at most `max_per` workers, a worker owns its slot and its descriptor, everybody is served |
| Single-threaded loop, `src/server/single.c` | one `conn_t` on the stack | accept, `srv_response`, close | failures of accept | one connection after the other |
| Request pipeline, `src/server/server.c` | `conn->stage`, `req`, `res`, `config`; the host configurations, shared by all workers | `srv_response` = pre, read, `srv_proc`, write, post; `srv_proc` = find_host, `srv_check_filter`, `srv_check_dir`, filter | early exits, and `srv_check_dir`, which replaces a shared string | an answer is written at most once, for the right host, and everything is freed |
| Plain HTTP context, `src/ctx/ctx-http.c` | counters of the loops, preamble and content buffer, a timer | `read_notls`, `write_notls`, pre, post; recv/send/sendfile | partial reads and writes, time-outs, half-closed and reset peers, limits | a request is read whole or refused; a response is sent whole or the peer is to blame |
| TLS context, `src/ctx/ctx-https.c` | credentials per server; a GnuTLS session, request and response per connection | `create_gnutls`, handshake, `read_gnutls`, `write_gnutls`, `post_gnutls` | records instead of a stream, retries without a deadline, partial set-up | as above; a certificate for every host; what `pre` gets, `post` frees |
| Router, `vendor/router.c` with `find_matching_route` of `src/filters/filter-lua.c` | urimaps of a path and of a route | `build_urimap`, `compare_urimaps`, `route_resolve` | kinds of segments, order of routes | the first route meant for a path answers |
| Lua filter, `src/filters/filter-lua.c` | `luadata_t`, a Lua state per request | configuration, route, queries, models, views, static files | many exits, each freeing part of the state | one response, everything freed |
| Echo filter, `src/filters/filter-echo.c` | none | builds one response | failure of finalizing | as above |
| Site configuration, `src/configs.c`, `src/loader.c` | list of hosts | `build_server_config`, `hosts_iterator`, `find_host`, the loader's rules | walks over a flat table by depth, partial failure | each host has its own attributes, only usable hosts are served |
| Command line server, `src/cli/server.c` | `server_t`, PID file, logs, the listening socket, the configuration | `main`, `cmd_server`, `write_pid`, `cmd_kill`, the handler of SIGINT | signals between any two steps, two servers for one port, stale PID files | who serves can be found and stopped; nothing is freed while a worker uses it |
| Lua HTTP client, `src/lua/http.c` | request, answer, socket and TLS session of a call | `http.send` | answers in pieces, lengths that lie, failures after connecting | whole results, closed sockets, an end |
| Other Lua libraries, `src/lua/*.c`, and the bridge `src/lua.c` | the Lua stack | db, filesystem, JSON, codecs, hashes; `lua_to_ztable`, `lua_merge` | errors outside protected calls | as documented per library |
| Other commands, utilities, logging, MIME types | none shared | formatting, file copies | nothing concurrent | by unit tests |
| Vendored code, `vendor/*` but the router | -- | tables, walkers, HTTP parser, templates, JSON, SQLite, Lua | -- | taken as external |

The access and error logs are written by several threads through stdio, which
locks; they carry no state and are left out everywhere.

## Modules

| Module | Models |
|---|---|
| `Multithread` | `srv_multithread` and `server_proc`, with the kernel's descriptors |
| `WorkerPool` | abstract: what the loop promises its clients |
| `ReadRequest` | `read_notls` |
| `WriteResponse` | `write_notls` |
| `SrvResponse` | `srv_response`, `srv_proc`, `srv_check_dir`, over the shared host configuration |
| `TlsContext` | `create_gnutls`, `process_certs`, `pre_gnutls`, `read_gnutls`, `write_gnutls`, `post_gnutls`, with clients that send records |
| `Router` | `find_matching_route` and `route_resolve` |
| `LuaFilter` | `filter_lua`, from its configuration to the response; extends `Router`, whose search is its route step |
| `HttpClient` | `http.send`, over plain connections and TLS, and the peer it talks to |
| `SiteConfig` | `build_server_config` and the loader, as functions of the table a configuration file returns |
| `Lifecycle` | `main`, `cmd_server`, the handler of SIGINT and `cmd_kill`, for several processes; extends `SiteConfig`, which gives the outcome of its configuration step |
| `MCMultithread`, `MCLuaFilter`, `MCHttpClient`, `MCLifecycle` | symmetry, and the routes, answers and files TLC tries |
| `MultithreadProofs`, `ReadProofs`, `WriteProofs`, `ServerProofs`, `TlsProofs`, `LuaProofs`, `HttpProofs`, `LifecycleProofs` | theorems, see below |

The modules meet where the code's functions call each other.  `Multithread`
starts workers; its steps `Read` and `Write` are a whole `srv_response`, which
is `SrvResponse`; the steps `Read*`, `Filter` and `Write` of that have the
outcomes of `ReadRequest`, `LuaFilter` and `WriteResponse`, or of `TlsContext`,
which has the same shape with records in place of bytes.  `Lifecycle` is around
all of it.

In the modules, a definition `...` after a comment "Mutant:" is a plausible
mistake in the definition that follows it.  It is used by no specification; put
in the place of the definition it makes one of the properties fail.

### Multithread

The state is the code's: `running[s]`, `fd[s]`, `id[s]` are the fields of `_fds[s]`, `conncount`,
`connindex`, `i`, `f` the locals of `srv_multithread`, `mpc` says where the main thread is.  A worker has a
control point `pc[c]`, the `conn_t` it was started with (`slotOf[c]`) and a pending cancellation.  The
kernel is `fdTable` (the connection behind a descriptor number) and `sock`.  Each branch of the loop is an
action: `Top` (l. 181), the four cases of the sweep (`ScanAvailable`, `ScanInactive` then `Join`,
`ScanActive`, `ScanOverdue` then `Release`), `ScanOutside` for indices past `_fds`, `Find` (l. 238-249) with
its outcomes, and `Accept` with its failures.  `ClientMax` is `--max-per`, which the command line takes as
it is given (`src/cli/server.c:866`); nothing keeps it below the 256 entries of `_fds`, and a search that
leaves the table ends in the control point `"undefined"`. `InTable` says that it is below, and is a
hypothesis of what is said of slots.  A worker does `Read`, then `Write` or `GiveUp`, `Close`, `Mark`.
`close()` and I/O go through the slot's *current* `fd` and the *current* table of descriptors, so that
mix-ups between connections are possible behaviours of the model and not ruled out by its shape.

Steps merged: `accept`, `init_conn_after_accept` and `pthread_create` are one
action.  Between them the main thread touches only the chosen slot and its own
locals; no other thread reads those before `pthread_create`, except a cancelled
worker of the same slot, which the actions before and after it cover.
`srv_response` is two steps, one that reads through `conn->fd` and one that writes.
Whether a worker is overdue (`time_diff_sec > ttimeout`) is a nondeterministic
choice that counts as a fault.

`Faults` and `MaxFaults` select which rare events happen and how often:
`"spawn"` (pthread_create fails), `"accept"` (accept fails for good),
`"overdue"` (the sweep cancels a worker).  Running out of descriptors (`AcceptRetry`) is not a
fault: it happens whenever `Fds` is used up.

Cancellation is deferred (the pthread default): it acts when the worker next
calls recv, send or close.  `pthread_join` and `pthread_cancel` on a thread that has been
joined are undefined; `JoinStale` lets the call return or the behaviour end in
the control point `"undefined"`.

### ReadRequest and WriteResponse

Bytes are counted.  The request is a record of lengths and of what the HTTP
parser will say; the client delivers it in arbitrary pieces and may shut down or
reset at any point.  `total`, `hlen`, `bsize`, `crecvd`, `stage` are the code's
variables; each branch of the two loops and each check between them is an action.
`recv` of 0 bytes is modelled as Linux does it: 0 when there is data, EAGAIN when
there is none.  A client may send up to `MaxSurplus` bytes more than it announces.  What of them
`read_notls` takes for content goes behind the end of the content buffer, as nothing compares it
with the buffer's length (`Overrun`); the process may end there, in the control point `"crash"`, or
go on.  `WriteResponse` counts `total` and `pos` likewise; the
file behind `sendfile()` may change its size once.

### SrvResponse

`sent[w]` counts the responses written for the connection of a worker.
`dir[h]` is the string `conn->config->dir` points at and `heap[h]` the strings
allocated for that host.  `srv_check_dir` is split where it reads, stats, frees,
replaces and uses the string, so that two workers can interleave.  Reading, the
filter and writing are single steps with the outcomes the other modules allow.

### TlsContext

The locals of `read_gnutls` and `write_gnutls` are the records `rd` and `wr`, what
the client sends is `net`: bytes sent, what is unread of the record at hand, and
the length of the first record, which decides more than it should.  `mem` is what
the connection holds, `glob` what the server holds.  A call of GnuTLS that
reports AGAIN or INTERRUPTED is repeated unchanged and is not a step.  Clients may send more than they
announce here, too, with the same consequence.  The
handshake is one step with its outcomes; certificates are good or fail for one of
the reasons `process_certs` looks for.

### Router and LuaFilter

A segment of a route carries its mark (`:`, `{`, `*`, `?` or none) and its words.  The search goes route by
route and segment by segment as the code does; `Answers` is the independent definition it is compared with.
A path is the sequence of what stands behind each `/`, which may be nothing or start with a mark itself.
`Build` makes of it what `build_urimap` does: empty pieces are skipped; a word in front of two `/` loses its
last character (`Clip`); an `:id` without a type and followed by more of the path runs on into that (`Run`);
a piece that starts with `*` has no text.  Where `compare_urimaps` reads a text that is not there, or a list
that is not, the search is in `"crash"`.  The build links `vendor/router.c`; `src/router.c` is an older
copy.

`LuaFilter` follows `filter_lua` exit by exit.  `ld` is `struct luadata_t` with
the Lua stack (the sequence of tables models have returned), the globals `model`
and `response`, and a record of what was chosen on the way; `held` is what is
allocated and not yet freed.  What a Lua file does is a choice: it fails, or
returns a sequence of values from `Returns` and may set a response from
`Responses`.  A table is the set of its keys, so that merging is a union and one
can see whose keys an answer has.  `make_mvc_list` is modelled with its locals
over the flat list of a route's table.  The control point `"crash"` is the end of
the process: an error raised outside a protected call of Lua, a null pointer, or a path longer than
the buffer it is copied into.

### HttpClient

Requests and answers are counted in units; a peer answers once it has a whole
request, in pieces of any size, with a length that may be wrong or absent, and
may stop or reset at any point.  `call` holds the locals of one `http.send`,
`open` the sockets and TLS sessions of the process, which outlive calls.  `Parts` is what
`http_finalize_request` (`vendor/zhttp.c`) makes a request of: headers, and for POST and PUT a body, in
a shape that depends on the type of the form and on whether the model gave a text or a table.
The Content-Type of an answer has one of five sizes, told apart by the places it is copied to (`Space`).
Left out are a Content-Length of 24 characters and more, which runs over `lenString` (l. 256), and
arguments `method` and `ctype` that are no text.

### SiteConfig and Lifecycle

`SiteConfig` has no variables: `BuildServerConfig` is what `build_server_config` returns for a file, with
what is left allocated.  `SiteFiles` are the files, with any number of entries under `hosts`.  `LuaToZtable`
is the list `lua_to_ztable` makes of one, with an entry for each end of a table; the loader's walks over it
(`Iterate`, `ShallowCopy`, `HostsUpTo`) are recursive functions that count depth as the code does.  That
list and the copy of a host's table have room for `TableSize` and `CopySize` entries (in the code those that
`lt_init` makes for 2048, `configs.c:185`, and for a host, `loader.c:174`); what does not fit (`Fits`) is
dropped by `lt_add`, and what reads behind the end is undefined: here the process ends.  Keys of a file that
collide are part of the choice `lua = "bad"`.  Two things about the copy of a host are left out: that
`lt_lock` refuses it for colliding keys (`vendor/ztable.c:511`), which `loader.c:181` and `186` do not look
at, and that a key is found by its prefix (`ztable.c:570`).

In `Lifecycle` a process is a record with its control point in `main` and `cmd_server`, its pointers
(`logfd`, `accessfd`, the socket) and what it has allocated.  A PID file that cannot be opened
(`OpenPidFails`), written or closed (`WritePidFails`) ends the process: `write_pid` returns what `eprintf`
is, 0.  The handler `sigkill` may run between any two steps; it closes what `cmd_server` uses and does not
stop it.  Of the log streams it leaves the server copies of pointers that are closed (`Stale`); to write to
one, or to close one twice, is undefined, and the process goes on or ends (`Gone`).  After the port number
was closed by the handler, the descriptor may be reused by a worker that opens a file: then `cmd_server`
closes that.  Process IDs may be reused by other programs once a server has ended.  PID files have names
known to `cmd_kill`; two servers may be given the same one.

## Runs

| Run | Checks | Bounds |
|---|---|---|
| `pool` | the loop with failures of pthread_create and accept: types, the exact count and at most `max_per` workers, exclusive slots, own descriptors and answers, joins, sweep and accept on the right slot, leaks only after failed starts; it implements `WorkerPool` | 2 workers, 3 slots (so `InTable` holds), 4 connections, 3 descriptors, 2 faults |
| `serving` | every queued connection is accepted and closed | 2 workers, 3 connections, 2 descriptors, no faults |
| `overdue` | `CountCoversWorkers` with a cancelled worker | 2 workers, 3 connections, 2 descriptors, 1 overdue worker |
| `read` | buffers hold or are overrun by a client that sends too much, whole requests, deserved refusals; the read ends | preamble 4, pieces up to 2, content maximum 4, 2 bytes more than announced, rtimeout 2 |
| `write` | the outcome is true, never more than Content-Length; the write ends or waits in sendfile | socket 3, pieces up to 2, wtimeout 2 |
| `single` | one directory per host, answers for the right host, nothing left, one response per connection | 1 worker, 2 hosts, all kinds of directories, 2 failures of pre |
| `relative_dirs` | violation: two workers replace the same directory | 2 workers, 1 host |
| `tls` | certificates, release, whole requests, deserved refusals, true outcomes; nobody waits in vain | 2 hosts, preamble 4, records of any size up to the request and 2 bytes more, writes of 2 |
| `lifecycle` | one server per port, servers can be found, nothing is freed while in use, an interrupt stops the server | 2 servers (one of each kind), each with the PID file or without, which may fail, 1 `--kill`, interrupts at any step |
| `config` | hosts get their own attributes; only usable configurations start | every file of two hosts, one of them with any attributes of any type, in both orders; no hosts; every kind of root; tables of 17 and 9 entries, which some of these files fill |
| `lua_filter` | the first route answers; the files are the route's own; what an answer is made of; what ends the process; what is left allocated | 2 routes out of 10, paths of up to 3 pieces out of 9, 8 route tables, 6 returns, 11 responses |
| `http_client` | what is asked, whole results, sockets and sessions left, calls end | 2 calls, 1 descriptor, requests and headers of 2 units, 12 answers |

Why the bounds are enough.  The pool needs more connections than workers and fewer descriptors than
connections, so that the table fills, slots, threads and descriptors are reused and the descriptors run out;
one slot beyond `max_per` is what the sweep looks at first.  The readers need a preamble that a header can
miss, fill exactly or leave room in, and a content below, at and above the maximum; the lengths chosen give
each.  The writers need a message longer than the socket or a record holds and a file of several pieces, one
of them partial.  For all of these the theorems below hold for all sizes.  Two bytes more than announced are
more than is left of a recv() that asks for two.  Routes: two are enough for one that is skipped or fails
half way and one that matches behind it, and two that match; a path of three pieces has room for two `/` in
front of, between and behind words.  A request looks at two models at most, the fewest that have something
to merge.  A configuration with one rich and one plain host, in both orders, shows whether the walk of the
first spills into the second. Two servers are the fewest that compete for a port and a file; a second file
multiplies the states and would only add servers that do not share one.  With one free descriptor the second
call of `http.send` meets what the first has left open.

Fairness.
* `Multithread!FairSpec`: the operating system runs every thread (weak
  fairness of the main thread and of each worker; `srv_response` ends by
  `ReadEnds` and `WriteEnds`), and the backlog is a queue, so a connection that
  can be accepted again and again is accepted (strong fairness of `Serve`).
  Nothing is asked of clients.  Where `sendfile` blocks for ever (`WriteEnds`) a
  worker does not end; `serving` is about servers whose clients do not do that.
* `ReadRequest` and `WriteResponse`: the worker runs and the clock advances.
* `TlsContext`: the worker runs; the handshake has a time-out in GnuTLS.  There is no
  clock: `read_gnutls` looks at none on the way that waits, so the
  property only speaks of clients that have gone or have sent everything.
* `Lifecycle`: weak fairness, for each process, of the steps of `cmd_server` and of a busy worker being
  done, taken together: the operating system runs some thread of a process that has one to run.  Nobody has
  to start, interrupt or kill.
* `HttpClient`: the caller runs; peers owe nothing.

Deadlock is checked in `serving`, `single` and `relative_dirs`, which describe
servers that never stop.  The others do stop: in `pool` and `overdue` the loop may
return or every connection is over, in `lifecycle` all servers have ended, and in the
other runs one request, call or start has come to its end.

## What the models show of the code

Properties say what the code does; several of them had to name an exception.
These are the ones a maintainer would want to know of.  The first has a run of
its own, in which TLC finds the counterexample.

* `src/server/server.c:73` (`relative_dirs`): `free( conn->config->dir )` frees a string
  all workers share; two workers that serve the first requests for a host free it twice,
  or one uses it after the other has freed it.
* `src/server/multithread.c:218`: a cancelled worker may still close and mark.
  If its mark comes between the sweep and the search, the search finds no slot,
  leaves `f` at the last one, and `accept()` overwrites the descriptor there; if the
  descriptor number was reused, the sweep's `close()` hits another connection.
  With overdue workers only `CountCoversWorkers` remains of the pool's properties,
  which is why they are a fault of their own.
* `src/ctx/ctx-http.c:208-223`: a client that sends more than its Content-Length has `read_notls` write past the
  end of the content buffer, with what came behind the header and with the first `recv`, which asks
  for `CTX_READ_SIZE` bytes however few are missing (`BuffersHold`); `ctx-https.c:519-531` does
  the same (`ProcSeesWholeRequest` of `TlsContext`).  It is the only way the buffers are overrun.
* `src/ctx/ctx-http.c:94`: a header that fills the preamble to the last byte makes the
  loop wait for more, and a complete request is answered 408; a client that
  shuts down early is told its header is too large (`AnswerDeserved`).
* `src/ctx/ctx-http.c:348`: `wtimeout` does not bound `sendfile()` (`WriteEnds`).
* `src/ctx/ctx-https.c:435`: a header in two TLS records is refused as too large; a first
  record longer than the preamble is dropped without an answer.  A connection
  that fails in `pre_gnutls` is not released.
* `src/filters/filter-lua.c` (`CrashCauses`): the process ends for an empty static file, for `routes = {}`,
  for too many files in `routes/` and for entries there none of which is loaded while `config.lua` has no
  routes, and for a model that returns an empty table or a scalar where there is a view or another model to
  merge with.  Of paths, these end it: one longer than its buffer; one of several `/` and nothing else, when
  there is a route `/` (`//`), and one with a segment that begins with `*`, when a route of the same length
  compares texts there (`vendor/router.c:193-247`); one with two `/` in a row that a route matches, as
  `init_lua_routes` counts the empty part and finds none for it in the route (l. 606-649).  A path with two
  `/` in a row can also match a route of another name, as the word before them loses a character.  A model
  that returns an empty table is what `README.md` (about l. 404) calls the least a model needs.
* A route with `views` is answered with JSON, as only the key `view` is looked for; an entry
  `favicon.ico` of `static` matches no request.
* `src/configs.c:127-130` says of the root of the server that it can be blank, and l. 266 lets a blank one
  pass; l. 260 has duplicated a null pointer by then, so that a file without `wwwroot` crashes the server
  (`ConfiguredMeansUsable`).  So does a number or an empty text for `wwwroot` or for an attribute of a host,
  a key below the first level that is neither text nor number, and a file or a host with more entries than
  its table has room for.
* `src/cli/server.c:299-307`: a server that cannot write its PID file ends, as the comment at l. 960 has it,
  but leaves the file behind, empty or with its process ID.  A second server overwrites the PID file of the
  first before it finds the port taken (`RecordedUnlessShared`).  SIGINT before `socket()` does not stop a
  server; it only closes the logs that are open by then, and the server goes on with the closed streams
  (`InterruptStops`); one that comes later leaves the loop with a closed log to write its last message to.
  When `accept()` fails for good, or a worker's file has taken the number of the socket, the configuration
  is freed under busy workers (`ConfigWhileBusy`).
* `src/lua/http.c`: `http.send` with two arguments always raises an error; a query is never sent, and a body
  only with POST or PUT: of a text for a form the request has the names only, of a table for another type
  its first value; an answer without Content-Length is always an error; every failure after connecting
  leaves a socket open; a Content-Type longer than the request's own, or than 128 bytes for https, is copied
  over what lies behind it, and a header line that a piece cuts off has no end; there are no time-outs
  (`ResultIsWhole`, `SocketsLeft`, `CallEnds`).

## Proofs

Each theorem holds for all constants that satisfy the assumptions named in its module: sizes that are
positive, lengths that are natural numbers, ... That `--max-per` is below the length of the table of
connections is no assumption but a hypothesis of the properties that need it (`InTable`).  Four of them say
what kind of thing the environment hands over. `HttpAssumption` and `LifecycleAssumption` type the answers
of peers and the configuration files (`SiteFiles`), and keep the names of processes, files and hosts apart
from what stands for none. `FilterAssumption` types what models return and the tables of routes, and leaves
out a `content-type` that is no text, whose value `make_mvc_list` would read as one. `RouterAssumption` says
that `Clip` and `Run` make words of words, and that a piece of a path that does not start with `*` has a
word.

* `MultithreadProofs`.  `TypeCorrect`, for all faults, is inductive with two facts about the main thread: at
  `accept` it has a slot, at `join` and `release` an index of the table. It holds for every `--max-per`, as
  `CountCovers` does.  `PoolSafe`, `AnswersGoHome`, `SlotsAreHandled`, `PoolIsBounded` and
  `LeaksAreSpawnFailures` exclude overdue workers and take `InTable` as a hypothesis.  The properties are
  not inductive: that `accept()` finds a free slot depends on what the last sweep left in `connindex`.
  `PoolInv` says it: a slot that is not AVAILABLE has exactly one worker, named by `id` (`SlotInv`,
  `WorkerInv`); below `connindex` every slot is in use whenever a search may start, and a sweep under way
  has left `connindex` at the lowest free slot it has seen (`MainInv`); a worker that has not closed finds
  its connection behind its descriptor (`NetInv`); `conncount` is the number of slots in use. The bound on
  workers follows because `slotOf` maps them one to one into the slots. `ImplementsWorkerPool`: every step
  maps to a step of `WorkerPool` or to a stutter, by `PoolInv`; admission needs that one slot is free while
  `accept` waits. `CountCovers`, with any faults: a worker that marks its slot passes its share of
  `conncount` to the slot, so workers at work plus INACTIVE slots never exceed `conncount`.
* `ReadProofs`.  `ReadStaysInBuffers`, `WholeRequestsOnly`, `RefusalsAreDeserved`. `ReadInv` ties the code's
  counters together: in the header loop `bsize` is what `total` leaves of the preamble and `hlen` says
  whether the blank line is among the bytes received; in the body loop `crecvd` is `total` without the
  header, and less than the content: so one `recv` passes the end of the buffer by less than it asks for,
  and only with bytes sent beyond the announced length, which is what `ReadStaysInBuffers` says.
* `WriteProofs`.  `WriteTellsTheTruth`, `NeverMoreThanAnnounced`: what is left and what was sent add up to
  the message, then to the file, and the offset never passes the end of the file unless it shrank.
* `TlsProofs`.  `TlsInv` is the counterpart of both with records: bytes read and the rest of the record are
  what was sent (`NetInv`); while the header is read nothing but the first record has been sent, which is
  why its length decides (`HeaderInv`).  `TlsWholeRequestsOnly`, `TlsRefusalsAreDeserved`,
  `TlsWriteTellsTheTruth` follow; `ConnectionsAreReleased` and `CertificatesForAll` are inductive nearly as
  they stand.
* `LuaProofs`.  `FirstRouteWins`: all routes before the current one fail for the
  path, and all segments before the current one pass; `ListInv` ties the list under
  comparison to the pieces of the path walked so far; `FirstRouteServes` is the same of the search
  that `filter_lua` does.  `RequestsAreFreed`, `CrashesHaveCauses` and `AnswersHaveSources` follow from
  one invariant, `LuaInv`, as each of them depends on what happened several steps earlier:
  what is held at each control point (`HeldInv`); an empty stack wherever a file is begun
  (`StackInv`); the response that counts is one a model has set, and before the last it was delayed
  (`ResponseInv`); models run so far and files passed so far agree (`RanInv`);
  the model has the keys of every table returned, each named after its place, and has none
  only if something was returned that has none (`ModelInv`); and what the views will
  be made of (`ViewInv`).  `MergeTop` and `MergePanic` say what `lua_merge` makes of a stack of any height.
  `FilesAreTheRoutes` is about data of any length: what the folds in `MvcList` compute
  is built up entry by entry (`FoldExists`, `FlattenIs`, `ListingIs`), each entry of a route leaves
  `make_mvc_list` in between two entries and adds its own files (`EntryKeeps`), and the
  entries lie one behind the other in the flat table (`JoiningPlaces`).  The induction
  is over a set of lengths (`UpTo`), from its least element outside.
* `HttpProofs`.  `ResultsAreWhole` and `SocketsAreLeft`.  `HttpInv` says what is open at each step of a
  call, compared with before it (`OpenInv`); what the request consists of, compared with what was asked
  (`RequestIs`, `Whole`); what has made the process crash (`CrashInv`); that once a first piece was looked
  at, the length is the peer's or none was found (`FirstInv`); and for which three reasons the loops of
  `recv()` are left (`EndInv`).
* `LifecycleProofs`, for any number of processes and files.  `ServersHoldThePort`, `ServersAreRecorded` and
  `ConfigOutlivesWorkers` follow from `LifeInv`: what each process holds at its control point, and which
  ways lead past the loop with busy workers (`ServerOk`); who has a process ID (`RunsInv`); one port for all
  (`OnePort`); and that a PID file names who has written it, also while `--kill` is between reading and
  removing it (`FileInv`). `HostsAreFound` and `OnlyUsableConfigs` are about files with any number of
  entries and tables of any size; the first for the files that fit (`Fits`), the second with what happens to
  the others.  What was built is always `BuildServerConfig` of some file (`BuiltInv`), and the rest is about
  what that computes. `IterateIs` and `HostsUpToIs` show that the recursive functions of the loader exist
  and obey their equations.  The entries lie one behind the other in the flat table (`ListedAt`); a walk
  that enters one at depth 1 leaves it at depth 1, with one more host if it is a host and with none if it is
  not (`EntryStep`).  The copy made for a host is what was written between its braces (`CopyIs`), and a key
  is found in it exactly at its own entry of the outermost level, though a table inside may have the same
  key (`BodyFound`).  `HostsGathered` is the induction over the entries.
* `ServerProofs`.  `AnswersMatch`, `NothingIsLeft` and `OneResponse` hold for any number of workers: the
  host of a worker past the checks is supported and its directory usable; stage and answer move together,
  and nothing was written before the stage at which it is, so that `sent` is never more than 1.
  `SingleIsSafe` needs one worker: the string a worker remembers is the directory's, until it replaces it;
  with two this is what `relative_dirs` refutes.
* `ReadTypes`, `WriteTypes`, `TlsTypes`, `RouterTypes`, `ServerTypes`: type correctness.

Model-checked only: liveness (`EventuallyClosed`, `ReadEnds`, `WriteEnds`, `NobodyWaitsInVain`,
`InterruptStops`, `CallEnds`), which under fairness is out of reach of the provers.  Every other
property of a run that passes is also a theorem.

## Not modelled

* The contents of messages, configuration files, templates and scripts.  They appear as lengths,
  kinds and choices.
* Logging.  The code writes logs through stdio, which locks; no state depends on them.  `srv_log`,
  `create_notls` and `free_notls` do nothing.
* `filter-echo.c` fills one response and keeps no state; `filter-c.c` is empty and `ctx-return.c` an empty
  function.
* `src/lua/session.c`: left out of the build's table of libraries (`src/lua/lib.c:42`).
* `src/lua/db.c`, `filesystem.c`, `json.c`, `enc.c`, `dec.c`, `hash.c`, `rand.c`: one call of a
  library or of the system per function, with nothing kept between calls.
* The other commands and `util.c`: sequential file operations without shared state.
* Vendored libraries other than the router, what `http_finalize_request` sends, and the capacity of tables:
  external, as outcomes.
* `load_www` and what else stands under `#if 0` in `src/lua/http.c`.
* Options and `cmd_dump` of `src/cli/server.c`: they choose the PID file, the kind of server and the number of
  workers, and leave nothing behind.
* A second request on a connection (pipelining), which the server does not support: further bytes are bytes
  in `MaxSurplus`, not a request.
* Keys that collide in the copy of a host's table, and keys found there by their prefix; a Content-Length of
  more digits than its buffer has room for in `src/lua/http.c`.
