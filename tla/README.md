# A formal model of FIX-Q

TLA+ modules, TLC runs and TLAPS proofs about FIX-Q: a simulated exchange, a
"post-quantum" proxy and a TLS proxy in front of it, a web server that sends orders
through both, and a benchmark that the web server starts.  Source paths below are
relative to the repository.

Reading order: `PqcTunnel` (the core), `OrderedPipe` and `PqcTunnelPipe` (what it
promises), `TlsTunnel`, `MockBist`, `TcpServer`, then the web server from the outside
in: `HttpServer`, `WebOrder`, `BenchFiles`; last the pure functions, `FixMessage` and
`BenchStats`, with `OrderText`, which puts them to use.  Each module `M` has its proofs
in `MProofs`, but those of `OrderText`, `BenchStats` and `BenchFiles` are together in
`DataProofs`; `ByteLemmas` has the facts about sequences that they share, first those on
prefixes and concatenation for the tunnels and the exchange, then all of `FixMessage`.

## 1. Inventory

    browser --HTTP--> web_server :8080 --+--> tls_proxy :5007 ==TLS==> :5008 --+
    benchmark, test clients -------------+                                     +--> mock_bist :5003
                                         +--> pqc_proxy :5006 -----------------+

| Component | State it keeps | Operations | What makes it correct |
|---|---|---|---|
| TCP server, `include/tcp_server.hpp` | listening socket, `is_running_`, detached handler threads, the process's descriptors | `init`, `run` (accept loop), `stop` | clients in the backlog are served, descriptors have owners, only exhaustion or an error of `accept` ends it |
| PQC proxy, `src/pqc_proxy.cpp` | per client two sockets and two `forward_data` threads | `handle_client`, `forward_data`, `simulate_crypto` | each direction is an ordered pipe, ends mean what they say, closing brings the tunnel down |
| TLS proxy, `src/tls_proxy.cpp` | two servers in one process; per client four sockets, two SSL objects, four threads | both `handle_client`s, `proxy_tls_to_plain`, `proxy_plain_to_tls` | order and completeness, who learns of an end, which tunnels come down; one server may go without the other |
| Mock BIST, `src/mock_bist.cpp` | per connection a char array; the shared `exec_counter` | `handle_client` | reports match orders, ids are unique |
| HTTP server, `include/httplib.h` (vendored) | `jobs_`, `idle_thread_count_`, fixed and dynamic threads, kept connections | `listen_internal`, `ThreadPool::enqueue`, `worker`, `shutdown`, keep-alive loop | a connection reaches a thread, a request is answered, the end of the loop ends everything |
| Web server, orders, `src/web_server.cpp:70-121,245-330` | `order_seq`, per request two attempts with a timeout | `send_single_order`, `measure_latency_and_get_response`, `extract_json_field` | ClOrdIDs, the order sent is the one typed, the answer shown is the one that came, every request is answered |
| Web server, upload and charts, `src/web_server.cpp:126-243` | three files in the working directory, a child process | `upload_orders`, `benchmark_data`, `academic_data` | one upload's results are not mixed with another's, every upload ends |
| Benchmark, `src/benchmark.cpp` | latencies, the same files | sends a file of orders, rows and percentiles | a row per order; percentiles are quantiles |
| FIX utilities, `include/fix_utils.hpp`; generator, `generate_fix_data.py` | none (pure functions on strings) | `build_message`, `validate_message`, `get_field`, `calculate_checksum` | building and validating agree; damage is found out; a tag is found where it is |
| PQC packet, `crypto/pqc_tunnel.py` | keys of an instance | `process_outgoing`, `process_incoming` | what was packed is unpacked |
| Scripts, `start_prod.sh`, `stop_prod.sh`, `status.sh` | pid files, processes | start, stop, status | one set of daemons |
| micro benchmark, logger, test engine, web page | none that matters to others | | |

They interact through TCP only (the web server also through files and child processes).
Behind the proxies nothing is retried and nothing is persisted.

What is hard here: two threads per tunnel that copy in opposite directions and shut each
other's sockets down; blocking writes with ignored return values; resets and SIGPIPE;
two handlers of one process that talk to each other over TLS and join threads that wait
for the other; an SSL object used by two threads; a stream taken for messages; counters
and files without locks; a timeout against a late answer; an answer awaited without a
timeout; descriptor and thread tables at their limit; a thread pool that counts who is
idle; tags looked for as substrings.  `PROJECT.json` lists these hazards at their lines,
with the properties that watch them.

## 2. Modules

### PqcTunnel (with OrderedPipe and PqcTunnelPipe)

One tunnel of the PQC proxy with the program at each end.  `hand` is where
`handle_client` stands, `thr[d]` where the `forward_data` thread of direction `d` ("req"
client to BIST, "rsp" back) stands, `buf[d]` its vector; `inq[d]` holds what the source
sent and the thread has not read, `outq[d]` what the thread wrote and the sink has not
read; `fds`, `rst`, `peer` and `proc` are the proxy's descriptors, resets, the programs,
the process; `sent`, `got`, `eof` are histories.

* `Connect`, `ConnectRefused`, `Join` are `handle_client` (pqc_proxy.cpp:80-105).
* `Read` takes any part of what is queued, up to the buffer, through `SimulateCrypto`;
  `Write` copies what the socket takes and waits in "copy" when some is left;
  `WriteFails` and `WriteKills` are a write to a reset connection, an ignored error or
  SIGPIPE, which nothing in the repository ignores; `ReadEnds` is the end of the loop
  with its `shutdown(dst_fd, SHUT_WR)`.
* `ProcessEnds` and `Stop` are the end of the process by SIGPIPE or by the scripts.
* `Send`, `Receive`, `ReceiveEnd`, `Close`, `Reset` are the programs and TCP.

A queue stands for send buffer, wire and receive buffer together, so a close is seen
after the data before it, and a reset may drop a suffix.  The delay and the latency
printed by the proxy are left out.  `OrderedPipe` is what one direction promises to
whoever uses it: what comes out is what went in, in order; the end is announced after
the last unit; it may break.  `PqcTunnelPipe` gives the mapping twice, for requests and
replies.

### TlsTunnel

The TLS proxy for one client: the handler of the entry server (5007), the handler of the
decrypt server (5008) that it connects to in the same process, their four threads, and
the programs.  A unit is what one `read()` or `SSL_read()` returns, so a thread holds at
most one.  `q[x]` is what endpoint `x` has sent and its other end has not read.
Handshakes may fail on each side; `EntryHandshakes` comes before `DecryptHandshakes`
because in TLS 1.3 `SSL_connect` returns first.  A thread that sees the end of its
stream tells nobody, except the reader of the entry server, which shuts the client's
socket down (tls_proxy.cpp:116; `Tells`).  `SslRace` is the undefined behaviour of
`SSL_read` and `SSL_write` running at once on one SSL object: either call fails or the
process crashes.  It sets `raced`, and properties that cannot survive it say `~raced`.
`Spoiled` is an SSL object whose `SSL_read` has failed: whether `SSL_write` still works
is left open, OpenSSL's versions differ.  So those properties speak of executions in
which the two calls did not disturb each other.

### MockBist

`handle_client` of several connections and `exec_counter`.  A message is four tokens
(head, ClOrdID, rest, checksum) and a read returns any number of tokens, of one message
or several, for every connection alike.  The head has the type in it, so a read may also
end inside it (`Rests`): before tag 35, which the next read then begins with, or within
it, and then neither finds it.  That is as fine as `get_field` and `validate_message`
can tell; `OrderText` has the bytes.  `cuts` remembers the worst that reads have done to
a connection's messages: nothing, a cut, or a cut through tag 35.  The terminator at
`bytes_read` cuts the text (`Text`); the bytes behind it stay (`Overlay`).
`++exec_counter` is `Load` and `Store`, and the second use of the counter `LoadAgain`;
`overlap` remembers that two threads were there at one time.  A program in `Polite`
waits for each answer, as the web server and the benchmark do; the others pipeline.  Its
order may be cut like any other, and is then reported as invalid and perhaps as UNKNOWN,
or, when tag 35 was cut through, not at all; `PoliteIsAnswered` says which of the three
`cuts` allows.  `Loads` says how many messages each connection may send, one choice per
behaviour.

### TcpServer

The accept loop, a detached thread per client, and the process's table of descriptors
and threads.  `program` is chosen at the start: the exchange or the PQC proxy with one
server, or the TLS proxy with two servers in one process, where the entry handlers are
the clients of the decrypt server (`Dial` into its backlog). `Accept`, `AcceptFails` (a
full table: the loop ends when accept fails), `AcceptErrs` (it fails for any other
reason, which `broken` remembers: a connection aborted before it was accepted, a pending
network error, a system short of descriptors or buffers), `AcceptThrows` (no thread for
a client, whose socket then belongs to nobody), `Stop` (the destructor), `Exit` (main
returns and cuts every handler; the decrypt server has a detached thread of its own and
its end is only logged).  The other actions are `handle_client` as far as descriptors
and threads go: the second socket, the handshake in which `SSL_connect` and `SSL_accept`
wait for each other without a timeout, and the two relay threads; `RelayThrows` and
`RelayAborts` are the first or the second of these that cannot be made, an exception
that is caught or `std::terminate`.  `UsesGoneServer` is the undefined behaviour of a
handler thread that uses the server object (`this` in the lambda, the SSL context) after
its destruction: it crashes the process or goes on as if nothing were amiss.

### HttpServer

`httplib::Server::listen_internal`, its `ThreadPool` and the keep-alive loop.  Each
block of code under the pool's mutex is one action; the notification after it is another
(`Notify`), so a thread may be "woken", still counted in `idle`, and not yet running.
`Accept` includes the decision of `enqueue` to start a dynamic thread, and the removal
of those that are done.  `Take`, `Wait` and `Quit` are what a worker does when it has
the mutex, `Ready`, `Ended`, `KeepAliveTimesOut`, `Answer` and `CloseSocket` what it
does with a connection.  A request is "quick" or an "upload", whose handler waits for
its child and may never return.  `burst` remembers that a job was queued while the idle
threads were all needed for those before it.

### BenchFiles

`POST /api/upload_orders`, the benchmark process it waits for, and the two requests that
draw the charts, over `uploaded_orders.txt`, `benchmark_results.csv` and
`tail_latency.json`.  A file is a sequence of blocks, one per `write()` of a stream
buffer; each open file writes at its own offset, so two writers overlay or tear each
other's blocks (`Put`), and what is skipped is a hole.  The browsers upload again and
again.  `up` says whether proxies and exchange run: without them a latency is made up,
with them a line that is no order (`Orders`) is never answered.  `alone` and `crossed`
are histories: who has run by himself, whether two ever ran at one time.

### FixMessage, BenchStats and OrderText

`FixMessage` translates the functions of `fix_utils.hpp` on bytes, because what can go
wrong in them is that a tag is found inside another text.  `BenchStats` is the index and
the percentile of `benchmark.cpp`.  `OrderText` follows one order: typed, put into JSON
and taken out again by `extract_json_field`, built (or written by the generator, with
'|'), damaged once on its way (a byte altered, a cut, part of another message before or
behind it in the same read), validated, and reported by the exchange. `Measure` adds
samples, of which the percentiles are taken.  `TextAssumption` says what the texts are:
typed ones hold nothing that JSON would escape, the ClOrdID neither '=' nor '|', and
another message has a BeginString in front only.  Sums and sorting are functions, not
folds, so that they can be reasoned about: `ByteSum` adds modulo 256 as it goes, which
is the same as the code's remainder of an unsigned sum, and `Sorted` puts at each place
the sample of that rank, which is what any sorting gives.

### WebOrder

`POST /api/send_single_order`: numbering in two halves (`LoadSeq`, `StoreSeq`), an
attempt on the TLS and then on the PQC path (`Connect`, `ConnectFails`, `ReadReport`,
`ReadEnds`, `ReadTimesOut`), then the answer, real or made up (`Answer`,
`MakeUpOrderId`, `MakeUpExecId`).  `Fill` and `Break` are what happens behind the
proxies, also after the request has given up.

### Operators named Bug...

`BugX`, just before `Y`, is what `Y` would be with a plausible mistake.  No module uses
it; replacing `Y` by it must make TLC refute the property it is listed with.

## 3. Runs

Every run takes less than three minutes with two workers.

| Run | Instance | What it shows |
|---|---|---|
| `pqc_tunnel_safety` | two kinds of unit, 3 orders, 2 replies, buffer and sockets of 2 (736,098 states) | `TypeOK`, `DataKept` (order and conservation), `EndMeansComplete`, `SigPipeOnlyAfterEarlyClose`, `DoneOnlyWhenBothClosed`; both directions implement `OrderedPipe` (`TunnelIsPipes`) |
| `pqc_tunnel_live` | everything of size 1, 3 orders, 4 replies (51,213 states) | `TunnelCloses`: a client that closes brings the tunnel down although it never read; `Delivered` and `BistCloseIsTold` if it does read |
| `tls_tunnel_safety` | two kinds of unit, 3 orders, 1 reply, queues of 1 (1,482,554 states) | `DataKept`, `SigPipeOnlyAfterEarlyClose`, `OpenTunnelStays`, `EndMeansFailure` |
| `tls_tunnel_live` | 2 and 2, queues of 1 (151,227 states) | `Delivered`; `RefusalSeen`: the client of a refused tunnel is told, and the tunnel comes down when it closes |
| `bist` | one connection with 3 messages of any kind; a polite one with 2 orders; one of either kind together; every cut of each (461,267 states) | `ReportsMatchOrders`, `OneOrderNeverKills`, `SharedIdNeedsOverlap`, `PoliteIsAnswered` |
| `tcp_server` | seven programs, 2 or 3 clients, short of descriptors or of threads (82,019 states) | `LeaksAreFailures`, `GoesOnlyWhenFullOrBroken`, `SetUpEnds` |
| `http_server` | 3 connections, one fixed and one dynamic thread, 2 descriptors, backlog 1, 2 requests on the first, 1 on the others (151,337 states) | `StrandedOnlyByBurst`, `Drained`, `Served`, `ShutdownEnds` |
| `web_order` | two requests (105,470 states) | `CollisionNeedsOverlap`, `ShowsWhatCame`, `RequestIsAnswered` |
| `bench_files` | two browsers, bodies of two blocks of orders and of one block that is no order (54,468 states) | `OwnResults`, `ChartsOfOneRun`, `UploadEnds` |
| `order_text` | 5 symbols, 2 sides, 4 quantities, 2 prices, 7 bytes, up to 11 samples (139,322 states) | `OrderAsTyped`, `AcceptedUnlessTagInside`, `AcceptedIffWhole`, `ReportEchoes`, `IsQuantile` |
| `bist_unique_ids`, `order_empty_field` | | counterexamples, see section 6 |

Why the bounds are enough.  Sockets and buffers of two are the least for which a write
is cut in two by a full socket and a read returns part of what is there; three units the
least for which one can be missing between two others.  The live run needs more replies
than the three places they have (BIST's socket, the thread, the client's socket), so
that BIST really blocks, and then enough orders to block their thread too.  The TLS path
holds one unit at each of five places, and three orders and resets suffice to lose a
middle one if it could be lost.  Three messages of four tokens give reads that end
inside one message, and begin and end inside two; two orders of a program that waits
are the least for which a late or second report of the first could stand for the second;
two handlers are what a shared number takes.  The programs of `tcp_server` let the
table of descriptors be full with and without leaks, at an accept, a second socket and
inside the chain of the two servers, and threads that are not a multiple of three, so
that both ways for a relay to fail occur.  One thread of either kind and three
connections are the least for which a job is queued behind a notified thread, and one
connection more than descriptors for which accept fails and is repeated.  Two requests
are what a collision takes, two uploads what a mixture takes; two blocks can be torn
apart, one cannot.  The awkward values of `order_text` hold, one for each way a text can
be taken for another: the checksum's tag, a later field's tag, a separator, the name of
a key, nothing at all, a key left out; every position is cut and altered. Eleven samples
pass the first size at which p90 is not the maximum.

Deadlock is checked in `bench_files`, where browsers can always upload again.  In the
other models every program may stop for good when clients have left, the counts are
spent or the process has ended.

Fairness.  Threads and handlers run when they can (`WF` on each thread's own steps): the
scheduler of the operating system is fair to threads that are not blocked.  TCP delivers
resets.  BIST reads unless it is blocked on a reply and closes at the end of its stream,
as mock_bist.cpp:17-22,78 does.  In `PqcTunnel` that the client reads is a hypothesis of
the properties that need it (`ClientReads`), in `tls_tunnel_live` part of the
specification: the web server and the benchmark read, the load generator of `tests/`
never does, and `TunnelCloses` asks nothing of it. `WebOrder` asks nothing of proxies or
exchange, but takes it that the Python helper, which the handler runs at its end,
returns.  In `HttpServer` the threads run and quick handlers return; uploads need not.
In `BenchFiles` requests and their children run; the exchange answers orders only, and
the scripts may start and stop it at any time. No program is ever required to send or to
close, a relay in `TcpServer` may last for ever, and `accept` there need not meet an
error of its own (`AcceptErrs`).

## 4. Proofs

TLAPS checks these for every value of the constants, from the named assumptions of the
modules: sizes and limits are positive naturals, the counts functions to naturals, the
threads of the web server's pool finitely many, at least one browser uploads, the texts
of an order as `TextAssumption` has them.  With them every invariant of every run and
the refinement of `OrderedPipe` are theorems.

Each component has one theorem `Invariance` (`TextInvariance` for `OrderText`), `Spec =>
[]IInv`, and the properties follow from its invariant `IInv`. Every `IInv` was run
through TLC before it was proved, and is not part of the runs. That it is kept takes one
lemma per action.

* `PqcTunnelProofs`: `TypeCorrect`, `OrderedDelivery`, `Conservation`, `DataIsKept`,
  `CompleteEnd`, `SigPipeCause`, `ReturnCutsNobody`.  `IInv` is `Types`, `Control` and
  `Flow`.  `Ordered` alone is not inductive: one must know that what is in `outq`, `buf`
  and `inq` continues what was received.  `Conserved` says so only while nothing was
  reset, so `Flow(d)` keeps three strengths of it: equality while the direction is
  intact, a prefix up to the thread's buffer while the sink stands, and a prefix up to
  the written part always.  `Control` ties the program counters to descriptors, buffers
  and peers, so that a thread that is done has nothing left and the handler that has
  returned had both threads done.  `TunnelRefinesPipes`, the refinement, goes step by
  step: a thread moves units along inside a pipe, which shows nothing of it, the
  programs put in and take out, and a cut by reset or SIGPIPE is a pipe that breaks, for
  one direction or for both at once.
* `TlsTunnelProofs`: `TunnelStays`, `EndOnlyAfterFailure`.  That an opened tunnel stays
  is a circle: the entry handler waits for the thread that reads from TLS, which waits
  for the decrypt handler to close, which waits for its own such thread, which waits for
  the entry handler.  `IInv` says it at once: how far the two handlers can be apart
  (`HandsInv`), which descriptors are open then (`OpenInv`), that both readers are alive
  (`ReadersInv`), and what an observed end or reset implies (`SeenInv`).  On top of it
  stands `DataInvariance`, from which `DataIsKept` and `SigPipeNeedsEarlyClose` follow.
  `DataInv` says of each direction what its five hops hold, two sockets of programs, two
  threads and the TLS connection in between: received data and the last hop are a prefix
  of what was sent whatever happened, and together with all hops a prefix, or all of it,
  as long as nothing on the way was cut (`FlowInv`).  Like the properties it is stated
  for executions in which two threads did not disturb each other (`raced`).
* `MockBistProofs`: `TypeCorrect`, `ReportsAreOfOrders`, `OneOrderIsSafe`,
  `SharedIdCause`.  However a stream is cut into reads, what waits is the end of what
  was sent (`StreamInv`), but that its first head may have lost its beginning (`Fits`),
  so how many tokens were taken says how many orders a handler can have seen: `CountInv`
  keeps reports, with the one in the making, below it.  What lies behind the terminator
  never counts, as `Text` is the part that was read, and the ClOrdIDs in it are those of
  messages whose second token was taken, in order (`NameInv`).  `NumberInv` is the
  counter: until two handlers have met there its users are one at a time, with the next
  number or the last.  The least element that `Min` and the search for a tag need comes
  from the library's well-founded order.
* `TcpServerProofs`: `TypeCorrect`, `LeaksAreFailed`, `OnlyFullOrBrokenGoes`.  `FdInv`
  says which descriptors are open, `Leaked` which of these nobody will close, and
  `CountInv` that there are as many as `leaks` counts.  Owned descriptors are then at
  most one per listener and as many per handler as its stand allows, so that a full
  table means what `GoesOnlyWhenFullOrBroken` says: `peak` handlers at one time, or
  leaks.  An error of one server's `accept` is the other way to go, for that server
  alone.  `ChainInv` is the order of the two servers of the TLS proxy: a client is new
  to the second until the first has dialled.
* `HttpServerProofs`: `TypeCorrect` (with it the exact count of idle threads),
  `OnlyBurstsStrand`, `ReturnsDrained`.  `QueueInv` says that the two queues hold
  exactly the connections that stand in them, once; `ServesInv` matches busy threads and
  connections one to one; `EndInv` that a thread of the fixed part leaves only after
  `shutdown` with no job left, which is why there is none when listen returns, as there
  is at least one such thread.  `BurstInv` is what `enqueue` promises: without a burst
  there is an available thread for each job, or no more can be made.
* `WebOrderProofs`: `CollisionCause`, `HonestAnswer`, for any set of requests.
  `NumberInv` says that without an overlap the one request between load and store holds
  the next number, which is what makes `CollisionNeedsOverlap` inductive.
* `DataProofs`, files: `AloneMeansOwn`, `ChartsAreOfOneRun`.  `Own(u)` is what the
  files hold at each stand of an upload that is alone; `ChartInv` adds that until two
  have run at one time every upload is, and that the result files are complete whenever
  no benchmark writes them.  That a block is put where the file ends, whether or not it
  is the last (`PutWhole`), needs no induction, for a file is a function.
* `DataProofs`, percentiles: `IndexInRange` (the two clamps of `get_percentile` are
  enough for every positive size, and below a fraction of 1 neither is needed),
  `FewSamplesShowTheMaximum` (with few samples a high percentile is the maximum),
  `PercentileIsQuantile` for any list, and from it `PercentilesAreQuantiles`.  Each rank
  belongs to some sample (`OneOfEachRank`): the largest of those with fewer than that
  many below them; and the samples below one and those not below it are all of them.
* `DataProofs`, orders: `OrdersAreAsTyped`, `SentIsAccepted`, `MishapsAreFoundOut`,
  `ReportsEcho`, for any texts, messages, places and bytes.  `TextInv` only remembers
  where everything comes from: the order from what was typed, the message from the order
  with SOH or '|', what arrives from the message and at most one mishap, the report from
  what arrived.  All else is about the functions.
* `ByteLemmas`, the functions: `BuiltIsAccepted` and `BuiltIsRead`, for any fields.  A
  function that is defined by recursion is first shown to be the one whose steps its
  definition lists (`DecimalIs`, `SumExists`, `FlattenIs`), which is an induction over
  numbers and can be done; then its values can be compared step by step.  A message has
  a `Shape`: two tags with their '=' at fixed places, digits, a body that consists of
  pieces each ending in SOH, the trailer.  A tag that is found anywhere is that of a
  field or lies inside one value (`PieceTag`, `TagInLaid`), as none of the other tags
  ends in its two digits. That one altered byte is found out (`AlteredRefused`) splits
  by where it lies.  In the body or the trailer the sum differs from the digits, or the
  trailer is no longer where the length says.  In the head it may make "10=" out of the
  length, and then what is read for the sum or the length cannot fit (`TenOnly`,
  `AlteredLength`); without a new "10=" the sum covers the same bytes but one
  (`AlteredSum`).  A cut leaves no complete trailer (`CutRefused`), and in front of a
  message there may be no BeginString, or part of one (`ShiftedBegins`).

Only model-checked:

* all liveness (`TunnelCloses`, `Delivered`, `BistCloseIsTold`, `RefusalSeen`,
  `PoliteIsAnswered`, `SetUpEnds`, `Served`, `ShutdownEnds`, `RequestIsAnswered`,
  `UploadEnds`): the provers do not reason about fairness and ENABLED.

## 5. Not modelled

* `include/httplib.h` beyond its thread pool and connection loop.  It is a vendored
  library of 20,464 lines, all but 1,371 of the repository's implementation: its
  parsing, client, TLS, WebSocket and compression code has no part in what FIX-Q does,
  so most of the repository's lines stay unmapped whatever else is modelled.  A client
  of the web server is taken to send whole requests.
* The children of `popen` inherit the listening socket and the connections of the web
  server; that a browser may wait for a child to end is not in `HttpServer`.
* PQC packet: a pure conversion, called once per order with fresh keys, for a hex dump
  on the page.  Scripts: pid files and `kill`, run by hand one at a time; that a process
  is stopped at any moment is an action of the tunnel modules.  Micro benchmark: nothing
  but timing.  Logger: one mutex around one statement.  Web page and test engine:
  presentation, and one of the clients the models allow.
* Data: FIX fields that no code reads; latencies; certificate checks; TLS records; the
  AES-GCM bytes (`Seal` and `Unseal` keep that both use one key and position, nothing
  else).  `std::stoi` also takes blanks and a sign before the BodyLength; `FixMessage`
  takes a number that begins with a digit.
* `cpu_cycles.json`, the third file of `academic_data`, which no upload writes.

## 6. Where the code and what is said of it differ

Shown by a run:

* `bist_unique_ids`: docs/01_mock_bist.md:57 has unique ExecID and OrderID;
  `exec_counter` is shared without a lock (mock_bist.cpp:52).
* `order_empty_field`: docs/05_web_server_ui.md:43-44 answers an error when a field is
  missing, and web_server.cpp:253 tests for empty fields; `extract_json_field` skips
  both quotes of an empty string (web_server.cpp:41) and returns the comma behind them,
  so the order is sent.  A key that is left out altogether is rejected.

Seen while modelling, without a run of their own: docs/01_mock_bist.md:52 goes back to
reading after an invalid message, the code processes it (mock_bist.cpp:31); the comment
at web_server.cpp:290 makes up a report "if proxies are not running", the code also
after a second of waiting; a socket that was accepted and given to no thread
(`AcceptThrows` on the decrypt server) leaves its `SSL_connect` waiting for ever, the
exception `SetUpEnds` makes; ClOrdIDs called unique (web_server.cpp:259) can collide,
exactly when `CollisionNeedsOverlap` allows; docs/01_mock_bist.md:41 returns to `accept`
after it failed, `run` does not; of two orders in one read the second is not answered,
which docs/01_mock_bist.md:8 promises; docs/03_pqc_proxy.md:52 closes both sockets when
one connection closes, the code half-closes.

## 7. Plan

Done: the two tunnels, the exchange, the accept loops of all three programs, the thread
pool of the web server, the manual order, uploads with their benchmark and charts,
messages and percentiles, and proofs of all that is safety.  Next, in this order:

1. Two mishaps to one message, of which the checksum finds out only some.
2. If wanted, `Deploy` (pid files and ports that outlive their processes) and
   `PqcPacket` (layout and keys of the Python packet).
