# A TLA+ development of C_Code_Pattern_In_Linux

The repository holds small Linux programs in C: an HTTP server for one device,
a client for it, a socket demo with control packets and heartbeats, an NTP
client, and exercises. This directory models what these programs do, checks the
models with TLC and proves, with TLAPS, the safety properties of everything that
has a state, three refinements, and what the checksum and the functions on
linked lists compute, for inputs of any length.

Paths below are relative to `src/src/`.

## Inventory

| Part | Code | State | Operations | Interaction |
|---|---|---|---|---|
| HTTP hand-off | `http_server/http_server.c` 921-1026, `http_server/main.c` 61-69 | `sockets[10]`, `socket_head`, `socket_tail`, `accept_thread` | accept loop, `try_accept_request`, `thread_accept_request` | two threads, shared memory, no lock |
| HTTP requests | `http_server/http_server.c` 206-269, 667-864 | buffers of one call, the descriptor table of the process | `handle_request`, `parse_request_line`, `parse_path_with_params`, `accept_request` | TCP with any number of clients; the kernel reuses descriptors |
| HTTP start-up | `http_server/http_server.c` 867-919 | listening descriptor | `startup`, `error_die` | ends the process on any error |
| HTTP helpers without a caller | `http_server/http_server.c` 73-107, 184-204, 271-462, 486-567 | none | query string, files, 400 | none |
| control server | `socket_demo/net_ctrl.c` 108-247 | connection, buffers | `server_thread` | TCP with one peer at a time |
| heartbeat client | `socket_demo/net_ctrl.c` 249-407 | connection, `cover_state`, buffers | `client_thread` | TCP with a server outside the repository |
| packets | `socket_demo/net_ctrl.c` 21-106, `net_ctrl.h`, `common/common.c` | none | CRC, checksum, (de)serialization, byte streams | called by both threads |
| NTP client | `time_sync/main.c` | retries, response buffer, the system's clock | request loop, setting the clock | UDP |
| HTTP client | `http_client/main.c` | counter | connect, send, select, receive | TCP with the HTTP server |
| exercises | `leetcode/` | none | fifteen functions on arrays, strings, lists | none |

What makes each part correct, and what is hard about it:

* **Hand-off.** No connection is served twice, none is closed by both threads, none is forgotten, they
  are served in order, the ring never overwrites a waiting one. Two threads read
  and write the same slots and `socket_tail` without a lock, and 0 in a slot is
  the only sign that it is free.
* **Requests.** A client gets the answer to its own request however TCP cuts
  it. Clients hang up at any moment, the kernel hands a closed number out again
  at once, `send()` may raise SIGPIPE, the picture's `FILE` is not closed.
* **Control server.** Each command is answered once and in order. TCP does not
  keep packets apart, and the code takes each `recv()` for one packet.
  Its loop around `create_server_socket` loses a descriptor with each failure.
* **Heartbeat client.** It sends a heartbeat only when asked, and comes back after
  a broken connection. Against the demo's own server it waits for ever. An orderly end is `recv() == 0`, which it does not treat.
* **Packets.** A table of 256 constants, byte orders, an odd length.
* **NTP client.** It ends, it never sets a wrong time, and gives up without
  touching the clock. Datagrams are lost, duplicated, late, reordered; a
  32-bit time stamp wraps; errors leave the loop by the same `break` as success.
* **HTTP client.** It comes back to its next request, and does the server no
  harm. `select()` waits a second at most, the `recv()` after it for ever; what
  was given up is still answered.
* **HTTP helpers.** Nothing of a line or of a query string is lost; both walk
  text whose end is part of what they look for.
* **Exercises.** Index arithmetic, and pointers that are turned round in place.

## Modules

| Module | Models |
|---|---|
| `SocketRing` | the hand-off: every access to shared memory is a step |
| `SocketRingInv`, `SocketRingProofs` | its inductive invariant, and the proofs about it and about the refinement |
| `HandOff` | what the hand-off promises: a bounded first-in first-out queue, and the two ways in which the promise breaks |
| `SocketRingQueue` | the refinement `SocketRing` => `HandOff`: its mapping, and what it needs beyond the invariant |
| `MCSocketRing` | instance for TLC |
| `HttpRequest` | parsing and the choice of the response, as operators |
| `HttpServer` | accept loop, queue, worker, clients and descriptor table together |
| `HttpServerInv`, `HttpServerProofs` | its inductive invariant, and the proofs about it |
| `HttpServerQueue`, `HttpServerQueueProofs` | the refinement `HttpServer` => `HandOff` up to the first early close: its mapping, what it needs beyond the invariant, its proof |
| `MCHttpServer` | instances: one client with any request and segments; several clients |
| `HttpClient`, `MCHttpClient` | the program `http_client`, composed with `HttpServer` and with strangers |
| `HttpClientInv`, `HttpClientProofs` | its inductive invariants, and the proofs about it |
| `TimeSync`, `TimeSyncProofs` | the NTP client and its network, and the proofs about it |
| `Packets`, `MCPackets` | the bytes of the socket demo, and reference definitions |
| `Checksum`, `MCChecksum` | `calculate_checksum`, and its reference definition; apart from `Packets`, whose bit operations are out of the provers' reach |
| `HttpHelpers`, `MCHttpHelpers` | lines and query strings, and reference definitions |
| `Algorithm`, `AlgorithmLists`, `MCAlgorithm` | the exercises on arrays, strings and lists, and reference definitions |
| `Loops` | C loops as recursive functions on their turns |
| `MCInputs`, `MCFunctions` | the inputs of the pure functions, and the instance that checks all of them |
| `FunctionProofs` | the proofs about the checksum, the lists, lines and query strings, and binary search |
| `ControlServer`, `ControlServerProofs` | `server_thread` and its peers, and the proofs about it |
| `MCControlServer` | its instance, with the bytes of the answers |
| `HeartbeatClient`, `HeartbeatClientProofs` | `client_thread` and its server, and the proofs about it |

`HttpServer` composes the request handling with a queue instead of the ring
itself, and with a descriptor table that hands numbers out again. What joins the
two is `HandOff`: `SocketRing` implements it, with two exceptions, the race and
the -1, which are studied there with descriptors that are plain numbers; and
`HttpServer` implements it without any, up to the first early close of
`handle_request`. Both refinements are proved.
`MCControlServer` gives `ControlServer` the packets of `Packets`: the size that
`strlen` finds in the answer with the cover state, and the length it claims. `HttpClient` EXTENDS `HttpServer`:
its program and its strangers are clients of that server, and every step of the
whole is one of `HttpServer`, as `ProgramIsClient` proves.

### SocketRing

`sockets`, `socket_head`, `socket_tail`, `accept_thread` are the globals (lines
921-927). `apc`/`client_sock` and `wpc`/`wsock` are the two threads' program
counters and locals. `Accept`, `Spawn`, `Admit`/`Refuse`, `Store` are the accept
loop; `Load`, `Clear`, `Take`/`Idle`, `HangUp`, `Close` the worker, one action for each
access to shared memory: line 932 and 933 are two of them. `socket_head`
belongs to one thread, so that lines 970 and 971 are one step. `accepted`,
`serves`, `closes`, `early`, `last` are history. Of `accept_request` this module
keeps one thing: `HangUp` is `handle_request` closing the descriptor of a client
that has gone (line 692), behind the back of the worker, which closes it again
(line 941). The k-th connection has descriptor k.
The C standard calls the unlocked accesses a data race; the steps are the
outcomes of single word-sized loads and stores in program order, which is what
compilers make of a loop that calls `printf` and `usleep` between them.

What the properties say:

* `OnceUnlessHungUp`: no connection is served twice, the two threads never close
  the same one, and the worker closes one twice in one way only: its client
  hung up while it was served. (What the second `close()` hits is the subject of
  `HttpServer`, whose descriptors are handed out again.) `ServedInOrder` and
  `CountersInStep` hold in every interleaving too, the order until the -1 was taken.
* `LossWedges`: a connection is lost in one way only, when `Store` comes between
  `Load` and `Clear` of the same slot. It needs an empty ring, which is the
  usual state of a server that is not busy. Then the worker polls a slot in
  front of its queue, and `WedgeIsPermanent`: it never serves anything again.
* The -1: `int sockets[10] = {-1}` sets the first element only. When the worker
  comes to slot 0 before the first `Store`, it serves descriptor -1 and is one
  slot ahead. `CountersInStep` bounds what follows; it also says that polling
  moves neither counter ahead of the connections, so that the two ints overflow
  with the 2^31st connection and not before. As the worker is created
  just before the first store, either order happens.
* `ImplementsQueue`: the refinement. `HandOff` has a mode: "sound", "phantom"
  (the -1 was taken), "wedged" (a loss by the race). In mode "sound" nothing is
  lost, the order is kept, and a connection is refused exactly when the queue is
  full.
* `EventuallyClosed`: with both threads scheduled and responsive clients, each
  accepted connection is closed, by the worker also after `HangUp`, unless one of
  the named exceptions happened.

### HttpServer

`startup` comes first: `Startup` takes the listening descriptor, `StartupFails`
is any of its calls that ends in `error_die`.

Each client has a request, sends it in pieces, may close or break its connection
at any time after it was accepted (before that makes no difference to the
server). `fdtab` is the descriptor table: `Accept` and `fopen` take the lowest
free number, as POSIX says. `Recv` is one turn of the loop in `handle_request`
with, on its last turn, lines 700-701; `RecvFails` and `CloseFailed` its
error path, after which the caller goes on with an empty or partial line;
`Respond` the parsing and the choice of the response with `fopen`; `SendPart` a
`send()`; `Finish` the close in `thread_accept_request`.

Abstractions: a request is a sequence of tokens, a name that a segment may cut
being two; a response is its kind with the history of where its input came
from; the 8, 9 or many sends of a response are two, the first and one with a
predecessor, which is what matters to SIGPIPE; the picture's size does not
change between `ftell` and `fread`; memory does not run out.

* `EverySocketDue`: every descriptor of a client is in the accept loop's hand, in
  the queue, or in the worker's, also after stale numbers were closed twice.
* `QueueMatchesTable`, `OwnUnlessHangUp`: queue and table agree and every answer
  is computed from its client's own bytes, unless `handle_request` closed the
  descriptor of a client that had hung up before its header was read.
  `EarlyClose` names that condition; `failed` is history: the first client whose
  connection `handle_request` closed.
* `QueueUntilEarlyClose`: the refinement. The history `order` of
  `HttpServerQueue` has the clients in the order of `accept()`; the k-th of them
  is in the backlog, accepted, refused, queued, being served or served, as its
  descriptor is in no hand, the accept loop's, the queue or the worker's. In every
  step before the first `CloseFailed` this is the queue of `HandOff` in mode
  "sound". From then on a descriptor in the queue
  may be another client's, and the mapping has no meaning; what holds even then is
  `EverySocketDue`.
* `RightWhenLongEnough`: what the wrong length in line 701 leaves of the promise.
* `EventuallyClosed` under the assumption that clients send.

### HttpClient

`cpc` is the program counter of the loop in `http_client/main.c`, `cnt` its
counter. Each connection of the program is one client of `HttpServer`, the
members of `Mine` in order; strangers ask for `Wishes`. `SelectReady` and `Timeout` are the outcomes of
`select()`, `RecvLoop` the loop behind it, `ProgramCloses` the close and the
pause. What was sent and the end of a connection reach the server later
(`Deliver`, `CloseArrives`), also after the program has gone on. `gaveUp` is
history. A failing `socket()` or `connect()` is repeated and changes nothing.

* `HarmlessIfPatient`: alone with the server, the program ends it only if a
  `select()` timed out. It can then: the server still answers the connection
  that was given up, and the second `send()` after a reset raises SIGPIPE. The
  server sleeps half a second between polls and a fifth after each connection,
  so that a second of patience is not much.
* `PatientIsAnswered`: a program that waits gets the answer to its own request.
  For its picture, `/1.jpg`, that is a 404: the server has it under `/jpeg`.
* `ComesBack`: the `recv()` without a timeout ends, as the server closes each
  connection although its responses say `Connection: keep-alive`.

### TimeSync

`Program` has one action per call of lines 65-132 and per outcome. `Answer`,
`Lose`, `Arrive`, `Tick` are the server, the network and time. Time passes
only while the program waits in `select()`. A datagram may be too short to carry
the time stamp, in which case the cleared buffer says 0. `CloseToServer` holds
while the time of Unix fits in 32 bits (`now < Wrap`): one such era later the
clock would be set an era back. `ntp_response` is
`Garbage` until `memset` runs. The arithmetic of line 122 is that of a 64-bit
`time_t` and `long`.

### The pure functions

Arrays, strings and byte sequences are sequences; a function that works in place
returns what it leaves. A loop is a fold, or `While`, a recursive function on the
number of turns, whose step leaves the state alone once the loop's condition is
false. A linked list is a heap: a function
from nodes to their successors, with the code's pointer variables in a record.
`MCInputs` grows every sequence of up to `MaxLen` out of four symbols, and each
check reads the symbols as what its function takes.

Each part below is a definition of its own; `PacketsIntact`, `HelpersKeepText`,
`ArraysAnswered` and `ListsRearranged` are the invariants that join them.

* `PacketsIntact`: `CrcIsPolynomial` compares the table with the division by x^8+x^2+x+1;
  `DamageIsDetected` flips one or two bits of a packet; `RoundTrip` compares the
  formats.
* `ChecksumByWords`, for an even number of bytes: `calculate_checksum`, which adds
  all words and folds the carries in at the end, agrees with a sum in ones'
  complement, which takes each carry back at once, whatever lies behind the data.
  For an odd number the code and its comment part: see the run `Comments`.
* `HelpersKeepText`: `LinesKeepText`, `QueryPairsFound`. Line by line,
  `get_request_line` returns the whole text; where it does more or less than its
  comment says (a lone LF ends a line, a cut line gets no LF), the property says
  that no text is lost by that, and the comment is in the run `Comments`. The pairs
  of a query string are those with an equals sign and a value, whatever stands
  between them. `deal_query_string` counts the unknown keys among at most 32 pairs,
  the length of its array (line 359), known names in either case of each letter, as
  `strcasecmp` takes them; from the 33rd pair on, `Overrun` stands for a
  write behind the array, and the property says that it begins there.
* `GetByteStream` is used with two bytes; `RoundTrip` also makes it refuse more
  than eight, which leaves the offset where it is (`common.c:18`).
* `ArraysAnswered`: `BubbleSortsThatRange` says what `bubbleSort` does sort, namely
  `start .. end - start`; `RemovesInPlace`, `RomanReadsBack`, `BracketsBalance`,
  `SearchFinds`, `StringsAnswered` are the other exercises.
* `ListsRearranged`: `ReversesInPlace`, `PairsSwapped`, `MergeKeepsAll`,
  `MeetWhereTheyJoin`: the lists are permuted as they should be, and no node is
  lost or doubled.

### ControlServer and HeartbeatClient

A packet is two pieces in a stream, and `Recv` returns any number of the
pieces that have arrived. `merged` and `regular` are history: they say whether
each `recv()` returned exactly one packet so far. `ControlServer`'s peer and
`HeartbeatClient`'s server are outside the repository (main.c starts only the
client, and `server_thread` sends no heartbeats), and do anything; or
(`answersOnly`) the server is like `server_thread` and writes answers only, with
which `NobodyBegins`.

`Socket`, `BindAndListen` and `BindFails` are `create_server_socket` with the loop
around it. A busy port costs a descriptor with each attempt: `ListensOrLeaks`
says that the loop ends one way or the other, `DescriptorsAccounted` that
nothing else loses descriptors, and `AcceptsAgain` names the case in which the
server listens and has no descriptor left to accept with.

## Runs

| Run | Shows | Bounds |
|---|---|---|
| `SocketRing` | safety and liveness of the hand-off, its inductive invariant, the refinement | 3 slots, 7 connections: both counters go round the ring twice, the ring fills, the race and the -1 happen at each slot they can |
| `HttpServer` | table, queue and answers, the inductive invariant behind them, the refinement | three clients, four descriptors (one of them listens), two places in the queue, a buffer as long as the requests: a descriptor is inherited while a third connection waits, two wait in the queue at once, in an order that can go wrong; the table runs full; clients are symmetric; a pause after four tokens leaves as many as the request line has, the limit of `RightWhenLongEnough` |
| `HttpServerLive` | the client's and the connections' liveness | two connections of the program and a stranger with the picture: the first can be given up and still be answered while the second waits, and the picture takes the last descriptor; requests come in one piece (pieces are in `HttpServer`) |
| `TimeSync` | safety and termination of the NTP client, its inductive invariant | 3 attempts, timeout 2, delay up to 3: a reply can come after the next request; time stamps wrap at 16, one start before the wrap and one across it |
| `Functions` | reference definitions | all sequences up to 6 symbols out of four: a packet without its CRC from the bytes {0, 1, 161, 255}, with which each table entry is reached; lists of up to 6 nodes, every range of them; all numbers that Roman numerals have |
| `ControlServer` | listening, answers, their inductive invariant | 3 commands, 2 peers, 3 descriptors: after no, one or two failures none is left for the next attempt or for `accept()` |
| `HeartbeatClient` | heartbeats, their inductive invariant | 4 packets, 2 connections |

Runs that show a disagreement between the code and what is said of it:

| Run | Disagreement |
|---|---|
| `HttpSplitRequest` | a request in several segments is cut at the length of the last one (`http_server.c:701`) |
| `HttpForeign501` | an early hang-up makes another client receive a 501 (`http_server.c:692`) |
| `TimeSyncGarbage` | the clock is set without a reply after `sendto` failed (`time_sync/main.c:70`) |
| `Comments` | three at once: `sortString` sorts neither the second nor the third of its groups (`algorithm.c:22`); an odd number of bytes is summed with the byte behind them, and the last one twice (`net_ctrl.c:58`); a lone LF ends a line (`http_server.c:79`) |
| `ControlLength` | the length of the answer is not that of the packet (`net_ctrl.c:220`) |

`Comments` has one property for three comments, `OneCommentHolds`, their
disjunction: an input that violates it contradicts each of them, so that the one
counterexample, `data = <<2, 1, 1>>`, is one to `SortStringSorts` (the string "A11"
becomes "11A"), to `LastByteHandled` (the checksum of 1, 0, 0 depends on the byte
behind them) and to `FirstLineAsCommented` (LF CR CR: the line ends at the LF).

`CHECK_DEADLOCK FALSE` is in every cfg: with bounded connections, packets and
retries each system comes to rest, and the programs' own ends (`exit`, SIGPIPE)
are states without a successor.

## Fairness

* `SocketRing`: weak fairness of each thread. A thread that can run does, as both
  are plain pthreads; `Accept` and `AcceptFails` are not fair, nobody has to
  connect. `ResponsiveClients` is a separate assumption: `recv()` has no timeout.
* `HttpClient` (`FairProgramSpec`): weak fairness of both server threads and of the program, of the
  delivery of what the program sent, and of `Send` for each stranger: the
  server's `recv()` has no timeout, so that this last one is an assumption.
* `TimeSync`: weak fairness of the program, of time, and of the network.
* `ControlServer`, `HeartbeatClient`: weak fairness of the thread only.

## Proofs

| Module | Proves, for every value of the constants | Assumptions |
|---|---|---|
| `SocketRingProofs` | `TypeOK`, `OnceUnlessHungUp`, `CountersInStep`, `LossWedges`, `WedgeIsPermanent`, `ServedInOrder`, `QueueInv`, `ImplementsQueue` | `RingAssumption` |
| `HttpServerProofs` | `IInv` with the types, `EverySocketDue`, `QueueMatchesTable`, `OwnUnlessHangUp`, `RightWhenLongEnough` | `ServerAssumption` |
| `HttpServerQueueProofs` | `QueueInv`, `QueueUntilEarlyClose` | `ServerAssumption`, `FiniteClients` |
| `HttpClientProofs` | `ProgramSpec => Spec` (`HttpServer`'s), `ProgramInv` and `PatientInv`, `HarmlessIfPatient`, `PatientIsAnswered` | `ServerAssumption`, `ClientAssumption` |
| `TimeSyncProofs` | `IInv` with the types, `CloseToServer`, `UnansweredOnlyByGarbage`, `GivesUpUntouched` | `TimeAssumption` |
| `ControlServerProofs` | `IInv` with the types, `AnswersFollowCommands`, `NoneSkippedUnlessMerged`, `DescriptorsAccounted` | `ServerAssumption` |
| `HeartbeatClientProofs` | `IInv` with the types, `OneBeatPerRequest`, `NobodyBegins`, `StateAlternates`, `SpinsForEver` | `ClientAssumption` |
| `FunctionProofs` | `ChecksumByWords`, `ListsRearranged`, `HelpersKeepText`, `SearchFinds` (of `ArraysAnswered`) | `InputAssumption`; for the checksum, even numbers of bytes up to 2^17 |

The assumptions say what numbers the constants are: rings of two slots or more,
as many descriptors as a listening socket and a connection need, requests that
are complete and fit the buffer, connections of `http_client` that are used once
each, an offset smaller than the wrap, an answer of
`server_thread` whose first byte is not zero. The runs
evaluate them, and check each inductive invariant on their instance, except
`HttpClientInv`, of which the run of `HttpClient` checks the consequences.

### SocketRing

None of the properties is inductive. `IInv` (module `SocketRingInv`) adds:

* `Ownership`: a descriptor is in the accept loop's hand, in one slot, or with
  the worker, and its counters say so; the newest is larger than all others.
* `Capacity`: the counters stay apart less than a ring, also between the test and
  the store, as the worker only increases its own.
* `Window` and `Order`, until the -1 is taken: descriptors are in the slots of
  `socket_tail .. socket_head - 1`, in increasing order behind what was served.
* `OneStray`, afterwards: the worker is one ahead, or one descriptor lies outside
  the window, never both; so a lap later no waiting descriptor is overwritten
  twice and the capacity still holds.

`CountersInStep` is where `Window` is not enough: without `OneStray` the worker
could leave the window again after the -1. Each part has a lemma that a step
preserves it, with one step per action; two lemmas on `Slot` (a slot is in the
ring, and two numbers less than a ring apart have different slots) carry the
arithmetic.

### SocketRing implements HandOff

`SocketRingQueue` reads the status of a connection, and the mode of the queue, off
the state of the two threads. `QueueInv` adds three facts: there are no holes
in the ring behind the worker (`NoHoles`), before there is a worker nothing
leaves the first slot (`Unworked`), and one connection is served at a time
(`OneServed`). The heart is `QueueLength`: in mode "sound" the abstract queue
is exactly as long as the counters are apart, by the bijection between the
positions of the window and the waiting connections. With it the test of line
966 is the abstract one for a full queue. Then each action is a move of one
connection, a change of mode, or a stutter.

### HttpServer

`IInv` (module `HttpServerInv`) is built round one question: has `handle_request`
closed a descriptor behind its caller's back? As long as it has not (`failed`
is empty), `WholeInv` says that the queue and the table agree and that the
worker's descriptor is the one of the client whose bytes it has read, who gets
the answers. Once it has, `BrokenInv` says that the first such client was gone
early, and stays so: it owns no descriptor, and only `Accept` gives one, to
clients that have not been accepted yet. Each property is one of the two.
`ReadInv` is what makes the answer a client's own: a client is read in one call
of `accept_request` only, so that a header with nobody else's bytes is the
beginning of its request. `EverySocketDue` is inductive with the types alone and
needs neither: a number closed twice leaves its heir in somebody's hands.

`RightWhenLongEnough` rests on `CopyReadsAlike`: if the copied bytes reach to the
end of the url, the loops of `parse_request_line` stop on the copy where they
stop on the request, or run on into the zeros behind it, which end the C
string. Its lemmas say where a loop stops (`LoopStops`, `LoopStopsAt`), that
zeros do not change a text (`TextPadded`), what `HeaderCopy` holds (`CopyType`).

### HttpServer implements HandOff

`QueueSpec` is `Spec` with the history `order`, to which `Accept` appends its
client and which no guard reads. `QueueInv` adds to `IInv`: each client comes
once in `order`, and is there exactly if it was accepted (`OrderInv`); and while
nothing was closed early, the entries of the queue belong to clients in the
order of their `accept()`, the descriptor in the accept loop's hand to the last
of them (`InOrder`). So the number that the kernel gives to a new client is
never taken for that of an old one, although numbers and order have nothing to
do with each other. `QueueLength` maps the entries of the queue one to one to
the connections that wait, so that the capacity test is the abstract one;
`EverySocketDue` is why a client that owns a descriptor and is in no hand must be
in the queue. A client with `got = 0` that owns nothing any more was refused, as
the worker reads before it closes. Then each action moves one connection or
none. A step of `CloseFailed` puts a client into `failed` and ends the claim.

### HttpClient

`ProgramInv` says that the program uses its connections in their order, for one
request after the other, and those behind not yet. Then each of its steps is one
that a client of `HttpServer` may take (`ProgramStep`), and the invariant of
`HttpServer` holds.

`PatientInv` is the rest, as long as no `select()` timed out and no stranger came:
the server has one connection at most, to the program, which does not hang up
(`OneConnection`). So the queue has room, a descriptor is free, no `recv()` fails
and every header is read to its end (`Unharmed`). Nothing but a picture could
kill the server then, and for that the parsed bytes would have to hold a name of
which the program's requests, however cut, hold no token (`RouteNeedsName`,
`AskedAndAnswered`). The same lemma says that only settings go without an
answer, so that `PartsSent` has something in the client's inbox whenever the
connection is closed; that it is the right thing is `RightWhenLongEnough`.
What makes `PatientInv` inductive is that patience is not found again
(`PatientBefore`).

### TimeSync, ControlServer and HeartbeatClient

For the clock: what is in the network and the buffer is younger than `MaxDelay`
(`Fresh`), because time passes only while the program waits and no datagram
does; each attempt sends one request (`Attempts`); a response is a recent time
stamp or nothing (`Response`); and what the clock was set to follows (`ClockSet`).
`CloseToServer` is then arithmetic on one wrap of the stamp.

For the answers of `server_thread`: the stream is the end of what the peer sent,
half by half (`StreamInv`), so that a `recv()` that brings a packet begins where
the last one ended, behind everything answered so far; what is answered has been
read (`AnswerInv`); and as long as each `recv()` brought one packet, what has been
read is answered or about to be (`NothingSkipped`). The proofs do not depend on
the bytes of a packet: that CRC and serialization are what they should be is
checked in run `Functions`.

For the heartbeats: the requests for a heartbeat that the client has read are
counted in the stream before what is unread, however `recv()` cuts it (`Unread`,
`Requests`); a heartbeat that is ready carries the state of its turn
(`Prepared`, `Alternation`); a server that only answers has nothing to answer
(`Silent`). `SpinsForEver` needs no invariant: no action leads out of the end of
the stream.

### The pure functions

Induction over data is done with sets: if a set of numbers has 0, and k whenever
it has k - 1, it has all numbers up to the bound (`EveryTurn`, from the least
number that it lacks). The set is then that of the turns after which a loop is
in the state it should be in. `Recursion` gives the recursive functions behind
`While`, `SumOf` and `OnesSum` a value for every turn.

For the checksum: folding a sum once keeps it modulo 65535, and makes nothing but
zero zero; so does taking a carry back at once; and two numbers below 65536 that
agree in this are equal or are 0 and 65535, of which neither becomes the other
(`FoldingLosesNoCarry`). Up to 2^17 bytes the sum of the words is below 2^32, so
that it fits the `uint32_t` of the code and two folds are enough. What the odd case
adds is the sum of two more words.

For the lists: the state after each turn is written down in closed form
(`TurnedNext`, `BetweenNext`, `SwapNext`), and a turn of the code leads from each
to the next, which is where a pointer that was written too early would show. A
list is read off a heap by a path (`IsPath`), and `ChainIs` says that `Chain` finds
that path. Merging has no closed form. Its invariant `Woven` says of the nodes
linked so far and of those left: they are all, the path is linked, what is left is
linked as in the beginning, and no node stands before one that it must not
precede (`Before`). `WeaveOne` takes one node over; `WeaveRest` the run of nodes
that is left when one list has ended.

For lines and query strings: the reference definitions are functions on the places
of a text, and a loop of the code is related to them by a place. `ReadTo` says how far
a line was read: never between a CR and its LF (`Whole`), and what was returned so
far, with the line, is the text up to there; a line makes progress, so that there are
no more calls than characters (`AllLinesRead`, for every buffer of two bytes or
more). `QueryStop` says that the tokens up to an ampersand were searched; inside a
token no pair is added, at its end at most one, by the same equals sign
(`PairOfToken`). That `max_pairs` never ends the search too early needs an argument of
its own (`PairsBounded`): every pair has its end among those that are counted, so
that there can be no further one when as many were found.

`searchInsert` is the classical invariant (`SearchOn`), with one element less between
`low` and `high` at each turn, which bounds the turns.

The inputs of the run are over four symbols. `ChecksumOfBytes`, `BothMerged`,
`AllLinesRead` and `AllPairsFound` state the same for any bytes, values and
characters, and for every length of the buffer; `ChecksumOfBytes` says what the code
computes of an odd number of bytes as well. `HelpersLoseNothing` is about queries of
any length, and claims a result of `deal_query_string` for at most 32 pairs only.

### Only model-checked

Out of the prover's reach is liveness under fairness (`EventuallyClosed`,
`ComesBack`, `Terminates`, `AcceptsAgain`, `ListensOrLeaks`,
`ReconnectsAfterReset`), and everything about the bit operations of the CRC
(`PacketsIntact`), whose module is defined by recursive operators. Not proved is
`ArraysAnswered` but for `SearchFinds`: it compares with reference definitions built
from folds, selections and sorting of the library, each an induction of its own;
the run checks it on every input within its bounds.

## Plan

Every part of the code with behaviour of its own has a module, and the safety
properties of the modules with behaviour are proved. What can be added is the
rest of the pure functions, the other exercises on arrays and strings, by the same
induction on turns.

## Not modelled

`cat`, `bad_request`, `read_html_file`, `write_html_file`, `send_html_response` and
`free_query_string_pairs`, which nothing calls and which copy between files,
memory and sockets; the bodies of `/set_params` and `/reboot` and of
`deal_query_string`, which are comments; what happens when a header or a word is
longer than its buffer, which the language leaves undefined; memory that runs
out; `printf`, wording and layout; the main programs of the demos, which start a
thread or print results; build files.
