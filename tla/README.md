# Verification of network-course

The repository is the companion code of a course on TCP and sockets: small
programs, each of which shows one thing about the network. Several of them have
real control in them: line readers with static buffers, a kernel module without
locks, the kernel's search for a free port, event loops over `epoll` and
`select`, a websocket handler with a pinging goroutine, clients that open
connections until something runs out, and a calculator with the scanner and the
parser that flex and bison made for it. This directory models
these programs in TLA+, checks the models with TLC and proves their safety
properties with TLAPS.

To run: `tlc -config X.cfg M` for the run X of module M in the table below, and
`tlapm M.tla` for the modules whose names end in `Proofs`.

## 1. Inventory

Every part is listed in `PROJECT.json`, also those that are not modelled.

### Reliable echo pair (`intro/reliable_test_{client,server}.c`)

State: on each side a `readline()` with a static buffer that survives from call
to call; the server's counter, which is never initialised; two TCP byte streams.
Operations: connect, `fgets`, `send`, read a line, print; accept, read a line,
reply. They interact by the streams alone: the client waits for a line after
every chunk it sends, the server replies to every return of its `readline()`.
Hard: bytes come in any portions and calls are interrupted, lines are longer than
buffers and may hold NULs, at which `strlen()` stops, either side dies, unread data at
`close()` turns into a reset, each may wait for the other.
Correct if: no byte is lost, repeated or stored outside its array; a return is a
line; with lines that fit the two alternate strictly, finish and never fill up the
connection against each other; otherwise the client may fall behind or wait for an
answer to what the server did not get as a line, but order and line boundaries are
kept, and each side notices that the other has gone.

### Poll device (`live/epoll/my_poll_dev/my_poll_dev.c`, `live/epoll/my_poll_dev_test.c`)

State: `readbuf`, `readbuflen`, a wait queue, a kernel thread with its counter.
Operations: load, unload, print and wake up (thread), `poll` and `read` (any
number of processes). Hard: nothing is locked. `read()` loads `readbuflen` twice
and clears it at the end, while the thread rewrites buffer and length.
Correct if: a sleeper is woken; a single reader gets something after POLLIN, and
`read()` takes away the announcement of a message it did not deliver only in the one
race the code leaves open (a message that a later one overwrites is lost in any case); messages never go back
in time; the result covers what was copied; unloading ends.

### Port searches (`port/inet_connection_sock.c`, `port/net_ipv4_inet_hashtables.c`)

Annotated copies of two functions of the kernel: `bind()` with port 0 looks for a
port from a random odd offset, then on the other parity; `connect()` looks on
`low`'s parity from a static `hint`, which it updates without a lock.
State: the bind hash table, `hint`, the searches' unsigned locals. Hard: unsigned
underflow and wrap-around, no upper bound at `high`, concurrent searches, other
sockets that change the table.
Correct if: a search ends and stays near its range; `bind()` takes ports of
`connect()`'s parity last; a `connect()` leaves a `hint` that leads the next search for
its destination away from the port it tried. What the comments say beyond that does not hold, see section 5.

### Epoll server (`live/epoll/epoll_test.c`)

One thread over a level-triggered epoll set with blocking sockets. State: the
epoll set, the descriptor table, the batch of events being handled, the accept
queue. Hard: the batch is a snapshot, descriptors are closed and reused while it
is worked through, a read error drops the rest of it, descriptors run out.
Correct if: no event is stale when the loop comes to it (a blocking call would
stop the server for all), no descriptor is forgotten, nothing sent is lost, every
client is served.

### Select client (`live/epoll/select_test.c`)

`select()` over standard input and a socket, but `fgets()` on the former. State:
stdio's buffer, which `select()` does not see, and both descriptors. Hard: lines
stranded in the buffer, half lines, NULs, end of input, a server that does not read, a
write error that is never noticed because it is compared as unsigned.
Correct if: all input but the newlines is sent and all output printed, as far as no NUL
hides it, the server's end is noticed unless `fgets()` or `write()` blocks, and on a
terminal nothing is stranded.

### Websocket echo (`websocket/server.go`)

An HTTP server: the echo handler and a goroutine that pings, per connection, and a
page with Open, Send and Close. State: the page's `ws`, each connection's two
directions and write error, the handler's place. Hard: two goroutines write to one
connection, a ping's write timeout spoils it, the browser closes, aborts or
vanishes, an `onclose` of an old session could meet a new one.
Correct if: the page has one session at a time, echoes come once and in order,
every message is answered or the session ends, closing completes, the handler ends.

### Connection tests (`port/connect_test_*.c`, `syn_accept_queue/*`, `handshake/syn_retries.c`)

Clients that connect in a loop, once, or in 2000 goroutines, and three servers: one
accepts by `epoll` and never looks at `accept()`'s result, one accepts until
`accept()` fails, one never accepts. State: the two queues of the listening socket,
descriptors and ports on both sides. Hard: `connect()` returns before the server
has the connection; queue, ports and descriptors all run out.
Correct if: every client ends, those that close the socket of a failed `connect()` leak
no descriptor, and the queue is served while there are descriptors, also when several
connections enter it between two calls of `epoll_wait()`.

### Calculator (`packetdrill/calc.{y,l}`, `calc.tab.c`, `lex.yy.c`)

`yylex()` runs a compressed automaton over a buffer that ends in two NULs, is
refilled and enlarged in the middle of a token, and remembers the end of the file.
`yyparse()` runs LALR tables over two stacks that grow; its actions compute on ints
and on `sym`. The parser calls the scanner only when a state needs a look-ahead.
Hard: the held character, NULs in the text, tokens across a refill, the end behind a
token, a terminal that must not be read too early, stacks at their limit, divisions
that trap, statements executed on a line that is then rejected.
Correct if: the scanner implements the rules of `calc.l` whatever the portions; the
parser executes the statements of `calc.y` with the right values and rejects at the
first impossible token; buffer and stacks are never overrun.

### Parts not modelled

Termination and TCP state scripts, delayed acknowledgement and Nagle, SO_LINGER and
reset: what they show is the kernel's TCP or the JDK's streams, and the programs
themselves are straight lines. The remaining ones have no state or concurrency of
their own (capture examples, single system calls, scratch files, `wc.l`).

## 2. Plan

Order: by weight of a program's own logic and of its hazards.

1. Done: `Readline` and `RecvLine`, composed by `ReliableTest` and shown to
   implement `Conversation`; `PollDev`; `PortSearch`; `EpollServer`;
   `SelectClient`; `WebSocketEcho`; the theorems of section 6.
2. Done: `ConnectTest`, the connection tests; `Scanner`, shown to implement
   `TokenStream`; `Parser`, which computes what `CalcGrammar` says.
3. Left out for good: `delayack/*`, `solinger/*`, `terminate/*`, `tcp_state/*`
   (section 1, parts not modelled).
4. Done: the strict alternation of `ReliableTest` (`InStep`), who waits for whom
   (`MutualWaitOnlyOnPartialLine`, `PairNeverBlocks`), `NoFdLeaked`, the scanner's `BufferFits`,
   `PromptRead` and `EofReadOnce`, the parser's `StacksFit`, and the safety halves of
   both refinements (`PairConverses`, `StreamsTokens`).
5. Done: the parser's `RejectsInTime` and `Computes`, against the recursive definitions
   of `CalcGrammar`. With them every invariant that a run checks is proved.
6. Done: NULs and full buffers of the connection in the echo pair and the select
   client; `NextBehind`, the hint under concurrent searches, with its theorem.
7. What could be added: that `connect()`'s search passes over no port of its parity.

## 3. Modules

| Module | Models | State and actions |
|---|---|---|
| `Readline` | server's `my_read()`, `readline()` | statics `read_cnt`, `read_ptr`, `read_buf`; an action per outcome of `read()` and per byte |
| `RecvLine` | client's `readline()` | statics `cnt`, `bp`, `b`; the same |
| `ReliableTest` | both `main()`s and TCP | EXTENDS the two; connect, fgets, send, print, accept, reply, end, kill |
| `Conversation` | what the pair promises | `asked`, `answered`, `printed` |
| `MCReliableTest` | input sets for TLC | |
| `PollDev` | module, thread, `poll`, `read`, test program | one action between every two accesses to shared state |
| `PortSearch`, `MCPortSearch` | both searches | one action per port inspected; load and store of `hint` apart |
| `EpollServer` | `epoll_test.c` | one action per `epoll_wait()` and per event |
| `SelectClient` | `select_test.c` | one action per call that may block or fail |
| `WebSocketEcho` | `server.go` | page handlers, `echo`, `ping` |
| `ConnectTest` | the three servers, the three kinds of clients, the listening socket | one action per system call and outcome |
| `TokenStream` | what the rules of `calc.l` promise | `pos`, `tok`, `reported` |
| `Scanner`, `MCScanner` | `lex.yy.c` | one action per character matched, per rule and per outcome of a refill |
| `CalcGrammar` | what `calc.y` says, by recursion on the text | no state |
| `Parser` | `calc.tab.c` | the stacks and the look-ahead; one action per shift, reduction, token and error step |
| `ReliableTestProofs`, `PollDevProofs`, `PortSearchProofs`, `EpollServerProofs`, `SelectClientProofs`, `WebSocketEchoProofs`, `ConnectTestProofs`, `CalculatorProofs` | the theorems | |

`Scanner` and `Parser` share no name, as `yylex()` and `yyparse()` share none, so that
`CalculatorProofs` extends both.

Conventions. Operators keep the source's names where there is one. A definition
whose comment says "Mutation of X" is a plausible mistake in X that no
specification uses: put in its place it breaks the property `PROJECT.json`
names, which shows that the property is about the code. Variables under "not in
the code" are history the properties need.

Abstractions.
- A byte is its position in its stream, so that a lost, repeated or reordered
  byte is visible; of its content only "is a newline" is kept and, where the code
  calls `strlen()` or `fputs()`, "is a NUL". In `EpollServer` bytes are counted.
- TCP (external) delivers in order and in any portions; closing a socket with
  unread data, and sending to a closed one, resets the connection. It holds
  `Window` unread bytes on their way to the echo server and `RWindow` to the client;
  `send()` waits until all its bytes have room. In `SelectClient`, `room` says whether
  the next `write()` returns; the server may read and make room, or never.
- Printing a number is modelled by its length where a length matters (`MsgLen`,
  `ReplyLen`). The server's uninitialised `count` starts with any value of
  `Counts`.
- `PollDev`: a print and a copy each have a beginning and an end, and a copy that
  overlaps a print may mix two messages (`from` .. `to`).
- `PortSearch`: a port's entry is "free" (no bucket), "shared" (a bucket without
  conflict) or "busy". The locals are unsigned, modulo `U32`. `port_offset` is a value
  for each destination; `seen` and `dest` keep what a search began with.
- `EpollServer`: the order of events in a batch is the kernel's and therefore any.
  `accept()` returns the lowest free descriptor.
- `SelectClient`: a terminal gives out whole lines, one per `read()`; a pipe gives
  out what there is, up to stdio's buffer. A reset is reported once, by `read()`
  or `write()`; after that `write()` raises SIGPIPE.
- `WebSocketEcho`: messages are numbered, pings and close frames are frames of
  their own, the direction to the browser holds `Capacity` frames. A ping that
  finds no room for `writeWait` makes writing fail from then on; time is not
  modelled otherwise. The ping goroutine never ends in the code (`stdoutDone` is
  never closed); once its connection is closed it does nothing but log.
- `ConnectTest`: a client runs against the server whose port it names. The last ACK
  of a handshake is a step of its own, since `connect()` does not wait for it. Of the
  queues only the lengths are kept, since `accept()` does not look at whom it gets;
  `ready` is epoll's ready list, on which a level-triggered socket stays. A
  connection that nothing refers to in `connect_client.go` is closed when the garbage
  collector comes by (`Exit`). SYN cookies are on, as by default, so that only a
  full accept queue leaves a SYN unanswered.
- `Scanner`: one or two characters stand for each equivalence class; `ch_buf` ends
  with the second end-of-buffer character, what is behind is never read. A read from
  a terminal brings at most a line, any other any portion. `MeetsEnd` says that a read
  of characters met the end of the file too, as `YY_INPUT` does on a terminal behind a
  last line without a newline.
- `Parser`: token kinds are names, `yytranslate` maps them to the table's columns.
  Signed overflow, undefined in C, wraps around as the build does, and division traps
  as the processor's does. The value of an empty rule and the wasted stack element
  are "undefined" and never used.

## 4. Runs

| Run | Module | Distinct states | Shows |
|---|---|---|---|
| `framed` | `MCReliableTest` | 89,449 | with terminated lines that fit the server's buffer: strict alternation (`InStep`), refinement of `Conversation` with its liveness (`Converses`), `Termination` |
| `anyinput` | `MCReliableTest` | 666,429 | any input, NULs included, either program killed at any time: `StoresInBounds`, `BytesInOrder` (server), `RecvInOrder`, `WholeReply` (client), `MutualWaitOnlyOnPartialLine`, `EndNoticed` |
| `poll` | `PollDev` | 106,723 | `NoEmptyRead`, `LostOnlyIfStraddled`, `InOrder`, `AtMostTwice`, `SleeperWoken` |
| `ports` | `MCPortSearch` | 356,548 | a `bind()`, two `connect()`s and another socket on one table: `LowParityLast`, `NextBehind`, `SearchEnds` |
| `epoll` | `EpollServer` | 48,164 | `NeverBlocks`, `GoneIsClosed`, `BytesAreRead`, `QueuedIsAccepted` |
| `select` | `SelectClient` | 1,719,137 | `NothingStranded`, `AllPrinted`, `EndIsNoticed`, `EndDrains` |
| `ws_pages` | `WebSocketEcho` | 156,981 | two sessions in turn: `OneSession`, `CloseCompletes` |
| `ws_order` | `WebSocketEcho` | 6,818 | several messages under way: `EchoInOrder`, `HandlerEnds`, `Answered` |
| `scan` | `MCScanner` | 1,528,234 | refinement of `TokenStream` with its liveness (`Streams`); `BufferFits`, `PromptRead`, `EofReadOnce` |
| `parse` | `Parser` | 240,727 | `Computes`, `RejectsInTime`, `StacksFit` |
| `connections` | `ConnectTest` | 153,080 | `NoFdLeaked`, `ClientsEnd`, `QueueIsServed` |
| `bind_range` | `MCPortSearch` | | a counterexample, section 5 |

Properties that are proved for every instance (section 6) and so need no run: the
type invariants, `OneLinePerReturn`, `ReturnCoversCopy`, `StrayBound`, `Watched`,
`AllWritten`, `SentIsInput`, `NeverInHalfLine`, and that `BothBlocked` never holds with
framed lines.

### Bounds and why they are enough

- `framed`, `anyinput`: all texts of up to `MaxSize` bytes, i.e. every placement of
  newlines, and in `anyinput` of a NUL in texts one byte shorter. The buffers are so
  small (2 to 6 bytes) that the texts hold lines shorter and longer than each of them,
  buffers are refilled in the middle of a line, and one refill holds the end of one line
  and the beginning of the next. The connection holds no more than one chunk and, to the
  client, a reply or hardly more, so that in `anyinput` each program waits in `send()`.
  `Counts` holds the value at which the printed length changes.
- `poll`: `Radix = 2`, so that three messages have two different lengths; two
  readers, one with a bad buffer, include the behaviours with one.
- `ports`: a range of four ports, a reserved one among them, all contents for the
  port in `Varied` with the others all free or all taken, one change by another socket.
  Three searches, so that one begins with what two racing `connect()`s left in `hint`;
  the offset takes every even value. `U32` is so small that `hint`, the sum with
  `port_offset` and `offset--` wrap around, and is no multiple of the range's length,
  just as 2^32 is none of most lengths. More searches are covered by the theorem `HintLeadsOn`.
- `epoll`: two descriptors for three connections, so `accept()` fails; batches of
  two out of up to three ready descriptors, so some are left out; reads of one byte.
- `select`: three bytes of input with every placement of newlines and at most one NUL,
  `MAXLINE = 3` and stdio buffer 2, so lines are shorter and longer than both; four bytes
  of replies, more than `recv_line`, one of which may be a NUL.
- `ws_*`: two sessions with one message, one session with three messages, and a
  connection that holds one or two frames, so that it fills up.
- `scan`: all texts of up to five characters over a NUL, an invalid character, a
  blank, a newline, a digit and a letter, and of up to four with an operator as well. The
  buffer holds two characters, so tokens
  cross refills and it is enlarged twice; reads bring one or two characters, so the
  end may come behind any of them.
- `parse`: all inputs of up to seven tokens. The stacks start with three elements,
  grow to six and to eight, which is no multiple, and run out. Ints have four bits,
  so sums and products of 3 overflow and differences divide by zero.
- `connections`: four connections wanted by each of two loopers, three descriptors per
  process, an accept queue of two, four ports, one retry and a server with three
  descriptors: each of them is the first to run out in some behaviour, and two
  connections wait in the queue when one event is handled.

`CHECK_DEADLOCK FALSE` is set where the system may stop: a killed program, a
client that does nothing more, callers that search for no more ports, an exited loop, an unloaded module, a scanner or
parser that has ended, clients that have exited.

### Fairness

- `ReliableTest`: weak fairness of each program. For the client this includes that
  the user types on or closes standard input; the end of `Inputs` is that end. A
  `send()` without room is not enabled, so nothing is assumed of the other side.
- `PollDev`: weak fairness of the thread, of `kthread_stop()`'s return, and of
  every process that is not asleep. Nobody has to open, close or unload.
- `PortSearch`: a search that has begun runs on (it neither sleeps nor waits).
- `EpollServer`: weak fairness of handling events; strong fairness, per
  descriptor, of being reported by `epoll_wait()`: the kernel moves what it has
  reported to the tail of its ready list, so that a descriptor that is ready over
  and over is reported. Nothing is assumed of the clients.
- `SelectClient`: weak fairness of the program. Nothing of user and server.
  `EndIsNoticed` and `EndDrains` have the hypothesis `WritesReturn`, that the program is
  not for ever in a blocked `write()`; with a server that never reads they do not hold.
- `WebSocketEcho`: weak fairness of the browser's events, the goroutines, the
  ticker and TCP's time-out for a peer that has vanished (retransmissions, and the
  keep-alive that Go's listener switches on). The user need not click.
- `ConnectTest`: weak fairness of each client up to its final `sleep()`, of the
  kernel's handshakes and of the server. Nobody has to press a key.
- `Scanner`: weak fairness of the program, which includes that it is called again
  (the parser asks until the end) and that input arrives or ends; a failing read may
  end it at any time.
- `Parser`: none, its properties are invariants.

## 5. Where comments and code disagree

The files under `port/` are shortened copies of kernel code, and some comments say
what the code there does not do.

- "[32768, 60999] -> [32768, 61000[" (`inet_connection_sock.c:20`), but the search
  starts in the range and never wraps around at its end, so it returns ports above
  it: the run `bind_range` finds a counterexample to `InRange`. What does hold is
  `StrayBound`, proved.
- "Returns with the inet_bind_hashbucket lock held" (`inet_connection_sock.c:2-3`),
  but the lock is only ever released; in the model `OtherSocket` may take the port
  before `BindReturns`.
- "从 0 开始遍历，查找未被占用的端口号", looking for an unused port
  (`net_ipv4_inet_hashtables.c:29`), but a port whose hash slot is empty is passed
  over (`Chain`).

## 6. Proofs

The theorems are of the form `Spec => []P`, one is about steps (`HintLeadsOn`), and two say that `Spec` implies the
safety part of an abstract specification (`PairConverses`, `StreamsTokens`), for every
value of the constants, under the modules' named assumptions:

- sizes are positive numbers (`ReadlineAssumption`, `RecvLineAssumption`,
  `ReliableTestAssumption`, `PollDevAssumption`, `SelectAssumption`,
  `WebSocketAssumption`, `EpollAssumption`, `ConnectAssumption`, `SizeAssumption`);
- for the ports, the range has at least two ports and is small against 2^32
  (`PortSearchAssumption`; with one port `connect()` divides by zero);
- for the scanner, a text is so short that twice its length fits the type of the
  buffer's size (`TextAssumption`; otherwise doubling the size wraps around), and the chains of flex's compressed tables end
  (`ChainAssumption`, a fact about the tables that TLC evaluates);
- for the parser, the initial depth of the stacks is more than 1 and at most the
  maximal one (`DepthAssumption`), ints have at least one bit (`HalfAssumption`) and
  the value of an INTEGER is an int (`NumbersAssumption`: `yylval` is one).

| Module | Theorems | Inductive invariant |
|---|---|---|
| `ReliableTestProofs` | `TypeCorrect`, `ServerReadsInOrder`, `NothingOverrun`, `ServerReadsOneLine`, `ClientReadsInOrder`, `ClientReadsWholeReplies` | `ReaderInv`, `RecvInv` of the two readers and `ProgramInv` |
| | `MutualWaitIsPartial` | the same and `TalkInv` |
| | `PairInStep`, `PairConverses`, `PairNeverBlocks`, under the hypothesis `Framed` | the same and `SyncInv` |
| `PollDevProofs` | `DevTypeCorrect`, `PollinIsKept`, `LossNeedsARace`, `MessagesInOrder`, `DeliveredAtMostTwice`, `ResultCoversCopy` | `LengthInv`, `CopyInv`, `AheadInv`, `AgainInv`, `AloneInv`, `OpenInv` |
| `PortSearchProofs` | `PortTypeCorrect`, `SearchesStayNear`, `BindSparesConnect`, `HintLeadsOn` | `BindInv`, `ConnectInv`, `PcInv`, `HintInv` |
| `EpollServerProofs` | `EpollTypeCorrect`, `EventsStayValid`, `NoDescriptorForgotten`, `NothingLostAtClose` | `QueueOK`, `Stopped`, `BytesOK` and the properties |
| `SelectClientProofs` | `SelectTypeCorrect`, `PrintedBeforeEnd`, `NothingCutOff`, `NoLineLeftBehind`, `FgetsNeverBlocks` | `PrintedOK`, `TtyOK` |
| `WebSocketEchoProofs` | `WsTypeCorrect`, `OneAtATime`, `EchoesInOrder` | `SessionOK`, `Order` |
| `ConnectTestProofs` | `TypeCorrect`, `NoDescriptorLeaks` | `EventInv`, `ConnectInv` and `NoFdLeaked` |
| `CalculatorProofs` | `Invariance`, `BufferNeverOverflows`, `ReadsPromptly`, `EndReadOnce`, `StreamsTokens` | `Window`, `SizeInv`, `EofInv`, and by place `MatchInv`, `FindInv`, `InputInv` |
| | `StacksAlwaysFit` (of `ParserSpec`) | `ParserInv`: `HeightInv`, `TokenInv`, `NestInv`, `EqualsInv` |
| | `RejectsAlwaysInTime`, `AlwaysComputes` (of `ParserSpec`) | the same and `MeaningInv`: `WorkInv`, `LookInv`, `RestInv`, `KillInv` |

Why the strengthenings are needed:

- *Readers.* That a byte handed out is the next of the stream follows only if the
  whole unread part of the buffer is the next part of the stream: `BufferInv`
  relates `read_ptr`, `read_cnt` and the buffer's contents to the positions pulled
  and consumed. `LoopInv` says that no newline has been passed. The lemmas
  on each reader are about a step of it and a step of its environment, and the rest
  of `ReliableTestProofs` applies them to the programs' actions.
  `WholeReply` also needs `ProgramInv`: the client calls `readline()` only at the
  beginning of a reply.
- *The pair.* `TalkInv` counts: the replies sent and not printed are those still
  on their way (`AskInv`, `PendingInv`), and the server owes
  nothing when it stands at the end of what was sent (`OwedInv`). So if both wait, the
  last chunk has no end, or was sent as no byte. If both wait in `send()`, replies are
  unread, so that the server has answered more often than it was asked
  (`BlockedIsBehind`): this takes a line that is longer than the server's array. `Framed` is what the run `framed` assumes: every
  line of the input has a newline and fits the server's array, which is no larger than
  the client's. Then a chunk is a line (`ChunkInv`), a return of the server's `readline()`
  is the whole of it (`AnswerInv`), and each step is one of `Conversation` or none.
- *Poll device.* A later message is never shorter (`MsgLenMonotone`), so a length
  loaded before a publication is covered by one loaded after it (`CopyInv`). A
  reader that has copied from a message still in print finds nothing announced
  until it is published (`AheadInv`), hence at most two deliveries. `AloneInv`
  keeps POLLIN for the only reader; `OpenInv` says that nobody else is at work.
- *Ports.* `BindInv` ties `port` to `offset + i` and says that all ports of the
  preferred parity passed so far are rejected, or all there are in the second
  pass; that there is no third one needs `0 - 1` modulo `U32` to be odd. `HintInv` keeps
  where a search began; that adding `i + 2` to `hint` moves the beginning of the next
  search by as much is arithmetic (`EvenPlus`, `SumAgain`): taking the rest and clearing
  the last bit can be exchanged because the length of the range is even.
- *Epoll.* An event stays valid because only its own handling takes data from its
  connection or closes it, which needs that descriptors and connections
  correspond one to one (`Watched`), and that the accept queue holds exactly the
  queued connections, each once (`QueueOK`).
- *Select.* On a terminal `TtyOK` follows a line through stdio's buffer: outside
  `fgets()` the buffer is empty and at the beginning of a line, and inside it
  holds one line, or the terminal does. `PrintedOK` says it of all that has been read,
  at every moment: what was not printed stands behind a NUL of the same `read()`.
- *Websocket.* `Order` relates the two directions, the message held and the last
  one received as values, so that each way a message moves is one lemma.
- *Connections.* That the epoll server calls `accept()` only with a connection in the
  queue is `EventInv`, and that a client in `connect()` has a socket for it and still
  wants its connection is `ConnectInv`.
- *Scanner.* `Window` says that the buffer is the stretch of the text read last, with
  the two NULs behind it, and that outside the automaton the character at `yy_c_buf_p`
  is the held one, in `yy_hold_char`. `MatchInv` knows the automaton's path: the tables
  are evaluated once for every state and class (`TransitionTable`), from which the only
  paths that go on are digits, and a NUL at the very end; so a read is tried only there
  (`PromptRead`), and backing up finds the end of the text, a number or a single
  character (`FindInv`). `EofInv` says that once a read has met the end nothing is
  left, and that the code has remembered it if the read brought nothing else. `SizeInv` says that a buffer that was enlarged is at most twice the text, so that
  doubling never wraps around. For `StreamsTokens`, the position of `TokenStream` is that of the
  buffer's beginning and `yy_c_buf_p` together, which a refill moves against each other
  and leaves the same. What `StatesOver` computes is shown without induction over data:
  a least index at which it were wrong would have a correct one before it (`LeastOf`).
- *Parser.* That a reduction never pops more than there is depends on which states
  can be on the stack: `Under` says which may be right below which, and `IsStack` that
  each is. From the tables, a shift and a reduction push only what may follow
  (`ShiftGoes`, `ReduceGoes`). The height follows from it without another invariant: a
  level of parentheses can hold five states at most (`Rank`, `StackHeight`). `NestInv`
  says that the open parentheses of the input are the states 5 on the stack, one more
  between a ")" and the reduction of what it closes. No state handles the error token
  (`NoErrorEntry`), so nothing is pushed after an error.
- *Grammar.* `CalcGrammar` defines expressions, their values and what a program does
  as recursive functions of the text. That a recursive function satisfies the equation
  that defines it is itself proved: for every n some function satisfies it on the
  texts shorter than n, since a least n without one is impossible; such functions agree
  where both do, and together they make one for all texts (`Recursion`, and from it
  `ExprUnrolls`, `ValueUnrolls`, `ProgramUnrolls`). Induction over texts
  is likewise by a shortest counterexample (`Shortest`). From the equations follow
  descriptions without recursion, which a parser can be compared with token by token:
  an expression is a sequence in which only certain tokens follow each other and whose
  parentheses match (`ExprIsFlat`, `FlatIsExpr`), a line can become a statement
  if every beginning of it is such a sequence but for its end
  (`CanBeginIs`), and a text can become a program by its last line (`ViableIs`). The
  value of two expressions joined by an operator is that of the operator (`JoinValue`)
  only if the left one has no operator of lower precedence outside parentheses, and the
  right one none of the same or a lower one: this is where `%left` enters.
- *What the parser computes.* `WorkInv` says that the stacks stand for the tokens
  shifted (`Stands`): the tokens are cut into consecutive stretches, one for each state,
  a state of an expression stands for an expression, and its semantic value is the value
  `CalcGrammar` gives it with the variables as they are now (`StandsFor`). The
  precedences are in it as what an operand must not contain: there is no sum below a
  "*" or "/" (`Cover`), nor to the right of one. It also says whether the statement of
  the current line has been executed, since the parser executes it when it has seen
  the token behind it, and the variables must not change under a value on the stack.
  Each reduction replaces stretches by their union (`OperandReduced`, `ParenReduced`,
  `BinaryReduced`, `PrintReduced`, `AssignReduced`, `BreakReduced`). An error in a state
  means that the next token is possible in no program (`ErrorBehind` behind an
  expression, `ErrorWithin` elsewhere); for a ")" this needs `NestInv`, and for a "="
  that the expression is not a single variable at the beginning of a line. `RestInv`
  keeps what was found while the stacks are unwound, `KillInv` after a trap.

Two definitions were made exact by the attempt to prove about them: `Enlarged` and `Do`
were a CASE with guards that can hold together, which leaves open which arm counts.
`CalcGrammar` was rewritten so that its recursions could be reasoned about: `Program`
goes on from the last line and not from the first, `Value` is a function for given
variables, and `Viable` needs no recursion.

Only model-checked:

- all liveness properties, and of the refinements `Converses` and `Streams` the
  fairness part: fairness and ENABLED are out of the prover's reach;
- the counterexample `bind_range`, which is TLC's.

The invariants that the runs check are all proved; the runs still check them, on the
model as it is executed, and show with the mutations that they are about the code.

## 7. Limits

- The kernel, stdio, the browser, the websocket library and TCP are modelled as
  the programs see them.
- Stores outside the modelled arrays (`recv_line[n]` at `n = MAXLINE` in
  `select_test.c:65`, a buffer shorter than the message in the poll device) have
  no effect in the models; `PROJECT.json` lists them as hazards with the reason. So
  do two more: the server's `sprintf()` into `buf[20]` (`reliable_test_server.c:107`),
  which writes up to 25 bytes, since `count` is never initialised, or once it has seven
  digits; and `send_line[i - 1]` with `i = 0` in `select_test.c:73`, for a line that
  begins with a NUL.
- NULs count where the code's own `strlen()` or `fputs()` stops at them: in the echo
  client's `send()` and in `select_test.c`. Lines of the echo server's replies hold none.
- Lines longer than the server's array make it answer several times, and then the two
  programs of the echo pair may fill up both directions and wait for each other in
  `send()` for ever; `PairNeverBlocks` excludes this for framed lines only. A blocked
  `send()` or `write()` takes its bytes all at once when there is room, and not bit by
  bit; one longer than `Window` would never return, which the assumptions of no theorem
  exclude and the bounds of the runs avoid.
- Nothing says how many messages of the poll device a slow reader misses: a message is
  overwritten by the next one.
- A poll on the device between its registration and `init_waitqueue_head()` is
  not modelled.
- `Scanner` and `Parser` are not composed: the parser's tokens are those the scanner
  is shown to deliver, chosen one by one. Of the generated files the code that this
  calculator never runs is left out: flex's functions for programs that manage buffers
  themselves, `yyunput()`, `input()`, bison's verbose and debugging output, which is
  compiled out. A few branches of the parser are modelled although these tables never
  take them (a second error while recovering, a state that handles the error token,
  stacks that are still full after growing).
- `atoi()` of a number that is no int is not modelled; INTEGER tokens have int values.
- A port stays taken until the client that used it exits; TIME_WAIT is not modelled.
