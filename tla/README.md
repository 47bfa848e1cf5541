# A verification project for the practical works of PibSP (5th semester)

The repository holds the programs of a practical course on network programming
under Windows, each a small C++ client or server, and the study guide they are
written after (`src/УчебноМетодическоеПособие`). The programs are short; what is
hard about them is what they do together: threads that share a list and a
command without a lock that is respected, clients that queue, are killed or
answer late, sockets and pipes that block, fail, or report the end of a stream
as a message of no length.

This directory holds TLA+ models of these programs, TLC configurations, and
TLAPS proofs. To run them:

    tlc -config cs_safety.cfg MCConcurrentServer.tla     # any run of the table
    tlapm ConcurrentServerProofs.tla                     # any *Proofs module

## 1. Inventory

| component | state it keeps | operations | talks to | hard behaviour |
|---|---|---|---|---|
| **lab8/ConcurrentServer** (`ConcurrentServer.cpp`) | the shared command `cmd`, `previous_command`, the listening socket, `sq`, the list `contacts`, each contact's type and timer | `main`, `accept_server` (`CommandsCycle`, `AcceptCycle`, `open_socket`, `close_socket`), `DispatchServer`, `ASWTimer` | its clients through a non-blocking socket; a console that is declared (`ConsolePipe`) and not written | three threads share `cmd` and `contacts`; the dispatcher takes no lock; a command is overwritten after it has been read; bounded rounds of `accept()`; a timer whose procedure needs an alertable wait |
| **lab8/Concurent_Server** (`Concurent_Server.cpp`) | the same without `previous_command` and timers | `accept_server` (`command_cycle`, `accept_cycle`), `dispatch_server` | the same | the dispatcher's copy of the command; exceptions nobody catches; an uninitialised buffer; `START` given twice |
| **lab2 ServerT, ClientT** | the server's buffer and current client; the client's count of messages | `accept`, `recv`, compare, `send` / `connect`, `recv`, `send` | each other through TCP connections and the backlog | one client at a time, end of stream taken for a message, resets, clients killed at any point |
| **lab6 ServerNP, ClientNP, ClientNPt, ClientNPct** | the one instance of the pipe, `buf`, `is_work`; a client's count of messages | `ConnectNamedPipe`, `ReadFile`, `WriteFile`, `DisconnectNamedPipe` / `CreateFile`, `TransactNamedPipe`, `CallNamedPipe` | each other through one unbuffered pipe | writes that wait for the reader, competition for one instance, `DisconnectNamedPipe` drops data, a client quicker than `ConnectNamedPipe` |
| **lab3 ServerU, ClientU** | `serv_buff`, the last sender's address; the client's count of messages | `recvfrom`, compare, `sendto` / `sendto`, `recvfrom` | each other by UDP on one host | a receive buffer for everybody, ICMP errors that turn up at another client's datagram, no retry, how the server is ended |
| **lab4 ServerB, ClientB, ClientC** | the server's call sign and socket | `check_server`, `get_request_from_client`, `put_answer_to_client` / `get_server` / `get_server_by_name` | each other by broadcast, or by a host's name | servers that wait for each other without a limit, answers nobody waits for, two servers on a host, a leaked socket, a call sign cut to four bytes |
| **lab7 ServerMS, ClientMS** | the mailslot; the client's count of letters | `CreateMailslot`, `ReadFile`, `CloseHandle` / `CreateFile`, `WriteFile` | each other by a one-way mailslot | several writers, the first one's `STOP`, writers whose reader has gone, a second server |
| WSAErrors.h (15 copies) | none | `set_error_msg` | every program | - |
| lab1, study guide | none | - | - | - |

What makes each correct:

* the concurrent servers: every connection that is accepted is in the list
  exactly once, from `push_front` on, and none is lost on the way there unless
  the process ends; a contact is handed over at most once and, in the end, each
  of them is; `accept()` is called on a socket that listens; a queued client is
  accepted and listed; a command of the console is obeyed;
* the echo servers: a client's message is answered, once, to that client, and
  before its next one; the next client's turn comes; the server ends when it is
  told to and for no other reason; nothing that was sent is thrown away;
* discovery: an asker gets one answer from each server, of a server that
  listens; a call sign that has arrived is answered, and found unless its
  answer is lost; servers get to listen;
* the mailslot: each client's letters are read once, in its order, up to its
  `STOP`.

`PROJECT.json` lists these components and, under "hazards", each place of the
code that is hard to test.

## 2. Plan

1. *(done)* lab8, the largest and the only multi-threaded programs: `Winsock`,
   `ContactRegistry`, `ContactList`, `ConcurrentServer`, `Concurent_Server`,
   with their inductive invariants proved.
2. *(done)* the echo servers: `EchoService`, `TcpEcho`, `NamedPipe`.
3. *(done)* `LossyEcho` and `UdpEcho`, `Mailslot`, `Discovery`.
4. *(done)* Proofs for `NamedPipe` and `UdpEcho`, with the refinements of
   `EchoService` and `LossyEcho`.
5. *(done)* blocks that arrive in parts in `TcpEcho`; `LetterLog` and
   `CallSign`, the abstract specifications of the mailslot and of discovery;
   the contact timer (`LateTimerIsLost`, with its proof).
6. *(done)* Proofs for `Discovery` and `Mailslot`, with the safety part of the
   refinements of `CallSign` and `LetterLog`.
7. *(done)* Proofs for `TcpEcho`: type correctness, `EchoedOnce`, `OffHasCause`
   and the refinement of `EchoService`, from an invariant that says where a
   client's one message is; `NeverForgotten`, the safety core of the two liveness
   properties of lab2.

## 3. Modules

| module | what it is |
|---|---|
| `Winsock` | external: one listening socket, its backlog, the state of each client's connection; operators that a server's actions conjoin (`AcceptReturns`, `AcceptWouldBlock`, ...) |
| `ContactList` | the list of contacts, the client that is accepted and not pushed yet (`held`), what accepting and pushing do; the refinement mapping to `ContactRegistry` |
| `ContactRegistry` | abstract: what both servers of lab8 promise of the list |
| `ConcurrentServer`, `Concurent_Server` | the two servers of lab8, which extend `ContactList`; the second keeps the spelling of its project |
| `EchoService` | abstract: what the echo servers of lab2 and lab6 promise |
| `TcpEcho` | ServerT and its ClientTs with the connections between them |
| `NamedPipe` | ServerNP, the pipe, and clients of three kinds |
| `LossyEcho` | abstract: what lab3's echo promises, where a question may be lost |
| `UdpEcho` | ServerU, its receive buffer, and its ClientUs |
| `CallSign` | abstract: who asks finds a server that was listening when he asked, and does find one that goes on, unless the answer is lost |
| `Discovery` | ServerB, ClientB and ClientC on some hosts |
| `LetterLog` | abstract: a log of numbered letters that one reader reads up to the first `Stop` |
| `Mailslot` | ServerMS, the mailslot, and ClientMSs |
| `MC...` | the instances TLC checks: model values, symmetry, which program each client of the pipe runs |
| `ContactListProofs` | what the steps shared by the servers of lab8 do to the list, and what the registry guarantees |
| `ConcurrentServerProofs`, `Concurent_ServerProofs` | the theorems of lab8; the first also those about the timer |
| `TcpEchoProofs` | the theorems of lab2, and what the echo service guarantees |
| `NamedPipeProofs`, `UdpEchoProofs`, `DiscoveryProofs`, `MailslotProofs` | the theorems of lab6, lab3, lab4 and lab7 |

In every module a thread or process has a program counter, and an action is one
step of it up to the next access to something another thread, process or the
system can change. Definitions that start with "Mutant:" in their comment are
plausible bugs no specification uses; each shows that a property can be broken
by a change of the code.

### lab8

`acc` is where the accept thread is: `loop` (the test of `while (cmd != EXIT)`),
`switch` (the switch, which reads `cmd` again), `start`/`open` (case `START`),
`stop`/`close` (case `STOP`), `guard` (`if (cmd != STOP)`), `accept`
(`AcceptCycle`, one action per call of `accept()`, `tries` counts the calls
left), `push` (`push_front`), `reply` (`cmd = GETCOMMAND`). The reads and writes
of `cmd` are separate steps, because `cmd` is one variable of `main` that all
threads have a pointer to.

`Console` is environment. `ConcurrentServer.cpp:34` declares `ConsolePipe`
without a body, the other server does not declare one, and nothing in the
repository stores a command but the `START` of `main` and the `GETCOMMAND`s of
the accept thread. The guide says what a console is to store, and in the runs of
safety and in `cs_exit_gap` `Console` stores it at any time; in the runs of
liveness it stores nothing, and the program is as it stands.

`accept()` and `push_front` are two steps, with the accepted client in `held`
between them: `AcceptCycle`'s local `contact`. The other threads run in between,
and may end the process: the dispatcher of `Concurent_Server` by a copy that
overruns, `main` of `ConcurrentServer` by a second `CreateThread` that fails.
So `AcceptedAreListed` says which connection the list may miss and when: the one
in hand or, in a process that a throw has ended, the one that was.

`contacts` is the list, oldest first. Contacts are only ever pushed on the
front, so a list node is named by its arrival number, `begin()` is
`Len(contacts)`, `i++` goes from `n` to `n - 1` and `end()` is 0. `at` is the
dispatcher's iterator. The dispatcher reads the list without the critical
section that the accept thread enters around `push_front`: a data race, modelled
as reading *any* front the list has had (`Begin`). In `Concurent_Server` an
uninitialised `message[10]` is copied by `strcpy_s` after a `recv()` that always
fails (the contact's socket is the value of a comparison, 0): either it happens
to hold a terminator (`Visit`) or the process ends (`CopyOverruns`).

An exception ends the accept thread in `ConcurrentServer`, where it is caught,
and the process in `Concurent_Server`, where it is not.

### lab2

A connection is two channels, `up[c]` and `down[c]`, of messages and the ends
`"fin"` (in order) and `"rst"`. A message is what the server compares its buffer
with: `"empty"`, `"z"` or `"text"`. `buff` survives from one `recv()` to the
next, which matters since `RecvEndOfStream` leaves it as it is and judges it
again. A process that ends, or is killed, ends its connections in order or by a
reset (`EndOf`, `ServerEnds`): which one depends on whether data is left unread.
So does a server that goes on to the next client (`NextClient`).
The client's loop `for (i = 0; i < count; i++)` is `left`.

TCP keeps the order of the bytes and not the blocks, so a `recv()` of 255 bytes
may return a part of a block (`MayComeInParts`, once for each client, at any of
its blocks; `split` remembers at which clients it has happened). On the server's
side the second part is judged as a message of its own: both parts are echoed,
or the second, which may begin anywhere in the text or in what follows its end
in the 255 bytes the client sends, is taken for a `z` or for the end (`Recv`).
On the client's side the rest of a block passes for the answer to the next
message (`Greet`, `Reply`). From then on that client may be an answer ahead,
which is why it has left the echo service in the refinement mapping, and why
`EchoedOnce` promises it no less, but perhaps more, than one message on the way.

### lab6

`pipe` is the state of the single instance. It is created `listening` (a client
may open it before the server calls `ConnectNamedPipe`), and `disconnected`
after `DisconnectNamedPipe`, when a client cannot open it before the next
`ConnectNamedPipe`. Both buffer sizes are 0, so `WriteFile` returns when the
other end has read: `req` and `rep` are what a client and the server have
written and nobody has read. `Kind` gives each client its program; `ClientNPct`
takes part through `CallNamedPipe`, which opens, transacts, closes, and if the
pipe is busy waits and tries once more (`CallWaits`, `CallWakes`, `CallThrows`).

### lab3

`inbox` is the server's receive buffer, of `Capacity` datagrams, and `mail[c]`
what `c`'s socket has received. ClientU's server is at 127.0.0.1, so a datagram
is neither reordered nor duplicated; it is dropped by a full buffer, and one for
a closed port may come back as an ICMP message, which makes a later call on the
sender's socket fail (`reset`, `"unreach"`): `recvfrom()` for some other client's
datagram, in the server's case (`Throws`). ClientU looks at the result of each
call but the first `sendto()` and `recv()` (`Greet` takes an error for the
greeting).

### lab4

`server[s]` is `check` and `wait` in `check_server`, `bind`, then `recv` and
`answer` in the loop of `main`. A process asks with a socket of its own, whose
answers are `mail[p]`, and is asked through port 2000 (`inbox[s]`), which one
process of a host may bind. Each initial state puts the servers on hosts in its
own way. `failed` are the servers whose `check_server` has caught an error, and
left its socket open: an answer to it is received and never read, one to a closed
socket is bounced. `GetRequest` may refuse a server's call sign, whose
`sizeof(name)` bytes are `"Hell"` without an end in a 32-bit build; in a 64-bit
build it matches. The network loses a call sign on its way to any of the servers
(`Reaches`; a full receive buffer does the same), and an answer to who waits for
it (`IsLost`). A server goes on after either, and nobody asks twice. `lost`
remembers which server's answer to whom was lost. No process reads it: it is
what `CallSign` needs to say that nothing else is an excuse.

### lab7

`box` is the mailslot that the one server in `"read"` has created; `handle[c]`
the server whose mailslot `c` has opened, which a server that comes later does
not inherit. Greetings carry their number, the `i` ClientMS prints, so that the
order in which they are read can be stated; the letters of the program are all
the same. Whether a second writer may open the mailslot, and whether its name is
free while a client still holds a handle of the old one, is left open
(`OpenThrows`, `CreateThrows`).

## 4. Passing runs

| run | module | shows |
|---|---|---|
| `cs_safety` | ConcurrentServer | type correctness; each accepted connection is in the list, once, or is the one between `accept()` and `push_front`, and only a process that ends there loses one (`AcceptedAreListed`); no `accept()` on a closed socket whatever the console stores and when (`AcceptOnListening`); `open_socket` is not called while a socket is bound (`OpensOnce`); at most one contact is ever dispatched (`OneContactDispatched`); the registry is implemented (`ImplementsRegistry`) |
| `cs_live` | ConcurrentServer | a queued client is accepted and listed although each round of `accept()` is bounded, or the thread ends because both sockets are used up (`QueuedIsListed`); the first contact is dispatched (`SomeContactDispatched`); a timer procedure that is not due by the `SleepEx` next to it is never called (`LateTimerIsLost`) |
| `c2_safety` | Concurent_Server | the same questions but `OpensOnce` and `OneContactDispatched`, which this server does not keep, and `ReturnsUnused`: if `main` returns, no contact was ever dispatched |
| `c2_live` | Concurent_Server | every contact is dispatched, however many are pushed in front of the walk (`ContactsDispatched`), and every queued client listed (`QueuedIsListed`), unless the process ends: by the message it copies, or because its two sockets are used up |
| `tcp` | TcpEcho | while both ends live a client that waits for an answer has exactly one message on the way, in one of three places, and any other has none, until a block of its own is split (`EchoedOnce`); the echo service is implemented (`ImplementsService`); the server switches itself off because of a user's `q`, the second part of a block, or a client killed before the first `z`, and nothing else (`OffHasCause`); a client in the queue gets its turn or learns of the end (`QueueMoves`); an order of messages ends (`OrderEnds`), with or without splits |
| `np` | NamedPipe | `DisconnectNamedPipe` never drops a message or a reply (`NothingDiscarded`), in particular not the reply to `ClientNPct` after which the server disconnects at once; the echo service is implemented; nobody waits for the pipe or a reply for ever (`CallersServed`); `EXIT` ends the server (`ExitObeyed`) |
| `udp` | UdpEcho | a waiting client has at most one datagram under way and any other none, so that no answer is taken for that of another message (`OneOutstanding`); the lossy echo service is implemented; what the server has received is lost only with the server (`LossHasCause`), and each datagram gets its turn (`AnsweredOrLost`) |
| `ms` | Mailslot | a log that one process reads is implemented (`ImplementsLog`): letters are read in the order in which they were written, once, up to the first `STOP`, each writer numbers its own, and what is in an open mailslot is read, so that a `STOP` in it is reached; what a server has printed and has still to read is what each client has written, once and in order (`ReadAsWritten`); the `STOP` that is obeyed comes after all of its client's greetings, and only other clients' letters are dropped with the mailslot (`StopIsLast`) |
| `disc` | Discovery | nobody is answered twice by a server or by himself (`OneAnswerEach`); no server ever listens unless some `check_server` has failed (`ListeningNeedsError`); the call sign is implemented (`ImplementsCallSign`): who finds a server finds one that was listening when he asked, and a client whose call sign has reached a server finds one if that server goes on, unless this one answer is lost. Any call sign and any answer may be |

### Bounds, and why they are enough

* **Clients**: three for lab8 (one dispatched, one being visited, one pushed
  behind the iterator), two for `tcp` (one served, one queued; a third only
  lengthens the queue: the invariants of `tcp` have also been checked with three
  clients and `MaxCount = 1`, 6 928 509 states), four for `np` (each program once, and a second caller to lose
  the pipe to), three for `udp` (one in hand, two that fill the buffer, or one
  that finds it full), two for `ms`, with two servers (the second one after, or
  beside, the first). `disc` has two servers on two hosts, a ClientB and a
  ClientC: two answers to one question, an answer that comes too late, and a
  server that finds the other one or the port taken. Its invariants have also
  been checked with three servers (10 443 264 states).
* **`Capacity`** = 2 for `udp`, the receive buffer of the server, with three
  clients, so that it is full and drops. In `udp_quit_gap` it is never full.
* **`AS_SQ` = 2** for the code's 10: a round that is used up, and one that ends
  early with tries left, both happen.
* **`MaxSockets`**, the handles a process may hold: 2, with three clients in
  the passing runs of lab8, so that `accept()` fails for want of one.
* **`MaxCount`**, messages ordered at once: 2, so that there is a message after
  a message and a last one; 1 for `udp`, whose clients order again and again, so
  that a message follows a message all the same.
* **`ConsoleCommands`**: `START`, `STOP`, `EXIT`, and `WAIT` for all the
  commands whose case is empty. In the liveness runs the console stores nothing,
  as in the program as it stands, which starts with `START`.
* **`Faults`**: `"thread"` CreateThread fails, `"winsock"` a set-up call fails,
  `"reset"` a queued client goes away, `"crash"` and `"kill"` a client and the server are
  killed, `"abort"` a client that ends resets its connection,
  `"split"` a block of 255 bytes is received in two parts (once for each client, on
  the way there or back; more splits of one client only add messages),
  `"create"` CreateNamedPipe or CreateMailslot fails, `"empty"` another program
  sends ServerU an empty string, `"check"` a call in `check_server` fails,
  `"loss"` the network loses a call sign or an answer of lab4.

Symmetry of the clients is used in the two safety runs of lab8 only, where no
property and no action names a client; no liveness run uses it.
`CHECK_DEADLOCK FALSE` is in every run where threads or processes may all have
ended or wait for users; in `cs_live` the accept thread ends when no socket is
left, and the dispatcher has then nothing to do.

### Fairness

* Weak fairness of each thread or process: the accept threads and dispatchers
  are busy loops that the system's scheduler keeps running, and a blocking call
  returns when it can.
* `SF_vars(BeginAtLatest)` in `Concurent_Server`: the dispatcher reads `begin()`
  anew in every round, so it does not read an old value for ever.
* `SF_vars(Leave(c))` in `TcpEcho`: a user who is asked again and again ends the
  session some day, without which one user keeps every other one waiting for
  ever, rightly.
* `WF_vars(Works(c) \/ User(c))` in `NamedPipe`: a client runs, and its user
  answers the program's question, since the programs hold the pipe while they
  ask. Opening the pipe (`Open`) is owed by nobody.
* Weak fairness of the servers, and of what the clients do on their own, in
  `UdpEcho`, `Mailslot` and `Discovery`; none for their users.
* None for clients' arrival, faults, the console or the timer.

## 5. Where the code departs from its guide

Three runs are expected to find a counterexample:

| run | claim of the guide | what happens |
|---|---|---|
| `cs_exit_gap` | the command `exit` ends the server | an `EXIT` stored while a client is accepted or `START` carried out is overwritten by `GETCOMMAND` |
| `np_race_gap` | what is sent is sent back | a client that opens the pipe between `CreateNamedPipe` and `ConnectNamedPipe` makes the latter return FALSE with `ERROR_PIPE_CONNECTED`, which the server takes for a failure |
| `udp_quit_gap` | one server, two clients at the same time | the server echoes a client's `q` to a socket that is closed by then; its next `recvfrom()` reports that, the server ends, and the other client waits for ever for the answer to a message the server has received (no message lost on its way to the server counts) |

Seen while modelling, part of the models, without a run of their own:

* `ConcurrentServer.cpp:232`: the dispatcher's loop has no increment and stays
  with the first contact it sees, so later clients are never served
  (`OneContactDispatched` holds, and is proved).
* `Concurent_Server.cpp:150`: the dispatcher compares a copy of the command that
  it takes once, so `EXIT` never ends it and `main` waits for it for ever.
* `ServerT.cpp:66`: a client's connection that is reset makes `recv()` fail, and
  that ends the server for everybody (the guide wants it to go on with another
  client); `:65`: a client killed before its first message ends it too, because
  `recv()` returns 0 and the untouched buffer compares equal to `""`.
* `ServerB.cpp:50`: the first server of a network waits for an answer for ever
  and never listens, which `ListeningNeedsError` says of all of them; `:101`: the
  result of the check is ignored; `:46`: `sizeof` of a pointer.
* `ClientB.cpp:35`: the address that is printed is read from the pointer's own
  bytes (`&from`); not modelled, since it is only printed.
* `ServerMS.cpp:21`: the first client's `STOP` ends the server under the others,
  whose letters are dropped and whose next `WriteFile` fails.
* `ConcurrentServer.cpp:244`: the timer is set for 60 s and the only alertable
  wait, `SleepEx(0, true)`, follows at once. If it is not due by then its
  procedure is never called, because the dispatcher stays with that contact and
  comes to no other `SleepEx` (`LateTimerIsLost` holds, and is proved).
* `ServerT.cpp:65`: a block that comes in parts is answered twice, and a second
  part that begins with a zero, since `send()` of 255 bytes goes past the end of
  the string, switches the server off (`OffHasCause`).
* `ConcurrentServer.cpp:117`, `Concurent_Server.cpp:209`: the contact's socket is
  the result of a comparison; the socket of the connection is lost.
* `Concurent_Server.cpp:219`: a client that has been accepted is not in the list
  when a dispatcher's overrun ends the process at that moment.
* `ServerB.cpp:77`, `ClientB.cpp:29`: an answer that is lost is never sent again,
  and who waits for it may wait for ever.
* Once a console is written, `ConcurrentServer.cpp:145`: `START` after `STOP` says
  "start already done" and does not listen; `:155`: `STOP` is carried out again in the next round, fails,
  and ends the accept thread.
* Likewise `Concurent_Server.cpp:176`: a second `START` binds the port a second
  time, fails, and ends the process.
* `ServerNP.cpp:47`: a client killed while it is served ends the server.

## 6. What is proved

For every value of the constants that the modules' assumptions allow, and every
combination of faults. TLC evaluates the assumptions in the runs; they say that
a "nobody" is not somebody (`NoClient`, `NoServer`, `"unreach"` where a server's
name is expected), that sizes and limits are numbers, and nothing about how many
processes there are.

| module | theorems of `Spec` |
|---|---|
| `ConcurrentServerProofs` | `TypeOK`, `AcceptOnListening`, `OpensOnce`, `AcceptedAreListed`, `OneContactDispatched`, `ImplementsRegistry`, `LateTimerIsLost`; the registry's `ListOnlyGrows` |
| `Concurent_ServerProofs` | `TypeOK`, `AcceptOnListening`, `AcceptedAreListed`, `ReturnsUnused`, `ImplementsRegistry`; the registry's `ListOnlyGrows` |
| `ContactListProofs` | of whatever implements the registry: no client is listed twice (`ListedOnce`), entries are never removed or reordered (`ListOnlyGrows`) |
| `TcpEchoProofs` | `TypeOK`, `EchoedOnce`, `OffHasCause`, `ImplementsService`; two that no run states: `OneConversation` (of the clients whose blocks come whole one at most is past the greeting) and `NeverForgotten` (a connected client is in the queue, is being served, or can read the end of its connection); of whatever implements the echo service: one client is admitted at a time |
| `NamedPipeProofs` | `TypeOK`, `NothingDiscarded`, `ImplementsService` |
| `UdpEchoProofs` | `TypeOK`, `OneOutstanding`, `LossHasCause`, `ImplementsService` |
| `DiscoveryProofs` | `TypeOK`, `ListeningNeedsError`, `OneAnswerEach`; `Search!CallSafety`, the safety part of `ImplementsCallSign` |
| `MailslotProofs` | `TypeOK`, `ReadAsWritten`, `StopIsLast`; `Log!LogSafety`, the safety part of `ImplementsLog` |

Each theorem about a program rests on a theorem `Inductive`, `Spec => []IndInv`,
where `IndInv` is the property's strengthening. The theorems about the registry
and the echo service need none: they say what follows from implementing them.

**The argument for lab8.** None of the invariants is inductive alone.
`AcceptOnListening` needs to know that a positive `tries` came from a positive
`sq`, that `sq` is positive only while the socket listens, and that this stops
being true only when the thread itself ends or closes the socket
(`SocketMatchesCount`, which is claimed only while the thread lives, since an
exception leaves `sq` behind). `OpensOnce` needs the part that ties
`previous_command` to the socket. `OneContactDispatched` needs that a dispatcher
that stands on a node never leaves it (`ThreadsStand`). `AcceptedAreListed` needs
that a client is in hand only while the accept thread is at `push`, that the
list holds nobody twice and nobody it has not accepted, and, in
`Concurent_Server`, that a `main` that returns has waited for the accept thread.
`ReturnsUnused` needs
the order in which `main` creates and waits for its threads
(`DispatcherUnused`). `IndInv` is the conjunction of these with the types.

The induction step is split by what it has to say: `NextListStep` for the list
and the refinement at once (every step is a step of the registry or leaves it
alone, and keeps the types), `NextDispatchStep` for the dispatcher,
`NextAcceptThreadOK` / `NextThreadsOK` for the threads' counters. What both
servers share, the effect of `push_front`, of a client's step and of closing the
socket on the registry's view of the list, is proved once in `ContactListProofs`.

`LateTimerIsLost`, though temporal, follows from a step invariant: a due timer
outside `SleepEx` stays so, since a contact with a timer is dispatched
(`TimedAreDispatched`), the dispatcher stands on the only dispatched one, and no
contact is visited after it.

**lab2.** `EchoedOnce` counts messages in three places, and no step keeps a count
of one without knowing which places are empty. So the invariant says of each
connected client whose blocks have come whole that it is in the queue with
nothing sent or received (`Queued`), or is the one being served, and then the
place of the client, the place of the server and the contents of both channels
determine each other (`Served`): the stream is never longer than one block. Of a
client with a block in parts it only says that while it waits something is on
its way (`InTransit`), which every step keeps, since the server never takes a
message without sending something or holding a text. `SentOK` says what a client
may have sent by the place it is at: an empty message is sent by who has quit, a
`z` by who has left, so the server is never moved on, or off, in the middle of a
whole client's exchange. Three more parts serve `OffHasCause`, which is about the
past: `EmptyOK` says that as long as the buffer is empty nobody but the client
being served has got past the greeting (`Fresh`), unless the last block received
was the empty one itself; `LeftOK` that a `z` is in the buffer, or will be,
before the stream of a client that has left ends in order, since otherwise the
server would judge an old buffer again. `Distinct`, nobody is twice in the queue, is
what lets `Accept` take the head out of it.

Two lemmas carry the induction: a step of the server while it serves somebody
changes nothing for the others (`ServerMoves`), and a step of a client changes
nothing but its own (`ClientMoves`); what is left for each action is its one
client. `NeverForgotten` has an induction of its own: an end is put into a
channel whenever the server forgets a client (`ServerEnds`, `NextClient`), and
what is taken out of a channel is never the end, or leaves the reset it is
answered by. `QueueMoves` and `OrderEnds` rest on it: with fairness every client
that is still connected has somebody to wait for.

**lab6.** `NothingDiscarded` looks at the moment before `DisconnectNamedPipe`;
that the pipe is empty then follows from where the client on the instance is,
and where the server is. So the invariant has to say that the two and the place
of their message determine each other (`PeerOK`, with a clause for each place
the client may be at), which instance states go with which places of the server
(`InstanceOK`), that who is in the middle of an exchange has a message left
(`LeftOK`, without which a client could stop in the middle of it), and that
`ClientNPct` is the only program that calls, and has no handle between two calls
(`KindsOK`). The reply that is the risk, ClientNPct's last before the server
disconnects, is safe since the server is held in `WriteFile` until it is read.

**lab3.** What is under way for a client is in the server's buffer, in the
server's hand, or with the client. `PendingOK` says that it is in one of these
places, once, while the client waits, and in none before, which `OneOutstanding`
counts. The counting is done on positions of a sequence, and two lemmas say what
receiving and sending do to the positions. The refinement maps a client to its
phase by the same places.

**lab4.** `ListeningNeedsError` is not inductive since it says nothing of the
servers that wait: `WaitingOK` adds that before the first error every server is
in `check_server` or dead and nobody has an answer, since only a listening server
gives one. `OneAnswerEach` needs, as in lab3, that a question or its answer is in
one of three places (`QuestionsOK`), and that nobody has asked who has not got
to it, and no server itself; a lost question or answer is in none of them, which
the bound allows. The refinement of `CallSign` maps who waits, whose answer he may
still get, who listens, and which answers were lost.

**lab7.** `LettersOK` says, of each client of a reading server, which numbers it
has written by the place it is at (`Standing`), and that another server's client
has written nothing. A killed client that got as far as its `STOP` had written
all its user ordered, which `ReadAsWritten` does not say and `StopIsLast` needs.
`StopIsLast` then follows from the order: the `STOP` ranks above every number, so
in the order it was written nothing of that client follows it.

**How the models were made fit to be proved about.** The mapping to the
abstract services (`Phase`) is a chain of IF and not a CASE with overlapping
guards, of which the language leaves open which arm is chosen. What used to be
a `SelectSeq`, which is recursive, is a set of positions (`Inbound`, `Whats`,
`Places`), so `ReadAsWritten`, `StopIsLast`, `OneOutstanding`, `OneAnswerEach`
and `EchoedOnce` speak of sets and of order. `CallSign` and `LetterLog` name their safety part, which is
what is proved of their implementations.

**Model-checked only.** All liveness properties, which rest on fairness and so on
ENABLED, out of the prover's reach: `QueuedIsListed`, `SomeContactDispatched`,
`ContactsDispatched`, `QueueMoves`, `OrderEnds`, `CallersServed`, `ExitObeyed`,
`AnsweredOrLost`, and the fair part of `ImplementsLog` and `ImplementsCallSign`.
The three runs of section 5, which are counterexamples.

## 7. What is not modelled, and why

* A client or server of lab4 whose set-up fails: the first is as one that is
  never started, the second as one that is killed.
* `MAILSLOT_WAIT_FOREVER`, a parameter: the server's reads have no time limit.
* `WSAErrors.h` (15 copies, more than half of the lines of the labs): a table of texts. A failing call is an action that ends the
  thread or process as the `throw` does; the text is not part of any property.
  (lab6 passes `GetLastError()` to the table of Winsock codes, so its texts are
  empty.)
* `init_server`: reads the port before any thread exists.
* The critical section: only one thread ever enters it, so it never blocks.
* The contents of messages, the console output, `system("pause")`.
* Memory that a wild `strcpy_s` overwrites: the two outcomes are those above.
* lab1 (output of `netstat`) and the study guide, which is quoted.
