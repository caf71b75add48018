# C-code-snippets: a verification project

TLA+ models of the programs in `alxhoff/C-code-snippets`, the TLC runs that
check them on small instances, and TLAPS proofs of what matters most for every
size. The repository is a collection of small C programs; each is a component of
its own, and none links against another. What they share is a theme: signals,
threads, message queues and sockets used together, and hand-written data
structures.

## The system

### Modelled

| component | state | operations | where it is hard |
|---|---|---|---|
| `ring_buffer` | slots, `head`, `tail`, `full` | init, free, reset, put, forced put, get, size, capacity | index wrap-around, unsigned subtraction, full and empty look alike |
| `conditional_wait` | `count`, one mutex, one condition variable, four threads | print in turn, wait, broadcast | broadcast after the unlock, spurious wake-ups, order of arrival |
| `linked_list_advanced` | `next` and `prev` links | add, add tail, delete, empty | a deletion leaves a link that a later call follows |
| `async_posix_message_queues_SIGEV_THREAD` | queues, registrations, one buffer per queue, list of `mq_info_t` | open, notification thread, sender thread, close on SIGINT | one-shot notification, queues that outlive the process, free under a running thread |
| `async_posix_message_queues` | queues, registrations, one pending SIGIO, list of `mq_info_t`; a client process | open, SIGIO handler, close on SIGINT; the client sends each line twice | one-shot notification over a signal that is not queued, handlers that interrupt each other |
| `async_TCP` | listening socket, one client at a time | accept, receive, close, in the SIGIO handler | signals that coalesce, a handler that blocks |
| `async_TCP_multithread` | listening socket, a thread per client | accept loop in the SIGIO handler, echo threads | connection between last accept and return, thread creation that fails |
| `async_UDP` | one socket and its callback | set-up, receive loop in the SIGIO handler | unchecked set-up failures, empty datagram |
| `async_UDP_multithread` | list of connections with a mutex each | open, find, receive in the SIGIO handler, free all on SIGQUIT | handler that locks what the interrupted code holds, one signal for two sockets, list freed under the handler |
| `tty_serial` | one serial port | set-up, one byte per SIGIO | bursts, bytes before the port is asynchronous |
| `TCP_sockets` | two echo servers (a thread per connection, or one connection) and their client | accept, create a thread, receive, echo; connect, send a word, receive a reply | threads read the accept loop's variable, a reply as long as `strlen()` of an unterminated buffer, a client that waits |
| `IOctl` | the driver's settings and what it has registered; an application with a header of its own | load, unload, GET, SET, CLR, OTHER; the five options of the application | calls without a lock, error paths of loading, command numbers that differ |
| `embedded_button_checker` | a list of buttons, a FreeRTOS mutex, button tasks | init, add, delete, find, get presses | a mutex replaced while it is in use, calls before there is one, a node read after the mutex was given back |
| `state_machine` | a list of numbered states | add, find, delete, handler task | numbers stored in the element before the one they are for |

The programs interact with the kernel only: a signal interrupts `main` (or
another handler), a message arrives or a peer disconnects between any two steps.
The models put that in as actions of their own (`Arrive`, `Connect`, `Send`,
`Disconnect`, `SendQuit`, `Interrupt`); where no code of the repository stands
for it, `PROJECT.json` marks the action as external. `TCP_sockets` and
`async_posix_message_queues` hold both ends of their connection, and `IOctl` a
driver and its user: there the modules compose the two.

### Not modelled

- `posix_message_queues`: a blocking receive loop and its client, a special case
  of `MqSignal` and `MqThread` without notification, signals or threads.
- `oo_string_*`: accessors around one allocation; what can go wrong takes one
  call with a failed allocation and needs no model.
- `yahtzee`, `recursive_function`: random dice, a prompt and the printing of
  digits; formatting, without state that outlives a call.
- `IOctl/userspace/AI_gov_phases.h`, `AI_gov_types.h`: tables that neither the
  driver nor the application's ioctl calls use.
- `posix_mutex`: one critical section that two threads pass once;
  `ConditionalWait` covers a harder use of the same primitives.
- Nothing to model: `simple_prompt`, `sigaction`, `template_C_project`,
  `rpi_module`, `SIGIO` (a few calls in a row), `regex` (calls the C library),
  `linked_list` (its `ll.c` is not in the repository).

## Modules

One module per component. A definition has the name of the C function it
translates; where a function does several things between which something else
can happen, it is split into one action per step and the function's name is the
disjunction (`connection_handler == Recv \/ Write \/ CloseClient`).

**`Rbuf`, `BoundedFifo`.** `Rbuf` is `rbuf.c`: `inc_buf` and `dec_buf` are the
index arithmetic, `rbuf_size` keeps the width of `size_t` (`SizeMod`). The
handle's life cycle (null, live, freed) is a variable, so init after free and
calls on a null handle (which end in `assert`) are behaviours too.
`BoundedFifo` is the abstract queue the buffer promises to be: `rbuf_put` refuses
when full, `rbuf_fput` drops the oldest item. `Rbuf` implements it under the
refinement mapping `contents <- Contents`.
A comment in the struct calls `tail` the "Last stored value" (`rbuf.c:10`); the
code, and the refinement, use it as the oldest.

**`ConditionalWait`.** N threads; the program has four that differ in the number
they wait for. A thread's locations are the calls of `function1`. Waiting is
POSIX: releasing the mutex and starting to wait is one step, a wake-up needs the
mutex again, and may come unasked (`SpuriousWakeup`). The mutants change the
broadcast to a signal, drop the test of the turn, and so on.

**`LinkedList`.** `ll_add`, `ll_add_tail` and `ll_del` at every position of the
list. `order` is what the caller believes the list to be. `__ll_del` writes
`next->prev = next` (`ll.h:47`), so the state has wrong links; `misled` becomes
true when a call follows one, and the invariants say exactly what holds before
that and what is spoilt.

**`MqThread`.** `mq_notify` as `mq_overview(7)` defines it: a registration is
used up by a message that arrives at an empty queue. The notification is a token
that is registered or carried by one `sigHandler` thread, whose three steps
(receive, callback, notify) interleave with the sender and with
`closeMsgQueues`, which runs on SIGINT and after a failed `mq_notify`, possibly
twice at once. Use of a freed `mq_info_t` is a choice: crash, or a failing call
on a closed descriptor.

**`MqSignal`.** The same registrations, with SIGIO in place of threads: a
registration that meets a pending SIGIO is used up and its signal discarded
(`lost`). `openMessageQueue` is two steps, since a message can arrive after
`mq_open` and before `mq_notify`, and so is the handler. The handler blocks
every signal; the mask of the SIGINT handler is never initialised
(`main_server.c:168`), so whether SIGIO can interrupt `closeMsgQueues` is a
choice made in `Init`. The client is a second process: it opens the first
queue's name twice (`main_client.c:13`, `16`) and sends each line to it twice.
The second queue is used by another process that is not in the repository.
`MCMq` puts the module next to `MqThread`, with a specification of its own.

**`AsyncTcp`, `AsyncTcpMt`, `AsyncUdp`, `AioUdp`, `TtySerial`.** SIGIO is a
standard signal: at most one is pending, and it is blocked while its own handler
runs, because `SA_NODEFER` is not set; taking SIGIO out of `sa_mask` does not
change that. In `AioUdp` the pending signal carries the descriptor of the first
datagram; the handler walks the list with hand-over-hand locking, one action per
node, and interrupts `main` and `aIODeinit` anywhere. A freed node no longer
matches (the allocator overwrites its first words) or crashes the handler.
Message contents are left out: what is tracked is how many messages were sent,
received and answered; the echo's length, `strlen()` of a buffer that `recv()`
does not terminate, is modelled in `TcpSockets`, which has the same loop.
`MCSigioReaders` puts `AsyncUdp` and `TtySerial`, the two programs with one
descriptor and one handler, side by side; `MCServers` adds a specification for
each of `AsyncTcp`, `AsyncTcpMt` and `TcpSockets`, in which the variables of the
others stay as they are.

**`TcpSockets`.** `Init` chooses which of the two servers listens. `accepts` is
the history of `client_socket`; a thread's copy (`sock`) is its last value when
the thread starts (`multi_server.c:13`), so several threads may serve one
connection. A buffer is a sequence of zero, data and junk bytes: it is junk or
zero until the first `recv()`, and `Echo` sends back and clears what `strlen()`
finds. The thread's `free()` of a stack address, a write to a connection that is
gone and a `strlen()` that runs off a full buffer may end the process. A client
counts one reply per word, and the greeting is one.

**`AiGovernor`.** The driver's ioctl copies field by field, one action per
field, so calls of several processes interleave (`unlocked_ioctl`). A value is
known by the command or caller it comes from; `batch` is who has written since a
moment without writers, `quiet` the GETs no write has overlapped. Loading is one
action per registration, each of which may fail. Command numbers are
triples (direction, number, size of the type): the application's five against
the driver's four. The application opens `/dev/AI_governor_ioctl`, the driver
creates `AIgov`; `Link` is the administrator who makes the name exist.

**`Buttons`.** A call is: read `bt.lock`, take that mutex, walk the list one
element per step, act, give back the mutex that `bt.lock` names by then; and
`buttonFind` reads its result after that. Each button task calls `buttonInit`
again (`buttons.c:136`), which replaces the mutex and creates the next task,
until there is no memory. Freed memory still holds what it held, or is a fault.
`replaced` and `overlap` record when the mutex was replaced under a call and when
two calls were at the list. The file as it stands does not compile
(`DEBOUNCE_DELAY` is empty, `buttons.c:6`); the debounce test is a choice.

**`StateMachine`.** `addState`, `findState` and `deleteState` as they are:
`_ID` goes to the predecessor (`sm.c:50`), and `sm.head` is never looked at.
`made` counts the calls of `addState` and names the states; `_state_count` is the
code's own counter.
`statesHandlerTask` tests the address of `smInit` (`sm.c:111`), so nothing sets
the queue or `sm.current` and its first turn is the last. `sm_queue`
(`sm.c:117`) is declared nowhere; `state_queue`, which is NULL, is what it can
mean. `MCEmbedded` links the module with `Buttons`: they share the system, which
either can bring down, and nothing else, so a behaviour uses one of them.

## Runs

| run | instance | what it shows |
|---|---|---|
| `rbuf` | 3 slots, 3 values, `size_t` of 8 values | size, and refinement of `BoundedFifo`. The indices wrap several times; 3 slots tell empty, partly full and full apart |
| `conditional_wait` | 4 threads (the program's), 2 spurious wake-ups | lines in order, no lost wake-up, termination |
| `linked_list` | 3 items, symmetric | forward order until a call is misled, and where `ll_add_tail` puts an item in either case |
| `mq_thread` | 2 queues (the program's) of length 2, up to 2 messages left by an earlier run | the buffer is used by one thread at a time, the token is kept, a deaf queue stays deaf, closing ends the process |
| `mq_signal` | 2 queues (the program's) of length 2, up to 1 message left by an earlier run | the notification of a queue is in one place, and the handler never finds its queue empty; a queue whose SIGIO was discarded or that is registered non-empty stays mute until it is closed; closing ends the server. Length 2 holds one line of the client |
| `async_tcp` | 3 clients, backlog 2, 2 messages, 1 failed accept | every signal finds a connection, a connection waits in silence only after a lost signal or a failed `accept()`, nothing sent is lost, the handler returns |
| `async_tcp_mt` | 2 clients, backlog 2, 2 messages, 1 failed accept, 1 failed thread | no connection left behind, all is answered before close, every connection accepted and served |
| `aio_udp` | 2 connections (the program's), 2 datagrams each, SIGQUIT at any time | when datagrams are left behind, when the handler hangs or crashes, that SIGQUIT ends the process otherwise |
| `sigio_readers` | 5 datagrams, socket buffer of 3; 6 bytes in bursts of up to 3 | the receive loop makes up for lost signals, with a full buffer and empty datagrams; every SIGIO of the serial port finds its handler and a byte, and all bytes that had a signal are printed |
| `tcp_sockets` | 2 clients of up to 2 bytes, 2 results of `accept()`, a buffer of 3 bytes | which connection a thread serves, every byte is echoed once, which clients wait for ever. Two connections are enough for a thread to serve the other's; a buffer of 3 is full, partly full or holds junk behind the data |
| `ai_governor` | 2 processes and the application, 2 fields, 3 calls, 2 loads | what GET and SET can mix, what loading leaves behind, that the application only reads. Two fields are enough for a mixture, three calls for two writers and a reader |
| `embedded` | 2 tasks, 2 buttons with one identifier, memory for 2 button tasks; 5 states | one call at a time at the list until the mutex is replaced, the list is intact as long as that holds, the mutex in use comes back however often it is replaced; the state machine's numbers are not reused. Four calls of `addState` with a deletion in between would show a reused number. With one identifier a walk still passes the last element, which has none |

A pending signal is one bit, so two or three senders are enough for a signal to
be lost before, during and after a handler; the program's own numbers are used
where they are small. A configuration of `MCMq` or `MCServers` names the
specification of one program, and its constants for the others have no effect.
The names differ from the component's in two places: `NoConnectionBehind` is
`AsyncTcpMt`'s `NoneLeftBehind`, `SignalCloseEnds` is `MqSignal`'s `CloseEnds`.
Deadlock is checked except in the runs of modules whose
process may stop for good (`rbuf`, `linked_list`: the caller stops calling;
`mq_signal`: the server exits and the client ends or blocks in `mq_send`;
`sigio_readers`, `aio_udp`, `tcp_sockets`: killed, exited or all input used up;
`ai_governor`, `embedded`: no more calls, or the system has stopped).

Every module of a component has a `TypeOK`. Those of `Rbuf`, `ConditionalWait`,
`LinkedList`, `MqThread`, `AioUdp` and `AiGovernor` are theorems; of the others
the proofs contain the parts they need. The configurations name the properties
that say more.

### What the runs found

- `ll_add_tail` is to "Add new_item before next" (`ll.h:37`). After `ll_del`
  (`ll.h:47`) it ties the new item and `next` into a ring of two, and a walk that
  comes to `next` never returns to the head (`AddTailPlace`).
- The server of `MqThread` registers "to receive async notifications when a new
  message arrives" (`main_server.c:142`). A queue goes deaf for ever when a
  message arrives between `mq_receive` and `mq_notify`, or when it holds messages
  when it is opened (`DeafForEver`).
- In `MqSignal` the repository's own client makes the first queue mute: its
  second message is still there when the handler, which receives one message per
  signal, registers again. The second queue goes mute when its message arrives
  while the first queue's SIGIO is pending.
- Not all connections to `async_TCP` "trigger callback in which they can be
  accepted" (`main.c:107`): it accepts one per signal, and one whose SIGIO meets
  a pending one, or whose `accept()` fails, waits in silence
  (`SilentOnlyAfterLoss`). `async_TCP_multithread` loops and leaves none, but
  does not notice a failed `pthread_create()`, which returns a positive
  number (`main.c:58`).
- `tty_serial` reads one byte per signal: of a burst, all bytes but one stay in
  the port, and no later byte makes up for them (`SignalledArePrinted` counts
  them as `unsignalled`).
- `async_UDP_multithread` hangs in its handler when a datagram arrives between
  `F_SETOWN` and the unlock (`main.c:230-232`); SIGQUIT is then blocked too.
  A datagram between `bind` and `F_SETOWN` is not announced, nor is one whose
  SIGIO meets a pending SIGIO of the other socket. SIGIO during `aIODeinit`
  reads freed memory. `StuckOnlyOnOpening`, `NoneLeftBehind` and
  `CrashOnlyAtQuit` say that these are the only ways.
- A thread of `multi_server.c` may serve a later connection than its own, and
  then a client may have no thread at all; it waits for ever (`Abandoned` in
  `ClientAnswered`). The echo's `strlen()` may add junk to a reply but loses and
  repeats no byte, because `memset()` clears exactly what was sent back.
- The driver of `IOctl` leaks a device number region when `cdev_add()` fails
  (`AI_governor_ioctl.c:108`). Of the application's commands the driver knows
  one, `-gp`, and takes it for GET_VARIABLES, which writes more than the
  application has room for.
- The button task creates its own successor until the heap is used up, and each
  replaces the mutex: two calls may then be at the list at the same time, and the
  calls that wait for a replaced mutex may wait for ever (`LockComesBack` says
  that no later call does). The last button of the list has neither identifier nor poll function, so it is not found and polling
  it calls NULL.
- The numbers of `addState` find and delete the state added before, the first
  number nothing; the state added last cannot be deleted (`StatesInv` and
  `NumbersAreShifted` of `EmbeddedProofs`).

### Fairness

Weak fairness of each thread's steps: the scheduler runs a thread that can run,
and a pending signal is delivered. It is what POSIX scheduling gives; a mutex is
passed on by the weakly fair steps alone because every thread takes it a bounded
number of times. Strong fairness is assumed in one place: in `MqSignal` the
code that SIGIO handlers interrupt again and again gets on in between, that is,
senders do not keep a signal pending at every instruction. `MCEmbedded` assumes
no fairness: what runs is up to the priorities of the application's tasks.
Spurious wake-ups, SIGINT, SIGQUIT and arrivals are never forced. The TCP models
also assume that a connected client disconnects in the end (`WF(Disconnect(c))`) and reads what it
is sent: without the first, `async_TCP`'s handler blocks in `recv()` for ever,
which is the program's design and listed as a hazard.

## Proofs

All theorems hold for every value of the constants, under the named
assumptions of the modules, which TLC evaluates on every run.

- **`RbufProofs`** (`RbufAssumption`: the size is positive and below the range
  of `size_t`). Inductive invariant: `TypeOK /\ FullMeansMet`; the flag is needed
  because `inc_buf` in a full buffer moves `head` to `tail`. Results: types, the
  flag, `rbuf_size` equals the number of items in wrapping arithmetic, and
  `RbufImplementsFifo`, step by step from two lemmas on what appending and
  removing do to the queue between the indices.
- **`ConditionalWaitProofs`** (`WaitAssumption`: at least one thread). Inductive
  invariant: types, the mutex's owner, `TurnInv` (the threads that have printed
  are the first `Len(log)`), `NoLostWakeup` and `MainInv`. The wake-up argument
  needs the owner: a thread decides to wait while it holds the mutex, so its
  predecessor cannot have passed its broadcast. Results: `PrintOrder`,
  `NoLostWakeup`, `ReturnsLast`.
- **`LinkedListProofs`** (`ListAssumption`: the head is no item, neither is
  NULL). Inductive invariant: types (no link of a member is NULL, even after a
  misled call), items distinct, and, until a call is misled, forward links in
  order and each backward link right or a self link. Two lemmas say what
  inserting and deleting do to the ring, position by position. `AddTailPlace` is
  an action property that follows from the backward links.
- **`MqProofs`** (`MqAssumption`), about `MqThread` and, by `SigSpec` of
  `MCMq`, `MqSignal`. Inductive invariant for the threads: types, the token
  (`OneHandlerPerQueue`, `TokenKept`) and that unopened queues have neither
  registration nor thread. `DeafnessIsFinal` is an action property: only
  closing ends a queue's deafness. For the signals: a notification is in one
  place at most (`SigOne`), in one at least until the queue fails to open or is
  closed (`SigKept`), and a SIGIO on its way has a message to receive
  (`SigFull`); the last is what keeps the handler from giving up before it
  registers again. `MutenessIsFinal` follows from the first two.
- **`ServerProofs`** (`UdpAssumption`, `ServersAssumption`), about the two
  programs of `MCSigioReaders` and the three of `MCServers`; a lemma for each of
  these says that its specification implies that of the program alone.
  `async_UDP` needs that nothing arrives before `bind`, so that the `fcntl` calls
  find an empty socket; the serial port, that its last step is the one that makes
  it asynchronous, so that signals come to a `main` that sleeps.
  `async_TCP`: `listen()` comes after the `fcntl` calls, one client is served at a time, one that has not disconnected
  waits or is served, and what was sent is printed or unread. `async_TCP_multithread`:
  a connection is in the backlog, between `accept()` and `pthread_create()`, or
  has its thread, in one of them (`OnePlace`), and the buffer is in use only
  between `recv()` and `write()` (`EchoInv`). `TCP_sockets`: a thread exists only
  after the `accept()` with its number (`CreatedInv`). The invariant
  of `EchoedOnce` adds that a thread to be created has not run before (`FreshInv`) and that a buffer holds
  data only between `recv()` and the reply and then in front (`BufInv`), so that
  `strlen()` reaches past all of it and `memset()` clears it. That `strlen()` is
  defined needs the first zero byte, hence `LeastNumber`: a set of naturals
  has a least element, by the well-foundedness of finite sets under inclusion,
  which the library states without an operator parameter. Bytes in buffers are
  counted as a set of (thread, position), so that a `recv()` adds and a reply
  removes one row.
- **`AioUdpProofs`** (`AioAssumption`). Inductive invariant: types, how the list
  grows with the connections (`OpenInv`), signals are for connections past
  `F_SETOWN` (`SignalInv`), only `aIODeinit` frees (`MemInv`), and
  `findConnection` has not passed the node it looks for unless that was freed
  (`WalkInv`), with the properties themselves. `StuckOnlyOnOpening` follows: the
  locks below the handler's position are free, so it can only wait for the one
  that `main` holds.
- **`AiGovernorProofs`** (`GovernorAssumption`: at least one field; the
  application is none of the processes, and its name none of the values that
  fields take). Inductive invariant: what is registered at each step of loading
  (`HeldInv`), open files keep the module loaded (`FileInv`), the application
  has no second call (`AppInv`), `BatchInv` and `QuietInv`. `BatchInv` is the
  strengthening that `FieldsFromLastWriters` needs: a field that is older than the
  batch is still ahead of every writer. `CommonCode` compares the two headers'
  command numbers once.
- **`EmbeddedProofs`** (`ButtonsAssumption`: no task is called `None`, the
  bounds are natural numbers; `StatesAssumption`). `SoleUserOfList`: until the
  mutex is replaced, every call uses the one that `bt.lock` names and has it
  while at the list. `ListIsIntact`: links lead to younger, allocated elements, no
  two elements of the list to the same one, and `buttonAdd` stops at the last
  (`LinksInv`, `CallsInv`). The list is the least set closed under `next`, so what
  linking and unlinking do to it (`LinkAdds`, `UnlinkRemoves`) is shown by giving
  closed sets, without induction, and `button_count` follows from the library's
  cardinality facts. `LockComesBack` holds without these conditions; it needs that no mutex is
  named, wanted or held before it is created (`FreshInv`). `NumbersKeepMeaning`
  is an action property: every state but the last has its successor's number,
  states are distinct, and the last one is the one added last (`StatesInv`), so
  the first place of a number is its only one and a number finds its
  predecessor's state or nothing.

Every safety property that a run checks is the statement of a theorem. Only
model-checked are the liveness properties (`Termination`, `CloseEnds`,
`SignalCloseEnds`, `HandlerReturns`, `ConnectionsAreServed`, `SocketIsRead`,
`QuitEnds`, `SignalledArePrinted`, `ClientAnswered`): fairness and `ENABLED` are
out of the prover's reach.

## Assumptions

- `pthread_create` succeeds in `ConditionalWait` (the code does not test it);
  `malloc` of the thread's argument succeeds in `AsyncTcpMt`.
- `printf`, `malloc` and `free` in a signal handler, which POSIX does not allow,
  are taken to work.
- The `fcntl` calls of the TCP servers and of `tty_serial`, whose results are not
  tested, succeed; a descriptor raises SIGIO only once it is asynchronous and has
  an owner.
- `mq_close` of one descriptor ends only a registration that was made through it,
  as `mq_close(3)` says ("via mqdes"). In `MqThread` the sender opens and closes
  the server's queues in the same process (`main_server.c:165`, `179`); a kernel
  that drops the process's registration on any close of the queue, as Linux does,
  may take a queue's registration away after a send, and `TokenKept` and
  `DeafForEver` would not hold as stated.
- SIGIO comes only from the descriptors the programs set up, not from `kill`.
- The kernel buffers of the serial port and of TCP connections do not overflow;
  the UDP socket's does in `AsyncUdp`.
- FreeRTOS in `Buttons`: a mutex that is given back by a task that does not hold
  it stays as it is when free; when another task holds it, it is taken from that
  task or an assertion fails. Taking a NULL mutex fails an assertion. `bt.lock`
  is read once for its test and its use.
- A word that the user of `client.c` types fits `client_message`.

## Plan

The operations that change state are modelled and the safety properties proved.
What is left:

1. Safety facts that the liveness properties rest on, as theorems: who can take
   the next step in `AsyncTcpMt` and `TcpSockets` while a connection waits.
2. The types of `AsyncTcp`, `AsyncTcpMt`, `TcpSockets` and `Buttons`, of which
   the invariants above contain the parts they need.
