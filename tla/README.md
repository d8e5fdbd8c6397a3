# Venti in TLA+

Venti is a header-only C++20 library for asynchronous sockets, timers and
signals: a single-threaded event loop (`Context`), a platform handler
under it (edge-triggered epoll on Linux, an I/O completion port or a `select`
loop on Windows), and coroutines (`Future<T>`) on top. This directory models the
parts of it that keep state and the conversions of addresses, checks them with
TLC, and proves with TLAPS every safety property the runs check, and that
all three back ends implement one abstract specification, under the conditions section 4 names, for every number of
sockets, operations, timers, frames and threads.

The repository has no tests and hardly a comment, so there is no written
promise to hold the code against. The properties below state what the code does
guarantee and, where it guarantees less than its reader may expect, exactly where the
guarantee ends.

## 1. Inventory

Paths are relative to `src/venti/`.

| Component | State | Operations | Modelled in |
|---|---|---|---|
| Event loop (`context.h`, `event.h`) | list `waitset_` of completed events, `can_continue_`, the iterator of `Run` | `Run`, `End`, `SubmitComplete`, `Event::Complete` | `Context` |
| Epoll handler (`platform/linux/epoll.h`, `epollimpl.h`) | the epoll interest and ready lists (in the kernel), the batch `Wait` is serving | eight `Submit…` functions, `Wait`, `RegSock`, `CloseSock` | `Epoll`, `LinuxKernel` |
| Linux sockets (`platform/linux/linuxsock.h`) | per socket the slot `SockEventData` (socket pointer, type, event, flags `rp`/`wp`, target of an accept), the descriptor | `Setup`, `Connect`, `Accept`, `Recv`, `Send`, `Try…`, `Sync…`, `Shutdown`, `Close`, `SetTime` | `Epoll`, `LinuxKernel` |
| TCP and UDP sockets (`socket/tcpsocket.h`, `udpsocket.h`) | the awaitables | asynchronous, awaitable and direct transfers, connect, shutdown, close | `Epoll` |
| Acceptor (`socket/acceptor.h`) | `waiting_`: one callback and one target | awaitable, callback and direct accept, close | `Epoll` |
| timerfd and signalfd (`platform/linux/linuxtimer.h`, `linuxsignal.h`) | descriptor, slot | `Wait` | `Epoll` |
| Steady timer (`timer/timer.h`, `platform/win/wintimer.h`, selected by `plttimer.h` on *every* platform) | `cb_`, a thread | `AsyncWait`, `AsyncWaitcb` | `SteadyTimer` |
| Coroutines (`coroutine.h`) | frame states, `outer_`, results | call, `co_await`, return | `Coroutine` |
| Completion port handler (`platform/win/winiocp.h`, `winiocpimpl.h`) | one `SEOL` per operation, the port's queue | six `Submit…` functions, `Wait`, `CloseSock` | `Iocp` |
| Windows event handler (`platform/win/winevent.h`, `wineventimpl.h`) | `socks_`: for each `SOCKET` a slot per direction with its type, callback and the flags `activated` and `processing` | six `Submit…` and six `Try…` functions, `InitSet`, `Wait`, `RegSock`, `CloseSock` | `SelectLoop` |
| Windows signals (`platform/win/winsignal.h`, `winsignalimpl.h`, `signal.h`) | static map signal → callback, the C runtime's table of actions | `Wait`, `SigCallback`, `SignalAwait` | `WinSignal` |
| Windows sockets (`platform/win/winsock.h`, `winerr.h`) | a `SOCKET` | wrappers of Winsock | their outcomes in `SelectLoop` and `Iocp` |
| Addresses (`ip/*.h`) | the bytes and the port of an `IPAddr` | `inet_pton`, `inet_ntop`, byte orders, `ToString` | `Addr` |
| Buffers, raw sockets, resolver, DNS, platform selection | none that changes, or stubs | type aliases | not modelled |

How they interact:

* The program calls a `Submit…` function from its setup code or from a
  callback. It either stores the event in the slot (or starts an overlapped
  operation) or completes it on the spot with `Context::SubmitComplete`.
* `Context::Run` calls the callback of each completed event in the list and
  then the handler's `Wait`, which blocks in `epoll_wait` or
  `GetQueuedCompletionStatus` or `select` and puts further completed events in the list.
* A callback may be a coroutine handle's `resume()`. What runs from there is on
  the loop's stack; when a `Future<T>` ends it transfers control to the frame
  that awaits it.
* A `SteadyTimer` calls `SubmitComplete` from a thread of its own.
* A Windows signal resumes its coroutine on a thread of the C runtime, past the loop.

What is hard about it: the order of readiness, `epoll_wait`, dispatch and `Submit`
under edge triggering; one slot per socket for both directions; flags that are
remembered from one operation to the next; an acceptor with one callback;
timers set again while a tick is under way; completions made from inside
callbacks while the list is being walked; `errno`-carrying results that go through
unsigned types; and the order in which frames of coroutines end. The
`hazards` in `PROJECT.json` list each of them at its line.

What makes each component correct:

* Loop: no completed event is skipped or called twice; none sleeps through `Wait`; `End` ends the loop.
* Epoll back end: each operation completes exactly once; no readiness is lost;
  no operation waits for what is known to be ready; what is reported done is done, but for left-over errors; the loop blocks only where it should.
* Timers and signals: no wait starts with an earlier wait's tick; each wait is served.
* Coroutines: control is at one place per frame; awaiters are resumed; freed frames are not touched.
* Completion port: a `SEOL` lives as long as the kernel may use it; every operation completes, on closed sockets too.
* `select` loop: as for epoll; what a call moved is told to the operation it was made for, once.
* Windows signals: a signal somebody waits for does not end the process, and resumes its coroutine once; the map
  is not read while it is written.
* Addresses: `inet_pton` reads exactly the texts of addresses, and the text of an address is read as that address.

## 2. Modules

```
 Context ──┬── Epoll ── EpollProps ──┬── EpollInv ────┐
           │     │                   │                ├── MCEpoll (runs)
           │  LinuxKernel            └── EpollRefinement
           │                               INSTANCE
           ├── Iocp ───────────────────── AsyncOps
           ├── SelectLoop ── MCSelect ─────────┘
           └── SteadyTimer
 Coroutine ── MCCoroutine      WinSignal ── MCSignal       Addr ── MCAddr

 ContextProofs ──┬── EpollProofs             (Epoll)
                 ├── IocpProofs              (Iocp)
                 ├── SelectProofs            (SelectLoop)
                 └── SteadyTimerProofs       (SteadyTimer)
 CoroutineProofs                             (Coroutine)
 SignalProofs                                (WinSignal)
 AddrProofs                                  (Addr)
```

* **Context** — `waitset_` is a sequence, `it` the iterator, `canContinue` is
  `can_continue_`; `pc` says where the loop's thread is. One action per step of
  `Run`: the `while` test (`Enter`), one turn of the `for` loop (`Scan`, which
  starts a callback or steps on), the return of a callback with the `erase`
  (`Return`), and the call of `Wait` (`EnterWait`). A callback is the operation that owns it.
* **LinuxKernel** — external: what the code sees of a descriptor. A record with the state
  that its poll mask depends on, the system calls as sets of outcomes
  (`ret`, `errno`, new state; the empty set is a call that blocks), and what the
  network, the clock and the peers may do to it.
* **Epoll** — the slots, the awaitables (`await`), `waiting_`, the batch
  `epoll_wait` returned, and every function of the handler. A transfer or an accept is two
  steps, before and after its system call (`SubmitTransfer`/`SubmitAccept`,
  then `Tried`): between them the network may act, and on a socket in blocking mode the
  call may stay there. `Wait` is `Harvest` (epoll_wait) and then one `Dispatch…`
  step per reported socket, one action per branch. `runs`, `displaced`,
  `redelivered` and `missed` are history variables the code does not have:
  nothing in a guard reads them but `MayStart`, for a program that does not overlap its operations.
* **EpollProps**, **EpollInv**, **EpollRefinement** — the properties, the inductive
  invariant, and the mapping to `AsyncOps`.
* **AsyncOps** — the abstract specification: an operation is started, waits,
  completes, is queued, and has its callback called; one at a time, in the order of
  completion, never inside the call that started it. All three back ends are shown to implement it.
* **Iocp** — `seol` is the life of each operation's `SEOL`, `port` the packets queued at the
  completion port. A call is refused at once (`SubmitRefused`) or ended by the kernel (`KernelEnds`,
  `KernelAborts`), and each `Wait` takes one packet.
* **SelectLoop** — `socks` is `socks_`, with an `in` and an `out` slot for each `SOCKET` value, natural numbers
  because the map is walked in their order; `handle` is the `sock_` of each object, which
  may be `INVALID_SOCKET`. `SubmitTransfer` is the four transfers, which differ in their direction and in the call they
  try; `Select` or `SelectFails` is the call of `select` in `Wait`, then one `Dispatch…` step per reported direction, in order.
  `units`, `empties`, `dropped` and `vanished` are history.
* **WinSignal** — `sigmap` is the static map, `armed` the signals whose action is `SigCallback`. `Wait`'s two
  loops are two steps, `Write` and `Arm`; a delivery is two, `Deliver` (the C runtime resets the action and makes a thread) and
  `SigCallback`. `Race` is the outcome of using the map while another thread writes to it.
* **Addr** — `inet_pton` as an automaton that reads a text which is made up while it is read: a run explores
  every text up to the token at which the code gives up. `inet_ntop`, `ToString` and `htons` are operators on the result, and
  `Denoted` is the reference: what a text denotes, said without reading it in order.
* **Coroutine** — a frame is one activation of a coroutine; `stack` holds those that run, `outer` and `result` are the promise's
  fields, `knows` says whose `Future` a frame can await, and `got` what its last `co_await` returned. A return is one step with the transfer of control to
  `outer_` (`ReturnValue`), or with the destruction of the frame (`ReturnVoid`). `dangling` and `overtaken` are history.
* **SteadyTimer** — the timers' threads beside the loop. The `MC` modules give the constants their values.
* **ContextProofs** — what the proofs about the loop share: its invariant, sequences of completed events, the sums of
  `FiniteSetsExt` and `Folds` over them, and induction over numbers and finite sets. **EpollProofs** proves the structure, wakeups and flags of the
  epoll back end, and, in its second half, what is delivered and the refinement. **IocpProofs**, **SelectProofs**, **SteadyTimerProofs**,
  **CoroutineProofs**, **SignalProofs** and **AddrProofs** prove the rest.

A definition preceded by "Mutant:" is not part of a model. It is a plausible
bug in the definition it stands before (a missing reset, a dropped test, a
swapped branch), and `PROJECT.json` names the property that TLC
finds violated when it takes that definition's place.

The program is arbitrary: it calls any operation whose preconditions hold from
setup or any callback. Three constants restrict it, so that a property may be stated of the
programs that have it: `UserCalls` (which calls it makes), `Overlap` (does it start an operation
on a socket that still has one) and `CarefulUser` (does every registered socket get an operation
that is not a connect before the program returns to the loop; what the operation leaves in the slot is the code's business, and a connect
may leave nothing).

Integers have their width where it matters: `Recv` and `Send` keep an `ssize_t` in a
`size_t`, test it for being negative, and return it as an `int` (`SizeResult`). `SizeMod` = 2^16 stands
for both widths; what matters is that the first conversion makes -1 large, and the second makes it -1 again.

## 3. Runs

Every run has at least one mutant per property that TLC refutes.

| Run | Instance | What it shows |
|---|---|---|
| `tcp_client` | one TCP socket, 2 operations, FIN, RST, EAGAIN, ENETUNREACH, every user call, overlap allowed | `NothingDueInWait`, `ExactlyOnce`, `NoLostWakeup`, `TransferErrorIsOpaque`, `ConnectedWhenToldSo`, `TransferNeverWaitsAgain` |
| `acceptor` | listener and two targets, 3 operations, FIN, EMFILE, no overlap | `AcceptedWhenToldSo`, `BlocksOnAcceptedOnly`, `ImplementsAsyncOps` |
| `overlap` | listener, two targets, a UDP socket with ICMP errors and a timer, 3 operations that may overlap, one event per `epoll_wait` | `ExactlyOnce`, `NothingWaitsForTheFlag` |
| `timer_signal` | timerfd and signalfd, set again at any time, `End` | `EachWaitHasItsOwnTick`, `SignalIsNotConsumed`, `EndNeedsOneMoreEvent` |
| `careful` | a careful program on an acceptor, a target and a TCP socket | `NoNullSocket`; `Inv`, the inductive invariant of the proofs |
| `served` | a TCP socket and a timer, fairness | `WaitsAreServed`, `ImplementsFairAsyncOps` |
| `coroutine` | four frames, `int` and `void`, one that may throw, one with futures as parameters, fairness | `NoReentry`, `AwaiterOfItsOwnTypeIsResumed`, `OnlyVoidFuturesDangle`, `EveryCallReturns` |
| `steady_timer` | two timers, three waits, fairness | `TimerNeverWaitsForHandler`, `CallbackPerWait`, `WaitIsServed` |
| `iocp` | one socket, two operations that succeed, fail, are refused or aborted, fairness | `SeolOutlivesItsCall`, `RefusalLooksLikeBytes`, `ImplementsAsyncOps`, `CloseCompletes` |
| `select` | listener, TCP socket (perhaps without a descriptor yet) and UDP socket, 2 operations, vanishing connections, FIN, RST, refused connects, empty datagrams, fairness | `FirstAcceptTakesOne`, `OnlyEmptyDatagramsGoAstray`, `RefusedConnectIsSilent`, `ImplementsAsyncOps`, `ReadinessIsServed` |
| `win_signal` | two handlers that share one of two signals, three waits, three threads | `WatchedUntilDelivered`, `ResumedAgainOnlyIfArmedAgain`, `FirstWaitDoesNotRace` |
| `addr` | all texts over the numerals `0`, `ffff` and `00000`, the octets 0, 255, 256 and 01, and 8 ports | `ReadsTheAddress`, `GivesUpRightly`, `ToStringIsTheAddress` |

What they show of the code, beyond that it works:

* A second operation on a socket silently replaces the first (`epollimpl.h:24, 46, 84`). `ExactlyOnce` says that this, and
  `EPOLLERR` on a slot that was already served, are the *only* ways to lose or repeat a completion;
  `ImplementsAsyncOps` of `acceptor` that one operation at a time avoids the first.
* Readiness reported together with `EPOLLHUP` or `EPOLLERR` is dropped (`missed`); nothing else is lost.
* The failure test of `Recv` and `Send` is dead (`linuxsock.h:276, 292`): errors reach the program as 1, and the
  would-block branches of the transfers never run. So after the first edge, a read on an empty
  socket fails at once instead of waiting (`TransferNeverWaitsAgain`).
* A socket is registered before it has an operation, and `Wait` follows the null pointer its slot holds until then
  (`epollimpl.h:171`); `CarefulUser` is the discipline that avoids it. An asynchronous connect does not help: its slot usually stays without a socket (`epollimpl.h:67-81`), so that
  a TCP client has to start its first transfer, or connect with `SyncConnect`, before it returns to the loop; otherwise the first event epoll reports on the socket makes `Wait` follow the null pointer.
* A connect reported without error has connected, with one exception: `EPOLLERR` puts the left-over `errno` into the event, and if that is 0 a refused
  connection is reported as a success (`ConnectedWhenToldSo`).
* A timerfd is never read, so that an earlier tick stays in it; what keeps it from ending the next wait, or from using up that wait's edge, is that `LinuxSteadyTimer::Wait` sets the time
  every time (`EachWaitHasItsOwnTick`).
* Accepted sockets are in blocking mode and can stop the loop (`BlocksOnAcceptedOnly`).
* `recvmsg` on a signalfd fails, so a signal is never consumed (`SignalIsNotConsumed`).
* `End()` called by a callback does not end `Run` there: the loop's thread goes to `epoll_wait` once more, and `Run` returns when something is ready (`EndNeedsOneMoreEvent`).
* A `SteadyTimer`'s wait blocks the loop for the timer's whole period, because the future of `std::async` is dropped at once.
* Only an awaiter with the callee's own return type is resumed, and a `Future<void>` resumes nobody. A second awaiter of one `Future` takes
  the first one's place in `outer_`, and the first never returns. Who is resumed gets the result, value or exception, of the frame it awaited; the exception of
  a void coroutine goes with its frame. `inner_` is written and never read.
* At the completion port, an `AcceptEx` or `ConnectEx` that fails at once is never called back, and a transfer that fails at once returns its error as a positive number of bytes (`RefusalLooksLikeBytes`).
* In the `select` loop, `newsock < 0` is never true of an unsigned `SOCKET` (`winsock.h:233`), so that a connection that is gone before `accept` leaves
  `INVALID_SOCKET` in the target and is told to the program as a success; the first operation on such a target makes every later `select` fail.
  An accept after the first takes a connection inside its `Submit` call, says nothing of it (`TryAccept` returns 0, which stands for
  would-block), and takes a second one in `Wait` (`FirstAcceptTakesOne`). Zero also stands for an empty datagram, which may thus be lost or
  sent twice; nothing else is (`OnlyEmptyDatagramsGoAstray`). A refused connect is never told of, because Windows reports it in the
  exception set that `Wait` does not ask for (`RefusedConnectIsSilent`). Sockets beyond `FD_SETSIZE` are not watched (`ReadinessIsServed`).
* The C runtime resets a signal to its default action when it delivers it. Between that and the next `Wait` it ends the process; and `Wait`
  arms every signal of the map again, other handlers' included, so that a coroutine that no longer waits may be resumed again,
  by the signal that resumed it last only if the program has another await (`ResumedAgainOnlyIfArmedAgain`). With a second `Wait` the map may be written on one thread and read on another; with one it is not (`FirstWaitDoesNotRace`).
* On every text explored `inet_pton` and `ToString` are right; a port comes back modulo 2^16, and port 0 is left out of the text.

Bounds, and why they are enough. `Ops` bounds how many operations a program
starts: two or three are what it takes for one to displace, repeat or overtake another, and the
slot remembers nothing of the one before the last but the two flags. `MaxIn` bounds what is queued on
a descriptor: one tells empty from not empty, two tells a read that leaves data from one that does not. `MaxEvents`
is 128 in the code; at 1 or 2 `epoll_wait` has to leave ready sockets behind. `Errnos` are the values a left-over
`errno` may have: 0, which the awaitables take for success, and one that is not. `runs` counts to 2, which is "more
than once". `MaxLen` in `Iocp` tells an empty transfer from another one. In `SelectLoop`, `FdSetSize` is 64 in the code; at 1 the second socket is already one too many. `MaxIn` is 1 there: the second connection an
accept takes is the one that arrives after the first was taken. In `Coroutine`, three frames of one type are what it takes for
one to overtake another at a third, and `Takers` names the one of them that may be handed the futures its caller has; one frame that may throw (`Throws`) tells
a result from another one's. `Threads` of `WinSignal` bounds the deliveries under
way at one moment to two. The numerals of `Addr` are the least and the greatest group and one with a digit too many: a group's place decides what
becomes of it, and zeros what is compressed; the octets are the least and the greatest, one too large and one with a leading zero.
Operations and the C runtime's threads are interchangeable, so the
safety runs use symmetry over them; the liveness runs do not.

Type invariants. `TypeOK` of `Epoll` is part of `StructInv` and so of `Inv`, which `careful` checks; those of `Iocp`, `Coroutine` and
`WinSignal` are conjuncts of the proved invariants (`IocpInv` says it as `LoopInv` and `OpTypeOK`). Those of `SteadyTimer`, `SelectLoop` and `Addr` document the
variables and hold in every state of their runs; they are kept out of the runs, which check what could be wrong.

`CHECK_DEADLOCK FALSE` is in every configuration because programs do stop: when `Run` returns, when it waits
for ever for an event nobody sends, when the code has followed a null pointer (`pc = "crashed"`), when a signal has ended the
process, or when a text has been read.

Fairness. The loop's thread keeps running (`LoopStep`); the program's setup code and its callbacks
return (`StartRun \/ EndCallback`), which is the contract of a callback on a single-threaded loop; an armed timer expires; the thread
of a `SteadyTimer` wakes; the Windows kernel aborts what is under way on a closed socket. Nothing is assumed of
the network: `WaitsAreServed` starts from data that has arrived. In `Coroutine` a frame that waits for an event is resumed,
which is what the runs of `Epoll` show of the loop, and a frame that runs again and again ends at last (strong fairness):
an assumption on the program without which nothing could be said of who waits for it.

## 4. Proofs

The theorems about the epoll back end are proved for every finite or infinite set of sockets and operations, every kind of socket, every set of faults and
every program (`UserCalls`, `Overlap`, `CarefulUser`), under the assumptions the modules name:
`NoOpAssumption`, `KernelAssumption`, `EpollAssumption` (types of the constants, `NoSock` and `NoOp`
being none of the sockets and operations, sockets to accept into being TCP sockets) and `SizeAssumption` (no call moves as
much as an `int` cannot hold). Those about the completion port hold for all sockets, operations and sizes (`NoOpAssumption`, `IocpAssumption`), those about the `select` loop for
all sockets, descriptors, values of `FD_SETSIZE` and programs with one accept at a time per acceptor (`SelectAssumption`), those about steady timers for all timers and waits (`TimerAssumption`), those about coroutines
for all frames and types (`FrameAssumption`), those about signals for all handlers, sets of signals, waits and threads (`SignalAssumption`), and those about addresses for all numerals and ports (`AddrAssumption`); these
assumptions, too, only give the constants their types (`SelectAssumption` also says that `INVALID_SOCKET` is the largest descriptor, `AddrAssumption` that the separators are not numerals and differ).

| Theorem | States |
|---|---|
| `EpollProofs!Structure`, `TypeCorrect` | `StructInv`, `TypeOK` |
| `EpollProofs!NoCompletionSleeps` | `NothingDueInWait` |
| `EpollProofs!WakeupsAreKept` | `NoLostWakeup` |
| `EpollProofs!FlagsAreHeeded` | `NothingWaitsForTheFlag` |
| `EpollProofs!FlagsOnlyRise` | `TransferNeverWaitsAgain` |
| `EpollProofs!CarefulProgramsAreSafe` | `NoNullSocket` |
| `EpollProofs!Invariant` | `Inv`, all of it |
| `EpollProofs!DeliveredOnce` | `ExactlyOnce` |
| `EpollProofs!ConnectsAreDone` | `ConnectedWhenToldSo` |
| `EpollProofs!AcceptsAreDone` | `AcceptedWhenToldSo` |
| `EpollProofs!TransferErrors` | `TransferErrorIsOpaque` |
| `EpollProofs!OnlyAcceptedBlock` | `BlocksOnAcceptedOnly` |
| `EpollProofs!TicksAreOwn` | `EachWaitHasItsOwnTick` |
| `EpollProofs!SignalsStay` | `SignalIsNotConsumed` |
| `EpollProofs!EpollImplementsAsyncOps` | `ImplementsAsyncOps` of `Epoll`, if errors are awaited and accepts do not displace one another |
| `EpollProofs!FaultlessImplementsAsyncOps` | the same without these hypotheses, if there is neither `RST` nor `ICMP`, and operations do not overlap or there is no acceptor |
| `SteadyTimerProofs!WaitsAreCalledOnce` | `CallbackPerWait` |
| `SteadyTimerProofs!TimersNeedNoHandler` | `TimerNeverWaitsForHandler` |
| `SelectProofs!AlwaysCore` | `CoreInv`, the inductive invariant of the `select` loop |
| `SelectProofs!MovedIsTold` | `OnlyEmptyDatagramsGoAstray` |
| `SelectProofs!RefusedIsSilent` | `RefusedConnectIsSilent` |
| `SelectProofs!FirstAcceptIsSafe` | `FirstAcceptTakesOne` |
| `SelectProofs!SelectImplementsAsyncOps` | `ImplementsAsyncOps` of `SelectLoop`, if at most one object holds `INVALID_SOCKET` |
| `SelectProofs!OneTcpImplementsAsyncOps` | the same without that hypothesis, with at most one TCP socket |
| `IocpProofs!SeolIsFreedOnce` | `SeolOutlivesItsCall` |
| `IocpProofs!RefusalIsPositive` | `RefusalLooksLikeBytes` |
| `IocpProofs!CompletionPortImplementsAsyncOps` | `ImplementsAsyncOps` of `Iocp` |
| `CoroutineProofs!ControlIsInOnePlace` | `NoReentry` |
| `CoroutineProofs!AwaitersAreKnown` | `AwaiterOfItsOwnTypeIsResumed` |
| `CoroutineProofs!ValueFuturesNeverDangle` | `OnlyVoidFuturesDangle` |
| `SignalProofs!SignalsAreWatched` | `WatchedUntilDelivered` |
| `SignalProofs!NoSecondResumption` | `ResumedAgainOnlyIfArmedAgain` |
| `SignalProofs!FirstWaitIsSafe` | `FirstWaitDoesNotRace` |
| `SignalProofs!OnlyOwnSignals` | `ResumedByItsOwnSignal` |
| `AddrProofs!AddressesAreRead` | `ReadsTheAddress` |
| `AddrProofs!RefusalsAreRight` | `GivesUpRightly` |
| `AddrProofs!NoAddressRefused` | the same of every text that begins with what was read, not only of the listed ways to go on |
| `AddrProofs!TextsAreShown` | `ToStringIsTheAddress` |
| `AddrProofs!NoTextIsShorter` | the same of every text of an IPv6 address, not only of those that were read |
| `AddrProofs!PortsComeBack` | what `ToString` writes of a port is the port modulo 2^16, or nothing where that is 0 |

The argument for epoll. None of the properties is inductive alone; `EpollInv!Inv` is, and it is built in layers:

1. `StructInv`. The list holds only completed events of operations, so that `it` never leaves 1 and an empty list is all that
   can end the `for` loop (`LoopInv`, which gives `NothingDueInWait`). Whatever a slot held last belongs to an operation
   on its own socket (`SlotInv`), even after `Clear()`: this is what keeps the `EPOLLERR` branch, which completes a cleared slot's
   event, well typed. A pending accept implies that `waiting_` holds an accept (`AwaitInv`), and a system call under
   way belongs to the operation just stored, in a flagged direction (`CallingInv`).
2. `WakeInv` adds that only registered descriptors are in the ready list (`DescriptorInv`) and `NoLostWakeup`. Each step of
   the kernel that makes a direction ready puts the descriptor in the ready list; `Harvest` moves it to the batch; dispatch moves it to the
   flags, or to `missed`; and the two branches that reset a flag (accept that would block, the transfers) are either taken when nothing is
   ready or are dead because of `SizeResult` (lemmas on the kernel at the head of `EpollProofs`).
3. `NothingWaitsForTheFlag` needs `CallingInv` for the window inside a `Submit` call, and the dead would-block branches of
   the transfers for the dispatch.
4. `CarefulInv` says that every operation but a connect has stored its socket in its slot, which no later step takes away, and that a careful program has started one on each registered socket
   while control is not in its code; `NoNullSocket` follows.

Each layer's proof has one step per action. `Inv` is checked by the run `careful`.

The argument for delivery (second half of `EpollProofs`) starts from a smaller set of shapes: whatever the action, as far as deliveries go a step starts an operation that then
waits, or that fails, or completes one that waits, or completes one again (`EPOLLERR`), or calls or ends a callback, or does nothing to them. `ExactlyOnce`
counts, for each operation, the slot that holds it, its events in the list and its calls; `DeliveryInv` says that this sum is one from its `Submit`
call on, unless the operation is `displaced` (then zero) or `redelivered`. Each shape moves one unit from one term to another: the lemmas on `One`, `Count` and their sums
in `ContextProofs` say so once. The other theorems add what they need of the descriptors and of the places a step completes from:

* `ConnectInv`: an event of a connect without error belongs to a socket whose handshake is over, and to one that connected unless its status is `ERR`. `LinuxKernel` tells a refused connection
  (`conn = "refused"`) from one that was reset later (`"reset"`): the first is reported with `EPOLLHUP` for good, so that `EPOLLOUT` without `EPOLLHUP` means that the connect succeeded, and what succeeded is never refused later;
  also an operation's `Submit` call found the socket open.
* `OwnInv` and `AcceptInv`, for programs whose operations do not overlap: the target of an accept under way, in the slot, in the list or in a callback that has not resumed is a TCP socket without a descriptor
  of its own, and no two accepts have one target; so that what `accept` stored stays until the callback registers it.
* `CalmInv`: timers and signal descriptors have no fault, hence no `EPOLLERR`, and only the dispatch ends their operations.
* `TickInv`: beside a wait on a timer, a tick's edge is in the ready list or in the batch. It is inductive because `SubmitTimer` leaves no tick behind when a wait begins, and because dispatch of
  the edge ends the wait.
* `BlockInv`: a descriptor that blocks came from `accept`.

For the refinement, an operation is pending in a slot, due in the list, or active while its callback runs. Three things the code does have no counterpart in `AsyncOps`: `EPOLLERR` completes
an operation a second time; a program that overlaps its operations displaces one; and an accept that completed, whose place in `waiting_` a later one took, makes the later one's callback run. `AsyncOps` lets a `Start` lose operations if `Overlap`
is true, which is the second; nothing lets it complete one twice, or call one that has not completed, so that the theorem holds for the behaviours with `ErrorsAreAwaited` (whenever `Wait` is about to serve an error,
an operation waits in that slot) and `AcceptsAreOwn` (an accept is in `waiting_` until its callback has run). `Running` names as active the operation whose callback really runs, and `RunningInv` says that this is the one
whose completion is served (`CallsTheCompleted`). Without `RST` and `ICMP` there is no error to serve (`FaultlessInv`), and without overlap or without an acceptor no accept loses its place, which is the second theorem and the case of the run `acceptor`.
What overlapping accepts do is said by `ExactlyOnce` of the run `overlap`.

The argument for the steady timer. `TimerInv` names who refers to a timer (`NamesInv`), says that the callback a timer holds has been called, or its thread sleeps, or one of
its events is in the list (`HeldInv`), and counts as above. A timer may call a callback that is another wait's (`Callee`), so that the sum is per
timer and not per operation; that a sum over the waits of a timer grows by one when one of the terms does is proved by induction over that finite set.

The argument for the `select` loop. `CoreInv` says that an active direction of an entry holds an operation started on an object with that key, in that direction, which
has not completed, and that no other direction holds it (`SlotInv`); that what `select` reported and `Wait` has not served yet is still such (`BatchInv`); that a
target is named by one accept (`TargetInv`); and that an operation is in the list once and not after its callback (`QueueInv`). On top of it

* `TransferInv` keeps, for every transfer, the account of what its calls moved and what its event and its callback were told; the two sides differ only by an empty datagram;
* `AcceptInv` says that an entry whose `processing` is set has seen an accept complete, which is why `SubmitAccept` takes a connection only for a later accept than
  the first, and that being a later accept (`NotFirst`) never stops being true;
* the refinement maps what waits in an entry, or was dropped with one, to pending. All sockets for which `accept` failed have one key, `INVALID_SOCKET`,
  so that an operation on one displaces that of another though the program never overlapped two. `SelectImplementsAsyncOps` therefore supposes that at most
  one object is invalid at a time (or that the program overlaps its operations other than accepts, which `AsyncOps` then allows to displace). The hypothesis is needed: on two TCP sockets and four operations TLC
  finds the displacement. The corollary has none: with one TCP socket no second object can be invalid, as in the run `select`.

The argument for the completion port. `IocpInv` ties the four places an operation is seen in to the life of its `SEOL`:
what became of the call (`SeolInv`); a packet in the port exactly while the `SEOL` is queued, one per operation (`PortInv`); what an event in the list
carries, and that its `SEOL` is out of the port by then (`ListInv`); and that callbacks ran only for such (`RunsInv`). `PortInv` is what keeps
`Wait` from deleting a `SEOL` twice, and `ListInv` what makes the return value of a callback a fact about its call. The mapping to
`AsyncOps` then goes step by step: `Submit` and a refused `AcceptEx` or `ConnectEx` start an operation, `Wait` and a refused transfer complete one, `StartCallback` and
`EndCallback` call it, and all other steps stutter. `LoopInv` of `ContextProofs`, shared with the epoll proofs, is what makes the head of the list the next to be called.

The argument for coroutines. `CoInv` says that the stack holds the running frames, each once, and that until a frame ends, the frame its `outer_`
refers to waits for it and nothing else (`OuterInv`). The second is what keeps the transfer of control in `ReturnValue` from resuming a frame that runs or has ended;
the first, that a frame suspends before it can be named in an `outer_`, needs the second to survive that transfer. `EndInv` says that frames of value types are kept with their result, void ones freed: what a co_await returned is therefore still what its frame ended with.

The argument for signals. What is armed or being delivered is in the map, which names awaits of the program under signals of their own
handlers (`MapInv`, `ArmedInv`). What holds before a second `Wait` needs `AloneInv`: while there is one await, each of its signals is armed, being
delivered or delivered, and only one of the three, and nothing is armed inside its `Wait`.

The argument for addresses. `ParseInv` names what has been read: there are groups `l` before the gap, groups `r` after it and bytes `o`, of which
the text so far is made, with their separators and the token that is being looked at (`Stands`), and whose values are in `ip` and `bytes` at their places (`Kept`). Each action adds one numeral to one of the three.
When the automaton is done, `Denoted` takes that text apart again, by its numerals and in no order; that it finds these groups and this gap and no other is the larger part of the
proof: the colons and dots of a text determine how it was joined (`DenotesFour`, `DenotesSix`, `OneGap`), by induction over the sequences. `ResultIs` then says that `memmove` and the loop that
fills the gap put every group where it is denoted, wherever the gap is, and leave none uninitialized. All this holds for any sets of numerals of hexadecimal digits, of any length and value.

That no address is refused needs the other direction. `Refuses` says of every address, that is of all groups, gap and bytes that make one (`Rightful`): as long as what was read begins its text
(`Precedes`), the automaton has not failed, and its registers say which place of that text it has come to (`InGroups`, `InBytes`). A text of an address is laid out by those places (`BodyLaid`), so
that they say what the next tokens are (`GroupAhead`, `ByteAhead`), and these are none of those at which `GroupFails` and `ByteFails` give up. The one place where the code looks for a dotted end
though the text has none, after six groups or a gap, is a disjunct of `InBytes`: there the next token is no dot. That whatever `Denoted` accepts is such a text (`DenotesAddressed`) closes the argument. TLC checked
`Refuses` for all addresses over one numeral before it was proved.

For `ToString`, `ResultIs` and `Denoted` meet once more, from the other side. `Digits` of a number of 16 bits is a numeral worth that number and without a zero in front (`SpelledGroups`, `SpelledBytes`),
so that eight groups with colons between them denote themselves. A run of zeros, which the code looks for among characters, takes whole groups out (`RunCuts`): what is left is the text of the groups before
and after it with a gap between (`DenotesSix` again). That the longest run is the best one bounds the length: the gap of any text stands for groups that are zero, so that there is a run as
long as they and the colons beside them (`ZerosRun`), and the chosen one is no shorter (`NoneShorter`). Mapped addresses go their own way, because there the longest run is always the first five groups (`MappedRun`).

Only model-checked: liveness (`WaitsAreServed`, `EndNeedsOneMoreEvent`, `WaitIsServed`, `EveryCallReturns`,
`CloseCompletes`, `ReadinessIsServed`, and the fairness half of `ImplementsFairAsyncOps`), which is out of the prover's reach. Every
invariant and every action property of the runs is a theorem.

## 5. Choices of the model

* `SIGPIPE` is ignored by the program; a send after a shutdown returns an error.
* An accept is the awaitable's: `Resume` registers the new socket and then the program goes on. With `AsyncAcceptcb`
  the program's callback gets the socket unregistered.
* `LinuxSignalHandler::Wait` is called when no descriptor of it is registered; a second call while one is would leak the first.
* The target of an accept is a socket that has no descriptor yet.
* `std::async` without a policy runs a new thread, as the common implementations do.
* `epoll_wait` sleeping while a signal handler runs returns -1 (`Interrupted`): the loop takes another turn.
* `error` 144 in `DispatchHangup` is the code's literal.
* The object a slot belongs to outlives the run. Bytes are counted, not named; the handlers' models leave out addresses and buffers.
* `SelectLoop` leaves out direct calls, `shutdown`, use of a socket after it was closed, and a failed `accept` with connections still queued. A socket `socks_` does not
  hold behaves like one with a new entry, so erasing is resetting. Operations do not overlap in a direction in its run (`Overlap` is `FALSE`); the theorems cover
  both, for operations other than accepts: with overlap the second operation displaces the first, as in the epoll handler.
* A second accept on an acceptor before the callback of the first is in `Epoll` only. `SelectLoop` and `Iocp` leave it out: `acceptor.h` is the same file on both systems, and the callback would be that of
  whatever `waiting_` holds by then (`acceptor.h:65-78`), so that no theorem about these two covers overlapping accepts. In `Iocp` a refused `AcceptEx` does not keep the next one from starting.
* `WinSignal`: each delivery is on a thread of its own, as the C runtime does for console signals. Use of the map by a thread while another writes to it is undefined, and is modelled as one that
  may end the process at that point (`Race`). The default action of every signal ends the process.
  `AddSignal` is left out: the signals of a handler do not change between its waits.
* `Addr`: a text is a sequence of tokens (a numeral, a colon, a dot, any other character, the end), on a little-endian machine. `ToString` pads its text with NUL characters
  to 16 or 47 before the port; the model's text ends at the first. `Uninitialized` marks groups `inet_pton` has not written.
* `errcb_` of an `Event` is never called by the code, and is left out.
* In `Coroutine` references to futures are passed down, at a call, and the `Future` objects they refer to live as long as they are used. `Future<T>::get` names a member the
  promise does not have, and so has no caller. `AwaitDestroyed` takes either outcome of reading the freed frame.

## 6. Not modelled

* `winerr.h`: names of error codes. `winsock.h` beyond the outcomes of its calls: the loading of extension functions, `Shutdown`, `Bind`.
* `ip/*.h` beyond the conversions: copies of an `IPAddr`, and an `IPAddr` made from a text that is no address, whose bytes are what `inet_pton` left.
* `buffer.h`: a vector of pointers and lengths. `rawsocket.h`, `resolver.h`, `dnspacket.h`: stubs.
* The platform headers: includes and aliases. Their one behaviour, that `PLT_LOCK` is empty on Linux, is what
  `TimerNeverWaitsForHandler` is about.
* Moves of a `Future`: a moved-from one is ready (`coroutine.h:88`), and `await_resume` then follows its null handle. `Stream`, which is empty.
* Lifetimes of the program's own objects: sockets, awaitables and captures of callbacks outlive their use (see the hazards without a property).

## 7. Plan

Done, in this order: the loop, the kernel, the epoll back end with its properties, the abstract specification and
the refinement, the inductive invariant and its proofs, coroutines, the steady timer, the completion port; the `select` loop, Windows
signals, addresses, and the proofs about coroutines, signals and the completion port; then the proofs about delivery and the refinement for
epoll, about steady timers, about the `select` loop, and about addresses: what `inet_pton` reads, what it refuses, and what `ToString` writes.

Next, modelling: a second `Wait` of a Linux signal handler, which leaks its first descriptor; `AsyncAcceptcb` with an unregistered
socket; the composition of `Coroutine` with the awaitables of `Epoll`; `Acceptor::waiting_` in `SelectLoop` and `Iocp`, and a run of `SelectLoop` with overlapping operations; `AddSignal` in `WinSignal`.

Next, proofs: those of what is modelled next; of what is modelled now only liveness is left, which stays with TLC.
