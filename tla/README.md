# systemes3recomp: models, checks and proofs

The repository recompiles the programs of an arcade platform to C and gives
them a runtime that stands in for what the cabinet provided: a JVS I/O board on
a COM port, an IC card reader on another, a USB board, an ALL.Net server, a second
screen, and the Windows calls that have to be answered and not forwarded.  There
are two runtimes, one for 32-bit and one for 64-bit images.  They are where the
concurrency and the failures are, and they are what this project models.

Contents: the inventory of the system, the modules that exist and how they
follow the code, what each run checks, the bounds, the fairness, the proofs,
where code and comments disagree, what is left out, and the plan.

## 1. Inventory

Paths are under `src/src/` unless they begin with `tools/` or `tests/`.

| Component | State it keeps | Operations | Works with | What is hard, and what makes it right | Modules |
|---|---|---|---|---|---|
| JVS byte pipe (`runtime/jvs.c`, `card.c`) | `out`, `out_head`, `out_tail` | `out_push`, `out_avail`, `out_take` | both serial boards | Indices that wrap, one slot kept free: a bounded queue, nothing lost before it is full | `ByteFifo`, `ByteRing` |
| JVS port (`jvs.c`, `hle_callback.c`) | the pending read, its thread, deadline and routine; COMMTIMEOUTS; APC queues | post and cancel a read, read, write, complete a write, set timeouts, tick | game threads, ticker, Windows | Any thread's write or tick may end a read: its routine runs on the thread that posted it, once, unless memory or a handle was refused; the bytes stay one stream; a read ends though nothing is written, and not before it has waited its own timeouts | `JvsPort` |
| JVS node (`jvs.c`) | address, coin counters, coins pending, `had_coin` | the commands of a packet, `input_poll`, `es3_coin_take` | port, input, the game's own coin call | Coins come from the ticker while packets take them: none lost, none made | `JvsNode` |
| JVS wire (`jvs.c`) | `in`, `in_len` | `reply`/`out_byte`, `es3_jvs_write`, `consume_input` | node, port | Packets cut anywhere, damaged, given up: nothing held back, nothing reordered, back in step | `JvsWire` |
| JVS sequencer (`jvs.c`) | the timetable, its clock | `seq_init`, `seq_tick` | node's switches | Steps that end while others begin | none |
| Card reader (`card.c`) | `g_card`, `g_uid`, `g_auth_sector`, `g_present_until`, `g_card_dirty`, the file | load, save, select, release, authenticate, read, write, tap | ticker, window server, disk | Power cut between emptying and filling the file; an image that cannot be read; authentication that must not outlive the select; two sources of the number | `CardReader` |
| Card port (`card.c`) | as the JVS port, with a fixed 100 ms | `consume`, `send_frame`, `finish_read`, its own ticker | game threads | Frames cut anywhere, payloads that contain a frame's start, ACKs in two pieces; blocking and posted reads on one ring, which cuts a reply it has no room for | `CardPort` |
| Serial routing (`hle_callback.c`) | which handle is the JVS board, the reader, the drive stub | `hle_create_file` and the Win32 handlers | both ports, Windows | Ports moved onto one another, closing without a reset, handlers that do not know one of the ports | `SerialBus` |
| Dispatch (`dispatch.c`, `es3_rt.h`) | fast index, thunk and binding tables | look up, bind, dispatch, owner | lifted code, imports, host code | A function both thunked and bound; the order of the tests decides who answers | `Dispatch` |
| Import table (`hle.c`, `hle_board.c`) | bindings, purge bytes | `hle_bind`, `hle_bind_dll`, `hle_call` | dispatch, guest stack | The guest stack must come back balanced by exactly the purge | `Dispatch` |
| Native calls (`hle_native.c`) | cache of 64 regions | `es3_is_host_code`, the stack switch | dispatch | Cache filled by every thread without a lock, and stale after a library is unloaded | `Dispatch` (the calls) |
| Callbacks (`hle_callback.c`, `crash.c`) | thunks, planted callbacks | wrap, plant, `run_initterm`, `es3_hybrid_invoke` | real libraries calling guest code | Nested guest/host crossings on one stack | `Dispatch` |
| USB I/O board (`hle_callback.c`) | the claimed hub and port, the armed and given flags | rewrite a scan's answer, hand out a node, answer its key | the game's scan, DirectInput's own walk | Exactly one board a scan though handle values are reused; a node that only the game's lookup may see | `UsbBoard` |
| ALL.Net responder (`allnet.c`) | `g_started`, the listening socket | resolve, connect, serve | the game's network calls | Requests in pieces, peers that go silent or leave, a reply lost to a reset, a port that is taken, an `accept` that fails | `Loopback` |
| Passport window (`passport.c`) | the listening socket | serve a page, tap | card reader | One `recv` and no timeout; a tap from another thread | `Loopback`, `CardReader` |
| Guest loader (`guest.c`) | the range, the mark in the environment, the copy of the code | load, relaunch, diff; the watch over the display | main, libraries that patch | A process that starts itself again, once; blame for rewritten code; a window that will not stay put | `GuestImage`, `ScreenWatch` |
| Crash report and watches (`crash.c`, `debug.c`) | rings of recent dispatches | note, report | every thread | Rings written without a lock | its fault handler: `Dispatch` |
| DXGI output and screenshots | constant objects | COM methods | the game's renderer | Nothing a model tells apart | none |
| Input sampling (`input/es3_input.c`) | none | sample | ticker | Pure read | none |
| 64-bit dispatch (`runtime64/dispatch64.c`) | per thread: shadow stack, current CPU, counter; the private stack of the bridge | dispatch, jump, native call, initialiser walk, callback bridge, thread shim | game threads, libraries' own threads, the fault handler | Crossings in both directions that nest; what a crash or a stall prints must be true; callbacks that nest on one private stack | `Dispatch64` |
| 64-bit file table (`dispatch64.c`) | `g_ft`, `g_ftn` | `ft_record`, `ft_find` | every thread that opens | Handle values recycled, slots taken without a lock | `FileTable64` |
| 64-bit I/O board (`dispatch64.c`) | the cabinet library's own globals | prime on every accessor and from a ticker | the library's code | Several threads prime store by store while the library's init zeroes the same words | `IoBoard64` |
| Stall watchdog (`dispatch64.c`, `trace64.c`) | the frame count, what was last seen | hooks that patch a vtable, a tick | the game's renderer | A report that is neither early nor missing | `StallWatch64` |
| 64-bit loader, main, tracing | mapped image, breakpoints | load, run, trace | the above | Sequential set-up and diagnostics | starts and faults: `Dispatch64` |
| Driver and tools (`tools/`) | seeds, reports | lift, build, run, add seeds | external programs | The driver's loop must end in a fixpoint | none |
| Lifter | - | - | - | a git submodule, not part of this commit | none |
| Self-test (`tests/selftest`) | - | - | - | read for what it says of the code | none |

How they interact at run time: the game's threads call Win32 functions through
the import table; the handlers in `hle_callback.c` send serial calls to
`jvs.c` or `card.c`.  Each board has one lock and one ticker thread; the JVS ticker
also samples input, drops coins and taps the card.  Completions are APCs: queued by
whoever ends the read, run by the posting thread's next alertable wait.  The
window's server taps the card from a thread of its own.  In the 64-bit runtime a
thread goes back and forth between recompiled code and real libraries, and a
library that jumps to a guest address is caught by the fault handler and bridged.

## 2. Modules

Four groups, each checked as one or more runs:

- the JVS board: `ByteFifo` is the abstract queue, `ByteRing` the two indices,
  `JvsPort` the port's concurrency, `JvsWire` its framing, `JvsNode` what a packet
  does.  They meet at narrow places: `JvsWire.handled` is what
  `JvsNode.BeginPacket` takes, `JvsNode.reply` is `JvsPort.StartWrite`'s `k` bytes, and
  `JvsPort.out` is the queue `ByteRing` is proved to implement (`Capacity` is
  `FIFO_SIZE - 1`);
- the card reader and the ports: `CardPort` is the reader's wire and port, `SerialBus`
  composes it with the routing of names and handles, `CardReader` is what the
  commands do to the card and its file;
- the calls: `Dispatch` for the 32-bit runtime, `Dispatch64` for the 64-bit one;
- what runs beside the calls: `Host64` composes `FileTable64`, `IoBoard64` and
  `StallWatch64`; `Cabinet` composes `Loopback`, `GuestImage`, `ScreenWatch` and
  `UsbBoard`.

Five modules put parts side by side that no call joins: `Host64`, `Cabinet`,
`MCJvsLive` (the port, and the ring of bytes under it), `MCJvsBoard` (the node, and the
wire) and `MCSerialBus` (the reader's port, and the card).  Their variable `option` or
`part` says which one a behaviour follows, so that the state space is a sum and not a
product; in `Host64` that is also what the program does, since the file table and the
board are kept under different command lines.  `Host64`'s watchdog runs beside
either.  `Cabinet`'s parts are `allnet`, `passport`, `image`, `screen` and `usb`.

### ByteFifo, ByteRing
State: the slots, `out_head`, `out_tail`, and what the last `out_take` copied.
`OutPush`, `OutDrop` (the early return of a full ring) and `OutTake` are
`out_push` and `out_take`; callers hold the port's lock, so each is one step.
A slot never filled holds `NoByte`.  The ring's definitions are named `Ring...` and
`JvsWire`'s `Wire...`, so that one proof module can speak of a ring and a port, or of
a wire and a node; for the same reason `SerialBus`'s specification is `BusSpec`.

### JvsPort
State: the fields of `JvsPort` in `jvs.c` that the port's half uses, each game
thread's APC queue, which thread is inside `WriteFileEx`, and history variables
(`owner`, `status`, `bytes`, `called`, `accepted`, `taken`, `failed`, and `age` and `terms`:
how long the pending read has waited and which timeouts it was posted under).

| Action | Code |
|---|---|
| `PostRead` | `hle_read_file_ex`, `es3_jvs_post_read`: overwrite the pending read, compute the deadline, try to finish at once |
| `StartWrite`, `EndWrite` | `hle_write_file_ex`: `es3_jvs_write` under the lock, the reply into the ring, `finish_read`; then `es3_jvs_complete_write` after it |
| `ReadNow` | `es3_jvs_read`, which never waits |
| `Cancel` | `es3_jvs_cancel` |
| `SetTimeouts` | `es3_jvs_set_timeouts` |
| `Ticker` | `jvs_ticker` calling `finish_read` |
| `AlertableWait` | Windows running `deliver` |
| `ThreadExit`, `Elapse` | a thread ends with its queue; `GetTickCount64` |

`Deadline` keeps the 32-bit wrap of `multiplier * n + constant` and the 250 ms
that replace a total of zero.  `FinishRead` is `finish_read` whole, and is called
wherever the code calls it.  `Queue` is its end: the APC, or nothing because there is no
routine, the thread has ended, or, for the calls in `MayFail`, `malloc` or
`DuplicateHandle` refused.  A read whose handle could not be duplicated at the post has
no thread (`PostRead`'s second case) and ends without a word.  Each operation of the game is made once (`Read`,
`Write` are sets of calls), which bounds the model without limiting the order.

### JvsNode
A packet is handled one command to a step, because `es3_coin_take`, and keys,
pads and focus, do not take the port's lock.  The ticker is two steps, the sample
(`Poll`) and the count under the lock (`Insert`).  Commands that change nothing
the node keeps are one, `other`; `ident` is kept apart because its report is long
enough to fill the reply.  Lengths of reports are the code's.  `EndPacket` has `reply()`'s
return for a body longer than its length byte can say: such a packet gets no answer.

### JvsWire
`Frame` is `reply`'s framing, used for the sender too since the header of
`jvs.c` gives one rule for both directions.  `Write` is `es3_jvs_write` with its
clamp, `Consume` one turn of `consume_input`'s loop, `Scan` one byte of the
loop that un-escapes.  Bytes are modulo `Modulus` instead of 256; SYNC and
ESCAPE are two values of them, so that lengths and sums may be either.  The
sender may be cut off inside its first packet (`SendPart`).  `RoomAssumption` is
what the code relies on without saying so: a packet fits `body`, and what the game
writes before it reads an answer fits behind an unfinished packet.  In the code that
is 4096 - 1 - 2 * 256 = 3583 bytes, against packets of 257.

### CardReader
State: the card, its number, the file, the dirty flag, the authenticated sector,
the time the card stays, and the power.  `card_save` is two steps, `SaveOpen`
and `SaveWrite`, because the power can go in between; either can fail as
`Faults` allows.  `Boot` reads the image or, when there is none, it is short or it cannot be
read (`"read"` in `Faults`), formats a card under the environment's number; `unread`
remembers that an image was there and was not read.  The rest of a command is one step under the lock.  `acked`,
`granted` and `touched` are history variables.  Time off the reader is
`Elapse` down to zero.

### CardPort, SerialBus
The game's message is a sequence of bytes (`Wire`, the layout of `send_frame`), and
what it writes is any piece of it.  `Turn` is one turn of `consume`'s loop: a byte
skipped, an ACK or NACK skipped, a bad length skipped, part of a frame left, or a
payload handed to `command`; `Turns` runs them and `Consumed` is where they end.
`RoomAssumption` says that a message fits behind what `consume` can leave, four bytes:
262 at most, against an input of 4096.  A reply is `ReplyLen` bytes marked with their command's
number; what it says is `CardReader`'s.  `Pushed` is `out_push`: what the ring of `OutRoom`
has no room for is lost, and `cut` keeps the commands whose reply that befell.

| Action | Code |
|---|---|
| `WriteFile`; `WriteFileEx`, `CompleteWrite` | `es3_card_write` under the lock: clamp, `consume`, replies, `finish_read`; the overlapped form adds its completion a step later |
| `ReadFile` | `es3_card_read` |
| `PostRead`, `Cancel` | `es3_card_post_read`, `es3_card_cancel` |
| `DeadlineEnds`, `Ticker` | the clock passes `read_deadline`; `ticker` |
| `AlertableWait` | Windows running `deliver` |
| `CreateFile`, `CloseHandle` | `hle_create_file`'s order of claims, `hle_close_handle` |

`SerialBus.Reaches` is the test each handler makes of its handle: `ReadFileEx` and
`WriteFileEx` know the two boards only, and the silent drive port's made-up handle goes on
to Windows.  The environment's settings are chosen at the start (`Option`), ports on top of
each other among them.  That a call reaches the board its name was opened for is not
a property here: the test is one decision list, and a property would repeat it.
A handle Windows gives out is never one the runtime made up, which is the
assumption on `Native`.

### Dispatch
One guest thread.  State: the bindings and their span (`g_guest_hle`,
`es3_guest_hle_lo`, `es3_guest_hle_hi`), the functions hybrid has thunks for, the
cache of `thunk_for`, the planted functions, the calls in progress and the guest
stack pointer.  A frame is a lifted body, an import's handler, real code or a
crossing from real code (`invoke`), with `esp` at its entry.

| Action | Code |
|---|---|
| `Bind`, `Plant` | `es3_bind_guest`, `es3_plant_callback`, called by a title's `host.c` before the game starts |
| `Start`, `End` | the host dispatches the entry and gets it back |
| `DirectCall` | `DCALL`: only what is lifted, bindings asked behind the span |
| `IndirectCall`, `TailCall` | `dispatch`, `dispatch_jmp`; `Dispatching` is `dispatch_inner`'s order: sentinel, thunk, binding, lifted, host code |
| `BodyReturn` | the lifted `ret N` |
| `InitNext`, `InitEnd` | `run_initterm` between and after its calls |
| `RealCallsThunk`, `RealCallsGuest` | a real library calls what it was given: a thunk, a planted jump, or the bare guest address, which runs the original bytes on a page with a stub and faults into `es3_veh` anywhere else |
| `InvokeReturn`, `RealReturn` | the end of `es3_hybrid_invoke` with its `cleaned`; real code returns to `hle_call` or `hle_call_address` |

`HleCall` has a disjunct for every kind of handler: forwarded (`native`), forwarded
with an argument swapped for a thunk (`wraps`), written by hand and leaving `esp`
alone (`written`), unwinding by itself (`unwinds`), never coming back (`leaves`),
the initialiser tables, and none.  `HleReturn` is what `hle_call` does after it.
Aborts and unhandled faults are values of `state`, and nothing follows them, which is why
deadlock is not checked.  A bare guest pointer is only sent through a thunk when
its function is lifted: bound but not lifted, it is a crash (`crash.c:903`).

Abstracted: what a body pushes for itself, between its calls, is below them and gone
when it returns; registers, x87 values and substituted arguments; tracing;
the index, of which only what it answers is left.  Assumed of the code around it: call sites
push what their callee pops, tail calls go to functions that pop as much as their
caller, a handler that answers for a function unwinds as it would, and the purge
table, where it has an entry, is right.

### Dispatch64
Any number of host threads, some of them a library's own.  State, per thread: the
activations in progress (lifted body, import, initialiser walk, bridge), `cs_depth`
and `cs_stack`, `g_cur_cpu`, the words in use of the guest's stack and of the
one private stack that all bridges of the thread share, who wrote each word last, and `tc_slot`; for all of them `g_tcn` and
`g_dispatch_count`.

| Action | Code |
|---|---|
| `StartThread`, `NoStack` | `main` and `es3_thread_shim`: a stack, a sentinel return address, `dispatch`; or no stack to be had |
| `CallLifted`, `TailLifted` | `dispatch` and `dispatch_jmp` to a catalogued function |
| `CallNative`, `ReturnNative` | `es3_native_call` for an import that is answered or forwarded, called or jumped to |
| `WalkCalls`, `WalkEnds` | `_initterm` and `_initterm_e`, through `es3_call_guest` |
| `CallCreateThread` | `CreateThread` with its start routine replaced by the shim |
| `Callback` | `es3_bridge_callback`: a fresh CPU on the top of the thread's private stack |
| `CallGap`, `CallbackGap` | an address inside `.text` that is not catalogued, by call or by fault |
| `ReturnLifted` | the lifted RET, the end of `dispatch`, and of a bridge below it |

Every dispatch counts towards the limit, and the one that reaches it ends the
process (`Stop`).  A jump is neither counted for the thread nor pushed: the body it goes
to stands on its caller's return address, as in the code.  A function named with
`--log-call` runs before the push and is not on the shadow stack.  `DumpCallstack` and
`StallStack` are the two readers of that stack: the crash dump takes the depth as it is and
may index past the array (`Behind`), the stall report clamps it first.

### FileTable64, IoBoard64, StallWatch64, Host64
`FileTable64` has the kernel's open handles, the table, and for each thread where it
is in `ft_record`: an open is forwarded, a slot claimed, the slot stored, each a
step, so that other threads' opens, closes and lookups come between.  `IoBoard64` takes
a priming apart into its stores, in the order of `io_board_prime`, by guest threads
and by the ticker, while `LibraryInit` may zero the words.  `StallWatch64` is the
two vtable hooks, the count of frames, and the watchdog's loop.

### Loopback
Both servers are instances of one machine that differ as the code does: ALL.Net's
connections have `SO_RCVTIMEO` and are read to the end of the body, the window's
have neither.  `Resolve` is any of the resolvers the game may call, the first of which
sets `g_started` and goes on to `BindListen`, as steps of one thread; another thread
that resolves in between connects to nobody.  `ToLoopback` puts an invented
address back.  A request is pieces; a peer in `MayPause` may fall silent after any
of them, one in `MayLeave` may close or reset its end, accepted or not.  The window's server
receives once, whatever has come, and answers that.  A close with bytes unread is a
reset, which loses the reply; bytes that come after the close reset it too.
`AcceptFails` is `accept` returning `INVALID_SOCKET`, on its own account (`MayFail`) or
because the connection at the front was reset while it waited: the loop ends for good.
The window's server then closes its listener, ALL.Net's stays listening to nobody.  `Listen`
has a `CreateThread` that fails behind a socket that listens, with the same effect.

### GuestImage, ScreenWatch
`GuestImage` follows the process that was started, the child it may start
once the range is not to be had, and the grandchild that must not be: load, mark
the environment, reserve in the child, wait, pass the status on, and every way each
can fail.  Beside it, libraries that rewrite mapped code, the planted jumps with their
re-snapshot, and `es3_guest_diff`, which copies what it reported and stops after
forty ranges.  `LoadLibrary` is a load that succeeds by one of the two hooked names,
whose diff follows; `LoadUntold` is one that writes and then fails, or comes by a name that
is not hooked: no diff follows.  `unsaid` is the history of what went untold.  A load that
`refuse_io_emulator` turns down changes nothing.

`ScreenWatch` is `screen_watchdog`: the desktop's windows in their order, front to
back, which are created, destroyed, raised, resized and hang at any time, and a walk that
stands on one of them.  `NextWindow` is `FindWindowExA` from there: the window behind
the one it stands on now, or none, which ends the turn early, when that one is gone.
`LookAt` counts a catch, `PutBack` is `ShowWindow` and `SetWindowPos`, which return only when the
window's thread answers.  Hence a limit of the code: a fullscreen game that hangs
blocks the watchdog, which then never ends it.

### UsbBoard
The game's scan opens hubs, asks ports, and the first empty one becomes the board
(`ioboard_claim`); the driver key opens a window in which the end of a sibling
chain hands out one node more; its key closes the window.  DirectInput walks the same
tree at any time.  Handle values are reused from hub to hub.  `NewScan` begins when no scan is
under way: a class list that another thread opens in the middle of one, which clears the
claim, is left out.

### MC modules
`MCJvsPort`, `MCJvsNode`, `MCJvsWire`, `MCDispatch` and `MCCabinet` only give values that a
`.cfg` cannot write: sets of timeouts, packets, noise, environments and ports, and a
small image with its import table.  `MCJvsLive`, `MCJvsBoard` and `MCSerialBus` also put two
parts beside each other.

## 3. Runs

| Run | Shows |
|---|---|
| `JvsPort` | `CompletedOnItsThread`, `CompletedOnce`, `NoCompletionLost`, `BytesInOrder` with two threads, the ticker, one thread that may end, a read and a write whose completion may be refused memory or a handle, reads posted over each other |
| `JvsPortLive` | `ReadEnds`: a posted read ends though the game writes nothing, which is why the ticker exists; `ShortAfterOwnWait` (an action property): a read that ends short has waited what its own post's timeouts allow; `ImplementsFifo` and `WaitingIsWritten`: the ring implements `ByteFifo`, and no slot it counts is one that was never written |
| `JvsBoard` | `CoinsAccounted`, `CoinsFromEdges`, `EveryCommandReported`, `CountsAgree` while the ticker drops coins and the game takes them off the wire; `HandledInOrder`, `NothingHeldBack`, `BackInStep` after a packet that was cut short; `WireTyped`, which says that no write runs over the end of `in` |
| `SerialBus` | `CommandsInOrder` and `RepliesInOrder` over every way to cut frames and to read, a full ring among them; `ReadEnds` on a silent line; `UidAgrees`, `FileIsCard`, `TouchedIsGranted` over boots, taps, images that cannot be read and failing saves |
| `Dispatch` | `BoundAnswered`: no body of a bound function runs unasked, however the call came; `Balanced`: whoever is running has the guest stack it was entered with; `TypeOK`, which says that neither the bindings nor the thunk cache outgrow their tables |
| `Dispatch64` | `StackBalanced`, `CrashReportTrue` over every nesting of calls, jumps, imports, walks and callbacks on two threads |
| `Host64` | `ReadsNamedRight`; `AccessorFindsBoard` and `BoardStaysUp`; `StallsReported` |
| `Cabinet` | `RepliesArrive` and `EveryRequestEnds`; `OneGuest` and `BlamedRight`; `KeepsDesktop`; `OneBoard` |
| `CardReaderPower`, `Dispatch64Dump`, `Dispatch64Frames`, `CabinetAccept` | expected violations: see section 6 |

Type invariants of the other modules are not run: they are theorems (section 5).

Some properties carry an excuse, and each is a limit of the code and not of the model.

- `NoCompletionLost`: the call had no routine, its thread has ended, or memory or a handle
  was refused for it; the code drops the completion without a word.
- `UidAgrees`: an image that is there and cannot be read is left on the disk with its own
  number until the next save writes over it.
- `RepliesInOrder`: the replies whose tail the full ring cut.
- `BackInStep`: a length that can never be reached, with which the parser stands still.
- `CrashReportTrue` is about the calls that were pushed, and says of the lines behind the
  array only that they are; what the comments promise beyond that is `DumpGenuine`.
- `RepliesArrive`: ALL.Net's peers that fell silent or left.  It says nothing of the
  window's server, whose reply is reset whenever the one `recv` did not have the
  whole request.
- `EveryRequestEnds`: a server that has ended, and a silent connection held by the window's.
- `BlamedRight`: writers whose bytes went untold: a failed or unhooked load, a report
  that was cut off, libraries that came in together.
- `KeepsDesktop`: windows that come, go or change places for ever, and a window's thread
  that does not answer.
- `ReadsNamedRight` is about a table that has not overflowed, since a full one records
  nothing more.  `AccessorFindsBoard` leaves out a priming that the library's init ran
  into; `BoardStaysUp` says that this heals.

### Bounds

| Module | Bound | Why it is enough |
|---|---|---|
| ByteRing (`JvsPortLive`) | 4 slots, 2 byte values, takes of 1-3 | every wrap of both indices, full and empty, takes longer than what waits |
| JvsPort | 2 threads, 2 reads, 2 writes of at most 2 bytes, a ring of 2, deadlines of 1 tick; `JvsPortLive` has 1 write of 1 byte, 2 settings of the timeouts and deadlines below 4 | a read ended by the post, by another thread's write and by the ticker; a read posted over another; a full ring; a failure at the post and at the end. Whether a deadline has passed is all that the four properties of `JvsPort` can see; in `JvsPortLive` a total wraps to zero, a setting returns at once, and timeouts are set while a read waits |
| JvsNode (`JvsBoard`) | 3 presses, 1 return of the window; counts modulo 2 instead of 2^14 | two coins are lost or duplicated as visibly as many, and one above the modulus shows the wrap |
| JvsWire (`JvsBoard`) | `MaxSent` 3 packets, `MaxLine` 12 bytes in one write, `Chunk`s of 1 and of all | every cut of every packet and several packets in one write. `FIFO_SIZE` is 30: an unfinished packet and a write fit, so only a stuck parser fills it, as in the code, where 4096 bytes stand against packets of 257 |
| CardReader (`SerialBus`) | 2 sectors of 2 blocks, 2 numbers, 1 datum, `MaxBoots` 3 | a trailer and a data block in each sector, a sector to be refused, a boot after a boot that failed |
| CardPort (`SerialBus`) | 1 thread beside the ticker, 2 messages, 2 posted reads, reads of 1 and 3 bytes, replies of 2 in a ring of 3 | every cut of a frame, of a payload that looks like a frame's start, of an ACK; a read shorter and longer than a reply; a read posted over another; a second reply that does not fit. Which thread a completion goes to is `JvsPort`'s question, and the card's port answers it with the same code |
| Dispatch | 3 guest functions, 2 lifted, two of the three on one page; 10 imports; 2 bindings, 1 cached thunk; calls 5 deep | lifted code calls real code that crosses into lifted code that calls again; every kind of handler with and without a purge; a binding inside the span that was not bound, a full cache, a bare call beside a stub |
| Dispatch64 | 2 threads, `CsMax` 2, a dump of 2 lines, `TcMax` 1, 6 activations, 2 bridges deep, 6 dispatches | a callback inside a callback under lifted code, a shadow stack that overflows and comes back, two threads on one counter, the limit reached at any call |
| Host64 | 2 guest threads and the ticker, 2 handle values, 2 files, 3 slots, 4 opens, 1 init, patience 2, 1 frame | a value recycled while another thread records, a table that overflows, a priming that finds no table while another publishes one, an init in the middle, a stall before and after the first frame |
| Cabinet, servers | 3 clients, of which one may pause and one leave, and 2 viewers, of which the same; ALL.Net's requests of 4 pieces, 2 of them the body, the window's of 2 | a silent connection in front of one that speaks and one that goes away while it waits; a body in two pieces; a page request in two. The code's backlog of 8 is not reached |
| Cabinet, image and screen | 2 cells of code, 2 libraries, reports of 1 cell; 2 windows of the game's and one other, 3 catches | two libraries over the same cell, one of them untold; a window that stays put and one that will not, in front of, behind and in the place of the other |
| Cabinet, USB | 2 hubs with 3 empty ports, 2 handle values, 2 chains, 2 scans | a handle value reused for the second hub, DirectInput's walk across the whole lookup |

The proofs remove these bounds from all properties they establish.

`JvsWire.Send` puts packets together before a write and `Chunk` takes the
writes apart, so one write can hold the end of a packet, a whole one and the
beginning of a third.

## 4. Fairness

- `JvsPortLive`: `BoardFairness` is `Ticker` and `Elapse`.  `jvs_ticker` is
  `for (;;) { Sleep(10); ... }` on a thread of its own that nothing stops, and
  `GetTickCount64` moves.  That the thread was created at all is assumed: `es3_jvs_open`
  does not look.  Nothing is asked of the game.  A posted read *ends* when it is
  filled, replaced by the next or cancelled.
- `SerialBus`: `BusFairness`, the clock and the reader's ticker, another loop that nothing
  stops.  Nothing is asked of the game here either.
- `Host64`: the steps of `io_board_thread` and the watchdog's tick, both loops with a
  `Sleep`.  Guest threads may stop anywhere, in the middle of a priming too.
- `Cabinet`: each server's thread for itself, each peer for itself (one that has connected
  sends the rest or is one that may fall silent or leave), and the watchdog's thread.  Not
  assumed: that a silent peer goes on, that a window's thread answers, that the windows
  stop coming and going.  The ALL.Net server's timeout is its own step, and a failed `accept`
  may always come instead of a connection.

## 5. Proofs

All theorems are about every value of the constants that satisfies the named
assumptions of their modules.  42 are listed in `PROJECT.json`, and between them they
state every invariant and every action property the runs check, except in the four runs
that are expected to fail.  This is how they go.

`Induction`.  The loops over bytes (escaping, sums, the parsers, the replies) are recursive
functions on a range `0 .. n`, and the library's induction theorems take a predicate,
which no prover here can instantiate.  A set can be: `LeastNatural` and `RangeInduction`
speak of a set of numbers, and {k : ...} is an ordinary term.  `RecursionOnRange` shows
that the function a recursive definition asks for exists, `RecursionTyped` that it has
its type.  Each loop has a lemma `...Unfold(s)` from these two, and every other fact about
it follows from that lemma by `RangeInduction`.  `PiecesGrow`, `Halves`,
`SuffixFacts`, `DropConcat` and `MoveConcat` are the facts about sequences that all the
streams need: a byte moved from the front of one to the end of another.

`JvsPort_proof`, the ring.  `RingTyped`, `RingWritten`, `RingImplementsFifo`.  The work is
arithmetic modulo `FIFO_SIZE`: `WrapOnce` and `WrapSum` give `%` its two cases,
`Distance` and `AvailIsDistance` turn the count of waiting bytes into the
distance from head to tail, and `PushAppends` and `TakeRemoves` say what a step
does to the sequence the refinement mapping `Waiting` reads.  A dropped byte
is a stutter.

`JvsPort_proof`, the port.  `PortTyped`, `CompletionsGoHome`, `CompletionsOnce`,
`CompletionsKept`, `StreamInOrder` and the action property `ShortReadsWaited`, from one
inductive invariant:

- `Unique` and `CalledIsOver`: an operation is in one place of one queue, and in none
  once it was called.  Without it a queue's tail could still hold what was called.
- `ReadsAgree`: a read is `posted` exactly when it is the pending one, and `new`
  exactly when nobody owns it.  This is what makes `FinishRead` queue a read that
  was never queued before.
- `PendingOwned`: `read_thread` is the poster of the pending read, so the ticker's
  `Queue` goes home; or it is nobody, and the read is among those that failed.
- `ClockAgrees`: what the pending read has waited and what it has left add up to the wait
  that the timeouts of its own post give its own length.
- `WritesAgree`: a write that is still inside `WriteFileEx` has not completed.

`QueueAdds` and `FinishKeeps` are shared by the three actions that try to finish a
read; then one lemma per action, one step per conjunct.  For `ShortReadsWaited` a read
that ends in a step is the pending one, or posted in that step (`ReadsAgree`);
`FinishFillsWhole` says that, filled short, it had nothing left to wait for, and
`ClockAgrees` that it has then waited its own time, for which `OwnWait` is stated apart
from the code's `Deadline`.

`JvsNode_proof`, the node.  `NodeTyped`, `CoinsKept`, `OneCoinAnEdge`, `CommandsReported`,
`RepliesAgree`.  The coins are inductive given types.  The edges are not: between the
ticker's sample and its count a coin is owed, and a key that is down and not yet
sampled owes one too, so `EdgesBound` adds `Due` to the coins inserted.  For the
replies `NodeInv` follows the packet: `Recorded`, the reports so far are those
of the commands handled so far; `CountsFresh`, the counts of a report not followed by
a decrease are the counters of now; `PairsAgree`, two reports with none between
them agree; `ReplyTrue`, the last reply had both.

`JvsNode_proof`, the wire.  `WireTypes`, `InOrder`, `HeldBackNothing`, `StepRegained`.  What the
four say is about the end of a loop and about counts; what is inductive is about the bytes:
`WireInv` says that the bytes under way, in the buffer and not yet written, are

- `InStep`: the frames of the packets not handled yet, all of them and in order, behind
  noise or with the first SYNC already found (`OnTheWire`); the packets handled before
  are those sent, except for one invented packet that may stand for the first few; or
- `Astray`: the same behind a piece of the packet that was given up (`AstrayOn`), with
  nothing handled; or
- `Stuck`: anything behind a length that no body can reach (`WedgedOn`), which stays so.

`Settled` adds that between two writes the buffer begins with an unfinished packet or is
empty, which is what makes `HeldBackNothing` true.  The lemmas under it say what the
parser does on a frame: `StuffedNoSync` (the escaping leaves no SYNC), `FrameScans` (after
the bytes that escape the first j of a body, the parser has exactly these j, an escape
half read included), `FrameWhole` and `PacketBack` (at the last byte, and no sooner, it has
the packet, and its sum is right when the sender's was).  With `ScansAgree` (the
parser does not look past the packet) this gives `WholeAhead` and `PartAhead` for a
buffer that holds a frame or part of one.  `AstrayRecovers` is the hard case: the
parser runs from an abandoned packet into the next ones, and ends inside or at the end of
one less than a body's worth further on (`UsedBound`), from where on the next SYNC
is a packet's own.

`CardReader_proof`, the card.  `ReaderTyped`; `OneNumber`, inductive given types; `FileKept`,
which needs `SaveUnderWay` (a save in progress is always a dirty card, so that
failing to open leaves the card marked); `OnlyGranted`, which needs
`auth = granted`.

`CardReader_proof`, the wire and the port.  `FramesInOrder`, `RepliesReadOnce`,
`ReaderPortTyped`, `ReaderReadsOnce`.  The invariant
`PortInv` has a part for each direction.  `Tracked`: the bytes in `g_p.in` and those still
to be written are what the reader skips, or the whole of one message behind what it
skips (`Flight`), and what was sent is what was done and what that message still asks
for; there is room for them; and with nothing left to write fewer than five bytes are
held.  `RepliesInOrder` is inductive by itself: `Chain` is a stream of replies in order, and
`FittingGrows` says that pushing one more keeps it, whole or cut by the full ring and then
among the cut.  A write is
`ConsumedKeeps`: by induction over the turns of `consume`'s loop (`TurnKeeps`, `TurnShrinks`),
each turn either drops a byte that is no message's (`IdleHasNoStart`: the bytes of
acknowledgements and wake-ups hold no 255 in third place), or finds a start, which is
then the message's own (`StartIsMessage`), however much its payload looks like one.
A read that ends in any of five places is one lemma, `ReadMoves`.  That its completion is
queued once, and never while it is pending (`ReadsEndOnce`, the reader's counterpart of
what `JvsPort` promises of its own reads), is apart from the bytes: `ReadsInv` adds that
no completion is of a read not posted yet and that a deadline that is over belongs to a
pending read; `OnceMore` is the queue, `FinishEnds` is `finish_read` whoever calls it.
No run has `PortTypeOK` and `ReadsEndOnce` among its properties: they are theorems only.

`Dispatch_proof`.  `CallsTyped`, `BindingsAsked`, `StackBalanced`.  `Balanced`
speaks of the innermost call only and says nothing of where a return will land, so
it is not inductive.  `Stacked` is: every frame on the stack, when it has popped
what its function pops, lands where the frame below resumes.  `PushStacked` and
`PopStacked` are the two ways the stack changes; `RunGuestLands`, `HleReturnLands`,
`HleCallLands`, `DispatchingLands` and `CrossLands` say that each way to make a call
respects it, and one lemma per action follows.  `BindingsAsked` needs `Spanned`: the
span contains every binding, so its test never hides one.  The assumption that
the purge table agrees with what a function pops is used in `HleReturnLands`,
and nowhere else.

`Dispatch64_proof`.  `CallsTyped`, `CountersHaveOwners`, `StackComesBack`,
`ReportIsTrue`, for any number of threads, any depth of calls and
callbacks and any table size.  Here too the properties speak of the top of the stack or of
counts that a return undoes.  What is inductive is `Whole`, of one thread:

- `Good`: every activation stands where the one below goes on (`Joined`); CPUs never
  go down along the stack, and on one CPU the levels never do; the CPU a body puts
  back when it returns is the one of the guest code below it (`Before`).
- `Parked`: the stack pointer of a CPU under a bridge is what it was when the
  bridge was made.  This is what a callback's return lands on.
- `AtTop`: the stack pointer of the CPU in use is the level of the innermost
  activation.
- `Shadow`: depth and entries of the shadow stack are the pushed activations, counted
  from below.

Lemmas on sequences of activations come first: how each part survives a push, the mark of
a body that ended in a jump, and a pop.  `BodyStarts`, `OtherStarts`, `JumpMarks` and
`ActivationEnds` put them together, `EnterKeeps` and `ReturnKeeps` lift them to
steps, and each action is one of these.  `ThreadStep` says that the other
threads are left alone.

`Host64_proof`.  `HostTyped`, `FilesNamedRight`, `BoardFound`, `StallsTrue`.
`FilesNamedRight` needs that threads inside an open hold values of their own
(`OpensOwn`), slots of their own (`SlotsOwn`) that nobody has filled (`Unclaimed64`), and
that the newest slot of a handle that is open is the right one (`FoundRight`), which is
why a search from the end is right although slots are never freed.  `BoardFound` needs
`WritesStand` and `TableStands`: what a priming has written is still so unless
an init came after, and the table a thread found is still the one that is published.
`StallsTrue` is the safety half of `StallsReported`.

`Cabinet_proof`.  `CabinetTyped`, `RepliesReach`, `GuestIsOne`, `BlameIsRight`,
`BoardIsOne`, each from the invariant of its part.  The servers: `Served` (who is being
served is connected to that server), `Heard` (no more is received than was sent),
`WholeOrSilent` and `AnsweredWhole` (ALL.Net replies to a whole request, or to a sender that
is `Excused`), from which a reply of its own is never undone by bytes that come later.
The processes: `Family` (what a parent's and a child's states allow each other).  The
code: `Accounted` (what differs from the copy is a writer's that went untold, one's that is
coming in, or the jump being planted) and `Together` (of two that come in at once, both are
among the untold).  The board: `Counted`, `Walked` and `Spliced`.  Each part's invariant
stands still while the others move.

Model-checked only: liveness, which is outside the prover (`ReadEnds` of both ports,
`BoardStaysUp`, the second half of `StallsReported`,
`EveryRequestEnds`, `KeepsDesktop`).

## 6. Where the code and its comments part

Four runs are expected to find a violation.

- `CardReaderPower`: "an arcade cabinet is turned off at the wall" (`card.c:246`), and
  `fopen("wb")` empties the file before it is written.
- `Dispatch64Dump`: "The shadow call stack is maintained ALWAYS, not only under --trace"
  (`dispatch64.c:1659`), and a push and a pop give "a genuine call stack" (113).  A function
  named with `--log-call` returns before the push (1648-1657), so that a dump begins with
  its caller, and `es3_dump_callstack` indexes past the array once calls are nested deeper
  than `CS_MAX` (132), where the stall report clamps (195).
- `Dispatch64Frames`: "So: a private stack per thread" (1150) is what keeps a bridged call
  from writing over what it returns through.  A callback bridged while another one of the
  thread is still to be returned to starts at the top of that same stack (1160).
  The trace: a callback's body calls an import, which calls back.
- `CabinetAccept`: "One connection must not be able to stop the server"
  (`allnet.c:329`).  `accept` fails for a connection that was reset while it waited, and any
  failure ends the loop (352).

Seen while modelling, and without a run:

- "one press is one coin" (`jvs.c:630`).  The key is read only in the
  foreground, so losing and regaining it with the key held is a second edge.
  What does hold is `CoinsFromEdges`.
- A SYNC begins a packet, by the header and the comment at `jvs.c:343`; the loop
  takes a raw SYNC inside an unfinished packet as data.  What does hold is
  `BackInStep`: one invented packet at most, a bounded loss, and order from there
  on, unless the damaged length can never be reached.
- The authenticated sector outlives the card's leaving the field: only a select
  (`card.c:538`) and a release (555) clear it, so a card taken off and put back
  between two commands is still authenticated.
- `hle_callback.c:1151` describes a write's completion as what follows the write;
  the read its reply fills is completed first (line 1159).  `JvsPort`'s
  two-step write includes that order.
- The overlapped calls do not know the silent drive port: `ReadFileEx` and
  `WriteFileEx` on its made-up handle reach Windows.
- A node without an address answers packets to 0 (`jvs.c:200-202`).
- The coin-increase command (0x31) is answered as done and changes nothing
  (`jvs.c:312`).
- A command the node does not know ends the packet with status 2 and discards the
  reports of the commands before it, which have taken effect (`jvs.c:318-327`).
- The results of `fwrite` and `fclose` in `card_save` are not looked at
  (`card.c:254-257`): a short file counts as saved and is thrown away at the next
  boot.  `CardReader` models it, and `FileIsCard` allows for it.
- `hle.c:123-127` says of a forwarded import that the callee's own unwinding is
  better than the table's; where the table has an entry, the code uses the table
  (`hle.c:133-134`).  They agree as long as the table is right.
- `guest.c` says that one handler covers every unthunked callback there will ever
  be.  It does not cover a function that is bound and not lifted, one on a page
  with a planted stub (which `hle_callback.c` says), or a new one after 512
  others (`crash.c:671-697`).  `Dispatch` has each as a way for the thread to stop.
- The comment at `hle_callback.c:1500-1502` speaks of rewriting the answers for an empty
  port; the code rewrites one answer of a scan (lines 1542-1556), as `OneBoard` has it.
- The header of `allnet.c` says that `gethostbyname` answers 127.0.0.1 for anything
  (line 15); it answers 192.0.2.1 (lines 54-80), which `connect` puts back to
  loopback.  `getaddrinfo` and `WinHttpConnect` hand out 127.0.0.1 at once.
- A thread that resolves a name between `g_started` and the `bind` of another goes on to
  connect and is refused (`allnet.c:369`); a failed `bind` is never tried again.
- A report of rewritten code stops after forty ranges, and what it left is blamed
  on the next library (`guest.c`, `es3_guest_diff`).  `BlamedRight` excludes it.
- The header of `screen_watchdog` says that it ends the process when the display is
  covered; the code puts the window back, and ends the process after forty times.
- A load by `LoadLibraryEx` is not hooked, and one that fails is not diffed
  (`hle_callback.c:2099`): what either wrote is blamed on the next library.  `BlamedRight`
  excludes it.
- A page request in two pieces, or one longer than the buffer, is answered after the first
  `recv` and its answer then reset (`passport.c:211-215`).
- `ReadFileEx` on a port whose `DuplicateHandle` failed is posted all the same and ends
  without its routine (`jvs.c:909`).
- An image of the card that exists and cannot be opened is taken for none: a new card is
  made and the next save writes over the old one (`card.c:220-243`).

## 7. Not modelled

Wording, layout and logging; what a switch or an axis reads; the contents of
reports other than coin counts, of the card's replies and of the servers' pages;
encryption, of which the code has none (any key authenticates).  DXGI objects,
screenshots and input sampling keep no state a property could be about.  The lifter
is not in this commit, nor is the header guest exceptions unwind through in the
64-bit runtime.  The crossing into native code is assembly.  Crash reports and
watches are rings for a reader's eyes; the program never reads them.

Two races are left out because what follows from them is not in this code:

- two threads that open a port for the first time at once both find `g_ready` clear
  and initialise its lock twice (`jvs.c:842`);
- the region cache of `hle_native.c` (lines 108-120) is filled without a lock and
  never emptied; what a mixed or stale region answers depends on where Windows
  put two libraries.

Left out in particular, and small: a coin report longer than a body; the listen backlog of eight;
a hung window's effect on anything but the watchdog; a scan opened by another thread in
the middle of one; a ticker whose `CreateThread` failed.

`ES3_CARD_ALWAYS`, the busy byte of the 64-bit board that only `--rs-poke` sets, and
requests longer than the servers' buffers are left out of modules that are otherwise
whole.

## 8. Plan

What is left, the most load-bearing first.

1. An abstract overlapped file (each call completes once, on its thread) that
   both `JvsPort` and `CardPort` implement.  The invariants of `JvsPort` are its
   safety; `CardPort` would need the same proof with a fixed deadline.
2. `JvsPort.out` as a queue of bytes that `ByteRing` implements: the two meet in the
   README and not yet in a theorem.
3. The region cache with torn appends, once there is a claim about it to check.
4. The sequencer, and the driver's loop to a fixpoint over a lifter that is external.
5. `Dispatch` and `Dispatch64` as implementations of one machine that knows
   functions and no addresses.
